# A TLA+ model of marshall

`marshall` executes tools for agents: a Rust library with a registry of tools
(filesystem, shell, code, http, system, agent memory), and `marshalld`, an axum
daemon that offers the registry over HTTP under a policy file. This directory
holds a model of the registry, the daemon, the tools and the recording of experiments,
the TLC configurations that check the model, and proofs, checked by TLAPS, of the
properties that matter most.

Paths below are those of the repository (`src/registry.rs` is
`src/src/registry.rs` as `PROJECT.json` names it). `PROJECT.json` lists for every
definition the lines it models, for every hazard the properties aimed at it, and
for every property a plausible bug that violates it.

## The system

| component | state | operations | interacts with |
|---|---|---|---|
| idempotency cache (`registry.rs` 60-202) | `completed`: key to outcome and instant, behind one mutex | `execute_once`, `evict_expired` | every caller of one registry |
| tool registry (`registry.rs` 203-368) | map of tools, read-only after start | `execute`, `execute_batch`, `execute_sequence`, `apply_templates` | spawns a task per batch request |
| handlers (`bin/marshalld.rs` 254-933) | permits, sessions and their directories, metrics | execute, batch, sequence, stream, create and delete session | registry, policy in force, audit log |
| hot reload (`bin/marshalld.rs` 1283-1330) | channel of one message, `registry` and `egress_hosts` behind two RwLocks | watch, debounce, drain, load, publish | every handler |
| audit log (`bin/marshalld.rs` 944-982) | a file and its one rotation | append, rotate | `execute` |
| metrics (`bin/marshalld.rs` 60-200) | relaxed atomics and one locked map | count a request, observe an outcome, scrape | every handler |
| agent tools (`agent.rs`) | scoped memory, todo and plan lists; think and reflect keep none | store, recall, forget; add, update, clear | callers that share a scope |
| execution backend (`backend.rs`) | one child per call | spawn, stdin, capped reads, timeout, kill | shell and code tools |
| code tool (`code.rs`) | one temporary file per call | write, run, remove | backend |
| filesystem tool, sandbox (`fs.rs`, `sandbox.rs`) | the workspace | read, write, append, patch, move, copy, delete | other calls on the same files |
| http tool, destination (`http.rs`, `destination.rs`) | none | check, resolve, connect, read the body | registry, resolver |
| system tool (`system.rs`) | none | time, sleep, environment, hash, process list and kill | policy |
| policy (`policy.rs`) | none | load, validate | hot reload |
| experiment (`experiment/`) | trace files | bounded sequence, verify_change, record, analyse | registry |
| MCP servers (`bin/mcp_*.rs`) | none between lines | answer one line of stdin after the other | bounded sequence, verify_change |

What makes them hard:

* handlers are futures: each runs between awaits with all others, and is *dropped*
  at an await when its client goes away. What a dropped handler owned (a permit, a
  mutex guard) is released, what it spawned runs on, and what it had still to do
  (record an outcome, write a line) never happens;
* a lock is never held over a tool, so what was looked up before a run may be out of
  date after it;
* two locks guard what is conceptually one policy;
* a blocking job (an audit append, a file operation) goes on when the handler that waits
  for it is dropped, and the lock of the handler does not wait for it;
* what is checked once is used later: arguments, resolved addresses, sizes, paths;
* failures that the code ignores on purpose: of an audit line, a flush, a removal;
* time: an entry of the cache or of a memory may expire between any two steps of a call.

What makes each component correct: the cache answers a repeat only with a success made for that
key, stays within its capacity, and forgets nothing needlessly; batches answer in order and
within their bound, sequences stop where they should and hand every step the right outcomes; the
daemon gives every permit back, leaves no session without the directory it made for it, refuses
deleted sessions, answers everybody; the reload loses no edit and never publishes hosts ahead of
tools; the memory shows nothing that had expired, and ids lead to what they were given for; the
backend ends with its timeout; a file operation that nothing overlaps is done whole; the audit
log has no gaps but where jobs of dropped handlers mixed with later ones; a trace tells what
happened in the order it happened, and the metrics and verdicts made of it are true; a tool
unwraps nothing that its own check let be missing, and connects to addresses that it checked.

## Modules

| module | models |
|---|---|
| `OnceSpec` | abstract: what `execute_once` promises, without locks, time or capacity |
| `OnceCache` | `execute_once` and `evict_expired`, one action per lock section |
| `OnceCacheProofs` | theorems of `OnceCache`, among them that it implements `OnceSpec` |
| `PolicySwap` | abstract: what requests see of the policy in force |
| `HotReload` | watcher thread, channel and reload task |
| `HotReloadProofs` | theorems of `HotReload`, among them that it implements `PolicySwap` |
| `Marshalld` | the request handlers, on top of `PolicySwap` |
| `MarshalldProofs` | theorems of `Marshalld` |
| `Calls` | `execute_batch` and `execute_sequence` under the daemon's permits |
| `CallsProofs` | theorems of `Calls` |
| `Process` | one call of the shell or code tool down to its child process |
| `ProcessProofs` | theorems of `Process` |
| `Memory` | one scope of the memory tool, one action per lock section |
| `Lists` | one scope of the todo and plan tools |
| `Workspace` | the filesystem tool and the removal of a session, one action per awaited job |
| `Audit` | `audit_log` with its blocking job |
| `Counters` | the metrics and their scrape |
| `Experiment` | recorder, instrumented calls, analyzer and pattern miner |
| `Mcp` | the two stdio servers, `verify_change` |
| `Http` | one exchange of the http tool |
| `Arguments` | what each tool accepts and what its execute makes of it; think, reflect, system |
| `InOrder` | what is left of a sequence when some of its places are kept |
| `WorkspaceProofs` | theorems of `Workspace` |
| `RecordsProofs` | theorems of `Audit`, `Counters` and `Experiment` |
| `ToolsProofs` | theorems of `InOrder`, `Memory`, `Lists`, `Mcp`, `Http`, `Arguments`, and of all nine parts side by side |
| `MCTools` | `Memory` to `Arguments` side by side, for one run |
| other `MC*` | the instances TLC checks |

Operators with a suffix (`Miss_KeepsLock`, `Return_Early`, ...) are faulty
variants of the definition that follows them. No specification uses them: with the
definition replaced by its variant, TLC has to find the property at fault.

### OnceCache

`completed` maps a key to the run it is answered with and to its age, `mutex` is the
tokio mutex, `pc` is where each caller is. `Lookup` takes the lock and evicts;
`Hit` or `Miss` is the first check and drops the guard; `RunSucceeds`, `RunFails`,
`RunRefused` are the tool, run without the lock; `Relock` takes it again and evicts;
`RecordFound` is the second check, `RecordNew` the insertion with the eviction that
follows it only when the map has outgrown the capacity. `Abandon` drops the
future at any await. `Tick` ages the entries, up to the TTL. An eviction keeps the
unexpired entries and removes as many of them as exceed the capacity; which ones
depends on the order of a HashMap, so any. Runs are numbered in `runs`, which is
history, as are `everKept` and `sinceKept`.

`OnceSpec` has a memo that may be forgotten at any time. The refinement forgets
ages, the mutex and the program counter: a caller inside `execute_once` is one that
has asked.

### HotReload and PolicySwap

`Edit` modifies the file, usable or not (a partly written file is a load that fails);
`Notify` is the watcher's `blocking_send` on a channel of one; `Receive`,
`Debounce`, `Drain`, `Drained`, `Load` or `Unusable`, `PublishRegistry` and
`PublishHosts` are the loop of the task. Policies are numbered as they are loaded.
`PolicySwap` is what is left of all that for a request: the registry moves to the next
load, then the hosts follow.

### Marshalld

A request is a record of what decides its way through a handler: its route, the
sessions it names, whether an http tool is among its steps, its key. Whether its
arguments pass a check is open (`Refuse`), so every order of early returns is
there. `pc` follows the code: admission (`try_acquire_owned`), session check (under
the sessions mutex; a batch keeps the mutex over its steps and over the await of
the egress lock, an execute or a sequence does not), egress hosts (read once in
execute, once for every http step otherwise), the clone of the registry, the run, the
answer. `Return` is the end of the handler on every path: permit and mutex guard
are dropped. `Abandon` is the same at an await. `memo[n]` is the idempotency cache
of the n-th registry, as `OnceCache` describes it within one TTL and below its
capacity. `Swap` is a step of `PolicySwap`. `Mkdir`, `MkdirFails`, `Insert`, `Remove`,
`Rmdir`, `NotFound` are the session handlers; a failed sandbox leaves its directory,
and the result of `remove_dir_all` is ignored, as in the code.

The sandbox of the daemon is the workspace and the directories of sessions lie in it;
`fs delete` and `fs move` refuse the root alone. So `Take` may remove, or bring back, a session's
directory at any time: a tool of a run that is at work, or one whose handler was dropped. It
notes the session in `taken`, which is history. What is claimed is about the handlers:
a session without a directory is one of `taken`. A new session has a fresh uuid (`Fresh`), and
neither a deleted id nor one that has a directory.

### Calls

`Admit` takes a permit or `Refuse` answers that there is none. Between admission and the call
itself the handlers await the sessions, the egress hosts and the registry; there a call is
`Turn`ed away (403, 404) or its client leaves, and then nothing of it ever runs. `Start` is what
follows without another await: a batch gets a semaphore of `Clamp(max_concurrency)` and spawns its
tasks, a sequence enters its loop. `BeginTask` and `EndTask` are a spawned task, `Join` the
ordered await of the handles. `LeaveBatch` drops the handler of a batch that has started: its
permit returns and its tasks run on. A sequence runs its steps itself (`BeginStep`, `EndStep`),
records what its templates saw, and is dropped as a whole. `Hang` is a tool that never
returns, as `process_timeout` shows that one may; it keeps its place in the semaphore. Sizes are
within the 64 and 32 that the handlers allow; larger calls are refused before a permit is taken.

### Process

`pc` is the await the handler stands at: `WriteCodeToFile` (code tool only), `Spawn`, `Feed`
until `Fed` (the `write_all` of stdin), then under the timeout `Read`, `EndOfFile` and
`ReadFails` of the two readers that `join!` runs side by side, and `Collected` once
`child.wait()` has a status too, or `Timeout`; `Cleanup` removes the script. `Drop` is
the client leaving at an await. `ReapedOrKilled` is `kill_on_drop`, the only place that
signals the child. The child reads, writes, closes, forks one heir that inherits what
it likes, and exits; pipes hold `PipeSize` units and block a writer beyond that; a reader sees
the end only when no process holds the write end. Bytes are counted: `written` is what the
processes wrote, `kept` and `truncated` are what `read_capped` makes of it. An rlimit is an
`Exit` with another status.

### Memory and Lists

Every memory call is `EvictExpiredScope` and then, under a lock taken again, its operation:
`Store` (with the eviction of one of the oldest at the cap), `Recall`, `ListOrSearch` or `Forget`.
A recall that meets an expired entry drops the read lock and removes the key under
the write lock, in `RemoveRecalled`. `LeaveMemory` is the client leaving between two locks.
Ghosts: `from` is when the call evicted, `shown` what its answer was made of. A value
stored between the two locks of a recall is removed with the key; nothing
in the repository says otherwise, so there is no property about it.

Todo and plan calls take their lock once, so each is one step; the interest is in long
sequences of them. The item or plan is its number, an id is `<<n>>`, its replacement
`t{n}-{ms}` is `Second(n)`. `PlanUpdateNamed` and `PlanUpdateFirst` are the two readings that
`update_step` gives to a description.

### Workspace

A path is a sequence of names, a file a sequence of pieces. `Begin` is validation, resolution
and the refusals before the first await; then each blocking job is an action: `Truncate` and
`Fill` are `fs::write`, `AppendRead` and `PatchRead` what append and patch read first,
`SearchDirectory` one directory of the walk, `RemoveNext` one entry of `remove_dir_all`. `Look`
is list, stat and glob, which are taken to look once. `Leave` drops a call between two jobs.
`alone` is a ghost: nothing that writes overlapped the call. `Paths` is any finite set of names
closed under prefixes: a file system bounds the length of both. A search looks at no more of a
file than `ReadLimit` and 1 MiB (`SearchLimit`).

The root is that of the sandbox, and `Home`, the directory of a session, is one of the
directories in it. Calls are not tied to the session: any of them may name `Home`, what is below
it or what is beside it, and delete or move it. `DeleteSession` takes the session from the map
and removes `Home` under the calls that are still running; when it is gone, or a file by now
(`NotHere`), or cannot be removed, the answer is the same (`RemoveAnswer`).

### Audit and Counters

`LockAudit` is the tokio mutex, `StatAudit`, `Rotate`, `OpenAudit` and `WriteLine` are the
blocking job, which `LeaveAudit` leaves running without the lock. A stat, a rename or an append
may fail, and the job goes on to its next step: then the line goes to a log that is too long. A
rename keeps open files, so that a job that had opened the log writes to the rotated file. Once
the handler is dropped its job may be at work beside the next one, and the two can rotate a log
that is short or write out of order. `mixed` is a ghost that says so, and `mark` the line at
which such jobs had last all ended: `AuditWhole` is about the lines since then. `Observe` begins
the additions of one outcome; `Add` makes one of them visible, in any order, as the atomics are
relaxed; `BeginScrape` and `Load` are `exposition`, one series after the other; a page holds
what it shows, the buckets cumulatively (`Shown`).

### Experiment and Mcp

A turn hands work over (`HandOff`) and records it: `Started` once per event before the run,
`Run`, `Completed` per result, `OpenSequence` and `CloseSequence` around a bounded sequence.
`Emit` is an append that is flushed, or buffered when its flush fails. `Metrics`, `CheckCounts`
and `SuccessAfter`, `Windows` and `Mined` are the analyzer and the miner as functions of the
trace; `tally` is a ghost that counts what really happened.

`Mcp` reads a line (`ReadLine`), and for a call loads the configuration, resolves the
checks, prepares the repository, runs one check or step after the other and answers.
An error in the middle drops all that was found. A configuration may hold ids that the order
of checks does not know, and a request may name them. `Stop` is the end of `main`: of stdin, of
stdout, or of the current directory. `ran` is a ghost.

### Http and Arguments

`Validates` is the registry's check with a resolution of its own, `Checks` that of execute,
whose addresses the connection is pinned to; `Sends` connects, `TakesChunk` keeps what fits,
`Drains` only counts once twice the limit has come and stops past four times. Urls and addresses
are the classes that the code tells apart, a dot at the end of a host among them: the pin is made
for the name without the dot, the request goes to the URL as it came, so such a name is resolved
once more (`Unpinned`, `Peers`).

`Arguments` has for each tool and operation a `Rule`, what validation wants of each argument, and
a `Reader`, how execute takes it: what it unwraps, what it takes whole, what it has a default for.
The two are read from different functions. `Use` is what comes of an argument: `given`, a
`default`, `missing`, `beyond` its bound, or `narrowed`, for a pid that does not fit the i32 it
ends as. `Panics` is an unwrap of what is missing or an operation without an arm. A call comes
through the registry or straight to the tool.

### MCTools

The nine modules share no state, so that nothing is lost by checking them one at a
time: `part` is chosen at the start, the others stand still, and the state space is the sum
of theirs and not the product.

## Checks

| run | shows | instance |
|---|---|---|
| `once_cache` | capacity, answers earned, first success stays, rerun only after loss, every call returns, refinement of `OnceSpec` | 2 callers, 2 keys, capacity 1, TTL 2, 4 calls |
| `hot_reload` | the last usable edit takes effect; refinement of `PolicySwap` | 5 edits |
| `daemon` | permits, hosts never ahead, rerun only after a reload, no handler leaves a session without directory, deleted sessions | 3 clients, 2 permits, 3 requests of every kind, 1 reload, tools that take directories away |
| `daemon_answers` | every request is answered | 2 clients, 1 permit, 3 requests, 1 reload |
| `calls` | order, completeness, templates, early stop, every call closes unless a tool hangs, batches left after the spawn finish and those left before it run nothing | a batch and a sequence of 3, inner bound 2, 1 permit, any tool may hang |
| `process` | output accounted for exactly, script there while it may be run, no child left running, child dies once stdin is fed | 3 units of stdin, pipes of 2, limit 1, 2 units per stream |
| `tools` | nothing expired is shown; ids hold until something is cleared; a file operation alone is whole; the audit log has no gaps while jobs are one at a time, and after; traces in order, metrics and verdicts true; answers tell the body, of a checked peer where the name was pinned; accepted arguments suffice; quiet scrapes add up | below |
| `once_one_run`, `daemon_reload`, `process_timeout`, `append`, `plans` | a sentence of the repository that the code does not keep (see Findings) | as above, `process_timeout` with 1 unit per stream, `append` and `plans` only their part of `tools` |

Why the bounds are enough. *Cache*: two callers are a race, a third only adds waiters for the
mutex; two keys exceed a capacity of one and one key does not, so both sides of every comparison
with the capacity occur; a TTL of 2 has an entry that is fresh, one that is ageing and one that
is expired; the fourth call comes after a race, a loss and a retry. *Hot reload*: one edit being
served, one message in the channel, one blocked in the watcher, and two more that may come at
any point. *Daemon*: three clients on two permits have two handlers inside and one refused, or
one creating or deleting a session beside them; the properties relate at most two requests and
one reload. *Calls*: three steps have a first, a last and one between; a bound of two leaves one
waiting, and a request for no concurrency gets a bound of one. *Process*: more stdin than a pipe
holds, so a feed that blocks; a chunk below, at and across the limit and one after it; one heir,
as what matters is whether somebody else holds a descriptor. `MaxCalls`, `MaxEdits`,
`MaxRequests` and `MaxReloads` bound counters and histories only, and the theorems hold for
every value of them. The runs of the daemon, of the reload, of the calls and of the tools do not
check for deadlock because clients and editors may stop.

The parts of `tools`. *Memory*: two callers on two keys with room for one, ttls of 1 and 2 under
a clock of 3, so that an entry expires between the locks of a call, and outlives another.
*Lists*: caps of two and three made, so that the cap and a clear both come before another
create. *Workspace*: two calls at a time and three in all, on the root, a directory in it, a
file in that and one beside it; two may overlap, the third comes after them and finds a file
longer than `read_limit`; reads, writes and removals may fail half way. *Audit*: a limit of one
line, six lines, two handlers: several rotations, also while the job of a dropped handler runs,
and lines enough after such jobs have ended for another rotation. *Experiment*: two turns and
two hand-offs, each of the six kinds, one flush that fails. *Mcp*: three checks of which two
fit, one id that the order of checks does not have. *Http*: a limit of 2, chunks of up to 4 and
a body of up to 10: at, below, across, past twice and past four times the limit. *Arguments*:
every mixture of absent, mistyped, refused and proper arguments of every operation, and a pid
that is too wide. *Counters*: two handlers, two buckets, two scrapes.

What the models take from the environment: rename and open as on Linux; no symbolic
links; names that resolve to anything at any time; relaxed additions that become visible in
any order; trace lines shorter than the buffer of 8 KiB; programs, git and the network
succeed or fail at will.

Fairness. `SF(Step(c))` in `OnceCache` and `Marshalld`: tokio schedules a task that is ready,
tools return, and tokio's mutexes queue their waiters in order, so a handler that can get a lock
again and again gets it. That tools return is an assumption: `process_timeout` is a call that
does not, unless its client leaves. `EveryCallReturns` and `EveryRequestAnswered` are about
locks and permits under that assumption, not about tools. The guards of the egress and the
registry lock are dropped within the expression that reads them, so `Marshalld` reads each in
one step; the wait that is checked is the one inside the critical section of the sessions mutex.
`WF` on the watcher thread and the reload task in `HotReload`. In `Calls` `WF` on a handler and,
for a batch, on its tasks together: while some task can move, one does. There a tool may hang
instead (`Hang`), and the liveness properties say what is then still certain. In `Process` `WF`
on the handler, on its timer while it is armed, and on the kernel's SIGKILL; none on the child,
on a failing read or on the client. Nobody is made to send a request, edit a file or go away.

## Proofs

All theorems are for every number of callers, clients, keys, sessions, edits and for
every capacity and bound, from the `ASSUME`s of the modules alone.

*`OnceCacheProofs`.* None of the properties is inductive alone: that an answer is
earned depends on the entry it came from, and an entry on what its caller knew at
each point. `IInv` adds `CallState` (what each point of `execute_once` knows of its own
call) and `RetainedWhileRoom` (while all keys ever recorded fit, one recorded less than a TTL
ago is cached with the right age). Each part has a lemma, each lemma a step per
action; two lemmas on `Evictions` and `Inserted` carry all reasoning about
cardinality. From `IInv` follow `TypeCorrect`, `NeverOverCapacity`,
`OnlySuccessesCached`, `AnswersEarned`, and the action properties
`FirstSuccessWins` and `NoNeedlessRerun`; `Implementation` maps every step to one of
`OnceSpec` or to a stutter.

*`HotReloadProofs`.* `IInv` says how far the registry and the hosts are behind the loads
at each point of the task. `TypeCorrect` and `Implementation` follow.

*`MarshalldProofs`.* `IInv` adds to the types: who holds the sessions mutex, which
routes reach which point, where a session is between creation and deletion, that
a request for a deleted session never gets past its check, how far the hosts are
behind the registry, and where a key that was answered is cached. Where a session is says also
what a creation in progress knows: its directory is there or was taken. The permits are counted
with the cardinality of the set of handlers inside. From it follow `TypeCorrect`,
`PermitsAreConserved`, `HostsFollow`, `RerunsFollowReloads`, `SessionsKeepDirectories`
and `DeletedSessionsStayDeleted`.

*`CallsProofs`.* `IInv` adds to the properties that open calls and free permits add up,
that calls not admitted have done nothing, that a batch stays within its own semaphore,
and how far a sequence is (`OneByOne`). A step moves one call and leaves the others as
they are (`Others`), and no outcome is ever changed (`EndedStays`); with these, each part
needs only the moves of the call it speaks of. `WithinLimit` ties the tools at work, hung ones
included, to the semaphore of the batch and that to the clamp of what its own request asked;
`BatchBounded` speaks of the request alone. `TypeCorrect`, `AnswersInOrder`,
`BatchBounded`, `CompleteWhenAnswered`, `TemplatesSeeTheirSteps` and `SequenceStops` follow.

*`ProcessProofs`.* `IInv` relates what was kept to what has left the pipe (`Accounted`), says
that an end of file is final because no write end is opened again (`EndIsFinal`), that an
answer waited for both ends (`AnswerState`), and where the child and the script are at each
point. `TypeCorrect`, `OutputIsFaithful`, `ScriptStays` and `ChildrenAreKilled` follow, for
any limit, pipe size and amount of data.

*`RecordsProofs`.* *Audit*: unless jobs are mixed there is one job, and it rotates only a log
past the limit (`OneJob`); every line since `mark` is counted back from the last (`Gapless`).
When the last of the mixed jobs ends, `mark` is the number of lines written, of which nothing is
claimed, and both hold anew. `AuditTypeCorrect` and `LogIsWhole` follow. *Counters*: totals and
buckets agree only when nobody is between two additions, so `Balanced` counts who is: the sum of
the buckets and the observers that have still to add to one make the totals and the observers
that have still to add to one of those. The sum is a function that the invariant says exists,
since the module declares no recursion. `Ascending` compares two pages and the counters bucket
by bucket, each with the bucket below it. `QuietScrapesAreExact` follows. *Experiment*: the
invariant is about all lines, also the buffered ones, of which the file is a prefix: `Tallied`
(the ghost counts them), `Matched` (at every line, ends of a call do not outnumber its starts,
and the starts leave room for every turn that waits), `Sequenced` (what a bounded sequence has
written while it goes on). From it follow `TraceIsInOrder` and `MetricsAreTrue`; that the counts
of the miner add up is a bijection between the events and the units that are counted (`Units`).

*`WorkspaceProofs`.* `CallOK` says what a call was checked for when it began and where it may
stand, and `DoneSoFar` what a call that nothing overlapped has done to the tree it found:
nothing, a truncated file, a directory of which some is removed, a walk that has found all but
what is below the directories that are left. That every prefix of a path in the tree is a
directory (`Rooted`) is kept by every step, whatever it does to `Home`; only the root itself is
never removed or moved. A write can only be undisturbed while nobody else writes; the lemmas on
a call that begins (`JoinsOK`), goes on (`OnwardOK`) and ends (`EndsOK`) show that of the other
calls, so each action is left with its own. `WorkspaceTypeCorrect` and the action property
`AloneIsOnePiece` follow, for any paths, any overlap and any failures.

*`ToolsProofs`.* *InOrder*: the places that are kept have ranks without a gap (an injection of a
finite set into one of its size is onto), so `Retained` is a sequence of kept elements in order.
*Memory*: every entry a call may still show lived when the call evicted (`MemoryFresh`): what
goes only shrinks the memory (`Shrunk`), what comes is younger; with the cap, by cardinality,
`MemoryTypeCorrect` and `NothingExpiredIsShown` follow. *Lists*: until something was cleared,
ids are places and everything that was answered is where its id says (`Answered`);
`AnsweredIdsHold` follows. *Mcp*: `Evidence` ties what is shown to what ran and to what was
wanted, `Progress` says what a run has passed at each stage; `VerdictsAreTrue` follows. *Http*:
`Pinned` says where the addresses and, for a name that is pinned, the peer come from, `Counted`
what the chunks so far amount to; `AnswersFaithfully` follows, for any limit and any chunks.
*Arguments*: a call keeps what it passed (`PassedChecks`), and what was used is what its execute
makes of arguments that passed (`UsesPassed`); that no such use is missing, a default for what
may not be left out, or beyond a bound, is one case per tool of its rule against its reader
(`AcceptedIsFine`). `AcceptedSuffices` follows.

Last, the whole is shown to implement each of its parts (`PartsRun`: a step of the whole is a
step of one part and a stutter of every other), so that all these theorems hold of the
specification that the run checks: `ToolsTypeCorrect` and `PartsAreSafe`.

`OnlySuccessesCached` and `BatchBounded` are proved and no run lists them: they follow from
the inductive invariants of their modules.

Every invariant that a passing run checks is a theorem, and so are the action properties
`FirstSuccessStays`, `RerunNeedsLoss`, `AloneIsAtomic` and both refinements. Only model-checked
are the liveness properties (`EveryCallReturns`, `LastPolicyTakesEffect`,
`EveryRequestAnswered`, `EveryCallCloses`, `LeftBatchesFinish`, `CollectEnds`): fairness and
ENABLED are out of the prover's reach. So is induction over a predicate: where a proof needs the
least or the greatest of something, it has it from a finite set, from a well-founded relation
(`WFMin`) or from an existential in the invariant.

## Findings

Each is a sentence in the repository that a run refutes.

* `once_one_run`: a comment of `execute_once` says one mutex over check and insert keeps N
  concurrent callers from all executing. The mutex is dropped before the run, so they do;
  only the first success is recorded and returned to all.
* `daemon_reload`: `serve` announces that the registry is swapped atomically, including
  egress hosts. They are swapped, and read, one after the other: a request may be checked
  against the old hosts and run on the new tools. The other way round cannot happen
  (`HostsNeverAhead`).
* `process_timeout`: `ExecutionBackend` must enforce the timeout and kill the child. The local
  backend writes all of stdin before it starts the timer, and reads nothing meanwhile: a
  child that does not read, or fills its output pipe first, runs for ever and so does its
  call, unless the client leaves. (That the child is killed once stdin is fed is
  `CollectEnds`. A process the child forked is never signalled; the code does not claim it.)
* `append`: the roadmap calls append an atomic read and write. It reads the file in one
  job and writes it back in another, so that what another call wrote in between is lost.
* `plans`: the schema of the plan tool has get by id and clear by id. A new plan is numbered by
  how many are left; after a clear, or at the cap, that may be the id of a plan that is alive,
  which the new one replaces: the old id leads to another plan. (The id of a todo item is given
  again once the item was cleared; one that is alive only when both `t{n}` and its replacement
  are taken.)

Three more sentences are not kept by the code, and no run states them; the models have the
behaviour, and the properties beside it say what is left:

* `marshalld.rs` 965 says that the rotation is serialized via `audit_lock`. The blocking job of
  a handler that is dropped goes on without the lock, beside the next one (`LeaveAudit`).
* `http.rs` 30-33 says that the validated addresses are pinned and the host is not resolved
  again. Validation strips a dot from the end of the name (`destination.rs` 255), the
  pin is made for what is left (`http.rs` 234), and the request goes to the URL with the dot
  (`http.rs` 239), which is another name to the client (`Unpinned`).
* `system.rs` 22 says that `process_kill` refuses pid 0, 1 and its own. Validation
  compares the u64, execute narrows it to an i32 (`system.rs` 352): a value beyond 32 bits that
  passes may name another process (`Use`).

Seen on the way, and not contradicted by anything the repository says: a tool called
directly, not through the registry, relies for `bounded_sequence` on a validation that did not
happen (`AcceptedArgumentsSuffice` leaves that case out); a body of exactly the limit is flagged as
truncated when an empty chunk follows.

## Not modelled, and why

* The text side: the syntax of urls and addresses, path normalisation, redaction, the
  deserialisation of the policy. They are sequential and stateless; the models have classes
  of inputs, or keep the outcome open.
* `apply_templates`: only which outcomes a template sees. The substitution, and the text
  that is duplicated at the 33rd placeholder, is text on text.
* The start-up of `serve`, which reads the policy file a second time for the hosts: before the
  watcher exists nothing promises that both reads see one file.
* The event stream of `/stream` and `execute_streaming`: one producer, one reader, a channel.
* Symbolic links and openat2 in the sandbox; rlimits other than as one way in which a child ends.
* The sum of the durations in the metrics.
* Agent turns with their tokens, the collector of repository state, reports and runner
  programs of the experiment: offline, sequential, no state kept.
* Wasm and container backends: behind features that are off by default.
* SDKs, examples, fuzz targets, validation scripts.

`PROJECT.json` lists every component and, for hazards no property covers, why.

## Plan

In the order of what matters most:

1. An abstract specification of a call (it ends, and its child with it) that `Process` is
   shown to implement; that a handler of `Marshalld` whose run is a batch is a call of `Calls`.
2. `Templates` as a recursive function against a reference substitution; the start-up of
   `serve` in `HotReload`.
3. The event stream as a producer that its reader may leave.

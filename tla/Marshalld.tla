----------------------------- MODULE Marshalld ------------------------------
(***************************************************************************)
(* The request handlers of marshalld (src/bin/marshalld.rs) on their       *)
(* shared state: the permits of the concurrency cap, the sessions and      *)
(* their directories, the policy in force, and the idempotency cache of    *)
(* each registry.  A handler is a task of its own; between two of its      *)
(* steps any other handler or the hot reload may run.                      *)
(*                                                                         *)
(* A request is a record of what decides its way through the handler; its  *)
(* arguments, and so the outcome of every check on them, are left open.    *)
(* The cache is that of OnceCache within one TTL and below its capacity.   *)
(***************************************************************************)
EXTENDS PolicySwap, FiniteSets

CONSTANTS Client,       \* concurrent connections
          Session,      \* session ids (uuids)
          Key,          \* idempotency keys
          Request,      \* the requests clients make
          Concurrency,  \* permits of the semaphore
          Nobody,       \* the sessions lock is free
          NoKey,        \* a request without an idempotency key
          MaxRequests,  \* bound on the requests
          MaxReloads    \* bound on the reloads

Kind == {"execute", "batch", "sequence", "stream", "create", "delete"}

\* kind: the route; sessions: the session ids it names; http: whether an http tool
\* is among its steps; key: its idempotency key.
Form == [kind : Kind, sessions : SUBSET Session, http : BOOLEAN, key : Key \cup {NoKey}]

ASSUME RequestAssumption ==
  /\ Request # {} /\ Request \subseteq Form
  /\ \A r \in Request : r.kind = "delete" => \E s \in Session : r.sessions = {s}
ASSUME ClientAssumption == IsFiniteSet(Client) /\ Nobody \notin Client
ASSUME KeyAssumption == NoKey \notin Key
ASSUME ConcurrencyAssumption == Concurrency \in Nat \ {0}
ASSUME BoundAssumption == MaxRequests \in Nat /\ MaxReloads \in Nat

VARIABLES
  permits,       \* permits left in the semaphore
  sessions,      \* AppState.sessions: the ids in the map
  directories,   \* the session directories on disk
  taken,         \* history: the sessions whose directory something else took away
  sessionsLock,  \* who holds the sessions mutex across several steps, or Nobody
  memo,          \* memo[n]: the keys in the cache of the n-th registry
  pc,            \* where each client's handler is
  req,           \* req[c]: the latest request of c
  hosts,         \* hosts[c]: the egress hosts it was last checked against, 0 if none
  reg,           \* reg[c]: the registry its handler took, 0 if none
  ok,            \* ok[c]: whether its outcome is a success
  gone,          \* history: the sessions that were deleted
  served,        \* history: served[k]: the newest registry that a success was answered from
  before,        \* history: before[c]: served[k] when c's request for k arrived
  stale,         \* history: stale[c]: the request named a session deleted before it arrived
  requests       \* history: number of requests

local == <<pc, req, hosts, reg, ok, before, stale>>
disk == <<directories, taken>>
vars == <<permits, sessions, disk, sessionsLock, memo, local, gone, served,
          requests, policy>>

\* Between them a handler holds a permit.
Checking == {"session", "locked", "egress", "snapshot"}
Running == {"lookup", "run", "record", "answer"}
Admitted == Checking \cup Running
Holders == {c \in Client : pc[c] \in Admitted}
\* Between them a handler holds the sessions mutex.
Locked == {"locked", "rmdir"}

Location == {"idle", "admit", "mkdir", "insert", "remove", "rmdir"} \cup Admitted

\* Number of a registry, or of its hosts; 0 for none.
Version == 0..(MaxReloads + 1)

StateOK ==
  /\ sessions \subseteq Session
  /\ directories \subseteq Session
  /\ taken \subseteq Session
  /\ sessionsLock \in Client \cup {Nobody}
  /\ memo \in [1..(MaxReloads + 1) -> SUBSET Key]
  /\ pc \in [Client -> Location]
  /\ req \in [Client -> Form]
  /\ hosts \in [Client -> Version]
  /\ reg \in [Client -> Version]
  /\ ok \in [Client -> BOOLEAN]
  /\ gone \subseteq Session
  /\ served \in [Key -> Version]
  /\ before \in [Client -> Version]
  /\ stale \in [Client -> BOOLEAN]
  /\ requests \in 0..MaxRequests
  /\ registry \in 1..(MaxReloads + 1)
  /\ egress_hosts \in 1..(MaxReloads + 1)

\* Types of all variables; the permits never exceed those of the semaphore.
TypeOK == permits \in 0..Concurrency /\ StateOK

Init ==
  /\ PolicyInit
  /\ permits = Concurrency
  /\ sessions = {}
  /\ directories = {}
  /\ taken = {}
  /\ sessionsLock = Nobody
  /\ memo = [n \in 1..(MaxReloads + 1) |-> {}]
  /\ pc = [c \in Client |-> "idle"]
  /\ req = [c \in Client |-> CHOOSE r \in Request : TRUE]
  /\ hosts = [c \in Client |-> 0]
  /\ reg = [c \in Client |-> 0]
  /\ ok = [c \in Client |-> FALSE]
  /\ gone = {}
  /\ served = [k \in Key |-> 0]
  /\ before = [c \in Client |-> 0]
  /\ stale = [c \in Client |-> FALSE]
  /\ requests = 0

-----------------------------------------------------------------------------
(* The way of a handler. *)

\* execute_once is called for a request that carries a key, by execute alone.
Once(c) == req[c].kind = "execute" /\ req[c].key # NoKey

First(r) ==
  CASE r.kind = "create" -> "mkdir"
    [] r.kind = "delete" -> "remove"
    [] OTHER -> "admit"

AfterSession(r) == IF r.http THEN "egress" ELSE "snapshot"

\* Streaming checks nothing more; execute looks at the sessions only when it names
\* one; batch and sequence always take the lock.
AfterAdmission(r) ==
  CASE r.kind = "stream" -> "snapshot"
    [] r.kind = "execute" /\ r.sessions = {} -> AfterSession(r)
    [] OTHER -> "session"

Goto(c, from, to) ==
  /\ pc[c] = from
  /\ pc' = [pc EXCEPT ![c] = to]

\* Faulty variant: the permit is given back only by a handler that has run.
Return_Early(c) ==
  /\ pc' = [pc EXCEPT ![c] = "idle"]
  /\ permits' = IF pc[c] \in Running THEN permits + 1 ELSE permits
  /\ sessionsLock' = IF pc[c] \in Locked THEN Nobody ELSE sessionsLock

\* Faulty variant: an early return leaves the sessions mutex locked.
Return_KeepsLock(c) ==
  /\ pc' = [pc EXCEPT ![c] = "idle"]
  /\ permits' = IF pc[c] \in Admitted THEN permits + 1 ELSE permits
  /\ sessionsLock' = IF pc[c] = "rmdir" THEN Nobody ELSE sessionsLock

\* The handler ends: its permit and the mutex guard it may hold are dropped.
Return(c) ==
  /\ pc' = [pc EXCEPT ![c] = "idle"]
  /\ permits' = IF pc[c] \in Admitted THEN permits + 1 ELSE permits
  /\ sessionsLock' = IF pc[c] \in Locked THEN Nobody ELSE sessionsLock

Free == sessionsLock = Nobody

Arrive(c, r) ==
  /\ requests < MaxRequests
  /\ Goto(c, "idle", First(r))
  /\ req' = [req EXCEPT ![c] = r]
  /\ hosts' = [hosts EXCEPT ![c] = 0]
  /\ reg' = [reg EXCEPT ![c] = 0]
  /\ ok' = [ok EXCEPT ![c] = FALSE]
  /\ before' = [before EXCEPT ![c] = IF r.key \in Key THEN served[r.key] ELSE 0]
  /\ stale' = [stale EXCEPT ![c] = r.sessions \cap gone # {}]
  /\ requests' = requests + 1
  /\ UNCHANGED <<permits, sessions, disk, sessionsLock, memo, gone, served, policy>>

\* Faulty variant: admitted even when no permit is left.
Admit_Always(c) ==
  /\ Goto(c, "admit", AfterAdmission(req[c]))
  /\ permits' = permits - 1
  /\ UNCHANGED <<sessions, disk, sessionsLock, memo, req, hosts, reg, ok, before,
                 stale, gone, served, requests, policy>>

\* try_acquire_owned.
Admit(c) ==
  /\ permits > 0
  /\ Goto(c, "admit", AfterAdmission(req[c]))
  /\ permits' = permits - 1
  /\ UNCHANGED <<sessions, disk, sessionsLock, memo, req, hosts, reg, ok, before,
                 stale, gone, served, requests, policy>>

\* 503 concurrency_limited.
Reject(c) ==
  /\ pc[c] = "admit"
  /\ permits = 0
  /\ Return(c)
  /\ UNCHANGED <<sessions, disk, memo, req, hosts, reg, ok, before, stale, gone,
                 served, requests, policy>>

-----------------------------------------------------------------------------
(* The checks before a run. *)

Moved(c, from, to) ==
  /\ Goto(c, from, to)
  /\ UNCHANGED <<permits, sessions, disk, memo, req, hosts, reg, ok, before, stale,
                 gone, served, requests, policy>>

Named(c) == req[c].sessions \subseteq sessions

\* execute and sequence: the sessions exist and the paths are inside; the mutex is
\* not held across an await.
CheckSession(c) ==
  /\ req[c].kind \in {"execute", "sequence"}
  /\ Free
  /\ Named(c)
  /\ Moved(c, "session", AfterSession(req[c]))
  /\ UNCHANGED sessionsLock

\* batch keeps the mutex until all its steps are checked.
LockSessions(c) ==
  /\ req[c].kind = "batch"
  /\ Free
  /\ Moved(c, "session", "locked")
  /\ sessionsLock' = c

\* Faulty variant: the ids that the steps name are not looked up.
Unlock_Unchecked(c) ==
  /\ req[c].http => hosts[c] # 0
  /\ Moved(c, "locked", "snapshot")
  /\ sessionsLock' = Nobody

Unlock(c) ==
  /\ Named(c)
  /\ req[c].http => hosts[c] # 0
  /\ Moved(c, "locked", "snapshot")
  /\ sessionsLock' = Nobody

\* egress_allowed_hosts: once in execute, for every http step otherwise.
ReadHosts(c) ==
  /\ pc[c] \in {"locked", "egress"}
  /\ req[c].http
  /\ hosts[c] # egress_hosts
  /\ req[c].kind = "execute" => hosts[c] = 0
  /\ hosts' = [hosts EXCEPT ![c] = egress_hosts]
  /\ UNCHANGED <<permits, sessions, disk, sessionsLock, memo, pc, req, reg, ok,
                 before, stale, gone, served, requests, policy>>

Cleared(c) ==
  /\ hosts[c] # 0
  /\ Moved(c, "egress", "snapshot")
  /\ UNCHANGED sessionsLock

\* 400 batch_too_large or sequence_too_large, 404 session_not_found, 403 for a path,
\* a destination or the allowlist.  Which arguments fail which check is left open.
Refuse(c) ==
  /\ \/ pc[c] = "admit" /\ req[c].kind \in {"batch", "sequence"}
     \/ pc[c] = "session" /\ req[c].kind # "batch" /\ Free /\ req[c].sessions # {}
     \/ pc[c] = "locked" /\ (req[c].sessions # {} \/ req[c].http)
     \/ pc[c] = "egress"
  /\ Return(c)
  /\ UNCHANGED <<sessions, disk, memo, req, hosts, reg, ok, before, stale, gone,
                 served, requests, policy>>

-----------------------------------------------------------------------------
(* The run. *)

\* registry.read().await.clone(): the handler keeps this registry to its end.
Snapshot(c) ==
  /\ Goto(c, "snapshot", IF Once(c) THEN "lookup" ELSE "run")
  /\ reg' = [reg EXCEPT ![c] = registry]
  /\ UNCHANGED <<permits, sessions, disk, sessionsLock, memo, req, hosts, ok, before,
                 stale, gone, served, requests, policy>>

Ended(c, from, to, success) ==
  /\ Goto(c, from, to)
  /\ ok' = [ok EXCEPT ![c] = success]
  /\ UNCHANGED <<permits, sessions, disk, sessionsLock, req, hosts, reg, before,
                 stale, gone, served, requests, policy>>

Hit(c) ==
  /\ Ended(c, "lookup", "answer", TRUE)
  /\ req[c].key \in memo[reg[c]]
  /\ UNCHANGED memo

Miss(c) ==
  /\ Ended(c, "lookup", "run", FALSE)
  /\ req[c].key \notin memo[reg[c]]
  /\ UNCHANGED memo

\* Its tools may take a directory away meanwhile: see Take.
RunSucceeds(c) ==
  /\ Ended(c, "run", IF Once(c) THEN "record" ELSE "answer", TRUE)
  /\ UNCHANGED memo

\* A failed outcome, or in a batch or a sequence an error among the results.
RunFails(c) ==
  /\ Ended(c, "run", "answer", FALSE)
  /\ UNCHANGED memo

\* An error of execute (400) or of a stream (an error event).
RunRefused(c) ==
  /\ pc[c] = "run"
  /\ req[c].kind \in {"execute", "stream"}
  /\ Return(c)
  /\ UNCHANGED <<sessions, disk, memo, req, hosts, reg, ok, before, stale, gone,
                 served, requests, policy>>

\* Faulty variant: the outcome is not recorded.
Record_Nothing(c) ==
  /\ Ended(c, "record", "answer", TRUE)
  /\ UNCHANGED memo

\* The second half of execute_once, in the cache of the registry that was taken.
Record(c) ==
  /\ Ended(c, "record", "answer", TRUE)
  /\ memo' = [memo EXCEPT ![reg[c]] = @ \cup {req[c].key}]

\* 200, after the audit line of execute.
Answer(c) ==
  /\ pc[c] = "answer"
  /\ Return(c)
  /\ served' = IF Once(c) /\ ok[c] /\ served[req[c].key] < reg[c]
                 THEN [served EXCEPT ![req[c].key] = reg[c]]
                 ELSE served
  /\ UNCHANGED <<sessions, disk, memo, req, hosts, reg, ok, before, stale, gone,
                 requests, policy>>

-----------------------------------------------------------------------------
(* Sessions. *)

\* No session and no directory has had this uuid.
Fresh == Session \ (gone \cup directories \cup taken)

\* A new uuid and its directory.
Mkdir(c) ==
  \E s \in Fresh :
    /\ Goto(c, "mkdir", "insert")
    /\ directories' = directories \cup {s}
    /\ req' = [req EXCEPT ![c].sessions = {s}]
    /\ UNCHANGED <<permits, sessions, taken, sessionsLock, memo, hosts, reg, ok, before,
                   stale, gone, served, requests, policy>>

\* 500: the directory cannot be made, or it can but no sandbox on it.
MkdirFails(c) ==
  /\ pc[c] = "mkdir"
  /\ \/ UNCHANGED directories
     \/ \E s \in Fresh : directories' = directories \cup {s}
  /\ Return(c)
  /\ UNCHANGED <<sessions, taken, memo, req, hosts, reg, ok, before, stale, gone, served,
                 requests, policy>>

Insert(c) ==
  /\ pc[c] = "insert"
  /\ Free
  /\ sessions' = sessions \cup req[c].sessions
  /\ Return(c)
  /\ UNCHANGED <<disk, memo, req, hosts, reg, ok, before, stale, gone, served,
                 requests, policy>>

\* Faulty variant: the directory goes before the mutex is taken.
Remove_DirectoryFirst(c) ==
  /\ pc[c] = "remove"
  /\ Named(c)
  /\ Goto(c, "remove", "rmdir")
  /\ directories' = directories \ req[c].sessions
  /\ UNCHANGED <<permits, sessions, taken, sessionsLock, memo, req, hosts, reg, ok,
                 before, stale, gone, served, requests, policy>>

\* The entry goes first; the mutex is held until the directory is gone too.
Remove(c) ==
  /\ Free
  /\ Named(c)
  /\ Goto(c, "remove", "rmdir")
  /\ sessions' = sessions \ req[c].sessions
  /\ gone' = gone \cup req[c].sessions
  /\ sessionsLock' = c
  /\ UNCHANGED <<permits, disk, memo, req, hosts, reg, ok, before, stale, served,
                 requests, policy>>

\* remove_dir_all, whose error is ignored.
Rmdir(c) ==
  /\ pc[c] = "rmdir"
  /\ directories' \in {directories, directories \ req[c].sessions}
  /\ Return(c)
  /\ UNCHANGED <<sessions, taken, memo, req, hosts, reg, ok, before, stale, gone, served,
                 requests, policy>>

NotFound(c) ==
  /\ pc[c] = "remove"
  /\ Free
  /\ ~Named(c)
  /\ Return(c)
  /\ UNCHANGED <<sessions, disk, memo, req, hosts, reg, ok, before, stale, gone,
                 served, requests, policy>>

\* The sandbox of the daemon is the workspace, and every session's directory lies in
\* it: fs delete and fs move refuse the root alone, so a tool may take such a directory
\* away, and a move may bring it back.  It may be a tool of a run that is still at
\* work, or one that was dropped with its handler and goes on in its thread (or some
\* other program).
Take ==
  \E s \in directories \cup taken :
    /\ directories' \in {directories \ {s}, directories \cup {s}}
    /\ taken' = taken \cup {s}
    /\ UNCHANGED <<permits, sessions, sessionsLock, memo, local, gone, served, requests,
                   policy>>

-----------------------------------------------------------------------------

\* The client goes away: the handler is dropped at an await, and what it holds with it.
Abandon(c) ==
  /\ \/ pc[c] \in {"session", "egress", "snapshot", "lookup", "run", "record", "insert",
                   "remove"}
     \/ pc[c] = "locked" /\ req[c].http
     \/ pc[c] = "answer" /\ req[c].kind = "execute"
  /\ Return(c)
  /\ UNCHANGED <<sessions, disk, memo, req, hosts, reg, ok, before, stale, gone,
                 served, requests, policy>>

\* HotReload, as PolicySwap describes it.
Swap ==
  /\ PolicyNext
  /\ registry' <= MaxReloads + 1
  /\ egress_hosts' <= MaxReloads + 1
  /\ UNCHANGED <<permits, sessions, disk, sessionsLock, memo, local, gone, served,
                 requests>>

Step(c) ==
  \/ Admit(c) \/ Reject(c)
  \/ CheckSession(c) \/ LockSessions(c) \/ Unlock(c)
  \/ ReadHosts(c) \/ Cleared(c) \/ Refuse(c)
  \/ Snapshot(c) \/ Hit(c) \/ Miss(c)
  \/ RunSucceeds(c) \/ RunFails(c) \/ RunRefused(c)
  \/ Record(c) \/ Answer(c)
  \/ Mkdir(c) \/ MkdirFails(c) \/ Insert(c)
  \/ Remove(c) \/ Rmdir(c) \/ NotFound(c)

Next ==
  \/ Swap
  \/ Take
  \/ \E c \in Client :
       \/ \E r \in Request : Arrive(c, r)
       \/ Step(c)
       \/ Abandon(c)

\* Handlers are scheduled, tools return, and the sessions mutex queues its waiters.
Fairness == \A c \in Client : SF_vars(Step(c))

Spec == Init /\ [][Next]_vars /\ Fairness

-----------------------------------------------------------------------------
(* Properties. *)

\* Whatever way a handler ends, its permit comes back, once: the cap neither
\* shrinks with refused and abandoned requests nor grows.
PermitsConserved == permits + Cardinality(Holders) = Concurrency

\* The reload publishes the registry first and a handler reads the hosts first, so
\* no request that was checked against new hosts runs on tools of an older policy.
HostsNeverAhead == \A c \in Client : reg[c] # 0 => hosts[c] <= reg[c]

\* A key whose success has been answered is run again only on a registry newer than
\* the one that answered.
RerunOnlyAfterReload ==
  \A c \in Client : pc[c] = "run" /\ Once(c) /\ before[c] # 0 => before[c] < reg[c]

\* The handlers, in whatever order they create and delete, never leave a session in
\* the map without its directory: one that is without has lost it to a tool or to
\* another program.
SessionsHaveDirectories == sessions \subseteq directories \cup taken

\* A request that names a session deleted before it arrived never runs a tool,
\* whichever of its steps names it.  (Streaming looks at no session.)
DeletedStaysDeleted ==
  \A c \in Client : stale[c] /\ req[c].kind # "stream" => pc[c] \notin Running

\* Every request is answered, or its client leaves: nobody waits for ever for the
\* sessions mutex or for a permit.
EveryRequestAnswered == \A c \in Client : pc[c] # "idle" ~> pc[c] = "idle"

\* main says the reload swaps the registry atomically, including egress hosts: a
\* request is checked and run under one policy.
OnePolicyPerRequest == \A c \in Client : reg[c] # 0 /\ hosts[c] # 0 => hosts[c] = reg[c]

-----------------------------------------------------------------------------
(* The inductive invariant of the proofs. *)

\* The mutex is held by the handler that is between taking and dropping it.
LockState == \A c \in Client : sessionsLock = c <=> pc[c] \in Locked

\* Only the four execute routes get to a permit, and execute_once is inside them.
RouteState ==
  \A c \in Client :
    /\ pc[c] \in Admitted \cup {"admit"} => req[c].kind \notin {"create", "delete"}
    /\ pc[c] = "mkdir" => req[c].kind = "create"
    /\ pc[c] \in {"lookup", "record"} => Once(c)
    /\ pc[c] \in {"admit"} \cup Checking => reg[c] = 0
    /\ pc[c] \in Running => reg[c] # 0

\* Where a session is between its creation and its deletion.
SessionState ==
  /\ sessions \subseteq directories \cup taken
  /\ sessions \cap gone = {}
  /\ \A c \in Client : pc[c] = "insert" =>
       /\ req[c].sessions \subseteq directories \cup taken
       /\ req[c].sessions \cap (gone \cup sessions) = {}
  /\ \A c, d \in Client : pc[c] = "insert" /\ pc[d] = "insert" /\ c # d =>
       req[c].sessions \cap req[d].sessions = {}
  /\ \A c \in Client : pc[c] = "rmdir" => req[c].sessions \subseteq gone

\* A request that names a deleted session does not get past the check of its sessions.
StaleState ==
  \A c \in Client : stale[c] /\ req[c].kind \notin {"stream", "create", "delete"} =>
    /\ req[c].sessions \cap gone # {}
    /\ pc[c] \notin {"egress", "snapshot"} \cup Running

\* The hosts follow the registry by at most one load, and so do those a handler saw.
PolicyState ==
  /\ egress_hosts <= registry
  /\ registry <= egress_hosts + 1
  /\ \A c \in Client : hosts[c] <= egress_hosts /\ reg[c] <= registry

\* A key that was answered with a success is in the cache of the registry it was
\* answered from.
OnceState ==
  /\ \A k \in Key : served[k] # 0 => served[k] <= registry /\ k \in memo[served[k]]
  /\ \A c \in Client : before[c] # 0 =>
       /\ req[c].key \in Key
       /\ before[c] <= registry
       /\ req[c].key \in memo[before[c]]
       /\ pc[c] \in Running => before[c] <= reg[c]
  /\ \A c \in Client : pc[c] = "answer" /\ Once(c) /\ ok[c] => req[c].key \in memo[reg[c]]

IInv ==
  /\ TypeOK
  /\ PermitsConserved
  /\ LockState
  /\ RouteState
  /\ SessionState
  /\ StaleState
  /\ PolicyState
  /\ HostsNeverAhead
  /\ OnceState
  /\ RerunOnlyAfterReload
=============================================================================

----------------------------- MODULE OnceCache ------------------------------
(***************************************************************************)
(* ToolRegistry::execute_once (src/registry.rs) step by step.  The cache   *)
(* `completed` is guarded by an async mutex that is taken twice per call:  *)
(* once to look the key up, once to record the outcome.  It is released    *)
(* while the tool runs, so calls with the same key may overlap.            *)
(*                                                                         *)
(* Time is abstracted to the age of each entry, saturating at Ttl, so that *)
(* `now - inserted < cache_ttl` is `age < Ttl`.  A run of a tool is its    *)
(* position in `runs`; an outcome is identified by the run it came from.   *)
(***************************************************************************)
EXTENDS Naturals, Sequences, FiniteSets, Functions

CONSTANTS Caller,     \* concurrent callers of one registry
          Key,        \* idempotency keys
          Capacity,   \* cache_max_entries
          Ttl,        \* cache_ttl, in ticks
          Nobody,     \* the mutex is free
          NoKey,      \* a caller that has made no call
          MaxCalls    \* bound on the calls made

ASSUME KeyAssumption == IsFiniteSet(Key)
ASSUME CapacityAssumption == Capacity \in Nat
ASSUME TtlAssumption == Ttl \in Nat
ASSUME NobodyAssumption == Nobody \notin Caller
ASSUME NoKeyAssumption == NoKey \notin Key
ASSUME MaxCallsAssumption == MaxCalls \in Nat

VARIABLES
  completed,  \* the cache: a function from some keys to [run, age]
  mutex,      \* the caller holding `completed`, or Nobody
  pc,         \* where each caller is in execute_once
  key,        \* key[c]: the key of c's latest call
  own,        \* own[c]: the run c's latest call made, 0 if none
  answer,     \* answer[c]: the run whose outcome that call returned, 0 if none
  runs,       \* history: every completed run, [key, success]
  calls,      \* history: number of calls made
  everKept,   \* history: the keys ever inserted in the cache
  sinceKept   \* history: ticks since k was last inserted, saturating at Ttl

vars == <<completed, mutex, pc, key, own, answer, runs, calls, everKept, sinceKept>>
history == <<everKept, sinceKept>>

PC == {"idle", "lookup", "check", "run", "relock", "record"}

Entry == [run : 1..Len(runs), age : 0..Ttl]

\* Types of all variables.  Every run a cache entry, an own run or an answer names
\* is a run that has been made.
TypeOK ==
  /\ completed \in UNION {[K -> Entry] : K \in SUBSET Key}
  /\ mutex \in Caller \cup {Nobody}
  /\ pc \in [Caller -> PC]
  /\ key \in [Caller -> Key \cup {NoKey}]
  /\ own \in [Caller -> 0..Len(runs)]
  /\ answer \in [Caller -> 0..Len(runs)]
  /\ runs \in Seq([key : Key, success : BOOLEAN])
  /\ calls \in 0..MaxCalls
  /\ everKept \subseteq Key
  /\ sinceKept \in [Key -> 0..Ttl]

Init ==
  /\ completed = [k \in {} |-> 0]
  /\ mutex = Nobody
  /\ pc = [c \in Caller |-> "idle"]
  /\ key = [c \in Caller |-> NoKey]
  /\ own = [c \in Caller |-> 0]
  /\ answer = [c \in Caller |-> 0]
  /\ runs = <<>>
  /\ calls = 0
  /\ everKept = {}
  /\ sinceKept = [k \in Key |-> Ttl]

-----------------------------------------------------------------------------
(* The cache. *)

Fresh(m) == {k \in DOMAIN m : m[k].age < Ttl}

\* Faulty variant: makes room when the cache is full, not when it is over.
Excess_WhenFull(n) == IF n > 0 /\ n >= Capacity THEN n + 1 - Capacity ELSE 0

\* How many entries beyond the capacity n entries are.
Excess(n) == IF n > Capacity THEN n - Capacity ELSE 0

\* evict_expired: the expired entries go, then as many arbitrary others as are
\* over the capacity (HashMap order is unspecified).
Evictions(m) ==
  LET fresh == Fresh(m)
  IN  {Restrict(m, fresh \ gone) :
         gone \in {g \in SUBSET fresh : Cardinality(g) = Excess(Cardinality(fresh))}}

Insert(m, k, r) ==
  [x \in DOMAIN m \cup {k} |-> IF x = k THEN [run |-> r, age |-> 0] ELSE m[x]]

\* Faulty variant: the insertion is not followed by an eviction.
Inserted_Unbounded(m, k, r) == {Insert(m, k, r)}

\* The results of map.insert and of the evict_expired that follows it only when
\* the map has grown over the capacity.
Inserted(m, k, r) ==
  LET grown == Insert(m, k, r)
  IN  IF Cardinality(DOMAIN grown) > Capacity THEN Evictions(grown) ELSE {grown}

-----------------------------------------------------------------------------
(* One call. *)

Goto(c, from, to) ==
  /\ pc[c] = from
  /\ pc' = [pc EXCEPT ![c] = to]

Release(c) == mutex = c /\ mutex' = Nobody

Return(c, from, r) ==
  /\ Goto(c, from, "idle")
  /\ answer' = [answer EXCEPT ![c] = r]

Call(c, k) ==
  /\ calls < MaxCalls
  /\ Goto(c, "idle", "lookup")
  /\ key' = [key EXCEPT ![c] = k]
  /\ own' = [own EXCEPT ![c] = 0]
  /\ answer' = [answer EXCEPT ![c] = 0]
  /\ calls' = calls + 1
  /\ UNCHANGED <<completed, mutex, runs, history>>

\* completed.lock().await, then evict_expired, before the first check.
Lookup(c) ==
  /\ Goto(c, "lookup", "check")
  /\ mutex = Nobody
  /\ mutex' = c
  /\ completed' \in Evictions(completed)
  /\ UNCHANGED <<key, own, answer, runs, calls, history>>

Hit(c) ==
  /\ key[c] \in DOMAIN completed
  /\ Return(c, "check", completed[key[c]].run)
  /\ Release(c)
  /\ UNCHANGED <<completed, key, own, runs, calls, history>>

\* Faulty variant: the guard lives until the call returns.
Miss_KeepsLock(c) ==
  /\ key[c] \notin DOMAIN completed
  /\ Goto(c, "check", "run")
  /\ UNCHANGED <<completed, mutex, key, own, answer, runs, calls, history>>

\* Without the drop(map) the guard would live until the call returned.
Miss(c) ==
  /\ key[c] \notin DOMAIN completed
  /\ Goto(c, "check", "run")
  /\ Release(c)
  /\ UNCHANGED <<completed, key, own, answer, runs, calls, history>>

\* self.execute returned a successful outcome: it is to be recorded.
RunSucceeds(c) ==
  /\ Goto(c, "run", "relock")
  /\ runs' = Append(runs, [key |-> key[c], success |-> TRUE])
  /\ own' = [own EXCEPT ![c] = Len(runs) + 1]
  /\ UNCHANGED <<completed, mutex, key, answer, calls, history>>

\* Faulty variant: failures are recorded like successes.
RunFails_Recorded(c) ==
  /\ Goto(c, "run", "relock")
  /\ runs' = Append(runs, [key |-> key[c], success |-> FALSE])
  /\ own' = [own EXCEPT ![c] = Len(runs) + 1]
  /\ UNCHANGED <<completed, mutex, key, answer, calls, history>>

\* An outcome with success == false: returned, not recorded.
RunFails(c) ==
  /\ Return(c, "run", Len(runs) + 1)
  /\ runs' = Append(runs, [key |-> key[c], success |-> FALSE])
  /\ own' = [own EXCEPT ![c] = Len(runs) + 1]
  /\ UNCHANGED <<completed, mutex, key, calls, history>>

\* Faulty variant: an error goes on to be recorded.
RunRefused_Recorded(c) ==
  /\ Goto(c, "run", "relock")
  /\ UNCHANGED <<completed, mutex, key, own, answer, runs, calls, history>>

\* tool_not_found, a refused validation or an Err of the tool: the `?`.
RunRefused(c) ==
  /\ Return(c, "run", 0)
  /\ UNCHANGED <<completed, mutex, key, own, runs, calls, history>>

\* The second lock().await and its evict_expired.
Relock(c) ==
  /\ Goto(c, "relock", "record")
  /\ mutex = Nobody
  /\ mutex' = c
  /\ completed' \in Evictions(completed)
  /\ UNCHANGED <<key, own, answer, runs, calls, history>>

\* Faulty variant: any recorded outcome will do.
RecordFound_OtherKey(c) ==
  \E k \in DOMAIN completed :
    /\ Return(c, "record", completed[k].run)
    /\ Release(c)
    /\ UNCHANGED <<completed, key, own, runs, calls, history>>

\* Another call recorded this key meanwhile: its outcome is returned instead.
RecordFound(c) ==
  /\ key[c] \in DOMAIN completed
  /\ Return(c, "record", completed[key[c]].run)
  /\ Release(c)
  /\ UNCHANGED <<completed, key, own, runs, calls, history>>

\* Faulty variant: no second check, the last writer wins.
RecordNew_Overwrites(c) ==
  /\ completed' \in Inserted(completed, key[c], own[c])
  /\ Return(c, "record", own[c])
  /\ Release(c)
  /\ everKept' = everKept \cup {key[c]}
  /\ sinceKept' = [sinceKept EXCEPT ![key[c]] = 0]
  /\ UNCHANGED <<key, own, runs, calls>>

RecordNew(c) ==
  /\ key[c] \notin DOMAIN completed
  /\ completed' \in Inserted(completed, key[c], own[c])
  /\ Return(c, "record", own[c])
  /\ Release(c)
  /\ everKept' = everKept \cup {key[c]}
  /\ sinceKept' = [sinceKept EXCEPT ![key[c]] = 0]
  /\ UNCHANGED <<key, own, runs, calls>>

\* The future is dropped at one of its await points (its client went away).
Abandon(c) ==
  /\ \E at \in {"lookup", "run", "relock"} : Goto(c, at, "idle")
  /\ UNCHANGED <<completed, mutex, key, own, answer, runs, calls, history>>

Older(age) == IF age < Ttl THEN age + 1 ELSE age

Tick ==
  /\ completed' = [k \in DOMAIN completed |->
                     [run |-> completed[k].run, age |-> Older(completed[k].age)]]
  /\ sinceKept' = [k \in Key |-> Older(sinceKept[k])]
  /\ UNCHANGED <<mutex, pc, key, own, answer, runs, calls, everKept>>

Step(c) ==
  \/ Lookup(c) \/ Hit(c) \/ Miss(c)
  \/ RunSucceeds(c) \/ RunFails(c) \/ RunRefused(c)
  \/ Relock(c) \/ RecordFound(c) \/ RecordNew(c)

Next ==
  \/ Tick
  \/ \E c \in Caller :
       \/ \E k \in Key : Call(c, k)
       \/ Step(c)
       \/ Abandon(c)

\* A caller that can move does: its task is scheduled, its tool returns, and the
\* mutex, which queues its waiters, does not pass one over for ever.
Fairness == \A c \in Caller : SF_vars(Step(c))

Spec == Init /\ [][Next]_vars /\ Fairness

-----------------------------------------------------------------------------
(* Properties. *)

\* The cache never holds more than cache_max_entries, whatever the order in
\* which callers insert, even right after an insertion (tests/stress.rs).
CacheBounded == Cardinality(DOMAIN completed) <= Capacity

\* What a repeat of k can be answered with is the outcome of a run that was made
\* for k and succeeded: a failure is never made permanent by the cache.
CachedAreSuccesses ==
  \A k \in DOMAIN completed : runs[completed[k].run] = [key |-> k, success |-> TRUE]

\* A returned outcome comes from a run for the caller's own key, and a failure
\* is only ever returned to the call whose own run failed.
AnswersAreEarned ==
  \A c \in Caller : answer[c] # 0 =>
    /\ runs[answer[c]].key = key[c]
    /\ answer[c] = own[c] \/ runs[answer[c]].success

\* The first success recorded for a key stays its outcome until it is evicted:
\* overlapping calls cannot replace what an earlier caller was answered with.
FirstSuccessStays ==
  [][\A k \in DOMAIN completed \cap DOMAIN completed' :
       completed'[k].run = completed[k].run]_vars

\* A tool is run again for a key recorded less than a TTL ago only if more keys
\* than the cache can hold have been recorded.
RerunNeedsLoss ==
  [][\A c \in Caller : pc[c] = "check" /\ pc'[c] = "run" =>
       sinceKept[key[c]] = Ttl \/ Cardinality(everKept) > Capacity]_vars

\* Every call returns (or its caller leaves), whoever else holds or wants the
\* mutex meanwhile.
EveryCallReturns == \A c \in Caller : pc[c] # "idle" ~> pc[c] = "idle"

Once == INSTANCE OnceSpec
  WITH Nothing <- NoKey,
       memo <- [k \in DOMAIN completed |-> completed[k].run],
       asked <- [c \in Caller |-> IF pc[c] = "idle" THEN NoKey ELSE key[c]]

\* The locked, expiring, bounded cache does what OnceSpec promises.
ImplementsOnce == Once!Spec

\* registry.rs says one mutex over check and insert keeps N concurrent callers of
\* a key from all executing: no two callers run the tool for one key at once.
OneRunPerKey ==
  \A c, d \in Caller : pc[c] = "run" /\ pc[d] = "run" /\ key[c] = key[d] => c = d

-----------------------------------------------------------------------------
(* The inductive invariant of the proofs. *)

\* What each point of execute_once knows of its own call.
CallState ==
  \A c \in Caller :
    /\ pc[c] # "idle" => key[c] \in Key /\ answer[c] = 0
    /\ pc[c] \in {"lookup", "check", "run"} => own[c] = 0
    /\ pc[c] \in {"relock", "record"} => own[c] # 0 /\ runs[own[c]].success
    /\ own[c] # 0 => runs[own[c]].key = key[c]

\* As long as every key ever recorded fits, a key recorded less than a TTL ago is
\* still in the cache.
RetainedWhileRoom ==
  /\ DOMAIN completed \subseteq everKept
  /\ Cardinality(everKept) <= Capacity =>
       \A k \in Key : sinceKept[k] < Ttl =>
         k \in DOMAIN completed /\ completed[k].age = sinceKept[k]

IInv ==
  /\ TypeOK
  /\ CallState
  /\ CachedAreSuccesses
  /\ AnswersAreEarned
  /\ CacheBounded
  /\ RetainedWhileRoom
=============================================================================

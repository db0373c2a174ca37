-------------------------- MODULE OnceCacheProofs ---------------------------
(***************************************************************************)
(* What OnceCache guarantees for every number of callers and keys, every   *)
(* capacity and every TTL.                                                 *)
(***************************************************************************)
EXTENDS OnceCache, FiniteSetTheorems, SequenceTheorems, TLAPS

-----------------------------------------------------------------------------
(* The cache as a data structure. *)

\* The cache is a function from some keys to entries.
IsCache(m) == DOMAIN m \subseteq Key /\ m \in [DOMAIN m -> Entry]

\* The type of `completed`, in the form the provers need it.
LEMMA CacheShape ==
  ASSUME NEW m
  PROVE  m \in UNION {[K -> Entry] : K \in SUBSET Key} <=> IsCache(m)
<1>1. ASSUME m \in UNION {[K -> Entry] : K \in SUBSET Key}
      PROVE  IsCache(m)
  <2>1. PICK K \in SUBSET Key : m \in [K -> Entry]
    BY <1>1
  <2>2. DOMAIN m = K
    BY <2>1
  <2>3. QED
    BY <2>1, <2>2 DEF IsCache
<1>2. ASSUME IsCache(m)
      PROVE  m \in UNION {[K -> Entry] : K \in SUBSET Key}
  BY <1>2 DEF IsCache
<1>3. QED
  BY <1>1, <1>2

\* What evict_expired leaves: only unexpired entries, unchanged, at most as many
\* as the capacity, and all of them when they fit.
LEMMA EvictionsKeep ==
  ASSUME NEW m, DOMAIN m \subseteq Key, NEW n \in Evictions(m)
  PROVE  /\ DOMAIN n \subseteq Fresh(m)
         /\ n = [k \in DOMAIN n |-> m[k]]
         /\ Cardinality(DOMAIN n) <= Capacity
         /\ Cardinality(Fresh(m)) <= Capacity => DOMAIN n = Fresh(m)
<1> DEFINE F == Fresh(m)
<1>1. PICK gone \in SUBSET F :
        /\ Cardinality(gone) = Excess(Cardinality(F))
        /\ n = Restrict(m, F \ gone)
  BY DEF Evictions
<1>2. DOMAIN n = F \ gone /\ n = [k \in F \ gone |-> m[k]]
  BY <1>1 DEF Restrict
<1>3. IsFiniteSet(F) /\ IsFiniteSet(gone)
  BY KeyAssumption, FS_Subset, <1>1 DEF Fresh
<1>4. Cardinality(F) \in Nat /\ Cardinality(gone) \in Nat
  BY <1>3, FS_CardinalityType
<1>5. Cardinality(F \ gone) = Cardinality(F) - Cardinality(gone)
  <2>1. F \cap gone = gone
    BY <1>1
  <2>2. QED
    BY <2>1, <1>3, FS_Difference
<1>6. Cardinality(F \ gone) <= Capacity
  BY <1>1, <1>4, <1>5, CapacityAssumption DEF Excess
<1>7. ASSUME Cardinality(F) <= Capacity
      PROVE  F \ gone = F
  <2>1. Cardinality(gone) = 0
    BY <1>7, <1>1, <1>4, CapacityAssumption DEF Excess
  <2>2. gone = {}
    BY <2>1, <1>3, FS_EmptySet
  <2>3. QED
    BY <2>2
<1>8. QED
  BY <1>2, <1>6, <1>7

\* Evicting from a cache leaves a cache.
LEMMA EvictionsType ==
  ASSUME NEW m, IsCache(m), NEW n \in Evictions(m)
  PROVE  IsCache(n)
<1>1. DOMAIN n \subseteq Fresh(m) /\ n = [k \in DOMAIN n |-> m[k]]
  BY EvictionsKeep DEF IsCache
<1>2. DOMAIN n \subseteq DOMAIN m
  BY <1>1 DEF Fresh
<1>3. QED
  BY <1>1, <1>2 DEF IsCache

\* What an insertion leaves: other entries and the new one, within the capacity.
LEMMA InsertedKeep ==
  ASSUME NEW m, IsCache(m), NEW k \in Key, NEW r \in 1..Len(runs),
         NEW n \in Inserted(m, k, r)
  PROVE  /\ IsCache(n)
         /\ DOMAIN n \subseteq DOMAIN m \cup {k}
         /\ \A x \in DOMAIN n : n[x] = IF x = k THEN [run |-> r, age |-> 0] ELSE m[x]
         /\ Cardinality(DOMAIN n) <= Capacity
<1> DEFINE g == Insert(m, k, r)
<1>1. DOMAIN g = DOMAIN m \cup {k}
  BY DEF Insert
<1>2. IsCache(g)
  BY <1>1, TtlAssumption DEF IsCache, Insert, Entry
<1>3. IsFiniteSet(DOMAIN g) /\ Cardinality(DOMAIN g) \in Nat
  BY <1>2, KeyAssumption, FS_Subset, FS_CardinalityType DEF IsCache
<1>4. \A x \in DOMAIN g : g[x] = IF x = k THEN [run |-> r, age |-> 0] ELSE m[x]
  BY <1>1 DEF Insert
<1>5. CASE Cardinality(DOMAIN g) > Capacity
  <2>1. n \in Evictions(g)
    BY <1>5 DEF Inserted
  <2>2. /\ DOMAIN n \subseteq Fresh(g)
        /\ n = [x \in DOMAIN n |-> g[x]]
        /\ Cardinality(DOMAIN n) <= Capacity
    BY <1>2, <2>1, EvictionsKeep DEF IsCache
  <2>3. DOMAIN n \subseteq DOMAIN g
    BY <2>2 DEF Fresh
  <2>4. QED
    BY <1>1, <1>2, <1>4, <2>1, <2>2, <2>3, EvictionsType
<1>6. CASE Cardinality(DOMAIN g) <= Capacity
  <2>1. n = g
    BY <1>6, <1>3, CapacityAssumption DEF Inserted
  <2>2. QED
    BY <1>1, <1>2, <1>4, <1>6, <2>1
<1>7. QED
  BY <1>3, <1>5, <1>6, CapacityAssumption

-----------------------------------------------------------------------------
(* The inductive invariant, one lemma per part. *)

\* Every action keeps every variable in its type.
LEMMA TypeStep ==
  ASSUME TypeOK, CallState, [Next]_vars
  PROVE  TypeOK'
<1> DEFINE Goal ==
             /\ IsCache(completed)'
             /\ mutex' \in Caller \cup {Nobody} /\ pc' \in [Caller -> PC]
             /\ key' \in [Caller -> Key \cup {NoKey}]
             /\ own' \in [Caller -> 0..Len(runs')]
             /\ answer' \in [Caller -> 0..Len(runs')]
             /\ runs' \in Seq([key : Key, success : BOOLEAN])
             /\ calls' \in 0..MaxCalls
             /\ everKept' \subseteq Key /\ sinceKept' \in [Key -> 0..Ttl]
<1>1. IsCache(completed)
  BY CacheShape DEF TypeOK
<1>2. Goal => TypeOK'
  BY DEF TypeOK, IsCache
<1>3. /\ mutex \in Caller \cup {Nobody} /\ pc \in [Caller -> PC]
      /\ key \in [Caller -> Key \cup {NoKey}]
      /\ own \in [Caller -> 0..Len(runs)]
      /\ answer \in [Caller -> 0..Len(runs)]
      /\ runs \in Seq([key : Key, success : BOOLEAN])
      /\ Len(runs) \in Nat
      /\ calls \in 0..MaxCalls
      /\ everKept \subseteq Key /\ sinceKept \in [Key -> 0..Ttl]
  BY DEF TypeOK
<1> USE DEF PC, Goto
<1>4. ASSUME NEW c \in Caller, NEW k \in Key, Call(c, k)
      PROVE  Goal
  BY <1>4, <1>1, <1>3, MaxCallsAssumption DEF Call, IsCache, Entry, history
<1>5. ASSUME NEW c \in Caller, Lookup(c) \/ Relock(c)
      PROVE  Goal
  <2>1. IsCache(completed')
    BY <1>3, <1>5, <1>1, EvictionsType DEF Lookup, Relock
  <2>2. UNCHANGED <<key, own, answer, runs, calls, history>>
    BY <1>3, <1>5 DEF Lookup, Relock
  <2>3. mutex' = c /\ pc' \in [Caller -> PC]
    BY <1>3, <1>5 DEF Lookup, Relock
  <2>4. QED
    BY <2>1, <2>2, <2>3, <1>3 DEF IsCache, Entry, history
<1>6. ASSUME NEW c \in Caller, Hit(c) \/ RecordFound(c)
      PROVE  Goal
  <2>1. completed[key[c]].run \in 1..Len(runs)
    BY <1>3, <1>6, <1>1 DEF Hit, RecordFound, IsCache, Entry
  <2>2. answer' \in [Caller -> 0..Len(runs)]
    <3>1. answer' = [answer EXCEPT ![c] = completed[key[c]].run]
      BY <1>3, <1>6 DEF Hit, RecordFound, Return
    <3>2. QED
      BY <3>1, <2>1, <1>3
  <2>3. pc' \in [Caller -> PC] /\ mutex' = Nobody
    BY <1>3, <1>6 DEF Hit, RecordFound, Return, Release
  <2>4. UNCHANGED <<completed, key, own, runs, calls, history>>
    BY <1>3, <1>6 DEF Hit, RecordFound
  <2>5. QED
    BY <2>2, <2>3, <2>4, <1>1, <1>3 DEF IsCache, Entry, history
<1>7. ASSUME NEW c \in Caller, Miss(c) \/ RunRefused(c) \/ Abandon(c)
      PROVE  Goal
  <2>1. pc' \in [Caller -> PC] /\ mutex' \in Caller \cup {Nobody}
    BY <1>3, <1>7 DEF Miss, RunRefused, Abandon, Return, Release
  <2>2. answer' \in [Caller -> 0..Len(runs)]
    <3>1. answer' = answer \/ answer' = [answer EXCEPT ![c] = 0]
      BY <1>3, <1>7 DEF Miss, RunRefused, Abandon, Return
    <3>2. 0 \in 0..Len(runs) /\ answer \in [Caller -> 0..Len(runs)]
      BY <1>3
    <3>3. QED
      BY <3>1, <3>2
  <2>3. UNCHANGED <<completed, key, own, runs, calls, history>>
    BY <1>3, <1>7 DEF Miss, RunRefused, Abandon
  <2>4. QED
    BY <2>1, <2>2, <2>3, <1>1, <1>3 DEF IsCache, Entry, history
<1>8. ASSUME NEW c \in Caller, RunSucceeds(c) \/ RunFails(c)
      PROVE  Goal
  <2>1. key[c] \in Key
    BY <1>8, <1>3 DEF CallState, RunSucceeds, RunFails, Return
  <2>2. /\ runs' \in Seq([key : Key, success : BOOLEAN])
        /\ Len(runs') = Len(runs) + 1
    <3>1. PICK ok \in BOOLEAN : runs' = Append(runs, [key |-> key[c], success |-> ok])
      BY <1>3, <1>8 DEF RunSucceeds, RunFails
    <3>2. [key |-> key[c], success |-> ok] \in [key : Key, success : BOOLEAN]
      BY <2>1
    <3>3. QED
      BY <3>1, <3>2, <1>3
  <2>3. pc' \in [Caller -> PC]
    BY <1>3, <1>8 DEF RunSucceeds, RunFails, Return
  <2>4. /\ own' \in [Caller -> 0..Len(runs')]
        /\ answer' \in [Caller -> 0..Len(runs')]
    BY <1>8, <2>2, <1>3 DEF RunSucceeds, RunFails, Return
  <2>5. UNCHANGED <<completed, mutex, key, calls, history>>
    BY <1>3, <1>8 DEF RunSucceeds, RunFails
  <2>6. IsCache(completed)'
    BY <2>2, <2>5, <1>1, <1>3 DEF IsCache, Entry
  <2>7. QED
    BY <2>2, <2>3, <2>4, <2>5, <2>6, <1>3 DEF history
<1>9. ASSUME NEW c \in Caller, RecordNew(c)
      PROVE  Goal
  <2>1. key[c] \in Key /\ own[c] \in 1..Len(runs)
    BY <1>9, <1>3 DEF CallState, RecordNew, Return
  <2>2. IsCache(completed')
    BY <1>3, <1>9, <1>1, <2>1, InsertedKeep DEF RecordNew
  <2>3. answer' \in [Caller -> 0..Len(runs)] /\ pc' \in [Caller -> PC] /\ mutex' = Nobody
    BY <1>3, <1>9, <2>1 DEF RecordNew, Return, Release
  <2>4. everKept' \subseteq Key /\ sinceKept' \in [Key -> 0..Ttl]
    BY <1>3, <1>9, <2>1, TtlAssumption DEF RecordNew
  <2>5. UNCHANGED <<key, own, runs, calls>>
    BY <1>3, <1>9 DEF RecordNew
  <2>6. QED
    BY <2>2, <2>3, <2>4, <2>5, <1>3 DEF IsCache, Entry
<1>10. ASSUME Tick
       PROVE  Goal
  <2>1. \A a \in 0..Ttl : Older(a) \in 0..Ttl
    BY TtlAssumption DEF Older
  <2>2. \A k \in DOMAIN completed : completed[k] \in Entry
    BY <1>1 DEF IsCache
  <2>3. IsCache(completed')
    BY <1>3, <1>10, <1>1, <2>1, <2>2 DEF Tick, IsCache, Entry
  <2>4. sinceKept' \in [Key -> 0..Ttl]
    BY <1>3, <1>10, <2>1 DEF Tick
  <2>5. QED
    BY <1>10, <2>3, <2>4, <1>3 DEF Tick, IsCache, Entry
<1>11. ASSUME UNCHANGED vars
       PROVE  Goal
  BY <1>11, <1>1, <1>3 DEF vars, IsCache, Entry
<1> HIDE DEF Goal
<1>12. Next => Goal
  BY <1>4, <1>5, <1>6, <1>7, <1>8, <1>9, <1>10 DEF Next, Step
<1>13. QED
  BY <1>2, <1>11, <1>12

\* The history of runs only grows.
LEMMA RunsGrow ==
  ASSUME TypeOK, CallState, [Next]_vars
  PROVE  \A i \in 1..Len(runs) : i \in 1..Len(runs') /\ runs'[i] = runs[i]
<1>1. runs \in Seq([key : Key, success : BOOLEAN])
  BY DEF TypeOK
<1>2. runs' = runs \/ \E c \in Caller, ok \in BOOLEAN :
        pc[c] = "run" /\ runs' = Append(runs, [key |-> key[c], success |-> ok])
  BY DEF Next, Step, Tick, Call, Lookup, Hit, Miss, RunSucceeds, RunFails, RunRefused,
         Relock, RecordFound, RecordNew, Abandon, Return, Goto, vars
<1>3. CASE runs' = runs
  BY <1>3, <1>1
<1>4. ASSUME NEW c \in Caller, NEW ok \in BOOLEAN, pc[c] = "run",
             runs' = Append(runs, [key |-> key[c], success |-> ok])
      PROVE  \A i \in 1..Len(runs) : i \in 1..Len(runs') /\ runs'[i] = runs[i]
  <2>1. [key |-> key[c], success |-> ok] \in [key : Key, success : BOOLEAN]
    BY <1>4 DEF CallState
  <2>2. QED
    BY <1>1, <1>4, <2>1
<1>5. QED
  BY <1>2, <1>3, <1>4

\* A run that ends is the next of the history, for its caller's key.
LEMMA RunEnds ==
  ASSUME TypeOK, CallState, NEW c \in Caller, NEW ok \in BOOLEAN, pc[c] = "run",
         runs' = Append(runs, [key |-> key[c], success |-> ok])
  PROVE  /\ Len(runs) \in Nat
         /\ Len(runs') = Len(runs) + 1
         /\ runs'[Len(runs) + 1] = [key |-> key[c], success |-> ok]
<1>1. runs \in Seq([key : Key, success : BOOLEAN])
  BY DEF TypeOK
<1>2. [key |-> key[c], success |-> ok] \in [key : Key, success : BOOLEAN]
  BY DEF CallState
<1>3. QED
  BY <1>1, <1>2

\* What each point of execute_once knows of its own call is kept.
LEMMA CallStateStep ==
  ASSUME TypeOK, CallState, [Next]_vars
  PROVE  CallState'
<1> DEFINE Knows(d) ==
      /\ pc[d] # "idle" => key[d] \in Key /\ answer[d] = 0
      /\ pc[d] \in {"lookup", "check", "run"} => own[d] = 0
      /\ pc[d] \in {"relock", "record"} => own[d] # 0 /\ runs[own[d]].success
      /\ own[d] # 0 => runs[own[d]].key = key[d]
<1>1. \A d \in Caller : Knows(d)
  BY DEF CallState
<1>2. /\ pc \in [Caller -> PC] /\ key \in [Caller -> Key \cup {NoKey}]
      /\ own \in [Caller -> 0..Len(runs)] /\ answer \in [Caller -> 0..Len(runs)]
      /\ Len(runs) \in Nat
  BY DEF TypeOK
<1>3. \A i \in 1..Len(runs) : runs'[i] = runs[i]
  BY RunsGrow
<1>4. SUFFICES ASSUME NEW d \in Caller PROVE Knows(d)'
  BY DEF CallState
<1>5. \A c \in Caller : own[c] # 0 => runs'[own[c]] = runs[own[c]]
  BY <1>2, <1>3
<1>6. ASSUME NEW c \in Caller, NEW k \in Key, Call(c, k)
      PROVE  Knows(d)'
  BY <1>6, <1>1, <1>2, <1>5 DEF Call, Goto
<1>7. ASSUME NEW c \in Caller, Lookup(c) \/ Relock(c)
      PROVE  Knows(d)'
  BY <1>7, <1>1, <1>2, <1>5 DEF Lookup, Relock, Goto
<1>8. ASSUME NEW c \in Caller, Hit(c) \/ Miss(c) \/ RunRefused(c) \/ RecordFound(c) \/ RecordNew(c)
      PROVE  Knows(d)'
  <2>1. UNCHANGED <<key, own, runs>>
    BY <1>8 DEF Hit, Miss, RunRefused, RecordFound, RecordNew
  <2>2. CASE d # c
    <3>1. pc'[d] = pc[d] /\ answer'[d] = answer[d]
      BY <1>8, <1>2, <2>2 DEF Hit, Miss, RunRefused, RecordFound, RecordNew, Return, Goto
    <3>2. QED
      BY <3>1, <2>1, <1>1
  <2>3. CASE d = c
    <3>1. pc'[d] = "idle" \/ (pc[d] = "check" /\ pc'[d] = "run" /\ answer'[d] = answer[d])
      BY <1>8, <1>2, <2>3 DEF Hit, Miss, RunRefused, RecordFound, RecordNew, Return, Goto
    <3>2. QED
      BY <3>1, <2>1, <1>1
  <2>4. QED
    BY <2>2, <2>3
<1>9. ASSUME NEW c \in Caller, RunSucceeds(c)
      PROVE  Knows(d)'
  <2>1. /\ runs'[Len(runs) + 1] = [key |-> key[c], success |-> TRUE]
        /\ Len(runs) \in Nat
    BY <1>9, RunEnds DEF RunSucceeds, Goto
  <2>2. QED
    BY <1>9, <2>1, <1>1, <1>2, <1>5 DEF RunSucceeds, Goto
<1>10. ASSUME NEW c \in Caller, RunFails(c)
       PROVE  Knows(d)'
  <2>1. /\ runs'[Len(runs) + 1] = [key |-> key[c], success |-> FALSE]
        /\ Len(runs) \in Nat
    BY <1>10, RunEnds DEF RunFails, Return, Goto
  <2>2. QED
    BY <1>10, <2>1, <1>1, <1>2, <1>5 DEF RunFails, Return, Goto
<1>11. ASSUME NEW c \in Caller, Abandon(c)
       PROVE  Knows(d)'
  BY <1>11, <1>1, <1>2, <1>5 DEF Abandon, Goto
<1>12. CASE Tick \/ UNCHANGED vars
  BY <1>12, <1>1, <1>2, <1>5 DEF Tick, vars
<1>13. QED
  <2> HIDE DEF Knows
  <2>1. QED
    BY <1>6, <1>7, <1>8, <1>9, <1>10, <1>11, <1>12 DEF Next, Step

\* An entry after a step was there before it with the same run, or is the
\* recorded outcome of a call whose key was absent.
LEMMA CacheSteps ==
  ASSUME TypeOK, CallState, [Next]_vars
  PROVE  \A k \in DOMAIN completed' :
           \/ k \in DOMAIN completed /\ completed'[k].run = completed[k].run
           \/ \E c \in Caller : /\ pc[c] = "record" /\ k = key[c]
                               /\ k \notin DOMAIN completed
                               /\ completed'[k].run = own[c]
<1> DEFINE Goal ==
      \A k \in DOMAIN completed' :
        \/ k \in DOMAIN completed /\ completed'[k].run = completed[k].run
        \/ \E c \in Caller : /\ pc[c] = "record" /\ k = key[c]
                            /\ k \notin DOMAIN completed
                            /\ completed'[k].run = own[c]
<1>1. IsCache(completed)
  BY CacheShape DEF TypeOK
<1>2. ASSUME NEW c \in Caller, Lookup(c) \/ Relock(c)
      PROVE  Goal
  <2>1. completed' \in Evictions(completed)
    BY <1>2 DEF Lookup, Relock
  <2>2. /\ DOMAIN completed' \subseteq Fresh(completed)
        /\ completed' = [k \in DOMAIN completed' |-> completed[k]]
    BY <1>1, <2>1, EvictionsKeep DEF IsCache
  <2>3. QED
    BY <2>2 DEF Fresh
<1>3. ASSUME NEW c \in Caller, RecordNew(c)
      PROVE  Goal
  <2>1. /\ pc[c] = "record" /\ key[c] \in Key /\ own[c] \in 1..Len(runs)
        /\ key[c] \notin DOMAIN completed
        /\ completed' \in Inserted(completed, key[c], own[c])
    BY <1>3 DEF RecordNew, Return, Goto, CallState, TypeOK
  <2>2. /\ DOMAIN completed' \subseteq DOMAIN completed \cup {key[c]}
        /\ \A x \in DOMAIN completed' :
             completed'[x] = IF x = key[c] THEN [run |-> own[c], age |-> 0] ELSE completed[x]
    BY <1>1, <2>1, InsertedKeep
  <2>3. QED
    BY <2>1, <2>2
<1>4. ASSUME Tick
      PROVE  Goal
  BY <1>4 DEF Tick
<1>5. ASSUME UNCHANGED completed
      PROVE  Goal
  BY <1>5
<1>6. QED
  <2> HIDE DEF Goal
  <2>1. Goal
    BY <1>2, <1>3, <1>4, <1>5 DEF Next, Step, Call, Hit, Miss, RunSucceeds, RunFails,
       RunRefused, RecordFound, Abandon, vars
  <2>2. QED
    BY <2>1 DEF Goal

\* Only successes enter the cache.
LEMMA CachedStep ==
  ASSUME TypeOK, CallState, CachedAreSuccesses, [Next]_vars
  PROVE  CachedAreSuccesses'
<1>1. SUFFICES ASSUME NEW k \in DOMAIN completed'
               PROVE  runs'[completed'[k].run] = [key |-> k, success |-> TRUE]
  BY DEF CachedAreSuccesses
<1>2. IsCache(completed)
  BY CacheShape DEF TypeOK
<1>3. CASE k \in DOMAIN completed /\ completed'[k].run = completed[k].run
  <2>1. completed[k].run \in 1..Len(runs)
    BY <1>2, <1>3 DEF IsCache, Entry
  <2>2. QED
    BY <1>3, <2>1, RunsGrow DEF CachedAreSuccesses
<1>4. ASSUME NEW c \in Caller, pc[c] = "record", k = key[c], completed'[k].run = own[c]
      PROVE  runs'[completed'[k].run] = [key |-> k, success |-> TRUE]
  <2>1. /\ own[c] \in 1..Len(runs) /\ runs[own[c]].success /\ runs[own[c]].key = key[c]
    BY <1>4 DEF CallState, TypeOK
  <2>2. runs[own[c]] \in [key : Key, success : BOOLEAN]
    <3>1. runs \in Seq([key : Key, success : BOOLEAN])
      BY DEF TypeOK
    <3>2. QED
      BY <2>1, <3>1, ElementOfSeq
  <2>3. runs[own[c]] = [key |-> key[c], success |-> TRUE]
    BY <2>1, <2>2
  <2>4. QED
    BY <1>4, <2>1, <2>3, RunsGrow
<1>5. QED
  BY <1>3, <1>4, CacheSteps

\* A caller is answered with its own run or with a cached success.
LEMMA AnswersStep ==
  ASSUME TypeOK, CallState, CachedAreSuccesses, AnswersAreEarned, [Next]_vars
  PROVE  AnswersAreEarned'
<1> DEFINE Earned(d) ==
      answer[d] # 0 => /\ runs[answer[d]].key = key[d]
                       /\ answer[d] = own[d] \/ runs[answer[d]].success
<1>1. SUFFICES ASSUME NEW d \in Caller PROVE Earned(d)'
  BY DEF AnswersAreEarned
<1>2. /\ pc \in [Caller -> PC] /\ key \in [Caller -> Key \cup {NoKey}]
      /\ own \in [Caller -> 0..Len(runs)] /\ answer \in [Caller -> 0..Len(runs)]
      /\ Len(runs) \in Nat
  BY DEF TypeOK
<1>3. answer[d] # 0 => runs'[answer[d]] = runs[answer[d]]
  BY <1>2, RunsGrow
<1>4. Earned(d)
  BY DEF AnswersAreEarned
<1>5. pc[d] # "idle" => answer[d] = 0
  BY DEF CallState
<1>6. IsCache(completed)
  BY CacheShape DEF TypeOK
<1>7. CASE UNCHANGED <<key[d], own[d], answer[d]>>
  BY <1>7, <1>3, <1>4
<1>8. ASSUME NEW k \in Key, Call(d, k)
      PROVE  Earned(d)'
  BY <1>8, <1>2 DEF Call
<1>9. ASSUME Hit(d) \/ RecordFound(d)
      PROVE  Earned(d)'
  <2>1. /\ key[d] \in DOMAIN completed
        /\ answer'[d] = completed[key[d]].run
        /\ UNCHANGED <<key, own, runs>>
    BY <1>9, <1>2 DEF Hit, RecordFound, Return
  <2>2. runs[answer'[d]] = [key |-> key[d], success |-> TRUE]
    BY <2>1 DEF CachedAreSuccesses
  <2>3. QED
    BY <2>1, <2>2
<1>10. ASSUME RunSucceeds(d) \/ RunRefused(d)
       PROVE  Earned(d)'
  <2>1. answer'[d] = 0
    BY <1>10, <1>2, <1>5 DEF RunSucceeds, RunRefused, Return, Goto
  <2>2. QED
    BY <2>1
<1>11. ASSUME RunFails(d)
       PROVE  Earned(d)'
  <2>1. runs'[Len(runs) + 1] = [key |-> key[d], success |-> FALSE]
    BY <1>11, RunEnds DEF RunFails, Return, Goto
  <2>2. answer'[d] = Len(runs) + 1 /\ own'[d] = Len(runs) + 1 /\ key'[d] = key[d]
    BY <1>11, <1>2 DEF RunFails, Return
  <2>3. QED
    BY <2>1, <2>2
<1>12. ASSUME RecordNew(d)
       PROVE  Earned(d)'
  <2>1. own[d] # 0 /\ runs[own[d]].key = key[d] /\ UNCHANGED <<key, own, runs>>
    BY <1>12 DEF RecordNew, Return, Goto, CallState
  <2>2. answer'[d] = own[d]
    BY <1>12, <1>2 DEF RecordNew, Return
  <2>3. QED
    BY <2>1, <2>2
<1>13. CASE Next
  <2>1. PICK c \in Caller : Tick \/ (\E k \in Key : Call(c, k)) \/ Step(c) \/ Abandon(c)
    BY <1>13 DEF Next
  <2>2. CASE c = d
    <3>1. ASSUME Lookup(d) \/ Miss(d) \/ Relock(d) \/ Abandon(d) \/ Tick
          PROVE  UNCHANGED <<key[d], own[d], answer[d]>>
      BY <3>1 DEF Lookup, Miss, Relock, Abandon, Tick
    <3> HIDE DEF Earned
    <3>2. QED
      BY <2>1, <2>2, <3>1, <1>7, <1>8, <1>9, <1>10, <1>11, <1>12 DEF Step
  <2>3. CASE c # d
    <3>1. UNCHANGED <<key[d], own[d], answer[d]>>
      BY <2>1, <2>3, <1>2 DEF Step, Tick, Call, Lookup, Hit, Miss, RunSucceeds, RunFails,
         RunRefused, Relock, RecordFound, RecordNew, Abandon, Return
    <3>2. QED
      BY <3>1, <1>7
  <2>4. QED
    BY <2>2, <2>3
<1>14. CASE UNCHANGED vars
  BY <1>14, <1>7 DEF vars
<1>15. QED
  BY <1>13, <1>14

\* The capacity holds at every insertion and is not disturbed otherwise.
LEMMA BoundedStep ==
  ASSUME TypeOK, CallState, CacheBounded, [Next]_vars
  PROVE  CacheBounded'
<1>1. IsCache(completed)
  BY CacheShape DEF TypeOK
<1>2. ASSUME NEW c \in Caller, Lookup(c) \/ Relock(c)
      PROVE  CacheBounded'
  <2>1. completed' \in Evictions(completed)
    BY <1>2 DEF Lookup, Relock
  <2>2. QED
    BY <1>1, <2>1, EvictionsKeep DEF IsCache, CacheBounded
<1>3. ASSUME NEW c \in Caller, RecordNew(c)
      PROVE  CacheBounded'
  <2>1. /\ key[c] \in Key /\ own[c] \in 1..Len(runs)
        /\ completed' \in Inserted(completed, key[c], own[c])
    BY <1>3 DEF RecordNew, Return, Goto, CallState, TypeOK
  <2>2. QED
    BY <1>1, <2>1, InsertedKeep DEF CacheBounded
<1>4. ASSUME DOMAIN completed' = DOMAIN completed
      PROVE  CacheBounded'
  BY <1>4 DEF CacheBounded
<1>5. Tick => DOMAIN completed' = DOMAIN completed
  BY DEF Tick
<1>6. QED
  BY <1>2, <1>3, <1>4, <1>5 DEF Next, Step, Call, Hit, Miss, RunSucceeds, RunFails,
     RunRefused, RecordFound, Abandon, vars

\* While all recorded keys fit, eviction removes nothing younger than the TTL.
LEMMA RetainedStep ==
  ASSUME TypeOK, CallState, RetainedWhileRoom, [Next]_vars
  PROVE  RetainedWhileRoom'
<1>1. IsCache(completed) /\ everKept \subseteq Key /\ sinceKept \in [Key -> 0..Ttl]
  BY CacheShape DEF TypeOK
<1>2. \A S \in SUBSET Key : IsFiniteSet(S) /\ Cardinality(S) \in Nat
  BY KeyAssumption, FS_Subset, FS_CardinalityType
<1>3. \A S, T \in SUBSET Key : S \subseteq T => Cardinality(S) <= Cardinality(T)
  BY <1>2, FS_Subset
<1>4. ASSUME NEW c \in Caller, Lookup(c) \/ Relock(c)
      PROVE  RetainedWhileRoom'
  <2>1. completed' \in Evictions(completed) /\ UNCHANGED <<everKept, sinceKept>>
    BY <1>4 DEF Lookup, Relock, history
  <2>2. /\ DOMAIN completed' \subseteq Fresh(completed)
        /\ completed' = [k \in DOMAIN completed' |-> completed[k]]
        /\ Cardinality(Fresh(completed)) <= Capacity => DOMAIN completed' = Fresh(completed)
    BY <1>1, <2>1, EvictionsKeep DEF IsCache
  <2>3. Fresh(completed) \subseteq DOMAIN completed
    BY DEF Fresh
  <2>4. DOMAIN completed' \subseteq everKept'
    BY <2>1, <2>2, <2>3 DEF RetainedWhileRoom
  <2>5. ASSUME Cardinality(everKept) <= Capacity
        PROVE  DOMAIN completed' = Fresh(completed)
    <3>1. Cardinality(Fresh(completed)) <= Cardinality(everKept)
      BY <1>1, <1>3, <2>3 DEF RetainedWhileRoom
    <3>2. Cardinality(Fresh(completed)) <= Capacity
      BY <3>1, <2>5, <1>1, <1>2, <2>3, CapacityAssumption DEF IsCache
    <3>3. QED
      BY <3>2, <2>2
  <2>6. ASSUME Cardinality(everKept) <= Capacity, NEW k \in Key, sinceKept[k] < Ttl
        PROVE  k \in DOMAIN completed' /\ completed'[k].age = sinceKept[k]
    <3>1. k \in DOMAIN completed /\ completed[k].age = sinceKept[k]
      BY <2>6 DEF RetainedWhileRoom
    <3>2. k \in Fresh(completed)
      BY <3>1, <2>6 DEF Fresh
    <3>3. QED
      BY <3>1, <3>2, <2>2, <2>5, <2>6
  <2>7. QED
    BY <2>1, <2>4, <2>6 DEF RetainedWhileRoom
<1>5. ASSUME NEW c \in Caller, RecordNew(c)
      PROVE  RetainedWhileRoom'
  <2>1. /\ key[c] \in Key /\ own[c] \in 1..Len(runs)
        /\ completed' \in Inserted(completed, key[c], own[c])
        /\ everKept' = everKept \cup {key[c]}
        /\ sinceKept' = [sinceKept EXCEPT ![key[c]] = 0]
    BY <1>5 DEF RecordNew, Return, Goto, CallState, TypeOK
  <2>2. /\ DOMAIN completed' \subseteq DOMAIN completed \cup {key[c]}
        /\ \A x \in DOMAIN completed' :
             completed'[x] = IF x = key[c] THEN [run |-> own[c], age |-> 0] ELSE completed[x]
    BY <1>1, <2>1, InsertedKeep
  <2>3. DOMAIN completed' \subseteq everKept'
    BY <2>1, <2>2 DEF RetainedWhileRoom
  <2>4. ASSUME Cardinality(everKept') <= Capacity
        PROVE  /\ Cardinality(everKept) <= Capacity
               /\ DOMAIN completed' = DOMAIN completed \cup {key[c]}
    <3>1. everKept \subseteq everKept' /\ everKept' \in SUBSET Key
      BY <1>1, <2>1
    <3>2. Cardinality(everKept) <= Capacity
      BY <3>1, <2>4, <1>1, <1>2, <1>3, CapacityAssumption
    <3>3. DOMAIN Insert(completed, key[c], own[c]) = DOMAIN completed \cup {key[c]}
      BY DEF Insert
    <3>4. DOMAIN completed \cup {key[c]} \subseteq everKept'
      BY <2>1 DEF RetainedWhileRoom
    <3>5. Cardinality(DOMAIN completed \cup {key[c]}) <= Cardinality(everKept')
      BY <3>1, <3>4, <1>3
    <3>6. ~(Cardinality(DOMAIN completed \cup {key[c]}) > Capacity)
      BY <3>5, <3>1, <3>4, <2>4, <1>2, CapacityAssumption
    <3>7. completed' = Insert(completed, key[c], own[c])
      BY <3>3, <3>6, <2>1 DEF Inserted
    <3>8. QED
      BY <3>2, <3>3, <3>7
  <2>5. ASSUME Cardinality(everKept') <= Capacity, NEW k \in Key, sinceKept'[k] < Ttl
        PROVE  k \in DOMAIN completed' /\ completed'[k].age = sinceKept'[k]
    BY <2>1, <2>2, <2>4, <2>5, <1>1 DEF RetainedWhileRoom
  <2>6. QED
    BY <2>3, <2>5 DEF RetainedWhileRoom
<1>6. CASE Tick
  <2>1. /\ DOMAIN completed' = DOMAIN completed /\ everKept' = everKept
        /\ \A k \in DOMAIN completed : completed'[k].age = Older(completed[k].age)
        /\ \A k \in Key : sinceKept'[k] = Older(sinceKept[k])
    BY <1>6 DEF Tick
  <2>2. \A a \in 0..Ttl : Older(a) < Ttl => a < Ttl
    BY TtlAssumption DEF Older
  <2>3. QED
    BY <2>1, <2>2, <1>1 DEF RetainedWhileRoom
<1>7. CASE UNCHANGED <<completed, everKept, sinceKept>>
  BY <1>7 DEF RetainedWhileRoom
<1>8. QED
  BY <1>4, <1>5, <1>6, <1>7 DEF Next, Step, Call, Hit, Miss, RunSucceeds, RunFails,
     RunRefused, RecordFound, Abandon, vars, history

-----------------------------------------------------------------------------
(* The theorems. *)

\* The conjunction of the parts is inductive.
LEMMA Inductive == Spec => []IInv
<1>1. Init => IInv
  <2> SUFFICES ASSUME Init PROVE IInv
    OBVIOUS
  <2>1. completed \in UNION {[K -> Entry] : K \in SUBSET Key}
    <3>1. IsCache(completed)
      BY DEF Init, IsCache
    <3>2. QED
      BY <3>1, CacheShape
  <2>2. TypeOK
    BY <2>1, MaxCallsAssumption, TtlAssumption DEF Init, TypeOK, PC
  <2>3. Cardinality({}) = 0 /\ DOMAIN completed = {}
    BY FS_EmptySet DEF Init
  <2>4. CacheBounded
    BY <2>3, CapacityAssumption DEF CacheBounded
  <2>5. CallState /\ CachedAreSuccesses /\ AnswersAreEarned
    BY <2>3 DEF Init, CallState, CachedAreSuccesses, AnswersAreEarned
  <2>6. RetainedWhileRoom
    BY <2>3, TtlAssumption DEF Init, RetainedWhileRoom
  <2>7. QED
    BY <2>2, <2>4, <2>5, <2>6 DEF IInv
<1>2. IInv /\ [Next]_vars => IInv'
  BY TypeStep, CallStateStep, CachedStep, AnswersStep, BoundedStep, RetainedStep DEF IInv
<1>3. QED
  BY <1>1, <1>2, PTL DEF Spec

\* Every variable keeps its type, for any number of callers, keys and calls.
THEOREM TypeCorrect == Spec => []TypeOK
<1>1. IInv => TypeOK
  BY DEF IInv
<1>2. QED
  BY Inductive, <1>1, PTL

\* The cache never exceeds cache_max_entries, whatever that is (0 included).
THEOREM NeverOverCapacity == Spec => []CacheBounded
<1>1. IInv => CacheBounded
  BY DEF IInv
<1>2. QED
  BY Inductive, <1>1, PTL

\* The cache shares only successes, each under the key it was run for.
THEOREM OnlySuccessesCached == Spec => []CachedAreSuccesses
<1>1. IInv => CachedAreSuccesses
  BY DEF IInv
<1>2. QED
  BY Inductive, <1>1, PTL

\* No call is answered with another key's outcome or another call's failure.
THEOREM AnswersEarned == Spec => []AnswersAreEarned
<1>1. IInv => AnswersAreEarned
  BY DEF IInv
<1>2. QED
  BY Inductive, <1>1, PTL

\* Of racing successes the first recorded one stays until it is evicted.
THEOREM FirstSuccessWins == Spec => FirstSuccessStays
<1>1. IInv /\ [Next]_vars =>
        [\A k \in DOMAIN completed \cap DOMAIN completed' :
           completed'[k].run = completed[k].run]_vars
  BY CacheSteps DEF IInv
<1>2. QED
  BY Inductive, <1>1, PTL DEF Spec, FirstSuccessStays

\* A key recorded within the TTL is run again only after an overflow.
THEOREM NoNeedlessRerun == Spec => RerunNeedsLoss
<1>1. ASSUME IInv, [Next]_vars, NEW c \in Caller, pc[c] = "check", pc'[c] = "run"
      PROVE  sinceKept[key[c]] = Ttl \/ Cardinality(everKept) > Capacity
  <2>1. pc \in [Caller -> PC] /\ sinceKept \in [Key -> 0..Ttl] /\ everKept \subseteq Key
    BY <1>1 DEF IInv, TypeOK
  <2>2. key[c] \in Key
    BY <1>1 DEF IInv, CallState
  <2>3. key[c] \notin DOMAIN completed
    BY <1>1, <2>1 DEF Next, Step, Tick, Call, Lookup, Hit, Miss, RunSucceeds, RunFails,
       RunRefused, Relock, RecordFound, RecordNew, Abandon, Return, Goto, vars
  <2>4. IsFiniteSet(everKept) /\ Cardinality(everKept) \in Nat
    BY <2>1, KeyAssumption, FS_Subset, FS_CardinalityType
  <2>5. CASE Cardinality(everKept) <= Capacity
    BY <1>1, <2>1, <2>2, <2>3, <2>5, TtlAssumption DEF IInv, RetainedWhileRoom
  <2>6. QED
    BY <2>4, <2>5, CapacityAssumption
<1>2. IInv /\ [Next]_vars =>
        [\A c \in Caller : pc[c] = "check" /\ pc'[c] = "run" =>
           sinceKept[key[c]] = Ttl \/ Cardinality(everKept) > Capacity]_vars
  BY <1>1
<1>3. QED
  BY Inductive, <1>2, PTL DEF Spec, RerunNeedsLoss

-----------------------------------------------------------------------------
(* The refinement. *)

\* What OnceSpec sees of the cache and of the calls.
memoBar == [k \in DOMAIN completed |-> completed[k].run]
askedBar == [c \in Caller |-> IF pc[c] = "idle" THEN NoKey ELSE key[c]]

\* A caller in a call is waiting, in OnceSpec, for its key.
LEMMA AskedInCall ==
  ASSUME IInv
  PROVE  \A c \in Caller : pc[c] # "idle" => askedBar[c] = key[c] /\ key[c] # NoKey
BY NoKeyAssumption DEF IInv, CallState, askedBar

\* A call that leaves execute_once is no longer waiting, in OnceSpec.
LEMMA AskedOnReturn ==
  ASSUME IInv, NEW c \in Caller, NEW from \in PC, Goto(c, from, "idle"), UNCHANGED key
  PROVE  askedBar' = [askedBar EXCEPT ![c] = NoKey]
BY DEF IInv, TypeOK, Goto, askedBar

\* A move inside execute_once is invisible to OnceSpec.
LEMMA AskedInside ==
  ASSUME IInv, NEW c \in Caller, NEW from \in PC \ {"idle"}, NEW to \in PC \ {"idle"},
         Goto(c, from, to), UNCHANGED key
  PROVE  askedBar' = askedBar
BY DEF IInv, TypeOK, Goto, askedBar

\* Eviction is forgetting.
LEMMA EvictionForgets ==
  ASSUME IInv, completed' \in Evictions(completed)
  PROVE  Once!PartOf(memoBar', memoBar)
<1>1. IsCache(completed)
  BY CacheShape DEF IInv, TypeOK
<1>2. /\ DOMAIN completed' \subseteq Fresh(completed)
      /\ completed' = [k \in DOMAIN completed' |-> completed[k]]
  BY <1>1, EvictionsKeep DEF IsCache
<1>3. QED
  BY <1>2 DEF Fresh, Once!PartOf, memoBar

\* Every step of execute_once is a step of OnceSpec or invisible to it.
LEMMA RefinesStep ==
  ASSUME IInv, [Next]_vars
  PROVE  [Once!Next]_(Once!vars)
<1> DEFINE Goal == [Once!Next]_(Once!vars)
<1>1. /\ pc \in [Caller -> PC] /\ key \in [Caller -> Key \cup {NoKey}]
      /\ own \in [Caller -> 0..Len(runs)] /\ answer \in [Caller -> 0..Len(runs)]
      /\ Len(runs) \in Nat
  BY DEF IInv, TypeOK
<1>2. ASSUME NEW c \in Caller, NEW k \in Key, Call(c, k)
      PROVE  Goal
  <2>1. askedBar[c] = NoKey /\ askedBar' = [askedBar EXCEPT ![c] = k]
    BY <1>1, <1>2 DEF Call, Goto, askedBar
  <2>2. Once!Ask(c, k)
    BY <1>2, <2>1 DEF Call, Once!Ask, askedBar
  <2>3. QED
    BY <2>2 DEF Once!Next
<1>3. ASSUME NEW c \in Caller, Lookup(c) \/ Relock(c)
      PROVE  Goal
  <2>1. Once!PartOf(memoBar', memoBar)
    BY <1>3, EvictionForgets DEF Lookup, Relock
  <2>2. askedBar' = askedBar
    BY <1>3, AskedInside DEF Lookup, Relock, PC
  <2>3. Once!Forget
    BY <1>3, <2>1, <2>2 DEF Lookup, Relock, Once!Forget, memoBar, askedBar
  <2>4. QED
    BY <2>3 DEF Once!Next
<1>4. ASSUME NEW c \in Caller, Hit(c) \/ RecordFound(c)
      PROVE  Goal
  <2>1. /\ key[c] \in DOMAIN completed
        /\ answer' = [answer EXCEPT ![c] = completed[key[c]].run]
        /\ UNCHANGED <<completed, key, own, runs>>
    BY <1>4 DEF Hit, RecordFound, Return
  <2>2. askedBar' = [askedBar EXCEPT ![c] = NoKey]
    BY <1>4, AskedOnReturn DEF Hit, RecordFound, Return, PC
  <2>3. pc[c] # "idle"
    BY <1>4 DEF Hit, RecordFound, Return, Goto
  <2>4. askedBar[c] = key[c] /\ key[c] # NoKey
    BY <2>3, AskedInCall
  <2>5. Once!Repeat(c)
    BY <2>1, <2>2, <2>4 DEF Once!Repeat, Once!Answer, askedBar
  <2>6. QED
    BY <2>5 DEF Once!Next
<1>5. ASSUME NEW c \in Caller, Miss(c)
      PROVE  Goal
  <2>1. askedBar' = askedBar
    BY <1>5, AskedInside DEF Miss, PC
  <2>2. QED
    BY <1>5, <2>1 DEF Miss, Once!vars, askedBar
<1>6. ASSUME NEW c \in Caller, RunSucceeds(c)
      PROVE  Goal
  <2>1. askedBar' = askedBar
    BY <1>6, AskedInside DEF RunSucceeds, PC
  <2>2. pc[c] = "run"
    BY <1>6 DEF RunSucceeds, Goto
  <2>3. askedBar[c] = key[c] /\ key[c] # NoKey /\ own[c] = 0
    BY <2>2, AskedInCall DEF IInv, CallState
  <2>4. Once!Succeed(c)
    BY <1>6, <2>1, <2>3 DEF RunSucceeds, Once!Succeed, Once!Run, askedBar
  <2>5. QED
    BY <2>4 DEF Once!Next
<1>7. ASSUME NEW c \in Caller, RunFails(c)
      PROVE  Goal
  <2>1. askedBar' = [askedBar EXCEPT ![c] = NoKey]
    BY <1>7, AskedOnReturn DEF RunFails, Return, PC
  <2>2. pc[c] = "run"
    BY <1>7 DEF RunFails, Return, Goto
  <2>3. askedBar[c] = key[c] /\ key[c] # NoKey /\ own[c] = 0
    BY <2>2, AskedInCall DEF IInv, CallState
  <2>4. Once!Fail(c)
    BY <1>7, <2>1, <2>3 DEF RunFails, Return, Once!Fail, Once!Run, Once!Answer, askedBar
  <2>5. QED
    BY <2>4 DEF Once!Next
<1>8. ASSUME NEW c \in Caller, RunRefused(c) \/ Abandon(c)
      PROVE  Goal
  <2>1. UNCHANGED <<completed, key, own, runs>>
    BY <1>8 DEF RunRefused, Abandon
  <2>2. \E from \in PC : Goto(c, from, "idle")
    BY <1>8 DEF RunRefused, Abandon, Return, PC
  <2>3. askedBar' = [askedBar EXCEPT ![c] = NoKey]
    BY <2>1, <2>2, AskedOnReturn
  <2>4. pc[c] # "idle"
    BY <1>8 DEF RunRefused, Abandon, Return, Goto
  <2>5. askedBar[c] = key[c] /\ key[c] # NoKey /\ answer[c] = 0
    BY <2>4, AskedInCall DEF IInv, CallState
  <2>6. answer' = [answer EXCEPT ![c] = 0]
    BY <1>8, <1>1, <2>5 DEF RunRefused, Abandon, Return
  <2>7. Once!GiveUp(c)
    BY <2>1, <2>3, <2>5, <2>6 DEF Once!GiveUp, Once!Answer, askedBar
  <2>8. QED
    BY <2>7 DEF Once!Next
<1>9. ASSUME NEW c \in Caller, RecordNew(c)
      PROVE  Goal
  <2>1. /\ pc[c] = "record" /\ key[c] \in Key /\ own[c] \in 1..Len(runs)
        /\ key[c] \notin DOMAIN completed
        /\ completed' \in Inserted(completed, key[c], own[c])
        /\ answer' = [answer EXCEPT ![c] = own[c]]
        /\ UNCHANGED <<key, own, runs>>
    BY <1>1, <1>9 DEF RecordNew, Return, Goto, IInv, CallState
  <2>2. IsCache(completed)
    BY CacheShape DEF IInv, TypeOK
  <2>3. /\ DOMAIN completed' \subseteq DOMAIN completed \cup {key[c]}
        /\ \A x \in DOMAIN completed' :
             completed'[x] = IF x = key[c] THEN [run |-> own[c], age |-> 0] ELSE completed[x]
    BY <2>1, <2>2, InsertedKeep
  <2>4. Once!PartOf(memoBar', Once!With(memoBar, key[c], own[c]))
    BY <2>3 DEF Once!PartOf, Once!With, memoBar
  <2>5. askedBar' = [askedBar EXCEPT ![c] = NoKey]
    BY <1>9, AskedOnReturn DEF RecordNew, Return, PC
  <2>6. askedBar[c] = key[c] /\ key[c] # NoKey
    BY <2>1, AskedInCall
  <2>7. Once!Keep(c)
    BY <2>1, <2>4, <2>5, <2>6 DEF Once!Keep, Once!Answer, askedBar, memoBar
  <2>8. QED
    BY <2>7 DEF Once!Next
<1>10. ASSUME Tick
       PROVE  Goal
  <2>1. memoBar' = memoBar
    BY <1>10 DEF Tick, memoBar
  <2>2. QED
    BY <1>10, <2>1 DEF Tick, Once!vars, memoBar
<1>11. ASSUME UNCHANGED vars
       PROVE  Goal
  BY <1>11 DEF vars, Once!vars
<1> HIDE DEF Goal
<1>12. Goal
  BY <1>2, <1>3, <1>4, <1>5, <1>6, <1>7, <1>8, <1>9, <1>10, <1>11 DEF Next, Step
<1>13. QED
  BY <1>12 DEF Goal

\* The locked, expiring, bounded cache implements the promise of OnceSpec, for
\* any number of callers and keys, any capacity and any TTL.
THEOREM Implementation == Spec => ImplementsOnce
<1>1. Init => Once!Init
  BY DEF Init, Once!Init
<1>2. IInv /\ [Next]_vars => [Once!Next]_(Once!vars)
  BY RefinesStep
<1>3. QED
  BY Inductive, <1>1, <1>2, PTL DEF Spec, Once!Spec, ImplementsOnce
=============================================================================

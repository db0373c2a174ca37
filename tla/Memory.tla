------------------------------- MODULE Memory -------------------------------
(***************************************************************************)
(* The memory tool (agent.rs): one scope of its key-value store, behind a  *)
(* RwLock that a call takes more than once.  Every call first evicts the   *)
(* expired entries of its scope and then takes the lock again for its own  *)
(* operation; a recall that meets an expired entry under the read lock     *)
(* lets go of it and takes the write lock to remove the key.               *)
(*                                                                         *)
(* Values are the numbers of the stores that wrote them.  A scope without  *)
(* entries and a scope that is not there answer alike, so both are the     *)
(* function with the empty domain; scopes share nothing but the lock.      *)
(***************************************************************************)
EXTENDS Naturals, FiniteSets, Functions

CONSTANTS
  MemoryCallers,   \* the calls that may run at once
  Keys,
  Ttls,            \* the ttl_ms a store may ask for
  Forever,         \* no ttl_ms
  MaxKeys,         \* max_keys
  MaxClock,        \* bound: the clock of the model
  MaxStores        \* bound: stores of a behaviour

ASSUME MemoryAssumption ==
  /\ MaxKeys \in Nat \ {0} /\ MaxClock \in Nat /\ MaxStores \in Nat
  /\ Ttls \subseteq Nat \ {0} /\ Forever \notin Nat /\ Keys # {}

VARIABLES
  memory,   \* key -> entry, for the keys of the scope
  clock,    \* Instant::now()
  stores,   \* stores made so far; ghost but for the values it numbers
  reader    \* caller -> its call: [at, from, key, shown]

memoryVars == <<memory, clock, stores, reader>>

Entry == [value : 1..MaxStores, inserted : 0..MaxClock, ttl : Ttls \cup {Forever}]

\* A call that is at "start" holds nothing and has shown nothing; `from` is
\* the time its eviction ran, `shown` the entries its answer was made of.
NotReading == [at |-> "start", from |-> 0, key |-> CHOOSE k \in Keys : TRUE, shown |-> {}]

MemoryInit ==
  /\ memory = << >> /\ clock = 0 /\ stores = 0
  /\ reader = [c \in MemoryCallers |-> NotReading]

Expired(e) == e.ttl # Forever /\ clock - e.inserted >= e.ttl

Without(keys) == Restrict(memory, DOMAIN memory \ keys)

\* Faulty variant of ExpiredKeys: an entry is only dropped when its ttl has been exceeded.
ExpiredKeys_Late ==
  {k \in DOMAIN memory :
     memory[k].ttl # Forever /\ clock - memory[k].inserted > memory[k].ttl}

ExpiredKeys == {k \in DOMAIN memory : Expired(memory[k])}

\* execute begins: the expired entries of the scope go.
EvictExpiredScope(c) ==
  /\ reader[c].at = "start"
  /\ memory' = Without(ExpiredKeys)
  /\ reader' = [reader EXCEPT ![c] = [NotReading EXCEPT !.at = "evicted", !.from = clock]]
  /\ UNCHANGED <<clock, stores>>

\* The call of c is answered, from these entries.
Answer(c, entries) ==
  reader' = [reader EXCEPT ![c] = [@ EXCEPT !.at = "start", !.shown = entries]]

\* At the cap a new key takes the place of one of the oldest entries.
Oldest == {k \in DOMAIN memory : \A l \in DOMAIN memory : memory[k].inserted <= memory[l].inserted}

\* Faulty variant of Evicted: the cap is met one key too late.
Evicted_OneMore(key) ==
  IF Cardinality(DOMAIN memory) > MaxKeys /\ key \notin DOMAIN memory
  THEN {{k} : k \in Oldest} ELSE {{}}

Evicted(key) ==
  IF Cardinality(DOMAIN memory) >= MaxKeys /\ key \notin DOMAIN memory
  THEN {{k} : k \in Oldest} ELSE {{}}

Store(c) ==
  /\ reader[c].at = "evicted" /\ stores < MaxStores
  /\ stores' = stores + 1
  /\ \E key \in Keys, ttl \in Ttls \cup {Forever} : \E out \in Evicted(key) :
       LET kept == Without(out \cup {key}) IN
       memory' = [k \in DOMAIN kept \cup {key} |->
                    IF k = key THEN [value |-> stores', inserted |-> clock, ttl |-> ttl]
                    ELSE kept[k]]
  /\ Answer(c, {})
  /\ UNCHANGED clock

\* A recall under the read lock: the entry, not_found, or an expired entry
\* that is left to RemoveRecalled.
Recall(c) ==
  /\ reader[c].at = "evicted"
  /\ \E key \in Keys :
       \/ /\ key \notin DOMAIN memory
          /\ Answer(c, {})
       \/ /\ key \in DOMAIN memory /\ ~Expired(memory[key])
          /\ Answer(c, {memory[key]})
       \/ /\ key \in DOMAIN memory /\ Expired(memory[key])
          /\ reader' = [reader EXCEPT ![c].at = "expired", ![c].key = key]
  /\ UNCHANGED <<memory, clock, stores>>

\* The read lock was dropped: the key goes, whatever it holds by now.
RemoveRecalled(c) ==
  /\ reader[c].at = "expired"
  /\ memory' = Without({reader[c].key})
  /\ Answer(c, {})
  /\ UNCHANGED <<clock, stores>>

\* list and search show entries as they are; a search may break off early.
ListOrSearch(c) ==
  /\ reader[c].at = "evicted"
  /\ \E keys \in SUBSET DOMAIN memory : Answer(c, {memory[k] : k \in keys})
  /\ UNCHANGED <<memory, clock, stores>>

Forget(c) ==
  /\ reader[c].at = "evicted"
  /\ \E key \in Keys : memory' = Without({key})
  /\ Answer(c, {})
  /\ UNCHANGED <<clock, stores>>

\* The client leaves while its call waits for the lock.
LeaveMemory(c) ==
  /\ reader[c].at # "start"
  /\ reader' = [reader EXCEPT ![c] = NotReading]
  /\ UNCHANGED <<memory, clock, stores>>

MemoryTick == clock < MaxClock /\ clock' = clock + 1 /\ UNCHANGED <<memory, stores, reader>>

MemoryNext ==
  \/ MemoryTick
  \/ \E c \in MemoryCallers :
       \/ EvictExpiredScope(c) \/ Store(c) \/ Recall(c) \/ RemoveRecalled(c)
       \/ ListOrSearch(c) \/ Forget(c) \/ LeaveMemory(c)

MemorySpec == MemoryInit /\ [][MemoryNext]_memoryVars

\* The store holds at most max_keys entries of a scope (MemoryTool::store).
MemoryTypeOK ==
  /\ DOMAIN memory \subseteq Keys /\ Cardinality(DOMAIN memory) <= MaxKeys
  /\ \A k \in DOMAIN memory : memory[k] \in Entry
  /\ clock \in 0..MaxClock /\ stores \in 0..MaxStores
  /\ reader \in [MemoryCallers -> [at : {"start", "evicted", "expired"}, from : 0..MaxClock,
                                   key : Keys, shown : SUBSET Entry]]

(* No answer is made of an entry that had already expired when its call    *)
(* began: list and search never look at a ttl, they rely on the eviction   *)
(* that ran under an earlier lock.                                         *)
ShownWereAlive ==
  \A c \in MemoryCallers : \A e \in reader[c].shown :
    e.ttl # Forever => reader[c].from < e.inserted + e.ttl
=============================================================================

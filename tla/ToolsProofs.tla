----------------------------- MODULE ToolsProofs ------------------------------
(***************************************************************************)
(* The tools of an agent and the servers in front of them, proved for      *)
(* every value of the constants, and at the end all parts side by side,    *)
(* as the run has them. Each part has its types, its inductive invariant,  *)
(* one lemma per action and its theorems.                                  *)
(***************************************************************************)
EXTENDS MCTools, RecordsProofs, WorkspaceProofs, SequenceTheorems, FiniteSetTheorems,
  WellFoundedInduction, TLAPS

-----------------------------------------------------------------------------
(***************************************************************************)
(* What Retained makes of a sequence: the elements of it that satisfy a    *)
(* test, in their order. The rank of a position among those that are kept  *)
(* is one to one, hence onto: every place has a position.                  *)
(***************************************************************************)

\* A finite set of positions has one for each place, and the order of the places is theirs.
LEMMA NthIsInOrder ==
  ASSUME NEW S \in SUBSET Nat, IsFiniteSet(S)
  PROVE  /\ Cardinality(S) \in Nat
         /\ \A k \in 1..Cardinality(S) : Nth(S, k) \in S
         /\ \A k, l \in 1..Cardinality(S) : k < l => Nth(S, k) < Nth(S, l)
         /\ \A i \in S : \E k \in 1..Cardinality(S) : Nth(S, k) = i
<1> DEFINE below(i) == {j \in S : j <= i}
           c == Cardinality(S)
           rank == [i \in S |-> Rank(S, i)]
<1>1. c \in Nat
  BY FS_CardinalityType
<1>2. \A i \in S : /\ IsFiniteSet(below(i)) /\ Cardinality(below(i)) \in Nat
                   /\ Cardinality(below(i)) <= c /\ Cardinality(below(i)) # 0
  <2> SUFFICES ASSUME NEW i \in S
               PROVE  /\ IsFiniteSet(below(i)) /\ Cardinality(below(i)) \in Nat
                      /\ Cardinality(below(i)) <= c /\ Cardinality(below(i)) # 0
    OBVIOUS
  <2>1. below(i) \in SUBSET S /\ i \in below(i)
    OBVIOUS
  <2>2. IsFiniteSet(below(i)) /\ Cardinality(below(i)) <= c
    BY <2>1, FS_Subset
  <2>3. Cardinality(below(i)) # 0
    BY <2>1, <2>2, FS_EmptySet
  <2> QED
    BY <2>2, <2>3, FS_CardinalityType
<1>3. \A i, j \in S : i < j => Cardinality(below(i)) < Cardinality(below(j))
  <2> SUFFICES ASSUME NEW i \in S, NEW j \in S, i < j
               PROVE  Cardinality(below(i)) < Cardinality(below(j))
    OBVIOUS
  <2>0. i \in Nat /\ j \in Nat
    OBVIOUS
  <2>1. below(i) \in SUBSET below(j) /\ j \in below(j) /\ j \notin below(i)
    <3>1. ASSUME NEW x \in S, x <= i PROVE x <= j
      <4>1. x \in Nat
        OBVIOUS
      <4> QED
        BY <2>0, <3>1, <4>1
    <3>2. below(i) \in SUBSET below(j)
      BY <3>1, Zenon
    <3>3. j \in below(j) /\ j \notin below(i)
      BY <2>0
    <3> QED
      BY <3>2, <3>3
  <2>2. /\ Cardinality(below(i)) <= Cardinality(below(j))
        /\ Cardinality(below(j)) = Cardinality(below(i)) => below(j) = below(i)
    BY <1>2, <2>1, FS_Subset
  <2>3. below(j) # below(i)
    BY <2>1
  <2> HIDE DEF below
  <2> QED
    BY <1>2, <2>2, <2>3
<1>4. \A i \in S : rank[i] = Cardinality(below(i))
  BY DEF Rank
<1> HIDE DEF below, rank
<1>5. \A i \in S : rank[i] \in 1..c
  BY <1>1, <1>2, <1>4
<1>6. \A i, j \in S : rank[i] = rank[j] => i = j
  <2> SUFFICES ASSUME NEW i \in S, NEW j \in S, rank[i] = rank[j], i # j
               PROVE  FALSE
    OBVIOUS
  <2>1. i < j \/ j < i
    OBVIOUS
  <2> QED
    BY <1>2, <1>3, <1>4, <2>1
<1>7. rank \in Injection(S, 1..c)
  <2>1. rank \in [S -> 1..c]
    BY <1>5 DEF rank
  <2> QED
    BY <1>6, <2>1 DEF Injection, IsInjective
<1>8. IsFiniteSet(1..c) /\ Cardinality(1..c) = c
  <2>1. 1 \in Int /\ c \in Int
    BY <1>1
  <2>2. IsFiniteSet(1..c) /\ Cardinality(1..c) = IF 1 > c THEN 0 ELSE c - 1 + 1
    BY <2>1, FS_Interval
  <2> QED
    BY <1>1, <2>2
<1>9. rank \in Surjection(S, 1..c)
  BY <1>7, <1>8, FS_Injection
<1>10. \A k \in 1..c : \E i \in S : rank[i] = k
  BY <1>9 DEF Surjection
<1>11. \A k \in 1..c : Nth(S, k) \in S /\ rank[Nth(S, k)] = k
  BY <1>10 DEF Nth, rank
<1>12. \A k, l \in 1..c : k < l => Nth(S, k) < Nth(S, l)
  <2> SUFFICES ASSUME NEW k \in 1..c, NEW l \in 1..c, k < l, ~(Nth(S, k) < Nth(S, l))
               PROVE  FALSE
    OBVIOUS
  <2> DEFINE a == Nth(S, k)
             b == Nth(S, l)
  <2>1. a \in S /\ b \in S /\ rank[a] = k /\ rank[b] = l
    BY <1>11
  <2>2. ~(a < b)
    OBVIOUS
  <2> HIDE DEF a, b
  <2>3. b < a \/ a = b
    BY <2>1, <2>2
  <2>4. CASE a = b
    BY <1>1, <2>1, <2>4
  <2>5. CASE b < a
    <3>1. rank[b] < rank[a]
      BY <1>3, <1>4, <2>1, <2>5
    <3> QED
      BY <1>1, <2>1, <3>1
  <2> QED
    BY <2>3, <2>4, <2>5
<1>13. \A i \in S : Nth(S, rank[i]) = i
  BY <1>5, <1>6, <1>11
<1> QED
  BY <1>1, <1>5, <1>11, <1>12, <1>13

\* Kept positions of a sequence make a sequence, no longer than it, of some of its elements.
LEMMA RetainedIsSeq ==
  ASSUME NEW S, NEW seq \in Seq(S), NEW positions \in SUBSET DOMAIN seq
  PROVE  /\ Retained(seq, positions) \in Seq(S)
         /\ Len(Retained(seq, positions)) <= Len(seq)
         /\ Len(Retained(seq, positions)) = Cardinality(positions)
<1> DEFINE kept == Retained(seq, positions)
<1>1. DOMAIN seq = 1..Len(seq) /\ Len(seq) \in Nat
  OBVIOUS
<1>2. IsFiniteSet(1..Len(seq)) /\ Cardinality(1..Len(seq)) = Len(seq)
  <2>1. 1 \in Int /\ Len(seq) \in Int
    BY <1>1
  <2>2. IsFiniteSet(1..Len(seq))
        /\ Cardinality(1..Len(seq)) = IF 1 > Len(seq) THEN 0 ELSE Len(seq) - 1 + 1
    BY <2>1, FS_Interval
  <2> QED
    BY <1>1, <2>2
<1>3. IsFiniteSet(positions) /\ Cardinality(positions) <= Len(seq)
  BY <1>1, <1>2, FS_Subset
<1>4. Cardinality(positions) \in Nat /\ \A k \in 1..Cardinality(positions) : Nth(positions, k) \in positions
  BY <1>1, <1>3, NthIsInOrder
<1>5. kept = [k \in 1..Cardinality(positions) |-> seq[Nth(positions, k)]]
  BY DEF Retained
<1>6. \A k \in 1..Cardinality(positions) : kept[k] \in S
  BY <1>1, <1>4, <1>5
<1>7. kept = [k \in 1..Cardinality(positions) |-> kept[k]]
  BY <1>5
<1> HIDE DEF kept
<1>8. kept \in Seq(S) /\ Len(kept) = Cardinality(positions)
  BY <1>4, <1>6, <1>7, IsASeq
<1> QED
  BY <1>3, <1>8 DEF kept

-----------------------------------------------------------------------------
(***************************************************************************)
(* The memory tool, for any callers, keys, ttls, cap and clock. An entry   *)
(* that a call can still show was alive when the call evicted: evictions   *)
(* and removals only take entries away, and what is stored in between is   *)
(* younger than the eviction.                                              *)
(***************************************************************************)

MemoryCall == [at : {"start", "evicted", "expired"}, from : 0..MaxClock, key : Keys, shown : SUBSET Entry]

MemoryShape ==
  /\ DOMAIN memory \subseteq Keys /\ memory \in [DOMAIN memory -> Entry]
  /\ clock \in 0..MaxClock /\ stores \in 0..MaxStores
  /\ reader \in [MemoryCallers -> MemoryCall]

MemoryRoom == IsFiniteSet(DOMAIN memory) /\ Cardinality(DOMAIN memory) <= MaxKeys

LivedAt(time, e) == e.ttl # Forever => time < e.inserted + e.ttl

\* A call that may still answer evicted at a time when all entries lived.
MemoryFresh ==
  \A c \in MemoryCallers :
    /\ reader[c].from <= clock
    /\ reader[c].at # "start" => \A k \in DOMAIN memory : LivedAt(reader[c].from, memory[k])
    /\ \A e \in reader[c].shown : LivedAt(reader[c].from, e)

MemoryIInv == MemoryShape /\ MemoryRoom /\ MemoryFresh

\* Entries have gone, and that is all.
Shrunk ==
  /\ DOMAIN memory' \subseteq DOMAIN memory
  /\ memory' = [k \in DOMAIN memory' |-> memory[k]]

\* Taking keys away takes entries away.
LEMMA WithoutShrinks ==
  ASSUME NEW keys, memory' = Without(keys)
  PROVE  Shrunk /\ DOMAIN memory' = DOMAIN memory \ keys
BY DEF Shrunk, Without, Restrict

\* A smaller memory has the room it had.
LEMMA ShrunkRoom ==
  ASSUME MemoryRoom, Shrunk
  PROVE  MemoryRoom'
<1>1. IsFiniteSet(DOMAIN memory') /\ Cardinality(DOMAIN memory') <= Cardinality(DOMAIN memory)
  BY FS_Subset DEF MemoryRoom, Shrunk
<1>2. Cardinality(DOMAIN memory') \in Nat /\ Cardinality(DOMAIN memory) \in Nat
  BY <1>1, FS_CardinalityType DEF MemoryRoom
<1> QED
  BY <1>1, <1>2, MemoryAssumption DEF MemoryRoom

\* A smaller memory keeps its type.
LEMMA ShrunkShape ==
  ASSUME MemoryShape, Shrunk
  PROVE  DOMAIN memory' \subseteq Keys /\ memory' \in [DOMAIN memory' -> Entry]
BY DEF MemoryShape, Shrunk

\* One call moves on, the memory at most shrinks, and the call shows only entries
\* of the memory if it had evicted.
LEMMA OneCallMoves ==
  ASSUME MemoryIInv, Shrunk, clock' = clock, stores' = stores,
         NEW c \in MemoryCallers, NEW call \in MemoryCall, reader' = [reader EXCEPT ![c] = call],
         call.from <= clock,
         call.at # "start" => \A k \in DOMAIN memory' : LivedAt(call.from, memory[k]),
         \A e \in call.shown : LivedAt(call.from, e)
  PROVE  MemoryIInv'
<1>1. MemoryShape'
  BY ShrunkShape DEF MemoryIInv, MemoryShape
<1>2. MemoryRoom'
  BY ShrunkRoom DEF MemoryIInv
<1>3. ASSUME NEW d \in MemoryCallers
      PROVE  /\ reader'[d].from <= clock'
             /\ reader'[d].at # "start" =>
                  \A k \in DOMAIN memory' : LivedAt(reader'[d].from, memory'[k])
             /\ \A e \in reader'[d].shown : LivedAt(reader'[d].from, e)
  <2>1. \A k \in DOMAIN memory' : memory'[k] = memory[k] /\ k \in DOMAIN memory
    BY DEF Shrunk
  <2>2. CASE d = c
    <3>1. reader'[d] = call
      BY <2>2 DEF MemoryIInv, MemoryShape
    <3> QED
      BY <2>1, <3>1
  <2>3. CASE d # c
    <3>1. reader'[d] = reader[d]
      BY <2>3 DEF MemoryIInv, MemoryShape
    <3> QED
      BY <2>1, <3>1 DEF MemoryIInv, MemoryFresh
  <2> QED
    BY <2>2, <2>3
<1>4. MemoryFresh'
  BY <1>3 DEF MemoryFresh
<1> QED
  BY <1>1, <1>2, <1>4 DEF MemoryIInv

\* The call of a caller at rest is a call that shows nothing.
LEMMA NotReadingIsCall == NotReading \in MemoryCall /\ NotReading.from = 0 /\ NotReading.at = "start"
                            /\ NotReading.shown = {}
<1>1. (CHOOSE k \in Keys : TRUE) \in Keys
  BY MemoryAssumption
<1>2. 0 \in 0..MaxClock
  BY MemoryAssumption
<1> QED
  BY <1>1, <1>2 DEF NotReading, MemoryCall

\* Evicting leaves entries that live, from which the call is counted.
LEMMA EvictStep == ASSUME MemoryIInv, NEW c \in MemoryCallers, EvictExpiredScope(c) PROVE MemoryIInv'
<1> DEFINE call == [NotReading EXCEPT !.at = "evicted", !.from = clock]
<1>1. call \in MemoryCall /\ call.from = clock /\ call.shown = {}
  BY NotReadingIsCall DEF MemoryCall, MemoryIInv, MemoryShape
<1>2. Shrunk /\ DOMAIN memory' = DOMAIN memory \ ExpiredKeys
  BY WithoutShrinks DEF EvictExpiredScope
<1>3. ASSUME NEW k \in DOMAIN memory' PROVE LivedAt(clock, memory[k])
  <2>1. k \in DOMAIN memory /\ ~Expired(memory[k])
    BY <1>2, <1>3 DEF ExpiredKeys
  <2>2. memory[k] \in Entry
    BY <2>1 DEF MemoryIInv, MemoryShape
  <2> QED
    BY <2>1, <2>2, MemoryAssumption DEF Expired, LivedAt, Entry, MemoryIInv, MemoryShape
<1>4. clock \in Nat
  BY MemoryAssumption DEF MemoryIInv, MemoryShape
<1>5. reader' = [reader EXCEPT ![c] = call] /\ clock' = clock /\ stores' = stores
  BY DEF EvictExpiredScope
<1> HIDE DEF call
<1>6. call.from <= clock /\ \A e \in call.shown : LivedAt(call.from, e)
  BY <1>1, <1>4
<1> QED
  BY <1>1, <1>2, <1>3, <1>5, <1>6, OneCallMoves

\* The answer of a call that had evicted, from some entries of the memory.
LEMMA ReaderStep ==
  ASSUME MemoryIInv, Shrunk, clock' = clock, stores' = stores, NEW c \in MemoryCallers,
         NEW entries \in SUBSET Entry, Answer(c, entries),
         \A e \in entries : LivedAt(reader[c].from, e)
  PROVE  MemoryIInv'
<1> DEFINE call == [reader[c] EXCEPT !.at = "start", !.shown = entries]
<1>1. /\ call \in MemoryCall /\ call.from = reader[c].from /\ call.at = "start"
      /\ call.shown = entries
  BY DEF MemoryIInv, MemoryShape, MemoryCall
<1>2. reader' = [reader EXCEPT ![c] = call]
  BY DEF Answer
<1>3. reader[c].from <= clock
  BY DEF MemoryIInv, MemoryFresh
<1> HIDE DEF call
<1> QED
  BY <1>1, <1>2, <1>3, OneCallMoves

\* A memory that stays as it is has lost nothing that it still has.
LEMMA MemoryUnchanged == ASSUME MemoryIInv, memory' = memory PROVE Shrunk
BY DEF MemoryIInv, MemoryShape, Shrunk

\* A recall shows an entry of the memory, and removes none yet.
LEMMA RecallStep == ASSUME MemoryIInv, NEW c \in MemoryCallers, Recall(c) PROVE MemoryIInv'
<1>1. Shrunk /\ clock' = clock /\ stores' = stores /\ reader[c].at = "evicted"
  BY MemoryUnchanged DEF Recall
<1>2. PICK key \in Keys :
        \/ key \notin DOMAIN memory /\ Answer(c, {})
        \/ key \in DOMAIN memory /\ Answer(c, {memory[key]})
        \/ reader' = [reader EXCEPT ![c].at = "expired", ![c].key = key]
  BY DEF Recall
<1>3. \A k \in DOMAIN memory : memory[k] \in Entry /\ LivedAt(reader[c].from, memory[k])
  BY <1>1 DEF MemoryIInv, MemoryShape, MemoryFresh
<1>4. CASE Answer(c, {})
  BY <1>1, <1>4, ReaderStep
<1>5. CASE key \in DOMAIN memory /\ Answer(c, {memory[key]})
  <2>1. {memory[key]} \in SUBSET Entry /\ \A e \in {memory[key]} : LivedAt(reader[c].from, e)
    BY <1>3, <1>5
  <2> QED
    BY <1>1, <1>5, <2>1, ReaderStep
<1>6. CASE reader' = [reader EXCEPT ![c].at = "expired", ![c].key = key]
  <2> DEFINE call == [reader[c] EXCEPT !.at = "expired", !.key = key]
  <2>1. call \in MemoryCall /\ call.from = reader[c].from /\ call.shown = reader[c].shown
    BY DEF MemoryIInv, MemoryShape, MemoryCall
  <2>2. reader' = [reader EXCEPT ![c] = call]
    BY <1>6 DEF MemoryIInv, MemoryShape, MemoryCall
  <2>3. call.from <= clock /\ \A e \in call.shown : LivedAt(call.from, e)
    BY <2>1 DEF MemoryIInv, MemoryFresh
  <2>4. \A k \in DOMAIN memory' : LivedAt(call.from, memory[k])
    BY <1>1, <1>3, <2>1 DEF Shrunk
  <2> HIDE DEF call
  <2> QED
    BY <1>1, <2>1, <2>2, <2>3, <2>4, OneCallMoves
<1> QED
  BY <1>2, <1>4, <1>5, <1>6

\* A list or a search shows what the memory has.
LEMMA ListStep == ASSUME MemoryIInv, NEW c \in MemoryCallers, ListOrSearch(c) PROVE MemoryIInv'
<1>1. Shrunk /\ clock' = clock /\ stores' = stores /\ reader[c].at = "evicted"
  BY MemoryUnchanged DEF ListOrSearch
<1>2. PICK keys \in SUBSET DOMAIN memory : Answer(c, {memory[k] : k \in keys})
  BY DEF ListOrSearch
<1>3. \A k \in DOMAIN memory : memory[k] \in Entry /\ LivedAt(reader[c].from, memory[k])
  BY <1>1 DEF MemoryIInv, MemoryShape, MemoryFresh
<1>4. /\ {memory[k] : k \in keys} \in SUBSET Entry
      /\ \A e \in {memory[k] : k \in keys} : LivedAt(reader[c].from, e)
  BY <1>3
<1> QED
  BY <1>1, <1>2, <1>4, ReaderStep

\* Forgetting, and removing what a recall found expired, take one key away.
LEMMA ForgetStep ==
  ASSUME MemoryIInv, NEW c \in MemoryCallers, Forget(c) \/ RemoveRecalled(c)
  PROVE  MemoryIInv'
<1>1. PICK keys : memory' = Without(keys)
  BY DEF Forget, RemoveRecalled
<1>2. Answer(c, {}) /\ clock' = clock /\ stores' = stores
  BY DEF Forget, RemoveRecalled
<1>3. Shrunk
  BY <1>1, WithoutShrinks
<1> QED
  BY <1>2, <1>3, ReaderStep

\* A caller that leaves shows nothing.
LEMMA LeaveMemoryStep == ASSUME MemoryIInv, NEW c \in MemoryCallers, LeaveMemory(c) PROVE MemoryIInv'
<1>1. clock \in Nat
  BY MemoryAssumption DEF MemoryIInv, MemoryShape
<1>2. /\ reader' = [reader EXCEPT ![c] = NotReading] /\ Shrunk
      /\ clock' = clock /\ stores' = stores
  BY MemoryUnchanged DEF LeaveMemory
<1>3. NotReading \in MemoryCall /\ NotReading.from <= clock
  BY <1>1, NotReadingIsCall
<1>4. /\ NotReading.at = "start"
      /\ \A e \in NotReading.shown : LivedAt(NotReading.from, e)
  BY NotReadingIsCall
<1> QED
  BY <1>2, <1>3, <1>4, OneCallMoves

\* Time does not change what lived when a call began.
LEMMA MemoryTickStep == ASSUME MemoryIInv, MemoryTick PROVE MemoryIInv'
<1>1. clock \in Nat /\ clock' = clock + 1 /\ clock' \in 0..MaxClock
  BY MemoryAssumption DEF MemoryIInv, MemoryShape, MemoryTick
<1>2. MemoryShape' /\ MemoryRoom'
  BY <1>1 DEF MemoryIInv, MemoryShape, MemoryRoom, MemoryTick
<1>3. \A c \in MemoryCallers : reader[c].from \in Nat
  BY DEF MemoryIInv, MemoryShape, MemoryCall
<1>4. MemoryFresh'
  BY <1>1, <1>3 DEF MemoryIInv, MemoryFresh, MemoryTick
<1> QED
  BY <1>2, <1>4 DEF MemoryIInv

\* A store stays within the cap: a new key at the cap takes the place of another.
LEMMA StoreRoom ==
  ASSUME MemoryRoom, NEW key, NEW out \in Evicted(key)
  PROVE  LET after == (DOMAIN memory \ (out \cup {key})) \cup {key} IN
         IsFiniteSet(after) /\ Cardinality(after) <= MaxKeys
<1> DEFINE before == DOMAIN memory
           kept == before \ (out \cup {key})
<1>1. IsFiniteSet(before) /\ Cardinality(before) <= MaxKeys /\ Cardinality(before) \in Nat
  BY FS_CardinalityType DEF MemoryRoom
<1>2. IsFiniteSet(kept) /\ Cardinality(kept) \in Nat /\ key \notin kept
  BY <1>1, FS_Subset, FS_CardinalityType
<1>3. IsFiniteSet(kept \cup {key}) /\ Cardinality(kept \cup {key}) = Cardinality(kept) + 1
  BY <1>2, FS_AddElement
<1>4. Cardinality(kept) + 1 <= MaxKeys
  <2>1. CASE key \in before
    <3>1. /\ IsFiniteSet(before \ {key})
          /\ Cardinality(before \ {key}) = Cardinality(before) - 1
      BY <1>1, <2>1, FS_RemoveElement
    <3>2. Cardinality(kept) <= Cardinality(before \ {key})
      BY <3>1, FS_Subset
    <3> QED
      BY <1>1, <1>2, <3>1, <3>2, MemoryAssumption
  <2>2. CASE key \notin before /\ Cardinality(before) < MaxKeys
    <3>1. Cardinality(kept) <= Cardinality(before)
      BY <1>1, FS_Subset
    <3> QED
      BY <1>1, <1>2, <2>2, <3>1, MemoryAssumption
  <2>3. CASE key \notin before /\ Cardinality(before) >= MaxKeys
    <3>1. PICK k \in Oldest : out = {k}
      BY <2>3 DEF Evicted
    <3>2. k \in before
      BY <3>1 DEF Oldest
    <3>3. kept = before \ {k}
      BY <2>3, <3>1
    <3>4. Cardinality(kept) = Cardinality(before) - 1
      BY <1>1, <3>2, <3>3, FS_RemoveElement
    <3> QED
      BY <1>1, <3>4, MemoryAssumption
  <2> QED
    BY <1>1, <2>1, <2>2, <2>3, MemoryAssumption
<1> QED
  BY <1>3, <1>4

\* What is stored lives from now on, and takes the place of an old entry at the cap.
LEMMA StoreStep == ASSUME MemoryIInv, NEW c \in MemoryCallers, Store(c) PROVE MemoryIInv'
<1>1. PICK key \in Keys, ttl \in Ttls \cup {Forever} : \E out \in Evicted(key) :
        LET kept == Without(out \cup {key}) IN
        memory' = [k \in DOMAIN kept \cup {key} |->
                     IF k = key THEN [value |-> stores', inserted |-> clock, ttl |-> ttl]
                     ELSE kept[k]]
  BY DEF Store
<1>2. PICK out \in Evicted(key) :
        LET kept == Without(out \cup {key}) IN
        memory' = [k \in DOMAIN kept \cup {key} |->
                     IF k = key THEN [value |-> stores', inserted |-> clock, ttl |-> ttl]
                     ELSE kept[k]]
  BY <1>1
<1> DEFINE new == [value |-> stores', inserted |-> clock, ttl |-> ttl]
<1>3. /\ DOMAIN memory' = (DOMAIN memory \ (out \cup {key})) \cup {key}
      /\ memory' = [k \in DOMAIN memory' |-> IF k = key THEN new ELSE memory[k]]
  BY <1>2 DEF Without, Restrict
<1>4. stores' \in 1..MaxStores /\ clock' = clock /\ clock \in Nat /\ Answer(c, {})
  BY MemoryAssumption DEF Store, MemoryIInv, MemoryShape
<1>5. new \in Entry
  BY <1>4 DEF Entry, MemoryIInv, MemoryShape
<1>6. MemoryRoom'
  BY <1>3, StoreRoom DEF MemoryIInv, MemoryRoom
<1>7. reader' = [reader EXCEPT ![c] = [reader[c] EXCEPT !.at = "start", !.shown = {}]]
  BY <1>4 DEF Answer
<1>8. reader' \in [MemoryCallers -> MemoryCall]
  BY <1>7 DEF MemoryIInv, MemoryShape, MemoryCall
<1>9. \A k \in DOMAIN memory' : k \in Keys /\ memory'[k] \in Entry
  BY <1>3, <1>5 DEF MemoryIInv, MemoryShape
<1>10. MemoryShape'
  <2>1. memory' \in [DOMAIN memory' -> Entry]
    BY <1>3, <1>9
  <2> QED
    BY <1>4, <1>8, <1>9, <2>1 DEF MemoryIInv, MemoryShape
<1>11. ASSUME NEW time \in Nat, time <= clock PROVE LivedAt(time, new)
  BY <1>4, <1>11, MemoryAssumption DEF LivedAt
<1>12. ASSUME NEW d \in MemoryCallers
       PROVE  /\ reader'[d].from <= clock'
              /\ reader'[d].at # "start" =>
                   \A k \in DOMAIN memory' : LivedAt(reader'[d].from, memory'[k])
              /\ \A e \in reader'[d].shown : LivedAt(reader'[d].from, e)
  <2>1. /\ reader'[d].from = reader[d].from
        /\ reader'[d].at # "start" => reader[d].at # "start"
        /\ reader'[d].shown \subseteq reader[d].shown
    BY <1>7 DEF MemoryIInv, MemoryShape, MemoryCall
  <2>2. reader[d].from \in Nat /\ reader[d].from <= clock
    BY DEF MemoryIInv, MemoryShape, MemoryCall, MemoryFresh
  <2>3. ASSUME reader'[d].at # "start", NEW k \in DOMAIN memory'
        PROVE  LivedAt(reader[d].from, memory'[k])
    <3>1. CASE k = key
      <4>1. memory'[k] = new
        BY <1>3, <3>1
      <4> QED
        BY <4>1, <1>11, <2>2
    <3>2. CASE k # key
      <4>1. memory'[k] = memory[k] /\ k \in DOMAIN memory
        BY <1>3, <2>3, <3>2
      <4> QED
        BY <4>1, <2>1, <2>3 DEF MemoryIInv, MemoryFresh
    <3> QED
      BY <3>1, <3>2
  <2> QED
    BY <1>4, <2>1, <2>2, <2>3 DEF MemoryIInv, MemoryFresh
<1>13. MemoryFresh'
  BY <1>12 DEF MemoryFresh
<1> QED
  BY <1>6, <1>10, <1>13 DEF MemoryIInv

\* The types, the room and the freshness together are inductive.
LEMMA MemoryInductive == MemorySpec => []MemoryIInv
<1>1. MemoryInit => MemoryIInv
  <2> SUFFICES ASSUME MemoryInit PROVE MemoryIInv
    OBVIOUS
  <2>1. DOMAIN memory = {}
    BY DEF MemoryInit
  <2>2. MemoryShape
    <3>1. memory \in [DOMAIN memory -> Entry]
      BY <2>1 DEF MemoryInit
    <3> QED
      BY <2>1, <3>1, NotReadingIsCall, MemoryAssumption DEF MemoryInit, MemoryShape
  <2>3. MemoryRoom
    BY <2>1, FS_EmptySet, MemoryAssumption DEF MemoryRoom
  <2>4. MemoryFresh
    BY NotReadingIsCall DEF MemoryInit, MemoryFresh
  <2> QED
    BY <2>2, <2>3, <2>4 DEF MemoryIInv
<1>2. MemoryIInv /\ [MemoryNext]_memoryVars => MemoryIInv'
  <2>1. ASSUME MemoryIInv, UNCHANGED memoryVars PROVE MemoryIInv'
    BY <2>1 DEF memoryVars, MemoryIInv, MemoryShape, MemoryRoom, MemoryFresh
  <2> QED
    BY <2>1, MemoryTickStep, EvictStep, StoreStep, RecallStep, ForgetStep, ListStep, LeaveMemoryStep
    DEF MemoryNext
<1> QED
  BY <1>1, <1>2, PTL DEF MemorySpec

\* The memory keeps its types, and a scope never outgrows max_keys.
THEOREM MemoryTypeCorrect == MemorySpec => []MemoryTypeOK
<1>1. MemoryIInv => MemoryTypeOK
  BY DEF MemoryIInv, MemoryShape, MemoryRoom, MemoryCall, MemoryTypeOK
<1> QED
  BY <1>1, MemoryInductive, PTL

\* No answer shows an entry that had expired when its call began, although list and
\* search never look at a ttl.
THEOREM NothingExpiredIsShown == MemorySpec => []ShownWereAlive
<1>1. MemoryIInv => ShownWereAlive
  BY DEF MemoryIInv, MemoryFresh, LivedAt, ShownWereAlive
<1> QED
  BY <1>1, MemoryInductive, PTL

-----------------------------------------------------------------------------
(***************************************************************************)
(* The todo and plan tools, for any caps and any number of items. Until    *)
(* the first clear an id is a place: the item of todo n is the n-th,       *)
(* plans are numbered without a gap, and every id that was given is the    *)
(* one of its item.                                                        *)
(***************************************************************************)

TodoIds == {<<n>> : n \in Nat} \cup {Second(n) : n \in Nat}
TodoItem == [id : TodoIds, status : Statuses, item : 1..made]
PlanStep == [id : 1..MaxSteps, status : Statuses, renamed : BOOLEAN]
Plan == [plan : 1..made, steps : Seq(PlanStep)]

TodosShape == todos \in Seq(TodoItem) /\ Len(todos) <= MaxItems

\* The ids of a plan's steps are their places.
PlansShape ==
  /\ DOMAIN plans \subseteq 1..MaxPlans /\ plans \in [DOMAIN plans -> Plan]
  /\ \A p \in DOMAIN plans :
       /\ Len(plans[p].steps) <= MaxSteps
       /\ \A s \in DOMAIN plans[p].steps : plans[p].steps[s].id = s

ListsShape == TodosShape /\ PlansShape /\ made \in 0..MaxMade /\ cleared \in BOOLEAN

\* Where nothing was cleared, the n-th item or plan has the id n, and those are the
\* ids that were answered.
Answered ==
  ~cleared =>
    /\ \A i \in DOMAIN todos : todos[i].id = <<i>>
    /\ DOMAIN plans = 1..Cardinality(DOMAIN plans)
    /\ \A g \in given : \/ \E i \in DOMAIN todos : g = <<<<i>>, todos[i].item>>
                        \/ \E p \in DOMAIN plans : g = <<<<p, "plan">>, plans[p].plan>>

ListsIInv == ListsShape /\ Answered

\* There are finitely many plans, at most the cap.
LEMMA PlansAreFinite ==
  ASSUME PlansShape
  PROVE  /\ IsFiniteSet(DOMAIN plans) /\ Cardinality(DOMAIN plans) \in 0..MaxPlans
         /\ \A S \in SUBSET DOMAIN plans : IsFiniteSet(S) /\ Cardinality(S) \in Nat
<1>1. IsFiniteSet(1..MaxPlans) /\ Cardinality(1..MaxPlans) = MaxPlans
  BY ListsAssumption, FS_Interval
<1>2. IsFiniteSet(DOMAIN plans) /\ Cardinality(DOMAIN plans) <= Cardinality(1..MaxPlans)
  BY <1>1, FS_Subset DEF PlansShape
<1> QED
  BY <1>1, <1>2, FS_Subset, FS_CardinalityType, ListsAssumption

\* An added item is the next of the list, under the next id unless something was cleared.
LEMMA TodoAddStep == ASSUME ListsIInv, TodoAdd PROVE ListsIInv'
<1> DEFINE full == Len(todos) >= MaxItems
           kept == IF full THEN Tail(todos) ELSE todos
           id   == TodoId(kept)
           new  == [id |-> id, status |-> "pending", item |-> made']
<1>1. /\ made < MaxMade /\ made' = made + 1 /\ UNCHANGED plans
      /\ todos' = Append(kept, new) /\ given' = given \cup {<<id, made'>>}
      /\ cleared' = (cleared \/ full)
  BY DEF TodoAdd
<1>2. made \in 0..MaxMade /\ made' \in 1..MaxMade /\ MaxMade \in Nat
  BY <1>1, ListsAssumption DEF ListsIInv, ListsShape
<1>3. todos \in Seq(TodoItem) /\ Len(todos) \in Nat /\ Len(todos) <= MaxItems /\ MaxItems \in Nat \ {0}
  BY ListsAssumption DEF ListsIInv, ListsShape, TodosShape
<1>4. kept \in Seq(TodoItem) /\ Len(kept) \in Nat /\ Len(kept) < MaxItems
  BY <1>3
<1>5. kept \in Seq(TodoItem')
  <2>1. TodoItem \subseteq TodoItem'
    BY <1>1, <1>2 DEF TodoItem
  <2> QED
    BY <1>4, <2>1
<1>6. id \in TodoIds
  BY <1>4 DEF TodoId, TodoIds
<1>7. new \in TodoItem'
  BY <1>2, <1>6, ListsAssumption DEF TodoItem
<1> HIDE DEF new, kept, id
<1>8. /\ todos' \in Seq(TodoItem') /\ Len(todos') = Len(kept) + 1
      /\ \A i \in 1..Len(kept) : todos'[i] = kept[i]
      /\ todos'[Len(kept) + 1] = new
  BY <1>1, <1>5, <1>7, AppendProperties
<1>9. PlansShape'
  <2>1. Plan \subseteq Plan'
    <3>1. 1..made \subseteq 1..made' /\ PlanStep' = PlanStep
      BY <1>1, <1>2 DEF PlanStep
    <3> QED
      BY <3>1 DEF Plan
  <2>2. plans' \in [DOMAIN plans' -> Plan']
    BY <1>1, <2>1 DEF ListsIInv, ListsShape, PlansShape
  <2> QED
    BY <1>1, <2>2 DEF ListsIInv, ListsShape, PlansShape
<1>10. ListsShape'
  <2>1. Len(todos') <= MaxItems
    BY <1>3, <1>4, <1>8
  <2>2. cleared' \in BOOLEAN
    BY <1>1 DEF ListsIInv, ListsShape
  <2> QED
    BY <1>2, <1>8, <1>9, <2>1, <2>2 DEF ListsShape, TodosShape
<1>11. Answered'
  <2> SUFFICES ASSUME ~cleared' PROVE Answered'
    BY DEF Answered
  <2>1. ~cleared /\ ~full /\ kept = todos
    BY <1>1 DEF kept
  <2>2. DOMAIN todos = 1..Len(todos) /\ DOMAIN todos' = 1..(Len(todos) + 1)
    BY <1>3, <1>8, <2>1
  <2>3. id = <<Len(todos) + 1>>
    <3>1. \A i \in DOMAIN todos : todos[i].id # <<Len(todos) + 1>>
      BY <1>3, <2>1, <2>2 DEF ListsIInv, Answered
    <3> QED
      BY <2>1, <3>1 DEF id, TodoId
  <2>4. new.id = <<Len(todos) + 1>> /\ new.item = made'
    BY <2>3 DEF new
  <2>5. \A i \in DOMAIN todos' : todos'[i].id = <<i>>
    BY <1>3, <1>8, <2>1, <2>2, <2>4 DEF ListsIInv, Answered
  <2>6. \A g \in given' : \/ \E i \in DOMAIN todos' : g = <<<<i>>, todos'[i].item>>
                          \/ \E p \in DOMAIN plans' : g = <<<<p, "plan">>, plans'[p].plan>>
    <3>1. Len(todos) + 1 \in DOMAIN todos' /\ <<id, made'>> = <<<<Len(todos) + 1>>, todos'[Len(todos) + 1].item>>
      BY <1>3, <1>8, <2>1, <2>2, <2>3, <2>4
    <3>2. \A i \in DOMAIN todos : i \in DOMAIN todos' /\ todos'[i] = todos[i]
      BY <1>3, <1>8, <2>1, <2>2
    <3>3. ASSUME NEW g \in given
          PROVE  \/ \E i \in DOMAIN todos' : g = <<<<i>>, todos'[i].item>>
                 \/ \E p \in DOMAIN plans' : g = <<<<p, "plan">>, plans'[p].plan>>
      BY <1>1, <2>1, <3>2 DEF ListsIInv, Answered
    <3> QED
      BY <1>1, <3>1, <3>3
  <2>7. DOMAIN plans' = 1..Cardinality(DOMAIN plans')
    BY <1>1, <2>1 DEF ListsIInv, Answered
  <2> QED
    BY <2>5, <2>6, <2>7 DEF Answered
<1> QED
  BY <1>10, <1>11 DEF ListsIInv

\* Nothing but a status changes.
LEMMA TodoSetStep ==
  ASSUME ListsIInv, NEW id, NEW status \in Statuses, TodoSet(id, status)
  PROVE  ListsIInv'
<1>1. PICK i \in DOMAIN todos : todos' = [todos EXCEPT ![i].status = status]
  BY DEF TodoSet, FirstOf
<1>2. UNCHANGED <<plans, made, given, cleared>>
  BY DEF TodoSet
<1>3. todos \in Seq(TodoItem)
  BY DEF ListsIInv, ListsShape, TodosShape
<1>4. /\ todos' \in Seq(TodoItem) /\ Len(todos') = Len(todos) /\ DOMAIN todos' = DOMAIN todos
      /\ \A j \in DOMAIN todos : todos'[j].id = todos[j].id /\ todos'[j].item = todos[j].item
  <2>1. todos[i] \in TodoItem
    BY <1>3
  <2>2. [todos[i] EXCEPT !.status = status] \in TodoItem
    BY <2>1 DEF TodoItem
  <2>3. todos' = [todos EXCEPT ![i] = [todos[i] EXCEPT !.status = status]]
    BY <1>1
  <2>4. [todos[i] EXCEPT !.status = status].id = todos[i].id
        /\ [todos[i] EXCEPT !.status = status].item = todos[i].item
    BY <2>1 DEF TodoItem
  <2> QED
    BY <1>3, <2>2, <2>3, <2>4
<1>5. ListsShape'
  BY <1>2, <1>4 DEF ListsIInv, ListsShape, TodosShape, PlansShape, TodoItem, Plan, PlanStep
<1>6. Answered'
  BY <1>2, <1>4 DEF ListsIInv, Answered
<1> QED
  BY <1>5, <1>6 DEF ListsIInv

\* A clear keeps the unfinished items; once it drops one, nothing is promised of ids.
LEMMA TodoClearStep == ASSUME ListsIInv, TodoClear PROVE ListsIInv'
<1>1. /\ todos' = Retained(todos, {i \in DOMAIN todos : Unfinished(todos[i])})
      /\ cleared' = (cleared \/ todos' # todos) /\ UNCHANGED <<plans, made, given>>
  BY DEF TodoClear
<1>2. todos \in Seq(TodoItem) /\ Len(todos) <= MaxItems
  BY DEF ListsIInv, ListsShape, TodosShape
<1>3. todos' \in Seq(TodoItem) /\ Len(todos') <= Len(todos)
  BY <1>1, <1>2, RetainedIsSeq
<1>4. ListsShape'
  <2>1. Len(todos') \in Nat /\ Len(todos) \in Nat /\ MaxItems \in Nat
    BY <1>2, <1>3, ListsAssumption
  <2>2. TodosShape'
    BY <1>1, <1>2, <1>3, <2>1 DEF TodosShape, TodoItem
  <2> QED
    BY <1>1, <2>2 DEF ListsIInv, ListsShape, PlansShape, Plan, PlanStep
<1>5. Answered'
  <2> SUFFICES ASSUME ~cleared' PROVE Answered'
    BY DEF Answered
  <2>1. todos' = todos /\ ~cleared
    BY <1>1
  <2>2. UNCHANGED <<plans, given>>
    BY <1>1
  <2> QED
    BY <2>1, <2>2 DEF ListsIInv, Answered
<1> QED
  BY <1>4, <1>5 DEF ListsIInv

\* A plan that is made of proper steps.
LEMMA NewStepsAre ==
  ASSUME NEW n \in FirstSteps
  PROVE  /\ NewSteps(n) \in Seq(PlanStep) /\ Len(NewSteps(n)) <= MaxSteps
         /\ \A s \in DOMAIN NewSteps(n) : NewSteps(n)[s].id = s
<1>1. n \in 0..MaxSteps /\ n \in Nat /\ MaxSteps \in Nat
  BY ListsAssumption
<1>2. \A i \in 1..n : NewSteps(n)[i] \in PlanStep
  BY <1>1, ListsAssumption DEF NewSteps, PlanStep
<1>3. NewSteps(n) \in Seq(PlanStep) /\ Len(NewSteps(n)) = n
  BY <1>1, <1>2, IsASeq DEF NewSteps
<1> QED
  BY <1>1, <1>3 DEF NewSteps

\* A created plan has the next number, unless one was cleared or had to go at the cap.
LEMMA PlanCreateStep == ASSUME ListsIInv, PlanCreate PROVE ListsIInv'
<1>1. PICK out \in (IF Cardinality(DOMAIN plans) >= MaxPlans
                    THEN {{p} : p \in DOMAIN plans} ELSE {{}}), n \in FirstSteps :
        LET kept == DOMAIN plans \ out
            id   == Cardinality(kept) + 1
        IN  /\ plans' = [p \in kept \cup {id} |->
                           IF p = id THEN [plan |-> made', steps |-> NewSteps(n)] ELSE plans[p]]
            /\ given' = given \cup {<<<<id, "plan">>, made'>>}
            /\ cleared' = (cleared \/ out # {})
  BY DEF PlanCreate
<1> DEFINE kept == DOMAIN plans \ out
           id   == Cardinality(kept) + 1
           new  == [plan |-> made', steps |-> NewSteps(n)]
<1>2. /\ made < MaxMade /\ made' = made + 1 /\ UNCHANGED todos
      /\ plans' = [p \in kept \cup {id} |-> IF p = id THEN new ELSE plans[p]]
      /\ given' = given \cup {<<<<id, "plan">>, made'>>}
      /\ cleared' = (cleared \/ out # {})
  BY <1>1 DEF PlanCreate
<1>3. made \in 0..MaxMade /\ made' \in 1..MaxMade /\ MaxMade \in Nat
  BY <1>2, ListsAssumption DEF ListsIInv, ListsShape
<1>4. PlansShape
  BY DEF ListsIInv, ListsShape
<1>5. IsFiniteSet(DOMAIN plans) /\ Cardinality(DOMAIN plans) \in 0..MaxPlans
  BY <1>4, PlansAreFinite
<1>6. Cardinality(kept) \in Nat /\ Cardinality(kept) < MaxPlans
  <2>1. MaxPlans \in Nat \ {0}
    BY ListsAssumption
  <2>2. CASE Cardinality(DOMAIN plans) >= MaxPlans
    <3>1. PICK p \in DOMAIN plans : out = {p}
      BY <1>1, <2>2
    <3>2. Cardinality(kept) = Cardinality(DOMAIN plans) - 1 /\ IsFiniteSet(kept)
      BY <1>5, <3>1, FS_RemoveElement
    <3>3. Cardinality(kept) \in Nat
      BY <3>2, FS_CardinalityType
    <3> QED
      BY <1>5, <2>1, <3>2, <3>3
  <2>3. CASE ~(Cardinality(DOMAIN plans) >= MaxPlans)
    <3>1. out = {} /\ kept = DOMAIN plans
      BY <1>1, <2>3
    <3> QED
      BY <1>5, <2>1, <2>3, <3>1
  <2> QED
    BY <2>2, <2>3
<1>7. id \in 1..MaxPlans /\ id \in Nat
  BY <1>6, ListsAssumption
<1>8. TodosShape'
  <2>1. TodoItem \subseteq TodoItem'
    BY <1>2, <1>3 DEF TodoItem
  <2> QED
    BY <1>2, <2>1 DEF ListsIInv, ListsShape, TodosShape
<1>9. PlansShape'
  <2>1. new \in Plan' /\ new.steps = NewSteps(n)
    <3>1. NewSteps(n) \in Seq(PlanStep) /\ made' \in 1..made'
      BY <1>3, NewStepsAre
    <3>2. Plan' = [plan : 1..made', steps : Seq(PlanStep)]
      BY DEF Plan, PlanStep
    <3> QED
      BY <3>1, <3>2
  <2>2. Plan \subseteq Plan'
    <3>1. 1..made \subseteq 1..made' /\ PlanStep' = PlanStep
      BY <1>2, <1>3 DEF PlanStep
    <3> QED
      BY <3>1 DEF Plan
  <2> HIDE DEF new, id
  <2>3. DOMAIN plans' = kept \cup {id} /\ kept \subseteq DOMAIN plans
    BY <1>2
  <2>4. \A p \in DOMAIN plans' : \/ plans'[p] = new
                                 \/ p \in DOMAIN plans /\ plans'[p] = plans[p]
    BY <1>2
  <2>5. plans' \in [DOMAIN plans' -> Plan']
    <3>1. \A p \in DOMAIN plans' : plans'[p] \in Plan'
      BY <1>4, <2>1, <2>2, <2>4 DEF PlansShape
    <3>2. plans' = [p \in DOMAIN plans' |-> plans'[p]]
      BY <1>2
    <3> QED
      BY <3>1, <3>2
  <2>6. \A p \in DOMAIN plans' :
          /\ Len(plans'[p].steps) <= MaxSteps
          /\ \A s \in DOMAIN plans'[p].steps : plans'[p].steps[s].id = s
    BY <1>4, <2>1, <2>4, NewStepsAre DEF PlansShape
  <2>7. DOMAIN plans' \subseteq 1..MaxPlans
    BY <1>4, <1>7, <2>3 DEF PlansShape
  <2> QED
    BY <2>5, <2>6, <2>7 DEF PlansShape
<1>10. ListsShape'
  <2>1. cleared' \in BOOLEAN
    BY <1>2 DEF ListsIInv, ListsShape
  <2> QED
    BY <1>3, <1>8, <1>9, <2>1 DEF ListsShape
<1>11. Answered'
  <2> SUFFICES ASSUME ~cleared' PROVE Answered'
    BY DEF Answered
  <2>1. ~cleared /\ out = {} /\ kept = DOMAIN plans
    BY <1>2
  <2>2. DOMAIN plans = 1..(id - 1)
    BY <1>6, <2>1 DEF ListsIInv, Answered
  <2>3. new.plan = made'
    OBVIOUS
  <2> HIDE DEF id, new
  <2>4. DOMAIN plans' = 1..id
    BY <1>2, <1>7, <2>1, <2>2
  <2>5. Cardinality(DOMAIN plans') = id
    <3>1. 1 \in Int /\ id \in Int
      BY <1>7
    <3>2. Cardinality(1..id) = IF 1 > id THEN 0 ELSE id - 1 + 1
      BY <3>1, FS_Interval
    <3> QED
      BY <1>7, <2>4, <3>2
  <2>6. plans'[id] = new /\ \A p \in DOMAIN plans : p \in DOMAIN plans' /\ plans'[p] = plans[p]
    BY <1>2, <1>7, <2>1, <2>2
  <2>7. ASSUME NEW g \in given'
        PROVE  \/ \E i \in DOMAIN todos' : g = <<<<i>>, todos'[i].item>>
               \/ \E p \in DOMAIN plans' : g = <<<<p, "plan">>, plans'[p].plan>>
    <3>1. CASE g \in given
      BY <1>2, <2>1, <2>6, <3>1 DEF ListsIInv, Answered
    <3>2. CASE g = <<<<id, "plan">>, made'>>
      BY <1>7, <2>3, <2>4, <2>6, <3>2
    <3> QED
      BY <1>2, <3>1, <3>2
  <2>8. \A i \in DOMAIN todos' : todos'[i].id = <<i>>
    BY <1>2, <2>1 DEF ListsIInv, Answered
  <2> QED
    BY <2>4, <2>5, <2>7, <2>8 DEF Answered
<1> QED
  BY <1>10, <1>11 DEF ListsIInv

\* The steps of one plan are replaced by proper ones.
LEMMA StepsReplaced ==
  ASSUME ListsIInv, NEW p \in DOMAIN plans, NEW steps \in Seq(PlanStep), Len(steps) <= MaxSteps,
         \A s \in DOMAIN steps : steps[s].id = s,
         plans' = [plans EXCEPT ![p].steps = steps], UNCHANGED <<todos, made, given, cleared>>
  PROVE  ListsIInv'
<1>1. PlansShape
  BY DEF ListsIInv, ListsShape
<1>2. plans[p] \in Plan
  BY <1>1 DEF PlansShape
<1> DEFINE new == [plans[p] EXCEPT !.steps = steps]
<1>3. new \in Plan /\ new.steps = steps /\ new.plan = plans[p].plan
  BY <1>2 DEF Plan
<1> HIDE DEF new
<1>4. plans' = [plans EXCEPT ![p] = new]
  BY DEF new
<1>5. DOMAIN plans' = DOMAIN plans /\ plans'[p] = new
      /\ \A q \in DOMAIN plans : q # p => plans'[q] = plans[q]
  BY <1>4
<1>6. Plan' = Plan
  BY DEF Plan, PlanStep
<1>7. plans' \in [DOMAIN plans' -> Plan]
  BY <1>1, <1>3, <1>4 DEF PlansShape
<1>8. PlansShape'
  BY <1>1, <1>3, <1>5, <1>6, <1>7 DEF PlansShape
<1>9. ListsShape'
  BY <1>8 DEF ListsIInv, ListsShape, TodosShape, TodoItem
<1>10. \A q \in DOMAIN plans : plans'[q].plan = plans[q].plan
  BY <1>3, <1>5
<1>11. Answered'
  BY <1>5, <1>10 DEF ListsIInv, Answered
<1> QED
  BY <1>9, <1>11 DEF ListsIInv

\* An added step changes no id of a plan.
LEMMA PlanAddStepStep == ASSUME ListsIInv, PlanAddStep PROVE ListsIInv'
<1>1. PICK p \in DOMAIN plans :
        LET n == Len(plans[p].steps) + 1 IN
        /\ n <= MaxSteps
        /\ plans' = [plans EXCEPT ![p].steps =
                       Append(@, [id |-> n, status |-> "pending", renamed |-> FALSE])]
        /\ UNCHANGED <<todos, made, given, cleared>>
  BY DEF PlanAddStep
<1> DEFINE old == plans[p].steps
           n == Len(old) + 1
           new == [id |-> n, status |-> "pending", renamed |-> FALSE]
<1>2. old \in Seq(PlanStep) /\ Len(old) \in Nat /\ \A s \in DOMAIN old : old[s].id = s
  <2>1. plans[p] \in Plan
    BY DEF ListsIInv, ListsShape, PlansShape
  <2> QED
    BY <2>1 DEF ListsIInv, ListsShape, PlansShape, Plan
<1>3. new \in PlanStep /\ new.id = n
  BY <1>1, <1>2, ListsAssumption DEF PlanStep
<1>4. plans' = [plans EXCEPT ![p].steps = Append(old, new)]
  BY <1>1
<1> HIDE DEF new
<1>5. /\ Append(old, new) \in Seq(PlanStep) /\ Len(Append(old, new)) = n
      /\ \A s \in DOMAIN Append(old, new) : Append(old, new)[s].id = s
  BY <1>2, <1>3
<1> QED
  BY <1>1, <1>4, <1>5, StepsReplaced

\* An updated step changes no id of a plan.
LEMMA PlanUpdateStepStep == ASSUME ListsIInv, PlanUpdateStep PROVE ListsIInv'
<1>1. UNCHANGED <<todos, made, given, cleared>>
  BY DEF PlanUpdateStep
<1>2. PICK p \in DOMAIN plans, status \in Statuses \cup {"none"} :
        PlanUpdateNamed(p, status) \/ \E description \in BOOLEAN : PlanUpdateFirst(p, status, description)
  BY DEF PlanUpdateStep
<1> DEFINE old == plans[p].steps
<1>3. old \in Seq(PlanStep) /\ Len(old) <= MaxSteps /\ \A s \in DOMAIN old : old[s].id = s
  <2>1. plans[p] \in Plan
    BY DEF ListsIInv, ListsShape, PlansShape
  <2> QED
    BY <2>1 DEF ListsIInv, ListsShape, PlansShape, Plan
<1>4. ASSUME NEW s \in DOMAIN old, NEW renamed \in BOOLEAN,
             plans' = [plans EXCEPT ![p].steps =
                         [old EXCEPT ![s] = [old[s] EXCEPT !.status = Or(status, @), !.renamed = renamed]]]
      PROVE  ListsIInv'
  <2> DEFINE step == [old[s] EXCEPT !.status = Or(status, @), !.renamed = renamed]
             new  == [old EXCEPT ![s] = step]
  <2>1. old[s] \in PlanStep
    BY <1>3
  <2>2. Or(status, old[s].status) \in Statuses
    BY <2>1 DEF Or, PlanStep
  <2>3. step \in PlanStep /\ step.id = old[s].id
    BY <2>1, <2>2 DEF PlanStep
  <2> HIDE DEF step
  <2>4. new \in Seq(PlanStep) /\ Len(new) = Len(old) /\ \A r \in DOMAIN new : new[r].id = r
    BY <1>3, <2>3
  <2>5. plans' = [plans EXCEPT ![p].steps = new]
    BY <1>4 DEF step
  <2> HIDE DEF new
  <2> QED
    BY <1>1, <1>3, <2>4, <2>5, StepsReplaced
<1>5. CASE PlanUpdateNamed(p, status)
  <2>1. PICK s \in DOMAIN old : plans' = [plans EXCEPT ![p].steps[s].status = Or(status, @)]
    BY <1>5 DEF PlanUpdateNamed
  <2>2. old[s] \in PlanStep
    BY <1>3
  <2>3. [old[s] EXCEPT !.status = Or(status, @)]
          = [old[s] EXCEPT !.status = Or(status, @), !.renamed = old[s].renamed]
    BY <2>2 DEF PlanStep
  <2>4. plans' = [plans EXCEPT ![p].steps =
                    [old EXCEPT ![s] = [old[s] EXCEPT !.status = Or(status, @), !.renamed = old[s].renamed]]]
    BY <2>1, <2>3
  <2>5. old[s].renamed \in BOOLEAN
    BY <2>2 DEF PlanStep
  <2> QED
    BY <1>4, <2>4, <2>5
<1>6. ASSUME NEW description \in BOOLEAN, PlanUpdateFirst(p, status, description)
      PROVE  ListsIInv'
  <2> DEFINE open == {s \in DOMAIN old : Unfinished(old[s])}
  <2>1. CASE open = {}
    <3>1. UNCHANGED listsVars
      BY <1>1, <1>6, <2>1 DEF PlanUpdateFirst, listsVars
    <3> QED
      BY <3>1 DEF listsVars, ListsIInv, ListsShape, TodosShape, PlansShape, Answered,
                  TodoItem, Plan, PlanStep
  <2>2. CASE open # {}
    <3>1. Min(open) \in open
      <4>1. open \subseteq Nat
        BY <1>3
      <4>2. PICK m \in open : \A k \in open : m <= k
        <5>1. PICK m \in open : \A k \in open : ~(<<k, m>> \in OpToRel(<, Nat))
          BY <2>2, <4>1, NatLessThanWellFounded, WFMin
        <5>2. \A k \in open : k < m => <<k, m>> \in OpToRel(<, Nat)
          BY <4>1 DEF OpToRel
        <5>3. \A k \in open : ~(k < m) /\ k \in Nat /\ m \in Nat
          BY <4>1, <5>1, <5>2
        <5> QED
          BY <5>3
      <4> HIDE DEF open
      <4> QED
        BY <4>2 DEF Min
    <3> DEFINE s == Min(open)
               step == [old[s] EXCEPT !.status = Or(status, old[s].status),
                                      !.renamed = old[s].renamed \/ description]
    <3>2. s \in open /\ plans' = [plans EXCEPT ![p].steps[s] = step]
      BY <1>6, <2>2, <3>1 DEF PlanUpdateFirst
    <3> HIDE DEF s, step
    <3>3. s \in DOMAIN old /\ old[s] \in PlanStep
      BY <1>3, <3>2
    <3>4. plans' = [plans EXCEPT ![p].steps = [old EXCEPT ![s] = step]]
      BY <3>2
    <3>5. (old[s].renamed \/ description) \in BOOLEAN
      OBVIOUS
    <3> QED
      BY <1>4, <3>3, <3>4, <3>5 DEF step
  <2> QED
    BY <2>1, <2>2
<1> QED
  BY <1>2, <1>5, <1>6

\* A clear takes plans away, and from then on nothing is promised of ids.
LEMMA PlanClearStep == ASSUME ListsIInv, PlanClear PROVE ListsIInv'
<1>1. PICK p \in DOMAIN plans : plans' = [q \in DOMAIN plans \ {p} |-> plans[q]]
  BY DEF PlanClear, Restrict
<1>2. cleared' = TRUE /\ UNCHANGED <<todos, made, given>>
  BY DEF PlanClear
<1>3. PlansShape'
  <2>1. DOMAIN plans' = DOMAIN plans \ {p} /\ \A q \in DOMAIN plans' : plans'[q] = plans[q]
    BY <1>1
  <2>2. Plan' = Plan
    BY <1>2 DEF Plan, PlanStep
  <2>3. plans' \in [DOMAIN plans' -> Plan]
    BY <1>1 DEF ListsIInv, ListsShape, PlansShape
  <2> QED
    BY <2>1, <2>2, <2>3 DEF ListsIInv, ListsShape, PlansShape
<1> QED
  BY <1>2, <1>3 DEF ListsIInv, ListsShape, TodosShape, TodoItem, Answered

\* The shape of both stores and what was answered are inductive together.
LEMMA ListsInductive == ListsSpec => []ListsIInv
<1>1. ListsInit => ListsIInv
  <2> SUFFICES ASSUME ListsInit PROVE ListsIInv
    OBVIOUS
  <2>1. << >> \in Seq(TodoItem) /\ Len(<< >>) = 0 /\ DOMAIN << >> = {}
    OBVIOUS
  <2>2. Cardinality({}) = 0
    BY FS_EmptySet
  <2>3. plans \in [{} -> Plan]
    BY DEF ListsInit
  <2>4. TodosShape
    BY <2>1, ListsAssumption DEF ListsInit, TodosShape
  <2>5. PlansShape
    BY <2>1, <2>3 DEF ListsInit, PlansShape
  <2>6. Answered
    BY <2>1, <2>2 DEF ListsInit, Answered
  <2> QED
    <3>1. made \in 0..MaxMade
      BY ListsAssumption DEF ListsInit
    <3>2. cleared \in BOOLEAN
      BY DEF ListsInit
    <3> QED
      BY <2>4, <2>5, <2>6, <3>1, <3>2 DEF ListsIInv, ListsShape
<1>2. ListsIInv /\ UNCHANGED listsVars => ListsIInv'
  <2> SUFFICES ASSUME ListsIInv, UNCHANGED listsVars PROVE ListsIInv'
    OBVIOUS
  <2>1. TodosShape'
    BY DEF listsVars, ListsIInv, ListsShape, TodosShape, TodoItem
  <2>2. PlansShape'
    BY DEF listsVars, ListsIInv, ListsShape, PlansShape, Plan, PlanStep
  <2> QED
    BY <2>1, <2>2 DEF listsVars, ListsIInv, ListsShape, Answered
<1>3. ListsIInv /\ ListsNext => ListsIInv'
  <2>1. ListsIInv /\ TodoUpdate => ListsIInv'
    BY TodoSetStep DEF TodoUpdate
  <2>2. ListsIInv /\ TodoDone => ListsIInv'
    BY TodoSetStep, ListsAssumption DEF TodoDone
  <2> QED
    BY <2>1, <2>2, TodoAddStep, TodoClearStep, PlanCreateStep, PlanAddStepStep,
       PlanUpdateStepStep, PlanClearStep DEF ListsNext
<1> QED
  BY <1>1, <1>2, <1>3, PTL DEF ListsSpec

\* The stores keep their types and their caps.
THEOREM ListsTypeCorrect == ListsSpec => []ListsTypeOK
<1>1. ListsIInv => ListsTypeOK
  <2> SUFFICES ASSUME ListsIInv PROVE ListsTypeOK
    OBVIOUS
  <2>1. \A i \in DOMAIN todos : todos[i] \in TodoItem
    BY DEF ListsIInv, ListsShape, TodosShape
  <2>2. Cardinality(DOMAIN plans) <= MaxPlans
    BY PlansAreFinite, ListsAssumption DEF ListsIInv, ListsShape
  <2>3. \A p \in DOMAIN plans : plans[p] \in Plan
    BY DEF ListsIInv, ListsShape, PlansShape
  <2>4. \A p \in DOMAIN plans : /\ p \in 1..MaxPlans /\ plans[p].plan \in 1..made
                                /\ Len(plans[p].steps) \in 0..MaxSteps
    <3> SUFFICES ASSUME NEW p \in DOMAIN plans
                 PROVE  /\ p \in 1..MaxPlans /\ plans[p].plan \in 1..made
                        /\ Len(plans[p].steps) \in 0..MaxSteps
      OBVIOUS
    <3>1. plans[p].steps \in Seq(PlanStep) /\ plans[p].plan \in 1..made
      BY <2>3 DEF Plan
    <3>2. Len(plans[p].steps) \in Nat /\ Len(plans[p].steps) <= MaxSteps /\ MaxSteps \in Nat
      BY <3>1, ListsAssumption DEF ListsIInv, ListsShape, PlansShape
    <3> QED
      BY <3>1, <3>2 DEF ListsIInv, ListsShape, PlansShape
  <2> QED
    BY <2>1, <2>2, <2>4 DEF ListsTypeOK, ListsIInv, ListsShape, TodosShape, TodoItem
<1> QED
  BY <1>1, ListsInductive, PTL

\* An answered id leads to what it was answered for as long as nothing was cleared,
\* for any caps and any number of items, plans and steps.
THEOREM AnsweredIdsHold == ListsSpec => []IdsHold
<1>1. ListsIInv => IdsHold
  <2> SUFFICES ASSUME ListsIInv PROVE IdsHold
    OBVIOUS
  <2>1. ASSUME ~cleared, NEW g \in given
        PROVE  Found(g[1]) = {g[2]}
    <3>1. CASE \E i \in DOMAIN todos : g = <<<<i>>, todos[i].item>>
      <4>1. PICK i \in DOMAIN todos : g = <<<<i>>, todos[i].item>>
        BY <3>1
      <4>2. DOMAIN todos = 1..Len(todos) /\ \A j \in DOMAIN todos : todos[j].id = <<j>>
        BY <2>1 DEF ListsIInv, ListsShape, TodosShape, Answered
      <4>3. FirstOf(todos, <<i>>) = {i}
        BY <4>2 DEF FirstOf
      <4>4. Found(<<i>>) = {todos[j].item : j \in FirstOf(todos, <<i>>)}
        BY DEF Found
      <4> QED
        BY <4>1, <4>3, <4>4
    <3>2. CASE \E p \in DOMAIN plans : g = <<<<p, "plan">>, plans[p].plan>>
      <4>1. PICK p \in DOMAIN plans : g = <<<<p, "plan">>, plans[p].plan>>
        BY <3>2
      <4>2. Found(<<p, "plan">>) = {plans[q].plan : q \in {q \in DOMAIN plans : q = p}}
        BY DEF Found
      <4> QED
        BY <4>1, <4>2
    <3> QED
      BY <2>1, <3>1, <3>2 DEF ListsIInv, Answered
  <2>2. \A p \in DOMAIN plans : \A a, b \in DOMAIN plans[p].steps :
          plans[p].steps[a].id = plans[p].steps[b].id => a = b
    BY DEF ListsIInv, ListsShape, PlansShape
  <2> QED
    BY <2>1, <2>2 DEF IdsHold
<1> QED
  BY <1>1, ListsInductive, PTL

-----------------------------------------------------------------------------
(***************************************************************************)
(* The stdio servers, for any checks, any configuration and any limit. A   *)
(* verdict is made of what was run, so the invariant relates what was      *)
(* shown to what was wanted, and the first failure to the end of the run.  *)
(***************************************************************************)

\* What a call runs: ids of checks, or the numbers of steps.
Item == AnyCheck \cup 1..3

McpShape ==
  /\ server \in {"bounded_sequence", "verify_change"}
  /\ stage \in {"listening", "called", "loaded", "resolved", "running", "ended", "stopped"}
  /\ DOMAIN config \subseteq AnyCheck /\ config \in [DOMAIN config -> BOOLEAN]
  /\ wanted \in Seq(Item) /\ heard \in 0..MaxHeard
  /\ Len(wanted) <= (IF server = "verify_change" THEN MaxChecks ELSE 3)
  /\ shown \in Seq([id : Item, ok : BOOLEAN]) /\ Len(shown) <= Len(wanted)
  /\ failed \in AnyCheck \cup {NoCheck}
  /\ stage \notin {"listening", "stopped"} => reply = NoReply

Bad == {i \in DOMAIN shown : ~shown[i].ok}

\* The results are what ran, in the order asked for, and failed names the last
\* failure of verify_change.
Evidence ==
  /\ ran = shown
  /\ \A i \in DOMAIN shown : shown[i].id = wanted[i]
  /\ server = "verify_change" =>
       \/ Bad = {} /\ failed = NoCheck
       \/ \E m \in Bad : failed = shown[m].id /\ \A j \in Bad : j <= m
  /\ server = "verify_change" => \A i \in DOMAIN shown : shown[i].id \in AnyCheck

\* A run goes on only past failures that may not stop it, and ends with one that may.
Progress ==
  /\ stage \in {"called", "loaded", "resolved"} => shown = << >> /\ failed = NoCheck
  /\ stage = "called" => wanted = << >>
  /\ server = "bounded_sequence" => stage \notin {"loaded", "resolved"}
  /\ stage \in {"resolved", "running"} /\ server = "verify_change" =>
       \A i \in DOMAIN wanted : wanted[i] \in AnyCheck
  /\ stage = "running" /\ server = "bounded_sequence" => Bad = {}
  /\ stage = "ended" => /\ shown # << >> /\ ~shown[Len(shown)].ok
                        /\ server = "verify_change" => config[shown[Len(shown)].id]

McpIInv == McpShape /\ Evidence /\ Progress /\ VerdictsTrue

\* A line begins a call with nothing in it, or is answered without a verdict.
LEMMA ReadLineStep == ASSUME McpIInv, ReadLine PROVE McpIInv'
<1>1. /\ config' = << >> /\ wanted' = << >> /\ shown' = << >> /\ failed' = NoCheck
      /\ ran' = << >> /\ server' = server
  BY DEF ReadLine
<1>2. heard' \in 0..MaxHeard
  <2>1. heard < MaxHeard /\ heard' = heard + 1
    BY DEF ReadLine
  <2>2. heard \in 0..MaxHeard /\ MaxHeard \in Nat
    BY McpAssumption DEF McpIInv, McpShape
  <2> QED
    BY <2>1, <2>2
<1>3. \/ stage' = "called" /\ reply' = NoReply
      \/ stage' = "listening" /\ reply'.kind # "verdict"
  <2>1. PICK method \in {"malformed", "initialize", "tools/list", "ping", "another tool", "unknown",
                         "notifications/initialized", "tools/call"}, id \in BOOLEAN :
          IF Dispatch(method, id) = "call"
          THEN stage' = "called" /\ reply' = NoReply
          ELSE Says(Dispatch(method, id))
    BY DEF ReadLine
  <2>2. Dispatch(method, id) # "verdict"
    BY DEF Dispatch
  <2>3. \/ stage' = "called" /\ reply' = NoReply
        \/ stage' = "listening" /\ reply' = [kind |-> Dispatch(method, id)]
    BY <2>1 DEF Says
  <2> HIDE DEF Dispatch
  <2>4. [kind |-> Dispatch(method, id)].kind = Dispatch(method, id)
    OBVIOUS
  <2> QED
    BY <2>2, <2>3, <2>4
<1>4. McpShape'
  <2>1. << >> \in Seq(Item) /\ << >> \in Seq([id : Item, ok : BOOLEAN]) /\ Len(<< >>) = 0
    OBVIOUS
  <2> QED
    BY <1>1, <1>2, <1>3, <2>1, McpAssumption DEF McpIInv, McpShape
<1>5. Bad' = {}
  BY <1>1 DEF Bad
<1>6. Evidence' /\ Progress'
  BY <1>1, <1>3, <1>5 DEF Evidence, Progress, McpIInv
<1>7. VerdictsTrue'
  BY <1>3 DEF VerdictsTrue, NoReply
<1> QED
  BY <1>4, <1>6, <1>7 DEF McpIInv

\* A call that ends without a verdict.
LEMMA SaysStep ==
  ASSUME McpIInv, NEW kind \in {"unavailable", "rejected", "refused"}, Says(kind),
         UNCHANGED <<server, wanted, shown, failed, ran, heard, config>>
  PROVE  McpIInv'
<1>1. stage' = "listening" /\ reply'.kind # "verdict"
  BY DEF Says
<1>2. Bad' = Bad
  BY DEF Bad
<1>3. McpShape' /\ Evidence' /\ Progress'
  BY <1>1, <1>2 DEF McpIInv, McpShape, Evidence, Progress
<1>4. VerdictsTrue'
  BY <1>1 DEF VerdictsTrue
<1> QED
  BY <1>3, <1>4 DEF McpIInv

\* A server that stops has said all it said.
LEMMA StopStep == ASSUME McpIInv, Stop PROVE McpIInv'
<1>1. /\ stage \in {"listening", "called"} /\ stage' = "stopped"
      /\ UNCHANGED <<server, config, wanted, shown, failed, ran, reply, heard>>
  BY DEF Stop
<1>2. Bad' = Bad
  BY <1>1 DEF Bad
<1>3. McpShape' /\ Evidence' /\ Progress'
  BY <1>1, <1>2 DEF McpIInv, McpShape, Evidence, Progress
<1>4. VerdictsTrue'
  BY <1>1 DEF McpIInv, VerdictsTrue
<1> QED
  BY <1>3, <1>4 DEF McpIInv

\* Loading the configuration runs nothing.
LEMMA LoadConfigStep == ASSUME McpIInv, LoadConfig PROVE McpIInv'
<1>1. CASE Says("unavailable") /\ UNCHANGED config
  BY <1>1, SaysStep DEF LoadConfig
<1>2. CASE stage' = "loaded" /\ UNCHANGED reply /\ \E ids \in SUBSET AnyCheck : config' \in [ids -> BOOLEAN]
  <2>1. /\ server = "verify_change" /\ stage = "called" /\ reply' = NoReply
        /\ UNCHANGED <<server, wanted, shown, failed, ran, heard>>
    BY <1>2 DEF LoadConfig, McpIInv, McpShape
  <2>2. DOMAIN config' \subseteq AnyCheck /\ config' \in [DOMAIN config' -> BOOLEAN]
    BY <1>2
  <2>3. Bad' = Bad
    BY <2>1 DEF Bad
  <2>4. McpShape'
    BY <1>2, <2>1, <2>2 DEF McpIInv, McpShape
  <2>5. Evidence' /\ Progress'
    BY <1>2, <2>1, <2>3 DEF McpIInv, Evidence, Progress
  <2>6. VerdictsTrue'
    BY <2>1 DEF VerdictsTrue, NoReply
  <2> QED
    BY <2>4, <2>5, <2>6 DEF McpIInv
<1> QED
  BY <1>1, <1>2 DEF LoadConfig

\* What is asked for is a sequence, named or by default.
LEMMA AskedIsSeq ==
  ASSUME NEW requested \in {DefaultChecks} \cup
           UNION {[1..n -> AnyCheck] : n \in 0..(MaxChecks + 1)},
         Resolvable(requested), McpShape
  PROVE  requested \in Seq(AnyCheck) /\ requested \in Seq(Item)
<1>1. PICK n \in Nat : DOMAIN requested = 1..n /\ requested = [k \in 1..n |-> requested[k]]
  <2>1. CASE requested = DefaultChecks
    <3> DEFINE known == {i \in DOMAIN CheckOrder : CheckOrder[i] \in DOMAIN config}
               first == {i \in known : Cardinality({j \in known : j <= i}) <= MaxChecks}
    <3>1. first \in SUBSET DOMAIN CheckOrder
      OBVIOUS
    <3>2. requested = Retained(CheckOrder, first)
      BY <2>1 DEF DefaultChecks
    <3> HIDE DEF first
    <3>3. requested \in Seq(CheckIds)
      BY <3>1, <3>2, RetainedIsSeq, McpAssumption
    <3>4. requested \in Seq(AnyCheck)
      BY <3>3 DEF AnyCheck
    <3> QED
      BY <3>4
  <2>2. CASE requested \in UNION {[1..n -> AnyCheck] : n \in 0..(MaxChecks + 1)}
    BY <2>2, McpAssumption
  <2> QED
    BY <2>1, <2>2
<1>2. \A k \in 1..n : requested[k] \in AnyCheck
  BY <1>1 DEF Resolvable, Range, McpShape
<1> QED
  BY <1>1, <1>2, IsASeq DEF Item

\* The checks that are resolved are wanted, in the order of the program.
LEMMA ResolveStep == ASSUME McpIInv, ResolveChecks PROVE McpIInv'
<1>1. CASE Says("rejected") /\ UNCHANGED wanted
  BY <1>1, SaysStep DEF ResolveChecks
<1>2. ASSUME NEW requested \in {DefaultChecks} \cup
               UNION {[1..n -> AnyCheck] : n \in 0..(MaxChecks + 1)},
             Resolvable(requested), wanted' = requested, stage' = "resolved", UNCHANGED reply
      PROVE  McpIInv'
  <2>1. /\ stage = "loaded" /\ UNCHANGED <<server, config, shown, failed, ran, heard, reply>>
        /\ reply' = NoReply /\ shown = << >>
    BY <1>2 DEF ResolveChecks, McpIInv, McpShape, Progress
  <2>2. server = "verify_change"
    BY <2>1 DEF McpIInv, McpShape, Progress
  <2>3. wanted' \in Seq(AnyCheck) /\ wanted' \in Seq(Item) /\ Len(wanted') <= MaxChecks
    BY <1>2, AskedIsSeq DEF McpIInv, Resolvable
  <2>4. Bad' = {}
    BY <2>1 DEF Bad
  <2>5. McpShape'
    BY <1>2, <2>1, <2>2, <2>3 DEF McpIInv, McpShape
  <2>6. Evidence' /\ Progress'
    BY <1>2, <2>1, <2>2, <2>3, <2>4 DEF McpIInv, Evidence, Progress
  <2>7. VerdictsTrue'
    BY <2>1 DEF VerdictsTrue, NoReply
  <2> QED
    BY <2>5, <2>6, <2>7 DEF McpIInv
<1> QED
  BY <1>1, <1>2 DEF ResolveChecks

\* Preparing the repository runs nothing.
LEMMA PrepareStep == ASSUME McpIInv, Prepare PROVE McpIInv'
<1>1. CASE Says("rejected")
  BY <1>1, SaysStep DEF Prepare
<1>2. CASE stage' = "running" /\ UNCHANGED reply
  <2>1. /\ stage = "resolved" /\ reply' = NoReply
        /\ UNCHANGED <<server, wanted, shown, failed, ran, heard, config>>
    BY <1>2 DEF Prepare, McpIInv, McpShape
  <2>2. Bad' = Bad
    BY <2>1 DEF Bad
  <2>3. McpShape' /\ Evidence' /\ Progress'
    BY <1>2, <2>1, <2>2 DEF McpIInv, McpShape, Evidence, Progress
  <2>4. VerdictsTrue'
    BY <2>1 DEF VerdictsTrue, NoReply
  <2> QED
    BY <2>3, <2>4 DEF McpIInv
<1> QED
  BY <1>1, <1>2 DEF Prepare

\* One more result, of the check or step that is next.
LEMMA OneMoreResult ==
  ASSUME McpIInv, stage = "running", Len(shown) < Len(wanted), NEW ok \in BOOLEAN,
         ran' = Append(ran, Step(Current, ok)), shown' = Append(shown, Step(Current, ok)),
         UNCHANGED <<server, config, wanted, heard, reply>>
  PROVE  /\ Len(shown') = Len(shown) + 1 /\ shown' \in Seq([id : Item, ok : BOOLEAN])
         /\ shown'[Len(shown) + 1] = Step(wanted[Len(shown) + 1], ok)
         /\ ran' = shown'
         /\ \A i \in DOMAIN shown' : shown'[i].id = wanted[i]
         /\ Bad' = (IF ok THEN Bad ELSE Bad \cup {Len(shown) + 1})
         /\ \A i \in DOMAIN shown : shown'[i] = shown[i]
         /\ Bad \subseteq 1..Len(shown)
         /\ DOMAIN shown' = 1..(Len(shown) + 1)
<1> DEFINE n == Len(shown) + 1
<1>1. n \in 1..Len(wanted) /\ Len(shown) \in Nat /\ Current = wanted[n] /\ wanted[n] \in Item
  BY DEF McpIInv, McpShape, Current
<1>2. Step(Current, ok) \in [id : Item, ok : BOOLEAN] /\ Step(Current, ok).ok = ok
      /\ Step(Current, ok).id = wanted[n]
  BY <1>1 DEF Step
<1>3. /\ shown' \in Seq([id : Item, ok : BOOLEAN]) /\ Len(shown') = n
      /\ \A i \in 1..Len(shown) : shown'[i] = shown[i]
      /\ shown'[n] = Step(Current, ok)
  BY <1>2, AppendProperties DEF McpIInv, McpShape
<1>4. DOMAIN shown = 1..Len(shown) /\ DOMAIN shown' = 1..n
  BY <1>3 DEF McpIInv, McpShape
<1>5. ran' = shown'
  BY DEF McpIInv, Evidence
<1>6. \A i \in DOMAIN shown' : shown'[i].id = wanted[i]
  BY <1>1, <1>2, <1>3, <1>4 DEF McpIInv, Evidence
<1>7. Bad' = (IF ok THEN Bad ELSE Bad \cup {n})
  BY <1>1, <1>2, <1>3, <1>4 DEF Bad
<1> QED
  BY <1>1, <1>2, <1>3, <1>4, <1>5, <1>6, <1>7 DEF Bad

\* One more check has run, and is the last failure if it failed.
LEMMA RunCheckStep == ASSUME McpIInv, RunCheck PROVE McpIInv'
<1>1. CASE Says("rejected") /\ UNCHANGED <<shown, failed, ran>>
  BY <1>1, SaysStep DEF RunCheck
<1>2. ASSUME NEW ok \in BOOLEAN,
             ran' = Append(ran, Step(Current, ok)), shown' = Append(shown, Step(Current, ok)),
             failed' = Blamed(Current, ok),
             stage' = (IF ~ok /\ config[Current] THEN "ended" ELSE "running"), UNCHANGED reply
      PROVE  McpIInv'
  <2> DEFINE n == Len(shown) + 1
  <2>1. /\ server = "verify_change" /\ stage = "running" /\ Len(shown) < Len(wanted)
        /\ UNCHANGED <<server, config, wanted, heard, reply>>
    BY <1>2 DEF RunCheck
  <2>2. /\ Len(shown') = n /\ shown' \in Seq([id : Item, ok : BOOLEAN])
        /\ shown'[n] = Step(Current, ok) /\ ran' = shown'
        /\ \A i \in DOMAIN shown' : shown'[i].id = wanted[i]
        /\ Bad' = (IF ok THEN Bad ELSE Bad \cup {n})
        /\ \A i \in DOMAIN shown : shown'[i] = shown[i]
        /\ Bad \subseteq 1..Len(shown) /\ DOMAIN shown' = 1..n /\ DOMAIN shown = 1..Len(shown)
    BY <1>2, <2>1, OneMoreResult DEF Current, McpIInv, McpShape
  <2>3. n \in 1..Len(wanted) /\ Len(shown) \in Nat /\ Current = wanted[n] /\ Current \in AnyCheck
    BY <2>1 DEF McpIInv, McpShape, Progress, Current
  <2>4. Step(Current, ok).id = Current /\ Step(Current, ok).ok = ok
    BY DEF Step
  <2>5. McpShape'
    BY <1>2, <2>1, <2>2, <2>3 DEF McpIInv, McpShape, Blamed
  <2>6. Evidence'
    <3>1. \A i \in DOMAIN shown' : shown'[i].id \in AnyCheck
      BY <2>1, <2>2, <2>3 DEF McpIInv, Progress, McpShape
    <3>2. \/ Bad' = {} /\ failed' = NoCheck
          \/ \E m \in Bad' : failed' = shown'[m].id /\ \A j \in Bad' : j <= m
      <4>1. CASE ok
        <5>1. Bad' = Bad /\ failed' = failed
          BY <1>2, <2>2, <4>1 DEF Blamed
        <5> QED
          BY <5>1, <2>1, <2>2 DEF McpIInv, Evidence
      <4>2. CASE ~ok
        <5>1. n \in Bad' /\ failed' = shown'[n].id /\ \A j \in Bad' : j <= n
          BY <1>2, <2>2, <2>3, <2>4, <4>2 DEF Blamed
        <5> QED
          BY <5>1
      <4> QED
        BY <4>1, <4>2
    <3> QED
      BY <2>1, <2>2, <3>1, <3>2 DEF Evidence
  <2>7. Progress'
    <3>1. stage' = "ended" =>
            shown' # << >> /\ ~shown'[Len(shown')].ok /\ config'[shown'[Len(shown')].id]
      BY <1>2, <2>1, <2>2, <2>3, <2>4
    <3> QED
      BY <1>2, <2>1, <3>1 DEF McpIInv, Progress
  <2>8. VerdictsTrue'
    BY <2>1 DEF McpIInv, McpShape, VerdictsTrue, NoReply
  <2> QED
    BY <2>5, <2>6, <2>7, <2>8 DEF McpIInv
<1> QED
  BY <1>1, <1>2 DEF RunCheck

\* The steps of a bounded sequence are wanted as they come.
LEMMA TakeStepsStep == ASSUME McpIInv, TakeSteps PROVE McpIInv'
<1>1. CASE Says("refused") /\ UNCHANGED wanted
  BY <1>1, SaysStep DEF TakeSteps
<1>2. ASSUME NEW n \in 2..3, wanted' = [i \in 1..n |-> i], stage' = "running", UNCHANGED reply
      PROVE  McpIInv'
  <2>1. /\ server = "bounded_sequence" /\ stage = "called"
        /\ UNCHANGED <<server, config, shown, failed, ran, heard, reply>>
    BY <1>2 DEF TakeSteps
  <2>2. wanted' \in Seq(Item) /\ Len(wanted') = n
    BY <1>2, IsASeq DEF Item
  <2>3. shown = << >> /\ reply = NoReply /\ Bad' = {}
    BY <2>1 DEF McpIInv, McpShape, Progress, Bad
  <2>4. McpShape'
    BY <1>2, <2>1, <2>2, <2>3 DEF McpIInv, McpShape
  <2>5. Evidence' /\ Progress'
    BY <1>2, <2>1, <2>3 DEF McpIInv, Evidence, Progress
  <2>6. VerdictsTrue'
    BY <2>1, <2>3 DEF VerdictsTrue, NoReply
  <2> QED
    BY <2>4, <2>5, <2>6 DEF McpIInv
<1> QED
  BY <1>1, <1>2 DEF TakeSteps

\* One more step has run, and the sequence ends if it failed.
LEMMA RunStepStep == ASSUME McpIInv, RunStep PROVE McpIInv'
<1>1. PICK ok \in BOOLEAN :
        /\ ran' = Append(ran, Step(Current, ok)) /\ shown' = Append(shown, Step(Current, ok))
        /\ stage' = IF ok THEN "running" ELSE "ended"
  BY DEF RunStep
<1> DEFINE n == Len(shown) + 1
<1>2. /\ server = "bounded_sequence" /\ stage = "running" /\ Len(shown) < Len(wanted)
      /\ UNCHANGED <<server, config, wanted, heard, reply, failed>>
  BY DEF RunStep
<1>3. /\ Len(shown') = n /\ shown' \in Seq([id : Item, ok : BOOLEAN])
      /\ shown'[n] = Step(Current, ok) /\ ran' = shown'
      /\ \A i \in DOMAIN shown' : shown'[i].id = wanted[i]
      /\ Bad' = (IF ok THEN Bad ELSE Bad \cup {n}) /\ DOMAIN shown' = 1..n
  BY <1>1, <1>2, OneMoreResult DEF Current
<1>4. n \in 1..Len(wanted) /\ Len(shown) \in Nat /\ Step(Current, ok).ok = ok
  BY <1>2 DEF McpIInv, McpShape, Step
<1>5. McpShape'
  BY <1>1, <1>2, <1>3, <1>4 DEF McpIInv, McpShape
<1>6. Evidence'
  BY <1>2, <1>3 DEF McpIInv, Evidence
<1>7. Progress'
  <2>1. Bad = {}
    BY <1>2 DEF McpIInv, Progress
  <2>2. stage' = "running" => Bad' = {}
    BY <1>1, <1>3, <2>1
  <2>3. stage' = "ended" => shown' # << >> /\ ~shown'[Len(shown')].ok
    BY <1>1, <1>3, <1>4
  <2> QED
    BY <1>1, <1>2, <2>2, <2>3 DEF Progress
<1>8. VerdictsTrue'
  BY <1>2 DEF McpIInv, McpShape, VerdictsTrue, NoReply
<1> QED
  BY <1>5, <1>6, <1>7, <1>8 DEF McpIInv

\* The greatest of some integers is their Max.
LEMMA MaxIs ==
  ASSUME NEW S \in SUBSET Int, NEW m \in S, \A j \in S : j <= m
  PROVE  Max(S) = m
<1>1. \A j \in S : m >= j
  OBVIOUS
<1>2. Max(S) \in S /\ \A j \in S : Max(S) >= j
  BY <1>1 DEF Max
<1>3. Max(S) <= m /\ m <= Max(S) /\ Max(S) \in Int /\ m \in Int
  BY <1>2
<1> QED
  BY <1>3

\* The verdict that is written is true.
LEMMA AnswerCallStep == ASSUME McpIInv, AnswerCall PROVE McpIInv'
<1>1. /\ UNCHANGED <<server, config, wanted, shown, failed, ran, heard>> /\ stage' = "listening"
      /\ reply' = [kind |-> "verdict", success |-> Success, requested |-> wanted,
                   executed |-> shown, failed |-> failed]
  BY DEF AnswerCall
<1>2. stage = "ended" \/ (stage = "running" /\ Len(shown) = Len(wanted))
  BY DEF AnswerCall
<1>3. Bad' = Bad
  BY <1>1 DEF Bad
<1>4. McpShape' /\ Evidence' /\ Progress'
  BY <1>1, <1>3 DEF McpIInv, McpShape, Evidence, Progress
<1>5. VerdictsTrue'
  <2>1. DOMAIN shown = 1..Len(shown) /\ Len(shown) \in Nat /\ Bad \subseteq 1..Len(shown)
        /\ Len(wanted) \in Nat /\ Len(shown) <= Len(wanted)
    BY DEF McpIInv, McpShape, Bad
  <2>2. stage = "ended" => Len(shown) \in Bad
    BY <2>1 DEF McpIInv, Progress, Bad
  <2>3. Success <=> Len(shown) = Len(wanted) /\ Bad = {}
    <3>1. CASE server = "verify_change"
      <4>1. Bad = {} <=> failed = NoCheck
        BY <3>1, McpAssumption DEF McpIInv, Evidence, Bad
      <4> QED
        BY <1>2, <2>1, <2>2, <3>1, <4>1 DEF Success
    <3>2. CASE server = "bounded_sequence"
      BY <1>2, <2>1, <3>2 DEF Success, Bad
    <3> QED
      BY <3>1, <3>2 DEF McpIInv, McpShape
  <2>4. Len(shown) < Len(wanted) =>
          /\ ~shown[Len(shown)].ok
          /\ server = "verify_change" => config[shown[Len(shown)].id]
    BY <1>2, <2>1 DEF McpIInv, Progress
  <2>5. server = "verify_change" =>
          failed = IF Bad = {} THEN NoCheck ELSE shown[Max(Bad)].id
    <3>1. ASSUME NEW m \in Bad, \A j \in Bad : j <= m
          PROVE  Max(Bad) = m
      BY <2>1, <3>1, MaxIs
    <3> QED
      BY <3>1 DEF McpIInv, Evidence
  <2>6. ran = shown /\ \A i \in DOMAIN shown : shown[i].id = wanted[i]
    BY DEF McpIInv, Evidence
  <2> QED
    BY <1>1, <2>3, <2>4, <2>5, <2>6 DEF VerdictsTrue, Bad
<1> QED
  BY <1>4, <1>5 DEF McpIInv
\* The verdicts, with the evidence they rest on and how far a call is, are inductive.
LEMMA McpInductive == McpSpec => []McpIInv
<1>1. McpInit => McpIInv
  <2> SUFFICES ASSUME McpInit PROVE McpIInv
    OBVIOUS
  <2>1. Bad = {} /\ reply.kind # "verdict"
    BY DEF McpInit, Bad, NoReply
  <2>2. McpShape
    <3>1. << >> \in Seq(Item) /\ << >> \in Seq([id : Item, ok : BOOLEAN]) /\ Len(<< >>) = 0
      OBVIOUS
    <3> QED
      BY <3>1, McpAssumption DEF McpInit, McpShape
  <2> QED
    BY <2>1, <2>2 DEF McpInit, McpIInv, Evidence, Progress, VerdictsTrue
<1>2. McpIInv /\ [McpNext]_mcpVars => McpIInv'
  <2>1. ASSUME McpIInv, UNCHANGED mcpVars PROVE McpIInv'
    BY <2>1 DEF mcpVars, McpIInv, McpShape, Evidence, Progress, VerdictsTrue, Bad
  <2> QED
    BY <2>1, StopStep, ReadLineStep, LoadConfigStep, ResolveStep, PrepareStep, RunCheckStep,
       TakeStepsStep, RunStepStep, AnswerCallStep DEF McpNext
<1> QED
  BY <1>1, <1>2, PTL DEF McpSpec

\* The servers keep their types, and never run more than the limits allow.
THEOREM McpTypeCorrect == McpSpec => []McpTypeOK
<1>1. McpIInv => McpTypeOK
  BY DEF McpIInv, McpShape, McpTypeOK
<1> QED
  BY <1>1, McpInductive, PTL

\* A verdict says what was run and nothing else, for any order of checks, any
\* configuration and any limit.
THEOREM VerdictsAreTrue == McpSpec => []VerdictsTrue
<1>1. McpIInv => VerdictsTrue
  BY DEF McpIInv
<1> QED
  BY <1>1, McpInductive, PTL

-----------------------------------------------------------------------------
(***************************************************************************)
(* One exchange of the http tool, for any body limit, any body and any     *)
(* way of cutting it into chunks, and for any answers of the resolver.     *)
(* The inductive invariant says where the peer comes from and what the     *)
(* body read so far amounts to at each point of the call.                  *)
(***************************************************************************)

AddressKinds == {"loopback", "public", "blocked"}

\* The types that Http leaves to the shape of its actions.
HttpShape ==
  /\ request \in [method : {"known", "other"}, url : Urls, rest : {"accepted", "refused"}]
  /\ exchange \in [at : {"new", "valid", "pinned", "reading", "draining", "answered"},
                   addrs : SUBSET AddressKinds, peer : {"none"} \cup AddressKinds, good : BOOLEAN,
                   stored : Nat, total : Nat, cut : BOOLEAN,
                   answer : {"none", "rejected", "timeout", "connect_failed", "bad_request",
                             "request_failed", "redirect_refused", "body_read_failed",
                             "success", "http_status"}]
  /\ served \in 0..MaxBody
  /\ exchange.at = "answered" <=> exchange.answer # "none"

\* The addresses in use passed the second check, and the peer is one of them unless
\* the client resolves the name again.
Pinned ==
  /\ exchange.addrs # {} =>
       exchange.addrs = {IF request.url.scheme = "http" THEN "loopback" ELSE "public"}
  /\ exchange.peer # "none" /\ ~Unpinned => exchange.peer \in exchange.addrs
  /\ exchange.at \in {"new", "valid"} => exchange.addrs = {}

\* Before a response nothing has arrived; then everything that arrived is
\* counted, and kept up to the limit.
Counted ==
  /\ exchange.at \in {"new", "valid", "pinned"} => served = 0
  /\ exchange.total = served
  /\ exchange.stored = (IF served <= BodyLimit THEN served ELSE BodyLimit)
  /\ exchange.cut => served >= BodyLimit
  /\ exchange.at = "draining" => served > BodyLimit
  /\ exchange.at = "reading" /\ served > BodyLimit => exchange.cut
  /\ exchange.answer \in {"success", "http_status"} /\ served > BodyLimit => exchange.cut

HttpIInv == HttpShape /\ Pinned /\ Counted

\* Of two numbers the smaller one.
LEMMA MinOfTwo ==
  ASSUME NEW m \in Nat, NEW n \in Nat
  PROVE  Min({m, n}) = (IF m <= n THEN m ELSE n)
BY DEF Min

\* The second check passes one kind of address only.
LEMMA CheckedAddresses ==
  ASSUME NEW addrs, HttpShape, Check(addrs)
  PROVE  addrs = {IF request.url.scheme = "http" THEN "loopback" ELSE "public"}
BY DEF Check, Destination, Passes

\* What a chunk changes in the counts, in the loop and after it.
LEMMA ChunkCounts ==
  ASSUME NEW s \in Nat, NEW n \in Nat, NEW stored \in Nat,
         stored = (IF s <= BodyLimit THEN s ELSE BodyLimit)
  PROVE  /\ Kept(stored, n) = (IF s + n <= BodyLimit THEN s + n ELSE BodyLimit)
         /\ Cuts(stored, n) => s + n >= BodyLimit
         /\ s + n > BodyLimit => Cuts(stored, n)
<1>1. Kept(stored, n) = (IF stored + n <= BodyLimit THEN stored + n ELSE BodyLimit)
  BY MinOfTwo, HttpAssumption DEF Kept
<1> QED
  BY <1>1, HttpAssumption DEF Cuts

\* A chunk is a number, and does not outgrow the body.
LEMMA ChunkIsNatural ==
  ASSUME HttpShape, served < MaxBody, NEW n \in 0..Min({MaxChunk, MaxBody - served})
  PROVE  n \in Nat /\ served + n \in 0..MaxBody
BY MinOfTwo, HttpAssumption DEF HttpShape

\* Until a response has come the counts stay at nothing.
LEMMA NothingYet ==
  ASSUME HttpIInv, exchange.at \in {"new", "valid", "pinned"}, exchange'.at # "draining",
         served' = served, exchange'.stored = exchange.stored,
         exchange'.total = exchange.total, exchange'.cut = exchange.cut
  PROVE  Counted'
<1>1. served = 0 /\ exchange.total = 0 /\ exchange.stored = 0
  BY HttpAssumption DEF HttpIInv, Counted
<1>2. ~exchange.cut
  BY <1>1, HttpAssumption DEF HttpIInv, Counted
<1>3. ~exchange'.cut
  BY <1>2
<1> QED
  BY <1>1, <1>3, HttpAssumption DEF Counted

\* While the request stays the same, so does what is pinned.
LEMMA SameRequest == request' = request => (Unpinned' <=> Unpinned)
BY DEF Unpinned

\* The end of the loop.
LEMMA FinishedCounts ==
  ASSUME HttpIInv, NEW e, exchange' = Finished(e),
         e \in [at : {"reading", "draining"}, addrs : SUBSET AddressKinds,
               peer : {"none"} \cup AddressKinds, good : BOOLEAN, stored : Nat, total : Nat,
               cut : BOOLEAN, answer : {"none"}],
         e.addrs = exchange.addrs, e.peer = exchange.peer, request' = request,
         served' \in 0..MaxBody, e.total = served',
         e.stored = (IF served' <= BodyLimit THEN served' ELSE BodyLimit),
         e.cut => served' >= BodyLimit
  PROVE  HttpIInv'
<1>1. HttpShape'
  BY DEF HttpIInv, HttpShape, Finished
<1>2. Pinned'
  BY SameRequest DEF HttpIInv, HttpShape, Pinned, Finished
<1>3. Counted'
  <2>1. /\ exchange'.at = "answered" /\ exchange'.total = e.total
        /\ exchange'.stored = e.stored
    BY DEF Finished
  <2>2. exchange'.cut <=> (e.cut \/ e.total > BodyLimit)
    BY DEF Finished
  <2>3. exchange'.cut => served' >= BodyLimit
    BY <2>2, HttpAssumption
  <2>4. served' > BodyLimit => exchange'.cut
    BY <2>2
  <2> QED
    BY <2>1, <2>3, <2>4 DEF Counted
<1> QED
  BY <1>1, <1>2, <1>3 DEF HttpIInv

\* A peer is an address of a kind that is known.
LEMMA PeerKind ==
  ASSUME HttpShape
  PROVE  /\ Peers \subseteq AddressKinds
         /\ ~Unpinned => Peers = exchange.addrs
<1>1. \A addrs \in ResolvesTo(request.url.host) : addrs \subseteq AddressKinds
  BY DEF ResolvesTo, AddressKinds
<1> QED
  BY <1>1 DEF Peers, HttpShape

\* The registry's check pins nothing.
LEMMA ValidatesStep == ASSUME HttpIInv, Validates PROVE HttpIInv'
<1>1. HttpShape'
  BY DEF HttpIInv, HttpShape, Validates, Answers
<1>2. Pinned'
  BY SameRequest DEF HttpIInv, HttpShape, Pinned, Validates, Answers
<1>3. Counted'
  BY NothingYet DEF HttpIInv, HttpShape, Validates, Answers
<1> QED
  BY <1>1, <1>2, <1>3 DEF HttpIInv

\* The tool's own check pins the addresses that it resolved.
LEMMA ChecksStep == ASSUME HttpIInv, Checks PROVE HttpIInv'
<1>1. PICK addrs \in ResolvesTo(request.url.host) :
        IF Check(addrs)
        THEN exchange' = [exchange EXCEPT !.at = "pinned", !.addrs = addrs]
        ELSE Answers("rejected")
  BY DEF Checks
<1>2. exchange.at = "valid" /\ request' = request /\ served' = served
  BY DEF Checks
<1>3. CASE Check(addrs)
  <2>1. addrs = {IF request.url.scheme = "http" THEN "loopback" ELSE "public"}
    BY <1>3, CheckedAddresses DEF HttpIInv
  <2>2. HttpShape'
    <3>1. addrs \in SUBSET AddressKinds
      BY <2>1 DEF AddressKinds
    <3> QED
      BY <1>1, <1>2, <1>3, <3>1 DEF HttpIInv, HttpShape
  <2>3. Pinned'
    BY <1>1, <1>2, <1>3, <2>1, SameRequest DEF HttpIInv, HttpShape, Pinned
  <2>4. Counted'
    BY <1>1, <1>2, <1>3, NothingYet DEF HttpIInv, HttpShape
  <2> QED
    BY <2>2, <2>3, <2>4 DEF HttpIInv
<1>4. CASE ~Check(addrs)
  <2>1. HttpShape'
    BY <1>1, <1>2, <1>4 DEF HttpIInv, HttpShape, Answers
  <2>2. Pinned'
    BY <1>1, <1>2, <1>4, SameRequest DEF HttpIInv, HttpShape, Pinned, Answers
  <2>3. Counted'
    BY <1>1, <1>2, <1>4, NothingYet DEF HttpIInv, HttpShape, Answers
  <2> QED
    BY <2>1, <2>2, <2>3 DEF HttpIInv
<1> QED
  BY <1>3, <1>4

\* The request goes to one of the pinned addresses, or of those found once more.
LEMMA SendsStep == ASSUME HttpIInv, Sends PROVE HttpIInv'
<1>1. HttpShape'
  BY PeerKind DEF HttpIInv, HttpShape, Sends, Answers, AddressKinds
<1>2. Pinned'
  <2>1. exchange.at = "pinned" /\ request' = request /\ (Unpinned' <=> Unpinned)
    BY SameRequest DEF Sends
  <2>2. /\ exchange'.addrs = exchange.addrs /\ exchange'.at \in {"answered", "reading"}
        /\ exchange'.peer \in Peers \cup {exchange.peer}
    BY DEF HttpIInv, HttpShape, Sends, Answers
  <2>3. exchange'.peer # "none" /\ ~Unpinned => exchange'.peer \in exchange.addrs
    BY <2>2, PeerKind DEF HttpIInv, Pinned
  <2> QED
    BY <2>1, <2>2, <2>3 DEF HttpIInv, Pinned
<1>3. Counted'
  BY NothingYet DEF HttpIInv, HttpShape, Sends, Answers
<1> QED
  BY <1>1, <1>2, <1>3 DEF HttpIInv

\* A chunk is kept up to the limit and counted whole.
LEMMA TakesChunkStep == ASSUME HttpIInv, TakesChunk PROVE HttpIInv'
<1> USE HttpAssumption
<1>1. PICK n \in 0..Min({MaxChunk, MaxBody - served}) :
        LET total == exchange.total + n
            stored == Kept(exchange.stored, n) IN
        /\ served' = served + n
        /\ exchange' = [exchange EXCEPT
             !.total = total, !.stored = stored,
             !.cut = @ \/ Cuts(exchange.stored, n),
             !.at = IF total > BodyLimit * 2 /\ stored >= BodyLimit THEN "draining" ELSE @]
  BY DEF TakesChunk
<1>2. n \in Nat /\ served + n \in 0..MaxBody /\ exchange.at = "reading" /\ request' = request
  BY ChunkIsNatural DEF HttpIInv, TakesChunk
<1>3. exchange.stored \in Nat /\ exchange.total \in Nat /\ served \in Nat
  BY DEF HttpIInv, HttpShape
<1>4. /\ Kept(exchange.stored, n) =
           (IF served + n <= BodyLimit THEN served + n ELSE BodyLimit)
      /\ Cuts(exchange.stored, n) => served + n >= BodyLimit
      /\ served + n > BodyLimit => Cuts(exchange.stored, n)
  <2>1. exchange.stored = (IF served <= BodyLimit THEN served ELSE BodyLimit)
    BY DEF HttpIInv, Counted
  <2> QED
    BY <1>2, <1>3, <2>1, ChunkCounts
<1>5. exchange.total + n = served + n
  BY DEF HttpIInv, Counted
<1>6. HttpShape'
  <2>1. Kept(exchange.stored, n) \in Nat /\ exchange.total + n \in Nat
    BY <1>2, <1>3, <1>4
  <2>2. Cuts(exchange.stored, n) \in BOOLEAN
    BY DEF Cuts
  <2> QED
    BY <1>1, <1>2, <2>1, <2>2 DEF HttpIInv, HttpShape
<1>7. Pinned'
  BY <1>1, <1>2, SameRequest DEF HttpIInv, HttpShape, Pinned
<1>8. Counted'
  <2>1. /\ exchange'.total = served' /\ exchange'.stored = Kept(exchange.stored, n)
        /\ exchange'.answer = exchange.answer
    BY <1>1, <1>5 DEF HttpIInv, HttpShape
  <2>2. exchange'.at = "reading" \/ (exchange'.at = "draining" /\ served' > BodyLimit)
    BY <1>1, <1>2, <1>3, <1>5 DEF HttpIInv, HttpShape
  <2>3. exchange'.cut <=> (exchange.cut \/ Cuts(exchange.stored, n))
    BY <1>1 DEF HttpIInv, HttpShape
  <2>4. exchange.cut => served >= BodyLimit
    BY DEF HttpIInv, Counted
  <2>5. exchange'.cut => served' >= BodyLimit
    BY <1>1, <1>2, <1>3, <1>4, <2>3, <2>4
  <2>6. served' > BodyLimit => exchange'.cut
    BY <1>1, <1>4, <2>3
  <2>7. exchange.answer = "none"
    BY <1>2 DEF HttpIInv, HttpShape
  <2> QED
    BY <1>1, <1>4, <2>1, <2>2, <2>5, <2>6, <2>7 DEF Counted
<1> QED
  BY <1>6, <1>7, <1>8 DEF HttpIInv

\* A chunk past twice the limit is only counted.
LEMMA DrainsStep == ASSUME HttpIInv, Drains PROVE HttpIInv'
<1> USE HttpAssumption
<1> DEFINE More(n) == [exchange EXCEPT !.total = @ + n]
<1>1. PICK n \in 0..Min({MaxChunk, MaxBody - served}) :
        /\ served' = served + n
        /\ exchange' = IF More(n).total > BodyLimit * 4 THEN Finished(More(n)) ELSE More(n)
  BY DEF Drains
<1>2. n \in Nat /\ served + n \in 0..MaxBody /\ exchange.at = "draining" /\ request' = request
  BY ChunkIsNatural DEF HttpIInv, Drains
<1>3. /\ exchange.stored = BodyLimit /\ exchange.total = served /\ served > BodyLimit
      /\ served \in Nat /\ exchange.answer = "none"
  BY <1>2 DEF HttpIInv, HttpShape, Counted
<1>4. More(n) \in [at : {"reading", "draining"}, addrs : SUBSET AddressKinds,
                   peer : {"none"} \cup AddressKinds, good : BOOLEAN, stored : Nat, total : Nat,
                   cut : BOOLEAN, answer : {"none"}]
  BY <1>2, <1>3 DEF HttpIInv, HttpShape
<1>5. /\ More(n).total = served' /\ More(n).stored = BodyLimit /\ served' > BodyLimit
      /\ More(n).addrs = exchange.addrs /\ More(n).peer = exchange.peer
      /\ More(n).at = "draining" /\ More(n).answer = "none"
  BY <1>1, <1>2, <1>3 DEF HttpIInv, HttpShape
<1>6. CASE exchange' = Finished(More(n))
  <2> HIDE DEF More
  <2> QED
    BY <1>1, <1>2, <1>4, <1>5, <1>6, FinishedCounts
<1>7. CASE exchange' = More(n)
  <2> HIDE DEF More
  <2>1. HttpShape'
    BY <1>1, <1>2, <1>4, <1>5, <1>7 DEF HttpIInv, HttpShape
  <2>2. Pinned'
    BY <1>2, <1>5, <1>7, SameRequest DEF HttpIInv, Pinned
  <2>3. Counted'
    BY <1>1, <1>2, <1>3, <1>5, <1>7 DEF Counted
  <2> QED
    BY <2>1, <2>2, <2>3 DEF HttpIInv
<1> QED
  BY <1>1, <1>6, <1>7

\* The body's end, or an error while the rest is only counted.
LEMMA EndStep ==
  ASSUME HttpIInv, exchange.at \in {"reading", "draining"}, exchange' = Finished(exchange),
         request' = request, served' = served
  PROVE  HttpIInv'
<1>1. exchange.answer = "none"
  BY DEF HttpIInv, HttpShape
<1>2. exchange \in [at : {"reading", "draining"}, addrs : SUBSET AddressKinds,
                    peer : {"none"} \cup AddressKinds, good : BOOLEAN, stored : Nat, total : Nat,
                    cut : BOOLEAN, answer : {"none"}]
  BY <1>1 DEF HttpIInv, HttpShape
<1> QED
  BY <1>2, FinishedCounts DEF HttpIInv, HttpShape, Counted

\* A body that fails is no answer.
LEMMA BodyFailsStep == ASSUME HttpIInv, BodyFails PROVE HttpIInv'
<1>1. CASE exchange.at = "reading" /\ Answers("body_read_failed")
  <2>1. HttpShape'
    BY <1>1 DEF HttpIInv, HttpShape, BodyFails, Answers
  <2>2. Pinned'
    BY <1>1, SameRequest DEF HttpIInv, HttpShape, Pinned, BodyFails, Answers
  <2>3. /\ exchange'.stored = exchange.stored /\ exchange'.total = exchange.total
        /\ exchange'.cut = exchange.cut /\ served' = served
        /\ exchange'.at = "answered" /\ exchange'.answer = "body_read_failed"
    BY <1>1 DEF HttpIInv, HttpShape, BodyFails, Answers
  <2>4. exchange'.cut => served' >= BodyLimit
    BY <2>3 DEF HttpIInv, Counted
  <2>5. Counted'
    BY <2>3, <2>4 DEF HttpIInv, Counted
  <2> QED
    BY <2>1, <2>2, <2>5 DEF HttpIInv
<1> QED
  BY <1>1, EndStep DEF BodyFails

\* The types, the pinned addresses and the counted body are inductive together.
LEMMA HttpInductive == HttpSpec => []HttpIInv
<1>1. HttpInit => HttpIInv
  BY HttpAssumption DEF HttpInit, HttpIInv, HttpShape, Pinned, Counted, AddressKinds
<1>2. HttpIInv /\ [HttpNext]_httpVars => HttpIInv'
  <2> SUFFICES ASSUME HttpIInv, [HttpNext]_httpVars PROVE HttpIInv'
    OBVIOUS
  <2>1. CASE BodyEnds
    BY <2>1, EndStep DEF BodyEnds
  <2>2. CASE UNCHANGED httpVars
    BY <2>2, SameRequest DEF httpVars, HttpIInv, HttpShape, Pinned, Counted
  <2> QED
    BY <2>1, <2>2, ValidatesStep, ChecksStep, SendsStep, TakesChunkStep, DrainsStep,
       BodyFailsStep DEF HttpNext
<1> QED
  BY <1>1, <1>2, PTL DEF HttpSpec

\* An exchange keeps its types: an answer exists exactly when it is answered, and
\* never more than body_limit is kept.
THEOREM HttpTypeCorrect == HttpSpec => []HttpTypeOK
<1>1. HttpIInv => HttpTypeOK
  BY HttpAssumption DEF HttpIInv, HttpShape, Counted, AddressKinds, HttpTypeOK
<1> QED
  BY <1>1, HttpInductive, PTL

\* The tool connects to an address that its own check passed, never to one that the
\* name resolved to at another time, and what it answers of the body is what
\* arrived: kept up to body_limit, counted whole, and flagged when bytes were lost.
THEOREM AnswersFaithfully == HttpSpec => []ExchangeFaithful
<1>1. HttpIInv => ExchangeFaithful
  <2> SUFFICES ASSUME HttpIInv PROVE ExchangeFaithful
    OBVIOUS
  <2>1. Min({served, BodyLimit}) = (IF served <= BodyLimit THEN served ELSE BodyLimit)
    BY MinOfTwo, HttpAssumption DEF HttpIInv, HttpShape
  <2> QED
    BY <2>1, HttpAssumption DEF HttpIInv, HttpShape, Pinned, Counted, ExchangeFaithful
<1> QED
  BY <1>1, HttpInductive, PTL

-----------------------------------------------------------------------------
(***************************************************************************)
(* The arguments of the tools, for any operations that are enabled. What   *)
(* a call passed it still satisfies, and what its tool's rule lets through *)
(* is enough for each argument that the execute reads.                     *)
(***************************************************************************)

\* A call has its six fields, and what it passed it still satisfies.
PassedChecks ==
  /\ asked = [tool |-> asked.tool, op |-> asked.op, args |-> asked.args,
              direct |-> asked.direct, at |-> asked.at, answer |-> asked.answer]
  /\ asked.at \in {"executing", "performing"} /\ ~asked.direct => Permits(asked)
  /\ asked.at = "performing" => ValidatesAgain(asked)

UsesOf(call) == [f \in ReadBy(call.tool, call.op) |-> Use(call, f)]

Unvalidated(call) == call.direct /\ call.tool = "bounded_sequence"

\* Nothing was read, or what was read is of arguments that passed.
UsesPassed ==
  \/ used = NoneUsed /\ asked.answer # "panicked"
  \/ /\ used = UsesOf(asked) /\ asked.at = "answered"
     /\ ~Unvalidated(asked) => Permits(asked)
     /\ asked.answer = "panicked" =>
          \/ Panics(asked, used)
          \/ asked.tool = "bounded_sequence" /\ used["steps"] = "beyond"

ArgumentsIInv == ArgumentsTypeOK /\ PassedChecks /\ UsesPassed

\* Only how far a call is and its answer change.
LEMMA CallGoesOn ==
  ASSUME ArgumentsIInv, NEW at, NEW answer, asked' = [asked EXCEPT !.at = at, !.answer = answer]
  PROVE  /\ asked'.tool = asked.tool /\ asked'.op = asked.op /\ asked'.args = asked.args
         /\ asked'.direct = asked.direct /\ asked'.at = at /\ asked'.answer = answer
         /\ asked' = [tool |-> asked'.tool, op |-> asked'.op, args |-> asked'.args,
                      direct |-> asked'.direct, at |-> asked'.at, answer |-> asked'.answer]
         /\ Permits(asked)' = Permits(asked) /\ ValidatesAgain(asked)' = ValidatesAgain(asked)
         /\ UsesOf(asked)' = UsesOf(asked)
<1>1. asked' = [tool |-> asked.tool, op |-> asked.op, args |-> asked.args,
                direct |-> asked.direct, at |-> at, answer |-> answer]
  BY DEF ArgumentsIInv, PassedChecks
<1>2. /\ asked'.tool = asked.tool /\ asked'.op = asked.op /\ asked'.args = asked.args
      /\ asked'.direct = asked.direct /\ asked'.at = at /\ asked'.answer = answer
  BY <1>1
<1>3. Permits(asked)' = Permits(asked)
  BY <1>2, Zenon DEF Permits
<1>4. ValidatesAgain(asked)' = ValidatesAgain(asked)
  <2>1. Meets(asked.args, Rule({"steps"}, {}, {}, {}))' = Meets(asked.args, Rule({"steps"}, {}, {}, {}))
    BY <1>2, Zenon
  <2> QED
    BY <1>2, <1>3, <2>1, Zenon DEF ValidatesAgain
<1>5. UsesOf(asked)' = UsesOf(asked)
  BY <1>2, Zenon DEF UsesOf, Use
<1> QED
  BY <1>1, <1>2, <1>3, <1>4, <1>5

\* A call goes on with what it passed, or is refused, and then what it passed is used.
LEMMA ArgumentsStep == ASSUME ArgumentsIInv, ArgumentsNext PROVE ArgumentsIInv'
<1>1. asked = [tool |-> asked.tool, op |-> asked.op, args |-> asked.args,
               direct |-> asked.direct, at |-> asked.at, answer |-> asked.answer]
  BY DEF ArgumentsIInv, PassedChecks
<1>2. CASE Refuses /\ UNCHANGED used /\ asked.at # "answered"
  <2>1. /\ asked'.tool = asked.tool /\ asked'.at = "answered" /\ asked'.answer = "rejected"
        /\ asked' = [tool |-> asked'.tool, op |-> asked'.op, args |-> asked'.args,
                     direct |-> asked'.direct, at |-> asked'.at, answer |-> asked'.answer]
    BY <1>2, CallGoesOn DEF Refuses
  <2>2. UsesPassed'
    BY <1>2, <2>1 DEF ArgumentsIInv, UsesPassed
  <2> QED
    BY <2>1, <2>2 DEF ArgumentsIInv, ArgumentsTypeOK, PassedChecks
<1>3. CASE /\ asked.at = "called" /\ asked' = [asked EXCEPT !.at = "executing"]
           /\ asked.direct \/ Permits(asked)
           /\ UNCHANGED used
  <2>1. asked' = [asked EXCEPT !.at = "executing", !.answer = asked.answer]
    BY <1>1, <1>3
  <2>2. /\ asked'.tool = asked.tool /\ asked'.at = "executing" /\ asked'.answer = asked.answer
        /\ asked'.direct = asked.direct /\ Permits(asked)' = Permits(asked)
        /\ asked' = [tool |-> asked'.tool, op |-> asked'.op, args |-> asked'.args,
                     direct |-> asked'.direct, at |-> asked'.at, answer |-> asked'.answer]
    BY <2>1, CallGoesOn
  <2>3. UsesPassed'
    BY <1>3, <2>2 DEF ArgumentsIInv, UsesPassed
  <2> QED
    BY <1>3, <2>2, <2>3 DEF ArgumentsIInv, ArgumentsTypeOK, PassedChecks
<1>4. CASE /\ asked.at = "executing" /\ asked' = [asked EXCEPT !.at = "performing"]
           /\ ValidatesAgain(asked)
           /\ UNCHANGED used
  <2>1. asked' = [asked EXCEPT !.at = "performing", !.answer = asked.answer]
    BY <1>1, <1>4
  <2>2. /\ asked'.tool = asked.tool /\ asked'.at = "performing" /\ asked'.answer = asked.answer
        /\ asked'.direct = asked.direct /\ Permits(asked)' = Permits(asked)
        /\ ValidatesAgain(asked)' = ValidatesAgain(asked)
        /\ asked' = [tool |-> asked'.tool, op |-> asked'.op, args |-> asked'.args,
                     direct |-> asked'.direct, at |-> asked'.at, answer |-> asked'.answer]
    BY <2>1, CallGoesOn
  <2>3. UsesPassed'
    BY <1>4, <2>2 DEF ArgumentsIInv, UsesPassed
  <2> QED
    BY <1>4, <2>2, <2>3 DEF ArgumentsIInv, ArgumentsTypeOK, PassedChecks
<1>5. CASE Performs
  <2>1. PICK answer \in Outcomes(asked, used') :
          asked' = [asked EXCEPT !.at = "answered", !.answer = answer]
    BY <1>5 DEF Performs
  <2>2. /\ asked.at = "performing" /\ used' = UsesOf(asked)
        /\ Permits(asked) \/ Unvalidated(asked)
    BY <1>5 DEF Performs, UsesOf, ArgumentsIInv, PassedChecks, ValidatesAgain, Unvalidated
  <2>3. /\ answer # "none"
        /\ answer = "panicked" =>
             \/ Panics(asked, used')
             \/ asked.tool = "bounded_sequence" /\ used'["steps"] = "beyond"
    BY DEF Outcomes, SystemOutcomes, If
  <2>4. /\ asked'.tool = asked.tool /\ asked'.op = asked.op /\ asked'.direct = asked.direct
        /\ asked'.at = "answered" /\ asked'.answer = answer
        /\ asked' = [tool |-> asked'.tool, op |-> asked'.op, args |-> asked'.args,
                     direct |-> asked'.direct, at |-> asked'.at, answer |-> asked'.answer]
        /\ Permits(asked)' = Permits(asked) /\ UsesOf(asked)' = UsesOf(asked)
    BY <2>1, CallGoesOn
  <2>5. Panics(asked, used') => Panics(asked, used)'
    BY <2>4 DEF Panics
  <2>6. UsesPassed'
    BY <2>2, <2>3, <2>4, <2>5 DEF UsesPassed, Unvalidated
  <2> QED
    BY <2>3, <2>4, <2>6 DEF ArgumentsIInv, ArgumentsTypeOK, PassedChecks
<1> QED
  BY <1>2, <1>3, <1>4, <1>5 DEF ArgumentsNext, RegistryValidates, ToolValidates

\* That a call keeps what it passed is inductive.
LEMMA ArgumentsInductive == ArgumentsSpec => []ArgumentsIInv
<1>1. ArgumentsInit => ArgumentsIInv
  <2> SUFFICES ASSUME ArgumentsInit PROVE ArgumentsIInv
    OBVIOUS
  <2> DEFINE OpsOf(tool) == UNION {CallsOf(tool, op) : op \in Operations(tool) \cup {"not an operation"}}
  <2>1. asked \in UNION {OpsOf(tool) : tool \in Tools}
    BY Zenon DEF ArgumentsInit
  <2>2. PICK tool \in Tools : asked \in OpsOf(tool)
    <3> HIDE DEF OpsOf
    <3> QED
      BY <2>1
  <2>3. PICK op \in Operations(tool) \cup {"not an operation"} : asked \in CallsOf(tool, op)
    BY <2>2
  <2>4. /\ asked = [tool |-> asked.tool, op |-> asked.op, args |-> asked.args,
                    direct |-> asked.direct, at |-> asked.at, answer |-> asked.answer]
        /\ asked.tool = tool /\ asked.at = "called" /\ asked.answer = "none"
    BY <2>3 DEF CallsOf
  <2> QED
    BY <2>4 DEF ArgumentsIInv, ArgumentsTypeOK, PassedChecks, UsesPassed, ArgumentsInit
<1>2. ArgumentsIInv /\ UNCHANGED argumentsVars => ArgumentsIInv'
  <2> SUFFICES ASSUME ArgumentsIInv, UNCHANGED argumentsVars PROVE ArgumentsIInv'
    OBVIOUS
  <2>1. /\ asked' = asked /\ used' = used
        /\ Permits(asked)' = Permits(asked) /\ ValidatesAgain(asked)' = ValidatesAgain(asked)
        /\ UsesOf(asked)' = UsesOf(asked) /\ Panics(asked, used)' = Panics(asked, used)
    BY DEF argumentsVars, Permits, ValidatesAgain, UsesOf, Panics, Use
  <2> QED
    BY <2>1 DEF ArgumentsIInv, ArgumentsTypeOK, PassedChecks, UsesPassed, Unvalidated
<1> QED
  BY <1>1, <1>2, ArgumentsStep, PTL DEF ArgumentsSpec

\* What execute may make of an argument that was let through.
FineUse(call, f) ==
  LET use == Use(call, f) IN
  /\ use # "missing"
  /\ use = "default" => f \in Optional(call.tool, call.op)
  /\ use = "default" /\ f \in NeverDropped => call.args[f] = "absent"
  /\ use = "beyond" => f \in Unchecked(call.tool, call.op)

\* Every argument that an execute reads is fine when the rule of its tool let it through.
LEMMA AcceptedIsFine ==
  ASSUME NEW call, call.tool \in Tools, Permits(call), NEW f \in ReadBy(call.tool, call.op)
  PROVE  FineUse(call, f)
<1> USE DEF FineUse, Use, Permits, Meets, Rule, ReadBy, Reader, ReaderOf, RuleOf, If, Optional,
            Unchecked, NeverDropped
<1>1. CASE call.tool = "think"
  BY <1>1 DEF ThinkRule
<1>2. CASE call.tool = "memory"
  BY <1>2 DEF MemoryRule, MemoryReader, Operations
<1>3. CASE call.tool = "todo"
  BY <1>3 DEF TodoRule, TodoReader, Operations
<1>4. CASE call.tool = "plan"
  BY <1>4 DEF PlanRule, PlanReader, Operations
<1>5. CASE call.tool = "reflect"
  BY <1>5 DEF ReflectRule
<1>6. CASE call.tool = "code"
  BY <1>6 DEF CodeRule
<1>7. CASE call.tool = "shell"
  BY <1>7 DEF ShellRule
<1>8. CASE call.tool = "system"
  BY <1>8 DEF SystemRule, SystemReader, Operations, Gated
<1>9. CASE call.tool = "http"
  BY <1>9 DEF HttpRule
<1>10. CASE call.tool = "bounded_sequence"
  BY <1>10 DEF BoundedRule
<1>11. CASE call.tool = "verify_change"
  BY <1>11 DEF VerifyRule
<1> QED
  BY <1>1, <1>2, <1>3, <1>4, <1>5, <1>6, <1>7, <1>8, <1>9, <1>10, <1>11 DEF Tools

\* A call stays one call, answered once.
THEOREM ArgumentsTypeCorrect == ArgumentsSpec => []ArgumentsTypeOK
<1>1. ArgumentsIInv => ArgumentsTypeOK
  BY DEF ArgumentsIInv
<1> QED
  BY <1>1, ArgumentsInductive, PTL

\* What validation accepts is enough for the execute behind it, for every tool,
\* operation and mixture of arguments, and whichever operations are enabled: nothing
\* is unwrapped that is missing, and defaults stand only for what may be left out.
THEOREM AcceptedSuffices == ArgumentsSpec => []AcceptedArgumentsSuffice
<1>1. ArgumentsIInv => AcceptedArgumentsSuffice
  <2> SUFFICES ASSUME ArgumentsIInv, ~Unvalidated(asked)
               PROVE  /\ asked.answer # "panicked"
                      /\ \A f \in DOMAIN used :
                           /\ used[f] = "default" => f \in Optional(asked.tool, asked.op)
                           /\ used[f] = "default" /\ f \in NeverDropped => asked.args[f] = "absent"
                           /\ used[f] = "beyond" => f \in Unchecked(asked.tool, asked.op)
    BY DEF AcceptedArgumentsSuffice, Unvalidated
  <2>1. CASE used = NoneUsed /\ asked.answer # "panicked"
    BY <2>1 DEF NoneUsed
  <2>2. CASE used = UsesOf(asked) /\ Permits(asked)
    <3>1. DOMAIN used = ReadBy(asked.tool, asked.op)
      BY <2>2 DEF UsesOf
    <3>2. \A f \in DOMAIN used : used[f] = Use(asked, f) /\ FineUse(asked, f)
      BY <2>2, <3>1, AcceptedIsFine DEF UsesOf, ArgumentsIInv, ArgumentsTypeOK
    <3>3. ~Panics(asked, used)
      <4>1. asked.op \in Operations(asked.tool)
        BY <2>2 DEF Permits
      <4>2. asked.tool = "code" => used["language"] # "beyond"
        BY <3>1, <3>2 DEF FineUse, ReadBy, ReaderOf, Reader, Unchecked
      <4> QED
        BY <3>2, <4>1, <4>2 DEF Panics, FineUse
    <3>4. asked.tool = "bounded_sequence" => used["steps"] # "beyond"
      BY <3>1, <3>2 DEF FineUse, ReadBy, ReaderOf, Reader, Unchecked
    <3>5. asked.answer # "panicked"
      BY <2>2, <3>3, <3>4 DEF ArgumentsIInv, UsesPassed
    <3> QED
      BY <3>2, <3>5 DEF FineUse
  <2> QED
    BY <2>1, <2>2 DEF ArgumentsIInv, UsesPassed
<1> QED
  BY <1>1, ArgumentsInductive, PTL

-----------------------------------------------------------------------------
(***************************************************************************)
(* All parts side by side. A behaviour of them, seen through the           *)
(* variables of one part, is a behaviour of that part: its step when the   *)
(* part is the one that was chosen, a stutter of it otherwise.             *)
(***************************************************************************)
LEMMA AnyCallIsACall == asked = AnyCall /\ used = NoneUsed => ArgumentsInit
<1> SUFFICES ASSUME asked = AnyCall, used = NoneUsed PROVE ArgumentsInit
  OBVIOUS
<1> DEFINE OpsOf(tool) == UNION {CallsOf(tool, op) : op \in Operations(tool) \cup {"not an operation"}}
           fields == Fields("think", "call")
<1>1. Fields("think", "not an operation") = fields
  BY DEF Fields, RuleOf, ReadBy, ReaderOf
<1>2. asked \in CallsOf("think", "not an operation")
  <2>1. [f \in fields |-> "ok"] \in
          {a \in [fields -> UNION {Classes(f) : f \in fields}] : \A f \in fields : a[f] \in Classes(f)}
    <3>1. \A f \in fields : "ok" \in Classes(f)
      BY DEF Classes
    <3> HIDE DEF fields
    <3> QED
      BY <3>1
  <2> HIDE DEF fields
  <2> QED
    BY <1>1, <2>1 DEF AnyCall, CallsOf, fields
<1>3. asked \in OpsOf("think")
  BY <1>2
<1>4. asked \in UNION {OpsOf(tool) : tool \in Tools}
  <2> HIDE DEF OpsOf
  <2> QED
    BY <1>3 DEF Tools
<1> QED
  BY <1>4, Zenon DEF ArgumentsInit

\* What a part at rest keeps is an initial state of it.
LEMMA PartsStart ==
  ASSUME Init
  PROVE  /\ MemoryInit /\ ListsInit /\ WorkspaceInit /\ AuditInit /\ ExperimentInit
         /\ McpInit /\ HttpInit /\ ArgumentsInit /\ CountersInit
BY AnyCallIsACall DEF Init

\* A step of the whole is a step of one part and a stutter of every other.
LEMMA PartsStep ==
  ASSUME [Next]_vars
  PROVE  /\ [MemoryNext]_memoryVars /\ [ListsNext]_listsVars /\ [WorkspaceNext]_workspaceVars
         /\ [AuditNext]_auditVars /\ [ExperimentNext]_experimentVars /\ [McpNext]_mcpVars
         /\ [HttpNext]_httpVars /\ [ArgumentsNext]_argumentsVars /\ [CountersNext]_countersVars
BY DEF Next, vars, InMemory, InLists, InWorkspace, InAudit, InExperiment, InMcp, InHttp,
       InArguments, InCounters

\* So the whole implements every part.
LEMMA PartsRun ==
  Spec => /\ MemorySpec /\ ListsSpec /\ WorkspaceSpec /\ AuditSpec /\ ExperimentSpec
          /\ McpSpec /\ HttpSpec /\ ArgumentsSpec /\ CountersSpec
BY PartsStart, PartsStep, PTL
DEF Spec, MemorySpec, ListsSpec, WorkspaceSpec, AuditSpec, ExperimentSpec, McpSpec, HttpSpec,
    ArgumentsSpec, CountersSpec

\* Every part keeps its types in every state of the run of all of them.
THEOREM ToolsTypeCorrect == Spec => []ToolsTypeOK
<1>1. MemoryTypeOK /\ ListsTypeOK /\ WorkspaceTypeOK /\ AuditTypeOK /\ ExperimentTypeOK
        /\ McpTypeOK /\ HttpTypeOK /\ ArgumentsTypeOK /\ CountersTypeOK => ToolsTypeOK
  BY DEF ToolsTypeOK
<1> QED
  BY <1>1, PartsRun, MemoryTypeCorrect, ListsTypeCorrect, WorkspaceTypeCorrect, AuditTypeCorrect,
     ExperimentTypeCorrect, McpTypeCorrect, HttpTypeCorrect, ArgumentsTypeCorrect,
     CountersTypeCorrect, PTL

\* What holds of the parts holds of the run, the action property of the workspace included.
THEOREM PartsAreSafe ==
  Spec => /\ [](ShownWereAlive /\ IdsHold /\ AuditWhole /\ TraceInOrder /\ MetricsTrue)
          /\ [](VerdictsTrue /\ ExchangeFaithful /\ AcceptedArgumentsSuffice /\ QuietScrapesAgree)
          /\ AloneIsAtomic
BY PartsRun, NothingExpiredIsShown, AnsweredIdsHold, LogIsWhole, TraceIsInOrder, MetricsAreTrue,
   VerdictsAreTrue, AnswersFaithfully, AcceptedSuffices, QuietScrapesAreExact, AloneIsOnePiece, PTL

=============================================================================

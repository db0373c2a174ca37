----------------------------- MODULE CallsProofs ----------------------------
(***************************************************************************)
(* Batches and sequences of any sizes, under any bounds.  The inductive    *)
(* invariant IInv of Calls has a lemma for each of its parts.              *)
(***************************************************************************)
EXTENDS Calls, FiniteSetTheorems, SequenceTheorems, TLAPS

\* Moving one step of one call moves no other.
LEMMA SetMoves ==
  ASSUME StateOK, NEW c \in Call, NEW i \in Steps(c), NEW s \in Progress, Set(c, i, s)
  PROVE  /\ DOMAIN step' = Call
         /\ \A d \in Call : step'[d] \in [Steps(d) -> Progress]
         /\ step'[c][i] = s
         /\ \A d \in Call : \A j \in Steps(d) :
              d # c \/ j # i => step'[d][j] = step[d][j]
BY DEF StateOK, Set

\* Appending to one call's list leaves the others.
LEMMA ListGrows ==
  ASSUME NEW f \in [Call -> Seq(Nat)], NEW c \in Call, NEW n \in Nat,
         NEW g, g = [f EXCEPT ![c] = Append(@, n)]
  PROVE  /\ g \in [Call -> Seq(Nat)]
         /\ Len(g[c]) = Len(f[c]) + 1
         /\ g[c][Len(f[c]) + 1] = n
         /\ \A j \in 1..Len(f[c]) : g[c][j] = f[c][j]
         /\ \A d \in Call : d # c => g[d] = f[d]
BY DEF Call

\* There are no more results than steps.
LEMMA ResultsFit ==
  ASSUME StateOK, ResultsInOrder, NEW c \in Call
  PROVE  Len(results[c]) \in 0..Size[c]
<1>1. Len(results[c]) \in Nat /\ Size[c] \in Nat
  BY SizeAssumption DEF StateOK
<1>2. CASE Len(results[c]) = 0
  BY <1>1, <1>2
<1>3. CASE Len(results[c]) # 0
  BY <1>1, <1>3 DEF ResultsInOrder, Ended, Steps
<1> QED
  BY <1>2, <1>3

\* The clamp of a batch.
LEMMA Clamped ==
  ASSUME StateOK, NEW c \in Batch
  PROVE  /\ Clamp(asked[c]) \in 0..MaxInner /\ Clamp(asked[c]) \in Nat
         /\ \/ Clamp(asked[c]) <= 1
            \/ Clamp(asked[c]) <= asked[c] /\ Clamp(asked[c]) <= MaxInner
<1>1. asked[c] \in Nat /\ MaxInner \in Nat \ {0}
  BY InnerAssumption DEF StateOK
<1> QED
  BY <1>1 DEF Clamp

\* Every step of a call keeps the types.
LEMMA StateStep ==
  ASSUME StateOK, ResultsInOrder, [Next]_vars
  PROVE  StateOK'
<1> USE SizeAssumption DEF StateOK, Goto, Status
<1>1. ASSUME NEW c \in Call, Start(c)
      PROVE  StateOK'
  <2>1. c \in Batch => Clamp(asked[c]) \in 0..MaxInner
    BY Clamped
  <2>2. limit' \in [Batch -> 0..MaxInner]
    BY <1>1, <2>1 DEF Start
  <2> QED
    BY <1>1, <2>2 DEF Start
<1>2. ASSUME NEW c \in Call, Admit(c) \/ Refuse(c) \/ Turn(c)
      PROVE  StateOK'
  BY <1>2 DEF Admit, Refuse, Turn, Close
<1>3. ASSUME NEW c \in Call, NEW i \in Steps(c), Task(c, i) \/ Hang(c, i)
      PROVE  StateOK'
  <2>1. PICK s \in Progress : Set(c, i, s)
    BY <1>3 DEF Task, BeginTask, EndTask, Hang, Progress
  <2>2. UNCHANGED <<asked, limit, persistent, status, results, prev, seen>>
    BY <1>3 DEF Task, BeginTask, EndTask, Hang
  <2> QED
    BY <2>1, <2>2, SetMoves
<1>4. ASSUME NEW c \in Call, Join(c)
      PROVE  StateOK'
  <2>1. results' \in [Call -> Seq(Nat)]
    BY <1>4, ListGrows DEF Join
  <2> QED
    BY <1>4, <2>1 DEF Join
<1>5. ASSUME NEW c \in Call, AnswerBatch(c) \/ LeaveBatch(c) \/ AnswerSequence(c)
      PROVE  StateOK'
  BY <1>5 DEF AnswerBatch, LeaveBatch, AnswerSequence, Close
<1>6. ASSUME NEW c \in Call, BeginStep(c)
      PROVE  StateOK'
  <2> DEFINE i == Len(results[c]) + 1
  <2>1. i \in Steps(c)
    BY <1>6, ResultsFit DEF BeginStep, Finished, Steps
  <2> QED
    BY <1>6, <2>1, SetMoves DEF BeginStep, Progress
<1>7. ASSUME NEW c \in Call, EndStep(c)
      PROVE  StateOK'
  <2>1. PICK s \in Outcome : Set(c, Len(results[c]) + 1, s)
    BY <1>7 DEF EndStep
  <2>2. Len(results[c]) + 1 \in Steps(c) /\ s \in Progress
    BY <1>7, <2>1 DEF EndStep, In, Progress
  <2>3. results' \in [Call -> Seq(Nat)] /\ prev' \in [Call -> Seq(Nat)]
    BY <1>7, ListGrows DEF EndStep
  <2> QED
    BY <1>7, <2>1, <2>2, <2>3, SetMoves DEF EndStep
<1>8. ASSUME NEW c \in Call, LeaveSequence(c)
      PROVE  StateOK'
  BY <1>8 DEF LeaveSequence, Close, Progress
<1>9. ASSUME UNCHANGED vars
      PROVE  StateOK'
  BY <1>9 DEF vars
<1> QED
  BY <1>1, <1>2, <1>3, <1>4, <1>5, <1>6, <1>7, <1>8, <1>9 DEF Next, Handler

\* A step of the sequence is begun only when there is one left.
LEMMA NextStep ==
  ASSUME StateOK, ResultsInOrder, NEW c \in Call, BeginStep(c)
  PROVE  /\ Len(results[c]) + 1 \in Steps(c)
         /\ Set(c, Len(results[c]) + 1, "running")
BY ResultsFit, SizeAssumption DEF BeginStep, Finished, Steps

\* Opening takes a permit and closing gives it back.
LEMMA PermitsStep ==
  ASSUME StateOK, permits \in 0..Concurrency, PermitsLeft, [Next]_vars
  PROVE  permits' \in 0..Concurrency /\ PermitsLeft'
<1>1. IsFiniteSet(Opened) /\ Cardinality(Opened) \in Nat
  BY CallAssumption, FS_Subset, FS_CardinalityType DEF Opened
<1>2. IsFiniteSet(Opened') /\ Cardinality(Opened') \in Nat
  BY CallAssumption, FS_Subset, FS_CardinalityType DEF Opened
<1> DEFINE Goal == /\ permits' \in Int /\ permits' >= 0
                   /\ permits' + Cardinality(Opened') = Concurrency
<1> USE DEF Goto
<1>3. ASSUME NEW c \in Call, Admit(c)
      PROVE  Goal
  <2>1. Opened' = Opened \cup {c} /\ c \notin Opened
    BY <1>3 DEF Admit, Opened, StateOK
  <2>2. Cardinality(Opened') = Cardinality(Opened) + 1
    BY <2>1, <1>1, FS_AddElement
  <2> QED
    BY <1>3, <2>2, <1>1 DEF Admit, PermitsLeft
<1>4. ASSUME NEW c \in Call, NEW from \in {"admitted", "open"},
             NEW how \in {"answered", "left", "refused", "gone"}, Close(c, from, how)
      PROVE  Goal
  <2>1. Opened' = Opened \ {c} /\ c \in Opened
    BY <1>4 DEF Close, Opened, StateOK
  <2>2. Cardinality(Opened') = Cardinality(Opened) - 1
    BY <2>1, <1>1, FS_RemoveElement
  <2> QED
    BY <1>4, <2>2, <1>1 DEF Close, PermitsLeft
<1>5. ASSUME UNCHANGED permits, Opened' = Opened
      PROVE  Goal
  BY <1>5 DEF PermitsLeft
<1>6. ASSUME NEW c \in Call, Refuse(c)
      PROVE  Goal
  <2>1. Opened' = Opened
    BY <1>6 DEF Refuse, Opened, StateOK
  <2> QED
    BY <1>5, <1>6, <2>1 DEF Refuse
<1>7. ASSUME NEW c \in Call, \/ AnswerBatch(c) \/ LeaveBatch(c) \/ AnswerSequence(c)
                             \/ LeaveSequence(c) \/ Turn(c)
      PROVE  Goal
  BY <1>4, <1>7 DEF AnswerBatch, LeaveBatch, AnswerSequence, LeaveSequence, Turn
<1>8. ASSUME UNCHANGED <<permits, status>>
      PROVE  Goal
  BY <1>5, <1>8 DEF Opened
<1>9. ASSUME \/ UNCHANGED vars
             \/ \E c \in Call : \/ Join(c) \/ BeginStep(c) \/ EndStep(c)
                               \/ \E i \in Steps(c) : Task(c, i) \/ Hang(c, i)
      PROVE  UNCHANGED <<permits, status>>
  BY <1>9 DEF vars, Join, BeginStep, EndStep, Task, BeginTask, EndTask, Hang
<1>10. ASSUME NEW c \in Call, Start(c)
       PROVE  Goal
  <2>1. Opened' = Opened
    BY <1>10 DEF Start, Opened, StateOK
  <2> QED
    BY <1>5, <1>10, <2>1 DEF Start
<1> HIDE DEF Goal
<1>11. Goal
  BY <1>3, <1>6, <1>7, <1>8, <1>9, <1>10 DEF Next, Handler
<1> QED
  BY <1>2, <1>11, ConcurrencyAssumption DEF Goal, PermitsLeft

-----------------------------------------------------------------------------
(* The parts that speak of every call alone: a step is the move of one     *)
(* call, and all that belongs to the others stays.                         *)

Same(d) ==
  /\ status'[d] = status[d] /\ step'[d] = step[d]
  /\ results'[d] = results[d] /\ prev'[d] = prev[d] /\ seen'[d] = seen[d]
  /\ d \in persistent' <=> d \in persistent
  /\ d \in Batch => limit'[d] = limit[d]

Move(d) ==
  \/ Admit(d) \/ Refuse(d) \/ Turn(d) \/ Handler(d)
  \/ \E i \in Steps(d) : Task(d, i) \/ Hang(d, i)
  \/ LeaveBatch(d) \/ LeaveSequence(d)

\* A call moves or stays as it is.
LEMMA Others ==
  ASSUME StateOK, [Next]_vars, NEW d \in Call
  PROVE  Same(d) \/ Move(d)
<1> USE DEF StateOK, Same, Goto
<1>1. ASSUME NEW c \in Call, c # d, Admit(c) \/ Refuse(c) \/ Turn(c)
      PROVE  Same(d)
  BY <1>1 DEF Admit, Refuse, Turn, Close
<1>2. ASSUME NEW c \in Call, c # d, NEW i \in Steps(c), Task(c, i) \/ Hang(c, i)
      PROVE  Same(d)
  BY <1>2 DEF Task, BeginTask, EndTask, Hang, Set
<1>3. ASSUME NEW c \in Call, c # d, Handler(c)
      PROVE  Same(d)
  BY <1>3
  DEF Handler, Start, Join, AnswerBatch, BeginStep, EndStep, AnswerSequence, Close, Set
<1>4. ASSUME NEW c \in Call, c # d, LeaveBatch(c) \/ LeaveSequence(c)
      PROVE  Same(d)
  BY <1>4 DEF LeaveBatch, LeaveSequence, Close
<1>5. UNCHANGED vars => Same(d)
  BY DEF vars
<1> QED
  BY <1>1, <1>2, <1>3, <1>4, <1>5 DEF Next, Move

\* An outcome is never changed.
LEMMA EndedStays ==
  ASSUME StateOK, ResultsInOrder, [Next]_vars, NEW d \in Call, NEW n \in Ended(d)
  PROVE  n \in Ended(d)' /\ step'[d][n] = step[d][n]
<1> USE DEF StateOK, Ended, Outcome
<1>1. CASE Same(d)
  BY <1>1 DEF Same
<1>2. CASE Admit(d) \/ Refuse(d) \/ Turn(d) \/ Start(d)
  BY <1>2 DEF Admit, Refuse, Turn, Start
<1>3. ASSUME NEW i \in Steps(d), Task(d, i) \/ Hang(d, i)
      PROVE  n \in Ended(d)' /\ step'[d][n] = step[d][n]
  BY <1>3 DEF Task, BeginTask, EndTask, Hang, Set
<1>4. CASE BeginStep(d)
  BY <1>4 DEF BeginStep, Set
<1>5. CASE EndStep(d)
  BY <1>5 DEF EndStep, Set, In
<1>6. CASE Join(d) \/ AnswerBatch(d) \/ AnswerSequence(d) \/ LeaveBatch(d)
  BY <1>6 DEF Join, AnswerBatch, AnswerSequence, LeaveBatch
<1>7. CASE LeaveSequence(d)
  BY <1>7 DEF LeaveSequence, Busy, In
<1> QED
  BY <1>1, <1>2, <1>3, <1>4, <1>5, <1>6, <1>7, Others DEF Move, Handler

\* A tool is at work only for a call that was started.
LEMMA UntouchedStep ==
  ASSUME StateOK, Untouched, [Next]_vars
  PROVE  Untouched'
<1> USE DEF Goto, NotStarted
<1> SUFFICES ASSUME NEW d \in Call, status'[d] \in NotStarted
             PROVE  results'[d] = <<>> /\ \A i \in Steps(d) : step'[d][i] = "waiting"
  BY DEF Untouched
<1>1. CASE Same(d)
  BY <1>1 DEF Same, Untouched
<1>2. CASE Admit(d) \/ Refuse(d) \/ Turn(d)
  <2>1. UNCHANGED <<step, results>> /\ status[d] \in NotStarted
    BY <1>2 DEF Admit, Refuse, Turn, Close
  <2> QED
    BY <2>1 DEF Untouched
<1>3. ASSUME NEW i \in Steps(d), Task(d, i) \/ Hang(d, i)
      PROVE  FALSE
  BY <1>3 DEF Task, BeginTask, EndTask, Hang, StateOK, Untouched
<1>4. Move(d) => Admit(d) \/ Refuse(d) \/ Turn(d)
  BY <1>3 DEF Move, Handler, Start, Join, AnswerBatch, BeginStep, EndStep, AnswerSequence,
     LeaveBatch, LeaveSequence, Close, StateOK
<1> QED
  BY <1>1, <1>2, <1>4, Others

\* Who asked for how much does not change.
LEMMA AskedStays == [Next]_vars => asked' = asked
BY DEF Next, Admit, Refuse, Turn, Handler, Start, Join, AnswerBatch, BeginStep, EndStep,
   AnswerSequence, Task, BeginTask, EndTask, Hang, LeaveBatch, LeaveSequence, Close, vars

\* The tools of a call that are at work are finitely many.
LEMMA BusyFinite ==
  ASSUME NEW c \in Call
  PROVE  IsFiniteSet(Busy(c)) /\ Cardinality(Busy(c)) \in Nat
<1>1. IsFiniteSet(Steps(c))
  BY SizeAssumption, FS_Interval DEF Steps
<1> QED
  BY <1>1, FS_Subset, FS_CardinalityType DEF Busy, In

\* A task begins only with a permit of its batch, and keeps it while it hangs.
LEMMA LimitStep ==
  ASSUME StateOK, Untouched, WithinLimit, [Next]_vars
  PROVE  WithinLimit'
<1> USE DEF Goto
<1> SUFFICES ASSUME NEW d \in Batch
             PROVE  /\ Cardinality(Busy(d)') <= limit'[d]
                    /\ limit'[d] = IF status'[d] \in NotStarted THEN 0 ELSE Clamp(asked'[d])
  BY DEF WithinLimit
<1>1. d \in Call /\ d \notin Sequence /\ asked' = asked
  BY CallAssumption, AskedStays DEF Call
<1>2. IsFiniteSet(Busy(d)) /\ Cardinality(Busy(d)) \in Nat
  BY <1>1, BusyFinite
<1>3. /\ Cardinality(Busy(d)) <= limit[d] /\ limit[d] \in Nat
      /\ limit[d] = IF status[d] \in NotStarted THEN 0 ELSE Clamp(asked[d])
  BY InnerAssumption DEF StateOK, WithinLimit
<1>4. CASE /\ \A i \in Steps(d) : step'[d][i] = step[d][i]
           /\ limit'[d] = limit[d]
           /\ status'[d] \in NotStarted <=> status[d] \in NotStarted
  <2>1. Busy(d)' = Busy(d)
    BY <1>4 DEF Busy, In
  <2> QED
    BY <2>1, <1>1, <1>3, <1>4
<1>5. CASE Start(d)
  <2>1. Busy(d)' = {}
    BY <1>5, <1>1 DEF Start, Untouched, NotStarted, Busy, In
  <2>2. limit'[d] = Clamp(asked[d]) /\ Clamp(asked[d]) \in Nat
    <3>1. limit'[d] = Clamp(asked[d])
      BY <1>1, <1>5 DEF Start, StateOK
    <3> QED
      BY <3>1, Clamped
  <2>3. status'[d] = "open"
    BY <1>1, <1>5 DEF Start, StateOK
  <2> QED
    BY <1>1, <2>1, <2>2, <2>3, FS_EmptySet DEF NotStarted
<1>6. ASSUME NEW i \in Steps(d), BeginTask(d, i)
      PROVE  Cardinality(Busy(d)') <= limit'[d]
  <2>1. Busy(d)' = Busy(d) \cup {i} /\ i \notin Busy(d)
    BY <1>1, <1>6 DEF BeginTask, Set, Busy, In, StateOK
  <2>2. Cardinality(Busy(d)') = Cardinality(Busy(d)) + 1
    BY <2>1, <1>2, FS_AddElement
  <2> QED
    BY <2>2, <1>2, <1>3, <1>6 DEF BeginTask
<1>7. ASSUME NEW i \in Steps(d), EndTask(d, i)
      PROVE  Cardinality(Busy(d)') <= limit'[d]
  <2>1. Busy(d)' = Busy(d) \ {i} /\ i \in Busy(d)
    BY <1>1, <1>7 DEF EndTask, Set, Busy, In, StateOK, Outcome
  <2>2. Cardinality(Busy(d)') = Cardinality(Busy(d)) - 1
    BY <2>1, <1>2, FS_RemoveElement
  <2>3. limit' = limit
    BY <1>7 DEF EndTask
  <2> QED
    BY <2>2, <2>3, <1>2, <1>3
<1>8. ASSUME NEW i \in Steps(d), Hang(d, i)
      PROVE  Cardinality(Busy(d)') <= limit'[d]
  <2>1. Busy(d)' = Busy(d)
    BY <1>1, <1>8 DEF Hang, Set, Busy, In, StateOK
  <2> QED
    BY <2>1, <1>3, <1>8 DEF Hang
<1>9. ASSUME NEW i \in Steps(d), Task(d, i) \/ Hang(d, i)
      PROVE  limit' = limit /\ status' = status
  BY <1>9 DEF Task, BeginTask, EndTask, Hang
<1>10. CASE Same(d)
  BY <1>4, <1>10 DEF Same
<1>11. CASE \/ Admit(d) \/ Refuse(d) \/ Turn(d) \/ Join(d) \/ AnswerBatch(d) \/ LeaveBatch(d)
  <2>1. /\ step' = step /\ limit' = limit
        /\ status'[d] \in NotStarted <=> status[d] \in NotStarted
    BY <1>1, <1>11
    DEF Admit, Refuse, Turn, Join, AnswerBatch, LeaveBatch, Close, StateOK, NotStarted
  <2> QED
    BY <1>4, <2>1
<1> QED
  BY <1>1, <1>3, <1>5, <1>6, <1>7, <1>8, <1>9, <1>10, <1>11, Others
  DEF Move, Handler, Task, BeginStep, EndStep, AnswerSequence, LeaveSequence

\* Results are taken one after the other, each when it is there.
LEMMA OrderStep ==
  ASSUME StateOK, ResultsInOrder, [Next]_vars
  PROVE  ResultsInOrder'
<1> SUFFICES ASSUME NEW d \in Call, NEW n \in 1..Len(results'[d])
             PROVE  results'[d][n] = n /\ n \in Ended(d)'
  BY DEF ResultsInOrder
<1>1. CASE results'[d] = results[d]
  BY <1>1, EndedStays DEF ResultsInOrder
<1>2. CASE results'[d] # results[d]
  <2>1. Join(d) \/ EndStep(d)
    BY <1>2, Others DEF Same, Move, Admit, Refuse, Turn, Handler, Start, AnswerBatch,
       BeginStep, AnswerSequence, Task, BeginTask, EndTask, Hang, LeaveBatch, LeaveSequence,
       Close
  <2> DEFINE i == Len(results[d]) + 1
  <2>2. results' = [results EXCEPT ![d] = Append(@, i)]
    BY <2>1 DEF Join, EndStep
  <2>3. results \in [Call -> Seq(Nat)] /\ i \in Nat
    BY DEF StateOK
  <2>4. /\ Len(results'[d]) = i /\ results'[d][i] = i
        /\ \A j \in 1..Len(results[d]) : results'[d][j] = results[d][j]
    BY <2>2, <2>3, ListGrows
  <2>5. i \in Ended(d)'
    <3>1. CASE Join(d)
      BY <3>1, EndedStays DEF Join
    <3>2. CASE EndStep(d)
      <4>1. PICK o \in Outcome : Set(d, i, o)
        BY <3>2 DEF EndStep
      <4>2. i \in Steps(d) /\ o \in Progress
        BY <3>2 DEF EndStep, In, Progress
      <4> QED
        BY <4>1, <4>2, SetMoves DEF Ended
    <3> QED
      BY <2>1, <3>1, <3>2
  <2>6. CASE n = i
    BY <2>4, <2>5, <2>6
  <2>7. CASE n # i
    <3>1. n \in 1..Len(results[d])
      BY <2>3, <2>4, <2>7
    <3> QED
      BY <3>1, <2>4, EndedStays DEF ResultsInOrder
  <2> QED
    BY <2>6, <2>7
<1> QED
  BY <1>1, <1>2

\* What is known of step i of a sequence depends on the results so far.
LEMMA SequenceStep ==
  ASSUME StateOK, Untouched, ResultsInOrder, OneByOne, StopsAtFailure, [Next]_vars
  PROVE  OneByOne'
<1> SUFFICES ASSUME NEW d \in Sequence
             PROVE  /\ prev'[d] = results'[d]
                    /\ \A i \in Steps(d) :
                         /\ i = Len(results'[d]) + 1 =>
                              /\ step'[d][i] \in {"waiting", "running", "hung", "dropped"}
                              /\ step'[d][i] \in {"running", "hung"} => status'[d] = "open"
                         /\ i > Len(results'[d]) + 1 => step'[d][i] = "waiting"
  BY DEF OneByOne
<1>1. d \in Call /\ d \notin Batch /\ Len(results[d]) \in 0..Size[d] /\ Size[d] \in Nat
  BY CallAssumption, SizeAssumption, ResultsFit DEF Call
<1>2. CASE Same(d)
  BY <1>2 DEF Same, OneByOne
<1>3. CASE Admit(d) \/ Refuse(d) \/ Turn(d) \/ Start(d)
  <2>1. UNCHANGED <<step, results, prev>> /\ status[d] # "open"
    BY <1>3 DEF Admit, Refuse, Turn, Start, Close, Goto
  <2> QED
    BY <2>1 DEF OneByOne
<1>4. CASE BeginStep(d)
  <2>1. /\ UNCHANGED <<status, results, prev>> /\ status[d] = "open"
        /\ Len(results[d]) + 1 \in Steps(d)
        /\ Set(d, Len(results[d]) + 1, "running")
    BY <1>1, <1>4, NextStep DEF BeginStep
  <2>2. /\ step'[d][Len(results[d]) + 1] = "running"
        /\ \A j \in Steps(d) : j # Len(results[d]) + 1 => step'[d][j] = step[d][j]
    <3>1. "running" \in Progress
      BY DEF Progress
    <3> QED
      BY <1>1, <2>1, <3>1, SetMoves
  <2> QED
    BY <1>1, <2>1, <2>2 DEF OneByOne, Steps
<1>5. CASE EndStep(d)
  <2> DEFINE i == Len(results[d]) + 1
  <2>1. PICK o \in Outcome : Set(d, i, o)
    BY <1>5 DEF EndStep
  <2>2. i \in Steps(d) /\ o \in Progress
    BY <1>5 DEF EndStep, In, Progress
  <2>3. \A j \in Steps(d) : j # i => step'[d][j] = step[d][j]
    BY <1>1, <2>1, <2>2, SetMoves
  <2>4. /\ prev'[d] = Append(prev[d], i) /\ results'[d] = Append(results[d], i)
        /\ Len(results'[d]) = Len(results[d]) + 1
    BY <1>1, <1>5 DEF EndStep, StateOK
  <2>5. prev'[d] = results'[d]
    BY <2>4 DEF OneByOne
  <2>6. \A j \in Steps(d) : j > i => step'[d][j] = "waiting"
    BY <1>1, <2>2, <2>3 DEF OneByOne, Steps
  <2> QED
    BY <1>1, <2>4, <2>5, <2>6 DEF Steps
<1>6. CASE AnswerSequence(d)
  <2>1. UNCHANGED <<step, results, prev>>
    BY <1>6 DEF AnswerSequence, Close
  <2>2. \A i \in Steps(d) : i = Len(results[d]) + 1 => step[d][i] \notin {"running", "hung"}
    <3> SUFFICES ASSUME NEW i \in Steps(d), i = Len(results[d]) + 1,
                        step[d][i] \in {"running", "hung"}
                 PROVE  FALSE
      OBVIOUS
    <3>1. Len(results[d]) # Size[d]
      BY <1>1 DEF Steps
    <3>2. d \notin persistent /\ Failed(d)
      BY <1>6, <3>1 DEF AnswerSequence, Finished
    <3>3. PICK n \in 1..Len(results[d]) : step[d][n] # "success"
      BY <1>1, <3>2 DEF Failed, ResultsInOrder
    <3>4. n \in 1..(i - 1)
      BY <1>1
    <3> QED
      BY <3>2, <3>3, <3>4 DEF StopsAtFailure
  <2> QED
    BY <2>1, <2>2 DEF OneByOne
<1>7. CASE LeaveSequence(d)
  <2>1. /\ UNCHANGED <<results, prev>>
        /\ \A i \in Steps(d) : step'[d][i] = IF step[d][i] \in {"running", "hung"}
                                                  THEN "dropped" ELSE step[d][i]
    BY <1>1, <1>7 DEF LeaveSequence, Close, StateOK, Busy, In
  <2> QED
    BY <2>1, <1>1 DEF OneByOne
<1>8. ASSUME NEW h \in Steps(d), Hang(d, h)
      PROVE  /\ prev'[d] = results'[d]
             /\ \A i \in Steps(d) :
                  /\ i = Len(results'[d]) + 1 =>
                       /\ step'[d][i] \in {"waiting", "running", "hung", "dropped"}
                       /\ step'[d][i] \in {"running", "hung"} => status'[d] = "open"
                  /\ i > Len(results'[d]) + 1 => step'[d][i] = "waiting"
  <2>1. /\ UNCHANGED <<results, prev, status>> /\ step[d][h] = "running" /\ step'[d][h] = "hung"
        /\ \A j \in Steps(d) : j # h => step'[d][j] = step[d][j]
    <3>1. "hung" \in Progress
      BY DEF Progress
    <3> QED
      BY <1>1, <1>8, <3>1, SetMoves DEF Hang
  <2> QED
    BY <2>1, <1>1 DEF OneByOne
<1> QED
  BY <1>1, <1>2, <1>3, <1>4, <1>5, <1>6, <1>7, <1>8, Others
  DEF Move, Handler, Join, AnswerBatch, Task, BeginTask, EndTask, LeaveBatch

\* A step of a sequence that is no longer waiting was so before, or begins now.
LEMMA Begins ==
  ASSUME StateOK, ResultsInOrder, [Next]_vars, NEW d \in Sequence, NEW i \in Steps(d),
         step'[d][i] # "waiting"
  PROVE  \/ step[d][i] # "waiting" /\ seen'[d][i] = seen[d][i]
         \/ BeginStep(d) /\ i = Len(results[d]) + 1
<1>1. d \in Call /\ d \notin Batch
  BY CallAssumption DEF Call
<1>2. CASE Same(d)
  BY <1>2 DEF Same
<1>3. CASE BeginStep(d)
  <2>1. /\ Len(results[d]) + 1 \in Steps(d)
        /\ Set(d, Len(results[d]) + 1, "running")
        /\ seen' = [seen EXCEPT ![d][Len(results[d]) + 1] = prev[d]]
    BY <1>1, <1>3, NextStep DEF BeginStep
  <2>2. "running" \in Progress
    BY DEF Progress
  <2>3. i # Len(results[d]) + 1 => step'[d][i] = step[d][i] /\ seen'[d][i] = seen[d][i]
    BY <1>1, <2>1, <2>2, SetMoves DEF StateOK
  <2> QED
    BY <1>3, <2>3
<1>4. CASE EndStep(d)
  <2>1. PICK o \in Outcome : Set(d, Len(results[d]) + 1, o)
    BY <1>4 DEF EndStep
  <2>2. /\ Len(results[d]) + 1 \in Steps(d) /\ o \in Progress
        /\ step[d][Len(results[d]) + 1] = "running"
        /\ seen' = seen
    BY <1>4 DEF EndStep, In, Progress
  <2>3. i # Len(results[d]) + 1 => step'[d][i] = step[d][i]
    BY <1>1, <2>1, <2>2, SetMoves
  <2> QED
    BY <2>2, <2>3
<1>5. CASE Admit(d) \/ Refuse(d) \/ Turn(d) \/ Start(d) \/ AnswerSequence(d)
  BY <1>5 DEF Admit, Refuse, Turn, Start, AnswerSequence, Close
<1>6. CASE LeaveSequence(d)
  BY <1>1, <1>6 DEF LeaveSequence, Close, StateOK, Busy, In
<1>7. ASSUME NEW h \in Steps(d), Hang(d, h)
      PROVE  step[d][i] # "waiting" /\ seen'[d][i] = seen[d][i]
  <2>1. "hung" \in Progress /\ step[d][h] = "running" /\ seen' = seen /\ Set(d, h, "hung")
    BY <1>7 DEF Hang, Progress
  <2>2. i # h => step'[d][i] = step[d][i]
    BY <1>1, <2>1, SetMoves
  <2> QED
    BY <2>1, <2>2
<1> QED
  BY <1>1, <1>2, <1>3, <1>4, <1>5, <1>6, <1>7, Others
  DEF Move, Handler, Join, AnswerBatch, Task, BeginTask, EndTask, LeaveBatch

\* A step begins with the outcomes of all steps before it.
LEMMA TemplatesStep ==
  ASSUME StateOK, ResultsInOrder, OneByOne, TemplatesAligned, [Next]_vars
  PROVE  TemplatesAligned'
<1> SUFFICES ASSUME NEW d \in Sequence, NEW i \in Steps(d), step'[d][i] # "waiting"
             PROVE  /\ Len(seen'[d][i]) = i - 1
                    /\ \A j \in 1..(i - 1) : seen'[d][i][j] = j /\ j \in Ended(d)'
  BY DEF TemplatesAligned
<1>1. d \in Call
  BY DEF Call
<1>2. CASE step[d][i] # "waiting" /\ seen'[d][i] = seen[d][i]
  BY <1>1, <1>2, EndedStays DEF TemplatesAligned
<1>3. CASE BeginStep(d) /\ i = Len(results[d]) + 1
  <2>1. seen'[d][i] = results[d]
    BY <1>1, <1>3 DEF BeginStep, OneByOne, StateOK
  <2>2. Len(results[d]) \in Nat
    BY <1>1 DEF StateOK
  <2> QED
    BY <1>1, <1>3, <2>1, <2>2, EndedStays DEF ResultsInOrder
<1> QED
  BY <1>2, <1>3, Begins

\* Without continue_on_error a step begins only after successes.
LEMMA StopsStep ==
  ASSUME StateOK, ResultsInOrder, StopsAtFailure, [Next]_vars
  PROVE  StopsAtFailure'
<1> SUFFICES ASSUME NEW d \in Sequence, d \notin persistent', NEW i \in Steps(d),
                    step'[d][i] # "waiting", NEW j \in 1..(i - 1)
             PROVE  step'[d][j] = "success"
  BY DEF StopsAtFailure
<1>1. d \in Call /\ d \notin persistent /\ i \in 1..Size[d] /\ Size[d] \in Nat
  <2>1. persistent \subseteq persistent'
    BY DEF Next, Admit, Refuse, Turn, Handler, Start, Join, AnswerBatch, BeginStep, EndStep,
       AnswerSequence, Task, BeginTask, EndTask, Hang, LeaveBatch, LeaveSequence, Close, vars
  <2> QED
    BY <2>1, SizeAssumption DEF Call, Steps
<1>2. j \in Steps(d)
  BY <1>1 DEF Steps
<1>3. step[d][j] = "success"
  <2>1. CASE step[d][i] # "waiting"
    BY <1>1, <2>1 DEF StopsAtFailure
  <2>2. CASE BeginStep(d) /\ i = Len(results[d]) + 1
    <3>1. ~Failed(d)
      BY <1>1, <2>2 DEF BeginStep, Finished
    <3>2. j \in 1..Len(results[d])
      BY <1>1, <2>2 DEF StateOK
    <3> QED
      BY <1>1, <3>1, <3>2 DEF Failed, ResultsInOrder
  <2> QED
    BY <2>1, <2>2, Begins
<1> QED
  BY <1>1, <1>2, <1>3, EndedStays DEF Ended, Outcome

\* An answer is given when everything that had to run has its outcome.
LEMMA AnsweredStep ==
  ASSUME StateOK, ResultsInOrder, OneByOne, StopsAtFailure, AnsweredIsComplete, [Next]_vars
  PROVE  AnsweredIsComplete'
<1> SUFFICES ASSUME NEW d \in Call, status'[d] = "answered"
             PROVE  /\ Busy(d)' = {}
                    /\ d \in Batch \cup persistent' => Len(results'[d]) = Size[d]
                    /\ Len(results'[d]) < Size[d] => Failed(d)'
  BY DEF AnsweredIsComplete
<1>1. Len(results[d]) \in 0..Size[d] /\ Size[d] \in Nat
  BY SizeAssumption, ResultsFit
<1>2. CASE Same(d)
  BY <1>2 DEF Same, AnsweredIsComplete, Busy, In, Failed
<1>3. CASE AnswerBatch(d)
  <2>1. UNCHANGED <<step, results>> /\ Len(results[d]) = Size[d]
    BY <1>3 DEF AnswerBatch, Close
  <2>2. Busy(d) = {}
    BY <1>1, <2>1 DEF ResultsInOrder, Busy, In, Ended, Outcome, Steps
  <2> QED
    BY <1>1, <2>1, <2>2 DEF Busy, In
<1>4. CASE AnswerSequence(d)
  <2>1. UNCHANGED <<step, results, persistent>> /\ Finished(d) /\ d \in Sequence /\ d \notin Batch
    BY <1>4, CallAssumption DEF AnswerSequence, Close
  <2>2. Busy(d) = {}
    <3> SUFFICES ASSUME NEW i \in Steps(d), step[d][i] \in {"running", "hung"}
                 PROVE  FALSE
      BY DEF Busy, In
    <3>1. i \in 1..Size[d] /\ i > Len(results[d])
      BY <1>1 DEF Steps, ResultsInOrder, Ended, Outcome
    <3>2. d \notin persistent /\ Failed(d)
      BY <1>1, <2>1, <3>1 DEF Finished
    <3>3. PICK n \in 1..Len(results[d]) : step[d][n] # "success"
      BY <3>2 DEF Failed, ResultsInOrder
    <3>4. n \in 1..(i - 1)
      BY <1>1, <3>1
    <3> QED
      BY <2>1, <3>2, <3>3, <3>4 DEF StopsAtFailure
  <2>3. Failed(d)' <=> Failed(d)
    BY <2>1 DEF Failed
  <2> QED
    BY <1>1, <2>1, <2>2, <2>3 DEF Finished, Busy, In
<1>5. ASSUME NEW i \in Steps(d), Task(d, i) \/ Hang(d, i)
      PROVE  FALSE
  <2>1. status[d] = "answered" /\ step[d][i] = "running"
    BY <1>5 DEF Task, BeginTask, EndTask, Hang
  <2> QED
    BY <2>1 DEF AnsweredIsComplete, Busy, In
<1>6. Move(d) => AnswerBatch(d) \/ AnswerSequence(d)
  BY <1>5 DEF Move, Admit, Refuse, Turn, Handler, Start, Join, BeginStep, EndStep,
     LeaveBatch, LeaveSequence, Close, Goto, StateOK
<1> QED
  BY <1>2, <1>3, <1>4, <1>6, Others

-----------------------------------------------------------------------------
(* The theorems. *)

\* The conjunction of the parts is inductive.
LEMMA Inductive == Spec => []IInv
<1>1. Init => IInv
  <2> SUFFICES ASSUME Init PROVE IInv
    OBVIOUS
  <2> USE DEF Init
  <2>1. TypeOK
    BY ConcurrencyAssumption, InnerAssumption DEF TypeOK, StateOK, Progress, Status
  <2>2. PermitsLeft
    <3>1. Opened = {}
      BY DEF Opened
    <3> QED
      BY <3>1, FS_EmptySet, ConcurrencyAssumption DEF PermitsLeft
  <2>3. WithinLimit
    <3>1. \A c \in Batch : Busy(c) = {} /\ status[c] = "new"
      BY DEF Busy, In, Call
    <3>2. \A c \in Batch : Cardinality(Busy(c)) = 0 /\ limit[c] = 0
      BY <3>1, FS_EmptySet
    <3> QED
      BY <3>1, <3>2 DEF WithinLimit, NotStarted
  <2>4. OneByOne
    BY DEF OneByOne, Call
  <2>5. TemplatesAligned /\ StopsAtFailure
    BY DEF TemplatesAligned, StopsAtFailure, Call
  <2>6. Untouched /\ ResultsInOrder /\ AnsweredIsComplete
    BY DEF Untouched, NotStarted, ResultsInOrder, AnsweredIsComplete
  <2> QED
    BY <2>1, <2>2, <2>3, <2>4, <2>5, <2>6 DEF IInv
<1>2. IInv /\ [Next]_vars => IInv'
  BY StateStep, PermitsStep, UntouchedStep, LimitStep, OrderStep, SequenceStep, TemplatesStep,
     StopsStep, AnsweredStep
  DEF IInv, TypeOK
<1> QED
  BY <1>1, <1>2, PTL DEF Spec

\* Every variable keeps its type, for calls of any sizes.
THEOREM TypeCorrect == Spec => []TypeOK
BY Inductive, PTL DEF IInv

\* The answers of a batch and of a sequence are in the order of the requests.
THEOREM AnswersInOrder == Spec => []ResultsInOrder
BY Inductive, PTL DEF IInv

\* No batch has more tools at work at once than its own request asked for, nor than the
\* clamp allows, whether someone still waits for it or not and whether they hang or not.
THEOREM BatchBounded == Spec => []InnerBound
<1>1. IInv => InnerBound
  <2> SUFFICES ASSUME IInv, NEW c \in Batch
               PROVE  \/ Cardinality(Busy(c)) <= 1
                      \/ Cardinality(Busy(c)) <= asked[c] /\ Cardinality(Busy(c)) <= MaxInner
    BY DEF InnerBound
  <2>1. /\ Cardinality(Busy(c)) <= limit[c] /\ limit[c] \in {0, Clamp(asked[c])}
        /\ asked[c] \in Asked /\ asked[c] \in Nat
    BY InnerAssumption DEF IInv, TypeOK, StateOK, WithinLimit
  <2>2. Cardinality(Busy(c)) \in Nat
    BY BusyFinite DEF Call
  <2>3. PICK n \in Nat : n = limit[c] /\ (n <= 1 \/ (n <= asked[c] /\ n <= MaxInner))
    <3>1. StateOK
      BY DEF IInv, TypeOK
    <3>2. CASE limit[c] = 0
      BY <3>2
    <3>3. CASE limit[c] = Clamp(asked[c])
      BY <3>1, <3>3, Clamped
    <3> QED
      BY <2>1, <3>2, <3>3
  <2> QED
    BY <2>1, <2>2, <2>3, InnerAssumption
<1> QED
  BY <1>1, Inductive, PTL

\* No call is answered while one of its tools runs or an outcome is missing.
THEOREM CompleteWhenAnswered == Spec => []AnsweredIsComplete
BY Inductive, PTL DEF IInv

\* The templates of a step see exactly the outcomes of the steps before it.
THEOREM TemplatesSeeTheirSteps == Spec => []TemplatesAligned
BY Inductive, PTL DEF IInv

\* A sequence without continue_on_error ends at its first step that fails.
THEOREM SequenceStops == Spec => []StopsAtFailure
BY Inductive, PTL DEF IInv
=============================================================================

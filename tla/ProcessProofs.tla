--------------------------- MODULE ProcessProofs ----------------------------
(***************************************************************************)
(* One call of the shell or code tool, for any amount of stdin and output  *)
(* and any size of pipe and limit.  The inductive invariant IInv is in     *)
(* Process; every part of it has a lemma that a step keeps it.             *)
(***************************************************************************)
EXTENDS Process, TLAPS

\* Least is one that is below both.
LEMMA LeastIs ==
  ASSUME NEW m \in Nat, NEW n \in Nat
  PROVE  /\ Least(m, n) \in Nat
         /\ Least(m, n) <= m
         /\ Least(m, n) <= n
BY DEF Least

\* Every step keeps the types.
LEMMA TypeStep ==
  ASSUME TypeOK, [Next]_vars
  PROVE  TypeOK'
<1> USE SizesAssumption DEF TypeOK
<1>1. ASSUME NEW p \in Proc, Consume(p)
      PROVE  TypeOK'
  BY <1>1 DEF Consume, os, reading
<1>2. ASSUME NEW p \in Proc, NEW s \in Stream, Write(p, s)
      PROVE  TypeOK'
  BY <1>2 DEF Write, os, stdin, reading
<1>3. ASSUME NEW p \in Proc, NEW d \in Descriptor, Close(p, d)
      PROVE  TypeOK'
  BY <1>3 DEF Close, stdin, reading
<1>4. ASSUME NEW p \in Proc, Exit(p)
      PROVE  TypeOK'
  BY <1>4 DEF Exit, stdin, reading
<1>5. CASE Fork
  BY <1>5 DEF Fork, stdin, reading, Proc
<1>6. CASE Dies
  BY <1>6 DEF Dies, stdin, reading, Proc
<1>7. CASE Drop
  BY <1>7 DEF Drop, ReapedOrKilled, Outcome, stdin, reading, Proc
<1>8. CASE WriteCodeToFile \/ Fed \/ Cleanup
  BY <1>8 DEF WriteCodeToFile, Fed, Cleanup, os, stdin, reading
<1>9. CASE Spawn
  BY <1>9 DEF Spawn, stdin, reading, Proc, Descriptor
<1>10. CASE SpawnFails \/ Collected \/ Timeout
  BY <1>10 DEF SpawnFails, Collected, Timeout, AfterBackend, ReapedOrKilled, Outcome, os,
              stdin, reading, Proc
<1>11. CASE Feed
  <2>1. PICK n \in 1..Least(unsent, PipeSize - inPipe) :
          unsent' = unsent - n /\ inPipe' = inPipe + n
    BY <1>11 DEF Feed
  <2>2. n \in Nat /\ n <= unsent /\ n <= PipeSize - inPipe
    BY <2>1, LeastIs
  <2> QED
    BY <1>11, <2>1, <2>2 DEF Feed, os, reading
<1>12. ASSUME NEW s \in Stream, Read(s)
       PROVE  TypeOK'
  <2>1. PICK n \in 1..pipe[s] : Take(s, n)
    BY <1>12 DEF Read
  <2>2. n \in Nat /\ n <= pipe[s] /\ Limit - kept[s] \in Nat
    BY DEF Stream
  <2>3. Least(n, Limit - kept[s]) \in Nat /\ Least(n, Limit - kept[s]) <= Limit - kept[s]
    BY <2>2, LeastIs
  <2> QED
    BY <1>12, <2>1, <2>2, <2>3 DEF Read, Take, os, stdin
<1>13. ASSUME NEW s \in Stream, EndOfFile(s) \/ ReadFails(s)
       PROVE  TypeOK'
  BY <1>13 DEF EndOfFile, ReadFails, Ends, os, stdin
<1>14. CASE UNCHANGED vars
  BY <1>14 DEF vars, os, stdin, reading
<1> QED
  BY <1>1, <1>2, <1>3, <1>4, <1>5, <1>6, <1>7, <1>8, <1>9, <1>10, <1>11, <1>12, <1>13, <1>14
  DEF Next, Handler, Outside, Finished

\* Only a write and a read change what is written, in the pipes, or kept.
LEMMA Flow ==
  ASSUME [Next]_vars
  PROVE  \/ UNCHANGED <<pipe, written, kept, truncated>>
         \/ \E p \in Proc, s \in Stream : Write(p, s)
         \/ \E s \in Stream : Read(s)
BY DEF Next, Handler, Outside, Finished, Consume, Close, Exit, Fork, Dies, Drop,
       WriteCodeToFile, Fed, Cleanup, Spawn, SpawnFails, Collected, Timeout, Feed, EndOfFile,
       ReadFails, Ends, vars, os, stdin, reading

\* What has left a pipe is kept or counted as cut, whatever moves.
LEMMA AccountedStep ==
  ASSUME TypeOK, TypeOK', Accounted, [Next]_vars
  PROVE  Accounted'
<1> USE SizesAssumption DEF TypeOK
<1>1. CASE UNCHANGED <<pipe, written, kept, truncated>>
  BY <1>1 DEF Accounted
<1>2. ASSUME NEW p \in Proc, NEW s \in Stream, Write(p, s)
      PROVE  Accounted'
  <2> SUFFICES ASSUME NEW t \in Stream
      PROVE  /\ pipe'[t] <= written'[t]
             /\ kept'[t] = Least(written'[t] - pipe'[t], Limit)
             /\ truncated'[t] <=> (written'[t] - pipe'[t] > Limit)
    BY DEF Accounted
  <2>1. written'[t] - pipe'[t] = written[t] - pipe[t] /\ pipe'[t] <= written'[t]
    BY <1>2 DEF Write, Accounted
  <2>2. kept'[t] = kept[t] /\ truncated'[t] = truncated[t]
    BY <1>2 DEF Write, reading
  <2> QED
    BY <2>1, <2>2 DEF Accounted
<1>3. ASSUME NEW s \in Stream, Read(s)
      PROVE  Accounted'
  <2>1. PICK n \in 1..pipe[s] : Take(s, n)
    BY <1>3 DEF Read
  <2> SUFFICES ASSUME NEW t \in Stream
      PROVE  /\ pipe'[t] <= written'[t]
             /\ kept'[t] = Least(written'[t] - pipe'[t], Limit)
             /\ truncated'[t] <=> (written'[t] - pipe'[t] > Limit)
    BY DEF Accounted
  <2>2. CASE t # s
    BY <1>3, <2>1, <2>2 DEF Read, Take, Accounted
  <2>3. CASE t = s
    <3>1. written'[s] - pipe'[s] = written[s] - pipe[s] + n
      BY <1>3, <2>1 DEF Read, Take
    <3>2. pipe'[s] <= written'[s]
      BY <1>3, <2>1 DEF Read, Take, Accounted
    <3>3. kept'[s] = kept[s] + Least(n, Limit - kept[s])
      BY <2>1 DEF Take
    <3>4. truncated'[s] <=> truncated[s] \/ n > Limit - kept[s]
      BY <2>1 DEF Take
    <3>5. /\ kept[s] = Least(written[s] - pipe[s], Limit)
          /\ truncated[s] <=> (written[s] - pipe[s] > Limit)
          /\ pipe[s] <= written[s]
      BY DEF Accounted
    <3>6. kept'[s] = Least(written'[s] - pipe'[s], Limit)
      BY <3>1, <3>3, <3>5 DEF Least
    <3>7. truncated'[s] <=> (written'[s] - pipe'[s] > Limit)
      BY <3>1, <3>4, <3>5 DEF Least
    <3> QED
      BY <2>3, <3>2, <3>6, <3>7
  <2> QED
    BY <2>2, <2>3
<1> QED
  BY <1>1, <1>2, <1>3, Flow

\* After the spawn no descriptor that is closed everywhere is opened again.
LEMMA ClosedStays ==
  ASSUME TypeOK, [Next]_vars, pc # "spawn", NEW s \in Stream, ~Open(s)
  PROVE  ~Open(s)'
<1> USE DEF TypeOK, Open
<1>1. CASE Fork
  BY <1>1 DEF Fork, Proc
<1>2. ASSUME NEW p \in Proc, NEW d \in Descriptor, Close(p, d)
      PROVE  ~Open(s)'
  BY <1>2 DEF Close
<1>3. ASSUME NEW p \in Proc, Exit(p)
      PROVE  ~Open(s)'
  BY <1>3 DEF Exit
<1>4. CASE Dies
  BY <1>4 DEF Dies, Proc
<1>5. CASE UNCHANGED holds
  BY <1>5
<1> QED
  BY <1>1, <1>2, <1>3, <1>4, <1>5
  DEF Next, Handler, Outside, Finished, Consume, Write, Drop, WriteCodeToFile, Fed, Cleanup,
      Spawn, SpawnFails, Collected, Timeout, Feed, Read, EndOfFile, ReadFails, Ends, vars, os

\* No step opens a write end again.
LEMMA EndStep ==
  ASSUME TypeOK, EndIsFinal, [Next]_vars
  PROVE  EndIsFinal'
<1> SUFFICES ASSUME NEW s \in Stream
    PROVE  /\ reader'[s] = "eof" => pipe'[s] = 0 /\ ~Open(s)'
           /\ reader'[s] # "reading" => pc' \in {"collect", "cleanup", "done"}
  BY DEF EndIsFinal, Open
<1> USE DEF TypeOK
<1>1. CASE reader[s] = "reading"
  <2>1. \/ reader'[s] = "reading"
        \/ reader'[s] = "failed" /\ pc' = "collect"
        \/ reader'[s] = "eof" /\ pipe'[s] = 0 /\ ~Open(s)' /\ pc' = "collect"
    BY <1>1
    DEF Next, Handler, Outside, Finished, Consume, Write, Close, Exit, Fork, Dies, Drop,
        WriteCodeToFile, Fed, Cleanup, Spawn, SpawnFails, Collected, Timeout, Feed, Read,
        EndOfFile, ReadFails, Ends, Open, vars, os, reading
  <2> QED
    BY <2>1
<1>2. CASE reader[s] # "reading"
  <2>1. pc \in {"collect", "cleanup", "done"}
    BY <1>2 DEF EndIsFinal
  <2>2. pc' \in {"collect", "cleanup", "done"}
    BY <2>1
    DEF Next, Handler, Outside, Finished, Consume, Write, Close, Exit, Fork, Dies, Drop,
        WriteCodeToFile, Fed, Cleanup, Spawn, SpawnFails, Collected, Timeout, Feed, Read,
        EndOfFile, ReadFails, Ends, AfterBackend, vars
  <2>3. reader'[s] = reader[s]
    BY <1>2
    DEF Next, Handler, Outside, Finished, Consume, Write, Close, Exit, Fork, Dies, Drop,
        WriteCodeToFile, Fed, Cleanup, Spawn, SpawnFails, Collected, Timeout, Feed, Read,
        EndOfFile, ReadFails, Ends, vars, reading
  <2>4. ASSUME reader[s] = "eof"
        PROVE  pipe'[s] = 0 /\ ~Open(s)'
    <3>1. pipe[s] = 0 /\ ~Open(s)
      BY <2>4 DEF EndIsFinal
    <3>2. ~Open(s)'
      BY <2>1, <3>1, ClosedStays
    <3>3. ASSUME NEW p \in Proc, NEW t \in Stream, Write(p, t)
          PROVE  pipe'[s] = 0
      BY <3>1, <3>3 DEF Write, Open
    <3>4. ASSUME NEW t \in Stream, Read(t)
          PROVE  pipe'[s] = 0
      BY <2>4, <3>1, <3>4 DEF Read, Take
    <3> QED
      BY <3>1, <3>2, <3>3, <3>4, Flow
  <2> QED
    BY <2>2, <2>3, <2>4
<1> QED
  BY <1>1, <1>2

\* An answer has waited for both ends.
LEMMA AnswerStep ==
  ASSUME TypeOK, EndIsFinal, AnswerState, [Next]_vars
  PROVE  AnswerState'
<1> USE DEF TypeOK, AnswerState
<1>1. CASE Collected
  BY <1>1 DEF Collected, AfterBackend, reading
<1>2. CASE SpawnFails \/ Timeout \/ Drop
  BY <1>2 DEF SpawnFails, Timeout, Drop, AfterBackend
<1>3. CASE Cleanup \/ UNCHANGED vars
  BY <1>3 DEF Cleanup, vars, reading
<1>4. ASSUME outcome' = outcome, pc' \in {"cleanup", "done"} <=> pc \in {"cleanup", "done"},
             reader' = reader
      PROVE  AnswerState'
  BY <1>4
<1>5. ASSUME NEW s \in Stream, EndOfFile(s) \/ ReadFails(s)
      PROVE  AnswerState'
  BY <1>5 DEF EndOfFile, ReadFails, Ends
<1> QED
  BY <1>1, <1>2, <1>3, <1>4, <1>5
  DEF Next, Handler, Outside, Finished, Consume, Write, Close, Exit, Fork, Dies,
      WriteCodeToFile, Fed, Spawn, Feed, Read, reading

\* A call that ends has killed its child or seen it dead.
LEMMA ChildStep ==
  ASSUME TypeOK, ChildState, [Next]_vars
  PROVE  ChildState'
<1> USE DEF TypeOK, ChildState, NoOrphan
<1>1. ASSUME NEW p \in Proc, Exit(p)
      PROVE  ChildState'
  BY <1>1 DEF Exit, Proc
<1>2. CASE Fork \/ Dies
  BY <1>2 DEF Fork, Dies, Proc
<1>3. CASE Spawn
  BY <1>3 DEF Spawn, Proc
<1>4. CASE Timeout \/ Drop
  BY <1>4 DEF Timeout, Drop, AfterBackend, ReapedOrKilled, Proc
<1>5. CASE Collected \/ SpawnFails
  BY <1>5 DEF Collected, SpawnFails, AfterBackend, os, Proc
<1> QED
  BY <1>1, <1>2, <1>3, <1>4, <1>5
  DEF Next, Handler, Outside, Finished, Consume, Write, Close, WriteCodeToFile, Fed, Cleanup,
      Feed, Read, EndOfFile, ReadFails, Ends, vars, os

\* The script is removed only when the child is not running any more.
LEMMA ScriptStep ==
  ASSUME TypeOK, ScriptState, [Next]_vars
  PROVE  ScriptState'
<1> USE DEF TypeOK, ScriptState
<1>1. CASE WriteCodeToFile
  BY <1>1 DEF WriteCodeToFile
<1>2. CASE SpawnFails \/ Collected \/ Timeout
  BY <1>2 DEF SpawnFails, Collected, Timeout, AfterBackend
<1>3. CASE Cleanup \/ Drop
  BY <1>3 DEF Cleanup, Drop
<1>4. CASE Spawn \/ Fed
  BY <1>4 DEF Spawn, Fed
<1>5. CASE UNCHANGED <<pc, path, file>>
  BY <1>5
<1> QED
  BY <1>1, <1>2, <1>3, <1>4, <1>5
  DEF Next, Handler, Outside, Finished, Consume, Write, Close, Exit, Fork, Dies, Feed, Read,
      EndOfFile, ReadFails, Ends, vars

\* IInv holds at the start of every call and every step keeps it.
THEOREM Inductive == Spec => []IInv
<1>1. Init => IInv
  <2> SUFFICES ASSUME Init PROVE IInv
    OBVIOUS
  <2> USE SizesAssumption DEF Init
  <2>1. TypeOK
    <3>1. /\ 0 \in 0..PipeSize /\ 0 \in 0..Budget /\ 0 \in 0..Limit
          /\ pc \in {"file", "spawn", "feed", "collect", "cleanup", "done"}
      OBVIOUS
    <3>2. /\ state \in [Proc -> {"absent", "running", "killed", "dead"}]
          /\ holds \in [Proc -> SUBSET Descriptor]
          /\ reader \in [Stream -> {"reading", "eof", "failed"}]
      OBVIOUS
    <3> QED
      BY <3>1, <3>2 DEF TypeOK
  <2>2. Accounted
    BY DEF Accounted, Least
  <2>3. EndIsFinal /\ AnswerState /\ ChildState /\ ScriptState
    BY DEF EndIsFinal, AnswerState, ChildState, NoOrphan, ScriptState, Proc
  <2> QED
    BY <2>1, <2>2, <2>3 DEF IInv
<1>2. IInv /\ [Next]_vars => IInv'
  BY TypeStep, AccountedStep, EndStep, AnswerStep, ChildStep, ScriptStep DEF IInv
<1> QED
  BY <1>1, <1>2, PTL DEF Spec

\* Every variable keeps its type; in particular a reader never holds more than
\* output_limit.
THEOREM TypeCorrect == Spec => []TypeOK
BY Inductive, PTL DEF IInv

\* read_capped: an answer holds what was written, cut at the limit, and says so.
THEOREM OutputIsFaithful == Spec => []OutputFaithful
<1>1. IInv => OutputFaithful
  BY SizesAssumption
  DEF IInv, TypeOK, Accounted, EndIsFinal, AnswerState, OutputFaithful
<1> QED
  BY <1>1, Inductive, PTL

\* The script is on disk while the child that runs it is alive.
THEOREM ScriptStays == Spec => []ScriptThere
<1>1. IInv => ScriptThere
  BY DEF IInv, ChildState, NoOrphan, ScriptState, ScriptThere
<1> QED
  BY <1>1, Inductive, PTL

\* No call ends and leaves its child running without a SIGKILL.
THEOREM ChildrenAreKilled == Spec => []NoOrphan
<1>1. IInv => NoOrphan
  BY DEF IInv, ChildState
<1> QED
  BY <1>1, Inductive, PTL
=============================================================================

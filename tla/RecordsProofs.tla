---------------------------- MODULE RecordsProofs -----------------------------
(***************************************************************************)
(* What the program records of itself, proved for every value of the       *)
(* constants: the audit log, the counters and the trace of an experiment.  *)
(* Each part has its types, its inductive invariant, one lemma per action  *)
(* and its theorems.                                                       *)
(***************************************************************************)
EXTENDS Audit, Counters, Experiment, SequenceTheorems, FiniteSetTheorems, FunctionTheorems, TLAPS

-----------------------------------------------------------------------------
(***************************************************************************)
(* The audit log, for any handlers, any limit and any number of lines,     *)
(* with stats, renames and appends that fail. The log is whole while the   *)
(* jobs are one at a time, which a dropped handler may end; the inductive  *)
(* invariant says where that one job is with respect to the length of the  *)
(* log, and that when jobs that were mixed have all ended the count starts *)
(* anew.                                                                   *)
(***************************************************************************)

AuditShape ==
  /\ log \in Seq(Nat) /\ rotated \in Seq(Nat) /\ lines \in 0..MaxLines
  /\ job \in [Auditors -> {"none", "stat", "rotate", "open", "write"}]
  /\ handle \in [Auditors -> {"log", "rotated", "lost"}]
  /\ audit_lock \in Auditors \cup {NoAuditor}
  /\ waits = (IF audit_lock = NoAuditor THEN {} ELSE {audit_lock})
  /\ \A a \in waits : job[a] # "none"
  /\ mark \in 0..lines /\ mixed \in BOOLEAN

\* There is one job at most, and it writes to the log and rotates a long one.
OneJob ==
  /\ \A a, b \in Auditors : job[a] # "none" /\ job[b] # "none" => a = b
  /\ \A a \in Auditors :
       /\ job[a] = "write" => handle[a] = "log"
       /\ job[a] = "rotate" => Len(log) > MaxAudit

\* The lines of the two files, each counted back from the last line written.
Gapless ==
  /\ \A i \in 1..Len(log) : lines - Len(log) + i > mark => log[i] = lines - Len(log) + i
  /\ \A i \in 1..Len(rotated) :
       lines - Len(log) - Len(rotated) + i > mark =>
         rotated[i] = lines - Len(log) - Len(rotated) + i
  /\ Len(rotated) + Len(log) >= lines - mark \/ Len(rotated) > MaxAudit

AuditIInv == AuditShape /\ (~mixed => OneJob /\ Gapless)

\* The handler that takes the free lock begins a job that is alone, or beside one that
\* is left over.
LEMMA LockStep ==
  ASSUME AuditIInv, NEW a \in Auditors, LockAudit(a)
  PROVE  AuditIInv'
<1>1. AuditShape'
  BY AuditAssumption DEF AuditIInv, AuditShape, LockAudit
<1>2. ASSUME ~mixed' PROVE ~mixed /\ OneJob'
  <2>1. ~mixed /\ \A b \in Auditors : job[b] = "none"
    BY <1>2 DEF AuditIInv, AuditShape, LockAudit, Strays
  <2>2. \A b \in Auditors : job'[b] = (IF b = a THEN "stat" ELSE "none")
    BY <2>1 DEF AuditIInv, AuditShape, LockAudit
  <2> QED
    BY <2>1, <2>2 DEF OneJob, LockAudit
<1>3. ASSUME ~mixed PROVE Gapless'
  BY <1>3 DEF AuditIInv, Gapless, LockAudit
<1> QED
  BY <1>1, <1>2, <1>3 DEF AuditIInv

\* The job reads the length of the log, or cannot.
LEMMA StatStep ==
  ASSUME AuditIInv, NEW a \in Auditors, StatAudit(a)
  PROVE  AuditIInv'
<1>1. AuditShape'
  BY DEF AuditIInv, AuditShape, StatAudit, Job
<1>2. ASSUME ~mixed PROVE OneJob'
  BY <1>2, AuditAssumption DEF AuditIInv, AuditShape, OneJob, StatAudit, Job
<1>3. ASSUME ~mixed PROVE Gapless'
  BY <1>3 DEF AuditIInv, Gapless, StatAudit
<1> QED
  BY <1>1, <1>2, <1>3 DEF AuditIInv, StatAudit

\* A rotation moves the whole log, and no line is lost but those of the old rotation.
LEMMA RotateStep ==
  ASSUME AuditIInv, NEW a \in Auditors, Rotate(a)
  PROVE  AuditIInv'
<1>1. AuditShape'
  <2>1. log' \in Seq(Nat) /\ rotated' \in Seq(Nat)
    <3>1. << >> \in Seq(Nat)
      OBVIOUS
    <3> QED
      BY <3>1 DEF AuditIInv, AuditShape, Rotate
  <2>2. handle' \in [Auditors -> {"log", "rotated", "lost"}]
    <3>1. CASE handle' = [b \in Auditors |->
                 IF job[b] # "write" THEN handle[b]
                 ELSE IF handle[b] = "log" THEN "rotated" ELSE "lost"]
      <4>1. \A b \in Auditors : handle[b] \in {"log", "rotated", "lost"}
        BY DEF AuditIInv, AuditShape
      <4> QED
        BY <3>1, <4>1
    <3> QED
      BY <3>1 DEF AuditIInv, AuditShape, Rotate
  <2> QED
    BY <2>1, <2>2 DEF AuditIInv, AuditShape, Rotate, Job
<1>2. ASSUME ~mixed
      PROVE  OneJob' /\ Gapless'
  <2>1. Len(log) > MaxAudit /\ job[a] = "rotate"
    BY <1>2 DEF AuditIInv, OneJob, Rotate, Job
  <2>2. job' = [job EXCEPT ![a] = "open"] /\ lines' = lines /\ mark' = mark
    BY DEF Rotate, Job
  <2>3. \A b \in Auditors : job'[b] = (IF b = a THEN "open" ELSE "none")
    BY <1>2, <2>1, <2>2 DEF AuditIInv, AuditShape, OneJob
  <2>4. OneJob'
    BY <2>3 DEF OneJob
  <2>5. CASE rotated' = log /\ log' = << >>
    <3>1. /\ Len(log') = 0 /\ Len(rotated') = Len(log) /\ Len(log) \in Nat
          /\ lines \in Nat /\ mark \in Nat
      BY <2>5, AuditAssumption, EmptySeq DEF AuditIInv, AuditShape
    <3>2. \A i \in 1..Len(log) : lines - Len(log) + i > mark => log[i] = lines - Len(log) + i
      BY <1>2 DEF AuditIInv, Gapless
    <3>3. \A i \in 1..Len(log') :
            lines' - Len(log') + i > mark' => log'[i] = lines' - Len(log') + i
      BY <3>1
    <3>4. \A i \in 1..Len(rotated') :
            lines' - Len(log') - Len(rotated') + i > mark' =>
              rotated'[i] = lines' - Len(log') - Len(rotated') + i
      <4> SUFFICES ASSUME NEW i \in 1..Len(log), lines - 0 - Len(log) + i > mark
                   PROVE  log[i] = lines - 0 - Len(log) + i
        BY <2>2, <2>5, <3>1
      <4>1. lines - 0 - Len(log) + i = lines - Len(log) + i
        BY <3>1
      <4> QED
        BY <3>2, <4>1
    <3>5. Len(rotated') > MaxAudit
      BY <2>1, <3>1
    <3> QED
      BY <2>4, <3>3, <3>4, <3>5 DEF Gapless
  <2>6. CASE UNCHANGED <<log, rotated>>
    <3>1. Gapless
      BY <1>2 DEF AuditIInv
    <3>2. Gapless'
      BY <2>2, <2>6, <3>1 DEF Gapless
    <3> QED
      BY <2>4, <3>2
  <2> QED
    BY <2>4, <2>5, <2>6 DEF Rotate
<1> QED
  BY <1>1, <1>2 DEF AuditIInv, Rotate

\* The job opens the log that is there.
LEMMA OpenStep ==
  ASSUME AuditIInv, NEW a \in Auditors, OpenAudit(a)
  PROVE  AuditIInv'
<1>1. AuditShape'
  BY DEF AuditIInv, AuditShape, OpenAudit, Job
<1>2. ASSUME ~mixed PROVE OneJob'
  BY <1>2 DEF AuditIInv, AuditShape, OneJob, OpenAudit, Job
<1>3. ASSUME ~mixed PROVE Gapless'
  BY <1>3 DEF AuditIInv, Gapless, OpenAudit
<1> QED
  BY <1>1, <1>2, <1>3 DEF AuditIInv, OpenAudit

\* When the last job that was mixed ends, no line counts and no job is left.
LEMMA Anew ==
  ASSUME AuditIInv, NEW a \in Auditors, EndsJob(a), mixed, ~mixed', AuditShape'
  PROVE  OneJob' /\ Gapless'
<1>1. \A b \in Auditors : job'[b] = "none"
  BY DEF AuditIInv, AuditShape, EndsJob, Job
<1>2. /\ mark' = lines' /\ lines' \in Nat /\ Len(log') \in Nat /\ Len(rotated') \in Nat
  BY AuditAssumption DEF EndsJob, AuditShape
<1> QED
  BY <1>1, <1>2 DEF OneJob, Gapless

\* The line that is written follows the last one.
LEMMA WriteStep ==
  ASSUME AuditIInv, NEW a \in Auditors, WriteLine(a)
  PROVE  AuditIInv'
<1> USE DEF WriteLine, EndsJob, Job
<1>1. lines \in Nat /\ lines' = lines + 1 /\ lines' \in 0..MaxLines
  BY AuditAssumption DEF AuditIInv, AuditShape
<1>2. log' \in Seq(Nat) /\ rotated' \in Seq(Nat)
  BY <1>1 DEF AuditIInv, AuditShape
<1>3. AuditShape'
  BY <1>1, <1>2 DEF AuditIInv, AuditShape
<1>4. ASSUME ~mixed
      PROVE  OneJob' /\ Gapless'
  <2>1. handle[a] = "log" /\ mark' = mark /\ mark \in Nat
    BY <1>1, <1>4 DEF AuditIInv, AuditShape, OneJob
  <2>2. log' = Append(log, lines') /\ rotated' = rotated
    BY <2>1
  <2>3. /\ Len(log') = Len(log) + 1 /\ log'[Len(log) + 1] = lines'
        /\ \A i \in 1..Len(log) : log'[i] = log[i]
    BY <2>2, <1>1 DEF AuditIInv, AuditShape
  <2>4. \A b \in Auditors : job'[b] = "none"
    BY <1>4 DEF AuditIInv, AuditShape, OneJob
  <2>5. OneJob'
    BY <2>4 DEF OneJob
  <2>6. Len(log) \in Nat /\ Len(rotated) \in Nat
    BY DEF AuditIInv, AuditShape
  <2>7. \A i \in 1..Len(log') : lines' - Len(log') + i > mark' => log'[i] = lines' - Len(log') + i
    <3>1. \A i \in 1..Len(log) : lines - Len(log) + i > mark => log[i] = lines - Len(log) + i
      BY <1>4 DEF AuditIInv, Gapless
    <3> SUFFICES ASSUME NEW i \in 1..(Len(log) + 1), lines' - (Len(log) + 1) + i > mark
                 PROVE  log'[i] = lines' - (Len(log) + 1) + i
      BY <2>1, <2>3
    <3>2. CASE i \in 1..Len(log)
      <4>1. lines' - (Len(log) + 1) + i = lines - Len(log) + i
        BY <1>1, <2>6
      <4>2. log[i] = lines - Len(log) + i
        BY <3>1, <3>2, <4>1
      <4> QED
        BY <2>3, <3>2, <4>1, <4>2
    <3>3. CASE i = Len(log) + 1
      BY <1>1, <2>3, <2>6, <3>3
    <3> QED
      BY <2>6, <3>2, <3>3
  <2>8. \A i \in 1..Len(rotated') :
          lines' - Len(log') - Len(rotated') + i > mark' =>
            rotated'[i] = lines' - Len(log') - Len(rotated') + i
    <3>1. \A i \in 1..Len(rotated) :
            lines - Len(log) - Len(rotated) + i > mark =>
              rotated[i] = lines - Len(log) - Len(rotated) + i
      BY <1>4 DEF AuditIInv, Gapless
    <3> SUFFICES ASSUME NEW i \in 1..Len(rotated),
                        lines' - (Len(log) + 1) - Len(rotated) + i > mark
                 PROVE  rotated[i] = lines' - (Len(log) + 1) - Len(rotated) + i
      BY <2>1, <2>2, <2>3
    <3>2. lines' - (Len(log) + 1) - Len(rotated) + i = lines - Len(log) - Len(rotated) + i
      BY <1>1, <2>6
    <3> QED
      BY <3>1, <3>2
  <2>9. Len(rotated') + Len(log') >= lines' - mark' \/ Len(rotated') > MaxAudit
    <3>1. Len(rotated) + Len(log) >= lines - mark \/ Len(rotated) > MaxAudit
      BY <1>4 DEF AuditIInv, Gapless
    <3> QED
      BY <1>1, <2>1, <2>2, <2>3, <2>6, <3>1
  <2> QED
    BY <2>5, <2>7, <2>8, <2>9 DEF Gapless
<1>5. ASSUME mixed, ~mixed'
      PROVE  OneJob' /\ Gapless'
  BY <1>3, <1>5, Anew
<1> QED
  BY <1>3, <1>4, <1>5 DEF AuditIInv

\* A line that cannot be written ends its job and leaves the log.
LEMMA WriteFailsStep ==
  ASSUME AuditIInv, NEW a \in Auditors, WriteLineFails(a)
  PROVE  AuditIInv'
<1> USE DEF WriteLineFails, EndsJob, Job
<1>1. AuditShape'
  BY AuditAssumption DEF AuditIInv, AuditShape
<1>2. ASSUME ~mixed PROVE OneJob'
  BY <1>2 DEF AuditIInv, AuditShape, OneJob
<1>3. ASSUME ~mixed PROVE Gapless'
  BY <1>3 DEF AuditIInv, Gapless
<1>4. ASSUME mixed, ~mixed'
      PROVE  OneJob' /\ Gapless'
  BY <1>1, <1>4, Anew
<1> QED
  BY <1>1, <1>2, <1>3, <1>4 DEF AuditIInv

\* A handler that leaves its job at work changes no file.
LEMMA LeaveAuditStep ==
  ASSUME AuditIInv, NEW a \in Auditors, LeaveAudit(a)
  PROVE  AuditIInv'
BY AuditAssumption DEF AuditIInv, AuditShape, OneJob, Gapless, LeaveAudit

\* The types, the one job and the log without gaps are inductive together.
LEMMA AuditInductive == AuditSpec => []AuditIInv
<1>1. AuditInit => AuditIInv
  <2> SUFFICES ASSUME AuditInit PROVE AuditIInv
    OBVIOUS
  <2>1. AuditShape
    <3>1. log \in Seq(Nat) /\ rotated \in Seq(Nat)
      BY DEF AuditInit
    <3>2. lines \in 0..MaxLines /\ mark \in 0..lines
      BY AuditAssumption DEF AuditInit
    <3>4. mixed \in BOOLEAN
      BY DEF AuditInit
    <3>3. /\ job \in [Auditors -> {"none", "stat", "rotate", "open", "write"}]
          /\ handle \in [Auditors -> {"log", "rotated", "lost"}]
      BY DEF AuditInit
    <3> QED
      BY <3>1, <3>2, <3>3, <3>4 DEF AuditInit, AuditShape
  <2>2. OneJob
    BY DEF AuditInit, OneJob
  <2>3. Gapless
    <3>1. log = << >> /\ rotated = << >> /\ lines = 0 /\ mark = 0
      BY DEF AuditInit
    <3>2. Len(log) = 0 /\ Len(rotated) = 0
      BY <3>1, EmptySeq
    <3> QED
      BY <3>1, <3>2 DEF Gapless
  <2> QED
    BY <2>1, <2>2, <2>3 DEF AuditIInv
<1>2. AuditIInv /\ [AuditNext]_auditVars => AuditIInv'
  <2>1. ASSUME AuditIInv, UNCHANGED auditVars PROVE AuditIInv'
    BY <2>1 DEF auditVars, AuditIInv, AuditShape, OneJob, Gapless
  <2> QED
    BY <2>1, LockStep, StatStep, RotateStep, OpenStep, WriteStep, WriteFailsStep, LeaveAuditStep
    DEF AuditNext
<1> QED
  BY <1>1, <1>2, PTL DEF AuditSpec

\* The audit keeps its types: the lock is held by the one handler that waits for
\* its job, or by nobody.
THEOREM AuditTypeCorrect == AuditSpec => []AuditTypeOK
<1>1. AuditIInv => AuditTypeOK
  BY DEF AuditIInv, AuditShape, AuditTypeOK
<1> QED
  BY <1>1, AuditInductive, PTL

\* Once the jobs that a dropped handler let run beside others have ended, and whatever
\* fails, audit.jsonl.1 followed by audit.jsonl ends with the lines written since: only
\* a rotation of a whole log that had passed the limit loses any of them.
THEOREM LogIsWhole == AuditSpec => []AuditWhole
<1>1. AuditIInv => AuditWhole
  <2> SUFFICES ASSUME AuditIInv, ~mixed PROVE AuditWhole
    BY DEF AuditWhole
  <2> DEFINE kept == rotated \o log
  <2>1. /\ Len(kept) = Len(rotated) + Len(log) /\ DOMAIN kept = 1..Len(kept)
        /\ \A i \in DOMAIN kept :
             kept[i] = (IF i <= Len(rotated) THEN rotated[i] ELSE log[i - Len(rotated)])
    BY DEF AuditIInv, AuditShape
  <2>2. /\ Len(log) \in Nat /\ Len(rotated) \in Nat /\ lines \in Nat /\ mark \in Nat
        /\ \A i \in 1..Len(log) : lines - Len(log) + i > mark => log[i] = lines - Len(log) + i
        /\ \A i \in 1..Len(rotated) :
             lines - Len(log) - Len(rotated) + i > mark =>
               rotated[i] = lines - Len(log) - Len(rotated) + i
    BY DEF AuditIInv, AuditShape, Gapless
  <2>3. \A i \in DOMAIN kept :
          lines - Len(kept) + i > mark => kept[i] = lines - Len(kept) + i
    <3> SUFFICES ASSUME NEW i \in 1..(Len(rotated) + Len(log)),
                        lines - (Len(rotated) + Len(log)) + i > mark
                 PROVE  kept[i] = lines - (Len(rotated) + Len(log)) + i
      BY <2>1
    <3> HIDE DEF kept
    <3>1. CASE i <= Len(rotated)
      <4>1. lines - Len(log) - Len(rotated) + i = lines - (Len(rotated) + Len(log)) + i
        BY <2>2
      <4>2. rotated[i] = lines - Len(log) - Len(rotated) + i
        BY <2>2, <3>1, <4>1
      <4> QED
        BY <2>1, <2>2, <3>1, <4>1, <4>2
    <3>2. CASE i > Len(rotated)
      <4>1. i - Len(rotated) \in 1..Len(log)
        BY <2>2, <3>2
      <4>2. lines - Len(log) + (i - Len(rotated)) = lines - (Len(rotated) + Len(log)) + i
        BY <2>2
      <4>3. log[i - Len(rotated)] = lines - Len(log) + (i - Len(rotated))
        BY <2>2, <4>1, <4>2
      <4> QED
        BY <2>1, <2>2, <3>2, <4>2, <4>3
    <3> QED
      BY <2>2, <3>1, <3>2
  <2>4. Len(kept) >= lines - mark \/ Len(rotated) > MaxAudit
    BY <2>1 DEF AuditIInv, Gapless
  <2> QED
    BY <2>3, <2>4 DEF AuditWhole
<1> QED
  BY <1>1, AuditInductive, PTL

-----------------------------------------------------------------------------
(***************************************************************************)
(* The counters of /metrics, for any handlers, buckets, requests and       *)
(* scrapes. Between the two additions of an observer the totals do not     *)
(* add up; the inductive invariant counts who is in between: what every    *)
(* observation added to a bucket and what it added to a total differ by    *)
(* the observers that still have one of the two before them. A page is     *)
(* compared with the counters series by series, in the order they are      *)
(* read; of one that nothing overlapped every series is what its counter   *)
(* is.                                                                     *)
(*                                                                         *)
(* The cumulative buckets of two scrapes are compared from the lowest on:  *)
(* that a bucket never goes back needs the sum of the buckets below it in  *)
(* this page to be no smaller than in the last.                            *)
(***************************************************************************)

Succeeded == Total(TRUE)
Failed == Total(FALSE)
Totals == {Total(TRUE), Total(FALSE)}
ByTool == {Tool(TRUE), Tool(FALSE)}
Singles == {Requested} \cup Totals \cup ByTool

\* What is read, and where in the order.
LEMMA ExposedIs ==
  /\ Exposed \in Seq(Series) /\ Len(Exposed) = Buckets + 5 /\ Buckets \in Nat \ {0}
  /\ Exposed[1] = Requested /\ Exposed[2] = Total(TRUE) /\ Exposed[3] = Total(FALSE)
  /\ \A i \in 1..Buckets : Exposed[i + 3] = Bucket(i)
  /\ Exposed[Buckets + 4] = Tool(TRUE) /\ Exposed[Buckets + 5] = Tool(FALSE)
<1> DEFINE head == <<Requested, Total(TRUE), Total(FALSE)>>
           mid == [i \in 1..Buckets |-> Bucket(i)]
           tail == <<Tool(TRUE), Tool(FALSE)>>
           All == Singles \cup Histogram
<1>1. Buckets \in Nat \ {0}
  BY CountersAssumption
<1>2. head \in Seq(All) /\ Len(head) = 3 /\ tail \in Seq(All) /\ Len(tail) = 2
  BY DEF Singles, Totals, ByTool
<1>3. mid \in Seq(All) /\ Len(mid) = Buckets
  <2>1. \A i \in 1..Buckets : mid[i] \in All
    BY DEF Histogram
  <2> QED
    BY <1>1, <2>1, IsASeq
<1>4. /\ head \o mid \in Seq(All) /\ Len(head \o mid) = Buckets + 3
      /\ \A i \in 1..(Buckets + 3) : (head \o mid)[i] = IF i <= 3 THEN head[i] ELSE mid[i - 3]
  <2> HIDE DEF All, head, mid
  <2>1. /\ head \o mid \in Seq(All) /\ Len(head \o mid) = Len(head) + Len(mid)
        /\ \A i \in 1..Len(head) + Len(mid) :
             (head \o mid)[i] = IF i <= Len(head) THEN head[i] ELSE mid[i - Len(head)]
    BY <1>2, <1>3, ConcatProperties
  <2>2. Len(head) + Len(mid) = Buckets + 3 /\ Len(head) = 3
    BY <1>1, <1>2, <1>3
  <2> QED
    BY <2>1, <2>2
<1>5. /\ Exposed \in Seq(All) /\ Len(Exposed) = Buckets + 5
      /\ \A i \in 1..(Buckets + 5) :
           Exposed[i] = IF i <= Buckets + 3 THEN (head \o mid)[i] ELSE tail[i - (Buckets + 3)]
  <2>1. Exposed = (head \o mid) \o tail
    BY DEF Exposed
  <2> DEFINE front == head \o mid
  <2> HIDE DEF All, head, mid, tail, front
  <2>2. front \in Seq(All) /\ Len(front) = Buckets + 3
    BY <1>4 DEF front
  <2>3. Exposed = front \o tail
    BY <2>1 DEF front
  <2>4. /\ front \o tail \in Seq(All) /\ Len(front \o tail) = Len(front) + Len(tail)
        /\ \A i \in 1..Len(front) + Len(tail) :
             (front \o tail)[i] = IF i <= Len(front) THEN front[i] ELSE tail[i - Len(front)]
    <3>1. front \in Seq(All) /\ tail \in Seq(All)
      BY <1>2, <2>2
    <3> QED
      BY <3>1, ConcatProperties, Zenon
  <2>5. Len(front) + Len(tail) = Buckets + 5 /\ Len(front) = Buckets + 3
    BY <1>1, <1>2, <2>2
  <2>6. Exposed \in Seq(All) /\ Len(Exposed) = Buckets + 5
    BY <2>3, <2>4, <2>5
  <2>7. \A i \in 1..(Buckets + 5) :
          Exposed[i] = IF i <= Buckets + 3 THEN front[i] ELSE tail[i - (Buckets + 3)]
    BY <2>3, <2>4, <2>5
  <2> QED
    BY <2>6, <2>7 DEF front
<1>6. Exposed \in Seq(Series)
  <2>1. \A i \in 1..Len(Exposed) : Exposed[i] \in Series
    BY <1>5 DEF Series, Range
  <2>2. Exposed = [i \in 1..Len(Exposed) |-> Exposed[i]] /\ Len(Exposed) \in Nat
    BY <1>5
  <2> QED
    BY <2>1, <2>2, IsASeq
<1>7. Exposed[1] = head[1] /\ Exposed[2] = head[2] /\ Exposed[3] = head[3]
  <2> DEFINE front == head \o mid
  <2> HIDE DEF head, mid, tail, front
  <2>1. \A i \in 1..3 : front[i] = head[i] /\ Exposed[i] = front[i]
    <3>1. \A i \in 1..(Buckets + 3) : front[i] = IF i <= 3 THEN head[i] ELSE mid[i - 3]
      BY <1>4 DEF front
    <3>2. \A i \in 1..(Buckets + 5) :
            Exposed[i] = IF i <= Buckets + 3 THEN front[i] ELSE tail[i - (Buckets + 3)]
      BY <1>5 DEF front
    <3> QED
      BY <1>1, <3>1, <3>2
  <2> QED
    BY <2>1
<1>8. ASSUME NEW i \in 1..Buckets PROVE Exposed[i + 3] = mid[i]
  <2> HIDE DEF head, mid, tail
  <2>1. i + 3 \in 1..(Buckets + 3) /\ ~(i + 3 <= 3) /\ (i + 3) - 3 = i /\ i + 3 \in 1..(Buckets + 5)
    BY <1>1
  <2>2. Exposed[i + 3] = (head \o mid)[i + 3]
    <3>1. i + 3 <= Buckets + 3
      BY <1>1
    <3> QED
      BY <1>5, <2>1, <3>1
  <2> QED
    BY <1>4, <2>1, <2>2
<1>9. Exposed[Buckets + 4] = tail[1] /\ Exposed[Buckets + 5] = tail[2]
  <2> HIDE DEF head, mid, tail
  <2>1. /\ Buckets + 4 \in 1..(Buckets + 5) /\ ~(Buckets + 4 <= Buckets + 3) /\ Buckets + 4 - (Buckets + 3) = 1
        /\ Buckets + 5 \in 1..(Buckets + 5) /\ ~(Buckets + 5 <= Buckets + 3) /\ Buckets + 5 - (Buckets + 3) = 2
    BY <1>1
  <2> DEFINE front == head \o mid
  <2> HIDE DEF front
  <2>2. \A i \in 1..(Buckets + 5) :
          Exposed[i] = IF i <= Buckets + 3 THEN front[i] ELSE tail[i - (Buckets + 3)]
    BY <1>5 DEF front
  <2>3. ASSUME NEW i \in 1..(Buckets + 5), ~(i <= Buckets + 3), NEW k, i - (Buckets + 3) = k
        PROVE  Exposed[i] = tail[k]
    BY <2>2, <2>3
  <2>4. ASSUME NEW m, m = Buckets + 4 PROVE Exposed[m] = tail[1]
    <3>1. m \in 1..(Buckets + 5) /\ ~(m <= Buckets + 3) /\ m - (Buckets + 3) = 1
      BY <1>1, <2>4
    <3> QED
      BY <2>3, <3>1
  <2>5. ASSUME NEW m, m = Buckets + 5 PROVE Exposed[m] = tail[2]
    <3>1. m \in 1..(Buckets + 5) /\ ~(m <= Buckets + 3) /\ m - (Buckets + 3) = 2
      BY <1>1, <2>5
    <3> QED
      BY <2>3, <3>1
  <2> QED
    BY <2>4, <2>5
<1> QED
  BY <1>1, <1>5, <1>6, <1>7, <1>8, <1>9

\* The series are the single ones and the buckets.
LEMMA SeriesAre == Series = Singles \cup Histogram
<1>1. Series = {Exposed[i] : i \in 1..(Buckets + 5)}
  <2>1. DOMAIN Exposed = 1..(Buckets + 5)
    BY ExposedIs
  <2> QED
    BY <2>1 DEF Series, Range
<1>2. \A i \in 1..(Buckets + 5) : Exposed[i] \in Singles \cup Histogram
  <2> SUFFICES ASSUME NEW i \in 1..(Buckets + 5) PROVE Exposed[i] \in Singles \cup Histogram
    OBVIOUS
  <2>1. CASE i \in 1..3 \/ i = Buckets + 4 \/ i = Buckets + 5
    <3>1. Exposed[1] \in Singles /\ Exposed[2] \in Singles /\ Exposed[3] \in Singles
          /\ Exposed[Buckets + 4] \in Singles /\ Exposed[Buckets + 5] \in Singles
      BY ExposedIs DEF Singles, Totals, ByTool
    <3>2. i = 1 \/ i = 2 \/ i = 3 \/ i = Buckets + 4 \/ i = Buckets + 5
      BY <2>1
    <3> QED
      BY <3>1, <3>2
  <2>2. CASE i \in 4..(Buckets + 3)
    <3>1. i - 3 \in 1..Buckets /\ (i - 3) + 3 = i
      BY <2>2, ExposedIs
    <3>2. Exposed[i] = Bucket(i - 3)
      BY <3>1, ExposedIs
    <3> QED
      BY <3>1, <3>2 DEF Histogram
  <2> QED
    BY <2>1, <2>2, ExposedIs
<1>3. ASSUME NEW s \in Singles \cup Histogram PROVE \E i \in 1..(Buckets + 5) : Exposed[i] = s
  <2>1. CASE s \in Histogram
    <3>1. PICK i \in 1..Buckets : s = Bucket(i)
      BY <2>1 DEF Histogram
    <3>2. i + 3 \in 1..(Buckets + 5) /\ Exposed[i + 3] = s
      BY <3>1, ExposedIs
    <3> QED
      BY <3>2
  <2>2. CASE s \in Singles
    <3>1. {1, 2, 3, Buckets + 4, Buckets + 5} \subseteq 1..(Buckets + 5)
      BY ExposedIs
    <3> QED
      BY <2>2, <3>1, ExposedIs DEF Singles, Totals, ByTool
  <2> QED
    BY <2>1, <2>2
<1> QED
  BY <1>1, <1>2, <1>3

\* No two series are the same.
LEMMA SeriesDiffer ==
  /\ \A i, j \in 1..Buckets : Bucket(i) = Bucket(j) => i = j
  /\ \A i \in 1..Buckets : Bucket(i)[2] = i /\ Bucket(i) \in Histogram /\ Bucket(i) \notin Singles
  /\ Requested \notin Totals \cup ByTool /\ Totals \cap ByTool = {}
  /\ \A a, b \in BOOLEAN : (Total(a) = Total(b) => a = b) /\ (Tool(a) = Tool(b) => a = b)
  /\ Singles \cap Histogram = {}
<1>1. \A i, j \in 1..Buckets : Bucket(i) = Bucket(j) => i = j
  BY DEF Bucket
<1>2. \A i \in 1..Buckets : Bucket(i)[2] = i /\ Bucket(i)[1] = "bucket" /\ Bucket(i) \in Histogram
  BY DEF Bucket, Histogram
<1>3. /\ Requested = <<"requests", 0>> /\ Total(TRUE) = <<"success", 0>> /\ Total(FALSE) = <<"failure", 0>>
      /\ Tool(TRUE) = <<"tool success", 0>> /\ Tool(FALSE) = <<"tool failure", 0>>
  BY DEF Requested, Total, Tool
<1>4. /\ Requested[1] = "requests" /\ Total(TRUE)[1] = "success" /\ Total(FALSE)[1] = "failure"
      /\ Tool(TRUE)[1] = "tool success" /\ Tool(FALSE)[1] = "tool failure"
  <2>1. /\ <<"requests", 0>>[1] = "requests" /\ <<"success", 0>>[1] = "success"
        /\ <<"failure", 0>>[1] = "failure" /\ <<"tool success", 0>>[1] = "tool success"
        /\ <<"tool failure", 0>>[1] = "tool failure"
    OBVIOUS
  <2> QED
    BY <1>3, <2>1, Zenon
<1>5. \A s \in Singles : s[1] # "bucket"
  BY <1>4 DEF Singles, Totals, ByTool
<1>6. Requested \notin Totals \cup ByTool /\ Totals \cap ByTool = {}
  BY <1>4 DEF Totals, ByTool
<1>7. Total(TRUE) # Total(FALSE) /\ Tool(TRUE) # Tool(FALSE)
  BY <1>4
<1>8. \A s \in Histogram : s[1] = "bucket"
  BY <1>2 DEF Histogram
<1>9. \A a, b \in BOOLEAN : (Total(a) = Total(b) => a = b) /\ (Tool(a) = Tool(b) => a = b)
  BY <1>7, Zenon
<1>10. Singles \cap Histogram = {}
  BY <1>5, <1>8
<1> QED
  BY <1>1, <1>2, <1>5, <1>6, <1>9, <1>10

\* The observers that have still to add to one of some series.
Pend(C) == {o \in Observers : adding[o] \cap C # {}}

CountersShape ==
  /\ counter \in [Series -> Nat] /\ last \in [Series -> Nat] /\ page \in [DOMAIN page -> Nat]
  /\ DOMAIN page \subseteq Series
  /\ adding \in [Observers -> SUBSET Series]
  /\ observed \in 0..MaxObserved /\ scrapes \in 0..MaxScrapes /\ quiet \in BOOLEAN

\* An observation adds to one total and one bucket at most, and to nothing else but a tool.
OneOfEach ==
  \A o \in Observers : \E ok \in BOOLEAN, i \in 1..Buckets : adding[o] \subseteq Additions(TRUE, ok, i)

\* Counting what is still to be added, the buckets hold as much as the totals; and a
\* page that nothing overlapped shows the sums of the buckets.
Balanced ==
  \E sum \in [0..Buckets -> Nat] :
    /\ sum[0] = 0
    /\ \A i \in 1..Buckets : sum[i] = sum[i - 1] + counter[Bucket(i)]
    /\ sum[Buckets] + Cardinality(Pend(Histogram))
         = counter[Succeeded] + counter[Failed] + Cardinality(Pend(Totals))
    /\ quiet => \A i \in 1..Buckets : Bucket(i) \in DOMAIN page => page[Bucket(i)] = sum[i]

\* Counting what is still to be added, no more outcomes of tools than outcomes.
ToolsBelow ==
  \A ok \in BOOLEAN : counter[Tool(ok)] + Cardinality(Pend({Tool(ok)}))
                        <= counter[Total(ok)] + Cardinality(Pend({Total(ok)}))

QuietPage ==
  quiet => /\ \A o \in Observers : adding[o] = {}
           /\ \A s \in DOMAIN page \cap (Totals \cup ByTool) : page[s] = counter[s]

\* What a page shows of a series is at most what was counted, and at least what the
\* page before it shows; a bucket is shown with those below it.
Ascending ==
  /\ \A s \in Singles : /\ last[s] <= counter[s]
                        /\ s \in DOMAIN page => last[s] <= page[s] /\ page[s] <= counter[s]
  /\ \A i \in 1..Buckets :
       /\ last[Bucket(i)] <= (IF i = 1 THEN 0 ELSE last[Bucket(i - 1)]) + counter[Bucket(i)]
       /\ Bucket(i) \in DOMAIN page =>
            /\ i > 1 => Bucket(i - 1) \in DOMAIN page
            /\ page[Bucket(i)] <= (IF i = 1 THEN 0 ELSE page[Bucket(i - 1)]) + counter[Bucket(i)]
            /\ last[Bucket(i)] <= page[Bucket(i)]

CountersIInv == CountersShape /\ OneOfEach /\ Balanced /\ ToolsBelow /\ QuietPage /\ Ascending

\* Finitely many observers have still to add.
LEMMA PendIsFinite ==
  ASSUME NEW C PROVE IsFiniteSet(Pend(C)) /\ Cardinality(Pend(C)) \in Nat
<1>1. Pend(C) \subseteq Observers
  BY DEF Pend
<1> QED
  BY <1>1, CountersAssumption, FS_Subset, FS_CardinalityType

\* An observer without any additions left takes up some.
LEMMA PendGrows ==
  ASSUME CountersShape, NEW C, NEW o \in Observers, adding[o] = {}, NEW S \in SUBSET Series,
         adding' = [adding EXCEPT ![o] = S]
  PROVE  Cardinality(Pend(C)') = Cardinality(Pend(C)) + (IF S \cap C = {} THEN 0 ELSE 1)
<1>1. adding'[o] = S /\ \A q \in Observers : q # o => adding'[q] = adding[q]
  BY DEF CountersShape
<1>2. o \notin Pend(C)
  BY DEF Pend
<1>3. CASE S \cap C = {}
  <2>1. Pend(C)' = Pend(C)
    BY <1>1, <1>2, <1>3 DEF Pend
  <2> QED
    BY <1>3, <2>1, PendIsFinite
<1>4. CASE S \cap C # {}
  <2>1. Pend(C)' = Pend(C) \cup {o}
    BY <1>1, <1>4 DEF Pend
  <2>2. Cardinality(Pend(C) \cup {o}) = Cardinality(Pend(C)) + 1
    BY <1>2, PendIsFinite, FS_AddElement
  <2> QED
    BY <1>4, <2>1, <2>2
<1> QED
  BY <1>3, <1>4

\* An observer makes one of its additions.
LEMMA PendShrinks ==
  ASSUME CountersShape, NEW C, NEW o \in Observers, NEW s \in adding[o],
         adding' = [adding EXCEPT ![o] = @ \ {s}], adding[o] \cap C \subseteq {s}
  PROVE  Cardinality(Pend(C)') = Cardinality(Pend(C)) - (IF s \in C THEN 1 ELSE 0)
<1>1. adding'[o] = adding[o] \ {s} /\ \A q \in Observers : q # o => adding'[q] = adding[q]
  BY DEF CountersShape
<1>2. CASE s \notin C
  <2>1. Pend(C)' = Pend(C)
    BY <1>1, <1>2 DEF Pend
  <2> QED
    BY <1>2, <2>1, PendIsFinite
<1>3. CASE s \in C
  <2>1. Pend(C)' = Pend(C) \ {o} /\ o \in Pend(C)
    BY <1>1, <1>3 DEF Pend
  <2>2. Cardinality(Pend(C) \ {o}) = Cardinality(Pend(C)) - 1
    BY <2>1, PendIsFinite, FS_RemoveElement
  <2> QED
    BY <1>3, <2>1, <2>2
<1> QED
  BY <1>2, <1>3

\* The series of an observation.
LEMMA AdditionsAre ==
  ASSUME NEW named \in BOOLEAN, NEW ok \in BOOLEAN, NEW i \in 1..Buckets
  PROVE  /\ Additions(named, ok, i) \in SUBSET Series
         /\ Additions(named, ok, i) \subseteq Additions(TRUE, ok, i)
         /\ Additions(named, ok, i) \cap Totals = {Total(ok)}
         /\ Additions(named, ok, i) \cap Histogram = {Bucket(i)}
         /\ Additions(named, ok, i) \cap ByTool = IF named THEN {Tool(ok)} ELSE {}
<1>1. Additions(named, ok, i) = {Total(ok), Bucket(i)} \cup (IF named THEN {Tool(ok)} ELSE {})
  BY DEF Additions
<1>2. Total(ok) \in Totals /\ Tool(ok) \in ByTool /\ Bucket(i) \in Histogram
  BY DEF Totals, ByTool, Histogram
<1>3. /\ Totals \cap ByTool = {} /\ Totals \cap Histogram = {} /\ ByTool \cap Histogram = {}
  BY SeriesDiffer DEF Singles
<1>4. Totals \cup ByTool \cup Histogram \subseteq Series
  BY SeriesAre DEF Singles
<1>5. Additions(TRUE, ok, i) = {Total(ok), Bucket(i), Tool(ok)}
  BY DEF Additions
<1>6. CASE named
  BY <1>1, <1>2, <1>3, <1>4, <1>5, <1>6
<1>7. CASE ~named
  BY <1>1, <1>2, <1>3, <1>4, <1>5, <1>7
<1> QED
  BY <1>6, <1>7

\* A request is counted under no total and no bucket.
LEMMA IncRequestStep ==
  ASSUME CountersIInv, NEW o \in Observers, IncRequest(o) PROVE CountersIInv'
<1>1. counter' = [counter EXCEPT ![Requested] = @ + 1]
      /\ UNCHANGED <<adding, observed, page, last, quiet, scrapes>>
  BY DEF IncRequest
<1>2. Requested \in Series /\ Requested \in Singles /\ counter \in [Series -> Nat]
  BY SeriesAre DEF Singles, CountersIInv, CountersShape
<1>3. /\ counter' \in [Series -> Nat] /\ counter'[Requested] = counter[Requested] + 1
      /\ \A s \in Series : s # Requested => counter'[s] = counter[s]
  BY <1>1, <1>2
<1>4. /\ \A i \in 1..Buckets : counter'[Bucket(i)] = counter[Bucket(i)]
      /\ \A s \in Totals \cup ByTool : counter'[s] = counter[s]
      /\ \A s \in Singles : counter'[s] \in Nat /\ counter[s] \in Nat /\ counter[s] <= counter'[s]
  <2>1. \A i \in 1..Buckets : Bucket(i) # Requested /\ Bucket(i) \in Series
    BY <1>2, SeriesDiffer, SeriesAre
  <2>2. \A s \in Totals \cup ByTool : s # Requested /\ s \in Series
    BY SeriesDiffer, SeriesAre DEF Singles
  <2>3. \A s \in Singles : s \in Series
    BY SeriesAre
  <2> QED
    BY <1>2, <1>3, <2>1, <2>2, <2>3
<1>5. \A C : Pend(C)' = Pend(C)
  BY <1>1 DEF Pend
<1>6. Succeeded \in Totals /\ Failed \in Totals
      /\ \A ok \in BOOLEAN : Total(ok) \in Totals /\ Tool(ok) \in ByTool
  BY DEF Totals, ByTool, Succeeded, Failed
<1>7. CountersShape' /\ OneOfEach'
  BY <1>1, <1>3 DEF CountersIInv, CountersShape, OneOfEach
<1>8. Balanced'
  BY <1>1, <1>4, <1>5, <1>6 DEF CountersIInv, Balanced
<1>9. ToolsBelow'
  BY <1>1, <1>4, <1>5, <1>6 DEF CountersIInv, ToolsBelow
<1>10. QuietPage'
  BY <1>1, <1>4 DEF CountersIInv, QuietPage
<1>11. Ascending'
  <2>1. ASSUME NEW s \in Singles
        PROVE  /\ last'[s] <= counter'[s]
               /\ s \in DOMAIN page' => last'[s] <= page'[s] /\ page'[s] <= counter'[s]
    <3>1. last[s] \in Nat /\ (s \in DOMAIN page => page[s] \in Nat)
      BY SeriesAre DEF CountersIInv, CountersShape
    <3> QED
      BY <1>1, <1>4, <3>1 DEF CountersIInv, Ascending
  <2> QED
    BY <1>1, <1>4, <2>1 DEF CountersIInv, Ascending
<1> QED
  BY <1>7, <1>8, <1>9, <1>10, <1>11 DEF CountersIInv

\* An observer that begins has one total and one bucket still to add to.
LEMMA ObserveStep ==
  ASSUME CountersIInv, NEW o \in Observers, Observe(o) PROVE CountersIInv'
<1>1. /\ adding[o] = {} /\ observed < MaxObserved /\ observed' = observed + 1 /\ quiet' = FALSE
      /\ UNCHANGED <<counter, page, last, scrapes>>
  BY DEF Observe
<1>2. PICK named \in BOOLEAN, ok \in BOOLEAN, i \in 1..Buckets :
        adding' = [adding EXCEPT ![o] = Additions(named, ok, i)]
  <2>1. 1 \in 1..Buckets
    BY CountersAssumption
  <2> QED
    BY <2>1 DEF Observe
<1> DEFINE S == Additions(named, ok, i)
<1>3. /\ S \in SUBSET Series /\ S \subseteq Additions(TRUE, ok, i) /\ S \cap Totals = {Total(ok)}
      /\ S \cap Histogram = {Bucket(i)} /\ S \cap ByTool = IF named THEN {Tool(ok)} ELSE {}
  BY AdditionsAre
<1> HIDE DEF S
<1>4. adding' = [adding EXCEPT ![o] = S]
  BY <1>2 DEF S
<1>5. \A C : Cardinality(Pend(C)') = Cardinality(Pend(C)) + (IF S \cap C = {} THEN 0 ELSE 1)
  BY <1>1, <1>3, <1>4, PendGrows DEF CountersIInv
<1>6. CountersShape'
  <2>1. observed' \in 0..MaxObserved
    BY <1>1, CountersAssumption DEF CountersIInv, CountersShape
  <2> QED
    BY <1>1, <1>3, <1>4, <2>1 DEF CountersIInv, CountersShape
<1>7. OneOfEach'
  BY <1>3, <1>4 DEF CountersIInv, CountersShape, OneOfEach
<1>8. Balanced'
  <2>1. Cardinality(Pend(Histogram)') = Cardinality(Pend(Histogram)) + 1
    BY <1>3, <1>5
  <2>2. Cardinality(Pend(Totals)') = Cardinality(Pend(Totals)) + 1
    BY <1>3, <1>5
  <2>3. PICK sum \in [0..Buckets -> Nat] :
          /\ sum[0] = 0
          /\ \A j \in 1..Buckets : sum[j] = sum[j - 1] + counter[Bucket(j)]
          /\ sum[Buckets] + Cardinality(Pend(Histogram))
               = counter[Succeeded] + counter[Failed] + Cardinality(Pend(Totals))
          /\ quiet => \A j \in 1..Buckets : Bucket(j) \in DOMAIN page => page[Bucket(j)] = sum[j]
    BY DEF CountersIInv, Balanced
  <2>4. counter[Succeeded] \in Nat /\ counter[Failed] \in Nat
        /\ Cardinality(Pend(Histogram)) \in Nat /\ Cardinality(Pend(Totals)) \in Nat
    BY PendIsFinite, SeriesAre DEF CountersIInv, CountersShape, Singles, Totals, Succeeded, Failed
  <2>5. Buckets \in 0..Buckets
    BY CountersAssumption
  <2> QED
    <3>1. sum[Buckets] + Cardinality(Pend(Histogram)')
            = counter[Succeeded] + counter[Failed] + Cardinality(Pend(Totals)')
      <4>1. sum[Buckets] \in Nat
        BY <2>5
      <4>2. sum[Buckets] + Cardinality(Pend(Histogram))
              = counter[Succeeded] + counter[Failed] + Cardinality(Pend(Totals))
        BY <2>3
      <4>3. PICK a \in Nat, b \in Nat, c \in Nat, d \in Nat, e \in Nat :
              /\ a = sum[Buckets] /\ b = Cardinality(Pend(Histogram)) /\ c = counter[Succeeded]
              /\ d = counter[Failed] /\ e = Cardinality(Pend(Totals))
        BY <2>4, <4>1
      <4>4. a + b = c + d + e
        BY <4>2, <4>3
      <4>5. a + (b + 1) = c + d + (e + 1)
        BY <4>4
      <4> QED
        BY <2>1, <2>2, <4>3, <4>5
    <3> QED
      BY <1>1, <2>3, <3>1 DEF Balanced
<1>9. ToolsBelow'
  <2> SUFFICES ASSUME NEW k \in BOOLEAN
               PROVE  counter'[Tool(k)] + Cardinality(Pend({Tool(k)})')
                        <= counter'[Total(k)] + Cardinality(Pend({Total(k)})')
    BY DEF ToolsBelow
  <2>1. S \cap {Tool(k)} # {} => S \cap {Total(k)} # {}
    BY <1>3, SeriesDiffer DEF ByTool, Totals
  <2>2. Cardinality(Pend({Tool(k)})') = Cardinality(Pend({Tool(k)})) + (IF S \cap {Tool(k)} = {} THEN 0 ELSE 1)
    BY <1>5
  <2>3. Cardinality(Pend({Total(k)})') = Cardinality(Pend({Total(k)})) + (IF S \cap {Total(k)} = {} THEN 0 ELSE 1)
    BY <1>5
  <2>4. /\ Cardinality(Pend({Tool(k)})) \in Nat /\ Cardinality(Pend({Total(k)})) \in Nat
        /\ counter[Tool(k)] \in Nat /\ counter[Total(k)] \in Nat
    BY PendIsFinite, SeriesAre DEF CountersIInv, CountersShape, Singles, Totals, ByTool
  <2>5. counter[Tool(k)] + Cardinality(Pend({Tool(k)})) <= counter[Total(k)] + Cardinality(Pend({Total(k)}))
    BY DEF CountersIInv, ToolsBelow
  <2> QED
    BY <1>1, <2>1, <2>2, <2>3, <2>4, <2>5
<1>10. QuietPage' /\ Ascending'
  BY <1>1 DEF CountersIInv, QuietPage, Ascending
<1> QED
  BY <1>6, <1>7, <1>8, <1>9, <1>10 DEF CountersIInv

\* What an addition adds to the counters, one observer less has still to add.
LEMMA AddStep ==
  ASSUME CountersIInv, NEW o \in Observers, Add(o) PROVE CountersIInv'
<1>1. PICK s \in adding[o] : /\ adding' = [adding EXCEPT ![o] = @ \ {s}]
                             /\ counter' = [counter EXCEPT ![s] = @ + 1]
  BY DEF Add
<1>2. UNCHANGED <<observed, page, last, quiet, scrapes>>
  BY DEF Add
<1>3. CountersShape
  BY DEF CountersIInv
<1>4. s \in Series
  BY <1>3 DEF CountersShape
<1>5. /\ counter' \in [Series -> Nat] /\ counter'[s] = counter[s] + 1 /\ counter[s] \in Nat
      /\ \A r \in Series : r # s => counter'[r] = counter[r]
  BY <1>1, <1>3, <1>4 DEF CountersShape
<1>6. CountersShape'
  BY <1>1, <1>2, <1>5 DEF CountersIInv, CountersShape
<1>7. OneOfEach'
  <2>1. \A q \in Observers : adding'[q] \subseteq adding[q]
    BY <1>1, <1>3 DEF CountersShape
  <2> QED
    BY <2>1 DEF CountersIInv, OneOfEach
<1>8. PICK ok \in BOOLEAN, i \in 1..Buckets : adding[o] \subseteq Additions(TRUE, ok, i)
  BY DEF CountersIInv, OneOfEach
<1>9. /\ Additions(TRUE, ok, i) \cap Totals = {Total(ok)}
      /\ Additions(TRUE, ok, i) \cap Histogram = {Bucket(i)}
      /\ Additions(TRUE, ok, i) \cap ByTool = {Tool(ok)}
      /\ Additions(TRUE, ok, i) = {Total(ok), Bucket(i), Tool(ok)}
  <2>1. Additions(TRUE, ok, i) = {Total(ok), Bucket(i), Tool(ok)}
    BY DEF Additions
  <2> QED
    BY <2>1, AdditionsAre
<1>10. \A C \in {Totals, Histogram} \cup {{r} : r \in Series} :
         adding[o] \cap C \subseteq {s} \/ s \notin C
  BY <1>8, <1>9
<1>11. ASSUME NEW C \in {Totals, Histogram} \cup {{r} : r \in Series}
       PROVE  Cardinality(Pend(C)') = Cardinality(Pend(C)) - (IF s \in C THEN 1 ELSE 0)
  <2>1. CASE s \in C
    BY <1>1, <1>3, <1>10, <2>1, PendShrinks
  <2>2. CASE s \notin C
    <3>1. Pend(C)' = Pend(C)
      BY <1>1, <1>3, <2>2 DEF Pend, CountersShape
    <3> QED
      BY <2>2, <3>1, PendIsFinite
  <2> QED
    BY <2>1, <2>2
<1>12. /\ \A r \in Series : counter[r] \in Nat /\ counter'[r] = counter[r] + (IF r = s THEN 1 ELSE 0)
       /\ Succeeded \in Series /\ Failed \in Series /\ Succeeded # Failed
       /\ \A k \in BOOLEAN : Total(k) \in Series /\ Tool(k) \in Series
       /\ \A j \in 1..Buckets : Bucket(j) \in Series
  <2>1. \A r \in Series : counter[r] \in Nat /\ counter'[r] = counter[r] + (IF r = s THEN 1 ELSE 0)
    BY <1>3, <1>5 DEF CountersShape
  <2>2. /\ Total(TRUE) \in Series /\ Total(FALSE) \in Series
        /\ Tool(TRUE) \in Series /\ Tool(FALSE) \in Series
    BY SeriesAre DEF Singles, Totals, ByTool
  <2>3. \A k \in BOOLEAN : Total(k) \in Series /\ Tool(k) \in Series
    BY <2>2, Zenon
  <2>4. \A j \in 1..Buckets : Bucket(j) \in Series
    BY SeriesAre, SeriesDiffer
  <2>5. Succeeded # Failed /\ Succeeded \in Series /\ Failed \in Series
    BY <2>2, SeriesDiffer DEF Succeeded, Failed
  <2> QED
    BY <2>1, <2>3, <2>4, <2>5
<1>13. Balanced'
  <2>1. PICK sum \in [0..Buckets -> Nat] :
          /\ sum[0] = 0
          /\ \A j \in 1..Buckets : sum[j] = sum[j - 1] + counter[Bucket(j)]
          /\ sum[Buckets] + Cardinality(Pend(Histogram))
               = counter[Succeeded] + counter[Failed] + Cardinality(Pend(Totals))
          /\ quiet => \A j \in 1..Buckets : Bucket(j) \in DOMAIN page => page[Bucket(j)] = sum[j]
    BY DEF CountersIInv, Balanced
  <2>2. ~quiet
    BY DEF CountersIInv, QuietPage
  <2>3. Cardinality(Pend(Histogram)') = Cardinality(Pend(Histogram)) - (IF s \in Histogram THEN 1 ELSE 0)
    BY <1>11
  <2>4. Cardinality(Pend(Totals)') = Cardinality(Pend(Totals)) - (IF s \in Totals THEN 1 ELSE 0)
    BY <1>11
  <2>5. /\ Cardinality(Pend(Histogram)) \in Nat /\ Cardinality(Pend(Totals)) \in Nat
        /\ Buckets \in Nat \ {0} /\ counter[Succeeded] \in Nat /\ counter[Failed] \in Nat
    BY <1>12, PendIsFinite, CountersAssumption
  <2>6. counter'[Succeeded] + counter'[Failed]
          = counter[Succeeded] + counter[Failed] + (IF s \in Totals THEN 1 ELSE 0)
    <3>1. s \in Totals <=> s = Succeeded \/ s = Failed
      BY DEF Totals, Succeeded, Failed
    <3>2. /\ counter'[Succeeded] = counter[Succeeded] + (IF Succeeded = s THEN 1 ELSE 0)
          /\ counter'[Failed] = counter[Failed] + (IF Failed = s THEN 1 ELSE 0)
      BY <1>12
    <3> QED
      BY <1>12, <2>5, <3>1, <3>2
  <2>7. CASE s \notin Histogram
    <3>1. \A j \in 1..Buckets : counter'[Bucket(j)] = counter[Bucket(j)]
      BY <1>12, <2>7, SeriesDiffer
    <3>2. sum[Buckets] + Cardinality(Pend(Histogram)')
            = counter'[Succeeded] + counter'[Failed] + Cardinality(Pend(Totals)')
      <4>1. sum[Buckets] \in Nat
        BY <2>5
      <4>2. Cardinality(Pend(Histogram)') = Cardinality(Pend(Histogram))
        BY <2>3, <2>5, <2>7
      <4>3. CASE s \in Totals
        <5>1. /\ Cardinality(Pend(Totals)') = Cardinality(Pend(Totals)) - 1
              /\ counter'[Succeeded] + counter'[Failed] = counter[Succeeded] + counter[Failed] + 1
          BY <2>4, <2>6, <4>3
        <5>2. sum[Buckets] + Cardinality(Pend(Histogram))
                = (counter[Succeeded] + counter[Failed] + 1) + (Cardinality(Pend(Totals)) - 1)
          <6>1. PICK a \in Nat, b \in Nat, c \in Nat, d \in Nat, e \in Nat :
                  /\ a = sum[Buckets] /\ b = Cardinality(Pend(Histogram)) /\ c = counter[Succeeded]
                  /\ d = counter[Failed] /\ e = Cardinality(Pend(Totals))
            BY <2>5, <4>1
          <6>2. sum[Buckets] + Cardinality(Pend(Histogram))
                  = counter[Succeeded] + counter[Failed] + Cardinality(Pend(Totals))
            BY <2>1
          <6>3. a + b = c + d + e
            BY <6>1, <6>2
          <6>4. a + b = (c + d + 1) + (e - 1)
            BY <6>3
          <6> QED
            BY <6>1, <6>4
        <5> QED
          BY <4>2, <5>1, <5>2
      <4>4. CASE s \notin Totals
        BY <2>1, <2>4, <2>5, <2>6, <4>1, <4>2, <4>4
      <4> QED
        BY <4>3, <4>4
    <3> QED
      BY <1>2, <2>1, <2>2, <3>1, <3>2 DEF Balanced
  <2>8. CASE s \in Histogram
    <3>1. PICK k \in 1..Buckets : s = Bucket(k)
      BY <2>8 DEF Histogram
    <3> DEFINE more == [j \in 0..Buckets |-> IF j >= k THEN sum[j] + 1 ELSE sum[j]]
    <3>2. more \in [0..Buckets -> Nat] /\ more[0] = 0 /\ more[Buckets] = sum[Buckets] + 1
      BY <2>1, <2>5
    <3>3. \A j \in 1..Buckets : counter'[Bucket(j)] = counter[Bucket(j)] + (IF j = k THEN 1 ELSE 0)
      BY <1>12, <3>1, SeriesDiffer
    <3>4. \A j \in 1..Buckets : more[j] = more[j - 1] + counter'[Bucket(j)]
      <4> SUFFICES ASSUME NEW j \in 1..Buckets PROVE more[j] = more[j - 1] + counter'[Bucket(j)]
        OBVIOUS
      <4>1. /\ j \in 0..Buckets /\ j - 1 \in 0..Buckets /\ sum[j] \in Nat /\ sum[j - 1] \in Nat
            /\ sum[j] = sum[j - 1] + counter[Bucket(j)] /\ counter[Bucket(j)] \in Nat
        BY <1>12, <2>1, <2>5
      <4>2. /\ more[j] = IF j >= k THEN sum[j] + 1 ELSE sum[j]
            /\ more[j - 1] = IF j - 1 >= k THEN sum[j - 1] + 1 ELSE sum[j - 1]
        BY <4>1
      <4>3. counter'[Bucket(j)] = counter[Bucket(j)] + (IF j = k THEN 1 ELSE 0)
        BY <3>3
      <4> HIDE DEF more
      <4> QED
        BY <4>1, <4>2, <4>3
    <3>5. s \notin Totals
      BY <3>1, SeriesDiffer DEF Singles
    <3>6. more[Buckets] + Cardinality(Pend(Histogram)')
            = counter'[Succeeded] + counter'[Failed] + Cardinality(Pend(Totals)')
      <4>1. sum[Buckets] \in Nat
        BY <2>1, <2>5
      <4> HIDE DEF more
      <4>2. Cardinality(Pend(Histogram)') = Cardinality(Pend(Histogram)) - 1
        BY <2>3, <2>5, <2>8
      <4>3. Cardinality(Pend(Totals)') = Cardinality(Pend(Totals))
        BY <2>4, <2>5, <3>5
      <4>4. counter'[Succeeded] + counter'[Failed] = counter[Succeeded] + counter[Failed]
        BY <2>5, <2>6, <3>5
      <4> QED
        BY <2>1, <2>5, <3>2, <4>1, <4>2, <4>3, <4>4
    <3> HIDE DEF more
    <3> QED
      BY <1>2, <2>2, <3>2, <3>4, <3>6 DEF Balanced
  <2> QED
    BY <2>7, <2>8
<1>14. ToolsBelow'
  <2> SUFFICES ASSUME NEW k \in BOOLEAN
               PROVE  counter'[Tool(k)] + Cardinality(Pend({Tool(k)})')
                        <= counter'[Total(k)] + Cardinality(Pend({Total(k)})')
    BY DEF ToolsBelow
  <2>1. Cardinality(Pend({Tool(k)})') = Cardinality(Pend({Tool(k)})) - (IF s = Tool(k) THEN 1 ELSE 0)
    BY <1>11, <1>12
  <2>2. Cardinality(Pend({Total(k)})') = Cardinality(Pend({Total(k)})) - (IF s = Total(k) THEN 1 ELSE 0)
    BY <1>11, <1>12
  <2>3. /\ Cardinality(Pend({Tool(k)})) \in Nat /\ Cardinality(Pend({Total(k)})) \in Nat
    BY PendIsFinite
  <2>4. counter[Tool(k)] + Cardinality(Pend({Tool(k)})) <= counter[Total(k)] + Cardinality(Pend({Total(k)}))
    BY DEF CountersIInv, ToolsBelow
  <2>5. /\ counter'[Tool(k)] = counter[Tool(k)] + (IF s = Tool(k) THEN 1 ELSE 0) /\ counter[Tool(k)] \in Nat
        /\ counter'[Total(k)] = counter[Total(k)] + (IF s = Total(k) THEN 1 ELSE 0) /\ counter[Total(k)] \in Nat
    BY <1>12
  <2> QED
    BY <2>1, <2>2, <2>3, <2>4, <2>5
<1>15. QuietPage'
  BY <1>2 DEF CountersIInv, QuietPage
<1>16. Ascending'
  <2>1. \A r \in Series : counter[r] \in Nat /\ counter'[r] \in Nat /\ counter[r] <= counter'[r]
    BY <1>12
  <2>2. ASSUME NEW r \in Singles
        PROVE  /\ last'[r] <= counter'[r]
               /\ r \in DOMAIN page' => last'[r] <= page'[r] /\ page'[r] <= counter'[r]
    <3>1. r \in Series /\ last[r] \in Nat /\ (r \in DOMAIN page => page[r] \in Nat)
      BY <1>3, SeriesAre DEF CountersShape
    <3> QED
      BY <1>2, <2>1, <3>1 DEF CountersIInv, Ascending
  <2>3. ASSUME NEW j \in 1..Buckets
        PROVE  /\ last'[Bucket(j)] <= (IF j = 1 THEN 0 ELSE last'[Bucket(j - 1)]) + counter'[Bucket(j)]
               /\ Bucket(j) \in DOMAIN page' =>
                    /\ j > 1 => Bucket(j - 1) \in DOMAIN page'
                    /\ page'[Bucket(j)] <= (IF j = 1 THEN 0 ELSE page'[Bucket(j - 1)]) + counter'[Bucket(j)]
                    /\ last'[Bucket(j)] <= page'[Bucket(j)]
    <3>1. Bucket(j) \in Series /\ (j > 1 => Bucket(j - 1) \in Series)
      <4>1. j > 1 => j - 1 \in 1..Buckets
        BY CountersAssumption
      <4> QED
        BY <1>12, <4>1
    <3>2. /\ last[Bucket(j)] \in Nat /\ (j > 1 => last[Bucket(j - 1)] \in Nat)
          /\ Bucket(j) \in DOMAIN page => page[Bucket(j)] \in Nat
          /\ Bucket(j - 1) \in DOMAIN page => page[Bucket(j - 1)] \in Nat
      BY <1>3, <3>1 DEF CountersShape
    <3>3. counter[Bucket(j)] \in Nat /\ counter'[Bucket(j)] \in Nat /\ counter[Bucket(j)] <= counter'[Bucket(j)]
      BY <2>1, <3>1
    <3>4. /\ last[Bucket(j)] <= (IF j = 1 THEN 0 ELSE last[Bucket(j - 1)]) + counter[Bucket(j)]
          /\ Bucket(j) \in DOMAIN page =>
               /\ j > 1 => Bucket(j - 1) \in DOMAIN page
               /\ page[Bucket(j)] <= (IF j = 1 THEN 0 ELSE page[Bucket(j - 1)]) + counter[Bucket(j)]
               /\ last[Bucket(j)] <= page[Bucket(j)]
      BY DEF CountersIInv, Ascending
    <3> QED
      BY <1>2, <3>2, <3>3, <3>4
  <2> QED
    BY <2>2, <2>3 DEF Ascending
<1> QED
  BY <1>6, <1>7, <1>13, <1>14, <1>15, <1>16 DEF CountersIInv

\* A scrape begins with the page before it, and nothing read.
LEMMA BeginScrapeStep == ASSUME CountersIInv, BeginScrape PROVE CountersIInv'
<1>1. /\ DOMAIN page \in {{}, Series} /\ scrapes < MaxScrapes /\ scrapes' = scrapes + 1
      /\ last' = (IF DOMAIN page = {} THEN last ELSE page)
      /\ page' = [s \in {Requested} |-> counter[s]]
      /\ quiet' = (\A o \in Observers : adding[o] = {})
      /\ UNCHANGED <<counter, adding, observed>>
  BY DEF BeginScrape
<1>2. Requested \in Series /\ Requested \notin Totals \cup ByTool /\ \A i \in 1..Buckets : Requested # Bucket(i)
  BY SeriesAre, SeriesDiffer DEF Singles
<1>3. DOMAIN page' = {Requested} /\ page'[Requested] = counter[Requested]
  BY <1>1
<1>4. CountersShape'
  <2>1. scrapes' \in 0..MaxScrapes
    BY <1>1, CountersAssumption DEF CountersIInv, CountersShape
  <2>2. quiet' \in BOOLEAN
    BY <1>1
  <2>3. last' \in [Series -> Nat]
    <3>1. CASE DOMAIN page = {}
      BY <1>1, <3>1 DEF CountersIInv, CountersShape
    <3>2. CASE DOMAIN page = Series /\ DOMAIN page # {}
      BY <1>1, <3>2 DEF CountersIInv, CountersShape
    <3> QED
      BY <1>1, <3>1, <3>2
  <2>4. page' \in [DOMAIN page' -> Nat] /\ DOMAIN page' \subseteq Series
    BY <1>1, <1>2, <1>3 DEF CountersIInv, CountersShape
  <2> QED
    BY <1>1, <2>1, <2>2, <2>3, <2>4 DEF CountersIInv, CountersShape
<1>5. OneOfEach' /\ ToolsBelow'
  <2>1. \A C : Pend(C)' = Pend(C)
    BY <1>1 DEF Pend
  <2> QED
    BY <1>1, <2>1 DEF CountersIInv, OneOfEach, ToolsBelow
<1>6. Balanced'
  <2>1. Pend(Histogram)' = Pend(Histogram) /\ Pend(Totals)' = Pend(Totals)
    BY <1>1 DEF Pend
  <2> QED
    BY <1>1, <1>2, <1>3, <2>1 DEF CountersIInv, Balanced
<1>7. QuietPage'
  BY <1>1, <1>2, <1>3 DEF QuietPage
<1>8. Ascending'
  <2>1. CASE DOMAIN page = {}
    <3>1. last' = last
      BY <1>1, <2>1
    <3>2. ASSUME NEW s \in Singles
          PROVE  /\ last'[s] <= counter'[s]
                 /\ s \in DOMAIN page' => last'[s] <= page'[s] /\ page'[s] <= counter'[s]
      <4>1. counter[s] \in Nat /\ last[s] \in Nat /\ last[s] <= counter[s]
        BY SeriesAre DEF CountersIInv, CountersShape, Ascending
      <4> QED
        BY <1>1, <1>3, <3>1, <4>1
    <3> QED
      BY <1>1, <1>2, <1>3, <3>1, <3>2 DEF CountersIInv, Ascending
  <2>2. CASE DOMAIN page = Series /\ DOMAIN page # {}
    <3>1. last' = page
      BY <1>1, <2>2
    <3>2. ASSUME NEW s \in Singles
          PROVE  /\ last'[s] <= counter'[s]
                 /\ s \in DOMAIN page' => last'[s] <= page'[s] /\ page'[s] <= counter'[s]
      <4>1. counter[s] \in Nat /\ page[s] \in Nat /\ page[s] <= counter[s]
        BY <2>2, SeriesAre DEF CountersIInv, CountersShape, Ascending
      <4> QED
        BY <1>1, <1>3, <3>1, <4>1
    <3>3. \A i \in 1..Buckets : Bucket(i) \in DOMAIN page
      BY <2>2, SeriesAre, SeriesDiffer
    <3> QED
      BY <1>1, <1>2, <1>3, <3>1, <3>2, <3>3 DEF CountersIInv, Ascending
  <2> QED
    BY <1>1, <2>1, <2>2
<1> QED
  BY <1>4, <1>5, <1>6, <1>7, <1>8 DEF CountersIInv

\* A bucket has one place in the order.
LEMMA PlaceOfBucket ==
  ASSUME NEW i \in 1..Len(Exposed), NEW k \in 1..Buckets, Exposed[i] = Bucket(k)
  PROVE  i = k + 3
<1>1. i \in 1..(Buckets + 5) /\ Exposed[i] \notin Singles
  BY ExposedIs, SeriesDiffer
<1>2. i \notin {1, 2, 3, Buckets + 4, Buckets + 5}
  BY <1>1, ExposedIs DEF Singles, Totals, ByTool
<1>3. i - 3 \in 1..Buckets /\ (i - 3) + 3 = i
  BY <1>1, <1>2, ExposedIs
<1>4. Exposed[i] = Bucket(i - 3)
  BY <1>3, ExposedIs
<1> QED
  BY <1>3, <1>4, SeriesDiffer

\* Reading a series shows its counter, on top of the buckets below.
LEMMA LoadStep == ASSUME CountersIInv, Load PROVE CountersIInv'
<1>1. PICK i \in 2..Len(Exposed) :
        LET read == IF Exposed[i] = Tool(TRUE) THEN {Tool(TRUE), Tool(FALSE)} ELSE {Exposed[i]} IN
        /\ DOMAIN page = {Exposed[j] : j \in 1..(i - 1)}
        /\ page' = [s \in DOMAIN page \cup read |-> IF s \in read THEN Shown(s) ELSE page[s]]
  BY DEF Load
<1> DEFINE read == IF Exposed[i] = Tool(TRUE) THEN {Tool(TRUE), Tool(FALSE)} ELSE {Exposed[i]}
<1>2. UNCHANGED <<counter, adding, observed, last, quiet, scrapes>>
  BY DEF Load
<1>3. /\ DOMAIN page' = DOMAIN page \cup read
      /\ \A s \in read : page'[s] = Shown(s)
      /\ \A s \in DOMAIN page \ read : page'[s] = page[s]
  BY <1>1
<1>4. i \in 1..Len(Exposed) /\ i \in Nat /\ Exposed[i] \in Series
  BY ExposedIs
<1>5. read \subseteq Series
  <2>1. Tool(TRUE) \in Series /\ Tool(FALSE) \in Series
    BY SeriesAre DEF Singles, ByTool
  <2> QED
    BY <1>4, <2>1
<1>6. ASSUME NEW k \in 1..Buckets
      PROVE  /\ Bucket(k) \in read => i = k + 3
             /\ Bucket(k) \in DOMAIN page <=> k + 3 < i
  <2>1. Bucket(k) \notin ByTool /\ k \in Nat
    BY SeriesDiffer DEF Singles
  <2>2. Bucket(k) \in read => Exposed[i] = Bucket(k)
    BY <2>1 DEF ByTool
  <2>3. Bucket(k) \in DOMAIN page => k + 3 < i
    <3>1. ASSUME Bucket(k) \in DOMAIN page PROVE k + 3 < i
      <4>1. PICK j \in 1..(i - 1) : Exposed[j] = Bucket(k)
        BY <1>1, <3>1
      <4>2. j \in 1..Len(Exposed)
        BY <1>4, ExposedIs
      <4>3. j = k + 3
        BY <4>1, <4>2, PlaceOfBucket
      <4> QED
        BY <1>4, <4>3
    <3> QED
      BY <3>1
  <2>4. k + 3 < i => Bucket(k) \in DOMAIN page
    <3>1. ASSUME k + 3 < i PROVE Bucket(k) \in DOMAIN page
      <4>1. k + 3 \in 1..(i - 1)
        BY <1>4, <3>1
      <4>2. Exposed[k + 3] = Bucket(k)
        BY ExposedIs
      <4> QED
        BY <1>1, <4>1, <4>2
    <3> QED
      BY <3>1
  <2> QED
    BY <1>4, <2>2, <2>3, <2>4, PlaceOfBucket
<1> HIDE DEF read
<1>7. ASSUME NEW s \in read, s \in Singles PROVE page'[s] = counter[s]
  BY <1>3, <1>7, SeriesDiffer DEF Shown
<1>8. ASSUME NEW k \in 1..Buckets, Bucket(k) \in read
      PROVE  /\ page'[Bucket(k)] = (IF k > 1 THEN page[Bucket(k - 1)] + counter[Bucket(k)] ELSE counter[Bucket(k)])
             /\ k > 1 => /\ k - 1 \in 1..Buckets /\ Bucket(k - 1) \in DOMAIN page
                         /\ page'[Bucket(k - 1)] = page[Bucket(k - 1)]
             /\ Bucket(k) \notin DOMAIN page
  <2>1. i = k + 3
    BY <1>6, <1>8
  <2>2. page'[Bucket(k)] = (IF k > 1 THEN page[Bucket(k - 1)] + counter[Bucket(k)] ELSE counter[Bucket(k)])
    BY <1>3, <1>8, SeriesDiffer DEF Shown
  <2>3. ASSUME k > 1
        PROVE  /\ k - 1 \in 1..Buckets /\ Bucket(k - 1) \in DOMAIN page
               /\ page'[Bucket(k - 1)] = page[Bucket(k - 1)]
    <3>1. k - 1 \in 1..Buckets /\ (k - 1) + 3 < i /\ i # (k - 1) + 3
      BY <1>4, <2>1, <2>3, CountersAssumption
    <3>2. Bucket(k - 1) \in DOMAIN page /\ Bucket(k - 1) \notin read
      BY <1>6, <3>1
    <3> QED
      BY <1>3, <3>1, <3>2
  <2>4. Bucket(k) \notin DOMAIN page
    BY <1>6, <2>1
  <2> QED
    BY <2>2, <2>3, <2>4
<1>9. ASSUME NEW k \in 1..Buckets, Bucket(k) \in DOMAIN page
      PROVE  /\ page'[Bucket(k)] = page[Bucket(k)]
             /\ k > 1 => /\ k - 1 \in 1..Buckets /\ Bucket(k - 1) \in DOMAIN page
                         /\ page'[Bucket(k - 1)] = page[Bucket(k - 1)]
  <2>1. k + 3 < i /\ Bucket(k) \notin read
    BY <1>6, <1>9, <1>4
  <2>2. ASSUME k > 1
        PROVE  /\ k - 1 \in 1..Buckets /\ Bucket(k - 1) \in DOMAIN page
               /\ page'[Bucket(k - 1)] = page[Bucket(k - 1)]
    <3>1. k - 1 \in 1..Buckets /\ (k - 1) + 3 < i /\ i # (k - 1) + 3
      BY <1>4, <2>1, <2>2, CountersAssumption
    <3>2. Bucket(k - 1) \in DOMAIN page /\ Bucket(k - 1) \notin read
      BY <1>6, <3>1
    <3> QED
      BY <1>3, <3>1, <3>2
  <2> QED
    BY <1>3, <1>9, <2>1, <2>2
<1>10. \A s \in Series : counter[s] \in Nat /\ last[s] \in Nat /\ (s \in DOMAIN page => page[s] \in Nat)
  BY DEF CountersIInv, CountersShape
<1>11. \A k \in 1..Buckets : Bucket(k) \in Series
  BY SeriesAre, SeriesDiffer
<1>12. CountersShape'
  <2>1. \A s \in DOMAIN page' : page'[s] \in Nat
    <3> SUFFICES ASSUME NEW s \in DOMAIN page' PROVE page'[s] \in Nat
      OBVIOUS
    <3>1. CASE s \in read /\ s \in Singles
      BY <1>5, <1>7, <1>10, <3>1
    <3>2. CASE s \in read /\ s \in Histogram
      <4>1. PICK k \in 1..Buckets : s = Bucket(k)
        BY <3>2 DEF Histogram
      <4>2. counter[Bucket(k)] \in Nat /\ (k > 1 => page[Bucket(k - 1)] \in Nat)
        BY <1>8, <1>10, <1>11, <3>2, <4>1
      <4> QED
        BY <1>8, <3>2, <4>1, <4>2
    <3>3. CASE s \notin read
      BY <1>3, <3>3 DEF CountersIInv, CountersShape
    <3> QED
      BY <1>5, <3>1, <3>2, <3>3, SeriesAre
  <2>2. page' \in [DOMAIN page' -> Nat]
    <3>1. page' = [s \in DOMAIN page' |-> page'[s]]
      BY <1>1
    <3> QED
      BY <2>1, <3>1
  <2>3. DOMAIN page' \subseteq Series
    BY <1>3, <1>5 DEF CountersIInv, CountersShape
  <2> QED
    BY <1>2, <2>2, <2>3 DEF CountersIInv, CountersShape
<1>13. OneOfEach' /\ ToolsBelow'
  <2>1. \A C : Pend(C)' = Pend(C)
    BY <1>2 DEF Pend
  <2> QED
    BY <1>2, <2>1 DEF CountersIInv, OneOfEach, ToolsBelow
<1>14. Balanced'
  <2>1. Pend(Histogram)' = Pend(Histogram) /\ Pend(Totals)' = Pend(Totals)
    BY <1>2 DEF Pend
  <2>2. PICK sum \in [0..Buckets -> Nat] :
          /\ sum[0] = 0
          /\ \A j \in 1..Buckets : sum[j] = sum[j - 1] + counter[Bucket(j)]
          /\ sum[Buckets] + Cardinality(Pend(Histogram))
               = counter[Succeeded] + counter[Failed] + Cardinality(Pend(Totals))
          /\ quiet => \A j \in 1..Buckets : Bucket(j) \in DOMAIN page => page[Bucket(j)] = sum[j]
    BY DEF CountersIInv, Balanced
  <2>3. ASSUME quiet, NEW k \in 1..Buckets, Bucket(k) \in DOMAIN page'
        PROVE  page'[Bucket(k)] = sum[k]
    <3>1. CASE Bucket(k) \in DOMAIN page
      BY <1>9, <2>2, <2>3, <3>1
    <3>2. CASE Bucket(k) \in read /\ k > 1
      <4>1. k - 1 \in 1..Buckets /\ page[Bucket(k - 1)] = sum[k - 1]
        BY <1>8, <2>2, <2>3, <3>2
      <4> QED
        BY <1>8, <2>2, <3>2, <4>1
    <3>3. CASE Bucket(k) \in read /\ k = 1
      <4>1. sum[1] = sum[1 - 1] + counter[Bucket(1)]
        BY <2>2, <3>3
      <4>2. counter[Bucket(1)] \in Nat /\ sum[1 - 1] = 0
        BY <1>10, <1>11, <2>2, <3>3
      <4>3. sum[1] = counter[Bucket(1)]
        BY <4>1, <4>2
      <4> QED
        BY <1>8, <3>3, <4>3
    <3> QED
      BY <1>3, <2>3, <3>1, <3>2, <3>3
  <2> QED
    BY <1>2, <2>1, <2>2, <2>3 DEF Balanced
<1>15. QuietPage'
  <2> SUFFICES ASSUME quiet PROVE \A s \in DOMAIN page' \cap (Totals \cup ByTool) : page'[s] = counter[s]
    BY <1>2 DEF CountersIInv, QuietPage
  <2>1. Totals \cup ByTool \subseteq Singles
    BY DEF Singles
  <2> QED
    BY <1>3, <1>7, <2>1 DEF CountersIInv, QuietPage
<1>16. Ascending'
  <2>1. ASSUME NEW s \in Singles
        PROVE  /\ last'[s] <= counter'[s]
               /\ s \in DOMAIN page' => last'[s] <= page'[s] /\ page'[s] <= counter'[s]
    <3>1. s \in Series /\ counter[s] \in Nat /\ last[s] \in Nat /\ last[s] <= counter[s]
      BY <1>10, SeriesAre DEF CountersIInv, Ascending
    <3>2. CASE s \in read
      BY <1>2, <1>7, <3>1, <3>2
    <3>3. CASE s \notin read
      BY <1>2, <1>3, <3>1, <3>3 DEF CountersIInv, Ascending
    <3> QED
      BY <3>2, <3>3
  <2>2. ASSUME NEW k \in 1..Buckets
        PROVE  /\ last'[Bucket(k)] <= (IF k = 1 THEN 0 ELSE last'[Bucket(k - 1)]) + counter'[Bucket(k)]
               /\ Bucket(k) \in DOMAIN page' =>
                    /\ k > 1 => Bucket(k - 1) \in DOMAIN page'
                    /\ page'[Bucket(k)] <= (IF k = 1 THEN 0 ELSE page'[Bucket(k - 1)]) + counter'[Bucket(k)]
                    /\ last'[Bucket(k)] <= page'[Bucket(k)]
    <3>1. /\ last[Bucket(k)] <= (IF k = 1 THEN 0 ELSE last[Bucket(k - 1)]) + counter[Bucket(k)]
          /\ Bucket(k) \in DOMAIN page =>
               /\ k > 1 => Bucket(k - 1) \in DOMAIN page
               /\ page[Bucket(k)] <= (IF k = 1 THEN 0 ELSE page[Bucket(k - 1)]) + counter[Bucket(k)]
               /\ last[Bucket(k)] <= page[Bucket(k)]
      BY DEF CountersIInv, Ascending
    <3>2. CASE Bucket(k) \in DOMAIN page
      <4>1. last' = last /\ counter' = counter /\ DOMAIN page \subseteq DOMAIN page'
        BY <1>2, <1>3
      <4>2. /\ page'[Bucket(k)] = page[Bucket(k)]
            /\ k > 1 => page'[Bucket(k - 1)] = page[Bucket(k - 1)] /\ Bucket(k - 1) \in DOMAIN page
        BY <1>9, <3>2
      <4>3. CASE k = 1
        BY <3>1, <3>2, <4>1, <4>2, <4>3
      <4>4. CASE k > 1
        BY <3>1, <3>2, <4>1, <4>2, <4>4
      <4> QED
        BY <4>3, <4>4
    <3>3. CASE Bucket(k) \in read /\ k > 1
      <4>1. /\ k - 1 \in 1..Buckets /\ Bucket(k - 1) \in DOMAIN page /\ page'[Bucket(k - 1)] = page[Bucket(k - 1)]
            /\ page'[Bucket(k)] = page[Bucket(k - 1)] + counter[Bucket(k)]
        BY <1>8, <3>3
      <4>2. /\ page[Bucket(k - 1)] \in Nat /\ counter[Bucket(k)] \in Nat /\ last[Bucket(k)] \in Nat
            /\ last[Bucket(k - 1)] \in Nat
        BY <1>10, <1>11, <4>1
      <4>3. last[Bucket(k - 1)] <= page[Bucket(k - 1)]
        BY <4>1 DEF CountersIInv, Ascending
      <4>4. last[Bucket(k)] <= last[Bucket(k - 1)] + counter[Bucket(k)]
        BY <3>1, <3>3
      <4>5. last[Bucket(k)] <= page[Bucket(k - 1)] + counter[Bucket(k)]
        BY <4>2, <4>3, <4>4
      <4>6. page'[Bucket(k)] <= page'[Bucket(k - 1)] + counter[Bucket(k)]
        BY <4>1, <4>2
      <4> QED
        BY <1>2, <1>3, <3>1, <3>3, <4>1, <4>5, <4>6
    <3>4. CASE Bucket(k) \in read /\ k = 1
      <4>1. page'[Bucket(1)] = counter[Bucket(1)]
        BY <1>8, <3>4
      <4>2. counter[Bucket(1)] \in Nat /\ last[Bucket(1)] \in Nat
        BY <1>10, <1>11, <3>4
      <4> QED
        BY <1>2, <3>1, <3>4, <4>1, <4>2
    <3>5. CASE Bucket(k) \notin DOMAIN page'
      BY <1>2, <3>1, <3>5
    <3> QED
      BY <1>3, <3>2, <3>3, <3>4, <3>5
  <2> QED
    BY <2>1, <2>2 DEF Ascending
<1> QED
  BY <1>12, <1>13, <1>14, <1>15, <1>16 DEF CountersIInv

\* At the start nothing was counted, nothing is to be added, no page was read.
LEMMA CountersInitially == CountersInit => CountersIInv
<1> SUFFICES ASSUME CountersInit PROVE CountersIInv
  OBVIOUS
<1>1. /\ \A s \in Series : counter[s] = 0 /\ last[s] = 0
      /\ \A o \in Observers : adding[o] = {} /\ quiet = TRUE /\ DOMAIN page = {}
      /\ quiet = TRUE /\ DOMAIN page = {}
  BY DEF CountersInit
<1>2. \A C : Pend(C) = {}
  BY <1>1 DEF Pend
<1>3. Cardinality({}) = 0
  BY FS_EmptySet
<1>4. CountersShape
  <2>1. page \in [{} -> Nat]
    BY DEF CountersInit
  <2>2. observed \in 0..MaxObserved /\ scrapes \in 0..MaxScrapes
    BY CountersAssumption DEF CountersInit
  <2>3. counter \in [Series -> Nat] /\ last \in [Series -> Nat] /\ adding \in [Observers -> SUBSET Series]
    BY DEF CountersInit
  <2> QED
    BY <1>1, <2>1, <2>2, <2>3 DEF CountersShape
<1>5. OneOfEach
  <2>1. TRUE \in BOOLEAN /\ 1 \in 1..Buckets
    BY CountersAssumption
  <2> QED
    BY <1>1, <2>1 DEF OneOfEach
<1>6. /\ Succeeded \in Series /\ Failed \in Series
      /\ \A k \in BOOLEAN : Total(k) \in Series /\ Tool(k) \in Series
      /\ \A i \in 1..Buckets : Bucket(i) \in Series
  <2>1. /\ Total(TRUE) \in Series /\ Total(FALSE) \in Series
        /\ Tool(TRUE) \in Series /\ Tool(FALSE) \in Series
    BY SeriesAre DEF Singles, Totals, ByTool
  <2>2. \A k \in BOOLEAN : Total(k) \in Series /\ Tool(k) \in Series
    BY <2>1, Zenon
  <2> QED
    BY <2>1, <2>2, SeriesAre, SeriesDiffer DEF Succeeded, Failed
<1>7. Balanced
  <2> DEFINE sum == [j \in 0..Buckets |-> 0]
  <2>1. sum \in [0..Buckets -> Nat] /\ sum[0] = 0 /\ sum[Buckets] = 0
    BY CountersAssumption
  <2>2. \A j \in 1..Buckets : sum[j] = sum[j - 1] + counter[Bucket(j)]
    <3> SUFFICES ASSUME NEW j \in 1..Buckets PROVE sum[j] = sum[j - 1] + counter[Bucket(j)]
      OBVIOUS
    <3>1. j \in 0..Buckets /\ j - 1 \in 0..Buckets /\ counter[Bucket(j)] = 0
      BY <1>1, <1>6, CountersAssumption
    <3> QED
      BY <3>1
  <2>3. sum[Buckets] + Cardinality(Pend(Histogram)) = counter[Succeeded] + counter[Failed] + Cardinality(Pend(Totals))
    <3>1. /\ Cardinality(Pend(Histogram)) = 0 /\ Cardinality(Pend(Totals)) = 0
          /\ counter[Succeeded] = 0 /\ counter[Failed] = 0
      BY <1>1, <1>2, <1>3, <1>6
    <3> QED
      BY <2>1, <3>1
  <2> HIDE DEF sum
  <2> QED
    BY <1>1, <2>1, <2>2, <2>3 DEF Balanced
<1>8. ToolsBelow
  <2> SUFFICES ASSUME NEW k \in BOOLEAN
               PROVE  counter[Tool(k)] + Cardinality(Pend({Tool(k)})) <= counter[Total(k)] + Cardinality(Pend({Total(k)}))
    BY DEF ToolsBelow
  <2>1. /\ Cardinality(Pend({Tool(k)})) = 0 /\ Cardinality(Pend({Total(k)})) = 0
        /\ counter[Tool(k)] = 0 /\ counter[Total(k)] = 0
    BY <1>1, <1>2, <1>3, <1>6
  <2> QED
    BY <2>1
<1>9. QuietPage
  BY <1>1 DEF QuietPage
<1>10. Ascending
  <2>1. \A s \in Singles : last[s] = 0 /\ counter[s] = 0
    BY <1>1, SeriesAre
  <2>2. ASSUME NEW k \in 1..Buckets
        PROVE  last[Bucket(k)] <= (IF k = 1 THEN 0 ELSE last[Bucket(k - 1)]) + counter[Bucket(k)]
    <3>1. last[Bucket(k)] = 0 /\ counter[Bucket(k)] = 0
      BY <1>1, <1>6
    <3>2. k # 1 => last[Bucket(k - 1)] = 0
      <4>1. k # 1 => k - 1 \in 1..Buckets
        BY CountersAssumption
      <4> QED
        BY <1>1, <1>6, <4>1
    <3> QED
      BY <3>1, <3>2
  <2> QED
    BY <1>1, <2>1, <2>2 DEF Ascending
<1> QED
  BY <1>4, <1>5, <1>7, <1>8, <1>9, <1>10 DEF CountersIInv

\* What the counters amount to and what the pages show are inductive together.
LEMMA CountersInductive == CountersSpec => []CountersIInv
<1>1. CountersIInv /\ UNCHANGED countersVars => CountersIInv'
  <2> SUFFICES ASSUME CountersIInv, UNCHANGED countersVars PROVE CountersIInv'
    OBVIOUS
  <2>1. \A C : Pend(C)' = Pend(C)
    BY DEF Pend, countersVars
  <2> QED
    BY <2>1 DEF countersVars, CountersIInv, CountersShape, OneOfEach, Balanced, ToolsBelow, QuietPage, Ascending
<1>2. CountersIInv /\ CountersNext => CountersIInv'
  BY BeginScrapeStep, LoadStep, IncRequestStep, ObserveStep, AddStep DEF CountersNext
<1> QED
  BY <1>1, <1>2, CountersInitially, PTL DEF CountersSpec

\* Counters are numbers, and observations add to known series.
THEOREM CountersTypeCorrect == CountersSpec => []CountersTypeOK
<1>1. CountersIInv => CountersTypeOK
  BY DEF CountersIInv, CountersShape, CountersTypeOK
<1> QED
  BY <1>1, CountersInductive, PTL

\* No scrape goes back, and one that nothing overlapped adds up, for any number of
\* handlers, buckets, requests and scrapes.
THEOREM QuietScrapesAreExact == CountersSpec => []QuietScrapesAgree
<1>1. CountersIInv => QuietScrapesAgree
  <2> SUFFICES ASSUME CountersIInv, DOMAIN page = Series
               PROVE  /\ \A s \in Series : page[s] >= last[s]
                      /\ quiet => /\ page[Total(TRUE)] + page[Total(FALSE)] = page[Infinity]
                                  /\ \A ok \in BOOLEAN : page[Tool(ok)] <= page[Total(ok)]
    BY DEF QuietScrapesAgree
  <2>1. \A s \in Series : page[s] \in Nat /\ last[s] \in Nat /\ counter[s] \in Nat
    BY DEF CountersIInv, CountersShape
  <2>2. \A s \in Series : page[s] >= last[s]
    <3> SUFFICES ASSUME NEW s \in Series PROVE page[s] >= last[s]
      OBVIOUS
    <3>1. last[s] <= page[s]
      BY SeriesAre DEF CountersIInv, Ascending, Histogram
    <3> QED
      BY <2>1, <3>1
  <2>3. ASSUME quiet
        PROVE  /\ page[Total(TRUE)] + page[Total(FALSE)] = page[Infinity]
               /\ \A ok \in BOOLEAN : page[Tool(ok)] <= page[Total(ok)]
    <3>1. \A C : Cardinality(Pend(C)) = 0
      <4>1. \A C : Pend(C) = {}
        BY <2>3 DEF CountersIInv, QuietPage, Pend
      <4> QED
        BY <4>1, FS_EmptySet
    <3>2. \A s \in Totals \cup ByTool : s \in Series /\ page[s] = counter[s]
      BY <2>3, SeriesAre DEF CountersIInv, QuietPage, Singles
    <3>3. Buckets \in 1..Buckets /\ Bucket(Buckets) \in Series
      BY CountersAssumption, SeriesAre, SeriesDiffer
    <3>4. page[Infinity] = counter[Succeeded] + counter[Failed]
      <4>1. PICK sum \in [0..Buckets -> Nat] :
              /\ sum[Buckets] + Cardinality(Pend(Histogram))
                   = counter[Succeeded] + counter[Failed] + Cardinality(Pend(Totals))
              /\ page[Bucket(Buckets)] = sum[Buckets]
        BY <2>3, <3>3 DEF CountersIInv, Balanced
      <4>2. sum[Buckets] + 0 = counter[Succeeded] + counter[Failed] + 0 /\ sum[Buckets] \in Nat
        BY <3>1, <3>3, <4>1
      <4>3. counter[Succeeded] \in Nat /\ counter[Failed] \in Nat
        BY <2>1, <3>2 DEF Totals, Succeeded, Failed
      <4> QED
        BY <4>1, <4>2, <4>3 DEF Infinity
    <3>5. page[Total(TRUE)] = counter[Succeeded] /\ page[Total(FALSE)] = counter[Failed]
      BY <3>2 DEF Totals, Succeeded, Failed
    <3>6. ASSUME NEW ok \in BOOLEAN PROVE page[Tool(ok)] <= page[Total(ok)]
      <4>1. counter[Tool(ok)] + 0 <= counter[Total(ok)] + 0
        <5>1. counter[Tool(ok)] + Cardinality(Pend({Tool(ok)}))
                <= counter[Total(ok)] + Cardinality(Pend({Total(ok)}))
          BY DEF CountersIInv, ToolsBelow
        <5>2. Cardinality(Pend({Tool(ok)})) = 0 /\ Cardinality(Pend({Total(ok)})) = 0
          BY <3>1
        <5> QED
          BY <5>1, <5>2, Zenon
      <4>2. Tool(ok) \in ByTool /\ Total(ok) \in Totals
        BY Zenon DEF ByTool, Totals
      <4>3. counter[Tool(ok)] \in Nat /\ counter[Total(ok)] \in Nat
        BY <2>1, <3>2, <4>2
      <4> QED
        BY <3>2, <4>1, <4>2, <4>3
    <3> QED
      BY <3>4, <3>5, <3>6
  <2> QED
    BY <2>2, <2>3
<1> QED
  BY <1>1, CountersInductive, PTL

-----------------------------------------------------------------------------
(***************************************************************************)
(* The recording of an experiment, for any turns, any number of hand-      *)
(* offs, any sequences and any line that cannot be written. What the       *)
(* analysis says is about the file; the invariant is about all lines, the  *)
(* ones that are still in the buffer included, and the file is how they    *)
(* begin. It says how many lines of each type there are (from the          *)
(* tallies), that an end has one start before it and a start at most one   *)
(* end (from where each turn is), and what of a sequence is written while  *)
(* it goes on.                                                             *)
(***************************************************************************)

CallIds == {"task", "id", "call", "call_s", "once"} \X Nat \X Nat
RecordedOperations == ({"requested"} \X Nat) \cup (STRING \X (STRING \cup {"none"})) \cup {NoOp}
Events == [type : EventTypes, call : CallIds, op : RecordedOperations, success : BOOLEAN,
           parent : 0..MaxHandoffs]
Turn == [kind : Kinds \cup {"none"}, at : {"idle", "open", "start", "run", "complete", "close"},
         n : 0..MaxHandoffs, steps : Seq(STRING \X STRING), i : Nat,
         results : Seq(BOOLEAN), answer : Seq(BOOLEAN)]
Tallies == [ran : Nat, failed : Nat, visible : Nat, verified : Nat]

\* What was appended, written or not.
Lines == trace \o buffer

\* Where a hand-off may be.  The results of a bounded sequence are those of the steps
\* before this one, which all succeeded, and from "complete" on that of this one.
HandShape(h) ==
  /\ h.at = "idle" => h.steps = << >> /\ h.results = << >>
  /\ h.at # "idle" =>
       /\ h.kind \in Kinds /\ h.n \in 1..handoffs /\ h.i \in 1..Len(h.steps)
       /\ h.kind \in {"execute", "once", "verification"} => Len(h.steps) = 1
  /\ h.at \in {"open", "close"} => h.kind = "bounded"
  /\ h.at \in {"open", "start", "run"} =>
       Len(h.results) = IF h.kind = "bounded" THEN h.i - 1 ELSE 0
  /\ h.at = "run" /\ h.kind # "bounded" => h.i = 1
  /\ h.at \in {"complete", "close"} => h.i <= Len(h.results) /\ Len(h.results) <= Len(h.steps)
  /\ h.at \in {"complete", "close"} /\ h.kind = "bounded" => Len(h.results) = h.i
  /\ h.kind = "bounded" => \A k \in DOMAIN h.results : k < h.i => h.results[k]

ExperimentShape ==
  /\ trace \in Seq(Events) /\ buffer \in Seq(Events) /\ trace # << >> /\ trace[1] = TaskStarted
  /\ turn \in [Turns -> Turn] /\ \A t \in Turns : HandShape(turn[t])
  /\ handoffs \in 0..MaxHandoffs /\ faults \in 0..MaxFaults
  /\ tally \in Tallies

\* The places of some events, and how many there are.
Places(events, kept) == {i \in DOMAIN events : events[i] \in kept}
Times(events, kept) == Cardinality(Places(events, kept))

Ran == {e \in Events : e.type = "completed"}
RanBadly == {e \in Ran : ~e.success}
RanAlone == {e \in Ran : e.parent = 0}
Ended == {e \in Events : e.type = "sequence_completed"}
Checked == {e \in Events : e.type = "verification_completed"}
StartsOf(id) == {e \in Events : e.type = "started" /\ e.call = id}
EndsOf(id) == {e \in Ran : e.call = id}
StepsOf(n) == {e \in Ran : e.parent = n}

\* The tally is what the metrics would be of everything that was appended.
Tallied ==
  /\ tally.ran = Times(Lines, Ran)
  /\ tally.failed = Times(Lines, RanBadly)
  /\ tally.visible = Times(Lines, Ended) + Times(Lines, RanAlone)
  /\ tally.verified = Times(Lines, Checked)

\* The calls of a hand-off that have started and not completed.
Pending(h) ==
  {CallId(h, i) : i \in
     IF h.kind = "verification" \/ h.at \in {"idle", "open", "close"} THEN {}
     ELSE CASE h.at = "start" -> IF h.kind = "bounded" THEN {} ELSE 1..(h.i - 1)
            [] h.at = "run" -> IF h.kind = "bounded" THEN {h.i} ELSE 1..Len(h.steps)
            [] h.at = "complete" -> h.i..Len(h.results)}

Waiting(id) == {t \in Turns : id \in Pending(turn[t])}

\* At every event, a call has started as often as it has completed and as it is pending.
Matched ==
  \A id \in CallIds :
    /\ \A n \in DOMAIN Lines :
         Times(SubSeq(Lines, 1, n), EndsOf(id)) <= Times(SubSeq(Lines, 1, n), StartsOf(id))
    /\ Times(Lines, EndsOf(id)) + Cardinality(Waiting(id)) <= Times(Lines, StartsOf(id))

\* What the steps of a bounded sequence have left in some lines while it goes on, and when
\* it closes.
StepsSoFar(h, written) ==
  LET steps == Places(written, StepsOf(h.n)) IN
  h.kind = "bounded" /\ h.at # "idle" =>
    /\ h.at # "close" => /\ Cardinality(steps) = h.i - 1
                         /\ \A i \in steps : written[i].success
    /\ h.at = "close" => /\ \A i, j \in steps : i < j => written[i].success
                         /\ SequenceSuccess(h) <=>
                              Cardinality(steps) = Len(h.steps) /\ \A i \in steps : written[i].success

\* No two hand-offs that go on have the same number, none has one that is still to come,
\* and the end of every sequence agrees with its steps.
Sequenced ==
  /\ \A s, t \in Turns : s # t /\ turn[s].at # "idle" /\ turn[t].at # "idle" => turn[s].n # turn[t].n
  /\ \A i \in DOMAIN Lines : Lines[i].parent <= handoffs
  /\ \A t \in Turns : StepsSoFar(turn[t], Lines)
  /\ \A n \in DOMAIN Lines :
       Lines[n].type = "sequence_completed" => StepsMakeSequence(SubSeq(Lines, 1, n))

ExperimentIInv == ExperimentShape /\ Tallied /\ Matched /\ Sequenced

-----------------------------------------------------------------------------
(* Places.                                                                  *)

\* The places of some events are finitely many.
LEMMA PlacesAreFinite ==
  ASSUME NEW S, NEW s \in Seq(S), NEW kept
  PROVE  /\ Places(s, kept) \subseteq 1..Len(s) /\ Len(s) \in Nat /\ DOMAIN s = 1..Len(s)
         /\ IsFiniteSet(DOMAIN s) /\ IsFiniteSet(Places(s, kept)) /\ Times(s, kept) \in Nat
<1>1. Len(s) \in Nat /\ DOMAIN s = 1..Len(s)
  OBVIOUS
<1>2. Places(s, kept) \in SUBSET (1..Len(s))
  BY <1>1 DEF Places
<1>3. IsFiniteSet(1..Len(s))
  <2>1. 1 \in Int /\ Len(s) \in Int
    BY <1>1
  <2> QED
    BY <2>1, FS_Interval
<1>4. IsFiniteSet(Places(s, kept))
  BY <1>2, <1>3, FS_Subset
<1> QED
  BY <1>1, <1>2, <1>3, <1>4, FS_CardinalityType DEF Times

\* An append adds one place or none.
LEMMA PlacesGrow ==
  ASSUME NEW S, NEW s \in Seq(S), NEW e \in S, NEW kept
  PROVE  /\ e \in kept => /\ Places(Append(s, e), kept) = Places(s, kept) \cup {Len(s) + 1}
                          /\ Times(Append(s, e), kept) = Times(s, kept) + 1
         /\ e \notin kept => /\ Places(Append(s, e), kept) = Places(s, kept)
                             /\ Times(Append(s, e), kept) = Times(s, kept)
<1> DEFINE r == Append(s, e)
<1>1. Len(s) \in Nat /\ DOMAIN s = 1..Len(s)
  OBVIOUS
<1>2. /\ r \in Seq(S) /\ Len(r) = Len(s) + 1
      /\ r[Len(s) + 1] = e /\ \A i \in 1..Len(s) : r[i] = s[i]
  BY AppendProperties
<1> HIDE DEF r
<1>3. DOMAIN r = 1..(Len(s) + 1)
  BY <1>2
<1>4. \A i \in DOMAIN r : i \in DOMAIN s \/ i = Len(s) + 1
  BY <1>1, <1>3
<1>5. DOMAIN s \subseteq DOMAIN r /\ Len(s) + 1 \in DOMAIN r /\ Len(s) + 1 \notin DOMAIN s
  BY <1>1, <1>3
<1>6. CASE e \in kept
  <2>1. Places(r, kept) = Places(s, kept) \cup {Len(s) + 1}
    <3>1. \A i \in DOMAIN s : i \in DOMAIN r /\ r[i] = s[i]
      BY <1>1, <1>2, <1>5
    <3>2. r[Len(s) + 1] \in kept /\ Len(s) + 1 \in DOMAIN r
      BY <1>2, <1>5, <1>6
    <3> QED
      BY <1>4, <3>1, <3>2, Zenon DEF Places
  <2>2. Len(s) + 1 \notin Places(s, kept)
    BY <1>5 DEF Places
  <2>3. Times(r, kept) = Times(s, kept) + 1
    BY <2>1, <2>2, FS_AddElement, PlacesAreFinite DEF Times
  <2> QED
    BY <1>6, <2>1, <2>3 DEF r
<1>7. CASE e \notin kept
  <2>1. Places(r, kept) = Places(s, kept)
    <3>1. \A i \in DOMAIN s : i \in DOMAIN r /\ r[i] = s[i]
      BY <1>1, <1>2, <1>5
    <3>2. r[Len(s) + 1] \notin kept
      BY <1>2, <1>7
    <3> QED
      BY <1>4, <3>1, <3>2, Zenon DEF Places
  <2> QED
    BY <1>7, <2>1 DEF r, Times
<1> QED
  BY <1>6, <1>7

\* No fewer places for more events, in a longer sequence.
LEMMA PlacesOfPrefix ==
  ASSUME NEW S, NEW s \in Seq(S), NEW n \in 1..Len(s), NEW kept
  PROVE  /\ SubSeq(s, 1, n) \in Seq(S) /\ Len(SubSeq(s, 1, n)) = n
         /\ \A i \in 1..n : SubSeq(s, 1, n)[i] = s[i]
         /\ Times(SubSeq(s, 1, n), kept) <= Times(s, kept)
<1> DEFINE r == SubSeq(s, 1, n)
<1>1. Len(s) \in Nat /\ DOMAIN s = 1..Len(s) /\ n \in Int /\ 1 \in Int
  OBVIOUS
<1>2. \A i \in 1..n : s[i] \in S
  BY <1>1
<1>3. /\ r \in Seq(S) /\ Len(r) = IF 1 <= n THEN n - 1 + 1 ELSE 0
      /\ \A i \in 1..(n - 1 + 1) : r[i] = s[1 + i - 1]
  BY <1>1, <1>2, SubSeqProperties
<1> HIDE DEF r
<1>4. Len(r) = n /\ \A i \in 1..n : r[i] = s[i]
  BY <1>1, <1>3
<1>5. Places(r, kept) \in SUBSET Places(s, kept)
  <2>1. DOMAIN r = 1..n
    BY <1>3, <1>4
  <2>2. 1..n \subseteq DOMAIN s
    BY <1>1
  <2> QED
    BY <1>4, <2>1, <2>2 DEF Places
<1>6. Times(r, kept) <= Times(s, kept)
  BY <1>5, PlacesAreFinite, FS_Subset DEF Times
<1> QED
  BY <1>3, <1>4, <1>6 DEF r

\* The prefixes of a sequence that grows are those it had, and itself.
LEMMA PrefixesGrow ==
  ASSUME NEW S, NEW s \in Seq(S), NEW e \in S, NEW n \in DOMAIN Append(s, e)
  PROVE  \/ n \in DOMAIN s /\ SubSeq(Append(s, e), 1, n) = SubSeq(s, 1, n)
            /\ Append(s, e)[n] = s[n]
         \/ n = Len(s) + 1 /\ SubSeq(Append(s, e), 1, n) = Append(s, e)
<1> DEFINE r == Append(s, e)
<1>1. Len(s) \in Nat /\ DOMAIN s = 1..Len(s)
  OBVIOUS
<1>2. /\ r \in Seq(S) /\ Len(r) = Len(s) + 1
      /\ r[Len(s) + 1] = e /\ \A i \in 1..Len(s) : r[i] = s[i]
  BY AppendProperties
<1>3. <<e>> \in Seq(S) /\ r = s \o <<e>>
  BY AppendIsConcat
<1>4. n \in 1..(Len(s) + 1)
  BY <1>1, <1>2
<1>5. CASE n = Len(s) + 1
  BY <1>2, <1>5, SubSeqFull
<1>6. CASE n \in 1..Len(s)
  <2>1. 1 \in 1..Len(s)
    BY <1>1, <1>6
  <2>2. SubSeq(s \o <<e>>, 1, n) = SubSeq(s, 1, n)
    BY <1>3, <1>6, <2>1, SubSeqOfConcat1
  <2> QED
    BY <1>1, <1>2, <1>3, <1>6, <2>2
<1> QED
  BY <1>1, <1>4, <1>5, <1>6

\* What is appended is the last line, written or not.
LEMMA EmitAppends ==
  ASSUME ExperimentShape, NEW e \in Events, Emit(e)
  PROVE  /\ Lines \in Seq(Events) /\ Lines' = Append(Lines, e)
         /\ trace' \in Seq(Events) /\ buffer' \in Seq(Events)
         /\ trace' # << >> /\ trace'[1] = TaskStarted /\ faults' \in 0..MaxFaults
<1>1. /\ trace \in Seq(Events) /\ buffer \in Seq(Events) /\ trace # << >> /\ trace[1] = TaskStarted
      /\ faults \in 0..MaxFaults
  BY DEF ExperimentShape
<1>2. /\ trace \o buffer \in Seq(Events) /\ Len(trace \o buffer) = Len(trace) + Len(buffer)
      /\ \A i \in 1..Len(trace) + Len(buffer) : (trace \o buffer)[i] =
           IF i <= Len(trace) THEN trace[i] ELSE buffer[i - Len(trace)]
  BY <1>1, ConcatProperties
<1>3. Len(trace) \in Nat \ {0} /\ Len(buffer) \in Nat
  BY <1>1, EmptySeq
<1>4. trace \o buffer # << >> /\ (trace \o buffer)[1] = TaskStarted
  <2>1. 1 \in 1..Len(trace) + Len(buffer) /\ 1 <= Len(trace)
    BY <1>3
  <2>2. (trace \o buffer)[1] = TaskStarted
    BY <1>1, <1>2, <2>1
  <2>3. Len(trace \o buffer) # 0
    BY <1>2, <1>3
  <2> QED
    BY <2>2, <2>3, EmptySeq
<1>5. CASE /\ trace' = Append(trace \o buffer, e) /\ buffer' = << >> /\ UNCHANGED faults
  <2>1. trace' \in Seq(Events) /\ trace' # << >> /\ trace'[1] = TaskStarted
    <3>1. 1 \in 1..Len(trace \o buffer)
      BY <1>2, <1>3
    <3> HIDE DEF ExperimentShape
    <3> QED
      BY <1>2, <1>4, <1>5, <3>1, AppendProperties
  <2>2. trace' \o buffer' = trace'
    BY <1>5, <2>1, ConcatEmptySeq
  <2> QED
    BY <1>1, <1>2, <1>5, <2>1, <2>2 DEF Lines
<1>6. CASE /\ faults < MaxFaults /\ faults' = faults + 1
           /\ buffer' = Append(buffer, e) /\ UNCHANGED trace
  <2>1. buffer' \in Seq(Events) /\ <<e>> \in Seq(Events) /\ buffer' = buffer \o <<e>>
    BY <1>1, <1>6, AppendProperties, AppendIsConcat
  <2>2. trace \o (buffer \o <<e>>) = (trace \o buffer) \o <<e>>
    BY <1>1, <2>1, ConcatAssociative
  <2>3. Append(trace \o buffer, e) = (trace \o buffer) \o <<e>>
    BY <1>2, AppendIsConcat
  <2>4. faults' \in 0..MaxFaults
    BY <1>1, <1>6, ExperimentAssumption
  <2> QED
    BY <1>1, <1>2, <1>6, <2>1, <2>2, <2>3, <2>4 DEF Lines
<1> QED
  BY <1>5, <1>6 DEF Emit

\* Where nothing is appended, as when the recorder is dropped.
LEMMA LinesAre ==
  ASSUME ExperimentShape
  PROVE  Lines \in Seq(Events) /\ Len(Lines) \in Nat /\ DOMAIN Lines = 1..Len(Lines)
<1>1. trace \in Seq(Events) /\ buffer \in Seq(Events)
  BY DEF ExperimentShape
<1>2. Lines \in Seq(Events)
  BY <1>1, ConcatProperties DEF Lines
<1> QED
  BY <1>2

-----------------------------------------------------------------------------
(* Events.                                                                  *)

\* The calls of a hand-off have ids, one for each.
LEMMA CallIdIs ==
  ASSUME NEW h \in Turn, NEW i \in Nat, NEW j \in Nat
  PROVE  CallId(h, i) \in CallIds /\ (CallId(h, i) = CallId(h, j) => i = j)
<1>1. h.n \in Nat
  BY ExperimentAssumption DEF Turn
<1>2. CASE h.kind \in {"batch", "sequence", "once"}
  BY <1>2 DEF CallId, CallIds
<1>3. CASE h.kind \notin {"batch", "sequence", "once"}
  BY <1>1, <1>3 DEF CallId, CallIds
<1> QED
  BY <1>2, <1>3

\* A step has an operation.
LEMMA OpOfIs ==
  ASSUME NEW h \in Turn, NEW i \in 1..Len(h.steps)
  PROVE  OpOf(h, i) \in RecordedOperations
<1>1. h.steps \in Seq(STRING \X STRING)
  BY DEF Turn
<1>2. h.steps[i] \in STRING \X STRING
  BY <1>1, ElementOfSeq
<1>3. h.steps[i][1] \in STRING
  BY <1>2
<1>4. /\ <<h.steps[i][1], "none">> \in STRING \X (STRING \cup {"none"})
      /\ h.steps[i] \in STRING \X (STRING \cup {"none"})
  BY <1>2, <1>3
<1>5. OpOf(h, i) \in STRING \X (STRING \cup {"none"})
  BY <1>4, Zenon DEF OpOf
<1> QED
  BY <1>5, Zenon DEF RecordedOperations

\* The events of a hand-off that goes on.
LEMMA EventsAre ==
  ASSUME NEW h \in Turn, HandShape(h), h.at # "idle", handoffs \in 0..MaxHandoffs
  PROVE  /\ h.i \in 1..Len(h.steps) => ToolCallStarted(h) \in Events /\ VerificationStarted(h) \in Events
         /\ SequenceStarted(h) \in Events /\ SequenceCompleted(h) \in Events
         /\ h.i \in DOMAIN h.results => ToolCallCompleted(h) \in Events /\ VerificationCompleted(h) \in Events
<1>1. h.i \in Nat /\ h.i \in 1..Len(h.steps) /\ h.n \in 0..MaxHandoffs /\ h.n \in Nat
      /\ 0 \in 0..MaxHandoffs /\ Len(h.steps) \in Nat
  <2>1. h.i \in 1..Len(h.steps) /\ h.i \in Nat /\ h.n \in 0..MaxHandoffs /\ h.steps \in Seq(STRING \X STRING)
    BY DEF HandShape, Turn
  <2> QED
    BY <2>1, ExperimentAssumption
<1>2. CallId(h, h.i) \in CallIds /\ OpOf(h, h.i) \in RecordedOperations /\ <<"id", h.n, 0>> \in CallIds
  BY <1>1, CallIdIs, OpOfIs DEF CallIds
<1>3. NoOp \in RecordedOperations /\ <<"requested", Len(h.steps)>> \in RecordedOperations
  <2>2. <<"requested", Len(h.steps)>> \in {"requested"} \X Nat
    BY <1>1
  <2> QED
    BY <2>2, Zenon DEF RecordedOperations
<1>4. ToolCallStarted(h) \in Events /\ VerificationStarted(h) \in Events
  BY <1>1, <1>2 DEF ToolCallStarted, VerificationStarted, Event, Events, EventTypes
<1>5. SequenceStarted(h) \in Events
  BY <1>1, <1>2, <1>3 DEF SequenceStarted, Event, Events, EventTypes
<1>6. SequenceCompleted(h) \in Events
  <2>1. SequenceSuccess(h) \in BOOLEAN
    BY DEF SequenceSuccess
  <2> QED
    BY <1>1, <1>2, <1>3, <2>1 DEF SequenceCompleted, Event, Events, EventTypes
<1>7. ASSUME h.i \in DOMAIN h.results
      PROVE  ToolCallCompleted(h) \in Events /\ VerificationCompleted(h) \in Events
  <2>1. h.results[h.i] \in BOOLEAN /\ ParentOf(h) \in 0..MaxHandoffs
    BY <1>1, <1>7 DEF Turn, ParentOf
  <2> QED
    BY <1>1, <1>2, <2>1 DEF ToolCallCompleted, VerificationCompleted, Event, Events, EventTypes
<1> QED
  BY <1>4, <1>5, <1>6, <1>7

-----------------------------------------------------------------------------
(* Calls that are pending.                                                  *)

\* A hand-off that moves keeps calls and their ends matched, when a call that ends was pending
\* and is not any more, and one that is new among the pending starts.
LEMMA MatchedStep ==
  ASSUME ExperimentShape, Matched, NEW t \in Turns, NEW h, NEW e \in Events,
         turn' = [turn EXCEPT ![t] = h], Lines' = Append(Lines, e),
         \A id \in CallIds : e \in EndsOf(id) => id \in Pending(turn[t]) /\ id \notin Pending(h),
         \A id \in CallIds : id \in Pending(h) /\ id \notin Pending(turn[t]) => e \in StartsOf(id)
  PROVE  Matched'
<1> DEFINE ends(id) == Times(Lines, EndsOf(id))
           starts(id) == Times(Lines, StartsOf(id))
<1>1. Lines \in Seq(Events)
  BY LinesAre
<1>2. \A s \in Turns : turn'[s] = IF s = t THEN h ELSE turn[s]
  BY DEF ExperimentShape
<1>3. ASSUME NEW id \in CallIds
      PROVE  /\ IsFiniteSet(Waiting(id)) /\ Cardinality(Waiting(id)) \in Nat
             /\ t \in Waiting(id) <=> id \in Pending(turn[t])
             /\ Waiting(id)' = IF id \in Pending(h) THEN Waiting(id) \cup {t} ELSE Waiting(id) \ {t}
  <2>1. Waiting(id) \in SUBSET Turns
    BY DEF Waiting
  <2>2. IsFiniteSet(Waiting(id)) /\ Cardinality(Waiting(id)) \in Nat
    BY <2>1, ExperimentAssumption, FS_Subset, FS_CardinalityType
  <2>3. Waiting(id)' = {s \in Turns : id \in Pending(IF s = t THEN h ELSE turn[s])}
    BY <1>2, Zenon DEF Waiting
  <2> QED
    BY <2>2, <2>3 DEF Waiting
<1>4. ASSUME NEW id \in CallIds
      PROVE  /\ ends(id) \in Nat /\ starts(id) \in Nat
             /\ Times(Lines', EndsOf(id)) = IF e \in EndsOf(id) THEN ends(id) + 1 ELSE ends(id)
             /\ Times(Lines', StartsOf(id)) = IF e \in StartsOf(id) THEN starts(id) + 1 ELSE starts(id)
             /\ ends(id) + Cardinality(Waiting(id)) <= starts(id)
  <2>1. ends(id) \in Nat /\ starts(id) \in Nat
    BY <1>1, PlacesAreFinite
  <2> HIDE DEF ends, starts
  <2>2. Times(Append(Lines, e), EndsOf(id)) = IF e \in EndsOf(id) THEN ends(id) + 1 ELSE ends(id)
    BY <1>1, PlacesGrow DEF ends
  <2>3. Times(Append(Lines, e), StartsOf(id)) = IF e \in StartsOf(id) THEN starts(id) + 1 ELSE starts(id)
    BY <1>1, PlacesGrow DEF starts
  <2> QED
    BY <2>1, <2>2, <2>3 DEF ends, starts, Matched
<1>5. ASSUME NEW id \in CallIds
      PROVE  /\ Times(Lines', EndsOf(id)) <= Times(Lines', StartsOf(id))
             /\ Times(Lines', EndsOf(id)) + Cardinality(Waiting(id)') <= Times(Lines', StartsOf(id))
  <2> DEFINE w == Cardinality(Waiting(id))
             wn == Cardinality(Waiting(id)')
  <2>1. w \in Nat /\ ends(id) \in Nat /\ starts(id) \in Nat /\ ends(id) + w <= starts(id)
    BY <1>3, <1>4
  <2>2. wn = IF id \in Pending(h) THEN IF id \in Pending(turn[t]) THEN w ELSE w + 1
             ELSE IF id \in Pending(turn[t]) THEN w - 1 ELSE w
    BY <1>3, FS_AddElement, FS_RemoveElement
  <2>3. t \in Waiting(id) => w # 0
    BY <1>3, FS_EmptySet
  <2> DEFINE en == Times(Lines', EndsOf(id))
             sn == Times(Lines', StartsOf(id))
  <2>4. en = IF e \in EndsOf(id) THEN ends(id) + 1 ELSE ends(id)
    BY <1>4
  <2>5. sn = IF e \in StartsOf(id) THEN starts(id) + 1 ELSE starts(id)
    BY <1>4
  <2>6. e \in EndsOf(id) => e \notin StartsOf(id)
    BY DEF EndsOf, StartsOf, Ran
  <2>7. id \in Pending(turn[t]) => w # 0
    BY <1>3, <2>3
  <2> HIDE DEF ends, starts, w, wn, en, sn
  <2>8. CASE e \in EndsOf(id)
    <3>1. en = ends(id) + 1 /\ sn = starts(id) /\ wn = w - 1 /\ w # 0
      BY <2>2, <2>4, <2>5, <2>6, <2>7, <2>8
    <3> QED
      BY <2>1, <3>1 DEF en, sn, wn
  <2>9. CASE e \notin EndsOf(id)
    <3>1. en = ends(id) /\ wn \in Nat /\ sn \in Nat /\ (wn <= w \/ (wn = w + 1 /\ sn = starts(id) + 1)) /\ sn >= starts(id)
      <4>1. CASE id \in Pending(h) /\ id \notin Pending(turn[t])
        BY <2>1, <2>2, <2>4, <2>5, <2>9, <4>1
      <4>2. CASE ~(id \in Pending(h) /\ id \notin Pending(turn[t]))
        BY <2>1, <2>2, <2>4, <2>5, <2>7, <2>9, <4>2
      <4> QED
        BY <4>1, <4>2
    <3> QED
      BY <2>1, <3>1 DEF en, sn, wn
  <2> QED
    BY <2>8, <2>9
<1>6. ASSUME NEW id \in CallIds, NEW n \in DOMAIN Lines'
      PROVE  Times(SubSeq(Lines', 1, n), EndsOf(id)) <= Times(SubSeq(Lines', 1, n), StartsOf(id))
  <2>1. \/ n \in DOMAIN Lines /\ SubSeq(Lines', 1, n) = SubSeq(Lines, 1, n)
        \/ SubSeq(Lines', 1, n) = Lines'
    BY <1>1, PrefixesGrow
  <2> QED
    BY <1>5, <2>1 DEF Matched
<1>7. \A id \in CallIds : EndsOf(id)' = EndsOf(id) /\ StartsOf(id)' = StartsOf(id)
  BY DEF EndsOf, StartsOf
<1> QED
  BY <1>5, <1>6, <1>7 DEF Matched

-----------------------------------------------------------------------------
(* Steps of sequences, counts, and shapes.                                  *)

\* An event that is no step of a sequence changes nothing of what its steps left.
LEMMA StepsKept ==
  ASSUME NEW s \in Seq(Events), NEW e \in Events, NEW h, StepsSoFar(h, s), e \notin StepsOf(h.n)
  PROVE  StepsSoFar(h, Append(s, e))
<1> DEFINE steps == Places(s, StepsOf(h.n))
<1>1. Places(Append(s, e), StepsOf(h.n)) = steps
  BY PlacesGrow
<1>2. steps \subseteq 1..Len(s)
  BY PlacesAreFinite
<1>3. \A i \in steps : Append(s, e)[i] = s[i]
  BY <1>2, AppendProperties
<1> HIDE DEF steps
<1>4. StepsSoFar(h, s) <=>
        (h.kind = "bounded" /\ h.at # "idle" =>
          /\ h.at # "close" => /\ Cardinality(steps) = h.i - 1
                               /\ \A i \in steps : s[i].success
          /\ h.at = "close" => /\ \A i, j \in steps : i < j => s[i].success
                               /\ SequenceSuccess(h) <=>
                                    Cardinality(steps) = Len(h.steps) /\ \A i \in steps : s[i].success)
  BY Zenon DEF StepsSoFar, steps
<1> QED
  BY <1>1, <1>3, <1>4, Zenon DEF StepsSoFar

\* A hand-off that moves and appends an event of its own keeps every sequence recorded as it is.
LEMMA SequencedStep ==
  ASSUME ExperimentShape, Sequenced, NEW t \in Turns, NEW h, NEW e \in Events,
         turn' = [turn EXCEPT ![t] = h], Lines' = Append(Lines, e), UNCHANGED handoffs,
         turn[t].at # "idle", h.at = "idle" \/ h.n = turn[t].n,
         e.parent = 0 \/ e.parent = turn[t].n,
         StepsSoFar(h, Append(Lines, e)),
         e.type = "sequence_completed" => StepsMakeSequence(Append(Lines, e))
  PROVE  Sequenced'
<1>1. /\ Lines \in Seq(Events) /\ Len(Lines) \in Nat /\ DOMAIN Lines = 1..Len(Lines)
      /\ handoffs \in Nat
  BY LinesAre, ExperimentAssumption DEF ExperimentShape
<1>2. \A s \in Turns : turn'[s] = IF s = t THEN h ELSE turn[s]
  BY DEF ExperimentShape
<1>3. \A s \in Turns : turn[s].at # "idle" => turn[s].n \in 1..handoffs
  BY DEF ExperimentShape, HandShape
<1>4. \A r, s \in Turns : r # s /\ turn'[r].at # "idle" /\ turn'[s].at # "idle" => turn'[r].n # turn'[s].n
  BY <1>2 DEF Sequenced
<1>5. \A i \in DOMAIN Lines' : Lines'[i].parent <= handoffs
  <2>1. e.parent <= handoffs
    BY <1>1, <1>3
  <2> QED
    BY <1>1, <2>1, PrefixesGrow, AppendProperties DEF Sequenced
<1>6. ASSUME NEW s \in Turns PROVE StepsSoFar(turn'[s], Lines')
  <2>1. CASE s = t
    BY <1>2, <2>1
  <2>2. CASE s # t /\ turn[s].at = "idle"
    BY <1>2, <2>2 DEF StepsSoFar
  <2>3. CASE s # t /\ turn[s].at # "idle"
    <3>1. turn[s].n # turn[t].n /\ turn[s].n # 0
      BY <1>3, <2>3 DEF Sequenced
    <3>2. e \notin StepsOf(turn[s].n)
      BY <3>1 DEF StepsOf
    <3>3. StepsSoFar(turn[s], Lines)
      BY DEF Sequenced
    <3> QED
      BY <1>1, <1>2, <2>3, <3>2, <3>3, StepsKept
  <2> QED
    BY <2>1, <2>2, <2>3
<1>7. ASSUME NEW n \in DOMAIN Lines', Lines'[n].type = "sequence_completed"
      PROVE  StepsMakeSequence(SubSeq(Lines', 1, n))
  <2>1. CASE n \in DOMAIN Lines /\ SubSeq(Lines', 1, n) = SubSeq(Lines, 1, n) /\ Lines'[n] = Lines[n]
    BY <1>7, <2>1 DEF Sequenced
  <2>2. CASE n = Len(Lines) + 1 /\ SubSeq(Lines', 1, n) = Lines'
    <3>1. Lines'[n] = e
      BY <1>1, <2>2, AppendProperties
    <3> QED
      BY <1>7, <2>2, <3>1
  <2> QED
    BY <1>1, <2>1, <2>2, PrefixesGrow
<1> QED
  BY <1>4, <1>5, <1>6, <1>7 DEF Sequenced

\* A line that is appended counts for the tally of its type.
LEMMA TalliedStep ==
  ASSUME ExperimentShape, Tallied, NEW e \in Events, Lines' = Append(Lines, e),
         tally'.ran = tally.ran + (IF e \in Ran THEN 1 ELSE 0),
         tally'.failed = tally.failed + (IF e \in RanBadly THEN 1 ELSE 0),
         tally'.visible = tally.visible + (IF e \in Ended \cup RanAlone THEN 1 ELSE 0),
         tally'.verified = tally.verified + (IF e \in Checked THEN 1 ELSE 0)
  PROVE  Tallied'
<1>1. Lines \in Seq(Events)
  BY LinesAre
<1>2. ASSUME NEW kept
      PROVE  Times(Lines, kept) \in Nat
             /\ Times(Lines', kept) = Times(Lines, kept) + (IF e \in kept THEN 1 ELSE 0)
  <2>1. Times(Lines, kept) \in Nat
    BY <1>1, PlacesAreFinite
  <2>2. Times(Append(Lines, e), kept) = IF e \in kept THEN Times(Lines, kept) + 1 ELSE Times(Lines, kept)
    BY <1>1, PlacesGrow
  <2> QED
    BY <2>1, <2>2
<1>3. e \in Ended => e \notin RanAlone
  BY DEF Ended, RanAlone, Ran
<1>4. /\ Times(Lines', Ran) = tally'.ran /\ Times(Lines', RanBadly) = tally'.failed
      /\ Times(Lines', Checked) = tally'.verified
  BY <1>2 DEF Tallied
<1>5. Times(Lines', Ended) + Times(Lines', RanAlone) = tally'.visible
  <2>1. PICK a, b \in Nat : a = Times(Lines, Ended) /\ b = Times(Lines, RanAlone)
    BY <1>2
  <2>2. tally.visible = a + b
    BY <2>1 DEF Tallied
  <2>3. /\ Times(Lines', Ended) = a + (IF e \in Ended THEN 1 ELSE 0)
        /\ Times(Lines', RanAlone) = b + (IF e \in RanAlone THEN 1 ELSE 0)
    BY <1>2, <2>1
  <2> QED
    BY <1>3, <2>2, <2>3
<1> QED
  BY <1>4, <1>5 DEF Tallied

\* A step that moves one turn keeps the types.
LEMMA ShapeStep ==
  ASSUME ExperimentShape, NEW t \in Turns, NEW h \in Turn, HandShape(h),
         turn' = [turn EXCEPT ![t] = h], UNCHANGED handoffs,
         trace' \in Seq(Events), buffer' \in Seq(Events), trace' # << >>, trace'[1] = TaskStarted,
         faults' \in 0..MaxFaults, tally' \in Tallies
  PROVE  ExperimentShape'
<1>1. turn' \in [Turns -> Turn] /\ \A s \in Turns : turn'[s] = IF s = t THEN h ELSE turn[s]
  BY DEF ExperimentShape
<1>2. \A s \in Turns : HandShape(turn'[s])
  BY <1>1 DEF ExperimentShape
<1>3. \A s \in Turns : HandShape(turn[s])'
  BY <1>2 DEF HandShape
<1> QED
  BY <1>1, <1>3 DEF ExperimentShape, Turn, Events, Tallies

\* A hand-off that moves without an event, and leaves no more pending.
LEMMA MatchedKept ==
  ASSUME ExperimentShape, Matched, NEW t \in Turns, NEW h,
         turn' = [turn EXCEPT ![t] = h], Lines' = Lines, Pending(h) \subseteq Pending(turn[t])
  PROVE  Matched'
<1>1. \A s \in Turns : turn'[s] = IF s = t THEN h ELSE turn[s]
  BY DEF ExperimentShape
<1>2. ASSUME NEW id \in CallIds
      PROVE  Times(Lines, EndsOf(id)) + Cardinality(Waiting(id)') <= Times(Lines, StartsOf(id))
  <2>1. Waiting(id)' \in SUBSET Waiting(id) /\ Waiting(id) \in SUBSET Turns
    BY <1>1, Zenon DEF Waiting
  <2>2. IsFiniteSet(Waiting(id))
    BY <2>1, ExperimentAssumption, FS_Subset
  <2>3. /\ Cardinality(Waiting(id)') <= Cardinality(Waiting(id))
        /\ Cardinality(Waiting(id)') \in Nat /\ Cardinality(Waiting(id)) \in Nat
    BY <2>1, <2>2, FS_Subset, FS_CardinalityType
  <2>4. Times(Lines, EndsOf(id)) \in Nat /\ Times(Lines, StartsOf(id)) \in Nat
    BY LinesAre, PlacesAreFinite
  <2>5. Times(Lines, EndsOf(id)) + Cardinality(Waiting(id)) <= Times(Lines, StartsOf(id))
    BY DEF Matched
  <2> QED
    BY <2>3, <2>4, <2>5
<1>3. \A id \in CallIds : EndsOf(id)' = EndsOf(id) /\ StartsOf(id)' = StartsOf(id)
  BY DEF EndsOf, StartsOf
<1> QED
  BY <1>2, <1>3 DEF Matched

\* A hand-off that moves without an event.
LEMMA SequencedKept ==
  ASSUME ExperimentShape, Sequenced, NEW t \in Turns, NEW h,
         turn' = [turn EXCEPT ![t] = h], Lines' = Lines, UNCHANGED handoffs,
         turn[t].at # "idle", h.n = turn[t].n, StepsSoFar(h, Lines)
  PROVE  Sequenced'
<1>1. \A s \in Turns : turn'[s] = IF s = t THEN h ELSE turn[s]
  BY DEF ExperimentShape
<1>2. \A r, s \in Turns : r # s /\ turn'[r].at # "idle" /\ turn'[s].at # "idle" => turn'[r].n # turn'[s].n
  BY <1>1 DEF Sequenced
<1>3. \A s \in Turns : StepsSoFar(turn'[s], Lines)
  BY <1>1 DEF Sequenced
<1> QED
  BY <1>2, <1>3 DEF Sequenced

\* The id of a call depends on the kind and the number of its hand-off only.
LEMMA SameCallId ==
  ASSUME NEW g, NEW h, g.kind = h.kind, g.n = h.n, NEW i
  PROVE  CallId(g, i) = CallId(h, i)
BY DEF CallId

-----------------------------------------------------------------------------
(* The steps.                                                               *)

NewHand(kind, n, steps, at) == [NoTurn EXCEPT !.kind = kind, !.n = n, !.steps = steps, !.at = at]

\* What a new hand-off is made of.
LEMMA NewHandIs ==
  ASSUME NEW kind \in Kinds, NEW n \in 0..MaxHandoffs, NEW steps \in Seq(STRING \X STRING),
         NEW at \in {"open", "start"}
  PROVE  LET g == NewHand(kind, n, steps, at)
         IN  /\ g \in Turn /\ g.kind = kind /\ g.n = n /\ g.steps = steps /\ g.i = 1
             /\ g.results = << >> /\ g.at = at
<1> DEFINE g == NewHand(kind, n, steps, at)
<1>1. NoTurn \in Turn
  <2>1. << >> \in Seq(BOOLEAN) /\ << >> \in Seq(STRING \X STRING) /\ 0 \in 0..MaxHandoffs
    BY ExperimentAssumption
  <2> QED
    BY <2>1 DEF NoTurn, Turn
<1>2. [NoTurn EXCEPT !.kind = kind] \in Turn
  BY <1>1 DEF Turn
<1>3. [[NoTurn EXCEPT !.kind = kind] EXCEPT !.n = n] \in Turn
  BY <1>2 DEF Turn
<1>4. [[[NoTurn EXCEPT !.kind = kind] EXCEPT !.n = n] EXCEPT !.steps = steps] \in Turn
  BY <1>3 DEF Turn
<1>5. [[[[NoTurn EXCEPT !.kind = kind] EXCEPT !.n = n] EXCEPT !.steps = steps] EXCEPT !.at = at] \in Turn
  BY <1>4 DEF Turn
<1>6. g = [[[[NoTurn EXCEPT !.kind = kind] EXCEPT !.n = n] EXCEPT !.steps = steps] EXCEPT !.at = at]
  BY <1>1 DEF NewHand
<1>7. g \in Turn
  BY <1>5, <1>6
<1>8. /\ g.kind = kind /\ g.n = n /\ g.steps = steps /\ g.i = 1
      /\ g.results = << >> /\ g.at = at
  BY DEF NoTurn, NewHand
<1> QED
  BY <1>7, <1>8

\* A hand-off writes nothing and has a new number.
LEMMA HandOffStep ==
  ASSUME ExperimentIInv, NEW t \in Turns, HandOff(t)
  PROVE  ExperimentIInv'
<1>1. PICK r \in Requests :
        /\ turn[t].at = "idle" /\ handoffs < MaxHandoffs /\ handoffs' = handoffs + 1
        /\ turn' = [turn EXCEPT ![t] = [NoTurn EXCEPT
                      !.kind = r[1], !.n = handoffs', !.steps = r[2],
                      !.at = IF r[1] = "bounded" THEN "open" ELSE "start"]]
        /\ UNCHANGED <<trace, buffer, tally, faults>>
  BY DEF HandOff
<1>2. /\ r[1] \in Kinds /\ r[2] \in Seq(STRING \X STRING) /\ Len(r[2]) \in Nat \ {0}
      /\ r[1] \in {"execute", "once", "verification"} => Len(r[2]) = 1
  BY ExperimentAssumption
<1>3. handoffs \in Nat /\ handoffs' \in 1..MaxHandoffs /\ handoffs' = handoffs + 1
      /\ handoffs' \in 0..MaxHandoffs
  BY <1>1, ExperimentAssumption DEF ExperimentIInv, ExperimentShape
<1>4. << >> \in Seq(BOOLEAN) /\ Len(<< >>) = 0 /\ DOMAIN << >> = {}
  OBVIOUS
<1>5. PICK h \in Turn :
        /\ h.kind = r[1] /\ h.n = handoffs' /\ h.steps = r[2] /\ h.i = 1 /\ h.results = << >>
        /\ h.at = (IF r[1] = "bounded" THEN "open" ELSE "start")
        /\ turn' = [turn EXCEPT ![t] = h]
  <2> DEFINE at == IF r[1] = "bounded" THEN "open" ELSE "start"
             g == NewHand(r[1], handoffs', r[2], at)
  <2>1. at \in {"open", "start"}
    OBVIOUS
  <2>2. turn' = [turn EXCEPT ![t] = g]
    BY <1>1 DEF NewHand
  <2> HIDE DEF at
  <2>3. /\ g \in Turn /\ g.kind = r[1] /\ g.n = handoffs' /\ g.steps = r[2] /\ g.i = 1
        /\ g.results = << >> /\ g.at = at
    BY <1>2, <1>3, <2>1, NewHandIs
  <2> HIDE DEF g
  <2> QED
    BY <2>2, <2>3 DEF at
<1>6. turn' = [turn EXCEPT ![t] = h]
  BY <1>5
<1>7. HandShape(h)'
  BY <1>5, <1>2, <1>3, <1>4 DEF HandShape
<1>8. \A s \in Turns : turn'[s] = IF s = t THEN h ELSE turn[s]
  BY <1>6 DEF ExperimentIInv, ExperimentShape
<1>9. Lines' = Lines
  BY <1>1 DEF Lines
<1>10. ExperimentShape'
  <2>1. turn' \in [Turns -> Turn]
    BY <1>6 DEF ExperimentIInv, ExperimentShape
  <2>2. \A s \in Turns : HandShape(turn[s])'
    <3> SUFFICES ASSUME NEW s \in Turns, s # t PROVE HandShape(turn[s])'
      BY <1>7, <1>8
    <3>1. HandShape(turn[s]) /\ turn'[s] = turn[s]
      BY <1>8 DEF ExperimentIInv, ExperimentShape
    <3>2. turn[s].n \in 1..handoffs => turn[s].n \in 1..handoffs'
      BY <1>3
    <3> QED
      BY <3>1, <3>2 DEF HandShape
  <2> QED
    BY <1>1, <1>3, <2>1, <2>2 DEF ExperimentIInv, ExperimentShape
<1>11. Tallied'
  BY <1>1, <1>9 DEF ExperimentIInv, Tallied
<1>12. Matched'
  <2>1. Pending(h) \subseteq {}
    <3>1. h.at \in {"open", "start"} /\ h.i = 1 /\ 1..(h.i - 1) = {}
      BY <1>5
    <3> QED
      BY <3>1 DEF Pending
  <2> QED
    BY <1>6, <1>9, <2>1, MatchedKept DEF ExperimentIInv
<1>13. Sequenced'
  <2>1. \A i \in DOMAIN Lines : Lines[i].parent \in Nat /\ Lines[i].parent <= handoffs
    <3>1. \A i \in DOMAIN Lines : Lines[i] \in Events
      BY LinesAre DEF ExperimentIInv
    <3> QED
      BY <3>1, ExperimentAssumption DEF ExperimentIInv, Sequenced, Events
  <2>2. Places(Lines, StepsOf(h.n)) = {}
    <3>1. \A i \in DOMAIN Lines : Lines[i].parent # h.n
      BY <1>5, <1>3, <2>1
    <3> QED
      BY <3>1 DEF Places, StepsOf
  <2>3. StepsSoFar(h, Lines)
    <3>1. Cardinality({}) = h.i - 1 /\ h.at # "close"
      BY <1>5, FS_EmptySet
    <3> QED
      BY <2>2, <3>1 DEF StepsSoFar
  <2>4. \A s \in Turns : StepsSoFar(turn'[s], Lines)
    BY <1>8, <2>3 DEF ExperimentIInv, Sequenced
  <2>5. \A s \in Turns : s # t /\ turn[s].at # "idle" => turn[s].n # h.n
    <3>1. \A s \in Turns : turn[s].at # "idle" => turn[s].n \in 1..handoffs
      BY DEF ExperimentIInv, ExperimentShape, HandShape
    <3> QED
      BY <1>5, <1>3, <3>1
  <2>6. \A q, s \in Turns : q # s /\ turn'[q].at # "idle" /\ turn'[s].at # "idle" => turn'[q].n # turn'[s].n
    BY <1>8, <2>5 DEF ExperimentIInv, Sequenced
  <2>7. \A i \in DOMAIN Lines : Lines[i].parent <= handoffs'
    BY <1>3, <2>1
  <2> QED
    BY <1>9, <2>4, <2>6, <2>7 DEF ExperimentIInv, Sequenced
<1> QED
  BY <1>10, <1>11, <1>12, <1>13 DEF ExperimentIInv

\* A bounded sequence opens before its steps.
LEMMA OpenSequenceStep ==
  ASSUME ExperimentIInv, NEW t \in Turns, OpenSequence(t)
  PROVE  ExperimentIInv'
<1> DEFINE h == turn[t]
           g == [h EXCEPT !.at = "start"]
           e == SequenceStarted(h)
<1>1. /\ h.at = "open" /\ Emit(e) /\ turn' = [turn EXCEPT ![t] = [turn[t] EXCEPT !.at = "start"]]
      /\ UNCHANGED <<handoffs, tally>>
  BY DEF OpenSequence
<1>2. h \in Turn /\ HandShape(h) /\ handoffs \in 0..MaxHandoffs /\ tally \in Tallies
  BY DEF ExperimentIInv, ExperimentShape
<1>3. e \in Events
  BY <1>1, <1>2, EventsAre
<1>4. e.type = "sequence_started" /\ e.parent = 0
  BY DEF SequenceStarted, Event
<1>5. turn' = [turn EXCEPT ![t] = g]
  BY <1>1
<1>6. /\ g \in Turn /\ g.kind = h.kind /\ g.at = "start" /\ g.n = h.n /\ g.steps = h.steps
      /\ g.i = h.i /\ g.results = h.results
  BY <1>2 DEF Turn
<1> HIDE DEF g, e
<1>7. HandShape(g)
  BY <1>1, <1>2, <1>6 DEF HandShape
<1>8. /\ Lines \in Seq(Events) /\ Lines' = Append(Lines, e)
      /\ trace' \in Seq(Events) /\ buffer' \in Seq(Events) /\ trace' # << >> /\ trace'[1] = TaskStarted
      /\ faults' \in 0..MaxFaults
  BY <1>1, <1>3, EmitAppends DEF ExperimentIInv
<1>9. ExperimentShape'
  BY <1>1, <1>2, <1>5, <1>6, <1>7, <1>8, ShapeStep DEF ExperimentIInv
<1>10. Tallied'
  <2>1. e \notin Ran /\ e \notin RanBadly /\ e \notin Ended \cup RanAlone /\ e \notin Checked
    BY <1>4 DEF Ran, RanBadly, Ended, RanAlone, Checked
  <2>2. /\ tally'.ran = tally.ran + 0 /\ tally'.failed = tally.failed + 0
        /\ tally'.visible = tally.visible + 0 /\ tally'.verified = tally.verified + 0
    BY <1>1, <1>2 DEF Tallies
  <2> QED
    BY <1>3, <1>8, <2>1, <2>2, TalliedStep DEF ExperimentIInv
<1>11. Matched'
  <2>1. \A id : e \notin EndsOf(id)
    BY <1>4 DEF EndsOf, Ran
  <2>2. Pending(g) = {}
    <3>1. h.kind = "bounded"
      BY <1>1, <1>2 DEF HandShape
    <3> QED
      BY <1>6, <3>1 DEF Pending
  <2> QED
    BY <1>3, <1>5, <1>8, <2>1, <2>2, MatchedStep DEF ExperimentIInv
<1>12. Sequenced'
  <2>1. StepsSoFar(h, Lines)
    BY DEF ExperimentIInv, Sequenced
  <2>2. e \notin StepsOf(g.n)
    BY <1>4 DEF StepsOf, Ran
  <2>3. StepsSoFar(g, Lines)
    BY <1>1, <1>6, <2>1 DEF StepsSoFar
  <2>4. StepsSoFar(g, Append(Lines, e))
    BY <1>3, <1>8, <2>2, <2>3, StepsKept
  <2> QED
    BY <1>1, <1>3, <1>4, <1>5, <1>6, <1>8, <2>4, SequencedStep DEF ExperimentIInv
<1> QED
  BY <1>9, <1>10, <1>11, <1>12 DEF ExperimentIInv

\* A call that starts is one start more and one call waiting more.
LEMMA StartedStep ==
  ASSUME ExperimentIInv, NEW t \in Turns, Started(t)
  PROVE  ExperimentIInv'
<1> DEFINE h == turn[t]
           more == h.kind \in {"batch", "sequence"} /\ h.i < Len(h.steps)
           e == IF h.kind = "verification" THEN VerificationStarted(h) ELSE ToolCallStarted(h)
           i1 == IF more THEN h.i + 1 ELSE IF h.kind = "bounded" THEN h.i ELSE 1
           at1 == IF more THEN "start" ELSE "run"
           g == [h EXCEPT !.i = i1, !.at = at1]
<1>1. /\ h.at = "start" /\ Emit(e) /\ UNCHANGED <<handoffs, tally>>
      /\ turn' = [turn EXCEPT ![t].i = IF more THEN h.i + 1 ELSE IF h.kind = "bounded" THEN h.i ELSE 1,
                              ![t].at = IF more THEN "start" ELSE "run"]
  BY DEF Started
<1>2. /\ h \in Turn /\ HandShape(h) /\ handoffs \in 0..MaxHandoffs /\ tally \in Tallies
      /\ turn \in [Turns -> Turn]
  BY DEF ExperimentIInv, ExperimentShape
<1>3. h.i \in 1..Len(h.steps) /\ h.i \in Nat /\ Len(h.steps) \in Nat
  BY <1>1, <1>2 DEF HandShape, Turn
<1>4. e \in Events
  BY <1>1, <1>2, <1>3, EventsAre
<1>5. /\ e.type = (IF h.kind = "verification" THEN "verification_started" ELSE "started")
      /\ e.parent = 0 /\ e.call = CallId(h, h.i)
  BY DEF VerificationStarted, ToolCallStarted, Event
<1>6. turn' = [turn EXCEPT ![t] = g]
  BY <1>1, <1>2 DEF Turn
<1>7. /\ g \in Turn /\ g.kind = h.kind /\ g.n = h.n /\ g.steps = h.steps /\ g.results = h.results
      /\ g.at = (IF more THEN "start" ELSE "run")
      /\ g.i = (IF more THEN h.i + 1 ELSE IF h.kind = "bounded" THEN h.i ELSE 1)
  <2>1. i1 \in Nat /\ at1 \in {"idle", "open", "start", "run", "complete", "close"}
    BY <1>3
  <2> HIDE DEF i1, at1
  <2>2. /\ g \in Turn /\ g.kind = h.kind /\ g.n = h.n /\ g.steps = h.steps /\ g.results = h.results
        /\ g.at = at1 /\ g.i = i1
    BY <1>2, <2>1 DEF Turn
  <2> QED
    BY <2>2 DEF i1, at1
<1>8. h.kind \in Kinds /\ Len(h.results) = (IF h.kind = "bounded" THEN h.i - 1 ELSE 0)
      /\ (h.kind \in {"execute", "once", "verification"} => Len(h.steps) = 1)
  BY <1>1, <1>2 DEF HandShape
<1> HIDE DEF g, e
<1>9. HandShape(g)
  BY <1>1, <1>2, <1>3, <1>7, <1>8 DEF HandShape
<1>10. /\ Lines \in Seq(Events) /\ Lines' = Append(Lines, e)
       /\ trace' \in Seq(Events) /\ buffer' \in Seq(Events) /\ trace' # << >> /\ trace'[1] = TaskStarted
       /\ faults' \in 0..MaxFaults
  BY <1>1, <1>4, EmitAppends DEF ExperimentIInv
<1>11. ExperimentShape'
  BY <1>1, <1>2, <1>6, <1>7, <1>9, <1>10, ShapeStep DEF ExperimentIInv
<1>12. Tallied'
  <2>1. e \notin Ran /\ e \notin RanBadly /\ e \notin Ended \cup RanAlone /\ e \notin Checked
    BY <1>5 DEF Ran, RanBadly, Ended, RanAlone, Checked
  <2>2. /\ tally'.ran = tally.ran + 0 /\ tally'.failed = tally.failed + 0
        /\ tally'.visible = tally.visible + 0 /\ tally'.verified = tally.verified + 0
    BY <1>1, <1>2 DEF Tallies
  <2> QED
    BY <1>4, <1>10, <2>1, <2>2, TalliedStep DEF ExperimentIInv
<1>13. Matched'
  <2>1. \A id : e \notin EndsOf(id)
    BY <1>5 DEF EndsOf, Ran
  <2>2. ASSUME NEW id \in CallIds, id \in Pending(g), id \notin Pending(h)
        PROVE  e \in StartsOf(id)
    <3>1. g.kind # "verification"
      BY <2>2 DEF Pending
    <3>2. SUFFICES id = CallId(h, h.i)
      BY <1>4, <1>5, <1>7, <3>1 DEF StartsOf
    <3>3. \A i : CallId(g, i) = CallId(h, i)
      BY <1>7, SameCallId
    <3>4. CASE h.kind = "bounded"
      <4>1. Pending(g) = {CallId(g, i) : i \in {g.i}} /\ g.i = h.i
        BY <1>7, <3>4 DEF Pending
      <4> QED
        BY <2>2, <3>3, <4>1
    <3>5. CASE h.kind # "bounded"
      <4>1. Pending(h) = {CallId(h, i) : i \in 1..(h.i - 1)}
        BY <1>1, <1>7, <3>1, <3>5 DEF Pending
      <4>2. Pending(g) = {CallId(g, i) : i \in 1..h.i}
        <5>1. CASE more
          <6>1. g.at = "start" /\ 1..(g.i - 1) = 1..h.i
            BY <1>3, <1>7, <5>1
          <6> QED
            BY <1>7, <3>1, <3>5, <6>1 DEF Pending
        <5>2. CASE ~more
          <6>1. Len(h.steps) = h.i
            <7>1. CASE h.kind \in {"batch", "sequence"}
              BY <1>3, <5>2, <7>1
            <7>2. CASE h.kind \notin {"batch", "sequence"}
              <8>1. Len(h.steps) = 1
                BY <1>8, <3>5, <7>2 DEF Kinds
              <8> QED
                BY <1>3, <8>1
            <7> QED
              BY <7>1, <7>2
          <6>2. g.at = "run" /\ g.steps = h.steps /\ g.kind # "bounded"
            BY <1>7, <3>5, <5>2
          <6> QED
            BY <3>1, <6>1, <6>2 DEF Pending
        <5> QED
          BY <5>1, <5>2
      <4>3. PICK i \in 1..h.i : id = CallId(h, i)
        BY <2>2, <3>3, <4>2
      <4> QED
        BY <1>3, <2>2, <4>1, <4>3
    <3> QED
      BY <3>4, <3>5
  <2> QED
    BY <1>4, <1>6, <1>10, <2>1, <2>2, MatchedStep DEF ExperimentIInv
<1>14. Sequenced'
  <2>1. StepsSoFar(h, Lines)
    BY DEF ExperimentIInv, Sequenced
  <2>2. e \notin StepsOf(g.n)
    BY <1>5 DEF StepsOf, Ran
  <2>3. StepsSoFar(g, Lines)
    <3>1. h.kind = "bounded" => g.i = h.i /\ g.at = "run"
      BY <1>7
    <3> QED
      BY <1>1, <1>7, <2>1, <3>1 DEF StepsSoFar
  <2>4. StepsSoFar(g, Append(Lines, e))
    BY <1>4, <1>10, <2>2, <2>3, StepsKept
  <2>5. e.type # "sequence_completed" /\ h.at # "idle"
    BY <1>1, <1>5
  <2> QED
    BY <1>1, <1>4, <1>5, <1>6, <1>7, <1>10, <2>4, <2>5, SequencedStep DEF ExperimentIInv
<1> QED
  BY <1>11, <1>12, <1>13, <1>14 DEF ExperimentIInv

\* A run has a result for each step that it came to.
LEMMA ResultsAre ==
  ASSUME NEW kind \in Kinds, NEW n \in Nat \ {0}, NEW r \in Results(kind, n)
  PROVE  /\ r \in Seq(BOOLEAN) /\ Len(r) \in 1..n
         /\ kind \notin {"batch", "sequence"} => Len(r) = 1
<1>1. ASSUME NEW m \in 1..n, r \in [1..m -> BOOLEAN]
      PROVE  r \in Seq(BOOLEAN) /\ Len(r) \in 1..n /\ Len(r) = m
  <2>1. m \in Nat /\ \A k \in 1..m : r[k] \in BOOLEAN
    BY <1>1
  <2>2. r = [k \in 1..m |-> r[k]]
    BY <1>1
  <2>3. r \in Seq(BOOLEAN)
    BY <2>1, <2>2, IsASeq
  <2> QED
    BY <1>1, <2>1, <2>2, <2>3
<1>2. CASE kind = "batch"
  <2>1. r \in [1..n -> BOOLEAN]
    BY <1>2 DEF Results, BatchResults
  <2> QED
    BY <1>1, <1>2, <2>1
<1>3. CASE kind = "sequence"
  <2>1. r \in SequenceResults(n)
    BY <1>3 DEF Results
  <2>2. \E m \in 1..n : r \in [1..m -> BOOLEAN]
    <3>1. n \in 1..n
      OBVIOUS
    <3> QED
      BY <2>1, <3>1 DEF SequenceResults, BatchResults
  <2> QED
    BY <1>1, <1>3, <2>2
<1>4. CASE kind \notin {"batch", "sequence"}
  <2>1. r \in [1..1 -> BOOLEAN] /\ 1 \in 1..n
    BY <1>4 DEF Results, CallResults
  <2> QED
    BY <1>1, <2>1
<1> QED
  BY <1>2, <1>3, <1>4

\* A run writes nothing; what started is still waiting.
LEMMA RunTurnStep ==
  ASSUME ExperimentIInv, NEW t \in Turns, Run(t)
  PROVE  ExperimentIInv'
<1> DEFINE h == turn[t]
<1>1. /\ h.at = "run"
      /\ UNCHANGED <<trace, buffer, handoffs, tally, faults>>
  BY DEF Run
<1>2. /\ h \in Turn /\ HandShape(h) /\ handoffs \in 0..MaxHandoffs /\ tally \in Tallies
      /\ turn \in [Turns -> Turn]
  BY DEF ExperimentIInv, ExperimentShape
<1>3. h.i \in 1..Len(h.steps) /\ h.i \in Nat /\ Len(h.steps) \in Nat \ {0} /\ h.kind \in Kinds
      /\ h.results \in Seq(BOOLEAN)
  <2>1. h.i \in 1..Len(h.steps) /\ h.i \in Nat /\ h.steps \in Seq(STRING \X STRING) /\ h.kind \in Kinds
        /\ h.results \in Seq(BOOLEAN)
    BY <1>1, <1>2 DEF HandShape, Turn
  <2> QED
    BY <2>1
<1>4. /\ Len(h.results) = (IF h.kind = "bounded" THEN h.i - 1 ELSE 0)
      /\ (h.kind # "bounded" => h.i = 1)
      /\ (h.kind = "bounded" => \A k \in DOMAIN h.results : k < h.i => h.results[k])
  BY <1>1, <1>2 DEF HandShape
<1>5. PICK r \in Results(h.kind, Len(h.steps)) :
        turn' = [turn EXCEPT ![t].results = h.results \o r, ![t].at = "complete"]
  BY DEF Run
<1>6. r \in Seq(BOOLEAN) /\ Len(r) \in 1..Len(h.steps)
      /\ (h.kind \notin {"batch", "sequence"} => Len(r) = 1)
  BY <1>3, ResultsAre
<1> DEFINE all == h.results \o r
           g == [h EXCEPT !.results = all, !.at = "complete"]
<1>7. /\ all \in Seq(BOOLEAN) /\ Len(all) = Len(h.results) + Len(r)
      /\ \A k \in 1..Len(h.results) + Len(r) :
           all[k] = IF k <= Len(h.results) THEN h.results[k] ELSE r[k - Len(h.results)]
  BY <1>3, <1>6, ConcatProperties
<1>8. turn' = [turn EXCEPT ![t] = g]
  BY <1>2, <1>5
<1> HIDE DEF all
<1>9. /\ g \in Turn /\ g.kind = h.kind /\ g.n = h.n /\ g.steps = h.steps /\ g.results = all
      /\ g.at = "complete" /\ g.i = h.i
  BY <1>2, <1>7 DEF Turn
<1> HIDE DEF g
<1>10. h.i <= Len(all) /\ Len(all) <= Len(h.steps) /\ (h.kind = "bounded" => Len(all) = h.i)
       /\ Len(all) \in Nat
  <2>1. CASE h.kind = "bounded"
    <3>1. Len(all) = h.i
      <4>1. Len(h.results) = h.i - 1
        BY <1>4, <2>1
      <4>2. Len(r) = 1
        BY <1>6, <2>1
      <4> QED
        BY <1>3, <1>7, <4>1, <4>2
    <3> QED
      BY <1>3, <3>1
  <2>2. CASE h.kind # "bounded"
    <3>1. Len(all) = Len(r) /\ h.i = 1
      BY <1>3, <1>4, <1>6, <1>7, <2>2
    <3> QED
      BY <1>3, <1>6, <2>2, <3>1
  <2> QED
    BY <2>1, <2>2
<1>11. HandShape(g)
  <2>1. h.kind = "bounded" => \A k \in DOMAIN all : k < h.i => all[k]
    <3> SUFFICES ASSUME h.kind = "bounded", NEW k \in DOMAIN all, k < h.i PROVE all[k]
      OBVIOUS
    <3>1. k \in 1..Len(h.results) + Len(r) /\ k \in Nat
      BY <1>7
    <3>2. k <= Len(h.results) /\ k \in DOMAIN h.results
      BY <1>3, <1>4, <3>1
    <3> QED
      BY <1>4, <1>7, <3>1, <3>2
  <2>2. g.at = "complete" /\ g.at # "idle" /\ g.at # "open" /\ g.at # "start" /\ g.at # "run" /\ g.at # "close"
    BY <1>9
  <2>3. h.n \in 1..handoffs /\ (h.kind \in {"execute", "once", "verification"} => Len(h.steps) = 1)
    BY <1>1, <1>2 DEF HandShape
  <2> QED
    BY <1>3, <1>9, <1>10, <2>1, <2>2, <2>3 DEF HandShape
<1>12. Lines' = Lines
  BY <1>1 DEF Lines
<1>13. ExperimentShape'
  <2>1. /\ trace' \in Seq(Events) /\ buffer' \in Seq(Events) /\ trace' # << >> /\ trace'[1] = TaskStarted
        /\ faults' \in 0..MaxFaults /\ tally' \in Tallies
    BY <1>1 DEF ExperimentIInv, ExperimentShape
  <2> QED
    BY <1>1, <1>8, <1>9, <1>11, <2>1, ShapeStep DEF ExperimentIInv
<1>14. Tallied'
  BY <1>1, <1>12 DEF ExperimentIInv, Tallied
<1>15. Matched'
  <2>1. Pending(g) \subseteq Pending(h)
    <3>1. CASE h.kind = "verification"
      BY <1>9, <3>1 DEF Pending
    <3>2. CASE h.kind # "verification"
      <4>1. Pending(g) = {CallId(g, i) : i \in h.i..Len(all)}
        BY <1>9, <3>2 DEF Pending
      <4>2. \A i : CallId(g, i) = CallId(h, i)
        BY <1>9, SameCallId
      <4>3. h.i..Len(all) \subseteq IF h.kind = "bounded" THEN {h.i} ELSE 1..Len(h.steps)
        BY <1>3, <1>10
      <4>4. Pending(h) = {CallId(h, i) : i \in IF h.kind = "bounded" THEN {h.i} ELSE 1..Len(h.steps)}
        BY <1>1, <3>2 DEF Pending
      <4> QED
        BY <4>1, <4>2, <4>3, <4>4
    <3> QED
      BY <3>1, <3>2
  <2> QED
    BY <1>8, <1>12, <2>1, MatchedKept DEF ExperimentIInv
<1>16. Sequenced'
  <2>1. StepsSoFar(h, Lines)
    BY DEF ExperimentIInv, Sequenced
  <2>2. StepsSoFar(g, Lines)
    BY <1>1, <1>9, <2>1 DEF StepsSoFar
  <2> QED
    BY <1>1, <1>8, <1>9, <1>12, <2>2, SequencedKept DEF ExperimentIInv
<1> QED
  BY <1>13, <1>14, <1>15, <1>16 DEF ExperimentIInv

NextHand(h, at) ==
  IF at = "idle" THEN [NoTurn EXCEPT !.answer = h.results]
  ELSE [h EXCEPT !.at = at, !.i = IF at = "close" THEN h.i ELSE h.i + 1]

\* What becomes of a hand-off that goes on or ends.
LEMMA NextHandIs ==
  ASSUME NEW h \in Turn, NEW at \in {"idle", "start", "complete", "close"}
  PROVE  /\ NextHand(h, at) \in Turn /\ NextHand(h, at).at = at
         /\ at = "idle" => /\ NextHand(h, at).steps = << >> /\ NextHand(h, at).results = << >>
                           /\ NextHand(h, at).kind = "none"
         /\ at # "idle" => /\ NextHand(h, at).kind = h.kind /\ NextHand(h, at).n = h.n
                           /\ NextHand(h, at).steps = h.steps /\ NextHand(h, at).results = h.results
                           /\ NextHand(h, at).i = IF at = "close" THEN h.i ELSE h.i + 1
<1>1. CASE at = "idle"
  <2>1. /\ << >> \in Seq(BOOLEAN) /\ << >> \in Seq(STRING \X STRING) /\ 0 \in 0..MaxHandoffs
        /\ h.results \in Seq(BOOLEAN)
    BY ExperimentAssumption DEF Turn
  <2>2. NoTurn \in Turn
    BY <2>1 DEF NoTurn, Turn
  <2>3. [NoTurn EXCEPT !.answer = h.results] \in Turn
    BY <2>1, <2>2 DEF Turn
  <2>4. NextHand(h, at) = [NoTurn EXCEPT !.answer = h.results]
    BY <1>1 DEF NextHand
  <2> QED
    BY <1>1, <2>3, <2>4 DEF NoTurn
<1>2. CASE at # "idle"
  <2> DEFINE i1 == IF at = "close" THEN h.i ELSE h.i + 1
  <2>1. i1 \in Nat
    BY DEF Turn
  <2>2. NextHand(h, at) = [h EXCEPT !.at = at, !.i = i1]
    BY <1>2 DEF NextHand
  <2> HIDE DEF i1
  <2>3. NextHand(h, at) \in Turn
    BY <2>1, <2>2 DEF Turn
  <2>4. /\ NextHand(h, at).at = at /\ NextHand(h, at).kind = h.kind /\ NextHand(h, at).n = h.n
        /\ NextHand(h, at).steps = h.steps /\ NextHand(h, at).results = h.results
        /\ NextHand(h, at).i = i1
    BY <2>2 DEF Turn
  <2> QED
    BY <1>2, <2>3, <2>4 DEF i1
<1> QED
  BY <1>1, <1>2

\* A call that completes is one end more and waits no more.
LEMMA CompletedStep ==
  ASSUME ExperimentIInv, NEW t \in Turns, Completed(t)
  PROVE  ExperimentIInv'
<1> DEFINE h == turn[t]
           ok == h.results[h.i]
           check == h.kind = "verification"
           e == IF check THEN VerificationCompleted(h) ELSE ToolCallCompleted(h)
           at == AfterCompleted(h)
           g == NextHand(h, at)
<1>1. /\ h.at = "complete" /\ Emit(e) /\ UNCHANGED handoffs /\ Moves(t, at)
      /\ tally' = IF check THEN [tally EXCEPT !.verified = @ + 1]
                  ELSE [tally EXCEPT !.ran = @ + 1, !.failed = @ + (IF ok THEN 0 ELSE 1),
                                     !.visible = @ + (IF h.kind = "bounded" THEN 0 ELSE 1)]
  BY DEF Completed
<1>2. /\ h \in Turn /\ HandShape(h) /\ handoffs \in 0..MaxHandoffs /\ handoffs \in Nat /\ tally \in Tallies
      /\ turn \in [Turns -> Turn]
  BY ExperimentAssumption DEF ExperimentIInv, ExperimentShape
<1>3. /\ h.i \in 1..Len(h.steps) /\ h.i \in Nat /\ Len(h.steps) \in Nat \ {0} /\ h.kind \in Kinds
      /\ h.results \in Seq(BOOLEAN) /\ Len(h.results) \in Nat /\ h.i \in DOMAIN h.results /\ ok \in BOOLEAN
      /\ h.n \in 1..handoffs
  <2>1. h.i \in 1..Len(h.steps) /\ h.i \in Nat /\ h.steps \in Seq(STRING \X STRING) /\ h.kind \in Kinds
        /\ h.results \in Seq(BOOLEAN) /\ h.i <= Len(h.results) /\ h.n \in 1..handoffs
    BY <1>1, <1>2 DEF HandShape, Turn
  <2> QED
    BY <2>1
<1>4. /\ h.i <= Len(h.results) /\ Len(h.results) <= Len(h.steps)
      /\ (h.kind = "bounded" => Len(h.results) = h.i)
      /\ (h.kind = "bounded" => \A k \in DOMAIN h.results : k < h.i => h.results[k])
      /\ (h.kind \in {"execute", "once", "verification"} => Len(h.steps) = 1)
  BY <1>1, <1>2 DEF HandShape
<1>5. e \in Events
  BY <1>1, <1>2, <1>3, EventsAre
<1>6. /\ e.type = (IF check THEN "verification_completed" ELSE "completed")
      /\ e.parent = (IF h.kind = "bounded" THEN h.n ELSE 0) /\ e.call = CallId(h, h.i) /\ e.success = ok
  BY DEF VerificationCompleted, ToolCallCompleted, Event, ParentOf
<1>7. turn' = [turn EXCEPT ![t] = g]
  BY <1>1 DEF Moves, NextHand
<1>8. at = IF h.i < Len(h.results) THEN "complete"
           ELSE IF h.kind # "bounded" THEN "idle"
           ELSE IF h.i < Len(h.steps) /\ ok THEN "start" ELSE "close"
  BY Zenon DEF AfterCompleted
<1> HIDE DEF at
<1>9. at \in {"idle", "start", "complete", "close"}
  BY <1>8
<1>10. /\ g \in Turn /\ g.at = at
       /\ at = "idle" => g.steps = << >> /\ g.results = << >> /\ g.kind = "none"
       /\ at # "idle" => /\ g.kind = h.kind /\ g.n = h.n /\ g.steps = h.steps /\ g.results = h.results
                         /\ g.i = IF at = "close" THEN h.i ELSE h.i + 1
  BY <1>2, <1>9, NextHandIs
<1> HIDE DEF g, e
<1>11. HandShape(g)
  <2>1. CASE at = "idle"
    BY <1>10, <2>1 DEF HandShape
  <2>2. CASE at = "complete"
    <3>1. h.i < Len(h.results) /\ h.kind # "bounded"
      BY <1>3, <1>4, <1>8, <2>2
    <3> QED
      <4>1. /\ g.i \in 1..Len(g.steps) /\ g.i <= Len(g.results) /\ Len(g.results) <= Len(g.steps)
            /\ g.at = "complete" /\ g.kind # "bounded"
        BY <1>3, <1>4, <1>10, <2>2, <3>1
      <4>2. /\ g.kind \in Kinds /\ g.n \in 1..handoffs
            /\ (g.kind \in {"execute", "once", "verification"} => Len(g.steps) = 1)
        BY <1>3, <1>4, <1>10, <2>2
      <4> QED
        BY <4>1, <4>2 DEF HandShape
  <2>3. CASE at = "start"
    <3>1. h.kind = "bounded" /\ h.i < Len(h.steps) /\ ok /\ Len(h.results) = h.i
      BY <1>3, <1>4, <1>8, <2>3
    <3>2. \A k \in DOMAIN h.results : k < h.i + 1 => h.results[k]
      <4> SUFFICES ASSUME NEW k \in DOMAIN h.results, k < h.i + 1 PROVE h.results[k]
        OBVIOUS
      <4>1. k < h.i \/ k = h.i
        BY <1>3
      <4> QED
        BY <1>4, <3>1, <4>1
    <3>3. g.i \in 1..Len(g.steps) /\ Len(g.results) = g.i - 1
      BY <1>3, <1>10, <2>3, <3>1
    <3> QED
      BY <1>3, <1>10, <2>3, <3>1, <3>2, <3>3 DEF HandShape
  <2>4. CASE at = "close"
    <3>1. h.kind = "bounded" /\ Len(h.results) = h.i
      BY <1>3, <1>4, <1>8, <2>4
    <3> QED
      BY <1>3, <1>4, <1>10, <2>4, <3>1 DEF HandShape
  <2> QED
    BY <1>9, <2>1, <2>2, <2>3, <2>4
<1>12. /\ Lines \in Seq(Events) /\ Lines' = Append(Lines, e)
       /\ trace' \in Seq(Events) /\ buffer' \in Seq(Events) /\ trace' # << >> /\ trace'[1] = TaskStarted
       /\ faults' \in 0..MaxFaults
  BY <1>1, <1>5, EmitAppends DEF ExperimentIInv
<1>13. /\ tally' \in Tallies
       /\ tally'.ran = tally.ran + (IF check THEN 0 ELSE 1)
       /\ tally'.failed = tally.failed + (IF ~check /\ ~ok THEN 1 ELSE 0)
       /\ tally'.visible = tally.visible + (IF ~check /\ h.kind # "bounded" THEN 1 ELSE 0)
       /\ tally'.verified = tally.verified + (IF check THEN 1 ELSE 0)
  <2>1. CASE check
    BY <1>1, <1>2, <2>1 DEF Tallies
  <2>2. CASE ~check
    <3> DEFINE f == IF ok THEN 0 ELSE 1
               v == IF h.kind = "bounded" THEN 0 ELSE 1
    <3>1. tally' = [tally EXCEPT !.ran = @ + 1, !.failed = @ + f, !.visible = @ + v]
      BY <1>1, <2>2
    <3>2. f \in Nat /\ v \in Nat
      OBVIOUS
    <3> HIDE DEF f, v
    <3>3. /\ tally' \in Tallies /\ tally'.ran = tally.ran + 1 /\ tally'.failed = tally.failed + f
          /\ tally'.visible = tally.visible + v /\ tally'.verified = tally.verified
      <4>1. /\ tally.ran \in Nat /\ tally.failed \in Nat /\ tally.visible \in Nat /\ tally.verified \in Nat
            /\ tally = [ran |-> tally.ran, failed |-> tally.failed, visible |-> tally.visible,
                        verified |-> tally.verified]
        BY <1>2 DEF Tallies
      <4>2. tally' = [ran |-> tally.ran + 1, failed |-> tally.failed + f, visible |-> tally.visible + v,
                      verified |-> tally.verified]
        BY <3>1, <4>1
      <4> QED
        BY <3>2, <4>1, <4>2 DEF Tallies
    <3>4. tally.verified + 0 = tally.verified
      BY <1>2 DEF Tallies
    <3> QED
      BY <2>2, <3>3, <3>4 DEF f, v
  <2> QED
    BY <2>1, <2>2
<1>14. ExperimentShape'
  BY <1>1, <1>7, <1>10, <1>11, <1>12, <1>13, ShapeStep DEF ExperimentIInv
<1>15. Tallied'
  <2>1. e \in Ran <=> ~check
    BY <1>5, <1>6 DEF Ran
  <2>2. e \in RanBadly <=> ~check /\ ~ok
    BY <1>5, <1>6 DEF Ran, RanBadly
  <2>3. e \in Ended \cup RanAlone <=> ~check /\ h.kind # "bounded"
    BY <1>2, <1>3, <1>5, <1>6 DEF Ran, RanAlone, Ended
  <2>4. e \in Checked <=> check
    BY <1>5, <1>6 DEF Checked
  <2> QED
    BY <1>5, <1>12, <1>13, <2>1, <2>2, <2>3, <2>4, TalliedStep DEF ExperimentIInv
<1>16. Pending(h) = IF check THEN {} ELSE {CallId(h, i) : i \in h.i..Len(h.results)}
  BY <1>1 DEF Pending
<1>17. Pending(g) = IF check \/ at # "complete" THEN {}
                    ELSE {CallId(g, i) : i \in (h.i + 1)..Len(h.results)}
  <2>1. CASE at = "start"
    <3>1. h.kind = "bounded"
      BY <1>8, <2>1
    <3> QED
      BY <1>10, <2>1, <3>1 DEF Pending
  <2>2. CASE at \in {"idle", "close"}
    BY <1>10, <2>2 DEF Pending
  <2>3. CASE at = "complete"
    BY <1>10, <2>3 DEF Pending
  <2> QED
    BY <1>9, <2>1, <2>2, <2>3
<1>18. Matched'
  <2>1. ASSUME NEW id \in CallIds, e \in EndsOf(id)
        PROVE  id \in Pending(h) /\ id \notin Pending(g)
    <3>1. ~check /\ id = CallId(h, h.i)
      BY <1>6, <2>1 DEF EndsOf, Ran
    <3>2. id \in Pending(h)
      BY <1>3, <1>4, <1>16, <3>1
    <3>3. ASSUME at = "complete", NEW i \in (h.i + 1)..Len(h.results) PROVE CallId(g, i) # id
      <4>1. CallId(g, i) = CallId(h, i)
        BY <1>10, <3>3, SameCallId
      <4>2. i \in Nat /\ i # h.i
        BY <1>3
      <4> QED
        BY <1>2, <1>3, <3>1, <4>1, <4>2, CallIdIs
    <3> QED
      BY <1>17, <3>2, <3>3
  <2>2. Pending(g) \subseteq Pending(h)
    <3> SUFFICES ASSUME ~check, at = "complete", NEW i \in (h.i + 1)..Len(h.results)
                 PROVE  CallId(g, i) \in Pending(h)
      BY <1>17
    <3>1. CallId(g, i) = CallId(h, i)
      BY <1>10, SameCallId
    <3>2. i \in h.i..Len(h.results)
      BY <1>3
    <3> QED
      BY <1>16, <3>1, <3>2
  <2> QED
    BY <1>5, <1>7, <1>12, <2>1, <2>2, MatchedStep DEF ExperimentIInv
<1>19. StepsSoFar(g, Append(Lines, e))
  <2> SUFFICES ASSUME g.kind = "bounded", g.at # "idle" PROVE StepsSoFar(g, Append(Lines, e))
    BY DEF StepsSoFar
  <2>1. /\ h.kind = "bounded" /\ g.kind = "bounded" /\ g.n = h.n /\ g.steps = h.steps
        /\ g.results = h.results /\ at # "idle" /\ at # "complete"
    BY <1>3, <1>4, <1>8, <1>10
  <2> DEFINE old == Places(Lines, StepsOf(h.n))
             new == Places(Append(Lines, e), StepsOf(h.n))
             m == Len(Lines) + 1
  <2>2. Cardinality(old) = h.i - 1 /\ \A i \in old : Lines[i].success
    BY <1>1, <2>1 DEF ExperimentIInv, Sequenced, StepsSoFar
  <2>3. e \in StepsOf(h.n)
    BY <1>5, <1>6, <2>1 DEF StepsOf, Ran
  <2>4. /\ new = old \cup {m} /\ Cardinality(new) = Cardinality(old) + 1
        /\ old \subseteq 1..Len(Lines) /\ Len(Lines) \in Nat
    <3>1. old \subseteq 1..Len(Lines) /\ Len(Lines) \in Nat
      BY <1>12, PlacesAreFinite
    <3>2. new = old \cup {m}
      BY <1>5, <1>12, <2>3, PlacesGrow
    <3>3. Times(Append(Lines, e), StepsOf(h.n)) = Times(Lines, StepsOf(h.n)) + 1
      BY <1>5, <1>12, <2>3, PlacesGrow
    <3> QED
      BY <3>1, <3>2, <3>3 DEF Times
  <2>5. Cardinality(new) = h.i
    BY <1>3, <2>2, <2>4
  <2>6. (\A i \in old : Append(Lines, e)[i].success) /\ Append(Lines, e)[m].success = ok
        /\ \A i \in old : i < m
    BY <1>5, <1>6, <1>12, <2>2, <2>4, AppendProperties
  <2> HIDE DEF old, m
  <2>7. \A i, j \in new : i < j => Append(Lines, e)[i].success
    <3> SUFFICES ASSUME NEW i \in new, NEW j \in new, i < j, i = m PROVE FALSE
      BY <2>4, <2>6
    <3>1. m \in Nat /\ ~(m < m) /\ \A k \in old : k \in Nat
      BY <2>4 DEF m
    <3> QED
      BY <2>4, <2>6, <3>1
  <2>8. (\A i \in new : Append(Lines, e)[i].success) <=> ok
    BY <2>4, <2>6
  <2>9. CASE at = "start"
    <3>1. ok /\ g.i = h.i + 1
      BY <1>8, <1>10, <2>1, <2>9
    <3>2. Cardinality(new) = g.i - 1
      BY <1>3, <2>5, <3>1
    <3>3. g.at = "start" /\ \A i \in new : Append(Lines, e)[i].success
      BY <1>10, <2>8, <2>9, <3>1
    <3> QED
      BY <2>1, <3>2, <3>3 DEF StepsSoFar
  <2>10. CASE at = "close"
    <3>1. h.i = Len(h.steps) \/ ~ok
      BY <1>3, <1>8, <2>1, <2>10
    <3>2. SequenceSuccess(g) <=> Len(h.results) = Len(h.steps) /\ \A i \in DOMAIN h.results : h.results[i]
      BY <2>1 DEF SequenceSuccess
    <3>3. (\A i \in DOMAIN h.results : h.results[i]) <=> ok
      <4>1. \A i \in DOMAIN h.results : i < h.i \/ i = h.i
        BY <1>3, <1>4, <2>1
      <4> QED
        BY <1>3, <1>4, <2>1, <4>1
    <3>4. Len(h.results) = Cardinality(new)
      BY <1>4, <2>1, <2>5
    <3>5. SequenceSuccess(g) <=>
            Cardinality(new) = Len(h.steps) /\ \A i \in new : Append(Lines, e)[i].success
      BY <2>8, <3>2, <3>3, <3>4
    <3>6. g.at = "close"
      BY <1>10, <2>10
    <3> HIDE DEF new
    <3>7. new = Places(Append(Lines, e), StepsOf(g.n)) /\ g.steps = h.steps
      BY <2>1 DEF new
    <3> QED
      BY <2>7, <3>5, <3>6, <3>7, Zenon DEF StepsSoFar
  <2> QED
    BY <1>9, <2>1, <2>9, <2>10
<1>20. Sequenced'
  <2>1. g.at = "idle" \/ g.n = h.n
    BY <1>10
  <2>2. e.type # "sequence_completed" /\ h.at # "idle" /\ (e.parent = 0 \/ e.parent = h.n)
    BY <1>1, <1>6
  <2> QED
    BY <1>1, <1>5, <1>7, <1>12, <1>19, <2>1, <2>2, SequencedStep DEF ExperimentIInv
<1> QED
  BY <1>14, <1>15, <1>18, <1>20 DEF ExperimentIInv

\* The steps of a sequence in lines, as its end counts them.
LEMMA StepsAre ==
  ASSUME NEW s \in Seq(Events), NEW n
  PROVE  /\ {i \in Where(s, "completed") : s[i].parent = n} = Places(s, StepsOf(n))
         /\ Where(s, "completed") = Places(s, Ran)
<1>1. \A i \in DOMAIN s : s[i] \in Events
  OBVIOUS
<1> QED
  BY <1>1 DEF Where, Places, StepsOf, Ran

\* A sequence closes with the success that its steps show.
LEMMA CloseSequenceStep ==
  ASSUME ExperimentIInv, NEW t \in Turns, CloseSequence(t)
  PROVE  ExperimentIInv'
<1> DEFINE h == turn[t]
           e == SequenceCompleted(h)
           g == NextHand(h, "idle")
<1>1. /\ h.at = "close" /\ Emit(e) /\ UNCHANGED handoffs /\ Moves(t, "idle")
      /\ tally' = [tally EXCEPT !.visible = @ + 1]
  BY DEF CloseSequence
<1>2. /\ h \in Turn /\ HandShape(h) /\ handoffs \in 0..MaxHandoffs /\ handoffs \in Nat /\ tally \in Tallies
      /\ turn \in [Turns -> Turn]
  BY ExperimentAssumption DEF ExperimentIInv, ExperimentShape
<1>3. h.kind = "bounded" /\ h.n \in 1..handoffs /\ Len(h.steps) \in Nat
  <2>1. h.steps \in Seq(STRING \X STRING)
    BY <1>2 DEF Turn
  <2> QED
    BY <1>1, <1>2, <2>1 DEF HandShape
<1>4. e \in Events
  BY <1>1, <1>2, EventsAre
<1>5. /\ e.type = "sequence_completed" /\ e.parent = 0 /\ e.call = <<"id", h.n, 0>>
      /\ e.op = <<"requested", Len(h.steps)>> /\ e.success = SequenceSuccess(h)
  BY DEF SequenceCompleted, Event
<1>6. turn' = [turn EXCEPT ![t] = g]
  BY <1>1 DEF Moves, NextHand
<1>7. /\ g \in Turn /\ g.at = "idle" /\ g.steps = << >> /\ g.results = << >> /\ g.kind = "none"
  BY <1>2, NextHandIs
<1> HIDE DEF g, e
<1>8. HandShape(g)
  BY <1>7 DEF HandShape
<1>9. /\ Lines \in Seq(Events) /\ Lines' = Append(Lines, e)
      /\ trace' \in Seq(Events) /\ buffer' \in Seq(Events) /\ trace' # << >> /\ trace'[1] = TaskStarted
      /\ faults' \in 0..MaxFaults
  BY <1>1, <1>4, EmitAppends DEF ExperimentIInv
<1>10. /\ tally' \in Tallies /\ tally'.ran = tally.ran + 0 /\ tally'.failed = tally.failed + 0
       /\ tally'.visible = tally.visible + 1 /\ tally'.verified = tally.verified + 0
  BY <1>1, <1>2 DEF Tallies
<1>11. ExperimentShape'
  BY <1>1, <1>6, <1>7, <1>8, <1>9, <1>10, ShapeStep DEF ExperimentIInv
<1>12. e \notin Ran /\ e \in Ended
  BY <1>4, <1>5 DEF Ran, Ended
<1>13. Tallied'
  <2>1. e \notin RanBadly /\ e \in Ended \cup RanAlone /\ e \notin Checked
    BY <1>5, <1>12 DEF RanBadly, Checked
  <2> QED
    BY <1>4, <1>9, <1>10, <1>12, <2>1, TalliedStep DEF ExperimentIInv
<1>14. Matched'
  <2>1. \A id : e \notin EndsOf(id)
    BY <1>12 DEF EndsOf
  <2>2. Pending(g) = {}
    BY <1>7 DEF Pending
  <2> QED
    BY <1>4, <1>6, <1>9, <2>1, <2>2, MatchedStep DEF ExperimentIInv
<1>15. StepsMakeSequence(Append(Lines, e))
  <2> DEFINE r == Append(Lines, e)
             steps == Places(r, StepsOf(h.n))
  <2>1. r \in Seq(Events) /\ r[Len(r)] = e
    BY <1>4, <1>9, AppendProperties
  <2>2. e \notin StepsOf(h.n)
    BY <1>12 DEF StepsOf
  <2>3. StepsSoFar(h, r)
    BY <1>4, <1>9, <2>2, StepsKept DEF ExperimentIInv, Sequenced
  <2> HIDE DEF r
  <2>4. /\ \A i, j \in steps : i < j => r[i].success
        /\ SequenceSuccess(h) <=> Cardinality(steps) = Len(h.steps) /\ \A i \in steps : r[i].success
    BY <1>1, <1>3, <2>3 DEF StepsSoFar
  <2>5. r[Len(r)].call[2] = h.n /\ r[Len(r)].op[2] = Len(h.steps)
    BY <1>5, <2>1
  <2>6. {i \in Where(r, "completed") : r[i].parent = r[Len(r)].call[2]} = steps
    BY <2>1, <2>5, StepsAre
  <2>7. r[Len(r)].success <=> Cardinality(steps) = r[Len(r)].op[2] /\ \A i \in steps : r[i].success
    BY <1>5, <2>1, <2>4, <2>5
  <2> HIDE DEF steps
  <2> QED
    BY <2>4, <2>6, <2>7, Zenon DEF StepsMakeSequence, r
<1>16. Sequenced'
  <2>1. StepsSoFar(g, Append(Lines, e))
    BY <1>7 DEF StepsSoFar
  <2> QED
    BY <1>1, <1>4, <1>5, <1>6, <1>7, <1>9, <1>15, <2>1, SequencedStep DEF ExperimentIInv
<1> QED
  BY <1>11, <1>13, <1>14, <1>16 DEF ExperimentIInv

\* The end of a task is a line that belongs to no call.
LEMMA CompleteTaskStep == ASSUME ExperimentIInv, CompleteTask PROVE ExperimentIInv'
<1> DEFINE e == TaskCompleted
<1>1. Emit(e) /\ UNCHANGED <<turn, handoffs, tally>>
  BY DEF CompleteTask
<1>2. e \in Events /\ e.type = "task_completed" /\ e.parent = 0
  <2>1. e.type = "task_completed" /\ e.parent = 0
    BY DEF TaskCompleted, Event
  <2>2. /\ Task \in CallIds /\ NoOp \in RecordedOperations /\ 0 \in 0..MaxHandoffs /\ TRUE \in BOOLEAN
        /\ "task_completed" \in EventTypes
    BY ExperimentAssumption DEF Task, CallIds, RecordedOperations, EventTypes
  <2> QED
    BY <2>1, <2>2 DEF TaskCompleted, Event, Events
<1> HIDE DEF e
<1>3. /\ Lines \in Seq(Events) /\ Lines' = Append(Lines, e)
      /\ trace' \in Seq(Events) /\ buffer' \in Seq(Events) /\ trace' # << >> /\ trace'[1] = TaskStarted
      /\ faults' \in 0..MaxFaults
  BY <1>1, <1>2, EmitAppends DEF ExperimentIInv
<1>4. ExperimentShape'
  <2>1. \A t \in Turns : HandShape(turn[t])'
    BY <1>1 DEF ExperimentIInv, ExperimentShape, HandShape
  <2> QED
    BY <1>1, <1>3, <2>1 DEF ExperimentIInv, ExperimentShape
<1>5. e \notin Ran /\ e \notin Ended /\ e \notin Checked
  BY <1>2 DEF Ran, Ended, Checked
<1>6. Tallied'
  <2>1. e \notin RanBadly /\ e \notin Ended \cup RanAlone
    BY <1>5 DEF RanBadly, RanAlone
  <2>2. tally \in Tallies
    BY DEF ExperimentIInv, ExperimentShape
  <2>3. /\ tally'.ran = tally.ran + 0 /\ tally'.failed = tally.failed + 0
        /\ tally'.visible = tally.visible + 0 /\ tally'.verified = tally.verified + 0
    BY <1>1, <2>2 DEF Tallies
  <2> QED
    BY <1>2, <1>3, <1>5, <2>1, <2>3, TalliedStep DEF ExperimentIInv
<1>7. Matched'
  <2>1. ASSUME NEW id \in CallIds
        PROVE  /\ Times(Lines', EndsOf(id)) = Times(Lines, EndsOf(id))
               /\ Times(Lines', StartsOf(id)) = Times(Lines, StartsOf(id))
               /\ Waiting(id)' = Waiting(id)
    <3>1. e \notin EndsOf(id) /\ e \notin StartsOf(id)
      BY <1>2 DEF EndsOf, StartsOf, Ran
    <3>2. Waiting(id)' = Waiting(id)
      BY <1>1, Zenon DEF Waiting
    <3> QED
      BY <1>2, <1>3, <3>1, <3>2, PlacesGrow
  <2>2. ASSUME NEW id \in CallIds
        PROVE  Times(Lines, EndsOf(id)) <= Times(Lines, StartsOf(id))
    <3>1. Waiting(id) \in SUBSET Turns
      BY DEF Waiting
    <3>2. Cardinality(Waiting(id)) \in Nat
      BY <3>1, ExperimentAssumption, FS_Subset, FS_CardinalityType
    <3>3. Times(Lines, EndsOf(id)) \in Nat /\ Times(Lines, StartsOf(id)) \in Nat
      BY <1>3, PlacesAreFinite
    <3>4. Times(Lines, EndsOf(id)) + Cardinality(Waiting(id)) <= Times(Lines, StartsOf(id))
      BY DEF ExperimentIInv, Matched
    <3> QED
      BY <3>2, <3>3, <3>4
  <2>3. ASSUME NEW id \in CallIds, NEW n \in DOMAIN Lines'
        PROVE  Times(SubSeq(Lines', 1, n), EndsOf(id)) <= Times(SubSeq(Lines', 1, n), StartsOf(id))
    <3>1. \/ n \in DOMAIN Lines /\ SubSeq(Lines', 1, n) = SubSeq(Lines, 1, n)
          \/ SubSeq(Lines', 1, n) = Lines'
      BY <1>2, <1>3, PrefixesGrow
    <3> QED
      BY <2>1, <2>2, <3>1 DEF ExperimentIInv, Matched
  <2>4. \A id \in CallIds : EndsOf(id)' = EndsOf(id) /\ StartsOf(id)' = StartsOf(id)
    BY DEF EndsOf, StartsOf
  <2>5. \A id \in CallIds :
          Times(Lines', EndsOf(id)) + Cardinality(Waiting(id)') <= Times(Lines', StartsOf(id))
    BY <2>1 DEF ExperimentIInv, Matched
  <2> QED
    BY <2>3, <2>4, <2>5 DEF Matched
<1>8. Sequenced'
  <2>1. \A n : e \notin StepsOf(n)
    BY <1>5 DEF StepsOf
  <2>2. \A t \in Turns : StepsSoFar(turn[t], Lines')
    BY <1>2, <1>3, <2>1, StepsKept DEF ExperimentIInv, Sequenced
  <2>3. handoffs \in Nat
    BY ExperimentAssumption DEF ExperimentIInv, ExperimentShape
  <2>4. \A i \in DOMAIN Lines' : Lines'[i].parent <= handoffs
    BY <1>2, <1>3, <2>3, PrefixesGrow, AppendProperties DEF ExperimentIInv, Sequenced
  <2>5. ASSUME NEW n \in DOMAIN Lines', Lines'[n].type = "sequence_completed"
        PROVE  StepsMakeSequence(SubSeq(Lines', 1, n))
    <3>1. CASE n \in DOMAIN Lines /\ SubSeq(Lines', 1, n) = SubSeq(Lines, 1, n) /\ Lines'[n] = Lines[n]
      BY <2>5, <3>1 DEF ExperimentIInv, Sequenced
    <3>2. CASE n = Len(Lines) + 1
      <4>1. Lines'[n] = e
        BY <1>2, <1>3, <3>2, AppendProperties
      <4> QED
        BY <1>2, <2>5, <4>1
    <3> QED
      BY <1>2, <1>3, <3>1, <3>2, PrefixesGrow
  <2> QED
    BY <1>1, <2>2, <2>4, <2>5 DEF ExperimentIInv, Sequenced
<1> QED
  BY <1>4, <1>6, <1>7, <1>8 DEF ExperimentIInv

\* Dropping the recorder flushes what was buffered: the lines are the same.
LEMMA DropRecorderStep == ASSUME ExperimentIInv, DropRecorder PROVE ExperimentIInv'
<1>1. trace' = trace \o buffer /\ buffer' = << >> /\ UNCHANGED <<turn, handoffs, tally, faults>>
  BY DEF DropRecorder
<1>2. /\ trace \in Seq(Events) /\ buffer \in Seq(Events) /\ trace # << >> /\ trace[1] = TaskStarted
  BY DEF ExperimentIInv, ExperimentShape
<1>3. /\ trace \o buffer \in Seq(Events) /\ Len(trace \o buffer) = Len(trace) + Len(buffer)
      /\ \A i \in 1..Len(trace) + Len(buffer) : (trace \o buffer)[i] =
           IF i <= Len(trace) THEN trace[i] ELSE buffer[i - Len(trace)]
  BY <1>2, ConcatProperties
<1>4. trace' \in Seq(Events) /\ trace' # << >> /\ trace'[1] = TaskStarted
  <2>1. Len(trace) \in Nat \ {0} /\ Len(buffer) \in Nat
    BY <1>2, EmptySeq
  <2>2. 1 \in 1..Len(trace) + Len(buffer) /\ 1 <= Len(trace)
    BY <2>1
  <2>3. Len(trace \o buffer) # 0
    BY <1>3, <2>1
  <2> QED
    BY <1>1, <1>2, <1>3, <2>2, <2>3, EmptySeq
<1>5. Lines' = Lines
  BY <1>1, <1>3, <1>4, ConcatEmptySeq DEF Lines
<1>6. ExperimentShape'
  <2>1. \A t \in Turns : HandShape(turn[t])'
    BY <1>1 DEF ExperimentIInv, ExperimentShape, HandShape
  <2> QED
    BY <1>1, <1>4, <2>1, EmptySeq DEF ExperimentIInv, ExperimentShape
<1>7. Tallied' /\ Matched' /\ Sequenced'
  <2>1. \A id \in CallIds : Waiting(id)' = Waiting(id)
    BY <1>1, Zenon DEF Waiting
  <2>2. \A id \in CallIds : EndsOf(id)' = EndsOf(id) /\ StartsOf(id)' = StartsOf(id)
    BY DEF EndsOf, StartsOf
  <2>3. Tallied'
    BY <1>1, <1>5 DEF ExperimentIInv, Tallied
  <2>4. Matched'
    BY <1>5, <2>1, <2>2 DEF ExperimentIInv, Matched
  <2>5. Sequenced'
    BY <1>1, <1>5 DEF ExperimentIInv, Sequenced
  <2> QED
    BY <2>3, <2>4, <2>5
<1> QED
  BY <1>6, <1>7 DEF ExperimentIInv

\* The recorder starts with one line.
LEMMA ExperimentInitially == ASSUME ExperimentInit PROVE ExperimentIInv
<1>1. /\ trace = <<TaskStarted>> /\ turn = [t \in Turns |-> NoTurn] /\ handoffs = 0
      /\ tally = [ran |-> 0, failed |-> 0, visible |-> 0, verified |-> 0]
      /\ buffer = << >> /\ faults = 0
  BY DEF ExperimentInit
<1> DEFINE e == TaskStarted
<1>2. e \in Events /\ e.type = "task_started" /\ e.parent = 0
  <2>1. e.type = "task_started" /\ e.parent = 0
    BY DEF TaskStarted, Event
  <2>2. /\ Task \in CallIds /\ NoOp \in RecordedOperations /\ 0 \in 0..MaxHandoffs /\ TRUE \in BOOLEAN
        /\ "task_started" \in EventTypes
    BY ExperimentAssumption DEF Task, CallIds, RecordedOperations, EventTypes
  <2> QED
    BY <2>1, <2>2 DEF TaskStarted, Event, Events
<1>3. << >> \in Seq(Events) /\ <<e>> \in Seq(Events) /\ Len(<<e>>) = 1 /\ <<e>>[1] = e
      /\ DOMAIN <<e>> = 1..1
  BY <1>2
<1>4. Lines = <<e>>
  BY <1>1, <1>3, ConcatEmptySeq DEF Lines
<1>5. \A t \in Turns : turn[t] = NoTurn
  BY <1>1
<1>6. NoTurn \in Turn /\ HandShape(NoTurn) /\ NoTurn.at = "idle" /\ NoTurn.kind = "none"
  <2>1. /\ << >> \in Seq(BOOLEAN) /\ << >> \in Seq(STRING \X STRING) /\ 0 \in 0..MaxHandoffs
    BY ExperimentAssumption
  <2>2. NoTurn \in Turn
    BY <2>1 DEF NoTurn, Turn
  <2> QED
    BY <2>2 DEF HandShape, NoTurn
<1> HIDE DEF e
<1>7. ExperimentShape
  <2>1. tally \in Tallies /\ handoffs \in 0..MaxHandoffs /\ faults \in 0..MaxFaults
    BY <1>1, ExperimentAssumption DEF Tallies
  <2>2. turn \in [Turns -> Turn]
    BY <1>1, <1>6
  <2>3. trace \in Seq(Events) /\ buffer \in Seq(Events) /\ trace # << >> /\ trace[1] = TaskStarted
    BY <1>1, <1>3 DEF e
  <2> QED
    BY <1>5, <1>6, <2>1, <2>2, <2>3 DEF ExperimentShape
<1>8. ASSUME NEW kept, e \notin kept PROVE Times(<<e>>, kept) = 0
  <2>1. Places(<<e>>, kept) = {}
    BY <1>3, <1>8 DEF Places
  <2> QED
    BY <2>1, FS_EmptySet DEF Times
<1>9. e \notin Ran /\ e \notin Ended /\ e \notin Checked
  BY <1>2 DEF Ran, Ended, Checked
<1>10. Tallied
  <2>1. e \notin RanBadly /\ e \notin RanAlone
    BY <1>9 DEF RanBadly, RanAlone
  <2> QED
    BY <1>1, <1>4, <1>8, <1>9, <2>1 DEF Tallied
<1>11. Matched
  <2>1. ASSUME NEW id \in CallIds
        PROVE  Times(<<e>>, EndsOf(id)) = 0 /\ Times(<<e>>, StartsOf(id)) = 0 /\ Waiting(id) = {}
    <3>1. e \notin EndsOf(id) /\ e \notin StartsOf(id)
      BY <1>2, <1>9 DEF EndsOf, StartsOf
    <3>2. Pending(NoTurn) = {}
      BY <1>6 DEF Pending
    <3> QED
      BY <1>5, <1>8, <3>1, <3>2 DEF Waiting
  <2>2. \A n \in DOMAIN Lines : SubSeq(Lines, 1, n) = <<e>>
    <3>1. SubSeq(<<e>>, 1, Len(<<e>>)) = <<e>>
      BY <1>3, SubSeqFull
    <3> QED
      BY <1>3, <1>4, <3>1
  <2> QED
    <3>1. Cardinality({}) = 0 /\ 0 + 0 <= 0 /\ 0 <= 0
      BY FS_EmptySet
    <3>2. \A id \in CallIds :
            /\ \A n \in DOMAIN Lines :
                 Times(SubSeq(Lines, 1, n), EndsOf(id)) <= Times(SubSeq(Lines, 1, n), StartsOf(id))
            /\ Times(Lines, EndsOf(id)) + Cardinality(Waiting(id)) <= Times(Lines, StartsOf(id))
      BY <1>4, <2>1, <2>2, <3>1
    <3> QED
      BY <3>2 DEF Matched
<1>12. Sequenced
  <2>1. \A t \in Turns : StepsSoFar(turn[t], Lines)
    BY <1>5, <1>6 DEF StepsSoFar
  <2>2. \A n \in DOMAIN Lines : Lines[n] = e
    BY <1>3, <1>4
  <2>3. e.parent <= handoffs
    BY <1>1, <1>2
  <2> QED
    BY <1>2, <1>5, <1>6, <2>1, <2>2, <2>3 DEF Sequenced
<1> QED
  BY <1>7, <1>10, <1>11, <1>12 DEF ExperimentIInv

\* The tally, the pairs of starts and ends and the sequences are inductive together.
LEMMA ExperimentInductive == ExperimentSpec => []ExperimentIInv
<1>1. ExperimentInit => ExperimentIInv
  BY ExperimentInitially
<1>2. ExperimentIInv /\ [ExperimentNext]_experimentVars => ExperimentIInv'
  <2> SUFFICES ASSUME ExperimentIInv, [ExperimentNext]_experimentVars PROVE ExperimentIInv'
    OBVIOUS
  <2>1. CASE CompleteTask
    BY <2>1, CompleteTaskStep
  <2>2. CASE DropRecorder
    BY <2>2, DropRecorderStep
  <2>3. ASSUME NEW t \in Turns,
               HandOff(t) \/ OpenSequence(t) \/ Started(t) \/ Run(t) \/ Completed(t) \/ CloseSequence(t)
        PROVE  ExperimentIInv'
    BY <2>3, HandOffStep, OpenSequenceStep, StartedStep, RunTurnStep, CompletedStep, CloseSequenceStep
  <2>4. CASE UNCHANGED experimentVars
    <3>1. UNCHANGED <<trace, buffer, turn, handoffs, tally, faults>>
      BY <2>4 DEF experimentVars
    <3>2. Lines' = Lines
      BY <3>1 DEF Lines
    <3>3. ExperimentShape'
      BY <3>1 DEF ExperimentIInv, ExperimentShape, HandShape
    <3>4. Tallied'
      BY <3>1, <3>2 DEF ExperimentIInv, Tallied
    <3>5. Matched'
      <4>1. \A id \in CallIds : Waiting(id)' = Waiting(id)
        BY <3>1, Zenon DEF Waiting
      <4>2. \A id \in CallIds : EndsOf(id)' = EndsOf(id) /\ StartsOf(id)' = StartsOf(id)
        BY DEF EndsOf, StartsOf
      <4> QED
        BY <3>2, <4>1, <4>2 DEF ExperimentIInv, Matched
    <3>6. Sequenced'
      BY <3>1, <3>2 DEF ExperimentIInv, Sequenced
    <3> QED
      BY <3>3, <3>4, <3>5, <3>6 DEF ExperimentIInv
  <2> QED
    BY <2>1, <2>2, <2>3, <2>4 DEF ExperimentNext
<1> QED
  BY <1>1, <1>2, PTL DEF ExperimentSpec

\* What the file holds is how the lines begin.
LEMMA TraceIsPrefix ==
  ASSUME ExperimentShape, NEW n \in DOMAIN trace
  PROVE  /\ n \in DOMAIN Lines /\ SubSeq(trace, 1, n) = SubSeq(Lines, 1, n)
         /\ SubSeq(Lines, 1, n) \in Seq(Events) /\ Len(SubSeq(Lines, 1, n)) = n
         /\ SubSeq(Lines, 1, n)[n] = Lines[n] /\ n \in Nat \ {0}
<1>1. trace \in Seq(Events) /\ buffer \in Seq(Events)
  BY DEF ExperimentShape
<1>2. /\ Lines \in Seq(Events) /\ Len(Lines) = Len(trace) + Len(buffer)
  BY <1>1, ConcatProperties DEF Lines
<1>3. Len(trace) \in Nat /\ Len(buffer) \in Nat /\ DOMAIN trace = 1..Len(trace) /\ DOMAIN Lines = 1..Len(Lines)
  BY <1>1, <1>2
<1>4. n \in 1..Len(Lines) /\ n \in 1..Len(trace) /\ 1 \in 1..Len(trace) /\ n \in 1..n
  BY <1>2, <1>3
<1>5. SubSeq(trace, 1, n) = SubSeq(Lines, 1, n)
  BY <1>1, <1>4, SubSeqOfConcat1 DEF Lines
<1> QED
  BY <1>2, <1>3, <1>4, <1>5, PlacesOfPrefix

(* The turns are where a hand-off may be, with no more results than steps, *)
(* and the file starts with task_started.                                  *)
THEOREM ExperimentTypeCorrect == ExperimentSpec => []ExperimentTypeOK
<1>1. ExperimentIInv => ExperimentTypeOK
  <2> SUFFICES ASSUME ExperimentIInv PROVE ExperimentTypeOK
    OBVIOUS
  <2>1. ExperimentShape
    BY DEF ExperimentIInv
  <2>2. ASSUME NEW t \in Turns
        PROVE  /\ turn[t].at \in {"idle", "open", "start", "run", "complete", "close"}
               /\ Len(turn[t].results) <= Len(turn[t].steps)
    <3> DEFINE h == turn[t]
    <3>1. h \in Turn /\ HandShape(h)
      BY <2>1 DEF ExperimentShape
    <3> HIDE DEF h
    <3>2. /\ h.at \in {"idle", "open", "start", "run", "complete", "close"}
          /\ h.i \in Nat /\ h.steps \in Seq(STRING \X STRING) /\ h.results \in Seq(BOOLEAN)
      BY <3>1 DEF Turn
    <3>3. Len(h.steps) \in Nat /\ Len(h.results) \in Nat
      BY <3>2
    <3>4. CASE h.at = "idle"
      <4>1. h.results = << >>
        BY <3>1, <3>4 DEF HandShape
      <4>2. Len(h.results) = 0
        BY <4>1, EmptySeq
      <4> QED
        BY <3>2, <3>3, <4>2 DEF h
    <3>5. CASE h.at \in {"open", "start", "run"}
      <4>1. h.i \in 1..Len(h.steps) /\ (Len(h.results) = 0 \/ Len(h.results) = h.i - 1)
        BY <3>1, <3>5 DEF HandShape
      <4> QED
        BY <3>2, <3>3, <4>1 DEF h
    <3>6. CASE h.at \in {"complete", "close"}
      BY <3>1, <3>2, <3>6 DEF HandShape, h
    <3> QED
      BY <3>2, <3>4, <3>5, <3>6 DEF h
  <2>3. Head(trace) = TaskStarted
    BY <2>1 DEF ExperimentShape
  <2>4. \A e \in Range(trace \o buffer) : e.type \in EventTypes
    <3>1. Lines \in Seq(Events)
      BY <2>1, LinesAre
    <3>2. \A i \in DOMAIN Lines : Lines[i] \in Events
      BY <3>1
    <3> QED
      BY <3>2 DEF Lines, Range, Events
  <2> QED
    BY <2>1, <2>2, <2>3, <2>4 DEF ExperimentTypeOK, ExperimentShape
<1> QED
  BY <1>1, ExperimentInductive, PTL

(* At every line of the file, no call has ended more often than it has     *)
(* started, and the end of every bounded sequence agrees with the steps    *)
(* that precede it.                                                        *)
THEOREM TraceIsInOrder == ExperimentSpec => []TraceInOrder
<1>1. ExperimentIInv => TraceInOrder
  <2> SUFFICES ASSUME ExperimentIInv PROVE TraceInOrder
    OBVIOUS
  <2>1. ExperimentShape /\ Matched /\ Sequenced
    BY DEF ExperimentIInv
  <2>2. ASSUME NEW events \in Recent
        PROVE  \E n \in DOMAIN Lines : /\ events = SubSeq(Lines, 1, n) /\ events \in Seq(Events)
                                       /\ Len(events) = n /\ n \in Nat \ {0} /\ events[n] = Lines[n]
    <3>1. PICK n \in DOMAIN trace : events = SubSeq(trace, 1, n)
      BY DEF Recent
    <3> QED
      BY <2>1, <3>1, TraceIsPrefix
  <2>3. StartsBeforeEnds
    <3> SUFFICES ASSUME NEW events \in Recent PROVE EndsHaveStarts(events)
      BY DEF StartsBeforeEnds
    <3>1. PICK n \in DOMAIN Lines : /\ events = SubSeq(Lines, 1, n) /\ events \in Seq(Events)
                                    /\ Len(events) = n /\ n \in Nat \ {0} /\ events[n] = Lines[n]
      BY <2>2
    <3> DEFINE id == events[Len(events)].call
    <3>2. \A i \in DOMAIN events : events[i] \in Events
      BY <3>1
    <3>3. events[Len(events)] \in Events
      BY <3>1
    <3>4. id \in CallIds
      BY <3>3 DEF Events
    <3> HIDE DEF id
    <3>5. /\ {i \in Where(events, "completed") : events[i].call = id} = Places(events, EndsOf(id))
          /\ {i \in Where(events, "started") : events[i].call = id} = Places(events, StartsOf(id))
      BY <3>2 DEF Where, Places, EndsOf, StartsOf, Ran
    <3>6. Times(events, EndsOf(id)) <= Times(events, StartsOf(id))
      BY <2>1, <3>1, <3>4 DEF Matched
    <3> QED
      BY <3>5, <3>6 DEF EndsHaveStarts, Times, id
  <2>4. SequencesStop
    <3> SUFFICES ASSUME NEW events \in Recent, events[Len(events)].type = "sequence_completed"
                 PROVE  StepsMakeSequence(events)
      BY DEF SequencesStop
    <3>1. PICK n \in DOMAIN Lines : /\ events = SubSeq(Lines, 1, n) /\ events \in Seq(Events)
                                    /\ Len(events) = n /\ n \in Nat \ {0} /\ events[n] = Lines[n]
      BY <2>2
    <3> QED
      BY <2>1, <3>1 DEF Sequenced
  <2> QED
    BY <2>3, <2>4 DEF TraceInOrder
<1> QED
  BY <1>1, ExperimentInductive, PTL

-----------------------------------------------------------------------------
(* What the analyzer and the miner find.                                    *)

Labelled(P, label, w) == {i \in P : label[i] = w}

\* Counting the elements of P label by label counts each of them once.
LEMMA UnitsAddUp ==
  ASSUME NEW P, IsFiniteSet(P), NEW counts, NEW label \in [P -> DOMAIN counts],
         \A w \in DOMAIN counts : counts[w] = Cardinality(Labelled(P, label, w))
  PROVE  Cardinality(Units(counts)) = Cardinality(P)
<1> DEFINE W == DOMAIN counts
           group(w) == Labelled(P, label, w)
           nth == [w \in W |-> CHOOSE f : f \in Bijection(1..counts[w], group(w))]
           f == [x \in Units(counts) |-> nth[x[1]][x[2]]]
<1>1. ASSUME NEW w \in W
      PROVE  /\ counts[w] \in Nat /\ nth[w] \in Bijection(1..counts[w], group(w))
  <2>1. group(w) \in SUBSET P /\ counts[w] = Cardinality(group(w))
    BY DEF Labelled
  <2>2. IsFiniteSet(group(w))
    BY <2>1, FS_Subset
  <2>3. counts[w] \in Nat /\ ExistsBijection(1..counts[w], group(w))
    BY <2>1, <2>2, FS_CardinalityType
  <2>4. \E g : g \in Bijection(1..counts[w], group(w))
    BY <2>3 DEF ExistsBijection
  <2>5. nth[w] = CHOOSE g : g \in Bijection(1..counts[w], group(w))
    OBVIOUS
  <2> HIDE DEF nth, group
  <2> QED
    BY <2>3, <2>4, <2>5
<1>2. DOMAIN counts = W
  OBVIOUS
<1>3. \A x \in Units(counts) : x[1] \in W /\ x[2] \in 1..counts[x[1]] /\ x = <<x[1], x[2]>>
  <2> SUFFICES ASSUME NEW x \in Units(counts)
               PROVE  x[1] \in W /\ x[2] \in 1..counts[x[1]] /\ x = <<x[1], x[2]>>
    OBVIOUS
  <2>1. PICK w \in W : x \in {w} \X (1..counts[w])
    BY <1>2 DEF Units
  <2> QED
    BY <2>1
<1>4. \A w \in W : \A k \in 1..counts[w] : <<w, k>> \in Units(counts)
  BY <1>2 DEF Units
<1>5. \A w \in W : /\ \A k \in 1..counts[w] : nth[w][k] \in P /\ label[nth[w][k]] = w
                   /\ \A k, l \in 1..counts[w] : nth[w][k] = nth[w][l] => k = l
                   /\ \A i \in P : label[i] = w => \E k \in 1..counts[w] : nth[w][k] = i
  <2> SUFFICES ASSUME NEW w \in W
               PROVE  /\ \A k \in 1..counts[w] : nth[w][k] \in P /\ label[nth[w][k]] = w
                      /\ \A k, l \in 1..counts[w] : nth[w][k] = nth[w][l] => k = l
                      /\ \A i \in P : label[i] = w => \E k \in 1..counts[w] : nth[w][k] = i
    OBVIOUS
  <2>1. nth[w] \in Bijection(1..counts[w], group(w))
    BY <1>1
  <2> HIDE DEF nth
  <2>2. nth[w] \in [1..counts[w] -> group(w)]
    BY <2>1 DEF Bijection, Injection
  <2>3. \A k, l \in 1..counts[w] : nth[w][k] = nth[w][l] => k = l
    BY <2>1, <2>2 DEF Bijection, Injection, IsInjective
  <2>4. \A i \in group(w) : \E k \in 1..counts[w] : nth[w][k] = i
    BY <2>1 DEF Bijection, Surjection
  <2> QED
    BY <2>2, <2>3, <2>4 DEF Labelled
<1> HIDE DEF nth, group
<1>6. \A x \in Units(counts) : f[x] \in P /\ label[f[x]] = x[1] /\ f[x] = nth[x[1]][x[2]]
  <2> SUFFICES ASSUME NEW x \in Units(counts)
               PROVE  f[x] \in P /\ label[f[x]] = x[1] /\ f[x] = nth[x[1]][x[2]]
    OBVIOUS
  <2>1. f[x] = nth[x[1]][x[2]]
    OBVIOUS
  <2>2. x[1] \in W /\ x[2] \in 1..counts[x[1]]
    BY <1>3
  <2> HIDE DEF f
  <2> QED
    BY <1>5, <2>1, <2>2
<1>7. f \in [Units(counts) -> P]
  BY <1>6
<1>8. \A x, y \in Units(counts) : f[x] = f[y] => x = y
  <2> SUFFICES ASSUME NEW x \in Units(counts), NEW y \in Units(counts), f[x] = f[y] PROVE x = y
    OBVIOUS
  <2>1. x[1] = y[1]
    BY <1>6
  <2>2. x[2] = y[2]
    <3>1. nth[x[1]][x[2]] = nth[x[1]][y[2]]
      BY <1>6, <2>1, Zenon
    <3>2. x[1] \in W /\ x[2] \in 1..counts[x[1]] /\ y[2] \in 1..counts[x[1]]
      BY <1>3, <2>1
    <3> QED
      BY <1>5, <3>1, <3>2
  <2> QED
    BY <1>3, <2>1, <2>2
<1>9. \A i \in P : \E x \in Units(counts) : f[x] = i
  <2> SUFFICES ASSUME NEW i \in P PROVE \E x \in Units(counts) : f[x] = i
    OBVIOUS
  <2>1. label[i] \in W
    OBVIOUS
  <2>2. PICK k \in 1..counts[label[i]] : nth[label[i]][k] = i
    BY <1>5, <2>1
  <2>3. <<label[i], k>> \in Units(counts)
    BY <1>4, <2>1
  <2> QED
    BY <1>6, <2>2, <2>3
<1> HIDE DEF f
<1>10. f \in Bijection(Units(counts), P)
  BY <1>7, <1>8, <1>9 DEF Bijection, Injection, IsInjective, Surjection
<1>11. ExistsBijection(P, Units(counts))
  BY <1>10, Fun_ExistsBijSymmetric DEF ExistsBijection
<1> QED
  BY <1>11, FS_Bijection

\* The numbers of the analyzer are how often some events are among those of a trace.
LEMMA MetricsAre ==
  ASSUME NEW s \in Seq(Events)
  PROVE  /\ Metrics(s).underlying = Times(s, Ran) /\ Metrics(s).failed = Times(s, RanBadly)
         /\ Metrics(s).visible = Times(s, Ended) + Times(s, RanAlone)
         /\ CheckCounts(s).all = Times(s, Checked)
         /\ CheckCounts(s).passed + CheckCounts(s).failed = CheckCounts(s).all
<1>1. \A i \in DOMAIN s : s[i] \in Events
  OBVIOUS
<1>2. /\ Where(s, "completed") = Places(s, Ran) /\ Where(s, "sequence_completed") = Places(s, Ended)
      /\ Where(s, "verification_completed") = Places(s, Checked)
      /\ {i \in Places(s, Ran) : s[i].parent = 0} = Places(s, RanAlone)
      /\ {i \in Places(s, Ran) : ~s[i].success} = Places(s, RanBadly)
  BY <1>1 DEF Where, Places, Ran, Ended, Checked, RanAlone, RanBadly
<1>3. /\ Metrics(s).underlying = Times(s, Ran) /\ Metrics(s).failed = Times(s, RanBadly)
      /\ Metrics(s).visible = Times(s, Ended) + Times(s, RanAlone)
      /\ CheckCounts(s).all = Times(s, Checked)
  BY <1>2 DEF Metrics, CheckCounts, Count, Times
<1>4. CheckCounts(s).passed + CheckCounts(s).failed = CheckCounts(s).all
  <2> DEFINE checks == Places(s, Checked)
             passed == {i \in checks : s[i].success}
             failed == {i \in checks : ~s[i].success}
  <2>1. IsFiniteSet(checks)
    BY PlacesAreFinite
  <2>2. passed \in SUBSET checks /\ failed \in SUBSET checks /\ passed \cap failed = {}
        /\ passed \cup failed = checks
    OBVIOUS
  <2>3. CheckCounts(s).passed = Cardinality(passed) /\ CheckCounts(s).failed = Cardinality(failed)
    BY <1>2 DEF CheckCounts
  <2> HIDE DEF checks, passed, failed
  <2>4. IsFiniteSet(passed) /\ IsFiniteSet(failed)
    BY <2>1, <2>2, FS_Subset
  <2>5. Cardinality(checks) = Cardinality(passed) + Cardinality(failed)
    <3>1. Cardinality(passed \cup failed) =
            Cardinality(passed) + Cardinality(failed) - Cardinality(passed \cap failed)
      BY <2>4, FS_Union
    <3>2. Cardinality(passed) \in Nat /\ Cardinality(failed) \in Nat /\ Cardinality(passed \cap failed) = 0
      BY <2>2, <2>4, FS_CardinalityType, FS_EmptySet
    <3> QED
      <4>1. PICK a \in Nat, b \in Nat : a = Cardinality(passed) /\ b = Cardinality(failed)
        BY <3>2
      <4>2. Cardinality(checks) = a + b - 0
        BY <2>2, <3>1, <3>2, <4>1, Zenon
      <4>3. a + b - 0 = a + b
        OBVIOUS
      <4> QED
        BY <4>1, <4>2, <4>3, Zenon
  <2> QED
    BY <1>3, <2>3, <2>5 DEF checks, Times
<1> QED
  BY <1>3, <1>4

\* What is mined of a sequence adds up to its length.
LEMMA MinedAddsUp ==
  ASSUME NEW m \in Nat, NEW seq, seq = [i \in 1..m |-> seq[i]]
  PROVE  Cardinality(Units(Mined(seq))) = m
<1>1. DOMAIN seq = 1..m
  OBVIOUS
<1>2. seq \in [1..m -> Range(seq)]
  BY <1>1 DEF Range
<1>3. /\ DOMAIN Mined(seq) = Range(seq)
      /\ \A w \in Range(seq) : Mined(seq)[w] = Cardinality(Labelled(1..m, seq, w))
  BY <1>1, Zenon DEF Mined, Labelled
<1>4. IsFiniteSet(1..m) /\ Cardinality(1..m) = m
  <2>1. 1 \in Int /\ m \in Int
    OBVIOUS
  <2> QED
    BY <2>1, FS_Interval
<1> QED
  <2>1. Cardinality(Units(Mined(seq))) = Cardinality(1..m)
    <3> DEFINE P == 1..m
               counts == Mined(seq)
    <3>1. /\ IsFiniteSet(P) /\ seq \in [P -> DOMAIN counts]
          /\ \A w \in DOMAIN counts : counts[w] = Cardinality(Labelled(P, seq, w))
      BY <1>2, <1>3, <1>4
    <3> HIDE DEF P, counts
    <3>2. Cardinality(Units(counts)) = Cardinality(P)
      BY <3>1, UnitsAddUp
    <3> QED
      BY <3>2 DEF P, counts
  <2> QED
    BY <1>4, <2>1

\* The same of the windows of a sequence.
LEMMA WindowsAddUp ==
  ASSUME NEW S, NEW ops \in Seq(S), NEW w \in Nat \ {0}
  PROVE  Cardinality(Units(Mined(Windows(ops, w)))) = IF Len(ops) < w THEN 0 ELSE Len(ops) - w + 1
<1> DEFINE m == IF Len(ops) < w THEN 0 ELSE Len(ops) - w + 1
           seq == Windows(ops, w)
<1>1. m \in Nat
  <2>1. Len(ops) \in Nat
    OBVIOUS
  <2> QED
    BY <2>1
<1>2. seq = [i \in 1..m |-> SubSeq(ops, i, i + w - 1)]
  BY DEF Windows
<1> HIDE DEF m, seq
<1>3. seq = [i \in 1..m |-> seq[i]]
  BY <1>2
<1>4. Cardinality(Units(Mined(seq))) = m
  BY <1>1, <1>3, MinedAddsUp
<1> QED
  BY <1>4 DEF m, seq

\* The miner reads the calls that completed, one operation for each.
LEMMA NormalizedIs ==
  ASSUME NEW s \in Seq(Events)
  PROVE  /\ Normalized(s) = [i \in 1..Metrics(s).underlying |-> Normalized(s)[i]]
         /\ Normalized(s) \in Seq(Range(Normalized(s))) /\ Len(Normalized(s)) = Metrics(s).underlying
         /\ Metrics(s).underlying \in Nat
<1> DEFINE n == Metrics(s).underlying
           ops == Normalized(s)
<1>1. n = Cardinality(Where(s, "completed")) /\ n \in Nat
  <2>1. Where(s, "completed") = Places(s, Ran) /\ n = Times(s, Ran)
    BY StepsAre, MetricsAre
  <2> QED
    BY <2>1, PlacesAreFinite DEF Times
<1>2. DOMAIN Retained(s, Where(s, "completed")) = 1..n
  BY <1>1 DEF Retained
<1>3. ops = [i \in 1..n |-> Normalize(Retained(s, Where(s, "completed"))[i])]
  BY <1>2, Zenon DEF Normalized
<1> HIDE DEF ops, n
<1>4. ops = [i \in 1..n |-> ops[i]] /\ DOMAIN ops = 1..n
  BY <1>3
<1>5. ops \in [1..n -> Range(ops)]
  BY <1>4 DEF Range
<1>6. ops \in Seq(Range(ops))
  BY <1>1, <1>5, SeqDef
<1>7. Len(ops) = n
  BY <1>1, <1>4, <1>6, LenProperties
<1> QED
  BY <1>1, <1>4, <1>6, <1>7 DEF ops, n

\* The calls and the failures after which the miner counts, operation by operation.
LEMMA AfterAddsUp ==
  ASSUME NEW s \in Seq(Events)
  PROVE  LET after == SuccessAfter(s)
         IN  /\ Cardinality(Units([op \in DOMAIN after |-> after[op][1] + after[op][2]]))
                  = Metrics(s).underlying
             /\ Cardinality(Units([op \in DOMAIN after |-> after[op][2]])) = Metrics(s).failed
<1> DEFINE P == Where(s, "completed")
           F == {i \in P : ~s[i].success}
           label == [i \in P |-> Normalize(s[i])]
           W == {Normalize(s[i]) : i \in P}
           good(op) == {i \in P : Normalize(s[i]) = op /\ s[i].success}
           bad(op) == {i \in P : Normalize(s[i]) = op /\ ~s[i].success}
           all(op) == {i \in P : Normalize(s[i]) = op}
           after == SuccessAfter(s)
<1>1. IsFiniteSet(P) /\ P = Places(s, Ran)
  BY StepsAre, PlacesAreFinite
<1>2. IsFiniteSet(F) /\ F \in SUBSET P
  <2>1. F \in SUBSET P
    OBVIOUS
  <2> QED
    BY <1>1, <2>1, FS_Subset
<1>3. Metrics(s).underlying = Cardinality(P) /\ Metrics(s).failed = Cardinality(F)
  BY DEF Metrics
<1>4. after = [op \in W |-> <<Cardinality(good(op)), Cardinality(bad(op))>>] /\ DOMAIN after = W
  BY DEF SuccessAfter
<1>5. \A op \in W : after[op][1] = Cardinality(good(op)) /\ after[op][2] = Cardinality(bad(op))
  BY <1>4
<1>6. ASSUME NEW op \in W PROVE Cardinality(good(op)) + Cardinality(bad(op)) = Cardinality(all(op))
  <2>1. good(op) \in SUBSET P /\ bad(op) \in SUBSET P /\ good(op) \cap bad(op) = {}
        /\ good(op) \cup bad(op) = all(op)
    BY Zenon
  <2> DEFINE a == good(op)
             b == bad(op)
             c == all(op)
  <2>2. a \in SUBSET P /\ b \in SUBSET P /\ a \cap b = {} /\ a \cup b = c
    BY <2>1
  <2> HIDE DEF a, b, c, P
  <2>3. IsFiniteSet(a) /\ IsFiniteSet(b)
    BY <1>1, <2>2, FS_Subset
  <2>4. Cardinality(a \cup b) = Cardinality(a) + Cardinality(b) - Cardinality(a \cap b)
    BY <2>3, FS_Union
  <2>5. Cardinality(a) \in Nat /\ Cardinality(b) \in Nat /\ Cardinality(a \cap b) = 0
    BY <2>2, <2>3, FS_CardinalityType, FS_EmptySet
  <2>6. Cardinality(a) + Cardinality(b) = Cardinality(c)
    <3>1. PICK x \in Nat, y \in Nat : x = Cardinality(a) /\ y = Cardinality(b)
      BY <2>5
    <3>2. Cardinality(c) = x + y - 0
      BY <2>2, <2>4, <2>5, <3>1, Zenon
    <3>3. x + y - 0 = x + y
      OBVIOUS
    <3> QED
      BY <3>1, <3>2, <3>3, Zenon
  <2> QED
    BY <2>6 DEF a, b, c
<1>7. label \in [P -> W] /\ [i \in F |-> label[i]] \in [F -> W]
  BY <1>2
<1> DEFINE volumes == [op \in DOMAIN after |-> after[op][1] + after[op][2]]
           failures == [op \in DOMAIN after |-> after[op][2]]
<1>8. DOMAIN volumes = W /\ \A op \in W : volumes[op] = Cardinality(Labelled(P, label, op))
  <2>1. \A op \in W : after[op][1] + after[op][2] = Cardinality(all(op))
    BY <1>5, <1>6
  <2>2. \A op \in W : all(op) = Labelled(P, label, op)
    BY Zenon DEF Labelled
  <2> HIDE DEF label, all, W, P, after
  <2>3. volumes = [op \in W |-> after[op][1] + after[op][2]]
    BY <1>4
  <2> QED
    BY <2>1, <2>2, <2>3
<1>9. /\ DOMAIN failures = W
      /\ \A op \in W : failures[op] = Cardinality(Labelled(F, [i \in F |-> label[i]], op))
  <2>1. \A op \in W : bad(op) = Labelled(F, [i \in F |-> label[i]], op)
    BY DEF Labelled
  <2> HIDE DEF label, bad, W, P, F, after
  <2>3. failures = [op \in W |-> after[op][2]]
    BY <1>4
  <2> QED
    BY <1>5, <2>1, <2>3
<1> HIDE DEF label, P, F, W, after, volumes, failures, good, bad, all
<1>10. Cardinality(Units(volumes)) = Cardinality(P)
  <2>1. /\ IsFiniteSet(P) /\ label \in [P -> DOMAIN volumes]
        /\ \A op \in DOMAIN volumes : volumes[op] = Cardinality(Labelled(P, label, op))
    BY <1>1, <1>7, <1>8
  <2> QED
    BY <2>1, UnitsAddUp
<1>11. Cardinality(Units(failures)) = Cardinality(F)
  <2> DEFINE failed == [i \in F |-> label[i]]
  <2>1. /\ IsFiniteSet(F) /\ failed \in [F -> DOMAIN failures]
        /\ \A op \in DOMAIN failures : failures[op] = Cardinality(Labelled(F, failed, op))
    BY <1>2, <1>7, <1>9
  <2> HIDE DEF failed
  <2> QED
    BY <2>1, UnitsAddUp
<1> QED
  BY <1>3, <1>10, <1>11 DEF volumes, failures, after

\* The miner over whatever the file holds.
LEMMA PatternsAreTrue == ASSUME trace \in Seq(Events) PROVE PatternsAddUp
<1> DEFINE ops == Normalized(trace)
           n == Metrics(trace).underlying
           after == SuccessAfter(trace)
<1>1. /\ ops = [i \in 1..n |-> ops[i]] /\ ops \in Seq(Range(ops)) /\ Len(ops) = n /\ n \in Nat
  BY NormalizedIs
<1>2. /\ Cardinality(Units([op \in DOMAIN after |-> after[op][1] + after[op][2]])) = n
      /\ Cardinality(Units([op \in DOMAIN after |-> after[op][2]])) = Metrics(trace).failed
  BY AfterAddsUp
<1> HIDE DEF ops, n, after
<1>3. Cardinality(Units(Mined(ops))) = n
  BY <1>1, MinedAddsUp
<1>4. \A w \in {2, 3} : Cardinality(Units(Mined(Windows(ops, w)))) = IF n < w THEN 0 ELSE n - w + 1
  <2> SUFFICES ASSUME NEW w \in {2, 3}
               PROVE  Cardinality(Units(Mined(Windows(ops, w)))) = IF n < w THEN 0 ELSE n - w + 1
    OBVIOUS
  <2>1. w \in Nat \ {0}
    OBVIOUS
  <2> QED
    BY <1>1, <2>1, WindowsAddUp
<1> QED
  BY <1>2, <1>3, <1>4, Zenon DEF PatternsAddUp, ops, n, after

(* The metrics of a task never count what did not happen, and are exactly  *)
(* what happened when nothing is buffered; what is mined adds up to them.  *)
THEOREM MetricsAreTrue == ExperimentSpec => []MetricsTrue
<1>1. ExperimentIInv => MetricsTrue
  <2> SUFFICES ASSUME ExperimentIInv PROVE MetricsTrue
    OBVIOUS
  <2>1. /\ ExperimentShape /\ Tallied /\ trace \in Seq(Events) /\ trace # << >>
        /\ Lines \in Seq(Events)
    BY LinesAre DEF ExperimentIInv, ExperimentShape
  <2>2. ASSUME NEW kept
        PROVE  /\ Times(trace, kept) \in Nat /\ Times(Lines, kept) \in Nat
               /\ Times(trace, kept) <= Times(Lines, kept)
               /\ buffer = << >> => Times(trace, kept) = Times(Lines, kept)
    <3>1. Len(trace) \in DOMAIN trace /\ Len(trace) \in 1..Len(Lines) /\ trace = SubSeq(Lines, 1, Len(trace))
      <4>1. Len(trace) \in Nat \ {0} /\ DOMAIN trace = 1..Len(trace)
        BY <2>1, EmptySeq
      <4>2. Len(trace) \in DOMAIN trace
        BY <4>1
      <4>3. Len(trace) \in DOMAIN Lines /\ SubSeq(trace, 1, Len(trace)) = SubSeq(Lines, 1, Len(trace))
        BY <2>1, <4>2, TraceIsPrefix
      <4>4. SubSeq(trace, 1, Len(trace)) = trace
        BY <2>1, SubSeqFull
      <4> QED
        BY <2>1, <4>2, <4>3, <4>4, LinesAre
    <3>2. Times(trace, kept) <= Times(Lines, kept)
      BY <2>1, <3>1, PlacesOfPrefix
    <3>3. buffer = << >> => Lines = trace
      BY <2>1, ConcatEmptySeq DEF Lines
    <3> QED
      BY <2>1, <3>2, <3>3, PlacesAreFinite
  <2> DEFINE m == Metrics(trace)
             checks == CheckCounts(trace)
  <2>3. /\ m.underlying = Times(trace, Ran) /\ m.failed = Times(trace, RanBadly)
        /\ m.visible = Times(trace, Ended) + Times(trace, RanAlone)
        /\ checks.all = Times(trace, Checked) /\ checks.passed + checks.failed = checks.all
    BY <2>1, MetricsAre
  <2>4. PatternsAddUp
    BY <2>1, PatternsAreTrue
  <2> HIDE DEF m, checks
  <2>5. /\ m.underlying <= tally.ran /\ m.failed <= tally.failed
        /\ m.visible <= tally.visible /\ checks.all <= tally.verified
    <3>1. Times(trace, Ended) + Times(trace, RanAlone) <= Times(Lines, Ended) + Times(Lines, RanAlone)
      <4>1. PICK a \in Nat, b \in Nat, c \in Nat, d \in Nat :
              a = Times(trace, Ended) /\ b = Times(trace, RanAlone)
              /\ c = Times(Lines, Ended) /\ d = Times(Lines, RanAlone)
        BY <2>2
      <4>2. a <= c /\ b <= d
        BY <2>2, <4>1
      <4>3. a + b <= c + d
        BY <4>2
      <4> QED
        BY <4>1, <4>3, Zenon
    <3> QED
      BY <2>1, <2>2, <2>3, <3>1 DEF Tallied
  <2>6. buffer = << >> => /\ m.underlying = tally.ran /\ m.failed = tally.failed
                          /\ m.visible = tally.visible /\ checks.all = tally.verified
    BY <2>1, <2>2, <2>3, Zenon DEF Tallied
  <2> QED
    BY <2>3, <2>4, <2>5, <2>6 DEF MetricsTrue, m, checks
<1> QED
  BY <1>1, ExperimentInductive, PTL

=============================================================================

----------------------------- MODULE Experiment -----------------------------
(***************************************************************************)
(* The trace of one experiment task (experiment/): agent turns hand work   *)
(* to instrumented calls, each of which appends events to the task's file  *)
(* through one TaskRecorder while others do the same, and the analyzer and *)
(* the pattern miner count what the file then holds.                       *)
(*                                                                         *)
(* An append takes the recorder's mutex for one whole line, so it is one   *)
(* step.  The file is behind a BufWriter: an append whose flush fails is   *)
(* ignored (let _, append_best_effort), but its line stays in the buffer   *)
(* and goes out with the next flush that works; lines are taken to be      *)
(* shorter than that buffer.  Sizes, hashes, durations and tokens are data *)
(* and left out.                                                           *)
(***************************************************************************)
EXTENDS Naturals, Sequences, FiniteSets, Functions, InOrder

CONSTANTS
  Turns,         \* agent turns whose calls overlap
  Requests,      \* what a turn may hand off: <<kind, its <<tool, operation>> steps>>
  MaxFaults,     \* fault model, and bound: flushes that may fail
  MaxHandoffs    \* bound: hand-offs of the task

Kinds == {"execute", "once", "batch", "sequence", "bounded", "verification"}

ASSUME ExperimentAssumption ==
  /\ MaxHandoffs \in Nat /\ MaxFaults \in Nat /\ IsFiniteSet(Turns)
  /\ \A r \in Requests : /\ r[1] \in Kinds
                         /\ r[2] \in Seq(STRING \X STRING) /\ Len(r[2]) > 0
                         /\ r[1] = "bounded" => Len(r[2]) \in 2..3
                         /\ r[1] \in {"execute", "once", "verification"} => Len(r[2]) = 1

VARIABLES
  trace,    \* the events of the file
  buffer,   \* the events in the BufWriter, not in the file yet
  turn,     \* turn -> its hand-off
  handoffs, \* hand-offs so far: their numbers are what call ids are made of
  tally,    \* ghost: what has happened
  faults    \* flushes that failed

experimentVars == <<trace, buffer, turn, handoffs, tally, faults>>

NoTurn == [kind |-> "none", at |-> "idle", n |-> 0, steps |-> << >>, i |-> 1,
           results |-> << >>, answer |-> << >>]

EventTypes ==
  {"task_started", "task_completed", "started", "completed", "sequence_started",
   "sequence_completed", "verification_started", "verification_completed"}

Event(type, call, op, success, parent) ==
  [type |-> type, call |-> call, op |-> op, success |-> success, parent |-> parent]

NoOp == <<"none", "none">>
Task == <<"task", 0, 0>>
TaskStarted == Event("task_started", Task, NoOp, TRUE, 0)
TaskCompleted == Event("task_completed", Task, NoOp, TRUE, 0)

\* task_started: an append that fails here fails the whole task.
ExperimentInit ==
  /\ trace = <<TaskStarted>>
  /\ turn = [t \in Turns |-> NoTurn]
  /\ handoffs = 0
  /\ tally = [ran |-> 0, failed |-> 0, visible |-> 0, verified |-> 0]
  /\ buffer = << >> /\ faults = 0

\* A best-effort append: the line is buffered, and the buffer is flushed or not.
Emit(event) ==
  \/ /\ trace' = Append(trace \o buffer, event) /\ buffer' = << >>
     /\ UNCHANGED faults
  \/ /\ faults < MaxFaults /\ faults' = faults + 1
     /\ buffer' = Append(buffer, event)
     /\ UNCHANGED trace

\* call_{idx}, call_s{idx} and once_{key} carry nothing of the hand-off they belong to.
CallId(h, i) ==
  CASE h.kind = "batch" -> <<"call", 0, i>>
    [] h.kind = "sequence" -> <<"call_s", 0, i>>
    [] h.kind = "once" -> <<"once", 0, i>>
    [] OTHER -> <<"id", h.n, i>>

\* Only execute and a bounded sequence take a program or a language for the operation.
OpOf(h, i) ==
  IF h.kind \in {"once", "batch", "sequence"} /\ h.steps[i][1] \in {"shell", "code"}
  THEN <<h.steps[i][1], "none">> ELSE h.steps[i]

ToolCallStarted(h) == Event("started", CallId(h, h.i), OpOf(h, h.i), TRUE, 0)
VerificationStarted(h) == Event("verification_started", CallId(h, h.i), OpOf(h, h.i), TRUE, 0)
SequenceStarted(h) == Event("sequence_started", <<"id", h.n, 0>>, NoOp, TRUE, 0)

HandOff(t) ==
  /\ turn[t].at = "idle" /\ handoffs < MaxHandoffs
  /\ handoffs' = handoffs + 1
  /\ \E r \in Requests :
       turn' = [turn EXCEPT ![t] = [NoTurn EXCEPT
                  !.kind = r[1], !.n = handoffs', !.steps = r[2],
                  !.at = IF r[1] = "bounded" THEN "open" ELSE "start"]]
  /\ UNCHANGED <<trace, buffer, tally, faults>>

\* bounded_sequence_started
OpenSequence(t) ==
  /\ turn[t].at = "open"
  /\ Emit(SequenceStarted(turn[t]))
  /\ turn' = [turn EXCEPT ![t].at = "start"]
  /\ UNCHANGED <<handoffs, tally>>

\* A batch or a sequence records the start of every step before it runs any.
Started(t) ==
  LET h == turn[t]
      all == h.kind \in {"batch", "sequence"} /\ h.i < Len(h.steps) IN
  /\ h.at = "start"
  /\ Emit(IF h.kind = "verification" THEN VerificationStarted(h) ELSE ToolCallStarted(h))
  /\ turn' = [turn EXCEPT ![t].i = IF all THEN h.i + 1 ELSE IF h.kind = "bounded" THEN h.i ELSE 1,
                          ![t].at = IF all THEN "start" ELSE "run"]
  /\ UNCHANGED <<handoffs, tally>>

\* What comes of a call, of execute_batch and of execute_sequence, which may stop
\* at the first failure; an Err counts as a failure everywhere here.
CallResults == [1..1 -> BOOLEAN]
BatchResults(n) == [1..n -> BOOLEAN]
SequenceResults(n) ==
  LET stops(r) == \A i \in 1..(Len(r) - 1) : r[i]
  IN  BatchResults(n) \cup
        {r \in UNION {[1..m -> BOOLEAN] : m \in 1..n} : stops(r) /\ (Len(r) = n \/ ~r[Len(r)])}

Results(kind, n) ==
  CASE kind = "batch" -> BatchResults(n)
    [] kind = "sequence" -> SequenceResults(n)
    [] OTHER -> CallResults

Run(t) ==
  LET h == turn[t] IN
  /\ h.at = "run"
  /\ \E r \in Results(h.kind, Len(h.steps)) :
       turn' = [turn EXCEPT ![t].results = h.results \o r, ![t].at = "complete"]
  /\ UNCHANGED <<trace, buffer, handoffs, tally, faults>>

\* Faulty variant of AfterCompleted: a step that failed does not stop the sequence.
AfterCompleted_GoesOn(h) ==
  IF h.i < Len(h.results) THEN "complete"
  ELSE IF h.kind # "bounded" THEN "idle"
  ELSE IF h.i < Len(h.steps) THEN "start" ELSE "close"

\* After the event of a step: the next result, the next step, or the end.  A
\* bounded sequence goes on only after a success.
AfterCompleted(h) ==
  IF h.i < Len(h.results) THEN "complete"
  ELSE IF h.kind # "bounded" THEN "idle"
  ELSE IF h.i < Len(h.steps) /\ h.results[h.i] THEN "start" ELSE "close"

Moves(t, at) ==
  LET h == turn[t] IN
  turn' = [turn EXCEPT ![t] = IF at = "idle" THEN [NoTurn EXCEPT !.answer = h.results]
                              ELSE [h EXCEPT !.at = at, !.i = IF at = "close" THEN h.i ELSE h.i + 1]]

\* Faulty variant of ParentOf: the event of a failure is made by hand, without its parent.
ParentOf_NotOfFailures(h) == IF h.kind = "bounded" /\ h.results[h.i] THEN h.n ELSE 0

\* The step of a bounded sequence names it as its parent, whatever came of it.
ParentOf(h) == IF h.kind = "bounded" THEN h.n ELSE 0

ToolCallCompleted(h) == Event("completed", CallId(h, h.i), OpOf(h, h.i), h.results[h.i], ParentOf(h))
VerificationCompleted(h) ==
  Event("verification_completed", CallId(h, h.i), OpOf(h, h.i), h.results[h.i], 0)

\* The event of a result, be it an outcome or an error.
Completed(t) ==
  LET h == turn[t]
      ok == h.results[h.i]
      check == h.kind = "verification" IN
  /\ h.at = "complete"
  /\ Emit(IF check THEN VerificationCompleted(h) ELSE ToolCallCompleted(h))
  /\ tally' = IF check THEN [tally EXCEPT !.verified = @ + 1]
              ELSE [tally EXCEPT !.ran = @ + 1, !.failed = @ + (IF ok THEN 0 ELSE 1),
                                 !.visible = @ + (IF h.kind = "bounded" THEN 0 ELSE 1)]
  /\ Moves(t, AfterCompleted(h))
  /\ UNCHANGED handoffs

\* What execute_bounded_sequence calls a success.
SequenceSuccess(h) == Len(h.results) = Len(h.steps) /\ \A i \in DOMAIN h.results : h.results[i]

SequenceCompleted(h) ==
  Event("sequence_completed", <<"id", h.n, 0>>, <<"requested", Len(h.steps)>>,
        SequenceSuccess(h), 0)

CloseSequence(t) ==
  LET h == turn[t] IN
  /\ h.at = "close"
  /\ Emit(SequenceCompleted(h))
  /\ tally' = [tally EXCEPT !.visible = @ + 1]
  /\ Moves(t, "idle")
  /\ UNCHANGED handoffs

Recorded(type) == \E e \in Range(trace \o buffer) : e.type = type

\* task_completed, by a runner that has awaited its calls.
CompleteTask ==
  /\ \A t \in Turns : turn[t].at = "idle"
  /\ ~Recorded("task_completed")
  /\ Emit(TaskCompleted)
  /\ UNCHANGED <<turn, handoffs, tally>>

\* The last handle to the recorder goes, and with it the BufWriter, which flushes.
DropRecorder ==
  /\ \A t \in Turns : turn[t].at = "idle"
  /\ Recorded("task_completed") /\ buffer # << >>
  /\ trace' = trace \o buffer /\ buffer' = << >>
  /\ UNCHANGED <<turn, handoffs, tally, faults>>

ExperimentNext ==
  \/ CompleteTask \/ DropRecorder
  \/ \E t \in Turns :
       HandOff(t) \/ OpenSequence(t) \/ Started(t) \/ Run(t) \/ Completed(t) \/ CloseSequence(t)

ExperimentSpec == ExperimentInit /\ [][ExperimentNext]_experimentVars

-----------------------------------------------------------------------------
(* analyze_events and the counts of patterns.rs over a trace.               *)

\* Where a trace has events of a type.
Where(events, type) == {i \in DOMAIN events : events[i].type = type}
Count(events, type) == Cardinality(Where(events, type))

\* analyze_events refuses a trace without both ends of its task.
Analyzable(events) == Count(events, "task_started") > 0 /\ Count(events, "task_completed") > 0

\* underlying_tool_operation_count, model_visible_handoff_count, and the failures.
Metrics(events) ==
  LET completed == Where(events, "completed") IN
  [ underlying |-> Cardinality(completed),
    visible    |-> Count(events, "sequence_completed")
                     + Cardinality({i \in completed : events[i].parent = 0}),
    failed     |-> Cardinality({i \in completed : ~events[i].success}) ]

\* verification_count and how many passed and failed
CheckCounts(events) ==
  LET checks == Where(events, "verification_completed") IN
  [ all    |-> Cardinality(checks),
    passed |-> Cardinality({i \in checks : events[i].success}),
    failed |-> Cardinality({i \in checks : ~events[i].success}) ]

\* normalize.  The operation of a shell call is its program, or what follows
\* it; the words are looked for in this order.
Words ==
  << <<"git status", "git_status">>, <<"git diff", "git_diff">>, <<"test", "test">>,
     <<"check", "typecheck">>, <<"lint", "lint">>, <<"build", "build">> >>

ShellOp(op) ==
  LET hits == {i \in DOMAIN Words : Words[i][1] = op} IN
  IF hits = {} THEN "shell" ELSE Words[CHOOSE i \in hits : \A j \in hits : i <= j][2]

Normalize(e) ==
  LET tool == e.op[1]  op == e.op[2] IN
  CASE tool = "filesystem" ->
         IF op = "read" THEN "read"
         ELSE IF op \in {"write", "append", "patch", "copy", "move", "delete", "mkdir"} THEN "write"
         ELSE IF op \in {"search", "glob", "list", "stat"} THEN "search" ELSE "fs:other"
    [] tool = "http" -> "http"
    [] tool = "code" -> "shell"
    [] tool = "shell" -> ShellOp(op)
    [] OTHER -> tool

\* extract_sequence, and the windows of it that mine_bigrams and mine_trigrams count.
Normalized(events) ==
  LET completed == Retained(events, Where(events, "completed"))
  IN  [i \in DOMAIN completed |-> Normalize(completed[i])]

Windows(ops, n) == [i \in 1..(IF Len(ops) < n THEN 0 ELSE Len(ops) - n + 1) |-> SubSeq(ops, i, i + n - 1)]

\* counts of each window, of each operation, of successes and failures after it
Mined(seq) == [w \in Range(seq) |-> Cardinality({i \in DOMAIN seq : seq[i] = w})]

SuccessAfter(events) ==
  LET completed == Where(events, "completed") IN
  [op \in {Normalize(events[i]) : i \in completed} |->
     <<Cardinality({i \in completed : Normalize(events[i]) = op /\ events[i].success}),
       Cardinality({i \in completed : Normalize(events[i]) = op /\ ~events[i].success})>>]

-----------------------------------------------------------------------------
\* Every turn is somewhere in its hand-off, with no more results than steps.
ExperimentTypeOK ==
  /\ \A t \in Turns : /\ turn[t].at \in {"idle", "open", "start", "run", "complete", "close"}
                      /\ Len(turn[t].results) <= Len(turn[t].steps)
  /\ handoffs \in 0..MaxHandoffs /\ faults \in 0..MaxFaults
  /\ Head(trace) = TaskStarted
  /\ \A e \in Range(trace \o buffer) : e.type \in EventTypes

\* A unit for each time that each thing is counted: as many as the counts add up to.
Units(counts) == UNION {{w} \X (1..counts[w]) : w \in DOMAIN counts}

(* The miner loses and invents no call: windows of two and three, volumes  *)
(* and outcomes per operation all add up to the calls the analyzer counts. *)
PatternsAddUp ==
  trace[Len(trace)].type = "task_completed" =>
  LET ops == Normalized(trace)
      n == Metrics(trace).underlying
      total(counts) == Cardinality(Units(counts))
      after == SuccessAfter(trace)
  IN  /\ total(Mined(ops)) = n
      /\ \A w \in {2, 3} : total(Mined(Windows(ops, w))) = IF n < w THEN 0 ELSE n - w + 1
      /\ total([op \in DOMAIN after |-> after[op][1] + after[op][2]]) = n
      /\ total([op \in DOMAIN after |-> after[op][2]]) = Metrics(trace).failed

(* Whatever has not been written yet, the metrics of the task never count  *)
(* what did not happen; and as soon as the buffer is empty, flushes that   *)
(* failed before included, they are exactly what happened, however the     *)
(* turns overlapped: the tools that ran, those that failed, what the model *)
(* handed off (a bounded sequence once, not once more for each of its      *)
(* steps) and the checks.  What the miner finds adds up to them.           *)
MetricsTrue ==
  LET m == Metrics(trace)
      checks == CheckCounts(trace)
      counted == <<m.underlying, m.failed, m.visible, checks.all>>
      happened == <<tally.ran, tally.failed, tally.visible, tally.verified>>
  IN  /\ \A k \in 1..4 : counted[k] <= happened[k]
      /\ buffer = << >> => counted = happened
      /\ checks.passed + checks.failed = checks.all
      /\ PatternsAddUp

\* The trace as it was after each of the events of the last flush.
Recent == {SubSeq(trace, 1, n) : n \in {n \in DOMAIN trace : n >= Len(trace) - MaxFaults}}

\* The call of the last event does not complete more often than it starts.
EndsHaveStarts(events) ==
  LET of(type) == {i \in Where(events, type) : events[i].call = events[Len(events)].call}
  IN  Cardinality(of("completed")) <= Cardinality(of("started"))

(* No call completes in the trace that did not start in it before: for     *)
(* each call id, which batches share, there are never more completions     *)
(* than starts, whatever was buffered.                                     *)
StartsBeforeEnds == \A events \in Recent : EndsHaveStarts(events)

\* The steps of the sequence whose end is the last event stop at a failure, and its
\* success is theirs.
StepsMakeSequence(events) ==
  LET last  == events[Len(events)]
      steps == {i \in Where(events, "completed") : events[i].parent = last.call[2]}
  IN  /\ \A i, j \in steps : i < j => events[i].success
      /\ last.success <=> Cardinality(steps) = last.op[2] /\ \A i \in steps : events[i].success

(* A bounded sequence is recorded as a success exactly when every step     *)
(* that was asked for is recorded as one, and nothing ran after a failure. *)
SequencesStop ==
  \A events \in Recent :
    events[Len(events)].type = "sequence_completed" => StepsMakeSequence(events)

\* The trace tells the order of things: both of the above.
TraceInOrder == StartsBeforeEnds /\ SequencesStop
=============================================================================

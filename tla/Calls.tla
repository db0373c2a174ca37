------------------------------- MODULE Calls --------------------------------
(***************************************************************************)
(* ToolRegistry::execute_batch and execute_sequence (src/registry.rs),     *)
(* under the permits of the marshalld handlers that call them.             *)
(*                                                                         *)
(* A handler is admitted with a permit, waits for the sessions, the egress *)
(* hosts and the registry, and only then starts the call; its client may   *)
(* leave at each of these waits.  A batch then spawns one task for every   *)
(* request; the tasks share a semaphore of their own and outlive a handler *)
(* that is dropped, while its permit does not.  A sequence runs its steps  *)
(* in the handler itself, hands every step the outcomes before it, and     *)
(* ends with the handler.  A tool may hang for ever.                       *)
(***************************************************************************)
EXTENDS Naturals, Sequences, FiniteSets

CONSTANTS Batch,        \* the batch requests
          Sequence,     \* the sequence requests
          Size,         \* Size[c]: how many requests or steps call c has (within 64 or 32)
          Asked,        \* the values of max_concurrency that clients send
          MaxInner,     \* the 32 of the clamp
          Concurrency   \* permits of the daemon

Call == Batch \cup Sequence

ASSUME CallAssumption ==
  /\ IsFiniteSet(Call)
  /\ Batch \cap Sequence = {}
ASSUME SizeAssumption == Size \in [Call -> Nat]
ASSUME InnerAssumption == Asked \subseteq Nat /\ Asked # {} /\ MaxInner \in Nat \ {0}
ASSUME ConcurrencyAssumption == Concurrency \in Nat \ {0}

VARIABLES
  permits,     \* permits left in the daemon's semaphore
  status,      \* status[c]: where call c is: see Status
  asked,       \* asked[c]: max_concurrency in the request of batch c
  limit,       \* limit[c]: permits of the semaphore of batch c, once it has one
  persistent,  \* the sequences with continue_on_error
  step,        \* step[c][i]: waiting, running, hung, dropped, or the outcome of step i
  results,     \* results[c]: the steps whose outcomes are in the answer so far
  prev,        \* prev[c]: the steps whose outcomes the templates of a sequence see
  seen         \* history: seen[c][i]: prev[c] when step i was templated

vars == <<permits, status, asked, limit, persistent, step, results, prev, seen>>

Steps(c) == 1..Size[c]
Outcome == {"success", "failure", "error"}
Progress == {"waiting", "running", "hung", "dropped"} \cup Outcome

\* admitted: with a permit, before the call starts; open: started; gone: its client left
\* while it was admitted; left: its client left while it was open.
Status == {"new", "admitted", "open", "answered", "refused", "gone", "left"}

StateOK ==
  /\ status \in [Call -> Status]
  /\ asked \in [Batch -> Asked]
  /\ limit \in [Batch -> 0..MaxInner]
  /\ persistent \subseteq Sequence
  /\ DOMAIN step = Call
  /\ \A c \in Call : step[c] \in [Steps(c) -> Progress]
  /\ results \in [Call -> Seq(Nat)]
  /\ prev \in [Call -> Seq(Nat)]
  /\ DOMAIN seen = Call
  /\ \A c \in Call : seen[c] \in [Steps(c) -> Seq(Nat)]

\* Types of all variables; the permits never exceed those of the semaphore.
TypeOK == permits \in 0..Concurrency /\ StateOK

Init ==
  /\ permits = Concurrency
  /\ status = [c \in Call |-> "new"]
  /\ asked \in [Batch -> Asked]
  /\ limit = [c \in Batch |-> 0]
  /\ persistent = {}
  /\ step = [c \in Call |-> [i \in Steps(c) |-> "waiting"]]
  /\ results = [c \in Call |-> <<>>]
  /\ prev = [c \in Call |-> <<>>]
  /\ seen = [c \in Call |-> [i \in Steps(c) |-> <<>>]]

In(c, state) == {i \in Steps(c) : step[c][i] = state}
Ended(c) == {i \in Steps(c) : step[c][i] \in Outcome}
\* The steps whose tools have not returned.
Busy(c) == In(c, "running") \cup In(c, "hung")

Set(c, i, state) == step' = [step EXCEPT ![c][i] = state]

-----------------------------------------------------------------------------
(* The handler. *)

\* Faulty variant: a client may ask for no concurrency at all.
Clamp_NoFloor(n) == IF n > MaxInner THEN MaxInner ELSE n

Clamp(n) ==
  CASE n < 1 -> 1
    [] n > MaxInner -> MaxInner
    [] OTHER -> n

Goto(c, from, to) ==
  /\ status[c] = from
  /\ status' = [status EXCEPT ![c] = to]

\* Faulty variant: admitted even when no permit is left.
Admit_Always(c) ==
  /\ Goto(c, "new", "admitted")
  /\ permits' = permits - 1
  /\ UNCHANGED <<asked, persistent, limit, step, results, prev, seen>>

\* try_acquire_owned.
Admit(c) ==
  /\ permits > 0
  /\ Goto(c, "new", "admitted")
  /\ permits' = permits - 1
  /\ persistent' \in {persistent, persistent \cup ({c} \cap Sequence)}
  /\ UNCHANGED <<asked, limit, step, results, prev, seen>>

\* 503 concurrency_limited.
Refuse(c) ==
  /\ permits = 0
  /\ Goto(c, "new", "refused")
  /\ UNCHANGED <<asked, limit, persistent, permits, step, results, prev, seen>>

\* The awaits are over: the registry is read, and without another await a batch makes
\* its semaphore and spawns its tasks, and a sequence enters its loop.
Start(c) ==
  /\ Goto(c, "admitted", "open")
  /\ limit' = IF c \in Batch THEN [limit EXCEPT ![c] = Clamp(asked[c])] ELSE limit
  /\ UNCHANGED <<asked, persistent, permits, step, results, prev, seen>>

\* The handler ends and with it its permit.
Close(c, from, how) ==
  /\ Goto(c, from, how)
  /\ permits' = permits + 1
  /\ UNCHANGED <<asked, limit, persistent, results, prev, seen>>

\* 404 for a session, 403 for a path or a destination; or the client goes away at an
\* await.  Nothing of the call has run, and nothing of it will.
Turn(c) ==
  /\ \E how \in {"refused", "gone"} : Close(c, "admitted", how)
  /\ UNCHANGED step

-----------------------------------------------------------------------------
(* A batch. *)

\* Faulty variant: a task that nobody waits for does not count.
BeginTask_Uncounted(c, i) ==
  /\ c \in Batch
  /\ status[c] \in {"open", "left"}
  /\ step[c][i] = "waiting"
  /\ status[c] = "open" => Cardinality(Busy(c)) < limit[c]
  /\ Set(c, i, "running")
  /\ UNCHANGED <<asked, limit, persistent, permits, status, results, prev, seen>>

\* Faulty variant: the tasks of a dropped handler are aborted.
BeginTask_Aborted(c, i) ==
  /\ c \in Batch
  /\ status[c] = "open"
  /\ step[c][i] = "waiting"
  /\ Cardinality(Busy(c)) < limit[c]
  /\ Set(c, i, "running")
  /\ UNCHANGED <<asked, limit, persistent, permits, status, results, prev, seen>>

\* A spawned task gets a permit of the batch's own semaphore.
BeginTask(c, i) ==
  /\ c \in Batch
  /\ status[c] \in {"open", "left"}
  /\ step[c][i] = "waiting"
  /\ Cardinality(Busy(c)) < limit[c]
  /\ Set(c, i, "running")
  /\ UNCHANGED <<asked, limit, persistent, permits, status, results, prev, seen>>

\* An unknown tool, a refused validation, an error and a panic (join_failed) are
\* errors.
EndTask(c, i) ==
  /\ c \in Batch
  /\ step[c][i] = "running"
  /\ \E o \in Outcome : Set(c, i, o)
  /\ UNCHANGED <<asked, limit, persistent, permits, status, results, prev, seen>>

\* Faulty variant: results are taken in the order in which the tasks end.
Join_AsEnded(c) ==
  /\ c \in Batch
  /\ status[c] = "open"
  /\ \E i \in Ended(c) :
       /\ \A n \in 1..Len(results[c]) : results[c][n] # i
       /\ results' = [results EXCEPT ![c] = Append(@, i)]
  /\ UNCHANGED <<asked, limit, persistent, permits, status, step, prev, seen>>

\* for h in handles { results.push(h.await) }
Join(c) ==
  LET i == Len(results[c]) + 1
  IN  /\ c \in Batch
      /\ status[c] = "open"
      /\ i \in Ended(c)
      /\ results' = [results EXCEPT ![c] = Append(@, i)]
      /\ UNCHANGED <<asked, limit, persistent, permits, status, step, prev, seen>>

\* Faulty variant: the first error ends the batch.
AnswerBatch_Early(c) ==
  /\ c \in Batch
  /\ \/ Len(results[c]) = Size[c]
     \/ \E n \in 1..Len(results[c]) : step[c][results[c][n]] = "error"
  /\ Close(c, "open", "answered")
  /\ UNCHANGED step

AnswerBatch(c) ==
  /\ c \in Batch
  /\ Len(results[c]) = Size[c]
  /\ Close(c, "open", "answered")
  /\ UNCHANGED step

\* The client goes away.  The tasks are detached and go on without the permit.
LeaveBatch(c) ==
  /\ c \in Batch
  /\ Close(c, "open", "left")
  /\ UNCHANGED step

-----------------------------------------------------------------------------
(* A sequence. *)

Failed(c) == \E n \in 1..Len(results[c]) : step[c][results[c][n]] # "success"

\* Faulty variant: only an error of the tool stops the sequence.
Finished_OnErrors(c) ==
  \/ Len(results[c]) = Size[c]
  \/ c \notin persistent /\ \E i \in Steps(c) : step[c][i] = "error"

\* The loop ends: the steps are all done, or one failed and errors do not go on.
Finished(c) == Len(results[c]) = Size[c] \/ (c \notin persistent /\ Failed(c))

\* apply_templates with the outcomes so far, then the tool.
BeginStep(c) ==
  LET i == Len(results[c]) + 1
  IN  /\ c \in Sequence
      /\ status[c] = "open"
      /\ ~Finished(c)
      /\ step[c][i] = "waiting"
      /\ Set(c, i, "running")
      /\ seen' = [seen EXCEPT ![c][i] = prev[c]]
      /\ UNCHANGED <<asked, limit, persistent, permits, status, results, prev>>

\* Faulty variant: a step that is an error leaves no outcome for the templates.
EndStep_NoPlaceholder(c) ==
  LET i == Len(results[c]) + 1
  IN  /\ c \in Sequence
      /\ status[c] = "open"
      /\ i \in In(c, "running")
      /\ \E o \in Outcome :
           /\ Set(c, i, o)
           /\ prev' = IF o = "error" THEN prev ELSE [prev EXCEPT ![c] = Append(@, i)]
      /\ results' = [results EXCEPT ![c] = Append(@, i)]
      /\ UNCHANGED <<asked, limit, persistent, permits, status, seen>>

\* An error leaves a failed outcome in its place.
EndStep(c) ==
  LET i == Len(results[c]) + 1
  IN  /\ c \in Sequence
      /\ status[c] = "open"
      /\ i \in In(c, "running")
      /\ \E o \in Outcome : Set(c, i, o)
      /\ prev' = [prev EXCEPT ![c] = Append(@, i)]
      /\ results' = [results EXCEPT ![c] = Append(@, i)]
      /\ UNCHANGED <<asked, limit, persistent, permits, status, seen>>

AnswerSequence(c) ==
  /\ c \in Sequence
  /\ Finished(c)
  /\ Close(c, "open", "answered")
  /\ UNCHANGED step

\* The client goes away and the running step's future is dropped with the handler.
LeaveSequence(c) ==
  /\ c \in Sequence
  /\ Close(c, "open", "left")
  /\ step' = [step EXCEPT ![c] =
                [i \in Steps(c) |-> IF i \in Busy(c) THEN "dropped" ELSE @[i]]]

-----------------------------------------------------------------------------

\* A tool does not return (ProcessTimeout shows one that does not).
Hang(c, i) ==
  /\ step[c][i] = "running"
  /\ Set(c, i, "hung")
  /\ UNCHANGED <<asked, limit, persistent, permits, status, results, prev, seen>>

-----------------------------------------------------------------------------

Handler(c) ==
  \/ Start(c)
  \/ Join(c) \/ AnswerBatch(c)
  \/ BeginStep(c) \/ EndStep(c) \/ AnswerSequence(c)

Task(c, i) == BeginTask(c, i) \/ EndTask(c, i)

Next ==
  \E c \in Call :
    \/ Admit(c) \/ Refuse(c) \/ Turn(c)
    \/ Handler(c)
    \/ \E i \in Steps(c) : Task(c, i) \/ Hang(c, i)
    \/ LeaveBatch(c) \/ LeaveSequence(c)

\* Handlers and tasks are scheduled, and a tool that does not hang returns: while some
\* task of a batch can move, one does.
Fairness ==
  \A c \in Call :
    /\ WF_vars(Handler(c))
    /\ WF_vars(\E i \in Steps(c) : Task(c, i))

Spec == Init /\ [][Next]_vars /\ Fairness

-----------------------------------------------------------------------------
(* Properties. *)

\* The n-th result of an answer is the outcome of the n-th request, in whatever
\* order the tasks of a batch begin and end.
ResultsInOrder ==
  \A c \in Call : \A n \in 1..Len(results[c]) : results[c][n] = n /\ n \in Ended(c)

\* No batch, whether someone still waits for it or not, has more tools at work at once
\* than its own request asked for, nor than MaxInner; a request for none gets one.
InnerBound ==
  \A c \in Batch :
    LET n == Cardinality(Busy(c)) IN n <= 1 \/ (n <= asked[c] /\ n <= MaxInner)

\* No tool runs for an answered call; a batch is answered only when every request
\* has its outcome, errors included, and a sequence that was cut short has failed.
AnsweredIsComplete ==
  \A c \in Call : status[c] = "answered" =>
    /\ Busy(c) = {}
    /\ c \in Batch \cup persistent => Len(results[c]) = Size[c]
    /\ Len(results[c]) < Size[c] => Failed(c)

\* steps[j] in the templates of a step is the outcome of step j, for every earlier
\* step, also when some of them were errors and have no outcome of their own.
TemplatesAligned ==
  \A c \in Sequence : \A i \in Steps(c) : step[c][i] # "waiting" =>
    /\ Len(seen[c][i]) = i - 1
    /\ \A j \in 1..(i - 1) : seen[c][i][j] = j /\ j \in Ended(c)

\* Without continue_on_error no step begins after one that did not succeed.
StopsAtFailure ==
  \A c \in Sequence \ persistent : \A i \in Steps(c) : step[c][i] # "waiting" =>
    \A j \in 1..(i - 1) : step[c][j] = "success"

\* Every call that was admitted is answered, turned away or left, unless one of its
\* tools hangs.
EveryCallCloses ==
  \A c \in Call :
    status[c] \in {"admitted", "open"} ~>
      status[c] \notin {"admitted", "open"} \/ In(c, "hung") # {}

\* A batch whose client has gone after its tasks were spawned is executed none the less,
\* all of it but what hangs: a hung tool keeps the others waiting only where as many
\* hang as may run at once.  One whose client went before that never runs anything.
LeftBatchesFinish ==
  \A c \in Batch :
    /\ status[c] = "left" ~>
         Ended(c) \cup In(c, "hung") = Steps(c) \/ Cardinality(In(c, "hung")) >= limit[c]
    /\ [](status[c] \in {"gone", "refused"} => \A i \in Steps(c) : step[c][i] = "waiting")

-----------------------------------------------------------------------------
(* The inductive invariant of the proofs. *)

\* The permits that are not free are held by the open calls.
Opened == {c \in Call : status[c] \in {"admitted", "open"}}
PermitsLeft == permits + Cardinality(Opened) = Concurrency

\* A call that was not started has done nothing.
NotStarted == {"new", "admitted", "refused", "gone"}
Untouched ==
  \A c \in Call : status[c] \in NotStarted =>
    /\ results[c] = <<>>
    /\ \A i \in Steps(c) : step[c][i] = "waiting"

\* The semaphore of a batch, answered or not.
WithinLimit ==
  \A c \in Batch :
    /\ Cardinality(Busy(c)) <= limit[c]
    /\ limit[c] = IF status[c] \in NotStarted THEN 0 ELSE Clamp(asked[c])

\* The steps of a sequence are taken one after the other.
OneByOne ==
  \A c \in Sequence :
    /\ prev[c] = results[c]
    /\ \A i \in Steps(c) :
         /\ i = Len(results[c]) + 1 =>
              /\ step[c][i] \in {"waiting", "running", "hung", "dropped"}
              /\ step[c][i] \in {"running", "hung"} => status[c] = "open"
         /\ i > Len(results[c]) + 1 => step[c][i] = "waiting"

IInv ==
  /\ TypeOK
  /\ PermitsLeft
  /\ Untouched
  /\ WithinLimit
  /\ ResultsInOrder
  /\ OneByOne
  /\ AnsweredIsComplete
  /\ TemplatesAligned
  /\ StopsAtFailure
=============================================================================

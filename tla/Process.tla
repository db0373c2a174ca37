------------------------------ MODULE Process ------------------------------
(***************************************************************************)
(* One call of the shell tool or of the code tool, down to the child       *)
(* process: the handler writes the script (code tool only), spawns, feeds  *)
(* the child's stdin, reads its two output pipes under the timeout, waits  *)
(* for it and removes the script.                                          *)
(* Sources: LocalProcessBackend::execute and read_capped (backend.rs),     *)
(* CodeTool::execute (code.rs), ShellTool::execute (shell.rs).             *)
(*                                                                         *)
(* The child is the environment: it reads, writes, closes descriptors,     *)
(* forks one heir that inherits some of them, and exits, all when it       *)
(* likes and without fairness.  Bytes are counted, not carried.  There is  *)
(* no clock: the timer may fire at any moment of the part it guards.       *)
(***************************************************************************)
EXTENDS Naturals

CONSTANTS Stdin,       \* bound: most units of stdin a caller sends
          PipeSize,    \* units the kernel buffers in a pipe
          Limit,       \* limits.output_limit, in units
          Budget       \* bound: units the processes write to a stream

ASSUME SizesAssumption ==
  /\ Stdin \in Nat /\ Limit \in Nat /\ Budget \in Nat
  /\ PipeSize \in Nat \ {0}

Stream == {"stdout", "stderr"}
Descriptor == Stream \union {"stdin"}
Proc == {"child", "heir"}

VARIABLES
  pc,          \* the await the handler stands at
  outcome,     \* what the call came to, "none" until then
  path,        \* _temp_path is Some: the handler knows of a script to remove
  file,        \* the script is on disk
  state,       \* the operating system's view of each process
  status,      \* exit status of the child: 0, or 1 for any other or a signal
  holds,       \* the descriptors each process has open
  unsent,      \* stdin bytes write_all has still to write
  inPipe,      \* units in the stdin pipe
  pipe,        \* units in each output pipe
  written,     \* units ever written to each stream
  kept,        \* buf.len() of each read_capped
  truncated,   \* the flag of each read_capped
  reader       \* how far each read_capped is: "reading", "eof", "failed"

reading == <<kept, truncated, reader>>
stdin   == <<unsent, inPipe>>
os      == <<state, status, holds>>
vars == <<pc, outcome, path, file, os, stdin, pipe, written, reading>>

Outcome == {"success", "nonzero_exit", "timed_out", "spawn_failed",
            "io_error", "dropped"}

TypeOK ==
  /\ pc \in {"file", "spawn", "feed", "collect", "cleanup", "done"}
  /\ outcome \in Outcome \union {"none"}
  /\ path \in BOOLEAN
  /\ file \in BOOLEAN
  /\ state \in [Proc -> {"absent", "running", "killed", "dead"}]
  /\ status \in {0, 1}
  /\ holds \in [Proc -> SUBSET Descriptor]
  /\ unsent \in 0..Stdin
  /\ inPipe \in 0..PipeSize
  /\ pipe \in [Stream -> 0..PipeSize]
  /\ written \in [Stream -> 0..Budget]
  /\ kept \in [Stream -> 0..Limit]
  /\ truncated \in [Stream -> BOOLEAN]
  /\ reader \in [Stream -> {"reading", "eof", "failed"}]

\* The code tool starts with its script, the shell tool with the spawn.
\* No stdin and an empty one are alike: the child reads end of file at once.
Init ==
  /\ pc \in {"file", "spawn"}
  /\ outcome = "none"
  /\ path = FALSE
  /\ file = FALSE
  /\ state = [p \in Proc |-> "absent"]
  /\ status = 0
  /\ holds = [p \in Proc |-> {}]
  /\ unsent \in 0..Stdin
  /\ inPipe = 0
  /\ pipe = [s \in Stream |-> 0]
  /\ written = [s \in Stream |-> 0]
  /\ kept = [s \in Stream |-> 0]
  /\ truncated = [s \in Stream |-> FALSE]
  /\ reader = [s \in Stream |-> "reading"]

Open(d) == \E p \in Proc : d \in holds[p]

Least(m, n) == IF m <= n THEN m ELSE n

-----------------------------------------------------------------------------
(* The processes *)

Consume(p) ==
  /\ state[p] = "running"
  /\ "stdin" \in holds[p]
  /\ inPipe > 0
  /\ inPipe' = inPipe - 1
  /\ UNCHANGED <<path, pc, outcome, file, os, unsent, pipe, written, reading>>

\* A full pipe blocks the writer; once the call is over the read ends are
\* gone and a write changes nothing.
Write(p, s) ==
  /\ state[p] = "running"
  /\ s \in holds[p]
  /\ pc \in {"feed", "collect"}
  /\ pipe[s] < PipeSize
  /\ written[s] < Budget
  /\ pipe' = [pipe EXCEPT ![s] = @ + 1]
  /\ written' = [written EXCEPT ![s] = @ + 1]
  /\ UNCHANGED <<path, pc, outcome, file, os, stdin, reading>>

Close(p, d) ==
  /\ state[p] = "running"
  /\ d \in holds[p]
  /\ holds' = [holds EXCEPT ![p] = @ \ {d}]
  /\ UNCHANGED <<path, pc, outcome, file, state, status, stdin, pipe,
                 written, reading>>

Fork ==
  /\ state["child"] = "running"
  /\ state["heir"] = "absent"
  /\ state' = [state EXCEPT !["heir"] = "running"]
  /\ \E inherited \in SUBSET holds["child"] :
       holds' = [holds EXCEPT !["heir"] = inherited]
  /\ UNCHANGED <<path, pc, outcome, file, status, stdin, pipe, written,
                 reading>>

Exit(p) ==
  /\ state[p] = "running"
  /\ state' = [state EXCEPT ![p] = "dead"]
  /\ holds' = [holds EXCEPT ![p] = {}]
  /\ IF p = "child" THEN status' \in {0, 1} ELSE UNCHANGED status
  /\ UNCHANGED <<path, pc, outcome, file, stdin, pipe, written, reading>>

\* The kernel ends the child that was sent SIGKILL.
Dies ==
  /\ state["child"] = "killed"
  /\ state' = [state EXCEPT !["child"] = "dead"]
  /\ holds' = [holds EXCEPT !["child"] = {}]
  /\ status' = 1
  /\ UNCHANGED <<path, pc, outcome, file, stdin, pipe, written, reading>>

-----------------------------------------------------------------------------
(* The handler *)

ReapedOrKilled_NoKill == state

\* kill_on_drop: dropping the Child signals it unless it is known to be dead.
\* Nothing signals the processes it forked.
ReapedOrKilled ==
  [state EXCEPT !["child"] = IF @ = "running" THEN "killed" ELSE @]

\* The backend has returned: the code tool has a script to remove, if it
\* wrote one; an error goes out through `?` and passes the removal by.
AfterBackend(result) ==
  /\ outcome' = result
  /\ pc' = IF path /\ result \notin {"spawn_failed", "io_error"}
             THEN "cleanup" ELSE "done"

\* A failed write may leave the part it wrote; the call goes on with -c or -e.
WriteCodeToFile ==
  /\ pc = "file"
  /\ pc' = "spawn"
  /\ \/ path' = TRUE /\ file' = TRUE
     \/ path' = FALSE /\ file' \in BOOLEAN
  /\ UNCHANGED <<outcome, os, stdin, pipe, written, reading>>

Spawn_ScriptRemoved ==
  /\ pc = "spawn"
  /\ pc' = "feed"
  /\ state' = [state EXCEPT !["child"] = "running"]
  /\ holds' = [holds EXCEPT !["child"] = Descriptor]
  /\ file' = FALSE
  /\ UNCHANGED <<path, outcome, status, stdin, pipe, written, reading>>

Spawn ==
  /\ pc = "spawn"
  /\ pc' = "feed"
  /\ state' = [state EXCEPT !["child"] = "running"]
  /\ holds' = [holds EXCEPT !["child"] = Descriptor]
  /\ UNCHANGED <<path, outcome, file, status, stdin, pipe, written, reading>>

SpawnFails ==
  /\ pc = "spawn"
  /\ AfterBackend("spawn_failed")
  /\ UNCHANGED <<path, file, os, stdin, pipe, written, reading>>

\* One write of write_all.
Feed ==
  /\ pc = "feed"
  /\ Open("stdin")
  /\ \E n \in 1..Least(unsent, PipeSize - inPipe) :
       /\ unsent' = unsent - n
       /\ inPipe' = inPipe + n
  /\ UNCHANGED <<path, pc, outcome, file, os, pipe, written, reading>>

\* write_all is over: all was written, or nobody reads any more (the error is
\* ignored).
Fed ==
  /\ pc = "feed"
  /\ unsent = 0 \/ ~Open("stdin")
  /\ pc' = "collect"
  /\ UNCHANGED <<path, outcome, file, os, stdin, pipe, written, reading>>

Take_FullIsCut(s, n) ==
  LET room == Limit - kept[s] IN
  /\ pipe' = [pipe EXCEPT ![s] = @ - n]
  /\ kept' = [kept EXCEPT ![s] = @ + Least(n, room)]
  /\ truncated' = [truncated EXCEPT ![s] = @ \/ n >= room]

Take_NotCapped(s, n) ==
  LET room == Limit - kept[s] IN
  /\ pipe' = [pipe EXCEPT ![s] = @ - n]
  /\ kept' = [kept EXCEPT ![s] = IF @ < Limit THEN @ + n ELSE @]
  /\ truncated' = [truncated EXCEPT ![s] = @ \/ n > room]

\* One turn of read_capped's loop: what does not fit is read and dropped.
Take(s, n) ==
  LET room == Limit - kept[s] IN
  /\ pipe' = [pipe EXCEPT ![s] = @ - n]
  /\ kept' = [kept EXCEPT ![s] = @ + Least(n, room)]
  /\ truncated' = [truncated EXCEPT ![s] = @ \/ n > room]

Read(s) ==
  /\ pc = "collect"
  /\ reader[s] = "reading"
  /\ \E n \in 1..pipe[s] : Take(s, n)
  /\ UNCHANGED <<path, pc, outcome, file, os, stdin, written, reader>>

Ends(s, how) ==
  /\ pc = "collect"
  /\ reader[s] = "reading"
  /\ reader' = [reader EXCEPT ![s] = how]
  /\ UNCHANGED <<path, pc, outcome, file, os, stdin, pipe, written, kept,
                 truncated>>

\* read returns 0: the pipe is empty and every write end is closed.
EndOfFile(s) == pipe[s] = 0 /\ ~Open(s) /\ Ends(s, "eof")

ReadFails(s) == Ends(s, "failed")

\* Both readers are through and child.wait() has the status.
Collected ==
  /\ pc = "collect"
  /\ \A s \in Stream : reader[s] # "reading"
  /\ state["child"] = "dead"
  /\ AfterBackend(IF \E s \in Stream : reader[s] = "failed" THEN "io_error"
                  ELSE IF status = 0 THEN "success" ELSE "nonzero_exit")
  /\ UNCHANGED <<path, file, os, stdin, pipe, written, reading>>

Timeout_OnWaitOnly ==
  /\ pc = "collect"
  /\ \A s \in Stream : reader[s] # "reading"
  /\ AfterBackend("timed_out")
  /\ state' = ReapedOrKilled
  /\ UNCHANGED <<path, file, status, holds, stdin, pipe, written, reading>>

Timeout ==
  /\ pc = "collect"
  /\ AfterBackend("timed_out")
  /\ state' = ReapedOrKilled
  /\ UNCHANGED <<path, file, status, holds, stdin, pipe, written, reading>>

\* remove_file, best effort.
Cleanup ==
  /\ pc = "cleanup"
  /\ pc' = "done"
  /\ file' \in {file, FALSE}
  /\ UNCHANGED <<path, outcome, os, stdin, pipe, written, reading>>

\* The client leaves and the future is dropped at an await; there is none
\* between the script and the spawn.  tokio's file calls run on a blocking
\* thread and are finished nevertheless.
Drop ==
  /\ pc \notin {"spawn", "done"}
  /\ pc' = "done"
  /\ outcome' = "dropped"
  /\ state' = ReapedOrKilled
  /\ file' \in CASE pc = "file"    -> BOOLEAN
                 [] pc = "cleanup" -> {file, FALSE}
                 [] OTHER          -> {file}
  /\ UNCHANGED <<path, status, holds, stdin, pipe, written, reading>>

Handler ==
  \/ WriteCodeToFile
  \/ Spawn
  \/ SpawnFails
  \/ Feed
  \/ Fed
  \/ \E s \in Stream : Read(s) \/ EndOfFile(s)
  \/ Collected
  \/ Timeout
  \/ Cleanup

Outside ==
  \/ \E p \in Proc :
       \/ Consume(p)
       \/ \E s \in Stream : Write(p, s)
       \/ \E d \in Descriptor : Close(p, d)
       \/ Exit(p)
  \/ Dies
  \/ Fork
  \/ \E s \in Stream : ReadFails(s)
  \/ Drop

\* The call and every process are over.
Finished ==
  /\ pc = "done"
  /\ \A p \in Proc : state[p] \in {"absent", "dead"}
  /\ UNCHANGED vars

Next == Handler \/ Outside \/ Finished

\* The runtime polls the handler, fires its timer and the kernel delivers a
\* SIGKILL.  The processes and the client owe nothing, and no read has to fail.
Fairness ==
  /\ WF_vars(Handler)
  /\ WF_vars(Timeout)
  /\ WF_vars(Dies)

Spec == Init /\ [][Next]_vars /\ Fairness

-----------------------------------------------------------------------------
(* Properties *)

\* An answer with output holds exactly what the processes wrote, cut at the
\* limit, and says that it is cut exactly when it is.  In particular nothing
\* written before the last writer closed its end is left in a pipe.
OutputFaithful ==
  outcome \in {"success", "nonzero_exit"} =>
    \A s \in Stream :
      /\ kept[s] = Least(written[s], Limit)
      /\ truncated[s] <=> (written[s] > Limit)

\* The script a child was started on is there as long as the child may run
\* it: the removal waits for the child to be dead or sent its SIGKILL, also
\* on a timeout and when the client leaves.
ScriptThere == state["child"] = "running" /\ path => file

\* A child does not outlive a call that is over.
NoOrphan == pc \in {"cleanup", "done"} => state["child"] # "running"

\* Once the stdin is fed the child dies whatever it does: it ends by itself,
\* the timer fires, or the client leaves.
CollectEnds == (pc = "collect") ~> (state["child"] = "dead")

\* "Backend must enforce `limits.timeout` ... and kill the child on timeout":
\* no child runs for ever.
TimeoutEnforced == (state["child"] = "running") ~> (state["child"] = "dead")

-----------------------------------------------------------------------------
(* The inductive invariant of the theorems in ProcessProofs *)

\* What the readers hold is what left the pipes, cut at the limit.
Accounted ==
  \A s \in Stream :
    LET read == written[s] - pipe[s] IN
    /\ pipe[s] <= written[s]
    /\ kept[s] = Least(read, Limit)
    /\ truncated[s] <=> (read > Limit)

\* A reader that saw the end of file left nothing: no write end is opened again.
EndIsFinal ==
  \A s \in Stream :
    /\ reader[s] = "eof" => pipe[s] = 0 /\ ~Open(s)
    /\ reader[s] # "reading" => pc \in {"collect", "cleanup", "done"}

\* An answer with output waited for both ends of file.
AnswerState ==
  /\ outcome \in {"success", "nonzero_exit"} =>
       \A s \in Stream : reader[s] = "eof"
  /\ outcome # "none" => pc \in {"cleanup", "done"}

ChildState ==
  /\ pc \in {"file", "spawn"} => state["child"] = "absent"
  /\ NoOrphan

ScriptState ==
  /\ pc = "file" => ~path
  /\ path /\ pc # "done" => file

IInv ==
  TypeOK /\ Accounted /\ EndIsFinal /\ AnswerState /\ ChildState /\ ScriptState
=============================================================================

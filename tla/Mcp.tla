--------------------------------- MODULE Mcp ---------------------------------
(***************************************************************************)
(* The two stdio MCP servers: bin/mcp_bounded_sequence.rs, which runs two  *)
(* or three steps as one call, and bin/mcp_verify_change.rs, which runs    *)
(* the checks of experiment/verify_change.rs.  A server reads a line,      *)
(* answers it or not, and only then reads the next.                        *)
(*                                                                         *)
(* Whether git, a program of PATH or a command works is the environment's  *)
(* choice each time the code asks.  Text, sizes and durations are left out.*)
(***************************************************************************)
EXTENDS Naturals, Sequences, FiniteSets, Functions, FiniteSetsExt, InOrder

CONSTANTS
  CheckOrder,   \* ORDER: the checks of a repository, as a sequence of ids
  MaxChecks,    \* MAX_CHECKS
  StrangeCheck, \* an id that is not in ORDER, configured or not
  MaxHeard      \* bound: lines of input

NoCheck == "none"
CheckIds == Range(CheckOrder)
AnyCheck == CheckIds \cup {StrangeCheck}

ASSUME McpAssumption ==
  /\ MaxChecks \in Nat \ {0} /\ MaxHeard \in Nat
  /\ CheckOrder \in Seq(CheckIds) /\ IsInjective(CheckOrder)
  /\ StrangeCheck \notin CheckIds /\ NoCheck \notin AnyCheck

VARIABLES
  server, \* which of the two programs this is
  stage,  \* where it is with the line it read
  config, \* configured id -> does a failure stop the run
  wanted, \* the checks or steps the call is to run
  shown,  \* per_check, or the results of the sequence
  failed, \* failed_check
  ran,    \* ghost: what was really run for this call
  reply,  \* the last line written
  heard   \* lines read

mcpVars == <<server, stage, config, wanted, shown, failed, ran, reply, heard>>

NoReply == [kind |-> "none"]
Says(kind) == reply' = [kind |-> kind] /\ stage' = "listening"

McpInit ==
  /\ server \in {"bounded_sequence", "verify_change"}
  /\ stage = "listening" /\ config = << >> /\ wanted = << >> /\ shown = << >>
  /\ failed = NoCheck /\ ran = << >> /\ reply = NoReply /\ heard = 0

\* The match on the method: a blank or malformed line and a notification get no
\* answer, an unknown method only when the line has an id, another tool an error.
Dispatch(method, id) ==
  CASE method \in {"initialize", "tools/list", "ping"} -> "result"
    [] method = "another tool" -> "error"
    [] method = "unknown" /\ id -> "error"
    [] method = "tools/call" -> "call"
    [] OTHER -> "none"

ReadLine ==
  /\ stage = "listening" /\ heard < MaxHeard /\ heard' = heard + 1
  /\ \E method \in {"malformed", "initialize", "tools/list", "ping", "another tool", "unknown",
                    "notifications/initialized", "tools/call"}, id \in BOOLEAN :
       IF Dispatch(method, id) = "call"
       THEN stage' = "called" /\ reply' = NoReply
       ELSE Says(Dispatch(method, id))
  /\ config' = << >> /\ wanted' = << >> /\ shown' = << >> /\ failed' = NoCheck /\ ran' = << >>
  /\ UNCHANGED server

\* from_config_path: the file is read again for every call.
LoadConfig ==
  /\ server = "verify_change" /\ stage = "called"
  /\ \/ Says("unavailable") /\ UNCHANGED config
     \/ /\ \E ids \in SUBSET AnyCheck : config' \in [ids -> BOOLEAN]
        /\ stage' = "loaded" /\ UNCHANGED reply
  /\ UNCHANGED <<server, wanted, shown, failed, ran, heard>>

\* The checks of a request that names none: the first of ORDER that are configured,
\* in that order.
DefaultChecks ==
  LET known == {i \in DOMAIN CheckOrder : CheckOrder[i] \in DOMAIN config}
  IN  Retained(CheckOrder, {i \in known : Cardinality({j \in known : j <= i}) <= MaxChecks})

\* resolve_checks
Resolvable(checks) ==
  Len(checks) <= MaxChecks /\ Range(checks) \subseteq DOMAIN config /\ IsInjective(checks)

\* validate: a scope that leaves the repository is refused like unknown checks.
ResolveChecks ==
  /\ stage = "loaded"
  /\ \E requested \in {DefaultChecks} \cup
                      UNION {[1..n -> AnyCheck] : n \in 0..(MaxChecks + 1)},
        scoped \in BOOLEAN :
       IF scoped /\ Resolvable(requested)
       THEN wanted' = requested /\ stage' = "resolved" /\ UNCHANGED reply
       ELSE Says("rejected") /\ UNCHANGED wanted
  /\ UNCHANGED <<server, config, shown, failed, ran, heard>>

\* Two runs of git, then configured_registry, which resolves every program.
Prepare ==
  /\ stage = "resolved"
  /\ \/ Says("rejected")
     \/ stage' = "running" /\ UNCHANGED reply
  /\ UNCHANGED <<server, config, wanted, shown, failed, ran, heard>>

Current == wanted[Len(shown) + 1]
Step(id, ok) == [id |-> id, ok |-> ok]

\* Faulty variant of Blamed: a check that passes clears it.
Blamed_LastOnly(id, ok) == IF ok THEN NoCheck ELSE id

\* failed_check after a check.
Blamed(id, ok) == IF ok THEN failed ELSE id

\* One turn of the loop over the checks.  The program is resolved once more, and
\* with this or with the registry's error everything found so far is dropped.
RunCheck ==
  /\ server = "verify_change" /\ stage = "running" /\ Len(shown) < Len(wanted)
  /\ \/ Says("rejected") /\ UNCHANGED <<shown, failed, ran>>
     \/ \E ok \in BOOLEAN :
          /\ ran' = Append(ran, Step(Current, ok))
          /\ shown' = Append(shown, Step(Current, ok))
          /\ failed' = Blamed(Current, ok)
          /\ stage' = IF ~ok /\ config[Current] THEN "ended" ELSE "running"
          /\ UNCHANGED reply
  /\ UNCHANGED <<server, config, wanted, heard>>

\* bounded_sequence: steps missing, not two or three of them, or no registry.
TakeSteps ==
  /\ server = "bounded_sequence" /\ stage = "called"
  /\ \/ Says("refused") /\ UNCHANGED wanted
     \/ /\ \E n \in 2..3 : wanted' = [i \in 1..n |-> i]
        /\ stage' = "running" /\ UNCHANGED reply
  /\ UNCHANGED <<server, config, shown, failed, ran, heard>>

\* A step of execute_sequence(steps, false): an error is a result that failed.
RunStep ==
  /\ server = "bounded_sequence" /\ stage = "running" /\ Len(shown) < Len(wanted)
  /\ \E ok \in BOOLEAN :
       /\ ran' = Append(ran, Step(Current, ok))
       /\ shown' = Append(shown, Step(Current, ok))
       /\ stage' = IF ok THEN "running" ELSE "ended"
  /\ UNCHANGED <<server, config, wanted, failed, reply, heard>>

\* overall_success of verify_change, sequence_success of bounded_sequence.
Success ==
  IF server = "verify_change" THEN failed = NoCheck
  ELSE (\A i \in DOMAIN shown : shown[i].ok) /\ Len(shown) >= Len(wanted)

AnswerCall ==
  /\ stage = "ended" \/ (stage = "running" /\ Len(shown) = Len(wanted))
  /\ reply' = [kind |-> "verdict", success |-> Success, requested |-> wanted,
               executed |-> shown, failed |-> failed]
  /\ stage' = "listening"
  /\ UNCHANGED <<server, config, wanted, shown, failed, ran, heard>>

\* main returns: stdin is at its end or cannot be read, stdout cannot be written, or,
\* in a call of verify_change, there is no current directory.
Stop ==
  /\ stage = "listening" \/ (server = "verify_change" /\ stage = "called")
  /\ stage' = "stopped"
  /\ UNCHANGED <<server, config, wanted, shown, failed, ran, reply, heard>>

McpNext ==
  \/ Stop \/ ReadLine \/ LoadConfig \/ ResolveChecks \/ Prepare \/ RunCheck
  \/ TakeSteps \/ RunStep \/ AnswerCall

McpSpec == McpInit /\ [][McpNext]_mcpVars

-----------------------------------------------------------------------------
\* A server waits for a line, is somewhere in a call or has stopped, with at most MaxChecks
\* checks or three steps to run and no more results than those.
McpTypeOK ==
  /\ stage \in {"listening", "called", "loaded", "resolved", "running", "ended", "stopped"}
  /\ DOMAIN config \subseteq AnyCheck /\ failed \in AnyCheck \cup {NoCheck}
  /\ Len(wanted) <= (IF server = "verify_change" THEN MaxChecks ELSE 3)
  /\ Len(shown) <= Len(wanted) /\ heard \in 0..MaxHeard
  /\ stage \in {"called", "loaded", "resolved", "running", "ended"} => reply = NoReply

(* A verdict says what was run: the evidence is what ran, in the order that *)
(* was asked for; it is a success exactly when everything asked for ran and *)
(* passed; it stops short only right after a failure that may stop it; and  *)
(* verify_change names the last check that failed.                          *)
VerdictsTrue ==
  reply.kind = "verdict" =>
    LET done == reply.executed
        bad  == {i \in DOMAIN done : ~done[i].ok}
    IN  /\ done = ran
        /\ \A i \in DOMAIN done : done[i].id = reply.requested[i]
        /\ reply.success <=> Len(done) = Len(reply.requested) /\ bad = {}
        /\ Len(done) < Len(reply.requested) =>
             /\ ~done[Len(done)].ok
             /\ server = "verify_change" => config[done[Len(done)].id]
        /\ server = "verify_change" =>
             reply.failed = IF bad = {} THEN NoCheck ELSE done[Max(bad)].id
=============================================================================

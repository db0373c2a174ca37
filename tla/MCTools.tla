------------------------------- MODULE MCTools -------------------------------
(***************************************************************************)
(* The parts that share no state with each other, side by side for one     *)
(* run: a behaviour is one of one part, chosen at the start, while the     *)
(* variables of the others keep the value of an initial state.  The state  *)
(* space is the sum of theirs, not the product.                            *)
(*                                                                         *)
(* Memory: two callers, two keys, room for one, two ttls and a clock that  *)
(* passes both.  Lists: two items, two plans, three made, so that the cap  *)
(* and a clear both come before another create.  Workspace: two calls at a *)
(* time on a directory, a file in it and a file beside it, three in all,   *)
(* so that a file may outgrow read_limit.  Audit: a log that is rotated    *)
(* when it has more than one line.  Experiment: two turns with every way   *)
(* of handing work over.  Mcp: three checks of which two fit.  Http: a     *)
(* limit of two bytes, chunks up to twice as much.  Counters: two handlers *)
(* under two scrapes.                                                      *)
(***************************************************************************)
EXTENDS Memory, Lists, Workspace, Audit, Experiment, Mcp, Http, Arguments, Counters, TLC

CONSTANTS Parts, t, u

VARIABLES part

MCPaths == {<< >>, <<"d">>, <<"f">>, <<"d", "f">>}
MCHome == <<"d">>
MCCheckOrder == <<"test", "lint", "diff">>

Reading == <<"filesystem", "read">>
Testing == <<"shell", "test">>
MCRequests ==
  { <<"execute", <<Reading>> >>, <<"once", <<Testing>> >>, <<"batch", <<Reading>> >>,
    <<"sequence", <<Testing, Testing>> >>, <<"bounded", <<Testing, Reading>> >>,
    <<"verification", <<Testing>> >> }

vars == <<part, memoryVars, listsVars, workspaceVars, auditVars, experimentVars,
          mcpVars, httpVars, argumentsVars, countersVars>>

\* The inputs that a part at rest keeps.
AnyRequest == [method |-> "known", rest |-> "accepted",
               url |-> [scheme |-> "https", host |-> "public name", dotted |-> FALSE,
                       port |-> "listed"]]
AnyCall == [tool |-> "think", op |-> "not an operation", direct |-> FALSE,
            args |-> [f \in Fields("think", "call") |-> "ok"], at |-> "called", answer |-> "none"]

Init ==
  /\ part \in Parts
  /\ MemoryInit /\ ListsInit /\ WorkspaceInit /\ AuditInit /\ ExperimentInit /\ CountersInit
  /\ part # "mcp" => server = "verify_change"
  /\ McpInit
  /\ part # "http" => request = AnyRequest
  /\ HttpInit
  /\ IF part = "arguments" THEN ArgumentsInit ELSE asked = AnyCall /\ used = NoneUsed

InMemory == part = "memory" /\ MemoryNext
  /\ UNCHANGED <<part, listsVars, workspaceVars, auditVars, experimentVars, mcpVars, httpVars, argumentsVars, countersVars>>
InLists == part = "lists" /\ ListsNext
  /\ UNCHANGED <<part, memoryVars, workspaceVars, auditVars, experimentVars, mcpVars, httpVars, argumentsVars, countersVars>>
InWorkspace == part = "workspace" /\ WorkspaceNext
  /\ UNCHANGED <<part, memoryVars, listsVars, auditVars, experimentVars, mcpVars, httpVars, argumentsVars, countersVars>>
InAudit == part = "audit" /\ AuditNext
  /\ UNCHANGED <<part, memoryVars, listsVars, workspaceVars, experimentVars, mcpVars, httpVars, argumentsVars, countersVars>>
InExperiment == part = "experiment" /\ ExperimentNext
  /\ UNCHANGED <<part, memoryVars, listsVars, workspaceVars, auditVars, mcpVars, httpVars, argumentsVars, countersVars>>
InMcp == part = "mcp" /\ McpNext
  /\ UNCHANGED <<part, memoryVars, listsVars, workspaceVars, auditVars, experimentVars, httpVars, argumentsVars, countersVars>>
InHttp == part = "http" /\ HttpNext
  /\ UNCHANGED <<part, memoryVars, listsVars, workspaceVars, auditVars, experimentVars, mcpVars, argumentsVars, countersVars>>
InArguments == part = "arguments" /\ ArgumentsNext
  /\ UNCHANGED <<part, memoryVars, listsVars, workspaceVars, auditVars, experimentVars, mcpVars, httpVars, countersVars>>
InCounters == part = "counters" /\ CountersNext
  /\ UNCHANGED <<part, memoryVars, listsVars, workspaceVars, auditVars, experimentVars, mcpVars, httpVars, argumentsVars>>

Next ==
  \/ InMemory \/ InLists \/ InWorkspace \/ InAudit \/ InExperiment
  \/ InMcp \/ InHttp \/ InArguments \/ InCounters

Spec == Init /\ [][Next]_vars

\* Calls of a workspace and turns of a task are alike, and so are the handlers.
Symmetry == Permutations(Workers) \cup Permutations(Turns) \cup Permutations(Observers)

\* Every part is type correct.
ToolsTypeOK ==
  /\ MemoryTypeOK
  /\ ListsTypeOK
  /\ WorkspaceTypeOK
  /\ AuditTypeOK
  /\ ExperimentTypeOK
  /\ McpTypeOK
  /\ HttpTypeOK
  /\ ArgumentsTypeOK
  /\ CountersTypeOK
=============================================================================

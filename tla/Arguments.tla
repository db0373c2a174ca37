------------------------------ MODULE Arguments ------------------------------
(***************************************************************************)
(* What a tool accepts and what it then relies on.  Each tool checks its   *)
(* arguments in validate (or parse, check) and takes them apart again in   *)
(* execute, with unwraps and with defaults that no caller asked for; the   *)
(* two must agree.  A call comes through the registry, which validates     *)
(* first, or straight to the tool.                                         *)
(*                                                                         *)
(* An argument is absent, of another JSON type than the tool reads (other),*)
(* of that type but outside what the tool's description permits (bad), or  *)
(* ok; a pid that is permitted may be too wide for the i32 it ends as.     *)
(* A null that the tool takes for nothing is absent.  What think, reflect  *)
(* and the system tool answer is here too: they keep no state.  The        *)
(* arguments of the filesystem tool are in Workspace.                      *)
(***************************************************************************)
EXTENDS Naturals, FiniteSets

CONSTANTS Enabled \* the gated operations that the policy of the system tool enables

Gated == {"process_list", "process_kill"}

ASSUME ArgumentsAssumption == Enabled \subseteq Gated

VARIABLES
  asked, \* the call: tool, operation, arguments, the way it came, and how far it is
  used   \* what execute made of each argument that it read

argumentsVars == <<asked, used>>

If(condition, fields) == IF condition THEN fields ELSE {}

\* typed: read with as_str and the like, or an error; present: there, of any type;
\* strict: an error when there with another type; bounded: an error when bad.
Rule(typed, present, strict, bounded) ==
  [typed |-> typed, present |-> present, strict |-> strict, bounded |-> bounded]

Meets(args, rule) ==
  /\ \A f \in rule.typed : args[f] \notin {"absent", "other"}
  /\ \A f \in rule.present : args[f] # "absent"
  /\ \A f \in rule.strict : args[f] # "other"
  /\ \A f \in rule.bounded : args[f] # "bad"

ThinkRule == Rule({"thought"}, {}, {}, {"thought", "next_action", "confidence", "alternatives"})

\* Faulty variant of MemoryRule: a store without a value is let through.
MemoryRule_NoValue(op) ==
  LET keyed == op \in {"store", "recall", "forget"} IN
  Rule(If(keyed, {"key"}) \cup If(op = "search", {"query"}), {}, {},
       If(keyed, {"key"}) \cup {"value", "query", "ttl_ms", "session_id"})

MemoryRule(op) ==
  LET keyed == op \in {"store", "recall", "forget"} IN
  Rule(If(keyed, {"key"}) \cup If(op = "search", {"query"}), If(op = "store", {"value"}), {},
       If(keyed, {"key"}) \cup {"value", "query", "ttl_ms", "session_id"})

TodoRule(op) ==
  Rule(If(op = "add", {"task"}) \cup If(op \in {"update", "done", "get"}, {"id"})
         \cup If(op = "update", {"status"}),
       {}, {}, If(op = "add", {"task", "priority"}))

PlanRule(op) ==
  Rule(If(op = "create", {"goal"}) \cup If(op = "add_step", {"description"})
         \cup If(op \in {"get", "clear", "add_step", "update_step"}, {"plan_id"}),
       {}, {}, If(op = "create", {"goal", "steps"}) \cup If(op = "add_step", {"description"}))

ReflectRule == Rule({}, {"outcome"}, {}, {"thought"})

CodeRule == Rule({"language", "code"}, {}, {"stdin"}, {"language", "code", "stdin", "timeout_ms"})

\* parse.  The whole input goes through stdin or through stdin_base64.
ShellRule == Rule({"program"}, {}, {"args", "stdin", "stdin_base64"},
                  {"program", "args", "working_dir", "stdin", "stdin_base64"})

SystemRule(op) ==
  LET needed == If(op = "sleep", {"duration_ms"}) \cup If(op = "env_get", {"key"})
                  \cup If(op = "hash", {"input"}) \cup If(op = "process_kill", {"pid"})
  IN  Rule(needed, {}, {}, needed \cup If(op = "process_kill", {"signal"}))

\* check, for everything but the destination, which is in Http.
HttpRule == Rule({"url"}, {}, {"headers"}, {"url", "method", "body", "headers"})

\* Two or three steps, each with a registered tool, not this one, and args.
BoundedRule == Rule({"steps"}, {}, {}, {"steps"})

VerifyRule == Rule({}, {}, {"scope", "checks"}, {"scope", "checks"})

Operations(tool) ==
  CASE tool = "memory" -> {"store", "recall", "list", "search", "forget"}
    [] tool = "todo" -> {"add", "list", "update", "done", "clear", "get"}
    [] tool = "plan" -> {"create", "list", "get", "add_step", "update_step", "clear"}
    [] tool = "system" -> {"now", "sleep", "env_get", "env_list", "hash", "info"} \cup Gated
    [] OTHER -> {"call"}

Tools == {"think", "memory", "todo", "plan", "reflect", "code", "shell", "system", "http",
          "bounded_sequence", "verify_change"}

RuleOf(tool, op) ==
  CASE tool = "think" -> ThinkRule
    [] tool = "memory" -> MemoryRule(op)
    [] tool = "todo" -> TodoRule(op)
    [] tool = "plan" -> PlanRule(op)
    [] tool = "reflect" -> ReflectRule
    [] tool = "code" -> CodeRule
    [] tool = "shell" -> ShellRule
    [] tool = "system" -> SystemRule(op)
    [] tool = "http" -> HttpRule
    [] tool = "bounded_sequence" -> BoundedRule
    [] tool = "verify_change" -> VerifyRule

\* How an execute reads: what it cannot do without, what it takes whole, of any
\* type, and what it has a default for (unwrap_or, or an Option).
Reader(needs, wholes, defaults) == [needs |-> needs, wholes |-> wholes, defaults |-> defaults]

SystemReader(op) ==
  Reader({}, {}, If(op = "sleep", {"duration_ms"}) \cup If(op = "env_get", {"key"})
                  \cup If(op = "hash", {"input"}) \cup If(op = "process_kill", {"pid", "signal"}))

MemoryReader(op) ==
  Reader(If(op \in {"store", "recall", "forget"}, {"key"}) \cup If(op = "search", {"query"}),
        If(op = "store", {"value"}),
        {"session_id"} \cup If(op = "store", {"ttl_ms"}))

TodoReader(op) ==
  Reader(If(op = "add", {"task"}) \cup If(op \in {"get", "update", "done"}, {"id"})
          \cup If(op = "update", {"status"}),
        {}, {"session_id"} \cup If(op \in {"add", "update"}, {"priority"}))

PlanReader(op) ==
  Reader(If(op = "create", {"goal"}) \cup If(op = "add_step", {"description"})
          \cup If(op \in {"get", "add_step", "update_step", "clear"}, {"plan_id"}),
        {}, {"session_id"} \cup If(op = "create", {"steps"}) \cup If(op = "add_step", {"depends_on"})
              \cup If(op = "update_step", {"description", "status"}))

\* What shell, http and verify_change use is what their check took apart.
ReaderOf(tool, op) ==
  CASE tool = "think" -> Reader({"thought"}, {}, {"next_action", "confidence", "alternatives"})
    [] tool = "memory" -> MemoryReader(op)
    [] tool = "todo" -> TodoReader(op)
    [] tool = "plan" -> PlanReader(op)
    [] tool = "reflect" -> Reader({}, {"outcome"}, {"thought", "next_action"})
    [] tool = "code" -> Reader({"language", "code"}, {}, {"stdin", "timeout_ms"})
    [] tool = "shell" -> Reader({"program"}, {}, {"args", "working_dir", "stdin", "stdin_base64"})
    [] tool = "system" -> SystemReader(op)
    [] tool = "http" -> Reader({"url"}, {}, {"method", "body", "headers"})
    [] tool = "bounded_sequence" -> Reader({"steps"}, {}, {})
    [] tool = "verify_change" -> Reader({}, {}, {"scope", "checks"})

ReadBy(tool, op) == LET reader == ReaderOf(tool, op) IN reader.needs \cup reader.wholes \cup reader.defaults

Fields(tool, op) == LET rule == RuleOf(tool, op) IN
  rule.typed \cup rule.present \cup rule.strict \cup rule.bounded \cup ReadBy(tool, op)

Classes(f) == {"absent", "other", "bad", "ok"} \cup If(f = "pid", {"wide"})

Permits(call) ==
  /\ call.op \in Operations(call.tool) \ (Gated \ Enabled)
  /\ Meets(call.args, RuleOf(call.tool, call.op))
  /\ call.tool = "plan" /\ call.op = "update_step" =>
       call.args["description"] # "absent" \/ call.args["status"] # "absent"
  /\ call.tool = "shell" => call.args["stdin"] = "absent" \/ call.args["stdin_base64"] = "absent"

CallsOf(tool, op) ==
  LET fields == Fields(tool, op) IN
  [tool : {tool}, op : {op},
   args : {a \in [fields -> UNION {Classes(f) : f \in fields}] : \A f \in fields : a[f] \in Classes(f)},
   direct : BOOLEAN, at : {"called"}, answer : {"none"}]

NoneUsed == [f \in {} |-> "given"]

ArgumentsInit ==
  /\ asked \in UNION {UNION {CallsOf(tool, op) : op \in Operations(tool) \cup {"not an operation"}} :
                       tool \in Tools}
  /\ used = NoneUsed

Refuses == asked' = [asked EXCEPT !.at = "answered", !.answer = "rejected"]

\* ToolRegistry::execute validates before it executes.
RegistryValidates ==
  /\ asked.at = "called"
  /\ IF asked.direct \/ Permits(asked) THEN asked' = [asked EXCEPT !.at = "executing"]
     ELSE Refuses
  /\ UNCHANGED used

\* Every execute validates again, or parses anew, but that of bounded_sequence,
\* which only looks for the array.
ValidatesAgain(call) ==
  IF call.tool = "bounded_sequence" THEN Meets(call.args, Rule({"steps"}, {}, {}, {}))
  ELSE Permits(call)

ToolValidates ==
  /\ asked.at = "executing"
  /\ IF ValidatesAgain(asked) THEN asked' = [asked EXCEPT !.at = "performing"] ELSE Refuses
  /\ UNCHANGED used

\* What execute makes of the argument f.  system's execute narrows its pid.
Use(call, f) ==
  LET a == call.args[f]
      reader == ReaderOf(call.tool, call.op) IN
  CASE a = "absent" \/ (a = "other" /\ f \notin reader.wholes) ->
         IF f \in reader.defaults THEN "default" ELSE "missing"
    [] a = "bad" -> "beyond"
    [] a = "wide" -> "narrowed"
    [] OTHER -> "given"

\* An unwrap of what is missing or not a language, or an operation without an arm.
Panics(call, uses) ==
  \/ call.op \notin Operations(call.tool)
  \/ \E f \in DOMAIN uses : uses[f] = "missing"
  \/ call.tool = "code" /\ uses["language"] = "beyond"

\* The variable of env_get may be unset; /proc is only read on Linux; a process to
\* signal may be gone or another user's, and a pid narrowed to 0 is rejected.
SystemOutcomes(op) ==
  CASE op = "env_get" -> {"success", "env_not_found"}
    [] op = "process_list" -> {"success", "not_supported"}
    [] op = "process_kill" -> {"success", "kill_permission_denied", "process_not_found",
                               "kill_failed", "rejected"}
    [] OTHER -> {"success"}

\* think and reflect always succeed: reflect reports the success of what it was
\* given in its summary.  The other tools are modelled elsewhere.  A step of
\* bounded_sequence that nobody checked may lack what execute unwraps.
Outcomes(call, uses) ==
  CASE Panics(call, uses) -> {"panicked"}
    [] call.tool = "system" -> SystemOutcomes(call.op)
    [] call.tool \in {"think", "reflect"} -> {"success"}
    [] OTHER -> {"success", "failure"}
                  \cup If(call.tool = "bounded_sequence" /\ uses["steps"] = "beyond", {"panicked"})

Performs ==
  /\ asked.at = "performing"
  /\ used' = [f \in ReadBy(asked.tool, asked.op) |-> Use(asked, f)]
  /\ \E answer \in Outcomes(asked, used') :
       asked' = [asked EXCEPT !.at = "answered", !.answer = answer]

ArgumentsNext == RegistryValidates \/ ToolValidates \/ Performs

ArgumentsSpec == ArgumentsInit /\ [][ArgumentsNext]_argumentsVars

-----------------------------------------------------------------------------
\* A call is called, executing, performing or answered, and answered only once.
ArgumentsTypeOK ==
  /\ asked.tool \in Tools
  /\ asked.at \in {"called", "executing", "performing", "answered"}
  /\ asked.at = "answered" <=> asked.answer # "none"

\* What the description of a tool lets a caller leave out.
Optional(tool, op) ==
  CASE tool = "think" -> {"next_action", "confidence", "alternatives"}
    [] tool = "memory" -> {"ttl_ms", "session_id"}
    [] tool = "todo" -> {"priority", "session_id"}
    [] tool = "plan" -> {"steps", "depends_on", "session_id"}
                          \cup If(op = "update_step", {"description", "status"})
    [] tool = "reflect" -> {"thought", "next_action"}
    [] tool = "code" -> {"stdin", "timeout_ms"}
    [] tool = "shell" -> {"args", "working_dir", "stdin", "stdin_base64"}
    [] tool = "system" -> {"signal"}
    [] tool = "http" -> {"method", "body", "headers"}
    [] tool = "verify_change" -> {"scope", "checks"}
    [] OTHER -> {}

\* What no tool drops for being of another type.  It does drop the rest of what is
\* optional: a timeout_ms, signal, ttl_ms or session_id of another type is as if absent.
NeverDropped == {"args", "stdin", "stdin_base64", "headers", "scope", "checks"}

\* What reaches an execute although the description does not permit it, or without
\* being looked at: ids are looked up, the rest is kept as it is.
Unchecked(tool, op) ==
  CASE tool = "todo" -> {"id", "session_id"} \cup If(op = "update", {"status", "priority"})
    [] tool = "plan" -> {"plan_id", "session_id", "depends_on"}
                          \cup If(op = "update_step", {"description", "status"})
    [] tool = "reflect" -> {"outcome", "next_action"}
    [] OTHER -> {}

(* Whatever mixture of absent, mistyped and excessive arguments comes in,  *)
(* each execute agrees with the validate before it: it unwraps nothing     *)
(* that is missing and has an arm for the operation, a default stands only *)
(* for what may be left out, and for no input of a program or request that *)
(* was there with another type, and a value beyond its bound gets through  *)
(* only where nothing looks at it.  Nothing is said of a pid that is used  *)
(* narrowed: the process it then names is not the one validate looked at.  *)
(* Coming straight to bounded_sequence, past the registry, is excepted.    *)
AcceptedArgumentsSuffice ==
  ~(asked.direct /\ asked.tool = "bounded_sequence") =>
    /\ asked.answer # "panicked"
    /\ \A f \in DOMAIN used :
         /\ used[f] = "default" => f \in Optional(asked.tool, asked.op)
         /\ used[f] = "default" /\ f \in NeverDropped => asked.args[f] = "absent"
         /\ used[f] = "beyond" => f \in Unchecked(asked.tool, asked.op)
=============================================================================

-------------------------------- MODULE Lists --------------------------------
(***************************************************************************)
(* The todo and plan tools (agent.rs): one scope of each store.  Every     *)
(* operation takes the write or the read lock of its store once, so that   *)
(* it is one step; what is hard is the long sequence of them.              *)
(*                                                                         *)
(* Todo items and plans are numbered as they are made (`item`, `plan`),    *)
(* which stands for their text.  An id is the number in t{n} or p{n}; the  *)
(* id of an item made when t{n} was taken is t{n}-0 (the time since `now`, *)
(* in ms), written Second(n) here.                                         *)
(***************************************************************************)
EXTENDS Naturals, Sequences, FiniteSets, FiniteSetsExt, Functions, InOrder

CONSTANTS
  MaxItems,    \* max_items
  MaxPlans,    \* max_plans
  FirstSteps,  \* how many steps a create may bring
  Statuses,    \* what an update may set; any string in the code
  MaxMade,     \* bound: items, and plans, made in a behaviour
  MaxSteps     \* bound: steps of a plan

ASSUME ListsAssumption ==
  /\ MaxItems \in Nat \ {0} /\ MaxPlans \in Nat \ {0} /\ MaxMade \in Nat /\ MaxSteps \in Nat
  /\ FirstSteps \subseteq 0..MaxSteps /\ {"pending", "done"} \subseteq Statuses

VARIABLES
  todos,     \* the Vec of the scope
  plans,     \* plan id -> plan
  made,      \* ghost: items or plans made so far
  given,     \* ghost: <<id, number>> that an add or a create answered
  cleared    \* ghost: something was removed, by a clear or at the cap

listsVars == <<todos, plans, made, given, cleared>>

ListsInit == todos = << >> /\ plans = << >> /\ made = 0 /\ given = {} /\ cleared = FALSE

-----------------------------------------------------------------------------
(* todo *)

Second(n) == <<n, "again">>

\* Faulty variant of TodoId: the id is that of the last item.
TodoId_Last(s) == <<IF s = << >> THEN 1 ELSE Len(s)>>

\* The id of the next item: taken once, but the second form is not checked.
TodoId(s) ==
  LET n == Len(s) + 1 IN
  IF \E i \in DOMAIN s : s[i].id = <<n>> THEN Second(n) ELSE <<n>>

TodoAdd ==
  /\ made < MaxMade /\ made' = made + 1
  /\ LET full == Len(todos) >= MaxItems
         kept == IF full THEN Tail(todos) ELSE todos
         id   == TodoId(kept)
     IN  /\ todos' = Append(kept, [id |-> id, status |-> "pending", item |-> made'])
         /\ given' = given \cup {<<id, made'>>}
         /\ cleared' = (cleared \/ full)
  /\ UNCHANGED plans

\* get, update and done act on the first item of the id.
FirstOf(s, id) == {i \in DOMAIN s : s[i].id = id /\ \A j \in 1..(i - 1) : s[j].id # id}

TodoSet(id, status) ==
  /\ \E i \in FirstOf(todos, id) : todos' = [todos EXCEPT ![i].status = status]
  /\ UNCHANGED <<plans, made, given, cleared>>

TodoUpdate == \E i \in DOMAIN todos, status \in Statuses : TodoSet(todos[i].id, status)

TodoDone == \E i \in DOMAIN todos : TodoSet(todos[i].id, "done")

Unfinished(item) == item.status # "done"

TodoClear ==
  /\ todos' = Retained(todos, {i \in DOMAIN todos : Unfinished(todos[i])})
  /\ cleared' = (cleared \/ todos' # todos)
  /\ UNCHANGED <<plans, made, given>>

-----------------------------------------------------------------------------
(* plan *)

NewSteps(n) == [i \in 1..n |-> [id |-> i, status |-> "pending", renamed |-> FALSE]]

\* At the cap an arbitrary plan goes; the id then counts those that are left,
\* and insert replaces the plan that has it.
PlanCreate ==
  /\ made < MaxMade /\ made' = made + 1
  /\ \E out \in IF Cardinality(DOMAIN plans) >= MaxPlans
                THEN {{p} : p \in DOMAIN plans} ELSE {{}} :
     \E n \in FirstSteps :
       LET kept == DOMAIN plans \ out
           id   == Cardinality(kept) + 1
       IN  /\ plans' = [p \in kept \cup {id} |->
                          IF p = id THEN [plan |-> made', steps |-> NewSteps(n)] ELSE plans[p]]
           /\ given' = given \cup {<<<<id, "plan">>, made'>>}
           /\ cleared' = (cleared \/ out # {})
  /\ UNCHANGED todos

PlanAddStep ==
  \E p \in DOMAIN plans :
    LET n == Len(plans[p].steps) + 1 IN
    /\ n <= MaxSteps
    /\ plans' = [plans EXCEPT ![p].steps =
                   Append(@, [id |-> n, status |-> "pending", renamed |-> FALSE])]
    /\ UNCHANGED <<todos, made, given, cleared>>

\* An argument that may be missing.
Or(new, old) == IF new = "none" THEN old ELSE new

\* The description names a step, whose status is set when there is one.
PlanUpdateNamed(p, status) ==
  \E s \in DOMAIN plans[p].steps :
    plans' = [plans EXCEPT ![p].steps[s].status = Or(status, @)]

\* It names none, or there is none: the first step that is not done takes the
\* status and the description, each if it is there.
PlanUpdateFirst(p, status, description) ==
  LET steps == plans[p].steps
      open  == {s \in DOMAIN steps : Unfinished(steps[s])}
      first == steps[Min(open)]
  IN  IF open = {} THEN UNCHANGED plans
      ELSE plans' = [plans EXCEPT ![p].steps[Min(open)] =
             [first EXCEPT !.status = Or(status, first.status),
                           !.renamed = first.renamed \/ description]]

PlanUpdateStep ==
  /\ \E p \in DOMAIN plans, status \in Statuses \cup {"none"} :
       \/ PlanUpdateNamed(p, status)
       \/ \E description \in BOOLEAN : PlanUpdateFirst(p, status, description)
  /\ UNCHANGED <<todos, made, given, cleared>>

PlanClear ==
  /\ \E p \in DOMAIN plans : plans' = Restrict(plans, DOMAIN plans \ {p})
  /\ cleared' = TRUE
  /\ UNCHANGED <<todos, made, given>>

ListsNext ==
  \/ TodoAdd \/ TodoUpdate \/ TodoDone \/ TodoClear
  \/ PlanCreate \/ PlanAddStep \/ PlanUpdateStep \/ PlanClear

ListsSpec == ListsInit /\ [][ListsNext]_listsVars

-----------------------------------------------------------------------------
\* Neither store outgrows its cap (TodoTool, PlanTool).
ListsTypeOK ==
  /\ Len(todos) <= MaxItems
  /\ \A i \in DOMAIN todos : todos[i].status \in Statuses /\ todos[i].item \in 1..made
  /\ Cardinality(DOMAIN plans) <= MaxPlans
  /\ \A p \in DOMAIN plans : /\ p \in 1..MaxPlans /\ plans[p].plan \in 1..made
                             /\ Len(plans[p].steps) \in 0..MaxSteps
  /\ made \in 0..MaxMade /\ cleared \in BOOLEAN

\* What an id answered by add or create leads to: the number of the item or plan.
Found(id) ==
  IF Len(id) = 2 /\ id[2] = "plan"
  THEN {plans[p].plan : p \in {p \in DOMAIN plans : p = id[1]}}
  ELSE {todos[i].item : i \in FirstOf(todos, id)}

(* As long as nothing was cleared and no cap was met, an id that was       *)
(* answered leads to the item or plan it was answered for, whatever was    *)
(* added and updated since; and so does the id of a step, always.          *)
IdsHold ==
  /\ ~cleared => \A g \in given : Found(g[1]) = {g[2]}
  /\ \A p \in DOMAIN plans : \A s, t \in DOMAIN plans[p].steps :
       plans[p].steps[s].id = plans[p].steps[t].id => s = t

(* An id leads nowhere else: "get: fetch one by id" and "done: complete"   *)
(* reach the item the id was answered for, or nothing.                     *)
IdsLeadHome == \A g \in given : Found(g[1]) \subseteq {g[2]}
=============================================================================

-------------------------- MODULE HotReloadProofs ---------------------------
(***************************************************************************)
(* The hot reload, for any number of edits: its types, and that requests   *)
(* see nothing but the swaps of PolicySwap.  The inductive invariant adds  *)
(* to the types how far registry and hosts are behind the loads at every   *)
(* point of the task.                                                      *)
(***************************************************************************)
EXTENDS HotReload, TLAPS

\* How far the registry and the hosts are behind at each point is inductive.
LEMMA Inductive == Spec => []IInv
<1>1. Init => IInv
  BY MaxEditsAssumption DEF Init, IInv, TypeOK, Published, EventsLeft
<1>2. IInv /\ [Next]_vars => IInv'
  <2> SUFFICES ASSUME IInv, [Next]_vars PROVE IInv'
    OBVIOUS
  <2> USE MaxEditsAssumption DEF IInv, TypeOK, Published, EventsLeft, Goto
  <2>1. ASSUME NEW ok \in BOOLEAN, Edit(ok) PROVE IInv'
    BY <2>1 DEF Edit
  <2>2. CASE Notify
    BY <2>2 DEF Notify
  <2>3. CASE Receive
    BY <2>3 DEF Receive
  <2>4. CASE Debounce
    BY <2>4 DEF Debounce
  <2>5. CASE Drain
    BY <2>5 DEF Drain
  <2>6. CASE Drained
    BY <2>6 DEF Drained
  <2>7. CASE Load
    <3>1. /\ loads' \in Seq(0..MaxEdits)
          /\ Len(loads') = Len(loads) + 1
      BY <2>7 DEF Load
    <3> QED
      BY <3>1, <2>7 DEF Load
  <2>8. CASE Unusable
    BY <2>8 DEF Unusable
  <2>9. CASE PublishRegistry
    BY <2>9 DEF PublishRegistry
  <2>10. CASE PublishHosts
    BY <2>10 DEF PublishHosts
  <2>11. CASE UNCHANGED vars
    BY <2>11 DEF vars
  <2> QED
    BY <2>1, <2>2, <2>3, <2>4, <2>5, <2>6, <2>7, <2>8, <2>9, <2>10, <2>11
    DEF Next, Reload
<1> QED
  BY <1>1, <1>2, PTL DEF Spec

\* The reload keeps its types: the channel holds at most one message, and what is
\* published was loaded from a usable file.
THEOREM TypeCorrect == Spec => []TypeOK
<1>1. IInv => TypeOK
  BY DEF IInv
<1> QED
  BY <1>1, Inductive, PTL

\* One step of the reload is a swap or nothing to a request.
LEMMA RefinesStep == IInv /\ [Next]_vars => [Swap!PolicyNext]_(Swap!policy)
<1> SUFFICES ASSUME IInv, [Next]_vars PROVE [Swap!PolicyNext]_(Swap!policy)
  OBVIOUS
<1> USE DEF Swap!policy
<1>1. CASE PublishRegistry
  <2>1. registry + 1 = Len(loads) /\ egress_hosts = registry
    BY <1>1 DEF PublishRegistry, Goto, IInv, Published
  <2> QED
    BY <2>1, <1>1 DEF PublishRegistry, Swap!PolicyNext, Swap!SwapRegistry
<1>2. CASE PublishHosts
  <2>1. registry = Len(loads) /\ egress_hosts + 1 = Len(loads)
    BY <1>2 DEF PublishHosts, Goto, IInv, Published
  <2>2. egress_hosts # registry
    BY <2>1 DEF IInv, TypeOK
  <2> QED
    BY <2>1, <2>2, <1>2 DEF PublishHosts, Swap!PolicyNext, Swap!SwapHosts
<1>3. CASE UNCHANGED <<registry, egress_hosts>>
  BY <1>3
<1>4. PublishRegistry \/ PublishHosts \/ UNCHANGED <<registry, egress_hosts>>
  BY DEF Next, Reload, Edit, Notify, Receive, Debounce, Drain, Drained, Load, Unusable, vars
<1> QED
  BY <1>1, <1>2, <1>3, <1>4

\* Whatever happens to the file and the channel, the registry is published before
\* the hosts and both come from the same usable file.
THEOREM Implementation == Spec => ImplementsSwap
<1>1. Init => Swap!PolicyInit
  BY DEF Init, Swap!PolicyInit
<1> QED
  BY <1>1, RefinesStep, Inductive, PTL DEF Spec, ImplementsSwap, Swap!PolicySpec
=============================================================================

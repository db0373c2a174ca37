----------------------------- MODULE HotReload ------------------------------
(***************************************************************************)
(* The hot reload of marshalld (serve in src/bin/marshalld.rs).  A watcher *)
(* thread turns every modification of the policy file into a message on a  *)
(* channel that holds one; a task takes a message, sleeps, empties the     *)
(* channel, reads the file and, when it is usable, publishes a new         *)
(* registry and then its egress hosts.                                     *)
(***************************************************************************)
EXTENDS Naturals, Sequences

CONSTANT MaxEdits  \* bound on the modifications of the file

ASSUME MaxEditsAssumption == MaxEdits \in Nat

VARIABLES
  file,         \* the policy file: its edit number, and whether it is usable
  events,       \* modifications the watcher thread has not sent yet
  channel,      \* messages in the channel, at most one
  pc,           \* where the reload task is
  loads,        \* loads[n]: the edit that the n-th usable policy was read from
  registry,     \* the load that AppState.registry was built from
  egress_hosts  \* the load that AppState.egress_hosts comes from

vars == <<file, events, channel, pc, loads, registry, egress_hosts>>

\* Types; what is published is among the loads, and only a usable policy is a load.
TypeOK ==
  /\ file \in [edit : 0..MaxEdits, usable : BOOLEAN]
  /\ events \in 0..MaxEdits
  /\ channel \in 0..1
  /\ pc \in {"recv", "sleep", "drain", "read", "registry", "hosts"}
  /\ loads \in Seq(0..MaxEdits)
  /\ registry \in 1..Len(loads)
  /\ egress_hosts \in 1..Len(loads)

Init ==
  /\ file = [edit |-> 0, usable |-> TRUE]
  /\ events = 0
  /\ channel = 0
  /\ pc = "recv"
  /\ loads = <<0>>
  /\ registry = 1
  /\ egress_hosts = 1

\* The file is modified in place.  A partly written or invalid policy, and one
\* that no registry can be built from, is not usable.
Edit(ok) ==
  /\ file.edit < MaxEdits
  /\ file' = [edit |-> file.edit + 1, usable |-> ok]
  /\ events' = events + 1
  /\ UNCHANGED <<channel, pc, loads, registry, egress_hosts>>

\* Faulty variant: the channel takes any number of messages.
Notify_Unbounded ==
  /\ events > 0
  /\ channel' = channel + 1
  /\ events' = events - 1
  /\ UNCHANGED <<file, pc, loads, registry, egress_hosts>>

\* blocking_send in the watcher's callback: it waits while the channel is full.
Notify ==
  /\ events > 0
  /\ channel = 0
  /\ channel' = 1
  /\ events' = events - 1
  /\ UNCHANGED <<file, pc, loads, registry, egress_hosts>>

Goto(from, to) == pc = from /\ pc' = to

Receive ==
  /\ channel > 0
  /\ channel' = channel - 1
  /\ Goto("recv", "sleep")
  /\ UNCHANGED <<file, events, loads, registry, egress_hosts>>

\* The 300 ms of the debounce, in which more messages may arrive.
Debounce ==
  /\ Goto("sleep", "drain")
  /\ UNCHANGED <<file, events, channel, loads, registry, egress_hosts>>

\* One try_recv of the loop; each may let the watcher send its next message.
Drain ==
  /\ pc = "drain"
  /\ channel > 0
  /\ channel' = channel - 1
  /\ UNCHANGED <<file, events, pc, loads, registry, egress_hosts>>

Drained ==
  /\ channel = 0
  /\ Goto("drain", "read")
  /\ UNCHANGED <<file, events, channel, loads, registry, egress_hosts>>

\* Faulty variant: the hosts of the policy are published as soon as it is read.
Load_PublishesHosts ==
  /\ file.usable
  /\ Goto("read", "registry")
  /\ loads' = Append(loads, file.edit)
  /\ egress_hosts' = Len(loads) + 1
  /\ UNCHANGED <<file, events, channel, registry>>

\* ExecutionPolicy::from_file and build_registry_from_policy.
Load ==
  /\ file.usable
  /\ Goto("read", "registry")
  /\ loads' = Append(loads, file.edit)
  /\ UNCHANGED <<file, events, channel, registry, egress_hosts>>

\* The warning branches: the policy in force stays.
Unusable ==
  /\ ~file.usable
  /\ Goto("read", "recv")
  /\ UNCHANGED <<file, events, channel, loads, registry, egress_hosts>>

PublishRegistry ==
  /\ Goto("registry", "hosts")
  /\ registry' = Len(loads)
  /\ UNCHANGED <<file, events, channel, loads, egress_hosts>>

\* Faulty variant: the channel is emptied again after the reload.
PublishHosts_Drains ==
  /\ Goto("hosts", "recv")
  /\ egress_hosts' = Len(loads)
  /\ channel' = 0
  /\ UNCHANGED <<file, events, loads, registry>>

PublishHosts ==
  /\ Goto("hosts", "recv")
  /\ egress_hosts' = Len(loads)
  /\ UNCHANGED <<file, events, channel, loads, registry>>

Reload ==
  \/ Receive \/ Debounce \/ Drain \/ Drained
  \/ Load \/ Unusable \/ PublishRegistry \/ PublishHosts

Next ==
  \/ \E ok \in BOOLEAN : Edit(ok)
  \/ Notify
  \/ Reload

\* The watcher thread and the reload task run; nobody is made to edit the file.
Spec == Init /\ [][Next]_vars /\ WF_vars(Notify) /\ WF_vars(Reload)

-----------------------------------------------------------------------------
(* Properties. *)

\* No modification is lost between the watcher, the channel and the drain: when
\* the edits stop on a usable file, its policy ends up in force, the tools of the
\* registry and the egress hosts alike.
LastPolicyTakesEffect ==
  <>[](file.usable => loads[registry] = file.edit /\ loads[egress_hosts] = file.edit)

Swap == INSTANCE PolicySwap

\* To the requests the reload is a sequence of swaps, registry first, hosts second,
\* and a policy that cannot be used changes neither.
ImplementsSwap == Swap!PolicySpec

-----------------------------------------------------------------------------
(* The inductive invariant of the proofs. *)

\* What is published when the reload task is where it is.
Published ==
  /\ pc = "registry" => registry + 1 = Len(loads) /\ egress_hosts = registry
  /\ pc = "hosts" => registry = Len(loads) /\ egress_hosts + 1 = Len(loads)
  /\ pc \notin {"registry", "hosts"} => registry = Len(loads) /\ egress_hosts = registry

\* Every modification is counted once: sent, waiting in the channel, or dealt with.
EventsLeft == events <= file.edit

IInv == TypeOK /\ Published /\ EventsLeft
=============================================================================

----------------------------- MODULE PolicySwap -----------------------------
(***************************************************************************)
(* What the requests of marshalld see of its policy.  Every policy that is *)
(* loaded gets the next number; the registry built from it and its egress  *)
(* hosts are published one after the other, never both at once and never   *)
(* the hosts first.                                                        *)
(***************************************************************************)
EXTENDS Naturals

VARIABLES
  registry,     \* the load that AppState.registry was built from
  egress_hosts  \* the load that AppState.egress_hosts comes from

policy == <<registry, egress_hosts>>

PolicyInit == registry = 1 /\ egress_hosts = 1

SwapRegistry ==
  /\ egress_hosts = registry
  /\ registry' = registry + 1
  /\ UNCHANGED egress_hosts

\* Faulty variant: the hosts of the next load are published before its registry.
SwapHosts_First ==
  /\ egress_hosts = registry
  /\ egress_hosts' = registry + 1
  /\ UNCHANGED registry

SwapHosts ==
  /\ egress_hosts # registry
  /\ egress_hosts' = registry
  /\ UNCHANGED registry

PolicyNext == SwapRegistry \/ SwapHosts

PolicySpec == PolicyInit /\ [][PolicyNext]_policy
=============================================================================

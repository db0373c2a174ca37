---------------------------- MODULE MCOnceCache -----------------------------
(***************************************************************************)
(* OnceCache with two callers that share four calls: two that race to      *)
(* record, a retry that finds the key, expired or displaced, and a fourth. *)
(* Two keys exceed the capacity of one; one key alone does not.            *)
(***************************************************************************)
EXTENDS OnceCache

CONSTANTS c1, c2, k1, k2

MCCaller == {c1, c2}
MCKey == {k1, k2}
MCCapacity == 1
MCTtl == 2
MCMaxCalls == 4
=============================================================================

---------------------------- MODULE MCMarshalld -----------------------------
(***************************************************************************)
(* Marshalld with one request of each route and of each way through it:    *)
(* with and without a session, an http step and an idempotency key; one    *)
(* session id, one key and one reload.                                     *)
(*                                                                         *)
(* For safety, three clients share two permits, so that two handlers are   *)
(* past admission together while a third is refused, creates or deletes;   *)
(* each of three requests may be anything.  For liveness, two clients make *)
(* three requests with one permit.                                         *)
(***************************************************************************)
EXTENDS Marshalld

CONSTANTS c1, c2, c3, s1, k1

MCThree == {c1, c2, c3}
MCTwo == {c1, c2}
MCSession == {s1}
MCKey == {k1}
MCMaxReloads == 1

Form1(kind, names, http, key) ==
  [kind |-> kind, sessions |-> names, http |-> http, key |-> key]

MCRequest ==
  { Form1("execute", {}, TRUE, k1),
    Form1("execute", {s1}, FALSE, NoKey),
    Form1("batch", {s1}, TRUE, NoKey),
    Form1("sequence", {s1}, TRUE, NoKey),
    Form1("stream", {}, FALSE, NoKey),
    Form1("create", {}, FALSE, NoKey),
    Form1("delete", {s1}, FALSE, NoKey) }
=============================================================================

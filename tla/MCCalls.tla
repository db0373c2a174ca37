------------------------------ MODULE MCCalls -------------------------------
(***************************************************************************)
(* Calls with batches of three requests, one or two at a time after the    *)
(* clamp, and a sequence of three steps, with and without                  *)
(* continue_on_error.  One permit, so that a call may have to be refused,  *)
(* and a batch that was left runs beside the next call.                    *)
(***************************************************************************)
EXTENDS Calls

CONSTANTS b1, q1

MCOneBatch == {b1}
MCSequence == {q1}
MCSize == [c \in Call |-> 3]
=============================================================================

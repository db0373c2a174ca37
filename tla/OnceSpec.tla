------------------------------ MODULE OnceSpec ------------------------------
(***************************************************************************)
(* What ToolRegistry::execute_once promises its callers, without locks,    *)
(* time or capacity.  A request for a key is answered either from the      *)
(* memo of that key or from a run made for this very request; only a       *)
(* successful run enters the memo, a memo is never replaced while it       *)
(* exists, and it may be forgotten at any time.                            *)
(***************************************************************************)
EXTENDS Naturals, Sequences

CONSTANTS Caller,   \* concurrent users of one registry
          Key,      \* idempotency keys
          Nothing   \* no request pending; not a key

VARIABLES
  memo,    \* memo[k]: the run (an index of runs) a repeat of k is answered with
  runs,    \* every completed tool run, in order: [key, success]
  asked,   \* asked[c]: the key c waits for, or Nothing
  own,     \* own[c]: the run made for c's latest request, 0 if none
  answer   \* answer[c]: the run c's latest request was answered with, 0 if none

vars == <<memo, runs, asked, own, answer>>

Init ==
  /\ memo = [k \in {} |-> 0]
  /\ runs = <<>>
  /\ asked = [c \in Caller |-> Nothing]
  /\ own = [c \in Caller |-> 0]
  /\ answer = [c \in Caller |-> 0]

\* m keeps some of the entries of n and no others.
PartOf(m, n) ==
  /\ DOMAIN m \subseteq DOMAIN n
  /\ \A k \in DOMAIN m : m[k] = n[k]

\* n with entry k set to r.
With(n, k, r) == [x \in DOMAIN n \cup {k} |-> IF x = k THEN r ELSE n[x]]

Answer(c, r) ==
  /\ asked[c] # Nothing
  /\ answer' = [answer EXCEPT ![c] = r]
  /\ asked' = [asked EXCEPT ![c] = Nothing]

Ask(c, k) ==
  /\ asked[c] = Nothing
  /\ asked' = [asked EXCEPT ![c] = k]
  /\ own' = [own EXCEPT ![c] = 0]
  /\ answer' = [answer EXCEPT ![c] = 0]
  /\ UNCHANGED <<memo, runs>>

\* A run made for c's pending request completes; at most one per request.
Run(c, ok) ==
  /\ asked[c] # Nothing
  /\ own[c] = 0
  /\ runs' = Append(runs, [key |-> asked[c], success |-> ok])
  /\ own' = [own EXCEPT ![c] = Len(runs) + 1]
  /\ UNCHANGED memo

Succeed(c) == Run(c, TRUE) /\ UNCHANGED <<asked, answer>>

\* A failed run is the answer of its own request and is never kept.
Fail(c) == Run(c, FALSE) /\ Answer(c, Len(runs) + 1)

\* The request is answered from the memo of its key.
Repeat(c) ==
  /\ asked[c] \in DOMAIN memo
  /\ Answer(c, memo[asked[c]])
  /\ UNCHANGED <<memo, runs, own>>

\* The request's own run succeeded, its key had no memo: it becomes the memo.
Keep(c) ==
  /\ own[c] # 0
  /\ asked[c] \notin DOMAIN memo
  /\ PartOf(memo', With(memo, asked[c], own[c]))
  /\ Answer(c, own[c])
  /\ UNCHANGED <<runs, own>>

\* No run is made for the request (an error), or its caller goes away.
GiveUp(c) ==
  /\ Answer(c, 0)
  /\ UNCHANGED <<memo, runs, own>>

Forget ==
  /\ PartOf(memo', memo)
  /\ UNCHANGED <<runs, asked, own, answer>>

Next ==
  \/ Forget
  \/ \E c \in Caller :
       \/ \E k \in Key : Ask(c, k)
       \/ Succeed(c) \/ Fail(c)
       \/ Repeat(c) \/ Keep(c)
       \/ GiveUp(c)

Spec == Init /\ [][Next]_vars
=============================================================================

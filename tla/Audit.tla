------------------------------- MODULE Audit --------------------------------
(***************************************************************************)
(* audit_log (marshalld.rs): a handler takes the audit lock and awaits a   *)
(* blocking job that rotates the log when it is too long and appends one   *)
(* line.  A handler whose client leaves is dropped at an await: it lets go *)
(* of the lock, its job goes on, and the next handler's job may run beside *)
(* it.  Errors of the job are ignored, one by one: after a stat or a       *)
(* rename that fails the line goes to the log that is too long.            *)
(*                                                                         *)
(* Lines are numbered in the order they are written.                       *)
(***************************************************************************)
EXTENDS Integers, Sequences

CONSTANTS
  Auditors,      \* handlers that may audit at once
  NoAuditor,
  MaxAudit,      \* the 10 MiB, in lines
  AuditFaults,   \* fault model: may a stat, a rename or an append fail
  MaxLines       \* bound: lines of a behaviour

ASSUME AuditAssumption ==
  NoAuditor \notin Auditors /\ MaxAudit \in Nat /\ MaxLines \in Nat /\ AuditFaults \in BOOLEAN

VARIABLES
  log,         \* audit.jsonl
  rotated,     \* audit.jsonl.1
  audit_lock,  \* who holds AppState.audit_lock
  job,         \* handler -> where its job is
  waits,       \* the handlers that still wait for their job
  handle,      \* handler -> the file its job has open
  lines,       \* lines written so far
  mixed,       \* ghost: a job of a dropped handler and a later one are, or were, at work
  mark         \* ghost: lines written when jobs that were mixed had last all ended

auditVars == <<log, rotated, audit_lock, job, waits, handle, lines, mixed, mark>>

AuditInit ==
  /\ log = << >> /\ rotated = << >>
  /\ audit_lock = NoAuditor
  /\ job = [a \in Auditors |-> "none"]
  /\ waits = {}
  /\ handle = [a \in Auditors |-> "log"]
  /\ lines = 0 /\ mixed = FALSE /\ mark = 0

\* A job whose handler has been dropped is still at work.
Strays == \E a \in Auditors \ waits : job[a] # "none"

\* Faulty variant of LockAudit: the lock is not taken.
LockAudit_Not(a) ==
  /\ job[a] = "none"
  /\ waits' = waits \cup {a}
  /\ job' = [job EXCEPT ![a] = "stat"]
  /\ mixed' = (mixed \/ Strays)
  /\ UNCHANGED <<log, rotated, audit_lock, handle, lines, mark>>

LockAudit(a) ==
  /\ audit_lock = NoAuditor /\ job[a] = "none"
  /\ audit_lock' = a
  /\ waits' = waits \cup {a}
  /\ job' = [job EXCEPT ![a] = "stat"]
  /\ mixed' = (mixed \/ Strays)
  /\ UNCHANGED <<log, rotated, handle, lines, mark>>

Job(a, from, to) == job[a] = from /\ job' = [job EXCEPT ![a] = to]

StatAudit(a) ==
  /\ \/ Job(a, "stat", IF Len(log) > MaxAudit THEN "rotate" ELSE "open")
     \/ AuditFaults /\ Job(a, "stat", "open")
  /\ UNCHANGED <<log, rotated, audit_lock, waits, handle, lines, mixed, mark>>

\* rename: files that are open keep their content, not their name.  It does
\* nothing when it fails, or when an other job has taken the log away already.
Rotate(a) ==
  /\ Job(a, "rotate", "open")
  /\ \/ /\ rotated' = log /\ log' = << >>
        /\ handle' = [b \in Auditors |->
             IF job[b] # "write" THEN handle[b] ELSE IF handle[b] = "log" THEN "rotated" ELSE "lost"]
     \/ (AuditFaults \/ log = << >>) /\ UNCHANGED <<log, rotated, handle>>
  /\ UNCHANGED <<audit_lock, waits, lines, mixed, mark>>

OpenAudit(a) ==
  /\ Job(a, "open", "write")
  /\ handle' = [handle EXCEPT ![a] = "log"]
  /\ UNCHANGED <<log, rotated, audit_lock, waits, lines, mixed, mark>>

\* The job ends: a handler that waits for it lets go of the lock and answers.
EndsJob(a) ==
  /\ Job(a, "write", "none")
  /\ waits' = waits \ {a}
  /\ audit_lock' = IF a \in waits THEN NoAuditor ELSE audit_lock
  /\ mixed' = (mixed /\ \E b \in Auditors \ {a} : job[b] # "none")
  /\ mark' = IF mixed THEN lines' ELSE mark

WriteLine(a) ==
  /\ lines < MaxLines
  /\ lines' = lines + 1
  /\ EndsJob(a)
  /\ log' = IF handle[a] = "log" THEN Append(log, lines') ELSE log
  /\ rotated' = IF handle[a] = "rotated" THEN Append(rotated, lines') ELSE rotated
  /\ UNCHANGED handle

\* The log cannot be opened, or the line not written.
WriteLineFails(a) ==
  /\ AuditFaults
  /\ UNCHANGED <<log, rotated, handle, lines>>
  /\ EndsJob(a)

\* The client leaves while the handler waits for its job.
LeaveAudit(a) ==
  /\ a \in waits
  /\ waits' = waits \ {a}
  /\ audit_lock' = NoAuditor
  /\ UNCHANGED <<log, rotated, job, handle, lines, mixed, mark>>

AuditNext ==
  \E a \in Auditors :
    \/ LockAudit(a) \/ StatAudit(a) \/ Rotate(a) \/ OpenAudit(a)
    \/ WriteLine(a) \/ WriteLineFails(a) \/ LeaveAudit(a)

AuditSpec == AuditInit /\ [][AuditNext]_auditVars

-----------------------------------------------------------------------------
\* The lock is held by a handler that waits for its job, or by nobody.
AuditTypeOK ==
  /\ waits \subseteq {a \in Auditors : job[a] # "none"}
  /\ waits = IF audit_lock = NoAuditor THEN {} ELSE {audit_lock}
  /\ job \in [Auditors -> {"none", "stat", "rotate", "open", "write"}]
  /\ lines \in 0..MaxLines /\ mark \in 0..lines /\ mixed \in BOOLEAN

(* A handler that is dropped leaves its job at work and the lock free, so  *)
(* jobs are not "serialized via audit_lock" then, and two that are mixed   *)
(* may rotate a short log away or write into the rotated one.  The damage  *)
(* ends with them: when the last of them has ended, and whatever stats,    *)
(* renames and appends fail, the lines written since are the end of the    *)
(* two files, in order and without a gap, and none of them is gone unless  *)
(* the rotated file is a whole log that had passed the limit.              *)
AuditWhole ==
  ~mixed =>
    LET kept == rotated \o log IN
    /\ \A i \in DOMAIN kept :
         lines - Len(kept) + i > mark => kept[i] = lines - Len(kept) + i
    /\ Len(kept) >= lines - mark \/ Len(rotated) > MaxAudit
=============================================================================

-------------------------- MODULE MarshalldProofs ---------------------------
(***************************************************************************)
(* The handlers of marshalld, for any clients, sessions, keys, requests    *)
(* and permits and any number of reloads.  The inductive invariant IInv    *)
(* has one part for each thing the handlers share; every part has a lemma  *)
(* that a step keeps it.                                                   *)
(***************************************************************************)
EXTENDS Marshalld, FiniteSetTheorems, TLAPS

\* The type of a request, and of one that gets other sessions.
LEMMA Forms ==
  /\ Request \subseteq Form
  /\ \A r \in Form : /\ r.kind \in Kind /\ r.sessions \subseteq Session
                     /\ r.http \in BOOLEAN /\ r.key \in Key \cup {NoKey}
  /\ \A r \in Form : \A s \in Session : [r EXCEPT !.sessions = {s}] \in Form
BY RequestAssumption DEF Form

\* A request is at a point of the handler it is for.
LEMMA Locations ==
  ASSUME NEW r \in Form
  PROVE  /\ First(r) \in {"mkdir", "remove", "admit"}
         /\ AfterSession(r) \in {"egress", "snapshot"}
         /\ AfterAdmission(r) \in Checking \ {"locked"}
BY DEF First, AfterSession, AfterAdmission, Checking

\* Every step of a handler keeps the types.
LEMMA StateStep ==
  ASSUME StateOK, RouteState, [Next]_vars
  PROVE  StateOK'
<1> USE DEF StateOK, Goto, Moved, Ended, Return, policy, disk
<1>1. ASSUME NEW c \in Client, NEW r \in Request, Arrive(c, r)
      PROVE  StateOK'
  <2>1. First(r) \in Location /\ r \in Form
    BY Forms, Locations DEF Location
  <2>2. (IF r.key \in Key THEN served[r.key] ELSE 0) \in Version
    BY BoundAssumption DEF Version
  <2>3. 0 \in Version
    BY BoundAssumption DEF Version
  <2> QED
    BY <1>1, <2>1, <2>2, <2>3, BoundAssumption DEF Arrive
<1>2. ASSUME NEW c \in Client, Admit(c) \/ Reject(c)
      PROVE  StateOK'
  BY <1>2, Locations DEF Admit, Reject, Location, Admitted
<1>3. ASSUME NEW c \in Client, CheckSession(c) \/ LockSessions(c) \/ Unlock(c) \/ Cleared(c)
      PROVE  StateOK'
  BY <1>3, Locations DEF CheckSession, LockSessions, Unlock, Cleared, Location, Admitted, Checking
<1>4. ASSUME NEW c \in Client, ReadHosts(c)
      PROVE  StateOK'
  BY <1>4 DEF ReadHosts, Version
<1>5. ASSUME NEW c \in Client, Refuse(c) \/ RunRefused(c) \/ NotFound(c) \/ Abandon(c)
      PROVE  StateOK'
  BY <1>5 DEF Refuse, RunRefused, NotFound, Abandon, Location
<1>6. ASSUME NEW c \in Client, Snapshot(c)
      PROVE  StateOK'
  BY <1>6 DEF Snapshot, Version, Location, Admitted, Running
<1>7. ASSUME NEW c \in Client, Hit(c) \/ Miss(c) \/ RunSucceeds(c) \/ RunFails(c)
      PROVE  StateOK'
  BY <1>7 DEF Hit, Miss, RunSucceeds, RunFails, Location, Admitted, Running
<1>8. ASSUME NEW c \in Client, Record(c)
      PROVE  StateOK'
  <2>1. req[c].key \in Key
    BY <1>8, Forms DEF Record, RouteState, Once
  <2>2. reg[c] \in 1..(MaxReloads + 1)
    BY <1>8, BoundAssumption DEF Record, RouteState, Version, Running
  <2> QED
    BY <1>8, <2>1, <2>2 DEF Record, Location, Admitted, Running
<1>9. ASSUME NEW c \in Client, Answer(c)
      PROVE  StateOK'
  BY <1>9 DEF Answer, Location
<1>10. ASSUME NEW c \in Client, Mkdir(c)
       PROVE  StateOK'
  <2>1. PICK s \in Fresh : /\ directories' = directories \cup {s}
                           /\ req' = [req EXCEPT ![c].sessions = {s}]
    BY <1>10 DEF Mkdir
  <2>2. req' \in [Client -> Form] /\ s \in Session
    BY <2>1, Forms DEF Fresh
  <2> QED
    BY <1>10, <2>1, <2>2 DEF Mkdir, Location
<1>11. ASSUME NEW c \in Client, MkdirFails(c) \/ Insert(c)
       PROVE  StateOK'
  BY <1>11, Forms DEF MkdirFails, Insert, Location, Fresh
<1>12. ASSUME NEW c \in Client, Remove(c) \/ Rmdir(c)
       PROVE  StateOK'
  BY <1>12, Forms DEF Remove, Rmdir, Location
<1>13. ASSUME Swap
       PROVE  StateOK'
  BY <1>13 DEF Swap, PolicyNext, SwapRegistry, SwapHosts, local
<1>14. ASSUME Take
       PROVE  StateOK'
  BY <1>14 DEF Take, local
<1>15. ASSUME UNCHANGED vars
       PROVE  StateOK'
  BY <1>15 DEF vars, local, policy
<1> QED
  BY <1>1, <1>2, <1>3, <1>4, <1>5, <1>6, <1>7, <1>8, <1>9, <1>10, <1>11, <1>12, <1>13,
     <1>14, <1>15 DEF Next, Step

\* What a step does to the handlers inside: nothing, or it moves one handler, admits
\* one, or ends one.
LEMMA Moves ==
  ASSUME StateOK, [Next]_vars
  PROVE  \/ UNCHANGED <<pc, permits>>
         \/ \E c \in Client :
              \/ \E to \in Location :
                   /\ pc' = [pc EXCEPT ![c] = to]
                   /\ pc[c] \in Admitted <=> to \in Admitted
                   /\ permits' = permits
              \/ /\ pc[c] = "admit" /\ permits > 0
                 /\ pc' = [pc EXCEPT ![c] = AfterAdmission(req[c])]
                 /\ permits' = permits - 1
              \/ Return(c)
<1> DEFINE Goal == \/ UNCHANGED <<pc, permits>>
                   \/ \E c \in Client :
                        \/ \E to \in Location :
                             /\ pc' = [pc EXCEPT ![c] = to]
                             /\ pc[c] \in Admitted <=> to \in Admitted
                             /\ permits' = permits
                        \/ /\ pc[c] = "admit" /\ permits > 0
                           /\ pc' = [pc EXCEPT ![c] = AfterAdmission(req[c])]
                           /\ permits' = permits - 1
                        \/ Return(c)
<1> USE DEF Goto, Moved, Ended
<1>1. ASSUME NEW c \in Client, NEW to \in Location, pc' = [pc EXCEPT ![c] = to],
             pc[c] \in Admitted <=> to \in Admitted, permits' = permits
      PROVE  Goal
  BY <1>1
<1>2. ASSUME NEW c \in Client, NEW r \in Request, Arrive(c, r)
      PROVE  Goal
  <2>1. First(r) \in Location /\ First(r) \notin Admitted
    BY Forms, Locations DEF Location, Admitted, Checking, Running
  <2> QED
    BY <1>1, <1>2, <2>1 DEF Arrive, Admitted, Checking, Running
<1>3. ASSUME NEW c \in Client, Admit(c)
      PROVE  Goal
  BY <1>3 DEF Admit
<1>4. ASSUME NEW c \in Client,
             \/ CheckSession(c) \/ LockSessions(c) \/ Unlock(c) \/ Cleared(c)
             \/ Snapshot(c) \/ Hit(c) \/ Miss(c) \/ RunSucceeds(c) \/ RunFails(c) \/ Record(c)
      PROVE  Goal
  <2>1. PICK from \in Admitted, to \in Admitted : Goto(c, from, to)
    BY <1>4, Locations DEF CheckSession, LockSessions, Unlock, Cleared, Snapshot, Hit, Miss,
       RunSucceeds, RunFails, Record, Admitted, Checking, Running, StateOK
  <2>2. permits' = permits
    BY <1>4 DEF CheckSession, LockSessions, Unlock, Cleared, Snapshot, Hit, Miss,
       RunSucceeds, RunFails, Record
  <2> QED
    BY <1>1, <2>1, <2>2 DEF Location
<1>5. ASSUME NEW c \in Client, Mkdir(c) \/ Remove(c)
      PROVE  Goal
  <2>1. PICK from \in Location \ Admitted, to \in Location \ Admitted : Goto(c, from, to)
    BY <1>5 DEF Mkdir, Remove, Location, Admitted, Checking, Running
  <2>2. permits' = permits
    BY <1>5 DEF Mkdir, Remove
  <2> QED
    BY <1>1, <2>1, <2>2
<1>6. ASSUME NEW c \in Client,
             \/ Reject(c) \/ Refuse(c) \/ RunRefused(c) \/ Answer(c) \/ MkdirFails(c)
             \/ Insert(c) \/ Rmdir(c) \/ NotFound(c) \/ Abandon(c)
      PROVE  Goal
  BY <1>6 DEF Reject, Refuse, RunRefused, Answer, MkdirFails, Insert, Rmdir, NotFound, Abandon
<1>7. ASSUME \/ UNCHANGED vars \/ Swap \/ Take
             \/ \E c \in Client : ReadHosts(c)
      PROVE  Goal
  BY <1>7 DEF vars, local, Swap, Take, ReadHosts
<1> HIDE DEF Goal
<1>8. QED
  <2>1. Goal
    BY <1>2, <1>3, <1>4, <1>5, <1>6, <1>7 DEF Next, Step
  <2> QED
    BY <2>1 DEF Goal

\* The permits and the handlers inside, together, stay as many as the semaphore has.
LEMMA PermitsStep ==
  ASSUME StateOK, permits \in 0..Concurrency, PermitsConserved, [Next]_vars
  PROVE  permits' \in 0..Concurrency /\ PermitsConserved'
<1>1. IsFiniteSet(Holders) /\ Cardinality(Holders) \in Nat
  BY ClientAssumption, FS_Subset, FS_CardinalityType DEF Holders
<1>2. IsFiniteSet(Holders') /\ Cardinality(Holders') \in Nat
  BY ClientAssumption, FS_Subset, FS_CardinalityType DEF Holders
<1>3. permits' \in Int /\ permits' + Cardinality(Holders') = Concurrency /\ permits' >= 0
  <2>1. CASE UNCHANGED <<pc, permits>>
    <3>1. Holders' = Holders
      BY <2>1 DEF Holders
    <3> QED
      BY <2>1, <3>1 DEF PermitsConserved
  <2>2. ASSUME NEW c \in Client, NEW to \in Location, pc' = [pc EXCEPT ![c] = to],
               pc[c] \in Admitted <=> to \in Admitted, permits' = permits
        PROVE  permits' \in Int /\ permits' + Cardinality(Holders') = Concurrency /\ permits' >= 0
    <3>1. Holders' = Holders
      BY <2>2 DEF Holders, StateOK
    <3> QED
      BY <2>2, <3>1 DEF PermitsConserved
  <2>3. ASSUME NEW c \in Client, pc[c] = "admit", permits > 0,
               pc' = [pc EXCEPT ![c] = AfterAdmission(req[c])], permits' = permits - 1
        PROVE  permits' \in Int /\ permits' + Cardinality(Holders') = Concurrency /\ permits' >= 0
    <3>1. AfterAdmission(req[c]) \in Admitted /\ pc[c] \notin Admitted
      BY <2>3, Locations DEF StateOK, Admitted, Checking, Running
    <3>2. Holders' = Holders \cup {c} /\ c \notin Holders
      BY <2>3, <3>1 DEF Holders, StateOK
    <3>3. Cardinality(Holders') = Cardinality(Holders) + 1
      BY <3>2, <1>1, FS_AddElement
    <3> QED
      BY <2>3, <3>3, <1>1 DEF PermitsConserved
  <2>4. ASSUME NEW c \in Client, Return(c)
        PROVE  permits' \in Int /\ permits' + Cardinality(Holders') = Concurrency /\ permits' >= 0
    <3>1. "idle" \notin Admitted
      BY DEF Admitted, Checking, Running
    <3>2. Holders' = Holders \ {c}
      BY <2>4, <3>1 DEF Holders, StateOK, Return
    <3>3. c \in Holders <=> pc[c] \in Admitted
      BY DEF Holders
    <3>4. Cardinality(Holders') = IF c \in Holders THEN Cardinality(Holders) - 1
                                                   ELSE Cardinality(Holders)
      BY <3>2, <1>1, FS_RemoveElement
    <3> QED
      BY <2>4, <3>3, <3>4, <1>1 DEF PermitsConserved, Return
  <2> QED
    BY <2>1, <2>2, <2>3, <2>4, Moves
<1> QED
  BY <1>2, <1>3, ConcurrencyAssumption DEF PermitsConserved

\* The mutex is taken and dropped by the handler that passes its await.
LEMMA LockStep ==
  ASSUME StateOK, LockState, [Next]_vars
  PROVE  LockState'
<1> USE ClientAssumption DEF StateOK, LockState, Goto, Moved, Ended, Return, Free
<1>1. ASSUME NEW c \in Client, NEW r \in Request, Arrive(c, r)
      PROVE  LockState'
  BY <1>1, Forms, Locations DEF Arrive, Locked
<1>2. ASSUME NEW c \in Client, Admit(c) \/ CheckSession(c) \/ Cleared(c)
      PROVE  LockState'
  BY <1>2, Locations DEF Admit, CheckSession, Cleared, Checking, Locked
<1>3. ASSUME NEW c \in Client, LockSessions(c) \/ Unlock(c) \/ Remove(c)
      PROVE  LockState'
  BY <1>3 DEF LockSessions, Unlock, Remove, Locked
<1>4. ASSUME NEW c \in Client,
             \/ Snapshot(c) \/ Hit(c) \/ Miss(c) \/ RunSucceeds(c) \/ RunFails(c)
             \/ Record(c) \/ Mkdir(c)
      PROVE  LockState'
  BY <1>4 DEF Snapshot, Hit, Miss, RunSucceeds, RunFails, Record, Mkdir, Locked
<1>5. ASSUME NEW c \in Client, Return(c)
      PROVE  LockState'
  BY <1>5 DEF Locked
<1>6. ASSUME NEW c \in Client,
             \/ Reject(c) \/ Refuse(c) \/ RunRefused(c) \/ Answer(c) \/ MkdirFails(c)
             \/ Insert(c) \/ Rmdir(c) \/ NotFound(c) \/ Abandon(c)
      PROVE  LockState'
  BY <1>5, <1>6
  DEF Reject, Refuse, RunRefused, Answer, MkdirFails, Insert, Rmdir, NotFound, Abandon
<1>7. ASSUME \/ UNCHANGED vars \/ Swap \/ Take
             \/ \E c \in Client : ReadHosts(c)
      PROVE  LockState'
  BY <1>7 DEF vars, local, Swap, Take, ReadHosts
<1> QED
  BY <1>1, <1>2, <1>3, <1>4, <1>6, <1>7 DEF Next, Step

\* Which routes reach which points, and where a handler has taken a registry.
LEMMA RouteStep ==
  ASSUME StateOK, RouteState, [Next]_vars
  PROVE  RouteState'
<1> USE DEF StateOK, RouteState, Goto, Moved, Ended, Return, Admitted, Checking, Running
<1>1. ASSUME NEW c \in Client, NEW r \in Request, Arrive(c, r)
      PROVE  RouteState'
  BY <1>1, Forms DEF Arrive, First, Once
<1>2. ASSUME NEW c \in Client, Admit(c) \/ CheckSession(c) \/ Cleared(c)
      PROVE  RouteState'
  BY <1>2, Locations DEF Admit, CheckSession, Cleared, Once
<1>3. ASSUME NEW c \in Client, LockSessions(c) \/ Unlock(c) \/ Remove(c) \/ ReadHosts(c)
      PROVE  RouteState'
  BY <1>3 DEF LockSessions, Unlock, Remove, ReadHosts, Once
<1>4. ASSUME NEW c \in Client, Snapshot(c)
      PROVE  RouteState'
  BY <1>4 DEF Snapshot, Once
<1>5. ASSUME NEW c \in Client,
             \/ Hit(c) \/ Miss(c) \/ RunSucceeds(c) \/ RunFails(c) \/ Record(c)
      PROVE  RouteState'
  BY <1>5 DEF Hit, Miss, RunSucceeds, RunFails, Record, Once
<1>6. ASSUME NEW c \in Client, Mkdir(c)
      PROVE  RouteState'
  BY <1>6 DEF Mkdir, Once
<1>7. ASSUME NEW c \in Client, Return(c), UNCHANGED <<req, reg>>
      PROVE  RouteState'
  BY <1>7 DEF Once
<1>8. ASSUME NEW c \in Client,
             \/ Reject(c) \/ Refuse(c) \/ RunRefused(c) \/ Answer(c) \/ MkdirFails(c)
             \/ Insert(c) \/ Rmdir(c) \/ NotFound(c) \/ Abandon(c)
      PROVE  RouteState'
  <2>1. Return(c) /\ UNCHANGED <<req, reg>>
    BY <1>8
    DEF Reject, Refuse, RunRefused, Answer, MkdirFails, Insert, Rmdir, NotFound, Abandon
  <2> QED
    BY <1>7, <2>1
<1>9. ASSUME UNCHANGED vars \/ Swap \/ Take
      PROVE  RouteState'
  BY <1>9 DEF vars, local, Swap, Take, Once
<1> QED
  BY <1>1, <1>2, <1>3, <1>4, <1>5, <1>6, <1>8, <1>9 DEF Next, Step

\* A session is inserted after its directory is made, and removed before it goes.
LEMMA SessionStep ==
  ASSUME StateOK, SessionState, [Next]_vars
  PROVE  SessionState'
<1> USE DEF StateOK, SessionState, Goto, Moved, Ended, Return, disk
<1>1. ASSUME NEW c \in Client, NEW r \in Request, Arrive(c, r)
      PROVE  SessionState'
  <2>1. First(r) \notin {"insert", "rmdir"}
    BY Forms, Locations
  <2> QED
    BY <1>1, <2>1 DEF Arrive
<1>2. ASSUME NEW c \in Client, NEW to \in Location \ {"insert", "rmdir"},
             pc' = [pc EXCEPT ![c] = to], UNCHANGED <<sessions, disk, req, gone>>
      PROVE  SessionState'
  BY <1>2
<1>3. ASSUME NEW c \in Client,
             \/ Admit(c) \/ CheckSession(c) \/ LockSessions(c) \/ Unlock(c) \/ Cleared(c)
             \/ Snapshot(c) \/ Hit(c) \/ Miss(c) \/ RunSucceeds(c) \/ RunFails(c) \/ Record(c)
      PROVE  SessionState'
  <2>1. \E from, to \in Location \ {"insert", "rmdir"} : Goto(c, from, to)
    BY <1>3, Locations DEF Admit, CheckSession, LockSessions, Unlock, Cleared, Snapshot, Hit,
       Miss, RunSucceeds, RunFails, Record, Location, Admitted, Checking, Running
  <2>2. UNCHANGED <<sessions, disk, req, gone>>
    BY <1>3 DEF Admit, CheckSession, LockSessions, Unlock, Cleared, Snapshot, Hit, Miss,
       RunSucceeds, RunFails, Record
  <2> QED
    BY <1>2, <2>1, <2>2
<1>4. ASSUME NEW c \in Client,
             \/ Reject(c) \/ Refuse(c) \/ RunRefused(c) \/ Answer(c) \/ NotFound(c) \/ Abandon(c)
      PROVE  SessionState'
  <2>1. Return(c) /\ UNCHANGED <<sessions, disk, req, gone>>
    BY <1>4 DEF Reject, Refuse, RunRefused, Answer, NotFound, Abandon
  <2> QED
    BY <1>2, <2>1 DEF Location
<1>5. ASSUME NEW c \in Client, Mkdir(c)
      PROVE  SessionState'
  <2>1. PICK s \in Fresh :
               /\ directories' = directories \cup {s}
               /\ req' = [req EXCEPT ![c].sessions = {s}]
               /\ pc' = [pc EXCEPT ![c] = "insert"]
               /\ UNCHANGED <<sessions, gone, taken>>
    BY <1>5 DEF Mkdir
  <2>2. req'[c].sessions = {s}
    BY <2>1, Forms DEF Form
  <2>3. \A d \in Client : d # c => req'[d] = req[d] /\ pc'[d] = pc[d]
    BY <2>1
  <2> QED
    BY <2>1, <2>2, <2>3 DEF Fresh
<1>6. ASSUME NEW c \in Client, MkdirFails(c)
      PROVE  SessionState'
  BY <1>6 DEF MkdirFails
<1>7. ASSUME NEW c \in Client, Insert(c)
      PROVE  SessionState'
  BY <1>7 DEF Insert
<1>8. ASSUME NEW c \in Client, Remove(c)
      PROVE  SessionState'
  BY <1>8 DEF Remove, Named
<1>9. ASSUME NEW c \in Client, Rmdir(c)
      PROVE  SessionState'
  BY <1>9 DEF Rmdir
<1>10. ASSUME \/ UNCHANGED vars \/ Swap \/ Take
              \/ \E c \in Client : ReadHosts(c)
       PROVE  SessionState'
  BY <1>10 DEF vars, local, Swap, Take, ReadHosts
<1> QED
  BY <1>1, <1>3, <1>4, <1>5, <1>6, <1>7, <1>8, <1>9, <1>10 DEF Next, Step

\* A request for a deleted session is refused before it gets to a registry.
LEMMA StaleStep ==
  ASSUME StateOK, RouteState, SessionState, StaleState, [Next]_vars
  PROVE  StaleState'
<1> USE DEF StateOK, StaleState, Goto, Moved, Ended, Return, Admitted, Checking, Running
<1>1. ASSUME NEW c \in Client, NEW r \in Request, Arrive(c, r)
      PROVE  StaleState'
  <2>1. First(r) \in {"mkdir", "remove", "admit"} /\ r \in Form
    BY Forms, Locations
  <2> QED
    BY <1>1, <2>1 DEF Arrive
<1>2. ASSUME NEW c \in Client, Admit(c)
      PROVE  StaleState'
  <2>1. stale[c] /\ req[c].kind \notin {"stream", "create", "delete"}
          => AfterAdmission(req[c]) = "session"
    BY <1>2 DEF Admit, AfterAdmission
  <2> QED
    BY <1>2, <2>1 DEF Admit
<1>3. ASSUME NEW c \in Client, CheckSession(c) \/ Unlock(c)
      PROVE  StaleState'
  <2>1. ~(stale[c] /\ req[c].kind \notin {"stream", "create", "delete"})
    BY <1>3 DEF CheckSession, Unlock, Named, SessionState
  <2> QED
    BY <1>3, <2>1 DEF CheckSession, Unlock
<1>4. ASSUME NEW c \in Client,
             \/ Cleared(c) \/ Snapshot(c) \/ Hit(c) \/ Miss(c) \/ RunSucceeds(c)
             \/ RunFails(c) \/ Record(c)
      PROVE  StaleState'
  <2>1. pc[c] \in {"egress", "snapshot"} \cup Running
    BY <1>4 DEF Cleared, Snapshot, Hit, Miss, RunSucceeds, RunFails, Record
  <2>2. \A d \in Client : d # c => pc'[d] = pc[d]
    BY <1>4 DEF Cleared, Snapshot, Hit, Miss, RunSucceeds, RunFails, Record
  <2>3. UNCHANGED <<stale, req, gone>>
    BY <1>4 DEF Cleared, Snapshot, Hit, Miss, RunSucceeds, RunFails, Record
  <2> QED
    BY <2>1, <2>2, <2>3
<1>5. ASSUME NEW c \in Client, LockSessions(c)
      PROVE  StaleState'
  BY <1>5 DEF LockSessions
<1>6. ASSUME NEW c \in Client, Mkdir(c)
      PROVE  StaleState'
  <2>1. req[c].kind = "create" /\ req'[c].kind = "create"
    BY <1>6, Forms DEF Mkdir, RouteState, Form
  <2>2. \A d \in Client : d # c => req'[d] = req[d] /\ pc'[d] = pc[d]
    BY <1>6 DEF Mkdir
  <2>3. UNCHANGED <<stale, gone>>
    BY <1>6 DEF Mkdir
  <2> QED
    BY <2>1, <2>2, <2>3
<1>7. ASSUME NEW c \in Client, Remove(c)
      PROVE  StaleState'
  BY <1>7 DEF Remove
<1>8. ASSUME NEW c \in Client,
             \/ Reject(c) \/ Refuse(c) \/ RunRefused(c) \/ Answer(c) \/ MkdirFails(c)
             \/ Insert(c) \/ Rmdir(c) \/ NotFound(c) \/ Abandon(c)
      PROVE  StaleState'
  <2>1. Return(c) /\ UNCHANGED <<req, stale, gone>>
    BY <1>8
    DEF Reject, Refuse, RunRefused, Answer, MkdirFails, Insert, Rmdir, NotFound, Abandon
  <2> QED
    BY <2>1
<1>9. ASSUME \/ UNCHANGED vars \/ Swap \/ Take
             \/ \E c \in Client : ReadHosts(c)
      PROVE  StaleState'
  BY <1>9 DEF vars, local, Swap, Take, ReadHosts
<1> QED
  BY <1>1, <1>2, <1>3, <1>4, <1>5, <1>6, <1>7, <1>8, <1>9 DEF Next, Step

\* A handler's hosts and registry are never newer than what is published.
LEMMA PolicyStep ==
  ASSUME StateOK, RouteState, PolicyState, HostsNeverAhead, [Next]_vars
  PROVE  PolicyState' /\ HostsNeverAhead'
<1> USE DEF StateOK, Version, PolicyState, HostsNeverAhead, policy
<1>1. ASSUME NEW c \in Client, NEW r \in Request, Arrive(c, r)
      PROVE  PolicyState' /\ HostsNeverAhead'
  BY <1>1 DEF Arrive
<1>2. ASSUME NEW c \in Client, ReadHosts(c)
      PROVE  PolicyState' /\ HostsNeverAhead'
  <2>1. reg[c] = 0
    BY <1>2 DEF ReadHosts, RouteState, Checking
  <2> QED
    BY <1>2, <2>1 DEF ReadHosts
<1>3. ASSUME NEW c \in Client, Snapshot(c)
      PROVE  PolicyState' /\ HostsNeverAhead'
  BY <1>3 DEF Snapshot
<1>4. ASSUME Swap
      PROVE  PolicyState' /\ HostsNeverAhead'
  BY <1>4 DEF Swap, PolicyNext, SwapRegistry, SwapHosts, local
<1>5. ASSUME UNCHANGED <<hosts, reg, policy>>
      PROVE  PolicyState' /\ HostsNeverAhead'
  BY <1>5
<1>6. ASSUME NEW c \in Client, Step(c), ~ReadHosts(c), ~Snapshot(c)
      PROVE  UNCHANGED <<hosts, reg, policy>>
  BY <1>6
  DEF Step, Admit, Reject, CheckSession, LockSessions, Unlock, Cleared, Refuse, Hit, Miss,
      RunSucceeds, RunFails, RunRefused, Record, Answer, Mkdir, MkdirFails, Insert, Remove,
      Rmdir, NotFound, Moved, Ended
<1>7. ASSUME NEW c \in Client, Abandon(c)
      PROVE  UNCHANGED <<hosts, reg, policy>>
  BY <1>7 DEF Abandon
<1>8. UNCHANGED vars \/ Take => UNCHANGED <<hosts, reg, policy>>
  BY DEF vars, local, Take
<1> QED
  BY <1>1, <1>2, <1>3, <1>4, <1>5, <1>6, <1>7, <1>8 DEF Next

\* A key that was answered is in the cache of the registry that answered it; only a
\* registry taken later lacks it.
LEMMA OnceStep ==
  ASSUME StateOK, RouteState, PolicyState, OnceState, RerunOnlyAfterReload, [Next]_vars
  PROVE  OnceState' /\ RerunOnlyAfterReload'
<1> USE DEF StateOK, Version, OnceState, RerunOnlyAfterReload, policy, Goto, Moved, Ended,
            Return, Running
<1> DEFINE Goal == OnceState' /\ RerunOnlyAfterReload'
<1>1. ASSUME NEW c \in Client, NEW r \in Request, Arrive(c, r)
      PROVE  Goal
  <2>1. First(r) \notin Running /\ r \in Form
    BY Forms, Locations
  <2> QED
    BY <1>1, <2>1, KeyAssumption DEF Arrive, Once
<1>2. ASSUME NEW c \in Client, Snapshot(c)
      PROVE  Goal
  BY <1>2 DEF Snapshot, Once
<1>3. ASSUME NEW c \in Client, Hit(c)
      PROVE  Goal
  BY <1>3 DEF Hit, Once
<1>4. ASSUME NEW c \in Client, Miss(c)
      PROVE  Goal
  BY <1>4 DEF Miss, Once
<1>5. ASSUME NEW c \in Client, RunSucceeds(c) \/ RunFails(c)
      PROVE  Goal
  BY <1>5 DEF RunSucceeds, RunFails, Once
<1>6. ASSUME NEW c \in Client, Record(c)
      PROVE  Goal
  <2>1. /\ reg[c] \in 1..(MaxReloads + 1)
        /\ memo' = [memo EXCEPT ![reg[c]] = @ \cup {req[c].key}]
    BY <1>6, BoundAssumption DEF Record, RouteState
  <2>2. \A n \in 1..(MaxReloads + 1) : memo[n] \subseteq memo'[n]
    BY <2>1
  <2>3. req[c].key \in memo'[reg[c]]
    BY <2>1
  <2>4. /\ \A d \in Client : before[d] # 0 => before[d] \in 1..(MaxReloads + 1)
        /\ \A d \in Client : pc[d] = "answer" => reg[d] \in 1..(MaxReloads + 1)
        /\ \A k \in Key : served[k] # 0 => served[k] \in 1..(MaxReloads + 1)
    BY BoundAssumption DEF RouteState
  <2> QED
    BY <1>6, <2>2, <2>3, <2>4 DEF Record, Once
<1>7. ASSUME NEW c \in Client, Answer(c)
      PROVE  Goal
  BY <1>7 DEF Answer, Once, PolicyState
<1>8. ASSUME NEW c \in Client, Mkdir(c)
      PROVE  Goal
  <2>1. \A d \in Client : req'[d].key = req[d].key /\ req'[d].kind = req[d].kind
    BY <1>8, Forms DEF Mkdir, Form
  <2> QED
    BY <1>8, <2>1 DEF Mkdir, Once
<1>9. ASSUME NEW c \in Client, NEW to \in Location \ Running, pc' = [pc EXCEPT ![c] = to],
             UNCHANGED <<memo, req, reg, ok, before, served, registry>>
      PROVE  Goal
  BY <1>9 DEF Once
<1>10. ASSUME NEW c \in Client,
              \/ Admit(c) \/ CheckSession(c) \/ LockSessions(c) \/ Unlock(c) \/ Cleared(c)
              \/ Remove(c)
       PROVE  Goal
  <2>1. \E from, to \in Location \ Running : Goto(c, from, to)
    BY <1>10, Locations DEF Admit, CheckSession, LockSessions, Unlock, Cleared, Remove,
       Location, Admitted, Checking
  <2>2. UNCHANGED <<memo, req, reg, ok, before, served, registry>>
    BY <1>10 DEF Admit, CheckSession, LockSessions, Unlock, Cleared, Remove
  <2> QED
    BY <1>9, <2>1, <2>2
<1>11. ASSUME NEW c \in Client,
              \/ Reject(c) \/ Refuse(c) \/ RunRefused(c) \/ MkdirFails(c)
              \/ Insert(c) \/ Rmdir(c) \/ NotFound(c) \/ Abandon(c)
       PROVE  Goal
  <2>1. Return(c) /\ UNCHANGED <<memo, req, reg, ok, before, served, registry>>
    BY <1>11 DEF Reject, Refuse, RunRefused, MkdirFails, Insert, Rmdir, NotFound, Abandon
  <2> QED
    BY <1>9, <2>1 DEF Location
<1>12. ASSUME Swap
       PROVE  Goal
  <2>1. registry' \in Nat /\ registry <= registry'
    BY <1>12 DEF Swap, PolicyNext, SwapRegistry, SwapHosts, PolicyState
  <2> QED
    BY <1>12, <2>1 DEF Swap, local, Once
<1>13. ASSUME UNCHANGED vars \/ Take \/ \E c \in Client : ReadHosts(c)
       PROVE  Goal
  BY <1>13 DEF vars, local, Take, ReadHosts, Once
<1> HIDE DEF Goal
<1>14. Goal
  BY <1>1, <1>2, <1>3, <1>4, <1>5, <1>6, <1>7, <1>8, <1>10, <1>11, <1>12, <1>13 DEF Next, Step
<1> QED
  BY <1>14 DEF Goal

-----------------------------------------------------------------------------
(* The theorems. *)

\* The conjunction of the parts is inductive.
LEMMA Inductive == Spec => []IInv
<1>1. Init => IInv
  <2> SUFFICES ASSUME Init PROVE IInv
    OBVIOUS
  <2> USE DEF Init, PolicyInit
  <2>1. (CHOOSE r \in Request : TRUE) \in Form
    BY RequestAssumption
  <2>2. TypeOK
    <3>1. req \in [Client -> Form]
      BY <2>1
    <3>2. permits \in 0..Concurrency /\ 0 \in Version /\ requests \in 0..MaxRequests
      BY ConcurrencyAssumption, BoundAssumption DEF Version
    <3>3. registry \in 1..(MaxReloads + 1) /\ egress_hosts \in 1..(MaxReloads + 1)
      BY BoundAssumption
    <3>4. /\ pc \in [Client -> Location]
          /\ memo \in [1..(MaxReloads + 1) -> SUBSET Key]
          /\ sessionsLock \in Client \cup {Nobody}
      BY DEF Location
    <3> QED
      BY <3>1, <3>2, <3>3, <3>4 DEF TypeOK, StateOK
  <2>3. PermitsConserved
    <3>1. Holders = {}
      BY DEF Holders, Admitted, Checking, Running
    <3> QED
      BY <3>1, FS_EmptySet, ConcurrencyAssumption DEF PermitsConserved
  <2>4. LockState /\ RouteState /\ SessionState /\ StaleState
    BY ClientAssumption
    DEF LockState, RouteState, SessionState, StaleState, Locked, Admitted, Checking, Running
  <2>5. PolicyState /\ HostsNeverAhead /\ OnceState /\ RerunOnlyAfterReload
    BY DEF PolicyState, HostsNeverAhead, OnceState, RerunOnlyAfterReload
  <2> QED
    BY <2>2, <2>3, <2>4, <2>5 DEF IInv
<1>2. IInv /\ [Next]_vars => IInv'
  BY StateStep, PermitsStep, LockStep, RouteStep, SessionStep, StaleStep, PolicyStep, OnceStep
  DEF IInv, TypeOK
<1> QED
  BY <1>1, <1>2, PTL DEF Spec

\* Every variable keeps its type; in particular the semaphore never has more permits
\* than it was made with.
THEOREM TypeCorrect == Spec => []TypeOK
BY Inductive, PTL DEF IInv

\* On every way out of a handler its permit comes back, exactly once.
THEOREM PermitsAreConserved == Spec => []PermitsConserved
BY Inductive, PTL DEF IInv

\* No request is checked against hosts that are newer than the tools it runs.
THEOREM HostsFollow == Spec => []HostsNeverAhead
BY Inductive, PTL DEF IInv

\* A key whose success was answered is run again only on a newer registry.
THEOREM RerunsFollowReloads == Spec => []RerunOnlyAfterReload
BY Inductive, PTL DEF IInv

\* A session in the map has its directory, or something other than a handler took it.
THEOREM SessionsKeepDirectories == Spec => []SessionsHaveDirectories
<1>1. IInv => SessionsHaveDirectories
  BY DEF IInv, SessionState, SessionsHaveDirectories
<1> QED
  BY <1>1, Inductive, PTL

\* A request for a session deleted before it arrived runs no tool.
THEOREM DeletedSessionsStayDeleted == Spec => []DeletedStaysDeleted
<1>1. IInv => DeletedStaysDeleted
  BY DEF IInv, StaleState, RouteState, DeletedStaysDeleted, Admitted
<1> QED
  BY <1>1, Inductive, PTL
=============================================================================

------------------------ MODULE HealthCircuitProofs ------------------------
(* Machine-checked proofs about HealthCircuit, for any routes, requests and  *)
(* administrators, any window, threshold and cooldown, and whether or not    *)
(* statements fail and the process restarts.                                 *)
EXTENDS HealthCircuit, TLAPS

\* What a step that is not an administrator's enable does to the rows: it
\* serves every cooldown out and leaves a manual disable alone.
Serves ==
    /\ \A s \in Scopes :
         Cooling(s) => ~health'[s].available /\ health'[s].until >= health[s].until
    /\ health[Root].reason = "manual" => health'[Root] = health[Root]

\* Rows that do not change serve every cooldown.
LEMMA SameRowsServe ==
  ASSUME HealthInv, health' = health
  PROVE  Serves
<1>1. \A s \in Scopes : health[s].until \in Nat
  BY HealthAssumption DEF HealthInv, HealthTypeOK, RowType, Times
<1>. QED
  BY <1>1 DEF Serves, Cooling

\* Writing one scope's row: the conditions under which that is sound.
LEMMA RowWritten ==
  ASSUME HealthInv, NEW s \in Scopes, NEW r \in RowType,
         health' = [health EXCEPT ![s] = r],
         s = Root => r.reason # "auto",
         r.reason = "manual" => s = Root /\ r = ManuallyDisabled,
         ~r.available => r.reason = "manual" \/ r.until # NoTime,
         Cooling(s) => ~r.available /\ r.until >= health[s].until,
         (s = Root /\ health[s].reason = "manual") => r = health[s]
  PROVE  health' \in [Scopes -> RowType] /\ RootByHand' /\ NoRowStuck' /\ Serves
<1>0. health \in [Scopes -> RowType] /\ Root \in Scopes
  BY DEF HealthInv, HealthTypeOK, Scopes
<1>1. health'[s] = r /\ \A x \in Scopes \ {s} : health'[x] = health[x]
  BY <1>0
<1>2. \A x \in Scopes : health[x].until \in Nat
  BY <1>0, HealthAssumption DEF RowType, Times
<1>3. health' \in [Scopes -> RowType]
  BY <1>0
<1>4. RootByHand'
  BY <1>0, <1>1 DEF HealthInv, RootByHand
<1>5. NoRowStuck'
  BY <1>1 DEF HealthInv, NoRowStuck
<1>6. Serves
  BY <1>0, <1>1, <1>2 DEF Serves, Cooling
<1>. QED
  BY <1>3, <1>4, <1>5, <1>6

\* A worker that moves on to another place leaves only well-typed, sound
\* local values behind.
LEMMA StepSound ==
  ASSUME HealthInv, NEW w \in Workers, NEW place \in
            {"idle", "recovered", "recoverRoute", "isAvailable",
             "isAvailableRoute", "sent", "close"},
         HealthStep(w, place), now' = now
  PROVE  /\ worker' \in [Workers -> WorkerType]
         /\ ClocksPast' /\ DeadlinesSound'
<1>. USE HealthAssumption
<1>0. now \in Nat /\ worker \in [Workers -> WorkerType] /\ 0 \in Times
  BY DEF HealthInv, HealthTypeOK, Times
<1>1. worker'[w] \in WorkerType /\ worker'[w].pc = place /\ worker'[w].clock = 0
  <2>1. CASE place \in {"recovered", "close"}
    <3>1. worker'[w] = [worker[w] EXCEPT !.pc = place, !.clock = 0]
      BY <1>0, <2>1 DEF HealthStep
    <3>. QED
      BY <1>0, <3>1 DEF WorkerType
  <2>2. CASE place \notin {"recovered", "close"}
    <3>1. worker'[w] = [IdleWorker EXCEPT !.pc = place]
      BY <1>0, <2>2 DEF HealthStep
    <3>. QED
      BY <1>0, <3>1 DEF WorkerType, IdleWorker, Scopes, NoTime
  <2>. QED
    BY <2>1, <2>2
<1>2. \A v \in Workers \ {w} : worker'[v] = worker[v]
  BY DEF HealthStep, HealthInv, HealthTypeOK
<1>3. worker' \in [Workers -> WorkerType]
  BY <1>1, <1>2 DEF HealthStep, HealthInv, HealthTypeOK
<1>4. ClocksPast'
  BY <1>0, <1>1, <1>2 DEF HealthInv, ClocksPast
<1>5. DeadlinesSound'
  BY <1>1, <1>2 DEF HealthInv, DeadlinesSound, WorkerAt
<1>. QED
  BY <1>3, <1>4, <1>5

\* Reading the clock for a call on a scope.
LEMMA CallSound ==
  ASSUME HealthInv, NEW w \in Workers, NEW s \in Scopes,
         NEW place \in {"recover", "success", "failure"},
         Call(w, place, s), now' = now,
         place = "failure" => now + Disable < MaxTime
  PROVE  /\ worker' \in [Workers -> WorkerType]
         /\ ClocksPast' /\ DeadlinesSound'
<1>. USE HealthAssumption
<1>0. now \in Nat
  BY DEF HealthInv, HealthTypeOK, Times
<1>1. worker'[w] \in WorkerType /\ worker'[w].pc = place /\ worker'[w].clock = now
  BY DEF Call, HealthInv, HealthTypeOK, WorkerType
<1>2. \A v \in Workers \ {w} : worker'[v] = worker[v]
  BY DEF Call, HealthInv, HealthTypeOK
<1>3. worker' \in [Workers -> WorkerType]
  BY <1>1, <1>2 DEF Call, HealthInv, HealthTypeOK
<1>4. ClocksPast'
  BY <1>0, <1>1, <1>2 DEF HealthInv, ClocksPast
<1>5. DeadlinesSound'
  BY <1>1, <1>2 DEF HealthInv, DeadlinesSound, WorkerAt
<1>. QED
  BY <1>3, <1>4, <1>5

\* Clearing a breaker keeps both failure tables well typed.
LEMMA ResetSound ==
  ASSUME HealthTypeOK, NEW s \in Scopes, Reset(s)
  PROVE  /\ circuit' \in [Scopes -> [Times -> Nat]]
         /\ failed' \in [Scopes -> [Times -> Nat]]
<1>1. NoFailures \in [Times -> Nat]
  BY DEF NoFailures
<1>. QED
  BY <1>1 DEF HealthTypeOK, Reset

\* The steps of a request that write no row.
LEMMA QuietWorkerKeeps ==
  ASSUME HealthInv, NEW w \in Workers,
         \/ RecoverIfExpired(w) \/ RecoveredReset(w) \/ RecoverRoute(w)
         \/ IsAvailable(w) \/ NoVerdict(w) \/ MarkSuccess(w) \/ SuccessReset(w)
         \/ MarkFailure(w) \/ MarkFailureFails(w)
  PROVE  HealthInv' /\ health' = health
<1>. USE HealthAssumption
<1>0. Root \in Scopes /\ RouteOf[w] \in Scopes /\ worker[w].at \in Scopes
  BY DEF Scopes, HealthInv, HealthTypeOK, WorkerType
<1>1. /\ health' = health /\ now' = now /\ UNCHANGED <<enabled, overtaken, admin, restarts>>
      /\ failures' \in 0 .. MaxFailures
  BY DEF RecoverIfExpired, RecoveredReset, RecoverRoute, IsAvailable, NoVerdict,
     MarkSuccess, SuccessReset, MarkFailure, MarkFailureFails, WorkerFrame, bounds,
     HealthInv, HealthTypeOK
<1>2. /\ worker' \in [Workers -> WorkerType]
      /\ ClocksPast' /\ DeadlinesSound'
  <2>1. CASE RecoverIfExpired(w) \/ RecoverRoute(w) \/ MarkSuccess(w) \/ MarkFailure(w)
    BY <1>0, <1>1, <2>1, CallSound
       DEF RecoverIfExpired, RecoverRoute, MarkSuccess, MarkFailure
  <2>2. CASE \/ RecoveredReset(w) \/ IsAvailable(w) \/ NoVerdict(w)
             \/ SuccessReset(w) \/ MarkFailureFails(w)
    BY <1>1, <2>2, StepSound
       DEF RecoveredReset, AfterRecovery, IsAvailable, NoVerdict, SuccessReset,
           MarkFailureFails
  <2>. QED
    BY <2>1, <2>2
<1>3. /\ circuit' \in [Scopes -> [Times -> Nat]]
      /\ failed' \in [Scopes -> [Times -> Nat]]
  BY <1>0, ResetSound
     DEF RecoverIfExpired, RecoveredReset, RecoverRoute, IsAvailable, NoVerdict,
     MarkSuccess, SuccessReset, MarkFailure, MarkFailureFails, breaker, HealthInv, HealthTypeOK
<1>. QED
  BY <1>1, <1>2, <1>3 DEF HealthInv, HealthTypeOK, RootByHand, NoRowStuck

\* A success counted by a route or by its parent: the clock it brings was
\* read in the past, so it cannot see a running cooldown as expired.
LEMMA SuccessRowKeeps ==
  ASSUME HealthInv, NEW w \in Workers, SuccessRow(w)
  PROVE  HealthInv' /\ Serves
<1>. USE HealthAssumption
<1>. DEFINE s == worker[w].at
            r == IncrementSuccessCount(health[s], worker[w].clock)
<1>0. /\ s \in Scopes /\ health[s] \in RowType /\ worker[w] \in WorkerType
      /\ worker[w].clock \in Nat /\ worker[w].clock <= now /\ now \in Nat
      /\ health[s].until \in Nat
  BY DEF HealthInv, HealthTypeOK, WorkerType, ClocksPast, RowType, Times
<1>1. /\ now' = now /\ UNCHANGED <<enabled, overtaken, admin, circuit, failed>>
      /\ UNCHANGED <<failures, restarts>>
  BY DEF SuccessRow, WorkerFrame, bounds, breaker
<1>2. /\ worker' \in [Workers -> WorkerType]
      /\ ClocksPast' /\ DeadlinesSound'
  <2>1. CASE HealthStep(w, "close") \/ HealthStep(w, "idle")
    BY <1>1, <2>1, StepSound
  <2>2. CASE worker' = [worker EXCEPT ![w].at = Root]
    <3>1. worker'[w] = [worker[w] EXCEPT !.at = Root]
      BY <2>2 DEF HealthInv, HealthTypeOK
    <3>2. worker'[w] \in WorkerType
      BY <1>0, <3>1 DEF WorkerType, Scopes
    <3>3. worker' \in [Workers -> WorkerType]
      BY <2>2, <3>2 DEF HealthInv, HealthTypeOK
    <3>4. \A v \in Workers : /\ worker'[v].pc = worker[v].pc
                             /\ worker'[v].clock = worker[v].clock
                             /\ worker'[v].until = worker[v].until
      BY <1>0, <2>2, <3>1 DEF HealthInv, HealthTypeOK, WorkerType
    <3>. QED
      BY <1>1, <3>3, <3>4 DEF HealthInv, ClocksPast, DeadlinesSound, WorkerAt
  <2>. QED
    BY <2>1, <2>2 DEF SuccessRow
<1>3. health' \in [Scopes -> RowType] /\ RootByHand' /\ NoRowStuck' /\ Serves
  <2>1. CASE health' = health
    BY <2>1, SameRowsServe DEF HealthInv, HealthTypeOK, RootByHand, NoRowStuck
  <2>2. CASE health' = [health EXCEPT ![s] = r]
    <3>1. /\ r \in RowType /\ r.reason = health[s].reason /\ r.until = health[s].until
          /\ r.available \/ r = health[s]
          /\ health[s].reason = "manual" => r = health[s]
      BY <1>0 DEF IncrementSuccessCount, RowType
    <3>2. Cooling(s) => r = health[s]
      BY <1>0 DEF Cooling, IncrementSuccessCount, HeldDown, NoTime
    <3>3. Cooling(s) => ~r.available /\ r.until >= health[s].until
      BY <1>0, <3>2 DEF Cooling
    <3>4. ~r.available => r.reason = "manual" \/ r.until # NoTime
      BY <1>0, <3>1 DEF HealthInv, NoRowStuck
    <3>5. /\ s = Root => r.reason # "auto"
          /\ r.reason = "manual" => s = Root /\ r = ManuallyDisabled
      BY <1>0, <3>1 DEF HealthInv, NoRowStuck, RootByHand
    <3>. HIDE DEF r, s
    <3>. QED
      BY <1>0, <2>2, <3>1, <3>3, <3>4, <3>5, RowWritten
  <2>. QED
    BY <2>1, <2>2 DEF SuccessRow
<1>. QED
  BY <1>1, <1>2, <1>3 DEF HealthInv, HealthTypeOK

\* Recovery: a row whose deadline has passed on a clock read earlier is past
\* it now.
LEMMA RecoverKeeps ==
  ASSUME HealthInv, NEW w \in Workers, AtomicRecoverIfExpired(w)
  PROVE  HealthInv' /\ Serves
<1>. USE HealthAssumption
<1>. DEFINE s == worker[w].at
<1>0. /\ s \in Scopes /\ health[s] \in RowType
      /\ worker[w].clock \in Nat /\ worker[w].clock <= now /\ now \in Nat
      /\ health[s].until \in Nat
  BY DEF HealthInv, HealthTypeOK, WorkerType, ClocksPast, RowType, Times
<1>1. /\ now' = now /\ UNCHANGED <<enabled, overtaken, admin, circuit, failed>>
      /\ UNCHANGED <<failures, restarts>>
  BY DEF AtomicRecoverIfExpired, WorkerFrame, bounds, breaker
<1>2. /\ worker' \in [Workers -> WorkerType]
      /\ ClocksPast' /\ DeadlinesSound'
  BY <1>1, StepSound DEF AtomicRecoverIfExpired, AfterRecovery
<1>3. health' \in [Scopes -> RowType] /\ RootByHand' /\ NoRowStuck' /\ Serves
  <2>1. CASE health' = health
    BY <2>1, SameRowsServe DEF HealthInv, HealthTypeOK, RootByHand, NoRowStuck
  <2>2. CASE Expired(health[s], worker[w].clock) /\ health' = [health EXCEPT ![s] = Healthy]
    <3>1. /\ Healthy \in RowType /\ Healthy.available /\ Healthy.reason = "none"
      BY DEF Healthy, RowType, NoTime, Times
    <3>2. ~Cooling(s) /\ health[s].reason # "manual"
      BY <1>0, <2>2 DEF Cooling, Expired
    <3>. HIDE DEF s
    <3>. QED
      BY <1>0, <2>2, <3>1, <3>2, RowWritten
  <2>. QED
    BY <2>1, <2>2 DEF AtomicRecoverIfExpired
<1>. QED
  BY <1>1, <1>2, <1>3 DEF HealthInv, HealthTypeOK

\* Disabling a route: the deadline it is given is never earlier than the one
\* it has.
LEMMA DisableRowKeeps ==
  ASSUME HealthInv, NEW w \in Workers, DisableRow(w)
  PROVE  HealthInv' /\ Serves
<1>. USE HealthAssumption
<1>. DEFINE s == RouteOf[w]
            d == worker[w].until
            r == AutoDisableUntil(health[s], d)
<1>0. /\ s \in Routes /\ s \in Scopes /\ s # Root /\ health[s] \in RowType
      /\ d \in Times /\ d # NoTime /\ health[s].until \in Nat /\ d \in Nat
  <2>1. WorkerAt(w, "disable")
    BY DEF DisableRow
  <2>2. worker[w] \in WorkerType /\ s \in Routes /\ health \in [Scopes -> RowType]
    BY DEF HealthInv, HealthTypeOK
  <2>3. d \in Times /\ d # NoTime
    BY <2>1, <2>2 DEF HealthInv, DeadlinesSound, WorkerType
  <2>. QED
    BY <2>2, <2>3 DEF Scopes, RowType, Times
<1>1. /\ now' = now /\ UNCHANGED <<enabled, admin, circuit, failed>>
      /\ UNCHANGED <<failures, restarts>> /\ overtaken' \subseteq HealthAdmins
  BY DEF DisableRow, bounds, breaker, Enabling, HealthInv, HealthTypeOK
<1>2. /\ worker' \in [Workers -> WorkerType]
      /\ ClocksPast' /\ DeadlinesSound'
  BY <1>1, StepSound DEF DisableRow
<1>3. health' \in [Scopes -> RowType] /\ RootByHand' /\ NoRowStuck' /\ Serves
  <2>1. CASE health' = health
    BY <2>1, SameRowsServe DEF HealthInv, HealthTypeOK, RootByHand, NoRowStuck
  <2>2. CASE health' = [health EXCEPT ![s] = r]
    <3>1. health[s].reason # "manual"
      BY <1>0 DEF HealthInv, NoRowStuck
    <3>2. /\ r \in RowType /\ ~r.available /\ r.until # NoTime /\ r.reason # "manual"
          /\ r.until >= health[s].until
      <4>1. CASE health[s].until # NoTime /\ health[s].until >= d
        <5>1. r = [health[s] EXCEPT !.available = FALSE]
          BY <3>1, <4>1 DEF AutoDisableUntil
        <5>. HIDE DEF r, s, d
        <5>2. /\ r \in RowType /\ ~r.available
              /\ r.until = health[s].until /\ r.reason = health[s].reason
          BY <1>0, <5>1 DEF RowType
        <5>. QED
          BY <1>0, <3>1, <4>1, <5>2
      <4>2. CASE ~(health[s].until # NoTime /\ health[s].until >= d)
        <5>1. r = [available |-> FALSE, until |-> d, reason |-> "auto"]
          BY <3>1, <4>2 DEF AutoDisableUntil
        <5>. HIDE DEF r, s, d
        <5>. QED
          BY <1>0, <4>2, <5>1 DEF RowType, NoTime
      <4>. QED
        BY <4>1, <4>2
    <3>. HIDE DEF r, s
    <3>. QED
      BY <1>0, <2>2, <3>2, RowWritten
  <2>. QED
    BY <2>1, <2>2 DEF DisableRow
<1>. QED
  BY <1>1, <1>2, <1>3 DEF HealthInv, HealthTypeOK

\* A failure goes into both tables; only a call that tripped the breaker
\* goes on to write a deadline.
LEMMA FailureRecordedKeeps ==
  ASSUME HealthInv, NEW w \in Workers, FailureRecorded(w)
  PROVE  HealthInv' /\ health' = health
<1>. USE HealthAssumption
<1>. DEFINE s == RouteOf[w]
            d == worker[w].clock + Disable
<1>0. /\ s \in Scopes /\ now \in Times /\ now \in Nat
      /\ circuit \in [Scopes -> [Times -> Nat]] /\ failed \in [Scopes -> [Times -> Nat]]
      /\ worker \in [Workers -> WorkerType]
  BY DEF Scopes, HealthInv, HealthTypeOK, Times
<1>1. /\ health' = health /\ now' = now /\ UNCHANGED <<enabled, overtaken, admin>>
      /\ UNCHANGED <<failures, restarts>>
  BY DEF FailureRecorded, WorkerFrame, bounds
<1>2. d \in Times /\ d # NoTime /\ d < MaxTime
  <2>1. WorkerAt(w, "failure")
    BY DEF FailureRecorded
  <2>2. d < MaxTime
    BY <2>1 DEF HealthInv, DeadlinesSound
  <2>3. worker[w].clock \in Nat
    BY <1>0 DEF WorkerType, Times
  <2>. QED
    BY <2>2, <2>3 DEF Times, NoTime
<1>3. /\ circuit' \in [Scopes -> [Times -> Nat]]
      /\ failed' \in [Scopes -> [Times -> Nat]]
  <2>1. Younger(circuit[s], Window) \in [Times -> Nat]
    BY <1>0 DEF Younger
  <2>2. RecordFailure(circuit[s]) \in [Times -> Nat]
    BY <1>0, <2>1 DEF RecordFailure
  <2>3. [failed[s] EXCEPT ![now] = @ + 1] \in [Times -> Nat]
    BY <1>0
  <2>4. /\ circuit' = [circuit EXCEPT ![s] = RecordFailure(circuit[s])]
        /\ failed' = [failed EXCEPT ![s] = [failed[s] EXCEPT ![now] = @ + 1]]
    BY DEF FailureRecorded
  <2>. QED
    BY <1>0, <2>2, <2>3, <2>4
<1>4. /\ worker' \in [Workers -> WorkerType]
      /\ ClocksPast' /\ DeadlinesSound'
  <2>1. CASE HealthStep(w, "idle")
    BY <1>1, <2>1, StepSound
  <2>2. CASE worker' = [worker EXCEPT ![w] =
                          [IdleWorker EXCEPT !.pc = "disable", !.until = d]]
    <3>0. worker'[w] = [pc |-> "disable", at |-> Root, clock |-> 0, until |-> d]
      BY <1>0, <2>2 DEF IdleWorker
    <3>1. /\ worker'[w] \in WorkerType /\ worker'[w].pc = "disable"
          /\ worker'[w].until = d /\ worker'[w].clock = 0
      <4>1. 0 \in Times /\ Root \in Scopes
        BY DEF Times, Scopes
      <4>. HIDE DEF d
      <4>. QED
        BY <1>2, <3>0, <4>1 DEF WorkerType
    <3>2. \A v \in Workers \ {w} : worker'[v] = worker[v]
      BY <1>0, <2>2
    <3>3. worker' \in [Workers -> WorkerType]
      BY <1>0, <2>2, <3>1
    <3>4. ClocksPast'
      BY <1>0, <1>1, <3>1, <3>2 DEF HealthInv, ClocksPast
    <3>5. DeadlinesSound'
      BY <1>2, <3>1, <3>2 DEF HealthInv, DeadlinesSound, WorkerAt
    <3>. QED
      BY <3>3, <3>4, <3>5
  <2>. QED
    BY <2>1, <2>2 DEF FailureRecorded
<1>. QED
  BY <1>1, <1>3, <1>4 DEF HealthInv, HealthTypeOK, RootByHand, NoRowStuck

\* A suspension is a deadline ahead of the clock.
LEMMA SuspendKeeps ==
  ASSUME HealthInv, NEW w \in Workers, SuspendUntil(w)
  PROVE  HealthInv' /\ health' = health
<1>. USE HealthAssumption
<1>0. now \in Nat /\ worker \in [Workers -> WorkerType]
  BY DEF HealthInv, HealthTypeOK, Times
<1>1. /\ health' = health /\ now' = now
      /\ UNCHANGED <<enabled, overtaken, admin, restarts, circuit, failed>>
      /\ failures' \in 0 .. MaxFailures
  BY DEF SuspendUntil, breaker, HealthInv, HealthTypeOK
<1>2. PICK d \in Suspensions :
        /\ now + d < MaxTime
        /\ worker' = [worker EXCEPT ![w].pc = "disable", ![w].until = now + d]
  BY DEF SuspendUntil
<1>3. now + d \in Times /\ now + d # NoTime
  BY <1>0, <1>2 DEF Times, NoTime
<1>. DEFINE u == now + d
<1>4. worker'[w] = [worker[w] EXCEPT !.pc = "disable", !.until = u]
  BY <1>0, <1>2
<1>5. /\ worker'[w] \in WorkerType /\ worker'[w].pc = "disable"
      /\ worker'[w].until = u /\ worker'[w].clock = worker[w].clock
  <2>1. worker[w] \in WorkerType /\ u \in Times
    BY <1>0, <1>3
  <2>. HIDE DEF u
  <2>. QED
    BY <1>4, <2>1 DEF WorkerType
<1>6. \A v \in Workers \ {w} : worker'[v] = worker[v]
  BY <1>0, <1>2
<1>7. worker' \in [Workers -> WorkerType]
  BY <1>0, <1>2, <1>5
<1>8. ClocksPast'
  BY <1>1, <1>5, <1>6 DEF HealthInv, ClocksPast
<1>9. DeadlinesSound'
  BY <1>3, <1>5, <1>6 DEF HealthInv, DeadlinesSound, WorkerAt
<1>. QED
  BY <1>1, <1>7, <1>8, <1>9 DEF HealthInv, HealthTypeOK, RootByHand, NoRowStuck

\* An administrator's progress stays well typed when it moves to a place.
LEMMA AdminStepSound ==
  ASSUME HealthTypeOK, NEW a \in HealthAdmins, NEW place \in
            {"idle", "store", "resetRoutes", "resetCircuits", "enable", "disable"},
         HealthAdminStep(a, place)
  PROVE  admin' \in [HealthAdmins -> AdminType]
<1>1. [IdleAdmin EXCEPT !.pc = place] \in AdminType
  BY DEF IdleAdmin, AdminType, AllOperations
<1>. QED
  BY <1>1 DEF HealthAdminStep, HealthTypeOK

\* The administrator's steps that are not an enable.
LEMMA AdminKeeps ==
  ASSUME HealthInv, NEW a \in HealthAdmins,
         \/ HealthAdminBegin(a) \/ StoreProvider(a) \/ ResetCircuitBreaker(a)
         \/ ManualDisable(a) \/ AdminFails(a)
  PROVE  HealthInv' /\ Serves
<1>. USE HealthAssumption
<1>0. HealthTypeOK /\ admin \in [HealthAdmins -> AdminType] /\ admin[a] \in AdminType
  BY DEF HealthInv, HealthTypeOK
<1>1. UNCHANGED <<now, worker, failures, restarts>>
  BY DEF HealthAdminBegin, StoreProvider, ResetCircuitBreaker, ManualDisable, AdminFails,
     AdminFrame, bounds
<1>2. ClocksPast' /\ DeadlinesSound'
  BY <1>1 DEF HealthInv, ClocksPast, DeadlinesSound, WorkerAt
<1>3. overtaken' \subseteq HealthAdmins
  BY <1>0 DEF HealthAdminBegin, StoreProvider, ResetCircuitBreaker, ManualDisable, AdminFails,
     Enabling, HealthTypeOK
<1>4. enabled' \in BOOLEAN
  BY <1>0 DEF HealthAdminBegin, StoreProvider, ResetCircuitBreaker, ManualDisable, AdminFails,
     HealthTypeOK, AdminType
<1>5. /\ circuit' \in [Scopes -> [Times -> Nat]]
      /\ failed' \in [Scopes -> [Times -> Nat]]
  BY <1>0, ResetSound
     DEF HealthAdminBegin, StoreProvider, ResetCircuitBreaker, ManualDisable, AdminFails,
     HealthTypeOK, breaker, AdminType
<1>6. admin' \in [HealthAdmins -> AdminType]
  <2>1. CASE HealthAdminBegin(a)
    <3>1. PICK op \in Operations : \E wanted \in BOOLEAN :
            admin' = [admin EXCEPT ![a] =
              [IdleAdmin EXCEPT !.pc = IF op = "reset" THEN "resetRoutes" ELSE "store",
                                !.op = op, !.enabled = wanted]]
      BY <1>0, <2>1 DEF HealthAdminBegin, HealthTypeOK
    <3>2. \A wanted \in BOOLEAN :
            [IdleAdmin EXCEPT !.pc = IF op = "reset" THEN "resetRoutes" ELSE "store",
                              !.op = op, !.enabled = wanted] \in AdminType
      BY DEF IdleAdmin, AdminType
    <3>. QED
      BY <1>0, <3>1, <3>2
  <2>2. CASE StoreProvider(a) \/ ManualDisable(a) \/ AdminFails(a)
    BY <1>0, <2>2, AdminStepSound DEF StoreProvider, ManualDisable, AdminFails
  <2>3. CASE ResetCircuitBreaker(a)
    <3>1. PICK s \in admin[a].todo :
            admin' = [admin EXCEPT ![a].todo = @ \ {s},
                        ![a].pc = IF admin[a].todo = {s} THEN "enable" ELSE @]
      BY <2>3 DEF ResetCircuitBreaker
    <3>2. admin'[a] = [admin[a] EXCEPT !.todo = admin[a].todo \ {s},
                        !.pc = IF admin[a].todo = {s} THEN "enable" ELSE admin[a].pc]
      BY <1>0, <3>1
    <3>3. admin'[a] \in AdminType
      BY <1>0, <3>2 DEF AdminType
    <3>. QED
      BY <1>0, <3>1, <3>3
  <2>. QED
    BY <2>1, <2>2, <2>3
<1>7. health' \in [Scopes -> RowType] /\ RootByHand' /\ NoRowStuck' /\ Serves
  <2>1. CASE health' = health
    BY <2>1, SameRowsServe DEF HealthInv, HealthTypeOK, RootByHand, NoRowStuck
  <2>2. CASE ManualDisable(a)
    <3>1. /\ ManuallyDisabled \in RowType /\ ManuallyDisabled.reason = "manual"
          /\ ~ManuallyDisabled.available /\ Root \in Scopes
      BY DEF ManuallyDisabled, RowType, NoTime, Times, Scopes
    <3>2. health' = [health EXCEPT ![Root] = ManuallyDisabled]
      BY <2>2 DEF ManualDisable
    <3>3. ~Cooling(Root) /\ (health[Root].reason = "manual" => health[Root] = ManuallyDisabled)
      BY DEF Cooling, HealthInv, RootByHand
    <3>. QED
      BY <3>1, <3>2, <3>3, RowWritten
  <2>. QED
    BY <2>1, <2>2 DEF HealthAdminBegin, StoreProvider, ResetCircuitBreaker, AdminFails
<1>. QED
  BY <1>1, <1>2, <1>3, <1>4, <1>5, <1>6, <1>7 DEF HealthInv, HealthTypeOK

\* The two steps of an enable: only they end a cooldown early, and only the
\* second undoes a manual disable.
LEMMA EnableKeeps ==
  ASSUME HealthInv, NEW a \in HealthAdmins, ResetRouteAvailability(a) \/ ManualEnable(a)
  PROVE  /\ HealthInv'
         /\ ResetRouteAvailability(a) => health'[Root] = health[Root]
<1>. USE HealthAssumption
<1>0. HealthTypeOK /\ admin \in [HealthAdmins -> AdminType] /\ Root \in Scopes
  BY DEF HealthInv, HealthTypeOK, Scopes
<1>1. UNCHANGED <<now, worker, failures, restarts, enabled>>
  BY DEF ResetRouteAvailability, ManualEnable, AdminFrame, bounds
<1>2. ClocksPast' /\ DeadlinesSound'
  BY <1>1 DEF HealthInv, ClocksPast, DeadlinesSound, WorkerAt
<1>3. overtaken' \subseteq HealthAdmins
  BY <1>0 DEF ResetRouteAvailability, ManualEnable, HealthTypeOK
<1>4. /\ circuit' \in [Scopes -> [Times -> Nat]]
      /\ failed' \in [Scopes -> [Times -> Nat]]
  BY <1>0, ResetSound DEF ResetRouteAvailability, ManualEnable, HealthTypeOK, breaker
<1>5. admin' \in [HealthAdmins -> AdminType]
  <2>1. CASE ManualEnable(a)
    BY <1>0, <2>1, AdminStepSound DEF ManualEnable
  <2>2. CASE ResetRouteAvailability(a)
    <3>1. admin'[a] = [admin[a] EXCEPT !.pc = "resetCircuits", !.todo = Scopes]
      BY <1>0, <2>2 DEF ResetRouteAvailability
    <3>2. admin'[a] \in AdminType
      BY <1>0, <3>1 DEF AdminType
    <3>. QED
      BY <1>0, <2>2, <3>2 DEF ResetRouteAvailability
  <2>. QED
    BY <2>1, <2>2
<1>6. Healthy \in RowType /\ Healthy.available /\ Healthy.reason = "none"
  BY DEF Healthy, RowType, NoTime, Times
<1>7. \A s \in Scopes : health'[s] = Healthy \/ health'[s] = health[s]
  BY <1>0 DEF ResetRouteAvailability, ManualEnable, HealthInv, HealthTypeOK
<1>8. health' \in [Scopes -> RowType]
  BY <1>0, <1>6 DEF ResetRouteAvailability, ManualEnable, HealthInv, HealthTypeOK
<1>9. RootByHand' /\ NoRowStuck'
  BY <1>0, <1>6, <1>7 DEF HealthInv, RootByHand, NoRowStuck
<1>10. ResetRouteAvailability(a) => health'[Root] = health[Root]
  BY <1>0 DEF ResetRouteAvailability, Scopes
<1>. QED
  BY <1>1, <1>2, <1>3, <1>4, <1>5, <1>8, <1>9, <1>10 DEF HealthInv, HealthTypeOK

\* The clock, the janitor and a restart write no row.
LEMMA EnvironmentKeeps ==
  ASSUME HealthInv, Tick \/ Cleanup \/ Restart
  PROVE  HealthInv' /\ health' = health
<1>. USE HealthAssumption
<1>0. now \in Nat /\ circuit \in [Scopes -> [Times -> Nat]]
  BY DEF HealthInv, HealthTypeOK, Times
<1>1. CASE Tick
  <2>1. now' \in Times \ {0} /\ now' > now
    BY <1>0, <1>1 DEF Tick, Times
  <2>2. ClocksPast'
    <3>1. \A w \in Workers : worker[w].clock \in Nat
      BY DEF HealthInv, HealthTypeOK, WorkerType, Times
    <3>. QED
      BY <1>0, <1>1, <2>1, <3>1 DEF Tick, HealthInv, ClocksPast
  <2>. QED
    BY <1>1, <2>1, <2>2
       DEF Tick, HealthInv, HealthTypeOK, DeadlinesSound, WorkerAt, RootByHand, NoRowStuck,
           breaker, bounds
<1>2. CASE Cleanup
  <2>1. circuit' \in [Scopes -> [Times -> Nat]]
    BY <1>0, <1>2 DEF Cleanup, Younger
  <2>. QED
    BY <1>2, <2>1
       DEF Cleanup, HealthInv, HealthTypeOK, ClocksPast, DeadlinesSound, WorkerAt, RootByHand,
           NoRowStuck, bounds
<1>3. CASE Restart
  <2>1. /\ circuit' \in [Scopes -> [Times -> Nat]] /\ failed' = circuit'
        /\ restarts' \in 0 .. MaxRestarts /\ overtaken' \subseteq HealthAdmins
    BY <1>3 DEF Restart, NoFailures, HealthInv, HealthTypeOK
  <2>2. IdleWorker \in WorkerType /\ IdleAdmin \in AdminType
    BY DEF IdleWorker, WorkerType, IdleAdmin, AdminType, AllOperations, Scopes, Times,
       NoTime
  <2>3. worker' \in [Workers -> WorkerType] /\ admin' \in [HealthAdmins -> AdminType]
    BY <1>3, <2>2 DEF Restart
  <2>4. \A w \in Workers : worker'[w] = IdleWorker
    BY <1>3 DEF Restart
  <2>5. UNCHANGED <<now, enabled, health, failures>>
    BY <1>3 DEF Restart
  <2>6. ClocksPast' /\ DeadlinesSound'
    BY <1>0, <2>4, <2>5 DEF ClocksPast, DeadlinesSound, WorkerAt, IdleWorker
  <2>. QED
    BY <2>1, <2>3, <2>5, <2>6 DEF HealthInv, HealthTypeOK, RootByHand, NoRowStuck
<1>. QED
  BY <1>1, <1>2, <1>3 DEF Tick, Cleanup, Restart

\* The program starts with healthy rows and empty breakers.
LEMMA InitHealth == ASSUME HealthInit PROVE HealthInv
<1>. USE HealthAssumption
<1>1. IdleWorker \in WorkerType /\ IdleAdmin \in AdminType /\ Healthy \in RowType
  BY DEF IdleWorker, WorkerType, IdleAdmin, AdminType, AllOperations, Scopes, Times,
     NoTime, Healthy, RowType
<1>2. HealthTypeOK
  BY <1>1 DEF HealthInit, HealthTypeOK, NoFailures, Times
<1>3. ClocksPast /\ DeadlinesSound
  BY DEF HealthInit, ClocksPast, DeadlinesSound, WorkerAt, IdleWorker
<1>4. RootByHand /\ NoRowStuck
  BY DEF HealthInit, RootByHand, NoRowStuck, Healthy, Scopes
<1>. QED
  BY <1>2, <1>3, <1>4 DEF HealthInv

\* One step of anyone: the invariant stays, and the rows serve their
\* cooldowns unless the step belongs to an enable.
LEMMA NextKeepsHealth ==
  ASSUME HealthInv, [HealthNext]_healthVars
  PROVE  /\ HealthInv'
         /\ \/ Serves
            \/ \E a \in HealthAdmins : ManualEnable(a)
            \/ \E a \in HealthAdmins : ResetRouteAvailability(a) /\ health'[Root] = health[Root]
<1>1. CASE UNCHANGED healthVars
  <2>1. HealthInv' /\ health' = health
    BY <1>1 DEF healthVars, HealthInv, HealthTypeOK, ClocksPast, DeadlinesSound, WorkerAt, RootByHand,
       NoRowStuck
  <2>. QED
    BY <2>1, SameRowsServe
<1>2. CASE Tick \/ Cleanup \/ Restart
  BY <1>2, EnvironmentKeeps, SameRowsServe
<1>3. CASE \E w \in Workers : WorkerStep(w) \/ Outcome(w)
  BY <1>3, QuietWorkerKeeps, SuccessRowKeeps, RecoverKeeps, DisableRowKeeps,
     FailureRecordedKeeps, SuspendKeeps, SameRowsServe
     DEF WorkerStep, Outcome
<1>4. CASE \E a \in HealthAdmins : AdminCall(a)
  BY <1>4, AdminKeeps, EnableKeeps DEF AdminCall
<1>. QED
  BY <1>1, <1>2, <1>3, <1>4 DEF HealthNext

\* In every behaviour the state has its type and no row is stuck: a row that
\* is down is the administrator's or has a deadline after which requests
\* recover it (HealthStateStore under any interleaving, failure or restart).
THEOREM HealthIsSound == HealthSpec => [](HealthTypeOK /\ NoRowStuck)
<1>1. HealthInit => HealthInv
  BY InitHealth
<1>2. HealthInv /\ [HealthNext]_healthVars => HealthInv'
  BY NextKeepsHealth
<1>3. HealthInv => HealthTypeOK /\ NoRowStuck
  BY DEF HealthInv
<1>. QED
  BY <1>1, <1>2, <1>3, PTL DEF HealthSpec

\* In every behaviour a cooldown is served out: no report, however late its
\* clock was read, brings a cooling row back or its deadline forward.
THEOREM CooldownsAreServed == HealthSpec => CooldownServed
<1>1. HealthInit => HealthInv
  BY InitHealth
<1>2. HealthInv /\ [HealthNext]_healthVars => HealthInv'
  BY NextKeepsHealth
<1>3. HealthInv /\ [HealthNext]_healthVars =>
        [\A s \in Scopes :
           Cooling(s) =>
              \/ ~health'[s].available /\ health'[s].until >= health[s].until
              \/ \E a \in HealthAdmins : \/ ResetRouteAvailability(a)
                                   \/ ManualEnable(a)]_healthVars
  BY NextKeepsHealth DEF Serves
<1>. QED
  BY <1>1, <1>2, <1>3, PTL DEF HealthSpec, CooldownServed

\* In every behaviour what an administrator disabled stays disabled until an
\* administrator enables it.
THEOREM ManualDisablesStick == HealthSpec => ManualDisableSticks
<1>1. HealthInit => HealthInv
  BY InitHealth
<1>2. HealthInv /\ [HealthNext]_healthVars => HealthInv'
  BY NextKeepsHealth
<1>3. HealthInv /\ [HealthNext]_healthVars =>
        [health[Root].reason = "manual" =>
           health'[Root] = health[Root] \/ \E a \in HealthAdmins : ManualEnable(a)]_healthVars
  BY NextKeepsHealth DEF Serves
<1>. QED
  BY <1>1, <1>2, <1>3, PTL DEF HealthSpec, ManualDisableSticks

\* Clearing a breaker clears it and its history.
LEMMA ResetCounted ==
  ASSUME HealthInv, WindowCounted, NEW s \in Scopes, Reset(s), now' = now
  PROVE  WindowCounted'
<1>1. \A x \in Scopes : \/ circuit'[x] = circuit[x] /\ failed'[x] = failed[x]
                        \/ circuit'[x] = failed'[x]
  BY DEF Reset, HealthInv, HealthTypeOK
<1>. QED
  BY <1>1 DEF WindowCounted

\* Recording a failure adds the same one to the breaker and to its history.
LEMMA RecordCounted ==
  ASSUME HealthInv, WindowCounted, NEW w \in Workers, FailureRecorded(w)
  PROVE  WindowCounted'
<1>. USE HealthAssumption
<1>. DEFINE s == RouteOf[w]
<1>0. /\ s \in Scopes /\ now \in Times /\ now \in Nat
      /\ circuit \in [Scopes -> [Times -> Nat]] /\ failed \in [Scopes -> [Times -> Nat]]
  BY DEF Scopes, HealthInv, HealthTypeOK, Times
<1>1. /\ circuit' = [circuit EXCEPT ![s] = RecordFailure(circuit[s])]
      /\ failed' = [failed EXCEPT ![s] = [failed[s] EXCEPT ![now] = @ + 1]]
      /\ now' = now
  BY DEF FailureRecorded, WorkerFrame
<1>2. \A t \in Times : t > now - Window =>
        RecordFailure(circuit[s])[t] = [failed[s] EXCEPT ![now] = @ + 1][t]
  <2>. SUFFICES ASSUME NEW t \in Times, t > now - Window
                PROVE  RecordFailure(circuit[s])[t] = [failed[s] EXCEPT ![now] = @ + 1][t]
    OBVIOUS
  <2>1. Younger(circuit[s], Window) \in [Times -> Nat]
    BY <1>0 DEF Younger
  <2>2. \A u \in Times : u > now - Window =>
          Younger(circuit[s], Window)[u] = circuit[s][u] /\ circuit[s][u] = failed[s][u]
    BY <1>0 DEF Younger, WindowCounted
  <2>3. Younger(circuit[s], Window)[t] = failed[s][t]
    BY <2>2
  <2>. QED
    BY <1>0, <2>1, <2>3 DEF RecordFailure
<1>3. \A x \in Scopes \ {s} : circuit'[x] = circuit[x] /\ failed'[x] = failed[x]
  BY <1>0, <1>1
<1>4. circuit'[s] = RecordFailure(circuit[s])
  BY <1>0, <1>1
<1>5. failed'[s] = [failed[s] EXCEPT ![now] = @ + 1]
  BY <1>0, <1>1
<1>. QED
  BY <1>1, <1>2, <1>3, <1>4, <1>5 DEF WindowCounted

\* Every step keeps the window counted, if the janitor keeps failures at
\* least as long as the window is.
LEMMA NextKeepsWindow ==
  ASSUME MaxAge >= Window, HealthInv, WindowCounted, [HealthNext]_healthVars
  PROVE  WindowCounted'
<1>. USE HealthAssumption
<1>0. now \in Nat /\ Root \in Scopes
  BY DEF HealthInv, HealthTypeOK, Times, Scopes
<1>1. CASE UNCHANGED <<now, circuit, failed>>
  BY <1>1 DEF WindowCounted
<1>2. CASE Tick
  BY <1>0, <1>2 DEF Tick, breaker, WindowCounted, Times
<1>3. CASE Cleanup
  <2>1. UNCHANGED <<now, failed>>
    BY <1>3 DEF Cleanup
  <2>2. \A s \in Scopes : \A t \in Times : t > now - Window =>
          circuit'[s][t] = circuit[s][t]
    BY <1>0, <1>3 DEF Cleanup, Younger, Times
  <2>. QED
    BY <2>1, <2>2 DEF WindowCounted
<1>4. CASE Restart
  BY <1>4 DEF Restart, WindowCounted
<1>5. ASSUME NEW w \in Workers, WorkerStep(w) \/ Outcome(w)
      PROVE  WindowCounted'
  <2>1. CASE RecoveredReset(w) \/ SuccessReset(w)
    <3>1. worker[w].at \in Scopes /\ RouteOf[w] \in Scopes
      BY DEF HealthInv, HealthTypeOK, WorkerType, Scopes
    <3>. QED
      BY <2>1, <3>1, ResetCounted DEF RecoveredReset, SuccessReset, WorkerFrame
  <2>2. CASE FailureRecorded(w)
    BY <2>2, RecordCounted
  <2>3. CASE ~(RecoveredReset(w) \/ SuccessReset(w) \/ FailureRecorded(w))
    BY <1>1, <1>5, <2>3
       DEF WorkerStep, Outcome, RecoverIfExpired, AtomicRecoverIfExpired, RecoverRoute,
           IsAvailable, MarkSuccess, SuccessRow, MarkFailureFails, DisableRow, NoVerdict,
           MarkFailure, SuspendUntil, WorkerFrame, breaker
  <2>. QED
    BY <2>1, <2>2, <2>3
<1>6. ASSUME NEW a \in HealthAdmins, AdminCall(a)
      PROVE  WindowCounted'
  <2>1. CASE ResetCircuitBreaker(a)
    <3>1. admin[a].todo \subseteq Scopes
      BY DEF HealthInv, HealthTypeOK, AdminType
    <3>. QED
      BY <2>1, <3>1, ResetCounted DEF ResetCircuitBreaker, AdminFrame
  <2>2. CASE ManualEnable(a)
    BY <1>0, <2>2, ResetCounted DEF ManualEnable, AdminFrame
  <2>3. CASE ~(ResetCircuitBreaker(a) \/ ManualEnable(a))
    BY <1>1, <1>6, <2>3
       DEF AdminCall, HealthAdminBegin, StoreProvider, ResetRouteAvailability, ManualDisable,
           AdminFails, AdminFrame, breaker
  <2>. QED
    BY <2>1, <2>2, <2>3
<1>. QED
  BY <1>1, <1>2, <1>3, <1>4, <1>5, <1>6 DEF HealthNext, healthVars

\* In every behaviour the breaker counts every failure of its window, as long
\* as circuit_window does not exceed the age at which the janitor drops
\* failures. Otherwise the janitor drops failures that the window still counts.
THEOREM BreakerCountsItsWindow == MaxAge >= Window => (HealthSpec => []WindowCounted)
<1>. SUFFICES ASSUME MaxAge >= Window PROVE HealthSpec => []WindowCounted
  OBVIOUS
<1>1. HealthInit => HealthInv /\ WindowCounted
  BY InitHealth DEF HealthInit, WindowCounted
<1>2. (HealthInv /\ WindowCounted) /\ [HealthNext]_healthVars => (HealthInv /\ WindowCounted)'
  BY NextKeepsHealth, NextKeepsWindow
<1>. QED
  BY <1>1, <1>2, PTL DEF HealthSpec

\* Reports bring routes back or leave them; the one that takes a route down marks
\* every enable under way as overtaken.
LEMMA NextKeepsRestored ==
  ASSUME HealthInv, RoutesRestored, [HealthNext]_healthVars
  PROVE  RoutesRestored'
<1>. USE HealthAssumption DEF RoutesRestored, Enabling
<1>0. /\ health \in [Scopes -> RowType] /\ admin \in [HealthAdmins -> AdminType]
      /\ Routes \subseteq Scopes /\ Root \notin Routes
  BY DEF HealthInv, HealthTypeOK, Scopes
<1>1. CASE UNCHANGED <<health, overtaken, admin>>
  BY <1>1
<1>2. CASE Restart
  BY <1>2 DEF Restart, IdleAdmin
<1>3. ASSUME NEW w \in Workers, WorkerStep(w) \/ Outcome(w)
      PROVE  RoutesRestored'
  <2>1. CASE AtomicRecoverIfExpired(w)
    <3>1. \A r \in Routes : health[r].available => health'[r].available
      BY <1>0, <2>1 DEF AtomicRecoverIfExpired, Healthy
    <3>. QED
      BY <2>1, <3>1 DEF AtomicRecoverIfExpired, WorkerFrame
  <2>2. CASE SuccessRow(w)
    <3>1. \A s \in Scopes : \/ health'[s] = health[s]
                            \/ health'[s] = IncrementSuccessCount(health[s], worker[w].clock)
      BY <1>0, <2>2 DEF SuccessRow
    <3>2. \A s \in Scopes : health[s].available => health'[s].available
      BY <1>0, <3>1 DEF IncrementSuccessCount, RowType
    <3>. QED
      BY <1>0, <2>2, <3>2 DEF SuccessRow, WorkerFrame
  <2>3. CASE DisableRow(w)
    BY <2>3 DEF DisableRow
  <2>4. CASE ~(AtomicRecoverIfExpired(w) \/ SuccessRow(w) \/ DisableRow(w))
    BY <1>1, <1>3, <2>4 DEF WorkerStep, Outcome, RecoverIfExpired, RecoveredReset, RecoverRoute,
      IsAvailable, MarkSuccess, SuccessReset, MarkFailureFails, FailureRecorded, NoVerdict,
      MarkFailure, SuspendUntil, WorkerFrame
  <2>. QED
    BY <2>1, <2>2, <2>3, <2>4
<1>4. ASSUME NEW a \in HealthAdmins, AdminCall(a)
      PROVE  RoutesRestored'
  <2>1. CASE HealthAdminBegin(a)
    BY <1>0, <2>1 DEF HealthAdminBegin, IdleAdmin
  <2>2. CASE StoreProvider(a)
    BY <1>0, <2>2 DEF StoreProvider, HealthAdminStep, IdleAdmin
  <2>3. CASE ResetRouteAvailability(a)
    BY <1>0, <2>3 DEF ResetRouteAvailability, Healthy
  <2>4. CASE ResetCircuitBreaker(a)
    <3>1. \A b \in HealthAdmins : admin'[b].pc \in {"resetCircuits", "enable"} =>
                                  admin[b].pc \in {"resetCircuits", "enable"}
      BY <1>0, <2>4 DEF ResetCircuitBreaker, AdminAt
    <3>. QED
      BY <2>4, <3>1 DEF ResetCircuitBreaker
  <2>5. CASE ManualEnable(a)
    BY <1>0, <2>5 DEF ManualEnable, HealthAdminStep, IdleAdmin
  <2>6. CASE ManualDisable(a)
    BY <1>0, <2>6 DEF ManualDisable, HealthAdminStep, IdleAdmin
  <2>7. CASE AdminFails(a)
    BY <1>0, <2>7 DEF AdminFails, HealthAdminStep, IdleAdmin
  <2>. QED
    BY <1>4, <2>1, <2>2, <2>3, <2>4, <2>5, <2>6, <2>7 DEF AdminCall
<1>5. CASE Tick \/ Cleanup
  BY <1>1, <1>5 DEF Tick, Cleanup
<1>. QED
  BY <1>1, <1>2, <1>3, <1>4, <1>5 DEF HealthNext, healthVars

\* A provider-wide enable that no disable overtook ends with every route and the
\* provider itself available, whatever requests report meanwhile (ManualEnable).
THEOREM EnablesRestoreRoutes == HealthSpec => EnableRestoresRoutes
<1>1. HealthInit => HealthInv /\ RoutesRestored
  BY InitHealth DEF HealthInit, RoutesRestored, Enabling, IdleAdmin
<1>2. (HealthInv /\ RoutesRestored) /\ [HealthNext]_healthVars => (HealthInv /\ RoutesRestored)'
  BY NextKeepsHealth, NextKeepsRestored
<1>3. HealthInv /\ RoutesRestored =>
        [\A a \in HealthAdmins : (a \notin overtaken /\ ManualEnable(a)) =>
            \A s \in Scopes : health'[s].available]_healthVars
  BY HealthAssumption DEF HealthInv, HealthTypeOK, RoutesRestored, Enabling, ManualEnable, AdminAt,
    Healthy, Scopes
<1>. QED
  BY <1>1, <1>2, <1>3, PTL DEF HealthSpec, EnableRestoresRoutes
============================================================================

---------------------------- MODULE HealthCircuit ----------------------------
(* Availability of one provider: the health manager of internal/health, the  *)
(* sliding-window circuit breaker it keeps in memory, the rows it persists   *)
(* (internal/health/state) and the administrator's toggles that write the    *)
(* provider's enabled flag and then bring the health row in line with it.    *)
(*                                                                           *)
(* A provider has one provider-wide row (scope Root) and one row per route   *)
(* (API type and transport).  Requests report to the manager of their route, *)
(* whose parent is the provider-wide manager.  Every SQL statement and every *)
(* critical section of the breaker is one step; the clock may advance, and   *)
(* other goroutines may run, between any two of them.  The success and       *)
(* failure totals and the last error are reporting only and are left out.    *)
EXTENDS Integers, FiniteSets, FiniteSetsExt

CONSTANTS
    Routes,          \* the routes of the provider
    Root,            \* the provider-wide scope, not a route
    Workers,         \* requests, each bound to one route
    RouteOf,         \* the route a worker's requests use
    HealthAdmins,          \* concurrent administrator calls
    Operations,      \* which calls they make: enable, disable, update, reset
    Window,          \* circuit_window
    Threshold,       \* circuit_failure
    Disable,         \* circuit_disable
    Suspensions,     \* how far ahead an upstream's usage limit may reach
    MaxAge,          \* HealthCleanupMaxAge
    StoreFails,      \* whether a statement may fail
    MaxTime,         \* bound on the clock
    MaxFailures,     \* bound on the failures and suspensions reported
    MaxRestarts      \* bound on restarts of the process

Scopes == Routes \cup {Root}
Times == 0 .. MaxTime
AllOperations == {"enable", "disable", "update", "reset"}

ASSUME HealthAssumption ==
    /\ Root \notin Routes
    /\ RouteOf \in [Workers -> Routes]
    /\ Operations \subseteq AllOperations
    /\ Window \in Nat \ {0} /\ Disable \in Nat \ {0} /\ MaxAge \in Nat
    /\ Threshold \in Nat
    /\ Suspensions \subseteq Nat \ {0}
    /\ StoreFails \in BOOLEAN
    /\ MaxTime \in Nat \ {0} /\ MaxFailures \in Nat /\ MaxRestarts \in Nat

VARIABLES
    now,        \* the clock
    enabled,    \* the provider row's enabled flag
    health,        \* the persisted health row of each scope
    circuit,    \* the breaker: how many failures it holds from each instant
    failed,     \* history: the failures recorded since the breaker was reset
    overtaken,  \* history: the enables a disable overtook
    worker,     \* each request's progress through the manager
    admin,      \* each administrator call's progress
    failures,   \* how many failures and suspensions were reported
    restarts    \* how often the process restarted

healthVars == <<now, enabled, health, circuit, failed, overtaken, worker, admin,
          failures, restarts>>
breaker == <<circuit, failed>>
bounds == <<failures, restarts>>

\* disabled_until IS NULL; the clock is past 0 whenever a row is disabled.
NoTime == 0
Healthy == [available |-> TRUE, until |-> NoTime, reason |-> "none"]
ManuallyDisabled == [available |-> FALSE, until |-> NoTime, reason |-> "manual"]
NoFailures == [t \in Times |-> 0]

----------------------------------------------------------------------------
(* The statements of internal/health/state/repository.go. An upsert of a row *)
(* that does not exist starts from the healthy row; comparisons with a NULL  *)
(* disabled_until are never true.                                            *)

\* "disabled_until > ?" in IncrementSuccessCount, for an automatic disable.
HeldDown(r, at) == r.reason = "auto" /\ r.until # NoTime /\ r.until > at

\* A success that forgets the cooldown.
MutIncrementSuccessCount(r, at) ==
    IF r.reason = "manual" THEN r ELSE [r EXCEPT !.available = TRUE]

\* A success that forgets the administrator.
MutIncrementSuccessManual(r, at) ==
    IF HeldDown(r, at) THEN r ELSE [r EXCEPT !.available = TRUE]

\* IncrementSuccessCount: the row becomes available unless an administrator
\* or a cooldown that has not run out holds it down; the rest of it stays.
IncrementSuccessCount(r, at) ==
    IF r.reason = "manual" \/ HeldDown(r, at) THEN r
    ELSE [r EXCEPT !.available = TRUE]

\* AutoDisableUntil when a later deadline is kept for a NULL one as well.
MutAutoDisableUntil(r, deadline) ==
    IF r.reason = "manual" THEN r
    ELSE [available |-> FALSE,
          until |-> IF r.until # NoTime /\ r.until < deadline THEN deadline ELSE r.until,
          reason |-> "auto"]

\* AutoDisableUntil: a manual disable wins, a later deadline is not shortened.
AutoDisableUntil(r, deadline) ==
    IF r.reason = "manual" THEN r
    ELSE IF r.until # NoTime /\ r.until >= deadline
         THEN [r EXCEPT !.available = FALSE]
         ELSE [available |-> FALSE, until |-> deadline, reason |-> "auto"]

\* The WHERE clause of AtomicRecoverIfExpired.
Expired(r, at) ==
    ~r.available /\ r.until # NoTime /\ r.until < at /\ r.reason # "manual"

----------------------------------------------------------------------------
(* The breaker of internal/health/circuit.go.                                *)

\* Keep the failures that are younger than the given age.
Younger(held, age) == [t \in Times |-> IF t > now - age THEN held[t] ELSE 0]

\* RecordFailure with a window one instant too short.
MutRecordFailure(held) == [Younger(held, Window - 1) EXCEPT ![now] = @ + 1]

\* RecordFailure: drop what left the window, add this failure.
RecordFailure(held) == [Younger(held, Window) EXCEPT ![now] = @ + 1]

Count(held) == MapThenSumSet(LAMBDA t: held[t], Times)

Reset(s) ==
    /\ circuit' = [circuit EXCEPT ![s] = NoFailures]
    /\ failed' = [failed EXCEPT ![s] = NoFailures]

\* The janitor's Cleanup of every breaker: StartCleanupLoop of the manager.
Cleanup ==
    /\ circuit' = [s \in Scopes |-> Younger(circuit[s], MaxAge)]
    /\ circuit' # circuit
    /\ UNCHANGED <<now, enabled, health, failed, overtaken, worker, admin, bounds>>

----------------------------------------------------------------------------
(* A request: recovery and the availability check while it is being routed,  *)
(* then one report of its outcome.                                           *)

IdleWorker == [pc |-> "idle", at |-> Root, clock |-> 0, until |-> NoTime]

WorkerAt(w, place) == worker[w].pc = place

\* Go on; a call that returned leaves its local values behind.
HealthStep(w, place) ==
    worker' = [worker EXCEPT ![w] =
        IF place \in {"recovered", "close"} THEN [@ EXCEPT !.pc = place, !.clock = 0]
        ELSE [IdleWorker EXCEPT !.pc = place]]

\* Call a statement on behalf of scope s with the time read here.
Call(w, place, s) ==
    worker' = [worker EXCEPT ![w].pc = place, ![w].at = s, ![w].clock = now]

WorkerFrame == UNCHANGED <<now, enabled, overtaken, admin, bounds>>

\* RecoverIfExpired of the route starts with its parent.
RecoverIfExpired(w) ==
    /\ WorkerAt(w, "idle")
    /\ Call(w, "recover", Root)
    /\ UNCHANGED <<health, breaker>> /\ WorkerFrame

\* Recovery that stops at the parent.
MutAfterRecovery(w) == "isAvailable"

\* When the parent is done the route reads the clock again.
AfterRecovery(w) == IF worker[w].at = Root THEN "recoverRoute" ELSE "isAvailable"

AtomicRecoverIfExpired(w) ==
    /\ WorkerAt(w, "recover")
    /\ LET s == worker[w].at IN
         \/ /\ Expired(health[s], worker[w].clock)
            /\ health' = [health EXCEPT ![s] = Healthy]
            /\ HealthStep(w, "recovered")
         \/ /\ ~Expired(health[s], worker[w].clock) \/ StoreFails
            /\ health' = health
            /\ HealthStep(w, AfterRecovery(w))
    /\ UNCHANGED breaker /\ WorkerFrame

\* The breaker is cleared only after the row was recovered.
RecoveredReset(w) ==
    /\ WorkerAt(w, "recovered")
    /\ Reset(worker[w].at)
    /\ HealthStep(w, AfterRecovery(w))
    /\ UNCHANGED health /\ WorkerFrame

RecoverRoute(w) ==
    /\ WorkerAt(w, "recoverRoute")
    /\ Call(w, "recover", RouteOf[w])
    /\ UNCHANGED <<health, breaker>> /\ WorkerFrame

\* IsAvailable asks the provider-wide row, then the route's; an error counts
\* as unavailable, and an unavailable provider is passed over.
IsAvailable(w) ==
    /\ \/ /\ WorkerAt(w, "isAvailable")
          /\ health[Root].available
          /\ HealthStep(w, "isAvailableRoute")
       \/ /\ WorkerAt(w, "isAvailableRoute")
          /\ health[RouteOf[w]].available
          /\ HealthStep(w, "sent")
       \/ /\ WorkerAt(w, "isAvailable")
          /\ ~health[Root].available \/ StoreFails
          /\ HealthStep(w, "idle")
       \/ /\ WorkerAt(w, "isAvailableRoute")
          /\ ~health[RouteOf[w]].available \/ StoreFails
          /\ HealthStep(w, "idle")
    /\ UNCHANGED <<health, breaker>> /\ WorkerFrame

\* A request that ends without a verdict on the provider's health.
NoVerdict(w) ==
    /\ WorkerAt(w, "sent")
    /\ HealthStep(w, "idle")
    /\ UNCHANGED <<health, breaker>> /\ WorkerFrame

\* MarkSuccess: the route's row, then its parent's, then the breaker.
MarkSuccess(w) ==
    /\ WorkerAt(w, "sent")
    /\ Call(w, "success", RouteOf[w])
    /\ UNCHANGED <<health, breaker>> /\ WorkerFrame

SuccessRow(w) ==
    /\ WorkerAt(w, "success")
    /\ LET s == worker[w].at IN
         \/ /\ health' = [health EXCEPT ![s] = IncrementSuccessCount(@, worker[w].clock)]
            /\ IF s = Root THEN HealthStep(w, "close")
               ELSE worker' = [worker EXCEPT ![w].at = Root]
         \/ /\ StoreFails
            /\ health' = health
            /\ HealthStep(w, IF s = Root THEN "close" ELSE "idle")
    /\ UNCHANGED breaker /\ WorkerFrame

SuccessReset(w) ==
    /\ WorkerAt(w, "close")
    /\ Reset(RouteOf[w])
    /\ HealthStep(w, "idle")
    /\ UNCHANGED health /\ WorkerFrame

\* MarkFailure: the two failure counts are reporting only, but a failure to
\* write the route's own one ends the call.
MarkFailure(w) ==
    /\ WorkerAt(w, "sent")
    /\ failures < MaxFailures
    /\ now + Disable < MaxTime
    /\ failures' = failures + 1
    /\ Call(w, "failure", RouteOf[w])
    /\ UNCHANGED <<now, enabled, health, breaker, overtaken, admin, restarts>>

MarkFailureFails(w) ==
    /\ WorkerAt(w, "failure")
    /\ StoreFails
    /\ HealthStep(w, "idle")
    /\ UNCHANGED <<health, breaker>> /\ WorkerFrame

FailureRecorded(w) ==
    /\ WorkerAt(w, "failure")
    /\ LET s == RouteOf[w]
           held == RecordFailure(circuit[s])
       IN /\ circuit' = [circuit EXCEPT ![s] = held]
          /\ failed' = [failed EXCEPT ![s][now] = @ + 1]
          /\ IF Count(held) >= Threshold
             THEN worker' = [worker EXCEPT ![w] =
                    [IdleWorker EXCEPT !.pc = "disable", !.until = worker[w].clock + Disable]]
             ELSE HealthStep(w, "idle")
    /\ UNCHANGED health /\ WorkerFrame

\* SuspendUntil a deadline the upstream named, if it is still ahead.
SuspendUntil(w) ==
    /\ WorkerAt(w, "sent")
    /\ failures < MaxFailures
    /\ failures' = failures + 1
    /\ \E d \in Suspensions :
         /\ now + d < MaxTime
         /\ worker' = [worker EXCEPT ![w].pc = "disable", ![w].until = now + d]
    /\ UNCHANGED <<now, enabled, health, breaker, overtaken, admin, restarts>>

\* The calls of ManualEnable that are past the route rows.
Enabling == {a \in HealthAdmins : admin[a].pc \in {"resetCircuits", "enable"}}

DisableRow(w) ==
    /\ WorkerAt(w, "disable")
    /\ \/ /\ health' = [health EXCEPT ![RouteOf[w]] = AutoDisableUntil(@, worker[w].until)]
          /\ overtaken' = Enabling
       \/ StoreFails /\ UNCHANGED <<health, overtaken>>
    /\ HealthStep(w, "idle")
    /\ UNCHANGED <<now, enabled, breaker, admin, bounds>>

WorkerStep(w) ==
    \/ RecoverIfExpired(w) \/ AtomicRecoverIfExpired(w) \/ RecoveredReset(w)
    \/ RecoverRoute(w) \/ IsAvailable(w)
    \/ MarkSuccess(w) \/ SuccessRow(w) \/ SuccessReset(w)
    \/ MarkFailureFails(w) \/ FailureRecorded(w) \/ DisableRow(w)
    \/ NoVerdict(w)

\* What the upstream's answer brings on.
Outcome(w) == MarkFailure(w) \/ SuspendUntil(w)

----------------------------------------------------------------------------
(* The administrator's calls.                                                *)

IdleAdmin == [pc |-> "idle", op |-> "reset", enabled |-> FALSE, todo |-> {}]

AdminAt(a, place) == admin[a].pc = place

HealthAdminStep(a, place) ==
    admin' = [admin EXCEPT ![a] = [IdleAdmin EXCEPT !.pc = place]]

AdminFrame == UNCHANGED <<now, worker, bounds>>

\* The handlers read the provider first. An update carries the flag it read
\* unless the request sets one, so "update" stands for the former case.
HealthAdminBegin(a) ==
    /\ AdminAt(a, "idle")
    /\ \E op \in Operations :
         LET wanted == IF op = "update" THEN enabled ELSE op = "enable" IN
         admin' = [admin EXCEPT ![a] =
            [IdleAdmin EXCEPT !.pc = IF op = "reset" THEN "resetRoutes" ELSE "store",
                              !.op = op, !.enabled = wanted]]
    /\ UNCHANGED <<enabled, health, breaker, overtaken>> /\ AdminFrame

\* The provider row is written whole, with the flag decided when it was read;
\* an update that did not change the flag leaves the health row alone.
StoreProvider(a) ==
    /\ AdminAt(a, "store")
    /\ enabled' = admin[a].enabled
    /\ HealthAdminStep(a, IF admin[a].op = "update" THEN "idle"
                    ELSE IF admin[a].enabled THEN "resetRoutes" ELSE "disable")
    /\ UNCHANGED <<health, breaker, overtaken>> /\ AdminFrame

\* ManualEnable of the provider: all route rows, every breaker, its own row.
ResetRouteAvailability(a) ==
    /\ AdminAt(a, "resetRoutes")
    /\ health' = [s \in Scopes |-> IF s \in Routes THEN Healthy ELSE health[s]]
    /\ admin' = [admin EXCEPT ![a].pc = "resetCircuits", ![a].todo = Scopes]
    /\ UNCHANGED <<enabled, breaker, overtaken>> /\ AdminFrame

ResetCircuitBreaker(a) ==
    /\ AdminAt(a, "resetCircuits")
    /\ \E s \in admin[a].todo :
         /\ Reset(s)
         /\ admin' = [admin EXCEPT ![a].todo = @ \ {s},
                ![a].pc = IF admin[a].todo = {s} THEN "enable" ELSE @]
    /\ UNCHANGED <<enabled, health, overtaken>> /\ AdminFrame

ManualEnable(a) ==
    /\ AdminAt(a, "enable")
    /\ Reset(Root)
    /\ health' = [health EXCEPT ![Root] = Healthy]
    /\ overtaken' = overtaken \ {a}
    /\ HealthAdminStep(a, "idle")
    /\ UNCHANGED enabled /\ AdminFrame

ManualDisable(a) ==
    /\ AdminAt(a, "disable")
    /\ health' = [health EXCEPT ![Root] = ManuallyDisabled]
    /\ overtaken' = Enabling
    /\ HealthAdminStep(a, "idle")
    /\ UNCHANGED <<enabled, breaker>> /\ AdminFrame

\* A statement fails: the handler answers with an error or logs it.
AdminFails(a) ==
    /\ StoreFails
    /\ admin[a].pc \in {"store", "resetRoutes", "enable", "disable"}
    /\ overtaken' = overtaken \ {a}
    /\ HealthAdminStep(a, "idle")
    /\ UNCHANGED <<enabled, health, breaker>> /\ AdminFrame

AdminCall(a) ==
    \/ HealthAdminBegin(a) \/ StoreProvider(a) \/ ResetRouteAvailability(a)
    \/ ResetCircuitBreaker(a) \/ ManualEnable(a) \/ ManualDisable(a) \/ AdminFails(a)

----------------------------------------------------------------------------
HealthInit ==
    /\ now = 1
    /\ enabled = TRUE
    /\ health = [s \in Scopes |-> Healthy]
    /\ circuit = [s \in Scopes |-> NoFailures]
    /\ failed = circuit
    /\ overtaken = {}
    /\ worker = [w \in Workers |-> IdleWorker]
    /\ admin = [a \in HealthAdmins |-> IdleAdmin]
    /\ failures = 0
    /\ restarts = 0

Tick ==
    /\ now < MaxTime
    /\ now' = now + 1
    /\ UNCHANGED <<enabled, health, breaker, overtaken, worker, admin, bounds>>

\* The process stops anywhere and starts again: the rows are all that is left.
Restart ==
    /\ restarts < MaxRestarts
    /\ restarts' = restarts + 1
    /\ circuit' = [s \in Scopes |-> NoFailures]
    /\ failed' = circuit'
    /\ overtaken' = {}
    /\ worker' = [w \in Workers |-> IdleWorker]
    /\ admin' = [a \in HealthAdmins |-> IdleAdmin]
    /\ UNCHANGED <<now, enabled, health, failures>>

HealthNext ==
    \/ Tick \/ Cleanup \/ Restart
    \/ \E w \in Workers : WorkerStep(w) \/ Outcome(w)
    \/ \E a \in HealthAdmins : AdminCall(a)

HealthSpec == HealthInit /\ [][HealthNext]_healthVars

\* Time passes, and each route keeps being considered by requests that end.
HealthFairness ==
    WF_healthVars(Tick) /\ \A w \in Workers : WF_healthVars(WorkerStep(w))

HealthFairSpec == HealthSpec /\ HealthFairness

----------------------------------------------------------------------------
RowType ==
    [available : BOOLEAN, until : Times, reason : {"none", "auto", "manual"}]

WorkerType ==
    [pc : {"idle", "recover", "recovered", "recoverRoute", "isAvailable",
           "isAvailableRoute", "sent", "success", "close", "failure", "disable"},
     at : Scopes, clock : Times, until : Times]

AdminType ==
    [pc : {"idle", "store", "resetRoutes", "resetCircuits", "enable", "disable"},
     op : AllOperations, enabled : BOOLEAN, todo : SUBSET Scopes]

\* The type of the state; in particular every deadline a call computes is a
\* time on the clock (Manager, CircuitBreaker, model.HealthState).
HealthTypeOK ==
    /\ now \in Times \ {0}
    /\ enabled \in BOOLEAN
    /\ health \in [Scopes -> RowType]
    /\ circuit \in [Scopes -> [Times -> Nat]]
    /\ failed \in [Scopes -> [Times -> Nat]]
    /\ overtaken \subseteq HealthAdmins
    /\ worker \in [Workers -> WorkerType]
    /\ admin \in [HealthAdmins -> AdminType]
    /\ failures \in 0 .. MaxFailures
    /\ restarts \in 0 .. MaxRestarts

\* No row is down for good by itself: it is down because an administrator
\* said so or until a time that is known, and only the provider-wide row is
\* ever an administrator's (AutoDisableUntil, IncrementSuccessCount,
\* AtomicRecoverIfExpired and ManualDisable in any order).
NoRowStuck ==
    \A s \in Scopes :
        /\ ~health[s].available => health[s].reason = "manual" \/ health[s].until # NoTime
        /\ health[s].reason = "manual" => s = Root

\* What keeps those true: a call's clock is in the past, a deadline that is
\* about to be written is a real one, and the provider-wide row is disabled by
\* administrators only, because every report goes to a route's manager.
ClocksPast == \A w \in Workers : worker[w].clock <= now

DeadlinesSound ==
    \A w \in Workers :
        /\ WorkerAt(w, "failure") => worker[w].clock + Disable < MaxTime
        /\ WorkerAt(w, "disable") => worker[w].until # NoTime

RootByHand ==
    /\ health[Root].reason # "auto"
    /\ health[Root].reason = "manual" => health[Root] = ManuallyDisabled

HealthInv == HealthTypeOK /\ ClocksPast /\ DeadlinesSound /\ RootByHand /\ NoRowStuck

\* The breaker counts every failure of the window it is asked about:
\* "Returns true if the failure count in the window has reached the
\* threshold" (circuit.go, RecordFailure against Reset and Cleanup).
WindowCounted ==
    \A s \in Scopes : \A t \in Times :
        t > now - Window => circuit[s][t] = failed[s][t]

\* A row in its cooldown stays down and its deadline is not brought forward,
\* whatever requests that started before or after the cooldown report; only
\* an administrator ends it early (IncrementSuccessCount, AutoDisableUntil
\* and AtomicRecoverIfExpired with a clock read earlier).
Cooling(s) == ~health[s].available /\ health[s].reason = "auto" /\ health[s].until > now

CooldownServed ==
    [][\A s \in Scopes :
         Cooling(s) =>
            \/ ~health'[s].available /\ health'[s].until >= health[s].until
            \/ \E a \in HealthAdmins : \/ ResetRouteAvailability(a)
                                 \/ ManualEnable(a)]_healthVars

\* What an administrator disabled, no report and no recovery brings back
\* (every statement's manual clause).
ManualDisableSticks ==
    [][health[Root].reason = "manual" =>
         health'[Root] = health[Root] \/ \E a \in HealthAdmins : ManualEnable(a)]_healthVars

\* The routes an enable has reset stay available until a disable overtakes it.
RoutesRestored ==
    \A a \in Enabling \ overtaken : \A r \in Routes : health[r].available

\* "Provider-wide manual enable must restore all routes": when it finishes
\* and no report disabled a route since it began, every scope is available
\* (ManualEnable, ResetRouteAvailability).
EnableRestoresRoutes ==
    [][\A a \in HealthAdmins :
         (a \notin overtaken /\ ManualEnable(a)) =>
            \A s \in Scopes : health'[s].available]_healthVars

\* A route that requests keep asking for comes back: nothing the manager
\* does leaves it down for ever (RecoverIfExpired).
RouteRecovers ==
    \A r \in Routes : ~health[r].available ~> health[r].available
============================================================================

---------------------------- MODULE CaptureExport ----------------------------
(* Exports of a debug capture (internal/requestcapture/export*.go): a worker  *)
(* freezes a snapshot of the active session and publishes it in a registry;   *)
(* a capability then claims it for one download attempt at a time until an    *)
(* expiry timer, a stop of the session or a fault releases it.                *)
(* Three parties race for one export: the worker or download that uses it,    *)
(* the timer callback, and the stop. expiryOwner says a callback or a         *)
(* materializer still holds the arm; whoever else wants to release leaves     *)
(* releasePending behind for it.                                              *)
(* One action is one critical section of exportMu or of the session account.  *)
EXTENDS Integers, FiniteSets, FiniteSetsExt

CONSTANTS
    Exports,          \* export states, each created at most once
    Attempts,         \* download requests
    Quota,            \* units the session account may hold
    MaxPending,       \* maxPendingExports
    MaxDownloads,     \* maxActiveDownloads
    Capacity,         \* slots of the export registry
    MaxEpoch,         \* the largest expiryEpoch (MaxUint64 in the code)
    ConcurrentClose   \* whether a second goroutine may close a handle in use

ASSUME ExportBounds ==
    /\ {Quota, MaxPending, MaxDownloads, Capacity, MaxEpoch} \subseteq Nat
    /\ ConcurrentClose \in BOOLEAN

VARIABLES
    session,   \* the captured session, its account and its stop
    slots,     \* [reserved, claims, downloads, arena]: counters under exportMu
    export,    \* exportState
    creator,   \* the worker running createExport
    arm,       \* materializeExportExpiryTimer in progress
    timer,     \* timers made by the scheduler, by expiry epoch
    attempt    \* acceptDownload, the handle and its stream

exportVars == <<session, slots, export, creator, arm, timer, attempt>>

RootOf == 1
Base == 1
Selection == 1
Acquisition == 1
Lease == Base + Selection + Acquisition
Workspace == 1
SnapshotCharge == 1
Epochs == 1..MaxEpoch

NoExport == [phase |-> "none", reg |-> FALSE, owner |-> FALSE, epoch |-> 0,
             triggered |-> FALSE, timer |-> 0, releasePending |-> FALSE,
             canceled |-> FALSE, attached |-> FALSE, lease |-> 0,
             selection |-> 0, acquisition |-> 0, snapshot |-> 0, temporary |-> 0,
             claim |-> FALSE, download |-> FALSE, held |-> FALSE, due |-> FALSE,
             by |-> "none", release |-> "none"]
NoArm == [step |-> "idle", epoch |-> 0, by |-> "nobody", triggered |-> FALSE]
NoAttempt == [step |-> "idle", e |-> "none", stop |-> 0, charge |-> 0, closing |-> FALSE]
NoWorker == [step |-> "idle", admitted |-> FALSE]

ExportInit ==
    /\ session = [active |-> TRUE, accepting |-> TRUE, retainable |-> TRUE,
                  owners |-> 1, charged |-> RootOf, temporary |-> 0, pinned |-> 0,
                  stop |-> "none", stopping |-> {}, stopTimer |-> <<>>]
    /\ slots = [reserved |-> 0, claims |-> 0, downloads |-> 0, arena |-> FALSE]
    /\ export = [e \in Exports |-> NoExport]
    /\ creator = [e \in Exports |-> NoWorker]
    /\ arm = [e \in Exports |-> NoArm]
    /\ timer = [e \in Exports |-> [n \in Epochs |-> "none"]]
    /\ attempt = [a \in Attempts |-> NoAttempt]

-----------------------------------------------------------------------------
(* The session account and the registry.                                      *)

Reserved(s, n) == [s EXCEPT !.charged = @ + n, !.temporary = @ + n]
RolledBack(s, n) == [s EXCEPT !.charged = @ - n, !.temporary = @ - n]
Pinned(s, n) == [s EXCEPT !.charged = @ + n, !.pinned = @ + n]
Unpinned(s, n) == [s EXCEPT !.charged = @ - n, !.pinned = @ - n]

\* A part of the lease goes back to where the lease is accounted.
LeaseRefunded(s, x, n) == IF x.attached THEN Unpinned(s, n) ELSE RolledBack(s, n)

Chargeable(n) == session.active /\ session.accepting /\ n <= Quota - session.charged

\* releaseOwnerLocked: the last owner only leaves an account that holds the root.
OwnerReleased(s) ==
    IF s.owners > 1 THEN [s EXCEPT !.owners = @ - 1]
    ELSE IF s.charged = RootOf /\ s.temporary = 0 THEN [s EXCEPT !.owners = 0, !.charged = 0]
    ELSE s

Retainable == session.retainable /\ session.owners > 0

\* Publishes x as the state of e. An emptied registry gives its arena back.
Becomes(e, x, s) ==
    /\ export' = [export EXCEPT ![e] = x]
    /\ slots' = [s EXCEPT !.arena = @ /\ (s.reserved > 0 \/ x.reg \/ \E o \in Exports \ {e} : export[o].reg)]

PendingExports ==
    Cardinality({e \in Exports : export[e].reg
                  /\ export[e].phase \in {"acquiring", "pending", "scheduling", "claiming"}})

Canceled(x) == [x EXCEPT !.canceled = TRUE]
\* Removal from the registry, unless a callback still needs the tombstone.
Removed(x) == [x EXCEPT !.reg = @ /\ x.owner]
AttemptEnded(x) == [Removed(Canceled(x)) EXCEPT !.phase = "released"]

\* release: deferred to the expiry owner if there is one, else once.
SnapshotReleased(x) ==
    IF x.owner THEN [x EXCEPT !.releasePending = TRUE]
    ELSE IF x.release = "none" THEN [x EXCEPT !.release = "due"] ELSE x

\* The expiry owner lets go and runs the release it finds pending.
Disowned(x) ==
    LET y == [x EXCEPT !.owner = FALSE, !.triggered = FALSE, !.releasePending = FALSE]
    IN  IF x.releasePending THEN SnapshotReleased(y) ELSE y

\* finishExpiryOwner
ExpiryFinished(x, n) ==
    IF ~x.owner \/ x.epoch # n THEN x
    ELSE LET y == [Disowned(x) EXCEPT !.timer = 0]
         IN  IF x.phase = "released" THEN [y EXCEPT !.reg = FALSE] ELSE y

\* failExportExpiryArm
ArmFailed(x, n) ==
    IF ~x.reg \/ ~x.owner \/ x.epoch # n THEN x
    ELSE SnapshotReleased(AttemptEnded(Disowned(x)))

\* A fresh arm of the expiry timer.
Scheduled(x) ==
    [x EXCEPT !.phase = "scheduling", !.epoch = @ + 1, !.owner = TRUE, !.triggered = FALSE]

ArmBegun(e, n, who) == arm' = [arm EXCEPT ![e] = [NoArm EXCEPT !.step = "making", !.epoch = n, !.by = who]]

-----------------------------------------------------------------------------
(* createExport                                                                *)

ExportStep(e, step) == creator' = [creator EXCEPT ![e].step = step]

ReserveExportSlot(e) ==
    /\ creator[e].step = "idle"
    /\ session.active /\ Retainable
    /\ PendingExports + slots.reserved < MaxPending
    /\ Cardinality({o \in Exports : export[o].reg}) + slots.reserved < Capacity
    /\ session' = [session EXCEPT !.owners = @ + 1]
    /\ slots' = [slots EXCEPT !.reserved = @ + 1, !.arena = TRUE]
    /\ ExportStep(e, "reserved")
    /\ UNCHANGED <<export, arm, timer, attempt>>

ReserveAcquisition(e) ==
    /\ creator[e].step = "reserved"
    /\ \/ /\ Chargeable(Lease)
          /\ session' = Reserved(session, Lease)
          /\ ExportStep(e, "charged")
          /\ UNCHANGED <<export, slots>>
       \/ /\ ~Chargeable(Lease)
          /\ Becomes(e, export[e], [slots EXCEPT !.reserved = @ - 1])
          /\ session' = OwnerReleased(session)
          /\ ExportStep(e, "gone")
    /\ UNCHANGED <<arm, timer, attempt>>

PublishAcquisition(e) ==
    /\ creator[e].step = "charged"
    /\ \/ /\ session.active
          /\ Becomes(e, [NoExport EXCEPT !.phase = "acquiring", !.reg = TRUE, !.held = TRUE,
                            !.lease = Lease, !.selection = Selection, !.acquisition = Acquisition],
                     [slots EXCEPT !.reserved = @ - 1])
          /\ ExportStep(e, "acquiring")
       \/ /\ ~session.active
          /\ Becomes(e, export[e], [slots EXCEPT !.reserved = @ - 1])
          /\ ExportStep(e, "unpublished")
    /\ UNCHANGED <<session, arm, timer, attempt>>

RollbackAcquisition(e) ==
    /\ creator[e].step = "unpublished"
    /\ session' = OwnerReleased(RolledBack(session, Lease))
    /\ ExportStep(e, "gone")
    /\ UNCHANGED <<slots, export, arm, timer, attempt>>

\* The cancellation probe: the request's context may end at any moment.
Probed(e) == ~export[e].canceled

\* prepareExportCreation, selection and admission; one creator at a time.
Admit(e) ==
    /\ creator[e].step = "acquiring"
    /\ Probed(e) /\ Retainable
    /\ \A o \in Exports : ~creator[o].admitted
    /\ session' = [session EXCEPT !.owners = @ + 1]
    /\ creator' = [creator EXCEPT ![e] = [step |-> "admitted", admitted |-> TRUE]]
    /\ UNCHANGED <<slots, export, arm, timer, attempt>>

\* Entropy, identifier and clock faults, a canceled context or export.
GiveUp(e) ==
    /\ creator[e].step \in {"acquiring", "admitted"}
    /\ ExportStep(e, "abort")
    /\ UNCHANGED <<session, slots, export, arm, timer, attempt>>

\* attachLeaseLocked: from a temporary reservation to a pinned lease.
LeaseAttached(s, x) == [s EXCEPT !.temporary = @ - x.lease, !.pinned = @ + x.lease]

\* The frozen source and the copied snapshot are each charged as a whole.
SnapshotFits == SnapshotCharge <= Quota - session.charged

\* freezeExportCreationSnapshot up to the frozen source, which is charged too.
Freeze(e) ==
    LET x == export[e]
        selected == Unpinned(LeaseAttached(session, x), x.selection)
    IN  /\ creator[e].step = "admitted"
        /\ Probed(e) /\ session.active /\ session.accepting
        /\ export' = [export EXCEPT ![e].attached = TRUE, ![e].lease = @ - x.selection,
                                    ![e].selection = 0]
        /\ \/ /\ SnapshotFits
              /\ session' = Pinned(selected, SnapshotCharge)
              /\ ExportStep(e, "frozen")
           \/ session' = selected /\ ExportStep(e, "abort")
        /\ UNCHANGED <<slots, arm, timer, attempt>>

\* acquireExportSnapshot: the copy is charged before the source is released.
AcquireSnapshot(e) ==
    /\ creator[e].step = "frozen"
    /\ \/ /\ Probed(e) /\ SnapshotFits /\ session.accepting
          /\ session' = Pinned(session, SnapshotCharge)
          /\ ExportStep(e, "copying")
       \/ /\ session' = Unpinned(session, SnapshotCharge)
          /\ ExportStep(e, "abort")
    /\ UNCHANGED <<slots, export, arm, timer, attempt>>

FinishSnapshot(e) ==
    /\ creator[e].step = "copying"
    /\ \/ /\ session' = Unpinned(session, SnapshotCharge)
          /\ ExportStep(e, "snapshotted")
       \/ /\ session' = Unpinned(session, 2 * SnapshotCharge)
          /\ ExportStep(e, "abort")
    /\ UNCHANGED <<slots, export, arm, timer, attempt>>

Acquirable(e) == session.active /\ export[e].reg /\ export[e].phase = "acquiring" /\ ~export[e].canceled

PublishSnapshot(e) ==
    /\ creator[e].step = "snapshotted"
    /\ \/ /\ Acquirable(e)
          /\ Becomes(e, [export[e] EXCEPT !.snapshot = SnapshotCharge], slots)
          /\ ExportStep(e, "published")
       \/ /\ Becomes(e, AttemptEnded(export[e]), slots)
          /\ ExportStep(e, "unsnapshot")
    /\ UNCHANGED <<session, arm, timer, attempt>>

DropSnapshot(e) ==
    /\ creator[e].step = "unsnapshot"
    /\ session' = Unpinned(session, SnapshotCharge)
    /\ ExportStep(e, "abort")
    /\ UNCHANGED <<slots, export, arm, timer, attempt>>

ReleaseAcquisition(e) ==
    /\ creator[e].step = "published"
    /\ session' = LeaseRefunded(session, export[e], export[e].acquisition)
    /\ export' = [export EXCEPT ![e].lease = @ - export[e].acquisition, ![e].acquisition = 0]
    /\ ExportStep(e, "settled")
    /\ UNCHANGED <<slots, arm, timer, attempt>>

CompleteAcquisition(e) ==
    /\ creator[e].step = "settled"
    /\ \/ /\ Acquirable(e)
          /\ Becomes(e, [export[e] EXCEPT !.phase = "pending"], slots)
          /\ ExportStep(e, "complete")
       \/ /\ ~Acquirable(e)
          /\ Becomes(e, AttemptEnded(export[e]), slots)
          /\ ExportStep(e, "abort")
    /\ UNCHANGED <<session, arm, timer, attempt>>

\* scheduleExportExpiry: the state it leaves behind, and whether it arms.
Armable(x) == x.reg /\ ~x.owner /\ x.phase = "pending" /\ x.epoch < MaxEpoch
ScheduledOr(x) ==
    IF ~x.reg \/ x.owner THEN x
    ELSE IF Armable(x) THEN Scheduled(x) ELSE SnapshotReleased(AttemptEnded(x))

ScheduleExpiry(e) ==
    /\ creator[e].step = "complete"
    /\ Becomes(e, ScheduledOr(export[e]), slots)
    /\ IF Armable(export[e])
         THEN ArmBegun(e, export[e].epoch + 1, "creator") /\ ExportStep(e, "arming")
         ELSE UNCHANGED arm /\ ExportStep(e, IF export[e].reg /\ export[e].owner THEN "leave" ELSE "abort")
    /\ UNCHANGED <<session, timer, attempt>>

\* abortExportAcquisition, after the selection went back.
Abort(e) ==
    LET x == [export[e] EXCEPT !.lease = @ - export[e].selection, !.selection = 0]
    IN  /\ creator[e].step = "abort"
        /\ session' = LeaseRefunded(session, export[e], export[e].selection)
        /\ Becomes(e, SnapshotReleased(IF x.phase = "acquiring" THEN AttemptEnded(x) ELSE x), slots)
        /\ ExportStep(e, "leaving")
        /\ UNCHANGED <<arm, timer, attempt>>

\* exportAdmissionGuard.release
AdmissionReturned(e) == IF creator[e].admitted THEN OwnerReleased(session) ELSE session

\* createExport returns: the admission guard is given back last.
Leave(e) ==
    /\ creator[e].step \in {"leave", "leaving"}
    /\ export[e].release \notin {"due", "severed", "refunded"} \/ creator[e].step = "leave"
    /\ session' = AdmissionReturned(e)
    /\ creator' = [creator EXCEPT ![e] = [step |-> IF creator[e].step = "leave" THEN "ticket" ELSE "gone",
                                          admitted |-> FALSE]]
    /\ UNCHANGED <<slots, export, arm, timer, attempt>>

-----------------------------------------------------------------------------
(* The expiry timer                                                            *)

\* A materializer returns; a creator that waited for it goes on.
ArmReturns(e, failed) ==
    /\ arm' = [arm EXCEPT ![e] = NoArm]
    /\ creator' = IF arm[e].by = "creator"
                    THEN [creator EXCEPT ![e].step = IF failed THEN "abort" ELSE "leave"]
                    ELSE creator

MakeTimer(e) ==
    /\ arm[e].step = "making"
    /\ \/ /\ timer' = [timer EXCEPT ![e][arm[e].epoch] = "set"]
          /\ arm' = [arm EXCEPT ![e].step = "made"]
          /\ UNCHANGED <<slots, export, creator>>
       \/ /\ Becomes(e, ArmFailed(export[e], arm[e].epoch), slots)   \* scheduler_failed
          /\ ArmReturns(e, TRUE)
          /\ UNCHANGED timer
    /\ UNCHANGED <<session, attempt>>

Owns(e, n) == export[e].reg /\ export[e].owner /\ export[e].epoch = n

\* The second half of materializeExportExpiryTimer, under exportMu.
PublishTimer(e) ==
    LET n == arm[e].epoch
        x == export[e]
    IN  /\ arm[e].step = "made"
        /\ \/ /\ ~Owns(e, n)
              /\ timer' = [timer EXCEPT ![e][n] = IF @ = "set" THEN "none" ELSE @]
              /\ ArmReturns(e, TRUE)
              /\ UNCHANGED <<slots, export>>
           \/ /\ Owns(e, n) /\ x.phase = "released"
              /\ arm' = [arm EXCEPT ![e].step = "stopping", ![e].triggered = x.triggered]
              /\ UNCHANGED <<slots, export, timer, creator>>
           \/ /\ Owns(e, n) /\ x.phase = "scheduling" /\ x.triggered
              /\ Becomes(e, ArmFailed(x, n), slots)   \* resolveTriggeredExportExpiryLocked
              /\ ArmReturns(e, TRUE)
              /\ UNCHANGED timer
           \/ /\ Owns(e, n) /\ x.phase = "scheduling" /\ ~x.triggered
              /\ Becomes(e, [x EXCEPT !.timer = n, !.phase = "pending"], slots)
              /\ ArmReturns(e, FALSE)
              /\ UNCHANGED timer
        /\ UNCHANGED <<session, attempt>>

\* The export was released while its timer was made: who stops it owns it.
StopMadeTimer(e) ==
    LET n == arm[e].epoch
        stopped == timer[e][n] = "set"
    IN  /\ arm[e].step = "stopping"
        /\ timer' = [timer EXCEPT ![e][n] = IF stopped THEN "none" ELSE @]
        /\ Becomes(e, IF arm[e].triggered \/ stopped THEN ExpiryFinished(export[e], n) ELSE export[e],
                   slots)
        /\ ArmReturns(e, TRUE)
        /\ UNCHANGED <<session, attempt>>

\* The scheduler runs the callback; it may do so before the deadline.
Fire(e, n) ==
    /\ timer[e][n] = "set"
    /\ timer' = [timer EXCEPT ![e][n] = "fired"]
    /\ UNCHANGED <<session, slots, export, creator, arm, attempt>>

MutExpireExport(e, n) ==
    LET x == export[e]
    IN  /\ timer[e][n] = "fired"
        /\ timer' = [timer EXCEPT ![e][n] = "none"]
        /\ UNCHANGED <<session, creator, attempt>>
        /\ \/ ~Owns(e, n) /\ UNCHANGED <<slots, export, arm>>
           \/ /\ Owns(e, n) /\ x.phase = "scheduling"
              /\ Becomes(e, [x EXCEPT !.triggered = TRUE], slots)
              /\ UNCHANGED arm
           \/ /\ Owns(e, n) /\ x.phase # "scheduling"
              /\ Becomes(e, [Disowned([x EXCEPT !.timer = 0]) EXCEPT !.reg = @ /\ x.phase # "released"], slots)
              /\ UNCHANGED arm

\* expireExport: the callback of one epoch.
ExpireExport(e, n) ==
    LET x == [export[e] EXCEPT !.timer = 0]
    IN  /\ timer[e][n] = "fired"
        /\ timer' = [timer EXCEPT ![e][n] = "none"]
        /\ UNCHANGED <<session, creator, attempt>>
        /\ \/ /\ Owns(e, n) /\ x.phase = "scheduling"
              /\ Becomes(e, [export[e] EXCEPT !.triggered = TRUE], slots)
              /\ UNCHANGED arm
           \/ /\ Owns(e, n) /\ x.phase = "released"
              /\ Becomes(e, [Disowned(x) EXCEPT !.reg = FALSE], slots)
              /\ UNCHANGED arm
           \/ /\ Owns(e, n) /\ x.phase = "pending" /\ ~x.due /\ x.epoch < MaxEpoch
              /\ Becomes(e, Scheduled(x), slots)
              /\ ArmBegun(e, x.epoch + 1, "callback")
           \/ /\ Owns(e, n) /\ x.phase = "pending" /\ (x.due \/ x.epoch = MaxEpoch)
              /\ Becomes(e, SnapshotReleased([Disowned(x) EXCEPT !.reg = FALSE, !.phase = "released"]), slots)
              /\ UNCHANGED arm
           \/ /\ ~Owns(e, n) \/ x.phase \notin {"scheduling", "released", "pending"}
              /\ Becomes(e, IF Owns(e, n) THEN Disowned(x) ELSE export[e], slots)
              /\ UNCHANGED arm

-----------------------------------------------------------------------------
(* releaseNow, run once by whoever releases the export                         *)

Sever(e) ==
    /\ export[e].release = "due"
    /\ Becomes(e, [export[e] EXCEPT !.release = "severed", !.phase = "released", !.timer = 0,
                                    !.download = FALSE, !.by = "none"],
               [slots EXCEPT !.downloads = IF export[e].download THEN @ - 1 ELSE @])
    /\ UNCHANGED <<session, creator, arm, timer, attempt>>

MutRefund(e) ==
    LET x == export[e]
    IN  /\ x.release = "severed"
        /\ session' = LeaseRefunded(Unpinned(session, x.snapshot), x, x.lease)
        /\ export' = [export EXCEPT ![e] = [x EXCEPT !.release = "refunded", !.snapshot = 0,
                        !.temporary = 0, !.lease = 0, !.selection = 0, !.acquisition = 0,
                        !.attached = FALSE]]
        /\ UNCHANGED <<slots, creator, arm, timer, attempt>>

Refund(e) ==
    LET x == export[e]
        unsnapped == Unpinned(session, x.snapshot)
    IN  /\ x.release = "severed"
        /\ session' = LeaseRefunded(RolledBack(unsnapped, x.temporary), x, x.lease)
        /\ export' = [export EXCEPT ![e] = [x EXCEPT !.release = "refunded", !.snapshot = 0,
                        !.temporary = 0, !.lease = 0, !.selection = 0, !.acquisition = 0,
                        !.attached = FALSE]]
        /\ UNCHANGED <<slots, creator, arm, timer, attempt>>

DropOwner(e) ==
    /\ export[e].release = "refunded"
    /\ session' = OwnerReleased(session)
    /\ export' = [export EXCEPT ![e].release = "done", ![e].held = FALSE]
    /\ UNCHANGED <<slots, creator, arm, timer, attempt>>

-----------------------------------------------------------------------------
(* Downloads                                                                   *)

\* claimPendingDownload; the capability is known once createExport returned it.
ClaimPending(a, e) ==
    LET x == [export[e] EXCEPT !.timer = 0]
        claimed == [NoAttempt EXCEPT !.step = "claiming", !.e = e, !.stop = export[e].timer]
    IN  /\ attempt[a].step = "idle" /\ creator[e].step = "ticket"
        /\ x.reg /\ x.phase = "pending"
        /\ \/ /\ x.due \/ ~session.active
              /\ Becomes(e, SnapshotReleased(AttemptEnded(x)), slots)
              /\ attempt' = [attempt EXCEPT ![a] = [claimed EXCEPT !.step = "refused"]]
           \/ /\ ~x.due /\ session.active
              /\ slots.downloads + slots.claims < MaxDownloads
              /\ Becomes(e, [x EXCEPT !.phase = "claiming", !.claim = TRUE],
                         [slots EXCEPT !.claims = @ + 1])
              /\ attempt' = [attempt EXCEPT ![a] = claimed]
        /\ UNCHANGED <<session, creator, arm, timer>>

\* stopExportExpiryTimer: a stopped timer is owned, a running callback is not.
Stopped(e, n) ==
    IF n # 0 /\ timer[e][n] = "set"
      THEN /\ timer' = [timer EXCEPT ![e][n] = "none"]
           /\ Becomes(e, ExpiryFinished(export[e], n), slots)
      ELSE UNCHANGED <<timer, export, slots>>

StopTimerOf(a) ==
    /\ attempt[a].step \in {"claiming", "refused"}
    /\ Stopped(attempt[a].e, attempt[a].stop)
    /\ attempt' = [attempt EXCEPT ![a] = IF @.step = "refused" THEN NoAttempt
                                         ELSE [@ EXCEPT !.step = "stopped", !.stop = 0]]
    /\ UNCHANGED <<session, creator, arm>>

\* A claim nobody took away meanwhile goes back to waiting for a download.
ClaimKept(x) == x.reg /\ x.phase = "claiming" /\ ~x.canceled

\* rollbackDownloadClaimReservation
ClaimRolledBack(x) ==
    LET y == [x EXCEPT !.claim = FALSE]
    IN  IF ClaimKept(x) THEN [y EXCEPT !.phase = "pending"] ELSE SnapshotReleased(y)

\* reserveDownloadWorkspace
ReserveWorkspace(a) ==
    LET e == attempt[a].e
    IN  /\ attempt[a].step = "stopped"
        /\ \/ /\ Chargeable(Workspace)
              /\ session' = Reserved(session, Workspace)
              /\ attempt' = [attempt EXCEPT ![a].step = "workspace", ![a].charge = Workspace]
              /\ UNCHANGED <<slots, export>>
           \/ /\ ~Chargeable(Workspace)
              /\ Becomes(e, ClaimRolledBack(export[e]), [slots EXCEPT !.claims = @ - 1])
              /\ attempt' = [attempt EXCEPT ![a] = IF ClaimKept(export[e])
                                THEN [@ EXCEPT !.step = "rearm"] ELSE NoAttempt]
              /\ UNCHANGED session
        /\ UNCHANGED <<creator, arm, timer>>

RearmExpiry(a) ==
    LET e == attempt[a].e
    IN  /\ attempt[a].step = "rearm"
        /\ Becomes(e, ScheduledOr(export[e]), slots)
        /\ IF Armable(export[e]) THEN ArmBegun(e, export[e].epoch + 1, "attempt") ELSE UNCHANGED arm
        /\ attempt' = [attempt EXCEPT ![a] = NoAttempt]
        /\ UNCHANGED <<session, creator, timer>>

\* publishDownloadClaimLocked: the deadline and the session are checked again.
PublishClaim(a) ==
    LET e == attempt[a].e
        x == [export[e] EXCEPT !.claim = FALSE]
        consumed == [slots EXCEPT !.claims = @ - 1]
        lost == ~ClaimKept(x)
    IN  /\ attempt[a].step = "workspace"
        /\ \/ /\ lost \/ x.due \/ ~session.active
              /\ session' = RolledBack(session, Workspace)
              /\ Becomes(e, SnapshotReleased(IF lost THEN x ELSE AttemptEnded(x)), consumed)
              /\ attempt' = [attempt EXCEPT ![a] = NoAttempt]
           \/ /\ ~lost /\ ~x.due /\ session.active
              /\ Becomes(e, [x EXCEPT !.phase = "claimed", !.download = TRUE, !.by = a,
                                      !.temporary = Workspace, !.timer = 0],
                         [consumed EXCEPT !.downloads = @ + 1])
              /\ attempt' = [attempt EXCEPT ![a].step = "handle", ![a].charge = 0]
              /\ UNCHANGED session
        /\ UNCHANGED <<creator, arm, timer>>

Handled(a) == export[attempt[a].e].reg /\ export[attempt[a].e].download /\ export[attempt[a].e].by = a

\* beginDownloadStream
BeginStream(a) ==
    LET e == attempt[a].e
    IN  /\ attempt[a].step = "handle" /\ Handled(a) /\ export[e].phase = "claimed"
        /\ ConcurrentClose \/ ~attempt[a].closing
        /\ \/ /\ export[e].canceled
              /\ Becomes(e, SnapshotReleased([Removed(export[e]) EXCEPT !.phase = "released"]), slots)
              /\ attempt' = [attempt EXCEPT ![a] = [NoAttempt EXCEPT !.closing = attempt[a].closing, !.e = e]]
           \/ /\ ~export[e].canceled
              /\ Becomes(e, [export[e] EXCEPT !.phase = "streaming"], slots)
              /\ attempt' = [attempt EXCEPT ![a].step = "streaming"]
        /\ UNCHANGED <<session, creator, arm, timer>>

\* finishDownload, its first critical section.
Finished(a, expected, after) ==
    LET e == attempt[a].e
        x == export[e]
        normal == Handled(a) /\ x.phase = expected
        detached == x.phase = "released" /\ x.canceled /\ (~x.reg \/ x.owner)
    IN  IF normal
          THEN /\ Becomes(e, [x EXCEPT !.phase = "requeueing", !.temporary = 0, !.download = FALSE,
                                       !.by = "none"],
                          [slots EXCEPT !.downloads = @ - 1])
               /\ attempt' = [attempt EXCEPT ![a] = [after EXCEPT !.step = "settling", !.e = e,
                                                                  !.charge = Workspace]]
          ELSE /\ Becomes(e, SnapshotReleased(IF detached THEN x ELSE AttemptEnded(x)), slots)
               /\ attempt' = [attempt EXCEPT ![a] = after]

\* WriteTo ended.
FinishDownload(a) ==
    /\ attempt[a].step = "streaming"
    /\ Finished(a, "streaming", [NoAttempt EXCEPT !.closing = attempt[a].closing, !.e = attempt[a].e])
    /\ UNCHANGED <<session, creator, arm, timer>>

\* Close looks at the phase and finishes in a second critical section. The
\* download handler closes a handle only when it does not stream it any more;
\* with ConcurrentClose another goroutine streams it meanwhile.
CloseHandle(a) ==
    LET e == attempt[a].e
        streaming == export[e].phase = "streaming"
    IN  /\ attempt[a].step \in {"handle"} \cup (IF ConcurrentClose THEN {"streaming"} ELSE {})
        /\ Handled(a) /\ ~attempt[a].closing
        /\ attempt' = [attempt EXCEPT ![a].closing = ~streaming]
        /\ export' = [export EXCEPT ![e] = IF streaming THEN Canceled(@) ELSE @]
        /\ UNCHANGED <<session, slots, creator, arm, timer>>

FinishClosed(a) ==
    /\ attempt[a].closing
    /\ Finished(a, "claimed", [attempt[a] EXCEPT !.closing = FALSE,
                               !.step = IF @ = "handle" THEN "idle" ELSE @])
    /\ UNCHANGED <<session, creator, arm, timer>>

\* The workspace goes back and the export waits for the next attempt, or ends.
SettleDownload(a) ==
    LET e == attempt[a].e
        x == export[e]
        retry == /\ x.reg /\ x.phase = "requeueing" /\ ~x.canceled
                 /\ ~x.due /\ session.active /\ x.epoch < MaxEpoch
    IN  /\ attempt[a].step = "settling"
        /\ session' = RolledBack(session, Workspace)
        /\ attempt' = [attempt EXCEPT ![a] = [NoAttempt EXCEPT !.closing = attempt[a].closing,
                                                !.e = IF attempt[a].closing THEN e ELSE "none"]]
        /\ \/ /\ retry /\ x.owner
              /\ Becomes(e, [x EXCEPT !.phase = "pending"], slots)
              /\ UNCHANGED arm
           \/ /\ retry /\ ~x.owner
              /\ Becomes(e, Scheduled(x), slots)
              /\ ArmBegun(e, x.epoch + 1, "attempt")
           \/ /\ ~retry
              /\ Becomes(e, SnapshotReleased(AttemptEnded(x)), slots)
              /\ UNCHANGED arm
        /\ UNCHANGED <<creator, timer>>

-----------------------------------------------------------------------------
(* Stopping the session                                                        *)

StopSession ==
    /\ session.stop = "none"
    /\ session' = [session EXCEPT !.active = FALSE, !.stop = "canceling", !.stopping = Exports]
    /\ UNCHANGED <<slots, export, creator, arm, timer, attempt>>

\* detachExportAt: who releases depends on the phase the stop meets.
DetachedExport(x) ==
    CASE ~x.reg -> x
      [] x.phase = "acquiring" -> [Canceled(x) EXCEPT !.reg = FALSE, !.phase = "released"]
      [] x.phase = "pending" -> SnapshotReleased([AttemptEnded(x) EXCEPT !.timer = 0])
      [] x.phase = "scheduling" -> SnapshotReleased([Canceled(x) EXCEPT !.phase = "released"])
      [] x.phase = "claiming" -> [AttemptEnded(x) EXCEPT !.timer = 0]
      [] x.phase \in {"claimed", "streaming", "requeueing"} -> Canceled(x)
      [] OTHER -> x

DetachExport(e) ==
    /\ session.stop = "canceling" /\ e \in session.stopping /\ session.stopTimer = <<>>
    /\ Becomes(e, DetachedExport(export[e]), slots)
    /\ session' = [session EXCEPT !.stopping = @ \ {e},
                      !.stopTimer = IF export[e].reg /\ export[e].phase \in {"pending", "claiming"}
                                         /\ export[e].timer # 0
                                      THEN <<e, export[e].timer>> ELSE <<>>]
    /\ UNCHANGED <<creator, arm, timer, attempt>>

StopDetachedTimer ==
    /\ session.stopTimer # <<>>
    /\ Stopped(session.stopTimer[1], session.stopTimer[2])
    /\ session' = [session EXCEPT !.stopTimer = <<>>]
    /\ UNCHANGED <<creator, arm, attempt>>

\* sessionState.stop: nothing is accepted any more, the active owner leaves.
TearDown ==
    /\ session.stop = "canceling" /\ session.stopping = {} /\ session.stopTimer = <<>>
    /\ session' = OwnerReleased([session EXCEPT !.stop = "done", !.accepting = FALSE, !.retainable = FALSE])
    /\ UNCHANGED <<slots, export, creator, arm, timer, attempt>>

PassDeadline(e) ==
    /\ export[e].phase \notin {"none", "released"} /\ ~export[e].due
    /\ export' = [export EXCEPT ![e].due = TRUE]
    /\ UNCHANGED <<session, slots, creator, arm, timer, attempt>>

-----------------------------------------------------------------------------
Creating(e) ==
    \/ ReserveExportSlot(e) \/ ReserveAcquisition(e) \/ PublishAcquisition(e)
    \/ RollbackAcquisition(e) \/ Admit(e) \/ GiveUp(e) \/ Freeze(e) \/ AcquireSnapshot(e)
    \/ FinishSnapshot(e) \/ PublishSnapshot(e) \/ DropSnapshot(e) \/ ReleaseAcquisition(e)
    \/ CompleteAcquisition(e) \/ ScheduleExpiry(e) \/ Abort(e) \/ Leave(e)

Expiring(e) ==
    \/ MakeTimer(e) \/ PublishTimer(e) \/ StopMadeTimer(e)
    \/ \E n \in Epochs : ExpireExport(e, n)

Releasing(e) == Sever(e) \/ Refund(e) \/ DropOwner(e)

Downloading(a) ==
    \/ StopTimerOf(a) \/ ReserveWorkspace(a) \/ RearmExpiry(a) \/ PublishClaim(a)
    \/ BeginStream(a) \/ FinishDownload(a) \/ CloseHandle(a) \/ FinishClosed(a) \/ SettleDownload(a)

ExportNext ==
    \/ \E e \in Exports : Creating(e) \/ Expiring(e) \/ Releasing(e) \/ DetachExport(e) \/ PassDeadline(e)
    \/ \E e \in Exports, n \in Epochs : Fire(e, n)
    \/ \E a \in Attempts : Downloading(a) \/ \E e \in Exports : ClaimPending(a, e)
    \/ StopSession \/ StopDetachedTimer \/ TearDown

\* Goroutines that hold no lock run on, callbacks run once due, a stream ends
\* with its request; nobody has to create, claim or stop anything.
ExportFairness ==
    /\ \A e \in Exports :
         /\ WF_exportVars(Creating(e) /\ creator[e].step # "idle")
         /\ WF_exportVars(Expiring(e)) /\ WF_exportVars(Releasing(e))
         /\ WF_exportVars(PassDeadline(e))
         /\ WF_exportVars(export[e].due /\ \E n \in Epochs : Fire(e, n))
    /\ \A a \in Attempts : WF_exportVars(Downloading(a))
    /\ WF_exportVars(\E e \in Exports : DetachExport(e))
    /\ WF_exportVars(StopDetachedTimer) /\ WF_exportVars(TearDown)

ExportSpec == ExportInit /\ [][ExportNext]_exportVars
ExportFairSpec == ExportSpec /\ ExportFairness

-----------------------------------------------------------------------------
(* Properties                                                                  *)

\* What a creator holds in the account outside its export's own lease.
TemporaryOf(e) == IF creator[e].step \in {"charged", "unpublished"} THEN Lease ELSE 0
PinnedOf(e) == CASE creator[e].step = "copying" -> 2 * SnapshotCharge
                 [] creator[e].step \in {"frozen", "snapshotted", "unsnapshot"} -> SnapshotCharge
                 [] OTHER -> 0

\* Every unit in the session account belongs to one lease, snapshot, workspace
\* or worker, as temporary or as pinned, through every rollback and settlement.
AccountExact ==
    LET lease(e, attached) == IF export[e].attached = attached THEN export[e].lease ELSE 0
        temporary == MapThenSumSet(LAMBDA e : lease(e, FALSE) + export[e].temporary + TemporaryOf(e), Exports)
                       + MapThenSumSet(LAMBDA a : attempt[a].charge, Attempts)
        pinned == MapThenSumSet(LAMBDA e : lease(e, TRUE) + export[e].snapshot + PinnedOf(e), Exports)
    IN  /\ session.temporary = temporary
        /\ session.pinned = pinned
        /\ session.charged = temporary + pinned + (IF session.owners > 0 THEN RootOf ELSE 0)

\* The scalar counters of the registry count exactly the exports that own a
\* reservation or a download, no more downloads run than allowed, and the arena
\* is charged exactly while somebody may still use it.
SlotsExact ==
    /\ slots.reserved = Cardinality({e \in Exports : creator[e].step \in {"reserved", "charged"}})
    /\ slots.claims = Cardinality({e \in Exports : export[e].claim})
    /\ slots.downloads = Cardinality({e \in Exports : export[e].download})
    /\ slots.claims + slots.downloads <= MaxDownloads
    /\ slots.arena <=> slots.reserved > 0 \/ \E e \in Exports : export[e].reg

\* A stream never reads a snapshot that somebody else has begun to release.
StreamKeepsSnapshot ==
    \A a \in Attempts : attempt[a].step = "streaming" => export[attempt[a].e].release = "none"

\* Whatever interleaving of timer, download and stop: an export that still holds
\* the session has somebody left who will release it.
NothingStranded ==
    \A e \in Exports : export[e].held =>
        \/ creator[e].step \notin {"idle", "ticket", "gone"}
        \/ export[e].release \in {"due", "severed", "refunded"}
        \/ \E a \in Attempts : attempt[a].e = e /\ attempt[a].step \notin {"idle", "refused"}
        \/ /\ export[e].owner
           /\ arm[e].step # "idle" \/ timer[e][export[e].epoch] \in {"set", "fired"}

\* Every export is released in the end: expired, stopped, aborted or consumed.
ExportsReturn ==
    \A e \in Exports : export[e].held ~> ~export[e].held

\* An export's memory, slots and snapshot are each given back once and not before
\* the last stream that reads them ended (export.go, export_expiry.go,
\* export_download.go).
ExportsAccounted == AccountExact /\ SlotsExact /\ StreamKeepsSnapshot /\ NothingStranded
=============================================================================

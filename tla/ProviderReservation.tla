------------------------- MODULE ProviderReservation -------------------------
(***************************************************************************)
(* An alternate-provider reservation (internal/selector/reservation.go).   *)
(*                                                                         *)
(* ReserveAlternate hands out a slot lease and a reservation handle whose  *)
(* copies share one state.  PrepareActivation revalidates the provider     *)
(* under the read side of the lifecycle lock and, when it commits, KEEPS   *)
(* the read side as the reservation's guard, so that no durable mutation   *)
(* can slip between the prepared row and the dispatch.  Activate and       *)
(* Release give the guard back.  The status is an atomic that Activate     *)
(* moves without the limiter mutex; every other transition holds it.       *)
(*                                                                         *)
(* Callers are goroutines sharing the handle.  One action is one critical  *)
(* section of the limiter mutex, one atomic instruction, one store access  *)
(* or one operation of the lifecycle RWMutex.                              *)
(***************************************************************************)
EXTENDS Naturals

CONSTANTS
  Sharers,     \* goroutines using copies of the reservation
  Writers,     \* admin goroutines mutating the provider's row
  MaxRowWrites,   \* bound on the mutations begun
  Nobody       \* no guard, no announced writer

ASSUME RowWritesAssumption == MaxRowWrites \in Nat
ASSUME NobodyAssumption == Nobody \notin Sharers /\ Nobody \notin Writers

VARIABLES
  status,                     \* reservationReserved .. reservationReleased
  guard,                      \* the read lock retained by the reservation
  holding, queueing, announced,  \* the lifecycle RWMutex
  current,                    \* the lease's generation has not been retired
  slotReleases,               \* times the slot was given back
  leaseRow,                   \* the provider snapshot the lease carries
  stored,                     \* the durable provider row
  rowWrites,                     \* mutations begun
  sharerPc, readRow, result,            \* the callers' local state
  wpc, newRow                  \* the writers' local state

gateVars   == <<holding, queueing, announced>>
slotVars   == <<current, slotReleases, leaseRow>>
sharerVars == <<sharerPc, readRow, result>>
writerVars == <<wpc, newRow, rowWrites>>
reservationVars == <<status, guard, gateVars, slotVars, stored, sharerVars, writerVars>>

\* A row: `tag' stands for all that revalidation copies without inspecting it;
\* `enabled' for presence, the enabled flag and route support.
StoredRow == [tag: 0..MaxRowWrites, enabled: BOOLEAN]
InitialRow == [tag |-> 0, enabled |-> TRUE]

Statuses == {"reserved", "prepared", "activated", "released"}
ReservationPCs == {"idle", "read", "recheck", "commit", "stale", "rollback", "dropGuard"}
WriterPCs == {"idle", "enter", "announced", "writing", "unlock"}
Results == {"none", "prepared", "released", "rejected", "lease", "nil", "rolledBack"}

ReservationInit ==
  /\ status = "reserved" /\ guard = Nobody
  /\ holding = {} /\ queueing = {} /\ announced = Nobody
  /\ current = TRUE /\ slotReleases = 0 /\ leaseRow = InitialRow
  /\ stored = InitialRow /\ rowWrites = 0
  /\ sharerPc = [c \in Sharers |-> "idle"]
  /\ readRow = [c \in Sharers |-> InitialRow]
  /\ result = [c \in Sharers |-> "none"]
  /\ wpc = [w \in Writers |-> "idle"]
  /\ newRow = [w \in Writers |-> InitialRow]

isCurrent == current /\ slotReleases = 0

ReadLock(c) ==
  /\ IF announced = Nobody THEN holding' = holding \cup {c} /\ UNCHANGED queueing
                         ELSE queueing' = queueing \cup {c} /\ UNCHANGED holding
  /\ UNCHANGED announced

ReadUnlock(S) == holding' = holding \ S /\ UNCHANGED <<queueing, announced>>

GoTo(c, label) == sharerPc' = [sharerPc EXCEPT ![c] = label]

ReturnFrom(c, r) == sharerPc' = [sharerPc EXCEPT ![c] = "idle"] /\ result' = [result EXCEPT ![c] = r]

-----------------------------------------------------------------------------
(* PrepareActivation *)

PrepareDone(c) ==
  /\ sharerPc[c] = "idle" /\ status /= "reserved"
  /\ ReturnFrom(c, IF status = "released" THEN "released" ELSE "prepared")
  /\ UNCHANGED <<status, guard, gateVars, slotVars, stored, readRow, writerVars>>

PrepareBegin(c) ==
  /\ sharerPc[c] = "idle" /\ status = "reserved"
  /\ ReadLock(c)
  /\ GoTo(c, "read")
  /\ UNCHANGED <<status, guard, slotVars, stored, readRow, result, writerVars>>

\* revalidateProvider: current, load and validate the row, still current.  The
\* second disjunct is a row that is gone or disabled, or a failed read.
RevalidateStored(c) ==
  /\ sharerPc[c] = "read" /\ c \in holding
  /\ \/ isCurrent /\ stored.enabled /\ readRow' = [readRow EXCEPT ![c] = stored] /\ GoTo(c, "recheck")
     \/ UNCHANGED readRow /\ GoTo(c, "stale")
  /\ UNCHANGED <<status, guard, gateVars, slotVars, stored, result, writerVars>>

RevalidateAgain(c) ==
  /\ sharerPc[c] = "recheck"
  /\ GoTo(c, IF isCurrent THEN "commit" ELSE "stale")
  /\ UNCHANGED <<status, guard, gateVars, slotVars, stored, readRow, result, writerVars>>

\* The transition of prepareUnderLifecycle: publish the row, keep the read lock.
PrepareCommit(c) ==
  /\ sharerPc[c] = "commit" /\ isCurrent /\ status = "reserved"
  /\ status' = "prepared"
  /\ leaseRow' = readRow[c]
  /\ guard' = c
  /\ ReturnFrom(c, "prepared")
  /\ UNCHANGED <<gateVars, current, slotReleases, stored, readRow, writerVars>>

PrepareLost(c) ==
  /\ sharerPc[c] = "commit" /\ ~(isCurrent /\ status = "reserved")
  /\ GoTo(c, "stale")
  /\ UNCHANGED <<status, guard, gateVars, slotVars, stored, readRow, result, writerVars>>

MutStaleObserved(c) ==
  /\ sharerPc[c] = "stale" /\ status /= "reserved"
  /\ ReturnFrom(c, IF status = "released" THEN "released" ELSE "prepared")
  /\ UNCHANGED <<status, guard, gateVars, slotVars, stored, readRow, writerVars>>

\* A failed revalidation or commit looks at the status before it rolls back.
StaleObserved(c) ==
  /\ sharerPc[c] = "stale" /\ status /= "reserved"
  /\ ReturnFrom(c, IF status = "released" THEN "released" ELSE "prepared")
  /\ ReadUnlock({c})
  /\ UNCHANGED <<status, guard, slotVars, stored, readRow, writerVars>>

StaleRollback(c) ==
  /\ sharerPc[c] = "stale" /\ status = "reserved"
  /\ GoTo(c, "rollback")
  /\ UNCHANGED <<status, guard, gateVars, slotVars, stored, readRow, result, writerVars>>

-----------------------------------------------------------------------------
(* Release and Activate *)

\* releaseWithTransition: status and slot change in one critical section.
ReleaseTransition ==
  /\ status \notin {"activated", "released"}
  /\ status' = "released"
  /\ slotReleases' = IF slotReleases = 0 THEN 1 ELSE slotReleases

\* The rollback of a failed PrepareActivation is a Release like any other.
RollbackRelease(c) ==
  /\ sharerPc[c] = "rollback"
  /\ ReleaseTransition
  /\ GoTo(c, "dropGuard")
  /\ result' = [result EXCEPT ![c] = "rejected"]
  /\ UNCHANGED <<guard, gateVars, current, leaseRow, stored, readRow, writerVars>>

RollbackMoot(c) ==
  /\ sharerPc[c] = "rollback" /\ status \in {"activated", "released"}
  /\ ReturnFrom(c, "rejected")
  /\ ReadUnlock({c})
  /\ UNCHANGED <<status, guard, slotVars, stored, readRow, writerVars>>

ReleaseReservation(c) ==
  /\ sharerPc[c] = "idle"
  /\ ReleaseTransition
  /\ GoTo(c, "dropGuard")
  /\ result' = [result EXCEPT ![c] = "rolledBack"]
  /\ UNCHANGED <<guard, gateVars, current, leaseRow, stored, readRow, writerVars>>

MutActivateUnprepared(c) ==
  /\ sharerPc[c] = "idle" /\ status \in {"reserved", "prepared"}
  /\ status' = "activated"
  /\ GoTo(c, "dropGuard")
  /\ result' = [result EXCEPT ![c] = "lease"]
  /\ UNCHANGED <<guard, gateVars, slotVars, stored, readRow, writerVars>>

MutActivateKeepsGuard(c) ==
  /\ sharerPc[c] = "idle" /\ status = "prepared"
  /\ status' = "activated"
  /\ ReturnFrom(c, "lease")
  /\ UNCHANGED <<guard, gateVars, slotVars, stored, readRow, writerVars>>

\* The compare-and-swap that wins: the guard is given back in a later step.
Activate(c) ==
  /\ sharerPc[c] = "idle" /\ status = "prepared"
  /\ status' = "activated"
  /\ GoTo(c, "dropGuard")
  /\ result' = [result EXCEPT ![c] = "lease"]
  /\ UNCHANGED <<guard, gateVars, slotVars, stored, readRow, writerVars>>

ActivateAgain(c) ==
  /\ sharerPc[c] = "idle" /\ status /= "prepared"
  /\ ReturnFrom(c, IF status = "activated" THEN "lease" ELSE "nil")
  /\ UNCHANGED <<status, guard, gateVars, slotVars, stored, readRow, writerVars>>

\* releaseLifecycleGuard: swap the guard out and unlock it; a PrepareActivation
\* that rolled back also drops its own read lock on return.
releaseLifecycleGuard(c) ==
  /\ sharerPc[c] = "dropGuard"
  /\ guard' = Nobody
  /\ ReadUnlock({guard} \cup (IF result[c] = "rejected" THEN {c} ELSE {}))
  /\ GoTo(c, "idle")
  /\ UNCHANGED <<status, slotVars, stored, readRow, result, writerVars>>

\* Dispatch teardown releases the lease the activation transferred.
LeaseRelease(c) ==
  /\ sharerPc[c] = "idle" /\ result[c] = "lease" /\ slotReleases = 0
  /\ slotReleases' = 1
  /\ UNCHANGED <<status, guard, gateVars, current, leaseRow, stored, sharerVars, writerVars>>

-----------------------------------------------------------------------------
(* mutateWithRetiredGenerations *)

MutateBegin(w, enabled) ==
  /\ wpc[w] = "idle" /\ rowWrites < MaxRowWrites
  /\ rowWrites' = rowWrites + 1
  /\ newRow' = [newRow EXCEPT ![w] = [tag |-> rowWrites + 1, enabled |-> enabled]]
  /\ wpc' = [wpc EXCEPT ![w] = "enter"]
  /\ UNCHANGED <<status, guard, gateVars, slotVars, stored, sharerVars>>

WriterAnnounce(w) ==
  /\ wpc[w] = "enter" /\ announced = Nobody
  /\ announced' = w
  /\ wpc' = [wpc EXCEPT ![w] = "announced"]
  /\ UNCHANGED <<status, guard, holding, queueing, slotVars, stored, sharerVars, newRow, rowWrites>>

WriterRetire(w) ==
  /\ wpc[w] = "announced" /\ holding = {}
  /\ current' = FALSE
  /\ wpc' = [wpc EXCEPT ![w] = "writing"]
  /\ UNCHANGED <<status, guard, gateVars, slotReleases, leaseRow, stored, sharerVars, newRow,
                 rowWrites>>

WriterStore(w) ==
  /\ wpc[w] = "writing"
  /\ stored' \in {stored, newRow[w]}
  /\ wpc' = [wpc EXCEPT ![w] = "unlock"]
  /\ UNCHANGED <<status, guard, gateVars, slotVars, sharerVars, newRow, rowWrites>>

WriterUnlock(w) ==
  /\ wpc[w] = "unlock"
  /\ announced' = Nobody
  /\ holding' = holding \cup queueing /\ queueing' = {}
  /\ wpc' = [wpc EXCEPT ![w] = "idle"]
  /\ UNCHANGED <<status, guard, slotVars, stored, sharerVars, newRow, rowWrites>>

-----------------------------------------------------------------------------
\* The steps of an operation under way.
ReservationStep(c) ==
  \/ RevalidateStored(c) \/ RevalidateAgain(c)
  \/ PrepareCommit(c) \/ PrepareLost(c) \/ StaleObserved(c) \/ StaleRollback(c)
  \/ RollbackRelease(c) \/ RollbackMoot(c) \/ releaseLifecycleGuard(c)

SettleReservation(c) == status = "prepared" /\ (Activate(c) \/ ReleaseReservation(c))

CallerNext(c) ==
  \/ PrepareDone(c) \/ PrepareBegin(c) \/ ReservationStep(c)
  \/ Activate(c) \/ ActivateAgain(c) \/ ReleaseReservation(c) \/ LeaseRelease(c)

WriterStep(w) == WriterAnnounce(w) \/ WriterRetire(w) \/ WriterStore(w) \/ WriterUnlock(w)

ReservationNext ==
  \/ \E c \in Sharers : CallerNext(c)
  \/ \E w \in Writers : WriterStep(w) \/ \E e \in BOOLEAN : MutateBegin(w, e)

\* Unblocked goroutines run.  A prepared reservation is settled: activateAlternate
\* activates it or its deferred Release rolls it back.
ReservationFairness ==
  /\ \A c \in Sharers : WF_reservationVars(ReservationStep(c))
  /\ WF_reservationVars(\E c \in Sharers : SettleReservation(c))
  /\ \A w \in Writers : WF_reservationVars(WriterStep(w))

ReservationSpec == ReservationInit /\ [][ReservationNext]_reservationVars /\ ReservationFairness

-----------------------------------------------------------------------------
ReservationTypeOK ==
  /\ status \in Statuses /\ guard \in Sharers \cup {Nobody}
  /\ holding \subseteq Sharers /\ queueing \subseteq Sharers
  /\ announced \in Writers \cup {Nobody}
  /\ current \in BOOLEAN /\ slotReleases \in 0..1 /\ leaseRow \in StoredRow /\ stored \in StoredRow
  /\ rowWrites \in 0..MaxRowWrites
  /\ sharerPc \in [Sharers -> ReservationPCs] /\ readRow \in [Sharers -> StoredRow]
  /\ result \in [Sharers -> Results]
  /\ wpc \in [Writers -> WriterPCs] /\ newRow \in [Writers -> StoredRow]

\* Every read lock that is held is either an operation's own, which it will give
\* back, or the guard of a reservation that is prepared or being settled: no
\* interleaving of prepares, activations, releases and rollbacks leaks one.
ReadLocksAccounted ==
  holding = {c \in Sharers : sharerPc[c] \in {"recheck", "commit", "stale", "rollback"}}
              \cup {c \in holding : sharerPc[c] = "read"}
              \cup {c \in Sharers : sharerPc[c] = "dropGuard" /\ result[c] = "rejected"}
              \cup ({guard} \ {Nobody})

\* Exactly-once capacity: a rolled-back reservation gave its slot back, a live or
\* activated one still holds it until the lease's own owner releases it.
SlotGivenBackOnce ==
  /\ status = "released" => slotReleases = 1
  /\ status \in {"reserved", "prepared"} => slotReleases = 0

\* Whatever prepares, activations, releases and rollbacks interleave, the read
\* locks and the slot of a reservation are each given back exactly once.
ReservationAccounted == ReadLocksAccounted /\ SlotGivenBackOnce

\* Dispatch ownership is handed over with the row that is in the store at that
\* moment, in a generation no mutation has retired (Activate, "this transition has
\* no external failure point"), and a settled reservation never changes again.
ActivationIsLive ==
  [][/\ status /= "activated" /\ status' = "activated" =>
          leaseRow = stored /\ stored.enabled /\ isCurrent
     /\ status \in {"activated", "released"} => status' = status]_reservationVars

\* The inductive invariant behind both.  A reservation has a guard from its
\* preparation until it is settled, and the guard's owner takes no other lock.
GuardOwned ==
  /\ status = "reserved" => guard = Nobody
  /\ status = "prepared" => guard /= Nobody
  /\ guard /= Nobody => \/ sharerPc[guard] = "idle"
                        \/ sharerPc[guard] = "dropGuard" /\ result[guard] /= "rejected"
  /\ \A c \in Sharers : /\ sharerPc[c] = "dropGuard" => status \in {"activated", "released"}
                        /\ result[c] = "lease" => status = "activated"

\* Whoever queues for the lifecycle lock is about to revalidate and holds nothing;
\* a writer inside the lock is the announced one and excludes every reader.
LockExcludes ==
  /\ \A c \in queueing : sharerPc[c] = "read" /\ c \notin holding
  /\ \A w \in Writers : /\ wpc[w] \in {"announced", "writing", "unlock"} => announced = w
                        /\ wpc[w] \in {"writing", "unlock"} => holding = {}

\* A revalidated row, and the row of a prepared reservation, is the stored one.
RowsLive ==
  /\ \A c \in Sharers : sharerPc[c] \in {"recheck", "commit"} => readRow[c] = stored /\ stored.enabled
  /\ status = "prepared" => leaseRow = stored /\ stored.enabled /\ current

ReservationInv ==
  ReservationTypeOK /\ ReservationAccounted /\ GuardOwned /\ LockExcludes /\ RowsLive

\* The guard of a prepared reservation delays a mutation but never stops it.
WriterCompletes == \A w \in Writers : wpc[w] = "enter" ~> wpc[w] = "idle"
=============================================================================

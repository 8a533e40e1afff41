--------------------------- MODULE ProviderProofs ---------------------------
(***************************************************************************)
(* Machine-checked proofs about the providers' slots: the leases           *)
(* (ProviderLeases), for any sets of providers, callers, admins and        *)
(* leases, any limits and any number of writes, and the reservations of    *)
(* alternates (ProviderReservation), for any sets of callers and writers   *)
(* and any number of mutations.                                            *)
(***************************************************************************)
EXTENDS ProviderLeases, ProviderReservation, FiniteSetTheorems, TLAPS

-----------------------------------------------------------------------------
(* Concurrency leases.                                                     *)

\* The set of counted leases of a generation is finite, so it can be counted.
LEMMA HeldFinite ==
  ASSUME NEW g
  PROVE  IsFiniteSet(HeldCounted(g)) /\ Cardinality(HeldCounted(g)) \in Nat
<1>1. HeldCounted(g) \subseteq Leases
  BY DEF HeldCounted
<1>. QED
  BY <1>1, LeasesAssumption, FS_Subset, FS_CardinalityType

\* The limiter starts with no generations and no leases, so the invariant holds.
LEMMA InitCount == Init => CountInv
<1>. SUFFICES ASSUME Init PROVE CountInv
  OBVIOUS
<1>1. TypeStore /\ TypeLock
  BY MaxWritesAssumption DEF Init, TypeStore, TypeLock, Config
<1>2. TypeLimiter /\ TypeCallers
  BY DEF Init, TypeLimiter, LeaseType, TypeCallers, UnusedLease, CallerPCs, PermitStatus
<1>3. TypeAdmins
  BY DEF Init, TypeAdmins, AdminPCs
<1>4. RowsFiled
  BY DEF Init, RowsFiled
<1>5. GenerationsFiled
  BY DEF Init, GenerationsFiled, UnusedLease
<1>6. HandlesOwned
  BY DEF Init, HandlesOwned, SelectPCs, ActivePCs, PermitPCs, RowPCs
<1>7. CounterExact
  BY DEF Init, CounterExact
<1>. QED
  BY <1>1, <1>2, <1>3, <1>4, <1>5, <1>6, <1>7 DEF CountInv, TypeOK

\* A step that changes no counter and no counted, unreleased lease keeps the
\* counters exact and the generations filed.
LEMMA LimiterFrame ==
  ASSUME CounterExact, GenerationsFiled,
         UNCHANGED <<generations, nextGeneration, generation>>,
         \A l \in Leases : /\ lease'[l].gen = lease[l].gen
                           /\ lease'[l].counted = lease[l].counted
                           /\ lease'[l].released = lease[l].released
  PROVE  CounterExact' /\ GenerationsFiled'
<1>1. \A g : HeldCounted(g)' = HeldCounted(g)
  BY DEF HeldCounted
<1>. QED
  BY <1>1 DEF CounterExact, GenerationsFiled

\* A step that changes neither limiter nor rows concerns only the callers.
LEMMA CallerFrame ==
  ASSUME CountInv, UNCHANGED <<store, writes, limiterVars, adminVars>>,
         TypeLock', TypeCallers', HandlesOwned'
  PROVE  CountInv'
<1>1. CounterExact' /\ GenerationsFiled'
  BY LimiterFrame DEF CountInv, limiterVars
<1>2. TypeStore' /\ TypeLimiter' /\ TypeAdmins' /\ RowsFiled'
  BY DEF CountInv, TypeOK, TypeStore, TypeLimiter, LeaseType, TypeAdmins, RowsFiled,
     limiterVars, adminVars
<1>. QED
  BY <1>1, <1>2 DEF CountInv, TypeOK

\* A caller that returns refers to nothing any more.
LEMMA ReturnKeeps ==
  ASSUME TypeCallers, HandlesOwned, NEW c \in Callers, Return(c), ~clearing'[c],
         clearing' \in [Callers -> BOOLEAN],
         \A d \in Callers \ {c} : clearing'[d] = clearing[d],
         \A l \in Leases : lease'[l].gen = lease[l].gen /\ lease'[l].released = lease[l].released
  PROVE  TypeCallers' /\ HandlesOwned'
<1>1. TypeCallers'
  BY DEF TypeCallers, Return, CallerPCs, PermitStatus
<1>2. HandlesOwned'
  BY DistinctAssumption
  DEF TypeCallers, HandlesOwned, SelectPCs, ActivePCs, PermitPCs, RowPCs, Return
<1>. QED
  BY <1>1, <1>2

\* Taking or leaving the read side keeps the lock well-typed.
LEMMA ReadSide ==
  ASSUME TypeLock, NEW c \in Callers, RLock(c) \/ RUnlock(c) \/ UNCHANGED lockVars
  PROVE  TypeLock'
  BY DEF TypeLock, RLock, RUnlock, lockVars

\* The steps by which an operation gives up and returns.
LEMMA GivingUpKeepsCount ==
  ASSUME CountInv, NEW c \in Callers,
         SelectFail(c) \/ ActiveFail(c) \/ RevalidateFail(c) \/ PermitRefused(c)
  PROVE  CountInv'
<1>1. /\ Return(c) /\ UNCHANGED <<store, writes, limiterVars, clearing, adminVars>>
      /\ RLock(c) \/ RUnlock(c) \/ UNCHANGED lockVars
      /\ pc[c] \notin {"permitted", "dispLock", "lost"}
  BY DEF SelectFail, ActiveFail, RevalidateFail, PermitRefused
<1>2. ~clearing'[c] /\ clearing' \in [Callers -> BOOLEAN]
  BY <1>1 DEF CountInv, TypeOK, TypeCallers, HandlesOwned
<1>3. TypeCallers' /\ HandlesOwned'
  BY <1>1, <1>2, ReturnKeeps DEF CountInv, TypeOK, limiterVars
<1>. QED
  BY <1>1, <1>3, ReadSide, CallerFrame DEF CountInv, TypeOK

\* The steps by which an operation advances without touching the limiter.
LEMMA LookingKeepsCount ==
  ASSUME CountInv, NEW c \in Callers,
         \/ \E l \in Leases : SelectLock(c, l) \/ RevalidateCheck(c, l)
         \/ \E l, active \in Leases : ActiveLock(c, l, active)
         \/ \E p \in Providers : SelectRead(c, p)
         \/ SelectFull(c) \/ ActiveCheck(c) \/ ActiveRead(c)
         \/ RevalidateRead(c) \/ RevalidateRecheck(c)
         \/ ActivateLock(c) \/ ActivateLost(c) \/ PermitRelease(c)
  PROVE  CountInv'
<1>. USE DEF CountInv, TypeOK
<1>. DEFINE Frame == UNCHANGED <<store, writes, limiterVars, adminVars>> /\ TypeLock'
<1>1. CASE \E l \in Leases : SelectLock(c, l)
  <2>0. PICK l \in Leases : SelectLock(c, l)
    BY <1>1
  <2>1. Frame
    BY <2>0, ReadSide DEF SelectLock
  <2>2. TypeCallers'
    BY <2>0 DEF SelectLock, TypeCallers, HandlesOwned, ActivePCs, PermitPCs, RowPCs,
      CallerPCs, PermitStatus, RLock, Goto, Unreachable
  <2>3. HandlesOwned'
    BY <2>0, DistinctAssumption
    DEF SelectLock, TypeCallers, HandlesOwned, limiterVars, SelectPCs, ActivePCs, PermitPCs,
        RowPCs, RLock, Goto, Unreachable
  <2>. QED
    BY <2>1, <2>2, <2>3, CallerFrame
<1>2. CASE \E p \in Providers : SelectRead(c, p)
  <2>0. PICK p \in Providers : SelectRead(c, p)
    BY <1>2
  <2>1. Frame
    BY <2>0, ReadSide DEF SelectRead
  <2>2. TypeCallers'
    BY <2>0 DEF SelectRead, TypeCallers, HandlesOwned, ActivePCs, PermitPCs, RowPCs,
      CallerPCs, PermitStatus, Goto, TypeStore
  <2>3. HandlesOwned'
    BY <2>0, DistinctAssumption
    DEF SelectRead, TypeCallers, HandlesOwned, limiterVars, SelectPCs, ActivePCs, PermitPCs,
        RowPCs, Goto, TypeStore
  <2>. QED
    BY <2>1, <2>2, <2>3, CallerFrame
<1>3. CASE SelectFull(c)
  <2>1. Frame
    BY <1>3, ReadSide DEF SelectFull
  <2>2. TypeCallers'
    BY <1>3 DEF SelectFull, TypeCallers, HandlesOwned, ActivePCs, PermitPCs, RowPCs,
      CallerPCs, PermitStatus, Goto, Config
  <2>3. HandlesOwned'
    BY <1>3, DistinctAssumption
    DEF SelectFull, TypeCallers, HandlesOwned, limiterVars, SelectPCs, ActivePCs, PermitPCs,
        RowPCs, Goto, Config
  <2>. QED
    BY <2>1, <2>2, <2>3, CallerFrame
<1>4. CASE \E l, active \in Leases : ActiveLock(c, l, active)
  <2>0. PICK l \in Leases, active \in Leases : ActiveLock(c, l, active)
    BY <1>4
  <2>1. Frame
    BY <2>0, ReadSide DEF ActiveLock
  <2>2. TypeCallers'
    BY <2>0 DEF ActiveLock, TypeCallers, HandlesOwned, ActivePCs, PermitPCs, RowPCs,
      CallerPCs, PermitStatus, RLock, Goto, Unreachable, GenerationsFiled
  <2>3. HandlesOwned'
    BY <2>0, DistinctAssumption
    DEF ActiveLock, TypeCallers, HandlesOwned, limiterVars, SelectPCs, ActivePCs, PermitPCs,
        RowPCs, RLock, Goto, Unreachable, GenerationsFiled
  <2>. QED
    BY <2>1, <2>2, <2>3, CallerFrame
<1>5. CASE ActiveCheck(c)
  <2>1. Frame
    BY <1>5, ReadSide DEF ActiveCheck
  <2>2. TypeCallers'
    BY <1>5 DEF ActiveCheck, TypeCallers, HandlesOwned, ActivePCs, PermitPCs, RowPCs,
      CallerPCs, PermitStatus, Goto
  <2>3. HandlesOwned'
    BY <1>5, DistinctAssumption
    DEF ActiveCheck, TypeCallers, HandlesOwned, limiterVars, SelectPCs, ActivePCs, PermitPCs,
        RowPCs, Goto
  <2>. QED
    BY <2>1, <2>2, <2>3, CallerFrame
<1>6. CASE ActiveRead(c)
  <2>1. Frame
    BY <1>6, ReadSide DEF ActiveRead
  <2>2. TypeCallers'
    BY <1>6 DEF ActiveRead, TypeCallers, HandlesOwned, ActivePCs, PermitPCs, RowPCs,
      CallerPCs, PermitStatus, Goto, ProviderOf, TypeStore, TypeLimiter, LeaseType
  <2>3. HandlesOwned'
    BY <1>6, DistinctAssumption
    DEF ActiveRead, TypeCallers, HandlesOwned, limiterVars, SelectPCs, ActivePCs, PermitPCs,
        RowPCs, Goto, ProviderOf, TypeStore, TypeLimiter, LeaseType
  <2>. QED
    BY <2>1, <2>2, <2>3, CallerFrame
<1>7. CASE \E l \in Leases : RevalidateCheck(c, l)
  <2>0. PICK l \in Leases : RevalidateCheck(c, l)
    BY <1>7
  <2>1. Frame
    BY <2>0, ReadSide DEF RevalidateCheck
  <2>2. TypeCallers'
    BY <2>0 DEF RevalidateCheck, TypeCallers, HandlesOwned, ActivePCs, PermitPCs, RowPCs,
      CallerPCs, PermitStatus, Goto, GenerationsFiled
  <2>3. HandlesOwned'
    BY <2>0, DistinctAssumption
    DEF RevalidateCheck, TypeCallers, HandlesOwned, limiterVars, SelectPCs, ActivePCs, PermitPCs,
        RowPCs, Goto, GenerationsFiled
  <2>. QED
    BY <2>1, <2>2, <2>3, CallerFrame
<1>8. CASE RevalidateRead(c)
  <2>1. Frame
    BY <1>8, ReadSide DEF RevalidateRead
  <2>2. TypeCallers'
    BY <1>8 DEF RevalidateRead, TypeCallers, HandlesOwned, ActivePCs, PermitPCs, RowPCs,
      CallerPCs, PermitStatus, Goto, ProviderOf, TypeStore, TypeLimiter, LeaseType
  <2>3. HandlesOwned'
    BY <1>8, DistinctAssumption
    DEF RevalidateRead, TypeCallers, HandlesOwned, limiterVars, SelectPCs, ActivePCs, PermitPCs,
        RowPCs, Goto, ProviderOf, TypeStore, TypeLimiter, LeaseType
  <2>. QED
    BY <2>1, <2>2, <2>3, CallerFrame
<1>9. CASE RevalidateRecheck(c)
  <2>1. Frame
    BY <1>9, ReadSide DEF RevalidateRecheck
  <2>2. TypeCallers'
    BY <1>9 DEF RevalidateRecheck, TypeCallers, HandlesOwned, ActivePCs, PermitPCs, RowPCs,
      CallerPCs, PermitStatus, Goto
  <2>3. HandlesOwned'
    BY <1>9, DistinctAssumption
    DEF RevalidateRecheck, TypeCallers, HandlesOwned, limiterVars, SelectPCs, ActivePCs, PermitPCs,
        RowPCs, Goto
  <2>. QED
    BY <2>1, <2>2, <2>3, CallerFrame
<1>10. CASE ActivateLock(c)
  <2>1. Frame
    BY <1>10, ReadSide DEF ActivateLock
  <2>2. TypeCallers'
    BY <1>10 DEF ActivateLock, TypeCallers, HandlesOwned, ActivePCs, PermitPCs, RowPCs,
      CallerPCs, PermitStatus, Goto
  <2>3. HandlesOwned'
    BY <1>10, DistinctAssumption
    DEF ActivateLock, TypeCallers, HandlesOwned, limiterVars, SelectPCs, ActivePCs, PermitPCs,
        RowPCs, Goto
  <2>. QED
    BY <2>1, <2>2, <2>3, CallerFrame
<1>11. CASE ActivateLost(c)
  <2>1. Frame
    BY <1>11, ReadSide DEF ActivateLost
  <2>2. TypeCallers'
    BY <1>11 DEF ActivateLost, TypeCallers, HandlesOwned, ActivePCs, PermitPCs, RowPCs,
      CallerPCs, PermitStatus, Goto
  <2>3. HandlesOwned'
    BY <1>11, DistinctAssumption
    DEF ActivateLost, TypeCallers, HandlesOwned, limiterVars, SelectPCs, ActivePCs, PermitPCs,
        RowPCs, Goto
  <2>. QED
    BY <2>1, <2>2, <2>3, CallerFrame
<1>12. CASE PermitRelease(c)
  <2>1. Frame
    BY <1>12, ReadSide DEF PermitRelease
  <2>2. TypeCallers'
    BY <1>12 DEF PermitRelease, TypeCallers, HandlesOwned, ActivePCs, PermitPCs, RowPCs,
      CallerPCs, PermitStatus
  <2>3. HandlesOwned'
    BY <1>12, DistinctAssumption
    DEF PermitRelease, TypeCallers, HandlesOwned, limiterVars, SelectPCs, ActivePCs, PermitPCs,
        RowPCs
  <2>. QED
    BY <2>1, <2>2, <2>3, CallerFrame
<1>. QED
  BY <1>1, <1>2, <1>3, <1>4, <1>5, <1>6, <1>7, <1>8, <1>9, <1>10, <1>11, <1>12

\* An activation that lost its permit leaves it to the releaser, or returns.
LEMMA LeavingKeepsCount ==
  ASSUME CountInv, NEW c \in Callers, ActivateReleased(c) \/ ActivateFailed(c)
  PROVE  CountInv'
<1>. USE DEF CountInv, TypeOK
<1>1. /\ LeavePermit(c) /\ UNCHANGED <<store, writes, limiterVars, clearing, adminVars>>
      /\ RLock(c) \/ RUnlock(c) \/ UNCHANGED lockVars
      /\ pc[c] \in {"dispLock", "lost"}
  BY DEF ActivateReleased, ActivateFailed
<1>2. CASE clearing[c]
  <2>1. Goto(c, "permitted") /\ UNCHANGED <<target, peer, row, tried, permit>>
    BY <1>1, <1>2 DEF LeavePermit
  <2>2. TypeCallers'
    BY <1>1, <2>1 DEF TypeCallers, CallerPCs, Goto
  <2>3. HandlesOwned'
    BY <1>1, <2>1 DEF TypeCallers, HandlesOwned, limiterVars, SelectPCs, ActivePCs, PermitPCs,
      RowPCs, Goto
  <2>. QED
    BY <1>1, <2>2, <2>3, ReadSide, CallerFrame
<1>3. CASE ~clearing[c]
  <2>1. Return(c) /\ ~clearing'[c] /\ clearing' \in [Callers -> BOOLEAN]
    BY <1>1, <1>3 DEF LeavePermit, TypeCallers
  <2>2. TypeCallers' /\ HandlesOwned'
    BY <1>1, <2>1, ReturnKeeps DEF limiterVars
  <2>. QED
    BY <1>1, <2>2, ReadSide, CallerFrame
<1>. QED
  BY <1>2, <1>3

\* The steps of a permit: they change the permit's status and the lease's flag.
LEMMA PermitKeepsCount ==
  ASSUME CountInv, NEW c \in Callers,
         PermitReserve(c) \/ ActivateWon(c) \/ PermitClear(c)
  PROVE  CountInv'
<1>. USE DEF CountInv, TypeOK
<1>0. /\ target[c] \in Leases
      /\ pc[c] = "dispLock" => row[c] \in Config
  BY DEF HandlesOwned, PermitReserve, ActivateWon, PermitClear, PermitPCs, RowPCs
<1>1. /\ UNCHANGED <<store, writes, generations, nextGeneration, generation, adminVars>>
      /\ RUnlock(c) \/ UNCHANGED lockVars
  BY DEF PermitReserve, ActivateWon, PermitClear
<1>2. /\ \A l \in Leases : /\ lease'[l].gen = lease[l].gen
                           /\ lease'[l].counted = lease[l].counted
                           /\ lease'[l].released = lease[l].released
      /\ lease' \in [Leases -> LeaseType]
  <2>1. CASE PermitReserve(c) \/ PermitClear(c)
    <3>1. PICK b \in BOOLEAN : lease' = [lease EXCEPT ![target[c]].permitFlag = b]
      BY <2>1 DEF PermitReserve, PermitClear
    <3>. QED
      BY <1>0, <3>1 DEF TypeLimiter, LeaseType
  <2>2. CASE ActivateWon(c)
    <3>1. /\ lease' = [lease EXCEPT ![target[c]].provider = row[c],
                                   ![target[c]].permitFlag = FALSE]
          /\ row[c] \in Config
      BY <1>0, <2>2 DEF ActivateWon
    <3>. QED
      BY <1>0, <3>1 DEF TypeLimiter, LeaseType
  <2>. QED
    BY <2>1, <2>2
<1>3. TypeCallers' /\ HandlesOwned'
  <2>1. CASE PermitReserve(c)
    <3>1. TypeCallers'
      BY <2>1 DEF PermitReserve, TypeCallers, CallerPCs, PermitStatus, Goto
    <3>2. HandlesOwned'
      BY <1>2, <2>1 DEF PermitReserve, TypeCallers, HandlesOwned, SelectPCs, ActivePCs,
        PermitPCs, RowPCs, Goto
    <3>. QED
      BY <3>1, <3>2
  <2>2. CASE ActivateWon(c)
    <3>1. Return(c) /\ UNCHANGED clearing /\ ~clearing[c]
      BY <2>2 DEF ActivateWon, HandlesOwned
    <3>. QED
      BY <3>1, <1>2, ReturnKeeps DEF TypeCallers
  <2>3. CASE PermitClear(c) /\ pc[c] = "permitted"
    <3>1. /\ Return(c) /\ ~clearing'[c] /\ clearing' \in [Callers -> BOOLEAN]
          /\ \A d \in Callers \ {c} : clearing'[d] = clearing[d]
      BY <2>3 DEF PermitClear, TypeCallers
    <3>. QED
      BY <3>1, <1>2, ReturnKeeps
  <2>4. CASE PermitClear(c) /\ pc[c] /= "permitted"
    <3>1. UNCHANGED <<pc, target, peer, row, tried, permit>>
      BY <2>4 DEF PermitClear
    <3>2. clearing' \in [Callers -> BOOLEAN] /\ \A d \in Callers : clearing'[d] => clearing[d]
      BY <2>4 DEF PermitClear, TypeCallers
    <3>. QED
      BY <3>1, <3>2, <1>2 DEF TypeCallers, HandlesOwned
  <2>. QED
    BY <2>1, <2>2, <2>3, <2>4
<1>4. CounterExact' /\ GenerationsFiled'
  BY <1>1, <1>2, LimiterFrame
<1>5. TypeStore' /\ TypeLimiter' /\ TypeAdmins' /\ RowsFiled'
  BY <1>1, <1>2 DEF TypeStore, TypeLimiter, LeaseType, TypeAdmins, RowsFiled, adminVars
<1>. QED
  BY <1>1, <1>3, <1>4, <1>5, ReadSide

\* The fields of the lease object acquireLocked returns.
LEMMA NewLeaseFields ==
  ASSUME NEW g, NEW r
  PROVE  /\ NewLease(g, r).gen = g
         /\ NewLease(g, r).counted <=> r.limit > 0
         /\ ~NewLease(g, r).released
  BY Zenon DEF NewLease

\* Filling an unused lease object in an existing generation adds one to the set the
\* counter counts, and to the counter.
LEMMA AcquireInCounts ==
  ASSUME TypeLimiter, GenerationsFiled, CounterExact,
         NEW l \in Leases, lease[l].released,
         NEW g \in 1..nextGeneration, NEW r \in Config, AcquireIn(l, g, r)
  PROVE  TypeLimiter' /\ GenerationsFiled' /\ CounterExact'
<1>1. r.limit \in Nat
  BY LimitsAssumption DEF Config
<1>2. TypeLimiter'
  <2>1. NewLease(g, r) \in LeaseType
    BY <1>1 DEF TypeLimiter, LeaseType, NewLease
  <2>2. lease' \in [Leases -> LeaseType]
    BY <2>1 DEF AcquireIn, TypeLimiter
  <2>3. generation' \in [1..nextGeneration -> [provider: Providers, active: Nat]]
    <3>1. CASE r.limit > 0
      <4>1. generation' = [generation EXCEPT ![g].active = @ + 1]
        BY <3>1 DEF AcquireIn
      <4>2. generation[g] \in [provider: Providers, active: Nat]
        BY DEF TypeLimiter
      <4>3. [generation[g] EXCEPT !.active = @ + 1] \in [provider: Providers, active: Nat]
        BY <4>2
      <4>. QED
        BY <4>1, <4>3 DEF TypeLimiter
    <3>2. CASE ~(r.limit > 0)
      BY <3>2 DEF AcquireIn, TypeLimiter
    <3>. QED
      BY <3>1, <3>2
  <2>. QED
    BY <2>2, <2>3 DEF AcquireIn, TypeLimiter, LeaseType
<1>3. GenerationsFiled'
  BY <1>1 DEF AcquireIn, TypeLimiter, LeaseType, NewLease, GenerationsFiled
<1>4. CounterExact'
  <2>. SUFFICES ASSUME NEW h \in 1..nextGeneration
                PROVE  generation'[h].active = Cardinality(HeldCounted(h)')
    BY DEF CounterExact, AcquireIn
  <2>1. CASE h = g /\ r.limit > 0
    <3>1. HeldCounted(h)' = HeldCounted(h) \cup {l} /\ l \notin HeldCounted(h)
      BY <2>1 DEF AcquireIn, TypeLimiter, LeaseType, NewLease, HeldCounted
    <3>2. Cardinality(HeldCounted(h)') = Cardinality(HeldCounted(h)) + 1
      BY <3>1, HeldFinite, FS_AddElement
    <3>3. generation'[h].active = generation[h].active + 1
      BY <2>1 DEF AcquireIn, TypeLimiter
    <3>. QED
      BY <3>2, <3>3 DEF CounterExact
  <2>2. CASE h /= g \/ ~(r.limit > 0)
    <3>1. HeldCounted(h)' = HeldCounted(h)
      BY <2>2 DEF AcquireIn, TypeLimiter, LeaseType, NewLease, HeldCounted
    <3>2. generation'[h].active = generation[h].active
      BY <2>2 DEF AcquireIn, TypeLimiter
    <3>. QED
      BY <3>1, <3>2 DEF CounterExact
  <2>. QED
    BY <2>1, <2>2
<1>. QED
  BY <1>2, <1>3, <1>4

\* The first lease of a fresh generation: nobody holds a lease of it yet.
LEMMA AcquireFirstCounts ==
  ASSUME TypeLimiter, GenerationsFiled, CounterExact,
         NEW l \in Leases, lease[l].released, NEW r \in Config, AcquireFirst(l, r)
  PROVE  TypeLimiter' /\ GenerationsFiled' /\ CounterExact'
<1>. DEFINE g == nextGeneration + 1
<1>1. r.limit \in Nat /\ r.id \in Providers
  BY LimitsAssumption DEF Config
<1>2. TypeLimiter'
  BY <1>1 DEF AcquireFirst, TypeLimiter, LeaseType, NewLease
<1>3. GenerationsFiled'
  BY <1>1 DEF AcquireFirst, TypeLimiter, LeaseType, NewLease, GenerationsFiled
<1>4. CounterExact'
  <2>. SUFFICES ASSUME NEW h \in 1..g
                PROVE  generation'[h].active = Cardinality(HeldCounted(h)')
    BY DEF CounterExact, AcquireFirst
  <2>1. CASE h = g /\ r.limit > 0
    <3>1. HeldCounted(h)' = {l}
      <4>1. lease'[l] = NewLease(g, r) /\ \A k \in Leases \ {l} : lease'[k] = lease[k]
        BY DEF AcquireFirst, TypeLimiter
      <4>2. \A k \in Leases \ {l} : lease'[k].gen /= h
        BY <2>1, <4>1 DEF TypeLimiter, LeaseType
      <4>3. lease'[l].counted /\ ~lease'[l].released
        <5>1. r.limit > 0 /\ lease'[l] = NewLease(g, r)
          BY <2>1, <4>1
        <5>2. NewLease(g, r).counted /\ ~NewLease(g, r).released
          BY <5>1, NewLeaseFields, Zenon
        <5>. QED
          BY <5>1, <5>2, Zenon
      <4>4. lease'[l].gen = h
        BY <2>1, <4>1, NewLeaseFields
      <4>. QED
        BY <4>2, <4>3, <4>4 DEF HeldCounted
    <3>2. generation'[h].active = 1
      BY <2>1 DEF AcquireFirst
    <3>. QED
      BY <3>1, <3>2, FS_Singleton
  <2>2. CASE h = g /\ ~(r.limit > 0)
    <3>1. HeldCounted(h)' = {}
      <4>1. lease'[l] = NewLease(g, r) /\ \A k \in Leases \ {l} : lease'[k] = lease[k]
        BY DEF AcquireFirst, TypeLimiter
      <4>2. \A k \in Leases \ {l} : lease'[k].gen /= h
        BY <2>2, <4>1 DEF TypeLimiter, LeaseType
      <4>3. ~lease'[l].counted
        BY <2>2, <4>1, NewLeaseFields, Zenon
      <4>. QED
        BY <4>2, <4>3 DEF HeldCounted
    <3>2. generation'[h].active = 0
      BY <2>2 DEF AcquireFirst
    <3>. QED
      BY <3>1, <3>2, FS_EmptySet
  <2>3. CASE h /= g
    <3>1. HeldCounted(h)' = HeldCounted(h)
      BY <2>3 DEF AcquireFirst, TypeLimiter, LeaseType, NewLease, HeldCounted
    <3>2. generation'[h].active = generation[h].active /\ h \in 1..nextGeneration
      BY <2>3 DEF AcquireFirst, TypeLimiter
    <3>. QED
      BY <3>1, <3>2 DEF CounterExact
  <2>. QED
    BY <2>1, <2>2, <2>3
<1>. QED
  BY <1>2, <1>3, <1>4

\* The handles after the caller's new lease has been filled.
LEMMA FilledHandles ==
  ASSUME CountInv, NEW c \in Callers, pc[c] \in {"selAcquire", "actAcquire"},
         Return(c), UNCHANGED clearing, NEW g \in Nat \ {0}, NEW r,
         lease' = [lease EXCEPT ![target[c]] = NewLease(g, r)]
  PROVE  TypeCallers' /\ HandlesOwned'
<1>. USE DEF CountInv, TypeOK
<1>1. /\ target[c] \in Leases /\ ~clearing[c]
      /\ \A d \in Callers : peer[d] /= target[c] /\ (d /= c => target[d] /= target[c])
  BY DEF HandlesOwned, SelectPCs
<1>2. \A l \in Leases \ {target[c]} : lease'[l] = lease[l]
  BY <1>1 DEF TypeLimiter
<1>3. TypeCallers'
  BY DEF TypeCallers, Return, CallerPCs, PermitStatus
<1>4. HandlesOwned'
  BY <1>1, <1>2, DistinctAssumption
  DEF TypeCallers, HandlesOwned, SelectPCs, ActivePCs, PermitPCs, RowPCs, Return
<1>. QED
  BY <1>3, <1>4

\* Selection and active reuse take a slot.
LEMMA AcquiringKeepsCount ==
  ASSUME CountInv, NEW c \in Callers,
         SelectAcquire(c) \/ acquireInGenerationUnderLifecycle(c)
  PROVE  CountInv'
<1>. USE DEF CountInv, TypeOK
<1>1. /\ target[c] \in Leases /\ lease[target[c]].released /\ row[c] \in Config
      /\ pc[c] \in {"selAcquire", "actAcquire"}
      /\ pc[c] = "actAcquire" => peer[c] \in Leases /\ lease[peer[c]].gen /= 0
  BY DEF HandlesOwned, SelectAcquire, acquireInGenerationUnderLifecycle, SelectPCs, ActivePCs,
    RowPCs
<1>2. /\ Return(c) /\ UNCHANGED <<store, writes, clearing, adminVars>> /\ RUnlock(c)
  BY DEF SelectAcquire, acquireInGenerationUnderLifecycle
<1>3. \/ AcquireFirst(target[c], row[c])
      \/ \E g \in 1..nextGeneration : AcquireIn(target[c], g, row[c])
  <2>1. row[c].id \in Providers
    BY <1>1 DEF Config
  <2>2. CASE SelectAcquire(c)
    BY <2>1, <2>2 DEF SelectAcquire, acquireUnderLifecycle, TypeLimiter
  <2>3. CASE acquireInGenerationUnderLifecycle(c)
    <3>1. lease[peer[c]].gen \in 1..nextGeneration
      BY <1>1, <2>3 DEF acquireInGenerationUnderLifecycle, TypeLimiter, LeaseType
    <3>. QED
      BY <2>3, <3>1 DEF acquireInGenerationUnderLifecycle
  <2>. QED
    BY <2>2, <2>3
<1>4. TypeLimiter' /\ GenerationsFiled' /\ CounterExact'
  BY <1>1, <1>3, AcquireFirstCounts, AcquireInCounts
<1>5. \E g \in Nat \ {0} : lease' = [lease EXCEPT ![target[c]] = NewLease(g, row[c])]
  <2>1. CASE AcquireFirst(target[c], row[c])
    <3>1. nextGeneration + 1 \in Nat \ {0}
      BY DEF TypeLimiter
    <3>. QED
      BY <2>1, <3>1 DEF AcquireFirst
  <2>2. CASE \E g \in 1..nextGeneration : AcquireIn(target[c], g, row[c])
    <3>1. PICK g \in 1..nextGeneration : AcquireIn(target[c], g, row[c])
      BY <2>2
    <3>2. g \in Nat \ {0}
      BY DEF TypeLimiter
    <3>. QED
      BY <3>1, <3>2 DEF AcquireIn
  <2>. QED
    BY <1>3, <2>1, <2>2
<1>6. TypeCallers' /\ HandlesOwned'
  BY <1>1, <1>2, <1>5, FilledHandles
<1>7. TypeStore' /\ TypeAdmins' /\ RowsFiled'
  BY <1>2 DEF TypeStore, TypeAdmins, RowsFiled, adminVars
<1>. QED
  BY <1>2, <1>4, <1>6, <1>7, ReadSide

\* The first release of a lease takes it out of the set its own generation counts.
LEMMA ReleaseKeepsCount ==
  ASSUME CountInv, NEW l \in Leases, Release(l)
  PROVE  CountInv'
<1>. USE DEF CountInv, TypeOK
<1>0. PICK g \in 1..nextGeneration : g = lease[l].gen
  BY DEF Release, releaseLeaseLocked, GenerationsFiled, TypeLimiter, LeaseType
<1>1. /\ ~lease[l].released /\ g = lease[l].gen
      /\ UNCHANGED <<store, writes, generations, nextGeneration, lockVars, callerVars, adminVars>>
      /\ lease' = [lease EXCEPT ![l].released = TRUE]
  BY <1>0 DEF Release, releaseLeaseLocked
<1>2. \A k \in Leases : /\ lease'[k].gen = lease[k].gen /\ lease'[k].counted = lease[k].counted
                        /\ lease'[k].released = (lease[k].released \/ k = l)
  BY <1>1 DEF TypeLimiter, LeaseType
<1>3. lease[l].counted => /\ Cardinality(HeldCounted(g)') = Cardinality(HeldCounted(g)) - 1
                          /\ Cardinality(HeldCounted(g)) \in Nat \ {0}
  <2>. SUFFICES ASSUME lease[l].counted
                PROVE  /\ Cardinality(HeldCounted(g)') = Cardinality(HeldCounted(g)) - 1
                       /\ Cardinality(HeldCounted(g)) \in Nat \ {0}
    OBVIOUS
  <2>1. HeldCounted(g)' = HeldCounted(g) \ {l} /\ l \in HeldCounted(g)
    BY <1>1, <1>2 DEF HeldCounted
  <2>. QED
    BY <2>1, HeldFinite, FS_RemoveElement, FS_EmptySet
<1>4. \A h : h /= g \/ ~lease[l].counted => HeldCounted(h)' = HeldCounted(h)
  BY <1>1, <1>2 DEF HeldCounted
<1>5. generation' \in [1..nextGeneration -> [provider: Providers, active: Nat]]
  <2>1. CASE lease[l].counted
    <3>1. generation[g].active \in Nat \ {0}
      BY <1>1, <1>3, <2>1 DEF CounterExact
    <3>2. generation' = [generation EXCEPT ![g].active = @ - 1]
      BY <1>1, <2>1 DEF Release, releaseLeaseLocked
    <3>3. generation[g].active - 1 \in Nat
      BY <3>1
    <3>4. generation[g] \in [provider: Providers, active: Nat]
      BY <1>1 DEF TypeLimiter
    <3>5. [generation[g] EXCEPT !.active = @ - 1] \in [provider: Providers, active: Nat]
      BY <3>3, <3>4
    <3>. QED
      BY <1>1, <3>2, <3>5 DEF TypeLimiter
  <2>2. CASE ~lease[l].counted
    BY <2>2 DEF Release, releaseLeaseLocked, TypeLimiter
  <2>. QED
    BY <2>1, <2>2
<1>6. /\ TypeLimiter'
      /\ \A h \in 1..nextGeneration : generation'[h].provider = generation[h].provider
  <2>1. lease' \in [Leases -> LeaseType]
    BY <1>1 DEF TypeLimiter, LeaseType
  <2>2. TypeLimiter'
    BY <1>1, <1>5, <2>1 DEF TypeLimiter, LeaseType
  <2>3. \A h \in 1..nextGeneration : generation'[h].provider = generation[h].provider
    BY <1>1 DEF Release, releaseLeaseLocked, TypeLimiter
  <2>. QED
    BY <2>2, <2>3
<1>7. CounterExact'
  <2>. SUFFICES ASSUME NEW h \in 1..nextGeneration
                PROVE  generation'[h].active = Cardinality(HeldCounted(h)')
    BY <1>1 DEF CounterExact
  <2>1. CASE h = g /\ lease[l].counted
    <3>1. generation'[h].active = generation[h].active - 1
      <4>1. generation' = [generation EXCEPT ![g].active = @ - 1]
        BY <1>1, <2>1 DEF Release, releaseLeaseLocked
      <4>. QED
        BY <1>1, <2>1, <4>1 DEF TypeLimiter
    <3>. QED
      BY <1>3, <2>1, <3>1 DEF CounterExact
  <2>2. CASE h /= g \/ ~lease[l].counted
    <3>1. generation'[h].active = generation[h].active
      BY <1>1, <2>2 DEF Release, releaseLeaseLocked, TypeLimiter
    <3>. QED
      BY <1>4, <2>2, <3>1 DEF CounterExact
  <2>. QED
    BY <2>1, <2>2
<1>8. GenerationsFiled'
  BY <1>1, <1>2, <1>6 DEF GenerationsFiled, TypeLimiter
<1>9. HandlesOwned'
  BY <1>1, <1>2 DEF HandlesOwned, callerVars
<1>10. TypeStore' /\ TypeLock' /\ TypeCallers' /\ TypeAdmins' /\ RowsFiled'
  BY <1>1 DEF TypeStore, TypeLock, TypeCallers, TypeAdmins, RowsFiled, lockVars, callerVars,
    adminVars
<1>. QED
  BY <1>6, <1>7, <1>8, <1>9, <1>10

\* The limiter, the lock and the handles do not depend on what an admin holds.
LEMMA AdminFrame ==
  ASSUME CountInv, UNCHANGED <<nextGeneration, generation, lease, callerVars>>,
         generations' \in [Providers -> 0..nextGeneration],
         \A p \in Providers : generations'[p] \in {0, generations[p]},
         TypeStore', TypeLock', TypeAdmins', RowsFiled'
  PROVE  CountInv'
<1>. USE DEF CountInv, TypeOK
<1>1. TypeLimiter' /\ TypeCallers'
  BY DEF TypeLimiter, LeaseType, TypeCallers, callerVars
<1>2. GenerationsFiled'
  BY DEF GenerationsFiled
<1>3. HandlesOwned'
  BY DEF HandlesOwned, callerVars
<1>4. CounterExact'
  BY DEF CounterExact, HeldCounted
<1>. QED
  BY <1>1, <1>2, <1>3, <1>4

\* An admin begins with rows filed under their own providers, inside its scope.
LEMMA BeginKeepsCount ==
  ASSUME CountInv, NEW a \in Admins, NEW retired \in SUBSET Providers,
         NEW rows \in [Providers -> Config \cup {NoRow}], NEW label \in {"enter", "direct"},
         \A p \in Providers : rows[p] /= NoRow => rows[p].id = p /\ p \in retired,
         AdminVarsBegin(a, rows, retired, label)
  PROVE  CountInv'
<1>. USE DEF CountInv, TypeOK
<1>1. TypeAdmins' /\ TypeStore'
  BY MaxWritesAssumption DEF AdminVarsBegin, TypeAdmins, TypeStore, AdminPCs
<1>2. RowsFiled'
  BY DEF AdminVarsBegin, RowsFiled, TypeAdmins
<1>3. UNCHANGED <<limiterVars, callerVars>> /\ TypeLock'
  BY DEF AdminVarsBegin, TypeLock, lockVars
<1>. QED
  BY <1>1, <1>2, <1>3, AdminFrame DEF limiterVars, TypeLimiter

\* An admin that reads the row or waits for the lifecycle lock counts nothing.
LEMMA AdminBeginKeepsCount ==
  ASSUME CountInv, AdminBegin
  PROVE  CountInv'
<1>. USE DEF CountInv, TypeOK
<1>0. writes + 1 \in 0..MaxWrites
  BY MaxWritesAssumption DEF TypeStore, AdminBegin, UpdateBegin, BulkBegin, ToggleBegin,
    AdminVarsBegin
<1>1. CASE \E a \in Updaters, p \in Providers, limit \in Limits, e \in BOOLEAN :
             UpdateBegin(a, p, limit, e)
  <2>1. PICK a \in Updaters, p \in Providers, limit \in Limits, e \in BOOLEAN :
               UpdateBegin(a, p, limit, e)
    BY <1>1
  <2>. DEFINE written == [id |-> p, tag |-> writes + 1, limit |-> limit, enabled |-> e]
              rows == [q \in Providers |-> IF q = p THEN written ELSE NoRow]
  <2>2. written \in Config /\ written.id = p
    BY <1>0 DEF Config
  <2>3. AdminVarsBegin(a, rows, {p}, "enter") /\ a \in Admins
    BY <2>1 DEF UpdateBegin, Admins
  <2>. HIDE DEF written
  <2>4. /\ rows \in [Providers -> Config \cup {NoRow}]
        /\ \A q \in Providers : rows[q] /= NoRow => rows[q].id = q /\ q \in {p}
    BY <2>2
  <2>. HIDE DEF rows
  <2>. QED
    BY <2>3, <2>4, BeginKeepsCount
<1>2. CASE \E a \in Updaters, limit \in Limits, e \in BOOLEAN : BulkBegin(a, limit, e)
  <2>1. PICK a \in Updaters, limit \in Limits, e \in BOOLEAN : BulkBegin(a, limit, e)
    BY <1>2
  <2>. DEFINE rows == [q \in Providers |-> [id |-> q, tag |-> writes + 1, limit |-> limit,
                                           enabled |-> e]]
  <2>2. AdminVarsBegin(a, rows, Providers, "enter") /\ a \in Admins
    BY <2>1 DEF BulkBegin, Admins
  <2>3. /\ rows \in [Providers -> Config \cup {NoRow}]
        /\ \A q \in Providers : rows[q].id = q
    BY <1>0 DEF Config
  <2>. HIDE DEF rows
  <2>. QED
    BY <2>2, <2>3, BeginKeepsCount
<1>3. CASE \E a \in Togglers, p \in Providers, e \in BOOLEAN : ToggleBegin(a, p, e)
  <2>1. PICK a \in Togglers, p \in Providers, e \in BOOLEAN : ToggleBegin(a, p, e)
    BY <1>3
  <2>. DEFINE written == [store[p] EXCEPT !.enabled = e]
              rows == [q \in Providers |-> IF q = p THEN written ELSE NoRow]
              label == IF store[p].enabled /= e THEN "enter" ELSE "direct"
  <2>2. written \in Config /\ written.id = p
    BY DEF Config, TypeStore, RowsFiled
  <2>3. AdminVarsBegin(a, rows, {p}, label) /\ a \in Admins
    BY <2>1 DEF ToggleBegin, Admins
  <2>4. label \in {"enter", "direct"}
    OBVIOUS
  <2>. HIDE DEF written, label
  <2>5. /\ rows \in [Providers -> Config \cup {NoRow}]
        /\ \A q \in Providers : rows[q] /= NoRow => rows[q].id = q /\ q \in {p}
    BY <2>2
  <2>. HIDE DEF rows
  <2>. QED
    BY <2>3, <2>4, <2>5, BeginKeepsCount
<1>. QED
  BY <1>1, <1>2, <1>3 DEF AdminBegin

\* The steps of an admin that has begun.
LEMMA AdminStepKeepsCount ==
  ASSUME CountInv, NEW a \in Admins, AdminStep(a)
  PROVE  CountInv'
<1>. USE DEF CountInv, TypeOK
<1>0. WriteRows(a) \in [Providers -> Config] /\ \A p \in Providers : WriteRows(a)[p].id = p
  BY DEF WriteRows, TypeStore, TypeAdmins, RowsFiled
<1>1. CASE MutateAnnounce(a)
  <2>1. TypeStore' /\ TypeLock' /\ TypeAdmins' /\ RowsFiled'
    BY <1>1 DEF MutateAnnounce, TypeStore, TypeLock, TypeAdmins, AdminPCs, RowsFiled
  <2>. QED
    BY <1>1, <2>1, AdminFrame DEF MutateAnnounce, limiterVars, TypeLimiter
<1>2. CASE MutateRetire(a)
  <2>1. TypeStore' /\ TypeLock' /\ TypeAdmins' /\ RowsFiled'
    BY <1>2 DEF MutateRetire, TypeStore, TypeLock, TypeAdmins, AdminPCs, RowsFiled
  <2>2. /\ generations' \in [Providers -> 0..nextGeneration]
        /\ \A p \in Providers : generations'[p] \in {0, generations[p]}
    BY <1>2 DEF MutateRetire, TypeLimiter
  <2>. QED
    BY <1>2, <2>1, <2>2, AdminFrame DEF MutateRetire
<1>3. CASE MutateStore(a)
  <2>1. store' \in [Providers -> Config] /\ \A p \in Providers : store'[p].id = p
    BY <1>0, <1>3 DEF MutateStore, TypeStore, RowsFiled
  <2>2. TypeStore' /\ TypeLock' /\ TypeAdmins' /\ RowsFiled'
    BY <1>3, <2>1 DEF MutateStore, TypeStore, TypeLock, lockVars, TypeAdmins, AdminPCs, RowsFiled
  <2>. QED
    BY <1>3, <2>2, AdminFrame DEF MutateStore, limiterVars, TypeLimiter
<1>4. CASE MutateUnlock(a)
  <2>1. TypeStore' /\ TypeLock' /\ TypeAdmins'
    BY <1>4 DEF MutateUnlock, AdminReturn, TypeStore, TypeLock, TypeAdmins, AdminPCs
  <2>2. RowsFiled'
    BY <1>4 DEF MutateUnlock, AdminReturn, RowsFiled, TypeAdmins
  <2>. QED
    BY <1>4, <2>1, <2>2, AdminFrame DEF MutateUnlock, limiterVars, TypeLimiter
<1>5. CASE DirectStore(a)
  <2>1. store' \in [Providers -> Config] /\ \A p \in Providers : store'[p].id = p
    BY <1>0, <1>5 DEF DirectStore, TypeStore, RowsFiled
  <2>2. TypeStore' /\ TypeLock' /\ TypeAdmins'
    BY <1>5, <2>1 DEF DirectStore, AdminReturn, TypeStore, TypeLock, lockVars, TypeAdmins, AdminPCs
  <2>3. RowsFiled'
    BY <1>5, <2>1 DEF DirectStore, AdminReturn, RowsFiled, TypeAdmins
  <2>. QED
    BY <1>5, <2>2, <2>3, AdminFrame DEF DirectStore, limiterVars, TypeLimiter
<1>. QED
  BY <1>1, <1>2, <1>3, <1>4, <1>5 DEF AdminStep

\* CountInv is inductive.
LEMMA NextKeepsCount == CountInv /\ [Next]_vars => CountInv'
<1>. SUFFICES ASSUME CountInv, [Next]_vars PROVE CountInv'
  OBVIOUS
<1>1. ASSUME NEW c \in Callers, CallerStep(c) PROVE CountInv'
  BY <1>1, GivingUpKeepsCount, LookingKeepsCount, LeavingKeepsCount, PermitKeepsCount,
    AcquiringKeepsCount DEF CallerStep
<1>2. ASSUME NEW c \in Callers, CallerBegin(c) PROVE CountInv'
  BY <1>2, LookingKeepsCount DEF CallerBegin
<1>3. CASE UNCHANGED vars
  <2>1. TypeStore' /\ TypeLock' /\ TypeAdmins' /\ RowsFiled'
    BY <1>3 DEF CountInv, TypeOK, TypeStore, TypeLock, TypeAdmins, RowsFiled, vars, lockVars,
      adminVars
  <2>. QED
    BY <1>3, <2>1, AdminFrame DEF CountInv, TypeOK, TypeLimiter, vars, limiterVars
<1>. QED
  BY <1>1, <1>2, <1>3, ReleaseKeepsCount, AdminStepKeepsCount, AdminBeginKeepsCount DEF Next

\* The state of the limiter, the lock, the callers and the admins stays well-typed;
\* in particular no slot counter of a generation ever becomes negative
\* (releaseLeaseLocked decrements without a floor).
THEOREM TypeCorrect == Spec => []TypeOK
<1>1. Spec => []CountInv
  BY InitCount, NextKeepsCount, PTL DEF Spec
<1>2. CountInv => TypeOK
  BY DEF CountInv
<1>. QED
  BY <1>1, <1>2, PTL

\* For every generation, retired ones included, the counter of acquireLocked and
\* releaseLeaseLocked equals the number of counted leases that are still out.
THEOREM CountersAreExact == Spec => []CounterExact
<1>1. Spec => []CountInv
  BY InitCount, NextKeepsCount, PTL DEF Spec
<1>2. CountInv => CounterExact
  BY DEF CountInv
<1>. QED
  BY <1>1, <1>2, PTL
\* The grants: nothing has been granted at the start.
LEMMA InitGrants == Init => GrantInv
<1>. SUFFICES ASSUME Init PROVE GrantInv
  OBVIOUS
<1>1. LifecycleHeld /\ ScopeRetired
  BY DEF Init, LifecycleHeld, ScopeRetired
<1>2. RowsRead
  BY DEF Init, RowsRead, RowRead, RowPCs
<1>3. CurrentLeaseFresh /\ LeasesCounted
  BY DEF Init, CurrentLeaseFresh, LeasesCounted, isCurrentLocked, UnusedLease
<1>4. CountersCapped
  BY DEF Init, CountersCapped
<1>5. PermitExclusive
  BY DEF Init, PermitExclusive, PermitHolders, HoldsPermit, UnusedLease
<1>. QED
  BY <1>1, <1>2, <1>3, <1>4, <1>5 DEF GrantInv

\* A step that changes neither limiter nor rows concerns only the callers.
LEMMA CallerGrants ==
  ASSUME CountInv, GrantInv, UNCHANGED <<store, writes, limiterVars, adminVars>>,
         LifecycleHeld', RowsRead', PermitExclusive'
  PROVE  GrantInv'
<1>2. CurrentLeaseFresh' /\ LeasesCounted'
  BY DEF GrantInv, CurrentLeaseFresh, LeasesCounted, isCurrentLocked, ProviderOf, limiterVars
<1>3. CountersCapped' /\ ScopeRetired'
  BY DEF GrantInv, CountersCapped, ScopeRetired, limiterVars, adminVars
<1>. QED
  BY <1>2, <1>3 DEF GrantInv

\* The steps by which an operation advances without touching the limiter.
LEMMA LookingKeepsGrants ==
  ASSUME CountInv, GrantInv, NEW c \in Callers,
         \/ \E l \in Leases : SelectLock(c, l) \/ RevalidateCheck(c, l)
         \/ \E l, active \in Leases : ActiveLock(c, l, active)
         \/ \E p \in Providers : SelectRead(c, p)
         \/ SelectFull(c) \/ ActiveCheck(c) \/ ActiveRead(c)
         \/ RevalidateRead(c) \/ RevalidateRecheck(c)
         \/ ActivateLock(c) \/ ActivateLost(c) \/ PermitRelease(c)
  PROVE  GrantInv'
<1>. USE DEF CountInv, TypeOK, GrantInv
<1>0. UNCHANGED <<store, writes, limiterVars, adminVars>>
  BY DEF SelectLock, RevalidateCheck, ActiveLock, SelectRead, SelectFull, ActiveCheck, ActiveRead,
    RevalidateRead, RevalidateRecheck, ActivateLock, ActivateLost, PermitRelease
<1>1. CASE \E l \in Leases : SelectLock(c, l)
  <2>0. PICK l \in Leases : SelectLock(c, l)
    BY <1>1
  <2>1. LifecycleHeld'
    BY <1>0, <2>0, DistinctAssumption DEF SelectLock, RLock, Goto, LifecycleHeld, TypeCallers,
      TypeLock, adminVars, lockVars
  <2>2. RowsRead'
    BY <1>0, <2>0 DEF SelectLock, RLock, Goto, RowsRead, RowRead, RowPCs, PermitPCs, ActivePCs,
      HandlesOwned, ProviderOf, InCurrentGeneration, limiterVars, TypeCallers
  <2>3. PermitExclusive'
    BY <1>0, <2>0 DEF SelectLock, RLock, Goto, PermitExclusive, PermitHolders, HoldsPermit,
      TypeCallers, limiterVars, HandlesOwned
  <2>. QED
    BY <1>0, <2>1, <2>2, <2>3, CallerGrants
<1>2. CASE \E l, active \in Leases : ActiveLock(c, l, active)
  <2>0. PICK l \in Leases, active \in Leases : ActiveLock(c, l, active)
    BY <1>2
  <2>1. LifecycleHeld'
    BY <1>0, <2>0, DistinctAssumption DEF ActiveLock, RLock, Goto, LifecycleHeld, TypeCallers,
      TypeLock, adminVars, lockVars
  <2>2. RowsRead'
    BY <1>0, <2>0 DEF ActiveLock, RLock, Goto, RowsRead, RowRead, RowPCs, PermitPCs, ActivePCs,
      HandlesOwned, ProviderOf, InCurrentGeneration, limiterVars, TypeCallers
  <2>3. PermitExclusive'
    BY <1>0, <2>0 DEF ActiveLock, RLock, Goto, PermitExclusive, PermitHolders, HoldsPermit,
      TypeCallers, limiterVars, HandlesOwned
  <2>. QED
    BY <1>0, <2>1, <2>2, <2>3, CallerGrants
<1>3. CASE \E l \in Leases : RevalidateCheck(c, l)
  <2>0. PICK l \in Leases : RevalidateCheck(c, l)
    BY <1>3
  <2>1. LifecycleHeld'
    BY <1>0, <2>0, DistinctAssumption DEF RevalidateCheck, Goto, LifecycleHeld, TypeCallers,
      TypeLock, adminVars, lockVars
  <2>2. RowsRead'
    BY <1>0, <2>0 DEF RevalidateCheck, Goto, RowsRead, RowRead, RowPCs, PermitPCs, ActivePCs,
      HandlesOwned, ProviderOf, InCurrentGeneration, limiterVars, TypeCallers
  <2>3. PermitExclusive'
    BY <1>0, <2>0 DEF RevalidateCheck, Goto, PermitExclusive, PermitHolders, HoldsPermit,
      TypeCallers, limiterVars, HandlesOwned
  <2>. QED
    BY <1>0, <2>1, <2>2, <2>3, CallerGrants
<1>4. CASE \E p \in Providers : SelectRead(c, p)
  <2>0. PICK p \in Providers : SelectRead(c, p)
    BY <1>4
  <2>1. LifecycleHeld'
    BY <1>0, <2>0, DistinctAssumption DEF SelectRead, Goto, LifecycleHeld, TypeCallers, TypeLock,
      adminVars, lockVars
  <2>2. RowsRead'
    BY <1>0, <2>0 DEF SelectRead, Goto, RowsRead, RowRead, RowPCs, PermitPCs, ActivePCs,
      HandlesOwned, ProviderOf, InCurrentGeneration, limiterVars, TypeCallers, RowsFiled
  <2>3. PermitExclusive'
    BY <1>0, <2>0 DEF SelectRead, Goto, PermitExclusive, PermitHolders, HoldsPermit, TypeCallers,
      limiterVars, HandlesOwned
  <2>. QED
    BY <1>0, <2>1, <2>2, <2>3, CallerGrants
<1>5. CASE SelectFull(c)
  <2>1. LifecycleHeld'
    BY <1>0, <1>5, DistinctAssumption DEF SelectFull, Goto, LifecycleHeld, TypeCallers, TypeLock,
      adminVars, lockVars
  <2>2. RowsRead'
    BY <1>0, <1>5 DEF SelectFull, Goto, RowsRead, RowRead, RowPCs, PermitPCs, ActivePCs,
      HandlesOwned, ProviderOf, InCurrentGeneration, limiterVars, TypeCallers
  <2>3. PermitExclusive'
    BY <1>0, <1>5 DEF SelectFull, Goto, PermitExclusive, PermitHolders, HoldsPermit, TypeCallers,
      limiterVars, HandlesOwned
  <2>. QED
    BY <1>0, <2>1, <2>2, <2>3, CallerGrants
<1>6. CASE ActiveCheck(c)
  <2>1. LifecycleHeld'
    BY <1>0, <1>6, DistinctAssumption DEF ActiveCheck, Goto, LifecycleHeld, TypeCallers, TypeLock,
      adminVars, lockVars
  <2>2. RowsRead'
    BY <1>0, <1>6 DEF ActiveCheck, Goto, RowsRead, RowRead, RowPCs, PermitPCs, ActivePCs,
      HandlesOwned, ProviderOf, InCurrentGeneration, limiterVars, TypeCallers
  <2>3. PermitExclusive'
    BY <1>0, <1>6 DEF ActiveCheck, Goto, PermitExclusive, PermitHolders, HoldsPermit, TypeCallers,
      limiterVars, HandlesOwned
  <2>. QED
    BY <1>0, <2>1, <2>2, <2>3, CallerGrants
<1>7. CASE ActiveRead(c)
  <2>a. ProviderOf(peer[c]) \in Providers
    BY <1>7 DEF ActiveRead, HandlesOwned, ActivePCs, PermitPCs, ProviderOf, TypeLimiter, LeaseType
  <2>b. row'[c] = store[ProviderOf(peer[c])] /\ row'[c].id = ProviderOf(peer[c]) /\ row'[c].enabled
    BY <2>a, <1>7 DEF ActiveRead, RowsFiled, TypeCallers
  <2>1. LifecycleHeld'
    BY <1>0, <1>7, DistinctAssumption DEF ActiveRead, Goto, LifecycleHeld, TypeCallers, TypeLock,
      adminVars, lockVars
  <2>c. RowRead(c)'
    BY <1>0, <2>a, <2>b, <1>7 DEF ActiveRead, Goto, RowRead, RowPCs, TypeCallers, ProviderOf,
      InCurrentGeneration,
      limiterVars
  <2>d. ASSUME NEW d \in Callers \ {c} PROVE RowRead(d)'
    BY <1>0, <1>7 DEF ActiveRead, Goto, RowsRead, RowRead, TypeCallers, ProviderOf,
      InCurrentGeneration, limiterVars
  <2>2. RowsRead'
    BY <2>c, <2>d DEF RowsRead
  <2>3. PermitExclusive'
    BY <1>0, <1>7 DEF ActiveRead, Goto, PermitExclusive, PermitHolders, HoldsPermit, TypeCallers,
      limiterVars, HandlesOwned
  <2>. QED
    BY <1>0, <2>1, <2>2, <2>3, CallerGrants
<1>8. CASE RevalidateRead(c)
  <2>a. ProviderOf(target[c]) \in Providers
    BY <1>8 DEF RevalidateRead, HandlesOwned, ActivePCs, PermitPCs, ProviderOf, TypeLimiter,
      LeaseType
  <2>b. row'[c] = store[ProviderOf(target[c])] /\ row'[c].id = ProviderOf(target[c]) /\ row'[c].enabled
    BY <2>a, <1>8 DEF RevalidateRead, RowsFiled, TypeCallers
  <2>1. LifecycleHeld'
    BY <1>0, <1>8, DistinctAssumption DEF RevalidateRead, Goto, LifecycleHeld, TypeCallers,
      TypeLock, adminVars, lockVars
  <2>c. RowRead(c)'
    BY <1>0, <2>a, <2>b, <1>8 DEF RevalidateRead, Goto, RowRead, RowPCs, TypeCallers, ProviderOf,
      InCurrentGeneration,
      limiterVars
  <2>d. ASSUME NEW d \in Callers \ {c} PROVE RowRead(d)'
    BY <1>0, <1>8 DEF RevalidateRead, Goto, RowsRead, RowRead, TypeCallers, ProviderOf,
      InCurrentGeneration, limiterVars
  <2>2. RowsRead'
    BY <2>c, <2>d DEF RowsRead
  <2>3. PermitExclusive'
    BY <1>0, <1>8 DEF RevalidateRead, Goto, PermitExclusive, PermitHolders, HoldsPermit,
      TypeCallers, limiterVars, HandlesOwned
  <2>. QED
    BY <1>0, <2>1, <2>2, <2>3, CallerGrants
<1>9. CASE RevalidateRecheck(c)
  <2>1. LifecycleHeld'
    BY <1>0, <1>9, DistinctAssumption DEF RevalidateRecheck, RLock, Goto, LifecycleHeld,
      TypeCallers, TypeLock, adminVars, lockVars
  <2>2. RowsRead'
    BY <1>0, <1>9 DEF RevalidateRecheck, RLock, Goto, RowsRead, RowRead, RowPCs, PermitPCs,
      ActivePCs, HandlesOwned, ProviderOf, InCurrentGeneration, limiterVars, TypeCallers
  <2>3. PermitExclusive'
    BY <1>0, <1>9 DEF RevalidateRecheck, RLock, Goto, PermitExclusive, PermitHolders, HoldsPermit,
      TypeCallers, limiterVars, HandlesOwned
  <2>. QED
    BY <1>0, <2>1, <2>2, <2>3, CallerGrants
<1>10. CASE ActivateLock(c)
  <2>1. LifecycleHeld'
    BY <1>0, <1>10, DistinctAssumption DEF ActivateLock, RLock, Goto, LifecycleHeld, TypeCallers,
      TypeLock, adminVars, lockVars
  <2>2. RowsRead'
    BY <1>0, <1>10 DEF ActivateLock, RLock, Goto, RowsRead, RowRead, RowPCs, PermitPCs, ActivePCs,
      HandlesOwned, ProviderOf, InCurrentGeneration, limiterVars, TypeCallers
  <2>3. PermitExclusive'
    BY <1>0, <1>10 DEF ActivateLock, RLock, Goto, PermitExclusive, PermitHolders, HoldsPermit,
      TypeCallers, limiterVars, HandlesOwned
  <2>. QED
    BY <1>0, <2>1, <2>2, <2>3, CallerGrants
<1>11. CASE ActivateLost(c)
  <2>1. LifecycleHeld'
    BY <1>0, <1>11, DistinctAssumption DEF ActivateLost, RUnlock, Goto, LifecycleHeld,
      TypeCallers, TypeLock, adminVars, lockVars
  <2>2. RowsRead'
    BY <1>0, <1>11 DEF ActivateLost, RUnlock, Goto, RowsRead, RowRead, RowPCs, PermitPCs,
      ActivePCs, HandlesOwned, ProviderOf, InCurrentGeneration, limiterVars, TypeCallers
  <2>3. PermitExclusive'
    BY <1>0, <1>11 DEF ActivateLost, RUnlock, Goto, PermitExclusive, PermitHolders, HoldsPermit,
      TypeCallers, limiterVars, HandlesOwned
  <2>. QED
    BY <1>0, <2>1, <2>2, <2>3, CallerGrants
<1>12. CASE PermitRelease(c)
  <2>1. LifecycleHeld'
    BY <1>0, <1>12, DistinctAssumption DEF PermitRelease, LifecycleHeld, TypeCallers, TypeLock,
      adminVars, lockVars
  <2>2. RowsRead'
    BY <1>0, <1>12 DEF PermitRelease, RowsRead, RowRead, RowPCs, PermitPCs, ActivePCs,
      HandlesOwned, ProviderOf, InCurrentGeneration, limiterVars, TypeCallers
  <2>3. PermitExclusive'
    BY <1>0, <1>12 DEF PermitRelease, PermitExclusive, PermitHolders, HoldsPermit, TypeCallers,
      limiterVars, HandlesOwned
  <2>. QED
    BY <1>0, <2>1, <2>2, <2>3, CallerGrants
<1>. QED
  BY <1>1, <1>2, <1>3, <1>4, <1>5, <1>6, <1>7, <1>8, <1>9, <1>10, <1>11, <1>12

\* The steps by which an operation gives up and returns.
LEMMA GivingUpKeepsGrants ==
  ASSUME CountInv, GrantInv, NEW c \in Callers,
         SelectFail(c) \/ ActiveFail(c) \/ RevalidateFail(c) \/ PermitRefused(c)
  PROVE  GrantInv'
<1>. USE DEF CountInv, TypeOK, GrantInv
<1>0. /\ Return(c) /\ UNCHANGED <<store, writes, limiterVars, clearing, adminVars>>
      /\ RUnlock(c) \/ UNCHANGED lockVars
      /\ pc[c] \notin {"permitted", "dispLock", "lost"}
  BY DEF SelectFail, ActiveFail, RevalidateFail, PermitRefused
<1>1. LifecycleHeld'
  BY <1>0 DEF Return, RUnlock, LifecycleHeld, TypeCallers, TypeLock, adminVars, lockVars
<1>2. RowsRead'
  BY <1>0 DEF Return, RowsRead, RowRead, RowPCs, PermitPCs, ActivePCs, HandlesOwned, ProviderOf,
    InCurrentGeneration, limiterVars, TypeCallers
<1>3. PermitExclusive'
  BY <1>0 DEF Return, PermitExclusive, PermitHolders, HoldsPermit, TypeCallers, limiterVars,
    HandlesOwned
<1>. QED
  BY <1>0, <1>1, <1>2, <1>3, CallerGrants

\* An activation that lost its permit leaves it to the releaser, or returns.
LEMMA LeavingKeepsGrants ==
  ASSUME CountInv, GrantInv, NEW c \in Callers, ActivateReleased(c) \/ ActivateFailed(c)
  PROVE  GrantInv'
<1>. USE DEF CountInv, TypeOK, GrantInv
<1>0. /\ LeavePermit(c) /\ UNCHANGED <<store, writes, limiterVars, clearing, adminVars>>
      /\ RUnlock(c) \/ UNCHANGED lockVars
      /\ pc[c] \in {"dispLock", "lost"} /\ permit[c] = "released"
  BY DEF ActivateReleased, ActivateFailed
<1>1. LifecycleHeld'
  BY <1>0 DEF LeavePermit, Return, Goto, RUnlock, LifecycleHeld, TypeCallers, TypeLock, adminVars,
    lockVars
<1>2. RowsRead'
  BY <1>0 DEF LeavePermit, Return, Goto, RowsRead, RowRead, RowPCs, PermitPCs, ActivePCs,
    HandlesOwned, ProviderOf, InCurrentGeneration, limiterVars,
    TypeCallers
<1>3. PermitExclusive'
  BY <1>0 DEF LeavePermit, Return, Goto, PermitExclusive, PermitHolders, HoldsPermit, TypeCallers,
    limiterVars,
    HandlesOwned
<1>. QED
  BY <1>0, <1>1, <1>2, <1>3, CallerGrants

\* When its one permit goes, the flag of a lease may go with it.
LEMMA PermitGone ==
  ASSUME PermitExclusive, NEW c \in Callers, c \in PermitHolders(target[c]),
         target[c] \in Leases, ~HoldsPermit(c)',
         \A d \in Callers \ {c} : /\ HoldsPermit(d)' <=> HoldsPermit(d)
                                  /\ target'[d] = target[d],
         \A l \in Leases : lease'[l].permitFlag <=> (lease[l].permitFlag /\ l /= target[c])
  PROVE  PermitExclusive'
<1>1. \A l \in Leases : PermitHolders(l)' = PermitHolders(l) \ {c}
  BY DEF PermitHolders
<1>2. PermitHolders(target[c]) = {c}
  BY DEF PermitExclusive
<1>3. \A l \in Leases : l /= target[c] => c \notin PermitHolders(l)
  BY DEF PermitHolders
<1>4. ASSUME NEW l \in Leases
      PROVE  /\ \A d, e \in PermitHolders(l)' : d = e
             /\ lease'[l].permitFlag <=> PermitHolders(l)' /= {}
  <2>1. CASE l = target[c]
    BY <1>1, <1>2, <2>1
  <2>2. CASE l /= target[c]
    BY <1>1, <1>3, <2>2 DEF PermitExclusive
  <2>. QED
    BY <2>1, <2>2
<1>. QED
  BY <1>4 DEF PermitExclusive

\* The steps of a permit: they change the permit's status and the lease's flag, and
\* an activation adopts a row that is the stored one.
LEMMA PermitKeepsGrants ==
  ASSUME CountInv, GrantInv, NEW c \in Callers,
         PermitReserve(c) \/ ActivateWon(c) \/ PermitClear(c)
  PROVE  GrantInv'
<1>. USE DEF CountInv, TypeOK, GrantInv
<1>0. /\ target[c] \in Leases /\ lease[target[c]].gen /= 0
      /\ pc[c] \in {"resLock", "permitted", "dispLock", "lost"}
  BY DEF HandlesOwned, PermitReserve, ActivateWon, PermitClear, PermitPCs
<1>1. /\ UNCHANGED <<store, writes, generations, nextGeneration, generation, adminVars>>
      /\ RUnlock(c) \/ UNCHANGED lockVars
  BY DEF PermitReserve, ActivateWon, PermitClear
<1>2. \A l \in Leases : /\ lease'[l].gen = lease[l].gen
                        /\ lease'[l].counted = lease[l].counted
                        /\ lease'[l].released = lease[l].released
  <2>1. CASE PermitReserve(c)
    BY <1>0, <2>1 DEF PermitReserve, TypeLimiter, LeaseType
  <2>3. CASE PermitClear(c)
    BY <1>0, <2>3 DEF PermitClear, TypeLimiter, LeaseType
  <2>2. CASE ActivateWon(c)
    BY <1>0, <2>2 DEF ActivateWon, TypeLimiter, LeaseType
  <2>. QED
    BY <2>1, <2>2, <2>3
<1>3. \A l \in Leases : isCurrentLocked(l) => lease'[l].provider = lease[l].provider
  <2>1. CASE PermitReserve(c)
    BY <1>0, <2>1 DEF PermitReserve, TypeLimiter, LeaseType
  <2>3. CASE PermitClear(c)
    BY <1>0, <2>3 DEF PermitClear, TypeLimiter, LeaseType
  <2>2. CASE ActivateWon(c)
    <3>1. /\ lease' = [lease EXCEPT ![target[c]].provider = row[c],
                                   ![target[c]].permitFlag = FALSE]
          /\ isCurrentLocked(target[c]) /\ pc[c] = "dispLock"
      BY <2>2 DEF ActivateWon
    <3>2. row[c] = lease[target[c]].provider
      <4>1. InCurrentGeneration(target[c])
        BY <3>1 DEF isCurrentLocked, InCurrentGeneration
      <4>2. row[c] = store[row[c].id] /\ row[c].id = ProviderOf(target[c])
        BY <3>1, <4>1 DEF RowsRead, RowRead, RowPCs
      <4>. QED
        BY <1>0, <3>1, <4>2 DEF CurrentLeaseFresh, isCurrentLocked
    <3>. QED
      BY <1>0, <3>1, <3>2 DEF TypeLimiter, LeaseType
  <2>. QED
    BY <2>1, <2>2, <2>3
<1>4. CurrentLeaseFresh' /\ LeasesCounted'
  BY <1>1, <1>2, <1>3 DEF CurrentLeaseFresh, LeasesCounted, isCurrentLocked, ProviderOf
<1>5. CountersCapped' /\ ScopeRetired'
  BY <1>1 DEF CountersCapped, ScopeRetired, adminVars
<1>6. LifecycleHeld'
  BY <1>0, <1>1 DEF PermitReserve, ActivateWon, PermitClear, Return, Goto, RUnlock, LifecycleHeld,
    TypeCallers, TypeLock, adminVars, lockVars
<1>7. RowsRead'
  <2>. USE DEF RowsRead, RowRead, RowPCs, PermitPCs, ActivePCs, HandlesOwned, TypeCallers, ProviderOf,
    InCurrentGeneration
  <2>1. CASE PermitReserve(c)
    BY <1>0, <1>1, <1>2, <2>1 DEF PermitReserve, Goto
  <2>2. CASE ActivateWon(c)
    <3>1. Return(c)
      BY <2>2 DEF ActivateWon
    <3>. QED
      BY <1>0, <1>1, <1>2, <3>1 DEF Return
  <2>3. CASE PermitClear(c)
    BY <1>0, <1>1, <1>2, <2>3 DEF PermitClear, Return
  <2>. QED
    BY <2>1, <2>2, <2>3
<1>8. PermitExclusive'
  <2>1. CASE PermitReserve(c)
    BY <1>0, <2>1 DEF PermitReserve, Goto, PermitExclusive, PermitHolders, HoldsPermit, TypeCallers,
      TypeLimiter, LeaseType, HandlesOwned
  <2>2. CASE ActivateWon(c)
    <3>1. /\ c \in PermitHolders(target[c]) /\ ~HoldsPermit(c)'
          /\ \A d \in Callers \ {c} : (HoldsPermit(d)' <=> HoldsPermit(d)) /\ target'[d] = target[d]
      BY <2>2 DEF ActivateWon, Return, PermitHolders, HoldsPermit, TypeCallers, HandlesOwned
    <3>2. \A l \in Leases : lease'[l].permitFlag <=> (lease[l].permitFlag /\ l /= target[c])
      BY <1>0, <2>2 DEF ActivateWon, TypeLimiter, LeaseType
    <3>. QED
      BY <1>0, <3>1, <3>2, PermitGone
  <2>3. CASE PermitClear(c)
    <3>1. /\ c \in PermitHolders(target[c]) /\ ~HoldsPermit(c)'
          /\ \A d \in Callers \ {c} : (HoldsPermit(d)' <=> HoldsPermit(d)) /\ target'[d] = target[d]
      BY <2>3 DEF PermitClear, Return, PermitHolders, HoldsPermit, TypeCallers, HandlesOwned
    <3>2. \A l \in Leases : lease'[l].permitFlag <=> (lease[l].permitFlag /\ l /= target[c])
      BY <1>0, <2>3 DEF PermitClear, TypeLimiter, LeaseType
    <3>. QED
      BY <1>0, <3>1, <3>2, PermitGone
  <2>. QED
    BY <2>1, <2>2, <2>3
<1>. QED
  BY <1>4, <1>5, <1>6, <1>7, <1>8

\* What taking a slot leaves: the new lease is in the provider's current generation,
\* which is the old one or a new object, within the limit that was read.
LEMMA AcquireFacts ==
  ASSUME CountInv, GrantInv, NEW c \in Callers,
         SelectAcquire(c) \/ acquireInGenerationUnderLifecycle(c)
  PROVE  \E g \in Nat \ {0} :
           /\ lease' = [lease EXCEPT ![target[c]] = NewLease(g, row[c])]
           /\ generations' = [generations EXCEPT ![row[c].id] = g]
           /\ generation'[g].provider = row[c].id
           /\ \A h \in 1..nextGeneration :
                /\ generation'[h].provider = generation[h].provider
                /\ h /= g => generation'[h].active = generation[h].active
           /\ \/ generations[row[c].id] = g
              \/ generations[row[c].id] = 0 /\ g \notin 1..nextGeneration
           /\ row[c].limit > 0 => generation'[g].active <= row[c].limit
<1>. USE DEF CountInv, TypeOK, GrantInv
<1>1. /\ target[c] \in Leases /\ row[c] \in Config /\ row[c].id \in Providers
      /\ row[c].limit \in Nat
      /\ pc[c] = "actAcquire" => peer[c] \in Leases /\ lease[peer[c]].gen /= 0
      /\ pc[c] = "actAcquire" => row[c].id = ProviderOf(peer[c])
  BY LimitsAssumption
  DEF HandlesOwned, SelectAcquire, acquireInGenerationUnderLifecycle, SelectPCs, ActivePCs,
    RowPCs, Config, RowsRead, RowRead
<1>2. CASE AcquireFirst(target[c], row[c]) /\ generations[row[c].id] = 0
  <2>1. /\ nextGeneration + 1 \in Nat \ {0} /\ nextGeneration + 1 \notin 1..nextGeneration
        /\ nextGeneration + 1 \in 1..nextGeneration + 1
        /\ \A h \in 1..nextGeneration : h \in 1..nextGeneration + 1 /\ h /= nextGeneration + 1
    BY DEF TypeLimiter
  <2>. DEFINE g == nextGeneration + 1
  <2>2. /\ lease' = [lease EXCEPT ![target[c]] = NewLease(g, row[c])]
        /\ generations' = [generations EXCEPT ![row[c].id] = g]
        /\ generation' = [n \in 1..g |->
             IF n = g THEN [provider |-> row[c].id, active |-> IF row[c].limit > 0 THEN 1 ELSE 0]
                      ELSE generation[n]]
    BY <1>2 DEF AcquireFirst
  <2>3. generation'[g].provider = row[c].id /\ generation'[g].active = IF row[c].limit > 0 THEN 1 ELSE 0
    BY <2>1, <2>2
  <2>4. \A h \in 1..nextGeneration : generation'[h] = generation[h]
    BY <2>1, <2>2
  <2>5. row[c].limit > 0 => generation'[g].active <= row[c].limit
    BY <1>1, <2>3
  <2>. HIDE DEF g
  <2>. QED
    BY <1>2, <2>1, <2>2, <2>3, <2>4, <2>5 DEF g
<1>3. ASSUME NEW g \in 1..nextGeneration, g = generations[row[c].id],
             AcquireIn(target[c], g, row[c])
      PROVE  /\ g \in Nat \ {0}
             /\ lease' = [lease EXCEPT ![target[c]] = NewLease(g, row[c])]
             /\ generations' = [generations EXCEPT ![row[c].id] = g]
             /\ generation'[g].provider = row[c].id
             /\ \A h \in 1..nextGeneration :
                  /\ generation'[h].provider = generation[h].provider
                  /\ h /= g => generation'[h].active = generation[h].active
             /\ row[c].limit > 0 => generation'[g].active <= row[c].limit
  <2>1. g \in Nat \ {0} /\ generation[g].active \in Nat /\ generation[g].provider = row[c].id
    BY <1>1, <1>3 DEF TypeLimiter, GenerationsFiled
  <2>2. /\ lease' = [lease EXCEPT ![target[c]] = NewLease(g, row[c])]
        /\ generations' = [generations EXCEPT ![row[c].id] = g]
        /\ HasCapacity(g, row[c].limit)
        /\ generation' = IF row[c].limit > 0 THEN [generation EXCEPT ![g].active = @ + 1]
                                             ELSE generation
    BY <1>1, <1>3 DEF AcquireIn, TypeLimiter
  <2>3. \A h \in 1..nextGeneration :
           /\ generation'[h].provider = generation[h].provider
           /\ h /= g => generation'[h].active = generation[h].active
    BY <2>2 DEF TypeLimiter
  <2>4. row[c].limit > 0 => generation'[g].active <= row[c].limit
    <3>1. row[c].limit > 0 => generation'[g].active = generation[g].active + 1
      BY <2>2, <1>3 DEF TypeLimiter
    <3>. QED
      BY <1>1, <2>1, <2>2, <3>1 DEF HasCapacity
  <2>. QED
    BY <2>1, <2>2, <2>3, <2>4
<1>4. CASE SelectAcquire(c)
  <2>1. acquireUnderLifecycle(target[c], row[c])
    BY <1>4 DEF SelectAcquire
  <2>2. CASE generations[row[c].id] = 0
    BY <1>2, <2>1, <2>2 DEF acquireUnderLifecycle
  <2>3. CASE generations[row[c].id] /= 0
    <3>1. generations[row[c].id] \in 1..nextGeneration
      BY <1>1, <2>3 DEF TypeLimiter
    <3>2. AcquireIn(target[c], generations[row[c].id], row[c])
      BY <2>1, <2>3 DEF acquireUnderLifecycle
    <3>. QED
      BY <1>3, <3>1, <3>2
  <2>. QED
    BY <2>2, <2>3
<1>5. CASE acquireInGenerationUnderLifecycle(c)
  <2>1. /\ AcquireIn(target[c], lease[peer[c]].gen, row[c]) /\ pc[c] = "actAcquire"
        /\ generations[ProviderOf(peer[c])] = lease[peer[c]].gen
    BY <1>5 DEF acquireInGenerationUnderLifecycle, isCurrentLocked
  <2>2. lease[peer[c]].gen \in 1..nextGeneration
    BY <1>1, <2>1 DEF TypeLimiter, LeaseType
  <2>. QED
    BY <1>1, <1>3, <2>1, <2>2
<1>. QED
  BY <1>4, <1>5

\* Selection and active reuse take a slot.
LEMMA AcquiringKeepsGrants ==
  ASSUME CountInv, GrantInv, NEW c \in Callers,
         SelectAcquire(c) \/ acquireInGenerationUnderLifecycle(c)
  PROVE  GrantInv'
<1>. USE DEF CountInv, TypeOK, GrantInv
<1>. DEFINE t == target[c]
            p == row[c].id
<1>1. /\ t \in Leases /\ lease[t].released /\ row[c] \in Config /\ p \in Providers
      /\ row[c] = store[p] /\ c \in readers /\ pc[c] \in {"selAcquire", "actAcquire"}
      /\ \A d \in Callers : peer[d] /= t /\ (d /= c => target[d] /= t)
  BY DEF HandlesOwned, SelectAcquire, acquireInGenerationUnderLifecycle, SelectPCs, RowPCs, Config,
    RowsRead, RowRead, LifecycleHeld
<1>2. Return(c) /\ UNCHANGED <<store, writes, clearing, adminVars>> /\ RUnlock(c)
  BY DEF SelectAcquire, acquireInGenerationUnderLifecycle
<1>3. PICK g \in Nat \ {0} :
           /\ lease' = [lease EXCEPT ![target[c]] = NewLease(g, row[c])]
           /\ generations' = [generations EXCEPT ![row[c].id] = g]
           /\ generation'[g].provider = row[c].id
           /\ \A h \in 1..nextGeneration :
                /\ generation'[h].provider = generation[h].provider
                /\ h /= g => generation'[h].active = generation[h].active
           /\ \/ generations[row[c].id] = g
              \/ generations[row[c].id] = 0 /\ g \notin 1..nextGeneration
           /\ row[c].limit > 0 => generation'[g].active <= row[c].limit
  BY AcquireFacts
<1>4. /\ \A l \in Leases \ {t} : lease'[l] = lease[l]
      /\ lease'[t] = NewLease(g, row[c])
      /\ \A q \in Providers \ {p} : generations'[q] = generations[q]
      /\ generations'[p] = g
  BY <1>1, <1>3 DEF TypeLimiter
<1>5. ASSUME NEW l \in Leases \ {t}, lease[l].gen /= 0
      PROVE  /\ ProviderOf(l) \in Providers /\ ProviderOf(l)' = ProviderOf(l)
             /\ InCurrentGeneration(l)' => InCurrentGeneration(l)
  <2>1. lease[l].gen \in 1..nextGeneration
    BY <1>5 DEF TypeLimiter, LeaseType
  <2>2. ProviderOf(l) \in Providers /\ ProviderOf(l)' = ProviderOf(l)
    BY <1>3, <1>4, <2>1 DEF ProviderOf, TypeLimiter
  <2>. QED
    BY <1>3, <1>4, <2>1, <2>2 DEF InCurrentGeneration
<1>. HIDE DEF t, p
<1>6. LifecycleHeld'
  BY <1>2 DEF Return, RUnlock, LifecycleHeld, TypeCallers, TypeLock, adminVars
<1>7. ScopeRetired'
  BY <1>1, <1>2 DEF ScopeRetired, LifecycleHeld, adminVars
<1>8. RowsRead'
  <2>. SUFFICES ASSUME NEW d \in Callers PROVE RowRead(d)'
    BY DEF RowsRead
  <2>1. CASE d = c
    BY <1>2, <2>1 DEF Return, RowRead, RowPCs, TypeCallers
  <2>2. CASE d /= c
    <3>1. UNCHANGED <<pc[d], row[d], target[d], peer[d]>> /\ RowRead(d) /\ UNCHANGED store
      BY <1>2, <2>2 DEF Return, TypeCallers, RowsRead
    <3>2. pc[d] = "actAcquire" => UNCHANGED ProviderOf(peer[d])
      <4>1. pc[d] = "actAcquire" => peer[d] \in Leases \ {t} /\ lease[peer[d]].gen \in 1..nextGeneration
        BY <1>1 DEF HandlesOwned, ActivePCs, TypeLimiter, LeaseType
      <4>. QED
        BY <1>3, <1>4, <3>1, <4>1 DEF ProviderOf
    <3>3. pc[d] \in PermitPCs => /\ UNCHANGED ProviderOf(target[d])
                                 /\ InCurrentGeneration(target[d])' => InCurrentGeneration(target[d])
      <4>. SUFFICES ASSUME pc[d] \in PermitPCs
                    PROVE  /\ UNCHANGED ProviderOf(target[d])
                           /\ InCurrentGeneration(target[d])' => InCurrentGeneration(target[d])
        OBVIOUS
      <4>1. target[d] \in Leases \ {t} /\ lease[target[d]].gen \in 1..nextGeneration
        BY <1>1, <2>2 DEF HandlesOwned, TypeLimiter, LeaseType
      <4>2. ProviderOf(target[d]) \in Providers /\ UNCHANGED ProviderOf(target[d])
        BY <1>3, <1>4, <3>1, <4>1 DEF ProviderOf, TypeLimiter
      <4>. QED
        BY <1>3, <1>4, <3>1, <4>1, <4>2 DEF InCurrentGeneration, p
    <3>. QED
      BY <3>1, <3>2, <3>3 DEF RowRead, RowPCs, PermitPCs
  <2>. QED
    BY <2>1, <2>2
<1>9. CurrentLeaseFresh' /\ LeasesCounted'
  <2>. SUFFICES ASSUME NEW l \in Leases, isCurrentLocked(l)'
                PROVE  /\ lease'[l].provider = store'[ProviderOf(l)']
                       /\ lease'[l].counted <=> store'[ProviderOf(l)'].limit > 0
    BY DEF CurrentLeaseFresh, LeasesCounted
  <2>1. CASE l = t
    <3>0. lease'[l].provider = row[c]
      BY <1>4, <2>1 DEF NewLease
    <3>1. lease'[l].gen = g /\ (lease'[l].counted <=> row[c].limit > 0)
      BY <1>4, <2>1, NewLeaseFields
    <3>2. ProviderOf(l)' = p
      BY <1>3, <3>1 DEF ProviderOf, p
    <3>. QED
      BY <1>1, <1>2, <3>0, <3>1, <3>2
  <2>2. CASE l /= t
    <3>1. lease'[l] = lease[l] /\ ~lease[l].released /\ lease[l].gen /= 0
      BY <1>4, <2>2 DEF isCurrentLocked, GenerationsFiled
    <3>2. ProviderOf(l)' = ProviderOf(l) /\ isCurrentLocked(l)
      BY <1>5, <2>2, <3>1 DEF isCurrentLocked, InCurrentGeneration
    <3>. QED
      BY <1>2, <3>1, <3>2 DEF CurrentLeaseFresh, LeasesCounted, isCurrentLocked
  <2>. QED
    BY <2>1, <2>2
<1>10. CountersCapped'
  <2>. SUFFICES ASSUME NEW q \in Providers, generations'[q] /= 0, store'[q].limit > 0
                PROVE  generation'[generations'[q]].active <= store'[q].limit
    BY DEF CountersCapped
  <2>1. CASE q = p
    BY <1>1, <1>2, <1>3, <1>4, <2>1 DEF p
  <2>2. CASE q /= p
    <3>1. generations'[q] = generations[q] /\ generations[q] \in 1..nextGeneration
      BY <1>4, <2>2 DEF TypeLimiter
    <3>2. generation[generations[q]].provider = q
      BY <3>1 DEF GenerationsFiled
    <3>3. generations[q] /= g
      BY <1>3, <2>2, <3>1, <3>2 DEF p
    <3>. QED
      BY <1>2, <1>3, <3>1, <3>3 DEF CountersCapped
  <2>. QED
    BY <2>1, <2>2
<1>11. PermitExclusive'
  <2>1. \A l \in Leases : PermitHolders(l)' = PermitHolders(l)
    BY <1>1, <1>2 DEF Return, PermitHolders, HoldsPermit, TypeCallers, HandlesOwned
  <2>2. PermitHolders(t) = {}
    BY <1>1 DEF PermitHolders, HoldsPermit, HandlesOwned
  <2>3. ~lease'[t].permitFlag
    BY <1>4 DEF NewLease
  <2>. QED
    BY <1>4, <2>1, <2>2, <2>3 DEF PermitExclusive
<1>. QED
  BY <1>6, <1>7, <1>8, <1>9, <1>10, <1>11

\* Giving a slot back takes nothing from anybody else.
LEMMA ReleaseKeepsGrants ==
  ASSUME CountInv, GrantInv, TypeLimiter', NEW l \in Leases, Release(l)
  PROVE  GrantInv'
<1>. USE DEF CountInv, TypeOK, GrantInv
<1>1. /\ ~lease[l].released /\ lease' = [lease EXCEPT ![l].released = TRUE]
      /\ UNCHANGED <<store, writes, generations, nextGeneration, lockVars, callerVars, adminVars>>
  BY DEF Release, releaseLeaseLocked
<1>2. \A k \in Leases : /\ lease'[k].gen = lease[k].gen /\ lease'[k].counted = lease[k].counted
                        /\ lease'[k].provider = lease[k].provider
                        /\ lease'[k].permitFlag = lease[k].permitFlag
                        /\ lease'[k].released <=> (lease[k].released \/ k = l)
  BY <1>1 DEF TypeLimiter, LeaseType
<1>3. ASSUME NEW h \in 1..nextGeneration
      PROVE  /\ generation'[h].provider = generation[h].provider
             /\ generation[h].active \in Nat /\ generation'[h].active \in Nat
             /\ generation'[h].active <= generation[h].active
  <2>1. generation[h].active \in Nat /\ generation'[h].active \in Nat
    BY <1>1 DEF TypeLimiter
  <2>2. generation'[h].provider = generation[h].provider
    BY DEF Release, releaseLeaseLocked, TypeLimiter
  <2>3. generation'[h].active = generation[h].active \/ generation'[h].active = generation[h].active - 1
    BY DEF Release, releaseLeaseLocked, TypeLimiter
  <2>. QED
    BY <2>1, <2>2, <2>3
<1>4. LifecycleHeld' /\ ScopeRetired'
  BY <1>1 DEF LifecycleHeld, ScopeRetired, lockVars, callerVars, adminVars
<1>5. RowsRead'
  <2>. SUFFICES ASSUME NEW d \in Callers PROVE RowRead(d)'
    BY DEF RowsRead
  <2>1. UNCHANGED <<pc, row, target, peer, store, generations>> /\ RowRead(d)
    BY <1>1 DEF callerVars, RowsRead
  <2>2. pc[d] = "actAcquire" => peer[d] \in Leases /\ lease[peer[d]].gen \in 1..nextGeneration
    BY DEF HandlesOwned, ActivePCs, TypeLimiter, LeaseType
  <2>3. pc[d] \in PermitPCs => target[d] \in Leases /\ lease[target[d]].gen \in 1..nextGeneration
    BY DEF HandlesOwned, TypeLimiter, LeaseType
  <2>. QED
    BY <1>2, <1>3, <2>1, <2>2, <2>3 DEF RowRead, RowPCs, PermitPCs, ProviderOf, InCurrentGeneration
<1>6. CurrentLeaseFresh' /\ LeasesCounted'
  <2>. SUFFICES ASSUME NEW k \in Leases, isCurrentLocked(k)'
                PROVE  /\ lease'[k].provider = store'[ProviderOf(k)']
                       /\ lease'[k].counted <=> store'[ProviderOf(k)'].limit > 0
    BY DEF CurrentLeaseFresh, LeasesCounted
  <2>1. ~lease[k].released /\ lease[k].gen \in 1..nextGeneration
    BY <1>2 DEF isCurrentLocked, GenerationsFiled, TypeLimiter, LeaseType
  <2>2. ProviderOf(k)' = ProviderOf(k)
    BY <1>2, <1>3, <2>1 DEF ProviderOf
  <2>3. isCurrentLocked(k)
    BY <1>1, <1>2, <2>1, <2>2 DEF isCurrentLocked
  <2>. QED
    BY <1>1, <1>2, <2>1, <2>2, <2>3 DEF CurrentLeaseFresh, LeasesCounted
<1>7. CountersCapped'
  <2>. SUFFICES ASSUME NEW q \in Providers, generations[q] /= 0, store[q].limit > 0
                PROVE  generation'[generations[q]].active <= store[q].limit
    BY <1>1 DEF CountersCapped
  <2>0. generations[q] \in 0..nextGeneration /\ nextGeneration \in Nat
    BY DEF TypeLimiter
  <2>1. generations[q] \in 1..nextGeneration /\ store[q].limit \in Nat
    <3>1. generations[q] \in 1..nextGeneration
      BY <2>0
    <3>2. store[q].limit \in Nat
      BY LimitsAssumption DEF TypeStore, Config
    <3>. QED
      BY <3>1, <3>2
  <2>2. generation[generations[q]].active <= store[q].limit
    BY DEF CountersCapped
  <2>. QED
    BY <1>3, <2>1, <2>2
<1>8. PermitExclusive'
  BY <1>1, <1>2 DEF PermitExclusive, PermitHolders, HoldsPermit, callerVars
<1>. QED
  BY <1>4, <1>5, <1>6, <1>7, <1>8

\* An admin may retire generations, and change rows of providers that have none.
LEMMA AdminGrants ==
  ASSUME CountInv, GrantInv, UNCHANGED <<nextGeneration, generation, lease, callerVars>>,
         \A p \in Providers : generations'[p] \in {0, generations[p]},
         \A p \in Providers : generations'[p] /= 0 => store'[p] = store[p],
         \/ UNCHANGED store
         \/ \A c \in Callers : pc[c] \notin {"selAcquire", "actAcquire"},
         LifecycleHeld', ScopeRetired'
  PROVE  GrantInv'
<1>. USE DEF CountInv, TypeOK, GrantInv
<1>1. ASSUME NEW l \in Leases, lease[l].gen /= 0
      PROVE  /\ ProviderOf(l) \in Providers /\ ProviderOf(l)' = ProviderOf(l)
             /\ InCurrentGeneration(l)' => /\ InCurrentGeneration(l)
                                            /\ store'[ProviderOf(l)] = store[ProviderOf(l)]
  <2>1. lease[l].gen \in 1..nextGeneration
    BY <1>1 DEF TypeLimiter, LeaseType
  <2>2. ProviderOf(l) \in Providers /\ ProviderOf(l)' = ProviderOf(l)
    BY <2>1 DEF ProviderOf, TypeLimiter
  <2>. QED
    BY <1>1, <2>2 DEF InCurrentGeneration
<1>2. RowsRead'
  <2>. SUFFICES ASSUME NEW d \in Callers PROVE RowRead(d)'
    BY DEF RowsRead
  <2>1. UNCHANGED <<pc, row, target, peer>> /\ RowRead(d)
    BY DEF callerVars, RowsRead
  <2>2. pc[d] = "actAcquire" => UNCHANGED ProviderOf(peer[d])
    BY <2>1 DEF ProviderOf
  <2>3. pc[d] \in PermitPCs =>
          /\ UNCHANGED ProviderOf(target[d])
          /\ InCurrentGeneration(target[d])' =>
               /\ InCurrentGeneration(target[d])
               /\ store'[ProviderOf(target[d])] = store[ProviderOf(target[d])]
    <3>. SUFFICES ASSUME pc[d] \in PermitPCs
                  PROVE  /\ UNCHANGED ProviderOf(target[d])
                         /\ InCurrentGeneration(target[d])' =>
                              /\ InCurrentGeneration(target[d])
                              /\ store'[ProviderOf(target[d])] = store[ProviderOf(target[d])]
      OBVIOUS
    <3>1. target[d] \in Leases /\ lease[target[d]].gen /= 0
      BY DEF HandlesOwned
    <3>2. ProviderOf(target[d]) \in Providers /\ UNCHANGED ProviderOf(target[d])
      BY <1>1, <2>1, <3>1 DEF ProviderOf
    <3>. QED
      BY <2>1, <3>1, <3>2 DEF InCurrentGeneration
  <2>. QED
    BY <2>1, <2>2, <2>3 DEF RowRead, RowPCs, PermitPCs
<1>3. CurrentLeaseFresh' /\ LeasesCounted'
  <2>. SUFFICES ASSUME NEW l \in Leases, isCurrentLocked(l)'
                PROVE  /\ lease'[l].provider = store'[ProviderOf(l)']
                       /\ lease'[l].counted <=> store'[ProviderOf(l)'].limit > 0
    BY DEF CurrentLeaseFresh, LeasesCounted
  <2>1. ~lease[l].released /\ lease[l].gen /= 0 /\ InCurrentGeneration(l)'
    BY DEF isCurrentLocked, InCurrentGeneration, GenerationsFiled
  <2>2. /\ ProviderOf(l)' = ProviderOf(l) /\ isCurrentLocked(l)
        /\ store'[ProviderOf(l)] = store[ProviderOf(l)]
    BY <1>1, <2>1 DEF isCurrentLocked, InCurrentGeneration
  <2>. QED
    BY <2>1, <2>2 DEF CurrentLeaseFresh, LeasesCounted
<1>4. CountersCapped'
  BY DEF CountersCapped
<1>5. PermitExclusive'
  BY DEF PermitExclusive, PermitHolders, HoldsPermit, callerVars
<1>. QED
  BY <1>2, <1>3, <1>4, <1>5

\* An admin that begins changes nothing that is granted.
LEMMA AdminBeginKeepsGrants ==
  ASSUME CountInv, GrantInv, AdminBegin
  PROVE  GrantInv'
<1>. USE DEF CountInv, TypeOK, GrantInv
<1>1. PICK a, label, rows, retired : /\ a \in Admins /\ label \in {"enter", "direct"}
                                     /\ AdminVarsBegin(a, rows, retired, label)
  BY Zenon DEF AdminBegin, UpdateBegin, BulkBegin, ToggleBegin, Admins
<1>2. /\ a \in Admins /\ label \in {"enter", "direct"}
      /\ apc[a] = "idle" /\ apc' = [apc EXCEPT ![a] = label]
      /\ scope' = [scope EXCEPT ![a] = retired]
      /\ UNCHANGED <<store, limiterVars, lockVars, callerVars>>
  BY <1>1 DEF AdminVarsBegin
<1>3. LifecycleHeld' /\ ScopeRetired'
  BY <1>2 DEF LifecycleHeld, ScopeRetired, TypeAdmins, lockVars, callerVars, limiterVars
<1>. QED
  BY <1>2, <1>3, AdminGrants DEF limiterVars

\* The steps of an admin that has begun: a row changes while its provider has no
\* generation and nobody holds the read side.
LEMMA AdminStepKeepsGrants ==
  ASSUME CountInv, GrantInv, NEW a \in Admins, AdminStep(a), DirectStore(a) => UNCHANGED store
  PROVE  GrantInv'
<1>. USE DEF CountInv, TypeOK, GrantInv
<1>1. CASE MutateAnnounce(a)
  <2>1. LifecycleHeld' /\ ScopeRetired'
    BY <1>1, DistinctAssumption DEF MutateAnnounce, LifecycleHeld, ScopeRetired, TypeAdmins,
      limiterVars, callerVars
  <2>. QED
    BY <1>1, <2>1, AdminGrants DEF MutateAnnounce, limiterVars
<1>2. CASE MutateRetire(a)
  <2>1. LifecycleHeld'
    BY <1>2 DEF MutateRetire, LifecycleHeld, TypeAdmins, callerVars
  <2>2. ScopeRetired'
    BY <1>2 DEF MutateRetire, ScopeRetired, TypeAdmins
  <2>3. \A p \in Providers : generations'[p] \in {0, generations[p]}
    BY <1>2 DEF MutateRetire
  <2>. QED
    BY <1>2, <2>1, <2>2, <2>3, AdminGrants DEF MutateRetire
<1>3. CASE MutateStore(a)
  <2>1. LifecycleHeld' /\ ScopeRetired'
    BY <1>3 DEF MutateStore, LifecycleHeld, ScopeRetired, TypeAdmins, lockVars, limiterVars,
      callerVars
  <2>2. \A p \in Providers : generations[p] /= 0 => store'[p] = store[p]
    <3>1. \A p \in Providers : generations[p] /= 0 => draft[a][p] = NoRow
      BY <1>3 DEF MutateStore, ScopeRetired, RowsFiled
    <3>. QED
      BY <1>3, <3>1 DEF MutateStore, WriteRows
  <2>3. \A c \in Callers : pc[c] \notin {"selAcquire", "actAcquire"}
    BY <1>3 DEF MutateStore, LifecycleHeld
  <2>. QED
    BY <1>3, <2>1, <2>2, <2>3, AdminGrants DEF MutateStore, limiterVars
<1>4. CASE MutateUnlock(a)
  <2>1. LifecycleHeld' /\ ScopeRetired'
    BY <1>4, DistinctAssumption DEF MutateUnlock, AdminReturn, LifecycleHeld, ScopeRetired,
      TypeAdmins,
      limiterVars, callerVars
  <2>. QED
    BY <1>4, <2>1, AdminGrants DEF MutateUnlock, limiterVars
<1>5. CASE DirectStore(a)
  <2>1. LifecycleHeld' /\ ScopeRetired'
    BY <1>5 DEF DirectStore, AdminReturn, LifecycleHeld, ScopeRetired, TypeAdmins, lockVars,
      limiterVars, callerVars
  <2>. QED
    BY <1>5, <2>1, AdminGrants DEF DirectStore, limiterVars
<1>. QED
  BY <1>1, <1>2, <1>3, <1>4, <1>5 DEF AdminStep

\* GrantInv is inductive, relative to CountInv, while toggles are idempotent.
LEMMA NextKeepsGrants ==
  ASSUME CountInv, CountInv', GrantInv, [Next]_vars,
         [\A a \in Admins : DirectStore(a) => UNCHANGED store]_vars
  PROVE  GrantInv'
<1>1. CASE UNCHANGED vars
  <2>1. LifecycleHeld' /\ ScopeRetired'
    BY <1>1 DEF GrantInv, LifecycleHeld, ScopeRetired, vars, lockVars, limiterVars, callerVars,
      adminVars
  <2>. QED
    BY <1>1, <2>1, AdminGrants DEF vars, limiterVars
<1>2. ASSUME NEW c \in Callers, CallerStep(c) PROVE GrantInv'
  BY <1>2, GivingUpKeepsGrants, LookingKeepsGrants, LeavingKeepsGrants, PermitKeepsGrants,
    AcquiringKeepsGrants DEF CallerStep
<1>3. ASSUME NEW c \in Callers, CallerBegin(c) PROVE GrantInv'
  BY <1>3, LookingKeepsGrants DEF CallerBegin
<1>4. ASSUME NEW a \in Admins, AdminStep(a), ~UNCHANGED vars PROVE GrantInv'
  BY <1>4, AdminStepKeepsGrants
<1>5. TypeLimiter'
  BY DEF CountInv, TypeOK
<1>. QED
  BY <1>1, <1>2, <1>3, <1>4, <1>5, ReleaseKeepsGrants, AdminBeginKeepsGrants DEF Next

\* The leases of a current limited generation are those its counter counts.
LEMMA GrantsSound == CountInv /\ GrantInv => GrantsAreSound
<1>. SUFFICES ASSUME CountInv, GrantInv PROVE CapacityRespected
  BY DEF GrantInv, GrantsAreSound
<1>. SUFFICES ASSUME NEW p \in Providers, generations[p] /= 0, store[p].limit > 0
              PROVE  Cardinality({l \in Leases : lease[l].gen = generations[p] /\ ~lease[l].released})
                       <= store[p].limit
  BY DEF CapacityRespected
<1>. DEFINE g == generations[p]
<1>1. g \in 1..nextGeneration /\ generation[g].provider = p
  BY DEF CountInv, TypeOK, TypeLimiter, GenerationsFiled
<1>2. \A l \in Leases : lease[l].gen = g /\ ~lease[l].released => lease[l].counted
  BY <1>1 DEF GrantInv, LeasesCounted, isCurrentLocked, ProviderOf
<1>3. {l \in Leases : lease[l].gen = g /\ ~lease[l].released} = HeldCounted(g)
  BY <1>2 DEF HeldCounted
<1>. QED
  BY <1>1, <1>3 DEF CountInv, CounterExact, GrantInv, CountersCapped

\* What selections, active reuse and dispatch permits grant stays sound however they
\* interleave with each other and with mutations of the rows: a current generation has
\* no more leases out than the stored limit, a current lease carries the stored row, and
\* a lease has at most one redispatch permit.  The hypothesis excludes the one write that
\* goes past the retirement boundary: an idempotent toggle whose row has changed since it
\* was read (setProviderEnabled).
THEOREM GrantsStaySound == Spec /\ TogglesIdempotent => []GrantsAreSound
<1>1. CountInv /\ [Next]_vars => CountInv'
  BY NextKeepsCount
<1>2. CountInv /\ CountInv' /\ GrantInv /\ [Next]_vars
        /\ [\A a \in Admins : DirectStore(a) => UNCHANGED store]_vars => GrantInv'
  BY NextKeepsGrants
<1>. QED
  BY <1>1, <1>2, InitCount, InitGrants, GrantsSound, PTL DEF Spec, TogglesIdempotent

\* A redispatch that activates does so with the row that is stored at that moment and
\* enabled, although the row was read without the lifecycle lock (ReserveSameProviderDispatch,
\* ProviderDispatchPermit.Activate), under the same hypothesis.
THEOREM RedispatchesAreLive == Spec /\ TogglesIdempotent => DispatchesLiveRow
<1>. DEFINE Live == \A c \in Callers :
                      pc[c] = "dispLock" /\ permit[c] = "reserved" /\ permit'[c] = "none"
                        => row[c] = store[row[c].id] /\ row[c].enabled
<1>1. CountInv /\ [Next]_vars => CountInv'
  BY NextKeepsCount
<1>2. CountInv /\ CountInv' /\ GrantInv /\ [Next]_vars
        /\ [\A a \in Admins : DirectStore(a) => UNCHANGED store]_vars => GrantInv'
  BY NextKeepsGrants
<1>3. ASSUME CountInv, GrantInv, [Next]_vars PROVE [Live]_vars
  <2>. SUFFICES ASSUME NEW c \in Callers, pc[c] = "dispLock", permit[c] = "reserved",
                       permit'[c] = "none"
                PROVE  row[c] = store[row[c].id] /\ row[c].enabled
    OBVIOUS
  <2>1. ActivateWon(c)
    <3>0. permit \in [Callers -> PermitStatus]
      BY <1>3 DEF CountInv, TypeOK, TypeCallers
    <3>1. ~UNCHANGED permit /\ ~UNCHANGED vars /\ ~clearing[c]
      BY <1>3 DEF vars, callerVars, CountInv, HandlesOwned
    <3>2. ASSUME NEW d \in Callers, CallerStep(d) \/ CallerBegin(d) PROVE ActivateWon(c)
      <4>1. CASE d = c
        BY <3>0, <3>1, <3>2, <4>1 DEF CallerStep, CallerBegin, SelectLock, ActiveLock,
          RevalidateCheck,
          SelectRead, SelectAcquire, SelectFull, SelectFail, ActiveCheck, ActiveRead,
          acquireInGenerationUnderLifecycle, ActiveFail, RevalidateRead, RevalidateRecheck,
          RevalidateFail, PermitReserve, PermitRefused, ActivateLock, ActivateReleased,
          ActivateLost, ActivateFailed, PermitRelease, PermitClear
      <4>2. CASE d /= c
        <5>1. permit'[c] = permit[c]
          BY <3>0, <3>2, <4>2 DEF CallerStep, CallerBegin, SelectLock, ActiveLock, RevalidateCheck,
            SelectRead, SelectAcquire, SelectFull, SelectFail, ActiveCheck, ActiveRead,
            acquireInGenerationUnderLifecycle, ActiveFail, RevalidateRead, RevalidateRecheck,
            RevalidateFail, PermitReserve, PermitRefused, ActivateLock, ActivateReleased, ActivateWon,
            ActivateLost, ActivateFailed, PermitRelease, PermitClear, LeavePermit, Return
        <5>. QED
          BY <5>1
      <4>. QED
        BY <4>1, <4>2
    <3>3. (\E l \in Leases : Release(l)) \/ (\E a \in Admins : AdminStep(a)) \/ AdminBegin
            => UNCHANGED permit
      BY DEF Release, AdminStep, MutateAnnounce, MutateRetire, MutateStore, MutateUnlock,
        DirectStore,
        AdminBegin, UpdateBegin, BulkBegin, ToggleBegin, AdminVarsBegin, callerVars
    <3>. QED
      BY <1>3, <3>1, <3>2, <3>3 DEF Next
  <2>2. InCurrentGeneration(target[c])
    BY <2>1 DEF ActivateWon, isCurrentLocked, InCurrentGeneration
  <2>. QED
    BY <1>3, <2>2 DEF GrantInv, RowsRead, RowRead, RowPCs
<1>. QED
  BY <1>1, <1>2, <1>3, InitCount, InitGrants, PTL DEF Spec, TogglesIdempotent, DispatchesLiveRow

-----------------------------------------------------------------------------
(* Reservations.                                                           *)

\* Which read locks are held, caller by caller: the form the proofs use.
HoldsLock(c) ==
  \/ sharerPc[c] \in {"recheck", "commit", "stale", "rollback"}
  \/ sharerPc[c] = "read" /\ c \in holding
  \/ sharerPc[c] = "dropGuard" /\ result[c] = "rejected"
  \/ c = guard

LocksHeld == \A c \in Sharers : c \in holding <=> HoldsLock(c)

\* The accounting of read locks, as a set and caller by caller, is the same.
LEMMA LocksPointwise ==
  ASSUME ReservationTypeOK
  PROVE  ReadLocksAccounted <=> LocksHeld
BY NobodyAssumption DEF ReservationTypeOK, ReadLocksAccounted, LocksHeld, HoldsLock

\* The invariant with the read locks caller by caller.
ReservationPoints == ReservationTypeOK /\ LocksHeld /\ SlotGivenBackOnce /\ GuardOwned /\ LockExcludes /\ RowsLive

LEMMA InvIsPoints == ReservationInv <=> ReservationPoints
BY LocksPointwise DEF ReservationInv, ReservationPoints, ReservationAccounted

\* A fresh reservation is unlocked, current and holds its slot.
LEMMA ReservationStarts == ReservationInit => ReservationPoints
<1>. SUFFICES ASSUME ReservationInit PROVE ReservationPoints
  OBVIOUS
<1>1. ReservationTypeOK
  BY RowWritesAssumption DEF ReservationInit, ReservationTypeOK, Statuses, ReservationPCs, WriterPCs,
     Results, StoredRow, InitialRow
<1>. QED
  BY <1>1, NobodyAssumption DEF ReservationInit, ReservationPoints, LocksHeld, HoldsLock,
     SlotGivenBackOnce, GuardOwned, LockExcludes, RowsLive

\* A prepare of a reservation that is no longer reserved only answers.
LEMMA KeepsPrepareDone ==
  ASSUME ReservationPoints, NEW c \in Sharers, PrepareDone(c)
  PROVE  ReservationPoints'
<1>. USE NobodyAssumption DEF ReservationPoints, PrepareDone, ReturnFrom, gateVars, slotVars, writerVars
<1>1. ReservationTypeOK'
  BY DEF ReservationTypeOK, Statuses, ReservationPCs, Results
<1>2. LocksHeld'
  BY DEF ReservationTypeOK, LocksHeld, HoldsLock, GuardOwned, LockExcludes
<1>3. SlotGivenBackOnce' /\ GuardOwned'
  BY DEF ReservationTypeOK, SlotGivenBackOnce, GuardOwned, Statuses
<1>4. LockExcludes'
  BY DEF ReservationTypeOK, LockExcludes
<1>5. RowsLive'
  BY DEF ReservationTypeOK, RowsLive
<1>. QED
  BY <1>1, <1>2, <1>3, <1>4, <1>5

\* Taking or queueing for the read lock.
LEMMA KeepsPrepareBegin ==
  ASSUME ReservationPoints, NEW c \in Sharers, PrepareBegin(c)
  PROVE  ReservationPoints'
<1>. USE NobodyAssumption DEF ReservationPoints, PrepareBegin, ReadLock, GoTo, slotVars, writerVars
<1>1. ReservationTypeOK'
  BY DEF ReservationTypeOK, Statuses, ReservationPCs, Results
<1>2. LocksHeld'
  BY DEF ReservationTypeOK, LocksHeld, HoldsLock, GuardOwned, LockExcludes
<1>3. SlotGivenBackOnce' /\ GuardOwned'
  BY DEF ReservationTypeOK, SlotGivenBackOnce, GuardOwned, Statuses
<1>4. LockExcludes'
  BY DEF ReservationTypeOK, LockExcludes, LocksHeld, HoldsLock, GuardOwned
<1>5. RowsLive'
  BY DEF ReservationTypeOK, RowsLive
<1>. QED
  BY <1>1, <1>2, <1>3, <1>4, <1>5

\* The row read under the lock is the stored one.
LEMMA KeepsRevalidateStored ==
  ASSUME ReservationPoints, NEW c \in Sharers, RevalidateStored(c)
  PROVE  ReservationPoints'
<1>. USE NobodyAssumption DEF ReservationPoints, RevalidateStored, isCurrent, GoTo, gateVars, slotVars, writerVars
<1>1. ReservationTypeOK'
  BY DEF ReservationTypeOK, Statuses, ReservationPCs, Results
<1>2. LocksHeld'
  BY DEF ReservationTypeOK, LocksHeld, HoldsLock, GuardOwned, LockExcludes
<1>3. SlotGivenBackOnce' /\ GuardOwned'
  BY DEF ReservationTypeOK, SlotGivenBackOnce, GuardOwned, Statuses
<1>4. LockExcludes'
  BY DEF ReservationTypeOK, LockExcludes
<1>5. RowsLive'
  BY DEF ReservationTypeOK, RowsLive
<1>. QED
  BY <1>1, <1>2, <1>3, <1>4, <1>5

\* The second look at the generation.
LEMMA KeepsRevalidateAgain ==
  ASSUME ReservationPoints, NEW c \in Sharers, RevalidateAgain(c)
  PROVE  ReservationPoints'
<1>. USE NobodyAssumption DEF ReservationPoints, RevalidateAgain, isCurrent, GoTo, gateVars, slotVars, writerVars
<1>1. ReservationTypeOK'
  BY DEF ReservationTypeOK, Statuses, ReservationPCs, Results
<1>2. LocksHeld'
  BY DEF ReservationTypeOK, LocksHeld, HoldsLock, GuardOwned, LockExcludes
<1>3. SlotGivenBackOnce' /\ GuardOwned'
  BY DEF ReservationTypeOK, SlotGivenBackOnce, GuardOwned, Statuses
<1>4. LockExcludes'
  BY DEF ReservationTypeOK, LockExcludes
<1>5. RowsLive'
  BY DEF ReservationTypeOK, RowsLive
<1>. QED
  BY <1>1, <1>2, <1>3, <1>4, <1>5

\* The commit makes its caller's read lock the guard and its row the lease's.
LEMMA KeepsPrepareCommit ==
  ASSUME ReservationPoints, NEW c \in Sharers, PrepareCommit(c)
  PROVE  ReservationPoints'
<1>. USE NobodyAssumption DEF ReservationPoints, PrepareCommit, isCurrent, ReturnFrom, gateVars, writerVars
<1>1. ReservationTypeOK'
  BY DEF ReservationTypeOK, Statuses, ReservationPCs, Results
<1>2. LocksHeld'
  BY DEF ReservationTypeOK, LocksHeld, HoldsLock, GuardOwned, LockExcludes
<1>3. SlotGivenBackOnce' /\ GuardOwned'
  BY DEF ReservationTypeOK, SlotGivenBackOnce, GuardOwned, Statuses
<1>4. LockExcludes'
  BY DEF ReservationTypeOK, LockExcludes
<1>5. RowsLive'
  BY DEF ReservationTypeOK, RowsLive
<1>. QED
  BY <1>1, <1>2, <1>3, <1>4, <1>5

\* A commit that came too late changes nothing.
LEMMA KeepsPrepareLost ==
  ASSUME ReservationPoints, NEW c \in Sharers, PrepareLost(c)
  PROVE  ReservationPoints'
<1>. USE NobodyAssumption DEF ReservationPoints, PrepareLost, isCurrent, GoTo, gateVars, slotVars, writerVars
<1>1. ReservationTypeOK'
  BY DEF ReservationTypeOK, Statuses, ReservationPCs, Results
<1>2. LocksHeld'
  BY DEF ReservationTypeOK, LocksHeld, HoldsLock, GuardOwned, LockExcludes
<1>3. SlotGivenBackOnce' /\ GuardOwned'
  BY DEF ReservationTypeOK, SlotGivenBackOnce, GuardOwned, Statuses
<1>4. LockExcludes'
  BY DEF ReservationTypeOK, LockExcludes
<1>5. RowsLive'
  BY DEF ReservationTypeOK, RowsLive
<1>. QED
  BY <1>1, <1>2, <1>3, <1>4, <1>5

\* A failed prepare of a settled reservation gives its own lock back.
LEMMA KeepsStaleObserved ==
  ASSUME ReservationPoints, NEW c \in Sharers, StaleObserved(c)
  PROVE  ReservationPoints'
<1>. USE NobodyAssumption DEF ReservationPoints, StaleObserved, ReturnFrom, ReadUnlock, slotVars, writerVars
<1>1. ReservationTypeOK'
  BY DEF ReservationTypeOK, Statuses, ReservationPCs, Results
<1>2. LocksHeld'
  BY DEF ReservationTypeOK, LocksHeld, HoldsLock, GuardOwned, LockExcludes
<1>3. SlotGivenBackOnce' /\ GuardOwned'
  BY DEF ReservationTypeOK, SlotGivenBackOnce, GuardOwned, Statuses
<1>4. LockExcludes'
  BY DEF ReservationTypeOK, LockExcludes
<1>5. RowsLive'
  BY DEF ReservationTypeOK, RowsLive
<1>. QED
  BY <1>1, <1>2, <1>3, <1>4, <1>5

\* A failed prepare decides to roll back.
LEMMA KeepsStaleRollback ==
  ASSUME ReservationPoints, NEW c \in Sharers, StaleRollback(c)
  PROVE  ReservationPoints'
<1>. USE NobodyAssumption DEF ReservationPoints, StaleRollback, GoTo, gateVars, slotVars, writerVars
<1>1. ReservationTypeOK'
  BY DEF ReservationTypeOK, Statuses, ReservationPCs, Results
<1>2. LocksHeld'
  BY DEF ReservationTypeOK, LocksHeld, HoldsLock, GuardOwned, LockExcludes
<1>3. SlotGivenBackOnce' /\ GuardOwned'
  BY DEF ReservationTypeOK, SlotGivenBackOnce, GuardOwned, Statuses
<1>4. LockExcludes'
  BY DEF ReservationTypeOK, LockExcludes
<1>5. RowsLive'
  BY DEF ReservationTypeOK, RowsLive
<1>. QED
  BY <1>1, <1>2, <1>3, <1>4, <1>5

\* The rollback releases whatever state the reservation is in by now.
LEMMA KeepsRollbackRelease ==
  ASSUME ReservationPoints, NEW c \in Sharers, RollbackRelease(c)
  PROVE  ReservationPoints'
<1>. USE NobodyAssumption DEF ReservationPoints, RollbackRelease, ReleaseTransition, GoTo, gateVars, writerVars
<1>1. ReservationTypeOK'
  BY DEF ReservationTypeOK, Statuses, ReservationPCs, Results
<1>2. LocksHeld'
  BY DEF ReservationTypeOK, LocksHeld, HoldsLock, GuardOwned, LockExcludes
<1>3. SlotGivenBackOnce' /\ GuardOwned'
  BY DEF ReservationTypeOK, SlotGivenBackOnce, GuardOwned, Statuses
<1>4. LockExcludes'
  BY DEF ReservationTypeOK, LockExcludes
<1>5. RowsLive'
  BY DEF ReservationTypeOK, RowsLive
<1>. QED
  BY <1>1, <1>2, <1>3, <1>4, <1>5

\* A rollback of a settled reservation gives its own lock back.
LEMMA KeepsRollbackMoot ==
  ASSUME ReservationPoints, NEW c \in Sharers, RollbackMoot(c)
  PROVE  ReservationPoints'
<1>. USE NobodyAssumption DEF ReservationPoints, RollbackMoot, ReturnFrom, ReadUnlock, slotVars, writerVars
<1>1. ReservationTypeOK'
  BY DEF ReservationTypeOK, Statuses, ReservationPCs, Results
<1>2. LocksHeld'
  BY DEF ReservationTypeOK, LocksHeld, HoldsLock, GuardOwned, LockExcludes
<1>3. SlotGivenBackOnce' /\ GuardOwned'
  BY DEF ReservationTypeOK, SlotGivenBackOnce, GuardOwned, Statuses
<1>4. LockExcludes'
  BY DEF ReservationTypeOK, LockExcludes
<1>5. RowsLive'
  BY DEF ReservationTypeOK, RowsLive
<1>. QED
  BY <1>1, <1>2, <1>3, <1>4, <1>5

\* A release settles the reservation and gives the slot back.
LEMMA KeepsReleaseReservation ==
  ASSUME ReservationPoints, NEW c \in Sharers, ReleaseReservation(c)
  PROVE  ReservationPoints'
<1>. USE NobodyAssumption DEF ReservationPoints, ReleaseReservation, ReleaseTransition, GoTo, gateVars, writerVars
<1>1. ReservationTypeOK'
  BY DEF ReservationTypeOK, Statuses, ReservationPCs, Results
<1>2. LocksHeld'
  BY DEF ReservationTypeOK, LocksHeld, HoldsLock, GuardOwned, LockExcludes
<1>3. SlotGivenBackOnce' /\ GuardOwned'
  BY DEF ReservationTypeOK, SlotGivenBackOnce, GuardOwned, Statuses
<1>4. LockExcludes'
  BY DEF ReservationTypeOK, LockExcludes
<1>5. RowsLive'
  BY DEF ReservationTypeOK, RowsLive
<1>. QED
  BY <1>1, <1>2, <1>3, <1>4, <1>5

\* An activation settles the reservation and keeps the slot.
LEMMA KeepsActivate ==
  ASSUME ReservationPoints, NEW c \in Sharers, Activate(c)
  PROVE  ReservationPoints'
<1>. USE NobodyAssumption DEF ReservationPoints, Activate, GoTo, gateVars, slotVars, writerVars
<1>1. ReservationTypeOK'
  BY DEF ReservationTypeOK, Statuses, ReservationPCs, Results
<1>2. LocksHeld'
  BY DEF ReservationTypeOK, LocksHeld, HoldsLock, GuardOwned, LockExcludes
<1>3. SlotGivenBackOnce' /\ GuardOwned'
  BY DEF ReservationTypeOK, SlotGivenBackOnce, GuardOwned, Statuses
<1>4. LockExcludes'
  BY DEF ReservationTypeOK, LockExcludes
<1>5. RowsLive'
  BY DEF ReservationTypeOK, RowsLive
<1>. QED
  BY <1>1, <1>2, <1>3, <1>4, <1>5

\* An activation of a reservation that is not prepared only answers.
LEMMA KeepsActivateAgain ==
  ASSUME ReservationPoints, NEW c \in Sharers, ActivateAgain(c)
  PROVE  ReservationPoints'
<1>. USE NobodyAssumption DEF ReservationPoints, ActivateAgain, ReturnFrom, gateVars, slotVars, writerVars
<1>1. ReservationTypeOK'
  BY DEF ReservationTypeOK, Statuses, ReservationPCs, Results
<1>2. LocksHeld'
  BY DEF ReservationTypeOK, LocksHeld, HoldsLock, GuardOwned, LockExcludes
<1>3. SlotGivenBackOnce' /\ GuardOwned'
  BY DEF ReservationTypeOK, SlotGivenBackOnce, GuardOwned, Statuses
<1>4. LockExcludes'
  BY DEF ReservationTypeOK, LockExcludes
<1>5. RowsLive'
  BY DEF ReservationTypeOK, RowsLive
<1>. QED
  BY <1>1, <1>2, <1>3, <1>4, <1>5

\* The guard is given back, with the lock of a rolled back prepare.
LEMMA KeepsReleaseLifecycleGuard ==
  ASSUME ReservationPoints, NEW c \in Sharers, releaseLifecycleGuard(c)
  PROVE  ReservationPoints'
<1>. USE NobodyAssumption DEF ReservationPoints, releaseLifecycleGuard, ReadUnlock, GoTo, slotVars, writerVars
<1>1. ReservationTypeOK'
  BY DEF ReservationTypeOK, Statuses, ReservationPCs, Results
<1>2. LocksHeld'
  BY DEF ReservationTypeOK, LocksHeld, HoldsLock, GuardOwned, LockExcludes
<1>3. SlotGivenBackOnce' /\ GuardOwned'
  BY DEF ReservationTypeOK, SlotGivenBackOnce, GuardOwned, Statuses
<1>4. LockExcludes'
  BY DEF ReservationTypeOK, LockExcludes
<1>5. RowsLive'
  BY DEF ReservationTypeOK, RowsLive
<1>. QED
  BY <1>1, <1>2, <1>3, <1>4, <1>5

\* The dispatch gives the slot back.
LEMMA KeepsLeaseRelease ==
  ASSUME ReservationPoints, NEW c \in Sharers, LeaseRelease(c)
  PROVE  ReservationPoints'
<1>. USE NobodyAssumption DEF ReservationPoints, LeaseRelease, gateVars, sharerVars, writerVars
<1>1. ReservationTypeOK'
  BY DEF ReservationTypeOK, Statuses, ReservationPCs, Results
<1>2. LocksHeld'
  BY DEF ReservationTypeOK, LocksHeld, HoldsLock, GuardOwned, LockExcludes
<1>3. SlotGivenBackOnce' /\ GuardOwned'
  BY DEF ReservationTypeOK, SlotGivenBackOnce, GuardOwned, Statuses
<1>4. LockExcludes'
  BY DEF ReservationTypeOK, LockExcludes
<1>5. RowsLive'
  BY DEF ReservationTypeOK, RowsLive
<1>. QED
  BY <1>1, <1>2, <1>3, <1>4, <1>5

\* A mutation begins outside the lock.
LEMMA KeepsMutateBegin ==
  ASSUME ReservationPoints, NEW w \in Writers, NEW e \in BOOLEAN, MutateBegin(w, e)
  PROVE  ReservationPoints'
<1>. USE NobodyAssumption DEF ReservationPoints, MutateBegin, gateVars, slotVars, sharerVars
<1>1. ReservationTypeOK'
  BY RowWritesAssumption DEF ReservationTypeOK, WriterPCs, StoredRow
<1>2. LocksHeld' /\ SlotGivenBackOnce' /\ GuardOwned'
  BY DEF ReservationTypeOK, LocksHeld, HoldsLock, GuardOwned, LockExcludes, SlotGivenBackOnce
<1>3. LockExcludes'
  BY DEF ReservationTypeOK, LockExcludes
<1>4. RowsLive'
  BY DEF ReservationTypeOK, RowsLive, LockExcludes, LocksHeld, HoldsLock, GuardOwned
<1>. QED
  BY <1>1, <1>2, <1>3, <1>4

\* A writer announces itself; readers queue behind it.
LEMMA KeepsWriterAnnounce ==
  ASSUME ReservationPoints, NEW w \in Writers, WriterAnnounce(w)
  PROVE  ReservationPoints'
<1>. USE NobodyAssumption DEF ReservationPoints, WriterAnnounce, slotVars, sharerVars
<1>1. ReservationTypeOK'
  BY RowWritesAssumption DEF ReservationTypeOK, WriterPCs, StoredRow
<1>2. LocksHeld' /\ SlotGivenBackOnce' /\ GuardOwned'
  BY DEF ReservationTypeOK, LocksHeld, HoldsLock, GuardOwned, LockExcludes, SlotGivenBackOnce
<1>3. LockExcludes'
  BY DEF ReservationTypeOK, LockExcludes
<1>4. RowsLive'
  BY DEF ReservationTypeOK, RowsLive, LockExcludes, LocksHeld, HoldsLock, GuardOwned
<1>. QED
  BY <1>1, <1>2, <1>3, <1>4

\* The generation is retired when no reader is inside.
LEMMA KeepsWriterRetire ==
  ASSUME ReservationPoints, NEW w \in Writers, WriterRetire(w)
  PROVE  ReservationPoints'
<1>. USE NobodyAssumption DEF ReservationPoints, WriterRetire, gateVars, sharerVars
<1>1. ReservationTypeOK'
  BY RowWritesAssumption DEF ReservationTypeOK, WriterPCs, StoredRow
<1>2. LocksHeld' /\ SlotGivenBackOnce' /\ GuardOwned'
  BY DEF ReservationTypeOK, LocksHeld, HoldsLock, GuardOwned, LockExcludes, SlotGivenBackOnce
<1>3. LockExcludes'
  BY DEF ReservationTypeOK, LockExcludes
<1>4. RowsLive'
  BY DEF ReservationTypeOK, RowsLive, LockExcludes, LocksHeld, HoldsLock, GuardOwned
<1>. QED
  BY <1>1, <1>2, <1>3, <1>4

\* The row is written, or the write fails, when no reader is inside.
LEMMA KeepsWriterStore ==
  ASSUME ReservationPoints, NEW w \in Writers, WriterStore(w)
  PROVE  ReservationPoints'
<1>. USE NobodyAssumption DEF ReservationPoints, WriterStore, gateVars, slotVars, sharerVars
<1>1. ReservationTypeOK'
  BY RowWritesAssumption DEF ReservationTypeOK, WriterPCs, StoredRow
<1>2. LocksHeld' /\ SlotGivenBackOnce' /\ GuardOwned'
  BY DEF ReservationTypeOK, LocksHeld, HoldsLock, GuardOwned, LockExcludes, SlotGivenBackOnce
<1>3. LockExcludes'
  BY DEF ReservationTypeOK, LockExcludes
<1>4. RowsLive'
  BY DEF ReservationTypeOK, RowsLive, LockExcludes, LocksHeld, HoldsLock, GuardOwned
<1>. QED
  BY <1>1, <1>2, <1>3, <1>4

\* The writer leaves and lets the queued readers in.
LEMMA KeepsWriterUnlock ==
  ASSUME ReservationPoints, NEW w \in Writers, WriterUnlock(w)
  PROVE  ReservationPoints'
<1>. USE NobodyAssumption DEF ReservationPoints, WriterUnlock, slotVars, sharerVars
<1>1. ReservationTypeOK'
  BY RowWritesAssumption DEF ReservationTypeOK, WriterPCs, StoredRow
<1>2. LocksHeld' /\ SlotGivenBackOnce' /\ GuardOwned'
  BY DEF ReservationTypeOK, LocksHeld, HoldsLock, GuardOwned, LockExcludes, SlotGivenBackOnce
<1>3. LockExcludes'
  BY DEF ReservationTypeOK, LockExcludes
<1>4. RowsLive'
  BY DEF ReservationTypeOK, RowsLive, LockExcludes, LocksHeld, HoldsLock, GuardOwned
<1>. QED
  BY <1>1, <1>2, <1>3, <1>4

\* Every step of callers and writers, and stuttering, keeps the invariant.
LEMMA ReservationSteps == ReservationPoints /\ [ReservationNext]_reservationVars => ReservationPoints'
<1>. SUFFICES ASSUME ReservationPoints, [ReservationNext]_reservationVars PROVE ReservationPoints'
  OBVIOUS
<1>1. CASE UNCHANGED reservationVars
  BY <1>1 DEF reservationVars, gateVars, slotVars, sharerVars, writerVars, ReservationPoints,
     ReservationTypeOK, LocksHeld, HoldsLock, SlotGivenBackOnce, GuardOwned, LockExcludes, RowsLive
<1>2. CASE \E c \in Sharers : CallerNext(c)
  BY <1>2, KeepsPrepareDone, KeepsPrepareBegin, KeepsRevalidateStored, KeepsRevalidateAgain,
     KeepsPrepareCommit, KeepsPrepareLost, KeepsStaleObserved, KeepsStaleRollback,
     KeepsRollbackRelease, KeepsRollbackMoot, KeepsReleaseReservation, KeepsActivate,
     KeepsActivateAgain, KeepsReleaseLifecycleGuard, KeepsLeaseRelease
     DEF CallerNext, ReservationStep
<1>3. CASE \E w \in Writers : WriterStep(w) \/ \E e \in BOOLEAN : MutateBegin(w, e)
  BY <1>3, KeepsMutateBegin, KeepsWriterAnnounce, KeepsWriterRetire, KeepsWriterStore,
     KeepsWriterUnlock DEF WriterStep
<1>. QED
  BY <1>1, <1>2, <1>3 DEF ReservationNext

\* However prepares, activations, releases and rollbacks of one reservation
\* interleave with each other and with mutations of its provider, its read lock and
\* its slot are each given back exactly once (PrepareActivation, Activate, Release,
\* releaseLifecycleGuard).
THEOREM ReservationsAreAccounted == ReservationSpec => []ReservationAccounted
<1>1. ReservationPoints => ReservationAccounted
  BY InvIsPoints DEF ReservationInv
<1>. QED
  BY <1>1, ReservationStarts, ReservationSteps, PTL DEF ReservationSpec

\* Whatever is activated is activated with the stored row and in a generation
\* no mutation has retired, and a settled reservation stays as it is (Activate).
THEOREM ActivationsAreLive == ReservationSpec => ActivationIsLive
<1>. DEFINE Live == /\ status /= "activated" /\ status' = "activated" =>
                          leaseRow = stored /\ stored.enabled /\ isCurrent
                    /\ status \in {"activated", "released"} => status' = status
<1>1. ASSUME ReservationPoints, [ReservationNext]_reservationVars PROVE [Live]_reservationVars
  <2>1. CASE UNCHANGED reservationVars
    BY <2>1
  <2>2. ASSUME NEW c \in Sharers, CallerNext(c) PROVE Live
    <3>1. CASE Activate(c)
      BY <1>1, <3>1 DEF Activate, ReservationPoints, RowsLive, SlotGivenBackOnce, isCurrent
    <3>2. CASE ReleaseReservation(c) \/ RollbackRelease(c)
      BY <3>2 DEF ReleaseReservation, RollbackRelease, ReleaseTransition
    <3>3. CASE PrepareCommit(c)
      BY <3>3 DEF PrepareCommit
    <3>4. CASE UNCHANGED status
      BY <3>4
    <3>. QED
      BY <2>2, <3>1, <3>2, <3>3, <3>4 DEF CallerNext, ReservationStep, PrepareDone, PrepareBegin,
         RevalidateStored, RevalidateAgain, PrepareLost, StaleObserved, StaleRollback, RollbackMoot,
         ActivateAgain, releaseLifecycleGuard, LeaseRelease
  <2>3. ASSUME NEW w \in Writers, WriterStep(w) \/ \E e \in BOOLEAN : MutateBegin(w, e) PROVE Live
    BY <2>3 DEF WriterStep, WriterAnnounce, WriterRetire, WriterStore, WriterUnlock, MutateBegin
  <2>. QED
    BY <1>1, <2>1, <2>2, <2>3 DEF ReservationNext
<1>. QED
  BY <1>1, ReservationStarts, ReservationSteps, PTL DEF ReservationSpec, ActivationIsLive
=============================================================================

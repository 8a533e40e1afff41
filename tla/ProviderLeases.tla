--------------------------- MODULE ProviderLeases ---------------------------
(***************************************************************************)
(* The concurrency limiter of the provider selector and the operations     *)
(* that go through it (internal/selector/concurrency.go, lease.go,         *)
(* selector.go, active_selection.go, retry_eligibility.go), together with  *)
(* the admin handlers that rewrite provider rows (internal/admin).         *)
(*                                                                         *)
(* A provider's slots are counted per lifecycle GENERATION.  A durable     *)
(* provider mutation retires the generation under the write side of the    *)
(* lifecycle lock; leases of a retired generation keep its counter alive   *)
(* but may no longer authorise a dispatch.  Selections hold the read side  *)
(* from the store read to the slot acquisition; the same-provider dispatch *)
(* permit revalidates with no lifecycle lock at all and only linearises at *)
(* its two `prepare' calls.                                                *)
(*                                                                         *)
(* Callers are goroutines.  Leases are copy-safe handles: any caller may   *)
(* use or release any lease (request teardown and the active-request       *)
(* reaper release the same one), so every lease operation is available to  *)
(* every caller.  One action is one critical section of `mu', one atomic   *)
(* instruction, one store access, or one operation of the RWMutex.         *)
(***************************************************************************)
EXTENDS Integers, FiniteSets

CONSTANTS
  Providers,      \* provider identities
  Callers,        \* goroutines serving requests
  Updaters,       \* admin goroutines that write behind the retirement boundary
  Togglers,       \* admin goroutines in setProviderEnabled / batchEnable / batchDisable
  Leases,         \* lease objects; an unreachable one may be reused
  Limits,         \* configured provider concurrency, 0 = unlimited
  MaxWrites,      \* bound on the admin operations begun
  NoLease, NoRow, NoWriter

Admins == Updaters \cup Togglers

ASSUME LeasesAssumption == IsFiniteSet(Leases)
ASSUME LimitsAssumption == Limits \subseteq Nat
ASSUME MaxWritesAssumption == MaxWrites \in Nat
ASSUME DistinctAssumption ==
  /\ NoLease \notin Leases
  /\ NoWriter \notin Admins

VARIABLES
  store,          \* durable provider rows
  writes,         \* number of admin operations begun
  generations,    \* current generation number of a provider, 0 = none
  nextGeneration, \* last generation number handed out
  generation,     \* the generation objects: provider and active counter
  lease,          \* the lease objects
  readers, blocked, pending,              \* the lifecycle RWMutex
  pc, target, peer, row, tried, permit, clearing, \* the callers' local state
  apc, draft, scope                       \* the admins' local state

limiterVars == <<generations, nextGeneration, generation, lease>>
lockVars    == <<readers, blocked, pending>>
callerVars  == <<pc, target, peer, row, tried, permit, clearing>>
adminVars   == <<apc, draft, scope>>
vars == <<store, writes, limiterVars, lockVars, callerVars, adminVars>>

(***************************************************************************)
(* A provider row: `tag' stands for every field that no rule here inspects *)
(* (URLs, credentials, weights); `enabled' for presence, the enabled flag  *)
(* and route support, which the live validation treats alike.              *)
(***************************************************************************)
Config == [id: Providers, tag: 0..MaxWrites, limit: Limits, enabled: BOOLEAN]

CallerPCs == {"idle", "select", "selAcquire",
              "actLock", "actRead", "actAcquire",
              "revRead", "revRecheck", "resLock",
              "permitted", "dispLock", "lost"}
AdminPCs == {"idle", "enter", "announced", "writing", "unlock", "direct"}
PermitStatus == {"none", "reserved", "released"}

UnusedLease == [gen |-> 0, counted |-> FALSE, released |-> TRUE,
                provider |-> NoRow, permitFlag |-> FALSE]

Init ==
  /\ store \in [Providers -> {c \in Config : c.tag = 0 /\ c.enabled}]
  /\ \A p \in Providers : store[p].id = p
  /\ writes = 0
  /\ generations = [p \in Providers |-> 0]
  /\ nextGeneration = 0
  /\ generation = [g \in {} |-> 0]
  /\ lease = [l \in Leases |-> UnusedLease]
  /\ readers = {} /\ blocked = {} /\ pending = NoWriter
  /\ pc = [c \in Callers |-> "idle"]
  /\ target = [c \in Callers |-> NoLease]
  /\ peer = [c \in Callers |-> NoLease]
  /\ row = [c \in Callers |-> NoRow]
  /\ tried = [c \in Callers |-> {}]
  /\ permit = [c \in Callers |-> "none"]
  /\ clearing = [c \in Callers |-> FALSE]
  /\ apc = [a \in Admins |-> "idle"]
  /\ draft = [a \in Admins |-> [p \in Providers |-> NoRow]]
  /\ scope = [a \in Admins |-> {}]

-----------------------------------------------------------------------------
(* sync.RWMutex: an announced writer stops new readers; Unlock admits every  *)
(* reader that queued behind it before another writer may announce itself.   *)

MutRLock(c) ==
  /\ readers' = readers \cup {c}
  /\ UNCHANGED <<blocked, pending>>

RLock(c) ==
  /\ IF pending = NoWriter
       THEN readers' = readers \cup {c} /\ UNCHANGED blocked
       ELSE blocked' = blocked \cup {c} /\ UNCHANGED readers
  /\ UNCHANGED pending

RUnlock(c) ==
  /\ readers' = readers \ {c}
  /\ UNCHANGED <<blocked, pending>>

-----------------------------------------------------------------------------
(* Leases and generations *)

ProviderOf(l) == generation[lease[l].gen].provider

isCurrentLocked(l) ==
  /\ ~lease[l].released
  /\ generations[ProviderOf(l)] = lease[l].gen

\* An object nobody refers to: a slot already released, or never handed out.
Unreachable(l) ==
  /\ lease[l].released
  /\ \A c \in Callers : target[c] /= l /\ peer[c] /= l

HeldCounted(g) ==
  {l \in Leases : lease[l].gen = g /\ lease[l].counted /\ ~lease[l].released}

MutHasCapacity(g, limit) == limit = 0 \/ generation[g].active <= limit

HasCapacity(g, limit) == limit = 0 \/ generation[g].active < limit

\* The lease object acquireLocked returns for generation g.
NewLease(g, r) ==
  [gen |-> g, counted |-> r.limit > 0, released |-> FALSE,
   provider |-> r, permitFlag |-> FALSE]

\* acquireLocked on an existing generation.
AcquireIn(l, g, r) ==
  /\ HasCapacity(g, r.limit)
  /\ generation' = IF r.limit > 0
                     THEN [generation EXCEPT ![g].active = @ + 1]
                     ELSE generation
  /\ lease' = [lease EXCEPT ![l] = NewLease(g, r)]
  /\ UNCHANGED <<generations, nextGeneration>>

\* acquireUnderLifecycle for a provider that has no generation yet.
AcquireFirst(l, r) ==
  LET g == nextGeneration + 1 IN
  /\ nextGeneration' = g
  /\ generations' = [generations EXCEPT ![r.id] = g]
  /\ generation' = [n \in 1..g |->
       IF n = g THEN [provider |-> r.id, active |-> IF r.limit > 0 THEN 1 ELSE 0]
                ELSE generation[n]]
  /\ lease' = [lease EXCEPT ![l] = NewLease(g, r)]

acquireUnderLifecycle(l, r) ==
  IF generations[r.id] = 0 THEN AcquireFirst(l, r)
                           ELSE AcquireIn(l, generations[r.id], r)

\* A caller returns to its own code; the handles it was holding go out of scope,
\* an activated permit (which no copy can use again) among them.
Return(c) ==
  /\ pc' = [pc EXCEPT ![c] = "idle"]
  /\ target' = [target EXCEPT ![c] = NoLease]
  /\ peer' = [peer EXCEPT ![c] = NoLease]
  /\ row' = [row EXCEPT ![c] = NoRow]
  /\ tried' = [tried EXCEPT ![c] = {}]
  /\ permit' = [permit EXCEPT ![c] = "none"]

Goto(c, label) == pc' = [pc EXCEPT ![c] = label]

-----------------------------------------------------------------------------
(* SelectWithMetadata, SelectExcludingWithMetadata, ReserveAlternate: the    *)
(* read lock is held from before the provider rows are read until the slot   *)
(* is taken.  A full candidate sends the loop on to the next one.            *)

SelectLock(c, l) ==
  /\ pc[c] = "idle"
  /\ Unreachable(l)
  /\ RLock(c)
  /\ Goto(c, "select")
  /\ target' = [target EXCEPT ![c] = l]
  /\ UNCHANGED <<store, writes, limiterVars, peer, row, tried, permit, clearing,
                 adminVars>>

SelectRead(c, p) ==
  /\ pc[c] = "select" /\ c \in readers
  /\ p \notin tried[c] /\ store[p].enabled
  /\ row' = [row EXCEPT ![c] = store[p]]
  /\ Goto(c, "selAcquire")
  /\ UNCHANGED <<store, writes, limiterVars, lockVars, target, peer, tried,
                 permit, clearing, adminVars>>

SelectAcquire(c) ==
  /\ pc[c] = "selAcquire"
  /\ acquireUnderLifecycle(target[c], row[c])
  /\ RUnlock(c)
  /\ Return(c)
  /\ UNCHANGED <<store, writes, clearing, adminVars>>

SelectFull(c) ==
  /\ pc[c] = "selAcquire"
  /\ generations[row[c].id] /= 0
  /\ ~HasCapacity(generations[row[c].id], row[c].limit)
  /\ tried' = [tried EXCEPT ![c] = @ \cup {row[c].id}]
  /\ Goto(c, "select")
  /\ UNCHANGED <<store, writes, limiterVars, lockVars, target, peer, row, permit,
                 clearing, adminVars>>

\* No candidate left, a store or eligibility error, or a cancelled context.
SelectFail(c) ==
  /\ pc[c] = "select" /\ c \in readers
  /\ RUnlock(c)
  /\ Return(c)
  /\ UNCHANGED <<store, writes, limiterVars, clearing, adminVars>>

-----------------------------------------------------------------------------
(* SelectActive: a further lease in exactly the generation of a held one.    *)

ActiveLock(c, l, active) ==
  /\ pc[c] = "idle"
  /\ Unreachable(l) /\ ~lease[active].released
  /\ RLock(c)
  /\ Goto(c, "actLock")
  /\ target' = [target EXCEPT ![c] = l]
  /\ peer' = [peer EXCEPT ![c] = active]
  /\ UNCHANGED <<store, writes, limiterVars, row, tried, permit, clearing, adminVars>>

ActiveCheck(c) ==
  /\ pc[c] = "actLock" /\ c \in readers
  /\ isCurrentLocked(peer[c])
  /\ Goto(c, "actRead")
  /\ UNCHANGED <<store, writes, limiterVars, lockVars, target, peer, row, tried,
                 permit, clearing, adminVars>>

ActiveRead(c) ==
  /\ pc[c] = "actRead"
  /\ store[ProviderOf(peer[c])].enabled
  /\ row' = [row EXCEPT ![c] = store[ProviderOf(peer[c])]]
  /\ Goto(c, "actAcquire")
  /\ UNCHANGED <<store, writes, limiterVars, lockVars, target, peer, tried,
                 permit, clearing, adminVars>>

acquireInGenerationUnderLifecycle(c) ==
  /\ pc[c] = "actAcquire"
  /\ isCurrentLocked(peer[c])
  /\ AcquireIn(target[c], lease[peer[c]].gen, row[c])
  /\ RUnlock(c)
  /\ Return(c)
  /\ UNCHANGED <<store, writes, clearing, adminVars>>

ActiveFail(c) ==
  /\ \/ pc[c] = "actLock" /\ c \in readers /\ ~isCurrentLocked(peer[c])
     \/ pc[c] = "actRead"
     \/ /\ pc[c] = "actAcquire"
        /\ \/ ~isCurrentLocked(peer[c])
           \/ ~HasCapacity(lease[peer[c]].gen, row[c].limit)
  /\ RUnlock(c)
  /\ Return(c)
  /\ UNCHANGED <<store, writes, limiterVars, clearing, adminVars>>

-----------------------------------------------------------------------------
(* ReserveSameProviderDispatch: revalidateProvider runs without the lifecycle*)
(* lock (check, read, check again), then `prepare' takes it to mark the      *)
(* lease as having an outstanding permit.                                    *)

RevalidateCheck(c, l) ==
  /\ pc[c] = "idle"
  /\ ~lease[l].released /\ isCurrentLocked(l)
  /\ Goto(c, "revRead")
  /\ target' = [target EXCEPT ![c] = l]
  /\ UNCHANGED <<store, writes, limiterVars, lockVars, peer, row, tried, permit,
                 clearing, adminVars>>

RevalidateRead(c) ==
  /\ pc[c] = "revRead"
  /\ store[ProviderOf(target[c])].enabled
  /\ row' = [row EXCEPT ![c] = store[ProviderOf(target[c])]]
  /\ Goto(c, "revRecheck")
  /\ UNCHANGED <<store, writes, limiterVars, lockVars, target, peer, tried,
                 permit, clearing, adminVars>>

RevalidateRecheck(c) ==
  /\ pc[c] = "revRecheck"
  /\ isCurrentLocked(target[c])
  /\ RLock(c)
  /\ Goto(c, "resLock")
  /\ UNCHANGED <<store, writes, limiterVars, target, peer, row, tried, permit,
                 clearing, adminVars>>

\* The provider is gone, disabled or lost its route; or the read failed.
RevalidateFail(c) ==
  /\ \/ pc[c] = "revRead"
     \/ pc[c] = "revRecheck" /\ ~isCurrentLocked(target[c])
  /\ Return(c)
  /\ UNCHANGED <<store, writes, limiterVars, lockVars, clearing, adminVars>>

PermitReserve(c) ==
  /\ pc[c] = "resLock" /\ c \in readers
  /\ isCurrentLocked(target[c])
  /\ ~lease[target[c]].permitFlag
  /\ lease' = [lease EXCEPT ![target[c]].permitFlag = TRUE]
  /\ permit' = [permit EXCEPT ![c] = "reserved"]
  /\ RUnlock(c)
  /\ Goto(c, "permitted")
  /\ UNCHANGED <<store, writes, generations, nextGeneration, generation, target,
                 peer, row, tried, clearing, adminVars>>

\* ErrDispatchPermitOutstanding, or the generation was retired meanwhile.
PermitRefused(c) ==
  /\ pc[c] = "resLock" /\ c \in readers
  /\ ~isCurrentLocked(target[c]) \/ lease[target[c]].permitFlag
  /\ RUnlock(c)
  /\ Return(c)
  /\ UNCHANGED <<store, writes, limiterVars, clearing, adminVars>>

-----------------------------------------------------------------------------
(* ProviderDispatchPermit.Activate and Release.  Release may come from any   *)
(* copy of the permit, also while an activation is under way.                *)

ActivateLock(c) ==
  /\ pc[c] = "permitted"
  /\ RLock(c)
  /\ Goto(c, "dispLock")
  /\ UNCHANGED <<store, writes, limiterVars, target, peer, row, tried, permit,
                 clearing, adminVars>>

MutActivateWon(c) ==
  /\ pc[c] = "dispLock" /\ c \in readers
  /\ permit[c] = "reserved"
  /\ lease' = [lease EXCEPT ![target[c]].provider = row[c],
                            ![target[c]].permitFlag = FALSE]
  /\ RUnlock(c)
  /\ Return(c)
  /\ UNCHANGED <<store, writes, generations, nextGeneration, generation, clearing,
                 adminVars>>

\* The transition of `prepare': adopt the validated row, free the lease's flag.
ActivateWon(c) ==
  /\ pc[c] = "dispLock" /\ c \in readers
  /\ isCurrentLocked(target[c])
  /\ permit[c] = "reserved"
  /\ lease' = [lease EXCEPT ![target[c]].provider = row[c],
                            ![target[c]].permitFlag = FALSE]
  /\ RUnlock(c)
  /\ Return(c)
  /\ UNCHANGED <<store, writes, generations, nextGeneration, generation, clearing,
                 adminVars>>

\* The permit stays reachable for a releaser that has not cleared the flag yet.
LeavePermit(c) ==
  IF clearing[c] THEN Goto(c, "permitted") /\ UNCHANGED <<target, peer, row, tried, permit>>
                 ELSE Return(c)

\* A release won the permit: the lease is left alone.
ActivateReleased(c) ==
  /\ pc[c] = "dispLock" /\ c \in readers
  /\ isCurrentLocked(target[c])
  /\ permit[c] = "released"
  /\ RUnlock(c)
  /\ LeavePermit(c)
  /\ UNCHANGED <<store, writes, limiterVars, clearing, adminVars>>

ActivateLost(c) ==
  /\ pc[c] = "dispLock" /\ c \in readers
  /\ ~isCurrentLocked(target[c])
  /\ RUnlock(c)
  /\ Goto(c, "lost")
  /\ UNCHANGED <<store, writes, limiterVars, target, peer, row, tried, permit,
                 clearing, adminVars>>

\* The lost activation returns; the permit was released by it or by a copy.
ActivateFailed(c) ==
  /\ pc[c] = "lost" /\ permit[c] = "released"
  /\ LeavePermit(c)
  /\ UNCHANGED <<store, writes, limiterVars, lockVars, clearing, adminVars>>

\* release(), and the compare-and-swap of a lost activation: first the status ...
PermitRelease(c) ==
  /\ pc[c] \in {"permitted", "dispLock", "lost"}
  /\ permit[c] = "reserved"
  /\ permit' = [permit EXCEPT ![c] = "released"]
  /\ clearing' = [clearing EXCEPT ![c] = TRUE]
  /\ UNCHANGED <<store, writes, limiterVars, lockVars, pc, target, peer, row,
                 tried, adminVars>>

\* ... then, in a second instruction, the lease's flag.
PermitClear(c) ==
  /\ clearing[c]
  /\ clearing' = [clearing EXCEPT ![c] = FALSE]
  /\ lease' = [lease EXCEPT ![target[c]].permitFlag = FALSE]
  /\ IF pc[c] = "permitted" THEN Return(c)
                            ELSE UNCHANGED <<pc, target, peer, row, tried, permit>>
  /\ UNCHANGED <<store, writes, generations, nextGeneration, generation, lockVars,
                 adminVars>>

-----------------------------------------------------------------------------
MutReleaseLeaseLocked(l) ==
  /\ lease[l].gen /= 0
  /\ lease' = [lease EXCEPT ![l].released = TRUE]
  /\ generation' = IF lease[l].counted
                     THEN [generation EXCEPT ![lease[l].gen].active = @ - 1]
                     ELSE generation

\* SlotLease.Release: the first release of a lease gives its slot back to the
\* generation it was taken from, current or not.
releaseLeaseLocked(l) ==
  /\ ~lease[l].released
  /\ lease' = [lease EXCEPT ![l].released = TRUE]
  /\ generation' = IF lease[l].counted
                     THEN [generation EXCEPT ![lease[l].gen].active = @ - 1]
                     ELSE generation

Release(l) ==
  /\ releaseLeaseLocked(l)
  /\ UNCHANGED <<store, writes, generations, nextGeneration, lockVars, callerVars,
                 adminVars>>

-----------------------------------------------------------------------------
(* Admin handlers: the row is read before the lifecycle lock is asked for.   *)

AdminVarsBegin(a, rows, retired, label) ==
  /\ apc[a] = "idle" /\ writes < MaxWrites
  /\ writes' = writes + 1
  /\ draft' = [draft EXCEPT ![a] = rows]
  /\ scope' = [scope EXCEPT ![a] = retired]
  /\ apc' = [apc EXCEPT ![a] = label]
  /\ UNCHANGED <<store, limiterVars, lockVars, callerVars>>

\* UpdateProvider, DeleteProvider, CreateProvider: one row, one generation.
UpdateBegin(a, p, limit, enabled) ==
  AdminVarsBegin(a,
    [q \in Providers |-> IF q = p THEN [id |-> p, tag |-> writes + 1, limit |-> limit,
                                        enabled |-> enabled]
                                  ELSE NoRow],
    {p}, "enter")

\* Config import, group and routing-policy changes: every generation is retired.
BulkBegin(a, limit, enabled) ==
  AdminVarsBegin(a,
    [q \in Providers |-> [id |-> q, tag |-> writes + 1, limit |-> limit,
                          enabled |-> enabled]],
    Providers, "enter")

\* setProviderEnabled: the retirement boundary is used only when the row that
\* was read differs from the requested flag; the whole row is written back.
ToggleBegin(a, p, enabled) ==
  AdminVarsBegin(a,
    [q \in Providers |-> IF q = p THEN [store[p] EXCEPT !.enabled = enabled] ELSE NoRow],
    {p}, IF store[p].enabled /= enabled THEN "enter" ELSE "direct")

\* lifecycle.Lock: writers queue on each other, then for the readers to leave.
MutateAnnounce(a) ==
  /\ apc[a] = "enter" /\ pending = NoWriter
  /\ pending' = a
  /\ apc' = [apc EXCEPT ![a] = "announced"]
  /\ UNCHANGED <<store, writes, limiterVars, readers, blocked, callerVars, draft,
                 scope>>

MutateRetire(a) ==
  /\ apc[a] = "announced" /\ readers = {}
  /\ generations' = [p \in Providers |-> IF p \in scope[a] THEN 0 ELSE generations[p]]
  /\ apc' = [apc EXCEPT ![a] = "writing"]
  /\ UNCHANGED <<store, writes, nextGeneration, generation, lease, readers, blocked,
                 pending, callerVars, draft, scope>>

WriteRows(a) ==
  [p \in Providers |-> IF draft[a][p] = NoRow THEN store[p] ELSE draft[a][p]]

AdminReturn(a) ==
  /\ apc' = [apc EXCEPT ![a] = "idle"]
  /\ draft' = [draft EXCEPT ![a] = [p \in Providers |-> NoRow]]
  /\ scope' = [scope EXCEPT ![a] = {}]

\* The durable write succeeds or fails; the retirement stands either way.
MutateStore(a) ==
  /\ apc[a] = "writing"
  /\ store' \in {store, WriteRows(a)}
  /\ apc' = [apc EXCEPT ![a] = "unlock"]
  /\ UNCHANGED <<writes, limiterVars, lockVars, callerVars, draft, scope>>

MutateUnlock(a) ==
  /\ apc[a] = "unlock"
  /\ pending' = NoWriter
  /\ readers' = readers \cup blocked /\ blocked' = {}
  /\ AdminReturn(a)
  /\ UNCHANGED <<store, writes, limiterVars, callerVars>>

DirectStore(a) ==
  /\ apc[a] = "direct"
  /\ store' \in {store, WriteRows(a)}
  /\ AdminReturn(a)
  /\ UNCHANGED <<writes, limiterVars, lockVars, callerVars>>

-----------------------------------------------------------------------------
CallerStep(c) ==
  \/ \E p \in Providers : SelectRead(c, p)
  \/ SelectAcquire(c) \/ SelectFull(c) \/ SelectFail(c)
  \/ ActiveCheck(c) \/ ActiveRead(c) \/ acquireInGenerationUnderLifecycle(c)
  \/ ActiveFail(c)
  \/ RevalidateRead(c) \/ RevalidateRecheck(c) \/ RevalidateFail(c)
  \/ PermitReserve(c) \/ PermitRefused(c)
  \/ ActivateLock(c) \/ ActivateWon(c) \/ ActivateReleased(c) \/ ActivateLost(c)
  \/ ActivateFailed(c) \/ PermitRelease(c) \/ PermitClear(c)

CallerBegin(c) ==
  \/ \E l \in Leases : SelectLock(c, l)
  \/ \E l, active \in Leases : ActiveLock(c, l, active)
  \/ \E l \in Leases : RevalidateCheck(c, l)

AdminStep(a) ==
  \/ MutateAnnounce(a) \/ MutateRetire(a) \/ MutateStore(a) \/ MutateUnlock(a)
  \/ DirectStore(a)

AdminBegin ==
  \/ \E a \in Updaters, p \in Providers, limit \in Limits, e \in BOOLEAN :
       UpdateBegin(a, p, limit, e)
  \/ \E a \in Updaters, limit \in Limits, e \in BOOLEAN : BulkBegin(a, limit, e)
  \/ \E a \in Togglers, p \in Providers, e \in BOOLEAN : ToggleBegin(a, p, e)

Next ==
  \/ \E c \in Callers : CallerStep(c) \/ CallerBegin(c)
  \/ \E l \in Leases : Release(l)
  \/ \E a \in Admins : AdminStep(a)
  \/ AdminBegin

\* A goroutine that is not blocked runs, and the Go scheduler, its RWMutex and
\* the database never starve one; nobody is forced to begin an operation or to
\* release a lease.  A permit's releaser may be a goroutine of its own.
Fairness ==
  /\ \A c \in Callers : WF_vars(CallerStep(c)) /\ WF_vars(PermitClear(c))
  /\ \A a \in Admins : WF_vars(AdminStep(a))

Spec == Init /\ [][Next]_vars /\ Fairness

-----------------------------------------------------------------------------
TypeStore ==
  /\ store \in [Providers -> Config]
  /\ writes \in 0..MaxWrites

LeaseType ==
  [gen: 0..nextGeneration, counted: BOOLEAN, released: BOOLEAN,
   provider: Config \cup {NoRow}, permitFlag: BOOLEAN]

TypeLimiter ==
  /\ nextGeneration \in Nat
  /\ generations \in [Providers -> 0..nextGeneration]
  /\ generation \in [1..nextGeneration -> [provider: Providers, active: Nat]]
  /\ lease \in [Leases -> LeaseType]

TypeLock ==
  /\ readers \subseteq Callers /\ blocked \subseteq Callers
  /\ pending \in Admins \cup {NoWriter}

TypeCallers ==
  /\ pc \in [Callers -> CallerPCs]
  /\ target \in [Callers -> Leases \cup {NoLease}]
  /\ peer \in [Callers -> Leases \cup {NoLease}]
  /\ row \in [Callers -> Config \cup {NoRow}]
  /\ tried \in [Callers -> SUBSET Providers]
  /\ permit \in [Callers -> PermitStatus]
  /\ clearing \in [Callers -> BOOLEAN]

TypeAdmins ==
  /\ apc \in [Admins -> AdminPCs]
  /\ draft \in [Admins -> [Providers -> Config \cup {NoRow}]]
  /\ scope \in [Admins -> SUBSET Providers]

TypeOK == TypeStore /\ TypeLimiter /\ TypeLock /\ TypeCallers /\ TypeAdmins

\* The counter of every generation, retired ones included, is the number of
\* counted leases of that generation that nobody has released: no release is
\* lost, counted twice, or credited to the generation that replaced the old one
\* (releaseLeaseLocked against concurrent releases and retirement).
CounterExact ==
  \A g \in 1..nextGeneration : generation[g].active = Cardinality(HeldCounted(g))

\* The limit an operator reads in the store is the limit in force: the current
\* generation of a limited provider never has more leases out than the stored
\* row allows, whatever selections, active reuse and mutations interleave.
CapacityRespected ==
  \A p \in Providers :
    generations[p] /= 0 /\ store[p].limit > 0
      => Cardinality({l \in Leases : lease[l].gen = generations[p] /\ ~lease[l].released})
           <= store[p].limit

\* A lease that may still authorise a dispatch carries the provider row that is
\* in the store now ("one selector-visible boundary", mutateWithRetiredGenerations).
CurrentLeaseFresh ==
  \A l \in Leases :
    ~lease[l].released /\ isCurrentLocked(l) => lease[l].provider = store[ProviderOf(l)]

\* A same-provider dispatch permit that activates hands its caller the live row,
\* although the row was read several steps and an unlocked stretch earlier:
\* retirement wins over a permit that was validated against the old row.
DispatchesLiveRow ==
  [][\A c \in Callers :
       pc[c] = "dispLock" /\ permit[c] = "reserved" /\ permit'[c] = "none"
         => row[c] = store[row[c].id] /\ row[c].enabled]_vars

\* A permit is outstanding until it is activated or its release has cleared the flag.
HoldsPermit(c) ==
  /\ pc[c] \in {"permitted", "dispLock", "lost"}
  /\ permit[c] = "reserved" \/ clearing[c]

PermitHolders(l) == {c \in Callers : target[c] = l /\ HoldsPermit(c)}

\* dispatchPermitReserved is set exactly while one permit on the lease is
\* outstanding, although status and flag are changed by separate instructions: two
\* redispatches of one lease never overlap, and the flag is never left behind.
PermitExclusive ==
  \A l \in Leases :
    /\ \A c, d \in PermitHolders(l) : c = d
    /\ lease[l].permitFlag <=> PermitHolders(l) /= {}

\* What an outstanding lease or permit grants is sound at every moment: within the
\* stored limit, from the stored row, and to one redispatch at a time.
GrantsAreSound == CapacityRespected /\ CurrentLeaseFresh /\ PermitExclusive

\* An admin mutation that asked for the lifecycle lock gets it and returns: readers
\* drain although selections keep arriving.
MutationCompletes == \A a \in Admins : apc[a] = "enter" ~> apc[a] = "idle"

-----------------------------------------------------------------------------
(* The inductive invariant behind the theorems of ProviderProofs.             *)

SelectPCs == {"select", "selAcquire", "actLock", "actRead", "actAcquire"}
ActivePCs == {"actLock", "actRead", "actAcquire"}
PermitPCs == {"revRead", "revRecheck", "resLock", "permitted", "dispLock", "lost"}
RowPCs == {"selAcquire", "actAcquire", "revRecheck", "resLock", "permitted", "dispLock",
           "lost"}

\* Rows are filed under their own provider.
RowsFiled ==
  /\ \A p \in Providers : store[p].id = p
  /\ \A a \in Admins, p \in Providers :
       draft[a][p] /= NoRow => draft[a][p].id = p /\ p \in scope[a]

\* A slot out on lease belongs to a generation object; the current generation of a
\* provider is an object of that provider.
GenerationsFiled ==
  /\ \A l \in Leases : ~lease[l].released => lease[l].gen /= 0
  /\ \A p \in Providers :
       generations[p] /= 0 => generation[generations[p]].provider = p

\* The lease object a selection is about to fill is unused and nobody else refers
\* to it; the leases other operations refer to belong to a generation.
HandlesOwned ==
  \A c \in Callers :
    /\ pc[c] \in SelectPCs =>
         /\ target[c] \in Leases /\ lease[target[c]].released
         /\ \A d \in Callers : peer[d] /= target[c] /\ (d /= c => target[d] /= target[c])
    /\ pc[c] \in ActivePCs => peer[c] \in Leases /\ lease[peer[c]].gen /= 0
    /\ pc[c] \in PermitPCs => target[c] \in Leases /\ lease[target[c]].gen /= 0
    /\ pc[c] \in RowPCs => row[c] \in Config
    /\ clearing[c] => pc[c] \in {"permitted", "dispLock", "lost"} /\ permit[c] = "released"

CountInv == TypeOK /\ RowsFiled /\ GenerationsFiled /\ HandlesOwned /\ CounterExact

\* Whoever is past its store read under the lifecycle lock holds the read side; a
\* writer past the announcement is the pending one, past retirement it is alone.
LifecycleHeld ==
  /\ \A c \in Callers : pc[c] \in {"selAcquire", "actRead", "actAcquire"} => c \in readers
  /\ \A a \in Admins : /\ apc[a] \in {"announced", "writing", "unlock"} => pending = a
                       /\ apc[a] \in {"writing", "unlock"} => readers = {}

\* Between the retirement and the unlock no provider in scope has a generation.
ScopeRetired ==
  \A a \in Admins, p \in Providers :
    apc[a] \in {"writing", "unlock"} /\ p \in scope[a] => generations[p] = 0

InCurrentGeneration(l) == generations[ProviderOf(l)] = lease[l].gen

\* A row read under the lock is the stored one until the slot is taken; one read
\* without it is the stored one as long as the generation it was read for is current.
RowRead(c) ==
  /\ pc[c] \in {"selAcquire", "actAcquire"} => row[c] = store[row[c].id]
  /\ pc[c] = "actAcquire" => row[c].id = ProviderOf(peer[c])
  /\ pc[c] \in RowPCs \ {"selAcquire", "actAcquire"} =>
       /\ row[c].id = ProviderOf(target[c])
       /\ InCurrentGeneration(target[c]) => row[c] = store[row[c].id] /\ row[c].enabled

RowsRead == \A c \in Callers : RowRead(c)

\* A lease out in the current generation was counted if the stored row has a limit.
LeasesCounted ==
  \A l \in Leases :
    isCurrentLocked(l) => (lease[l].counted <=> store[ProviderOf(l)].limit > 0)

\* The counter of a current generation is within the stored limit.
CountersCapped ==
  \A p \in Providers :
    generations[p] /= 0 /\ store[p].limit > 0
      => generation[generations[p]].active <= store[p].limit

GrantInv ==
  /\ LifecycleHeld /\ ScopeRetired /\ RowsRead
  /\ CurrentLeaseFresh /\ LeasesCounted /\ CountersCapped /\ PermitExclusive

\* setProviderEnabled writes the row it read without retiring anything when it finds
\* the flag as requested.  This says that such a write finds the row it read.
TogglesIdempotent ==
  [][\A a \in Admins : DirectStore(a) => UNCHANGED store]_vars
=============================================================================

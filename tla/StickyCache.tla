----------------------------- MODULE StickyCache -----------------------------
(***************************************************************************)
(* Sticky affinity: the memory cache and its write-behind mirror           *)
(* (internal/selector/sticky.go, sticky_persistent.go; the rows are those  *)
(* of internal/store/sqlite_sticky.go, the import that of                  *)
(* codex_transfer_sticky.go).                                              *)
(*                                                                         *)
(* Memory answers requests.  Every mutation also joins a coalesced queue;  *)
(* a worker swaps the queue out and applies it row by row (evictions,      *)
(* deletes, upserts, expiry sweep).  A failed batch is merged back into    *)
(* what has been queued meanwhile.  A restart rebuilds memory from rows.   *)
(*                                                                         *)
(* Set, Delete, EvictProvider, Cleanup and the merge of an import are each *)
(* one critical section of pendingMu.                                      *)
(***************************************************************************)
EXTENDS Naturals, FiniteSets

CONSTANTS
  Keys, StickyProviders,
  Evictable,    \* providers the suspension path may evict
  Importable,   \* keys a configuration import may carry
  Ttls,         \* times to live: the configured one changes, imported ones vary
  MaxOps,       \* bound on cache operations
  MaxTime,      \* bound on the clock
  MaxFailures,  \* bound on failing store calls
  MaxRestarts,  \* bound on process restarts
  None          \* no entry

ASSUME ScopeAssumption == Evictable \subseteq StickyProviders /\ Importable \subseteq Keys
ASSUME BoundsAssumption == {MaxOps, MaxTime, MaxFailures, MaxRestarts} \subseteq Nat
ASSUME TtlAssumption == Ttls \subseteq Nat \ {0}
ASSUME NoneAssumption == None \notin [provider: StickyProviders, expires: Nat]

VARIABLES
  now, ops, failures, restarts,
  entries, providerKeys,   \* MemoryStickyCache
  pending,                 \* stickyPendingMutations
  worker, batch, todo,     \* flush: the swapped batch and what is left of it
  open,                    \* Close has not stopped the worker
  durable,                 \* table sticky_entries
  restored,                \* rows an import committed and has not merged yet
  rebound,                 \* history: keys bound to a provider since its last eviction
  astray                   \* history: keys whose memory and row the code lets part

clockVars  == <<now, ops, failures, restarts>>
memoryVars == <<entries, providerKeys>>
workerVars == <<worker, batch, todo, open>>
history == <<rebound, astray>>
stickyVars == <<clockVars, memoryVars, pending, workerVars, durable, restored, history>>

Entry == [provider: StickyProviders, expires: Nat]
Table == [Keys -> Entry \cup {None}]
NoEntries == [k \in Keys |-> None]

Mutations == [upserts: Table, deletes: SUBSET Keys, evictions: SUBSET StickyProviders,
              cleanupBefore: Nat]
\* cleanupBefore 0 is the zero time; the sweep of instant t is t + 1.
newStickyPendingMutations ==
  [upserts |-> NoEntries, deletes |-> {}, evictions |-> {}, cleanupBefore |-> 0]

Live(e) == e /= None /\ e.expires > now

\* DeleteExpiredStickyEntries and the memory sweep.
Sweep(table, t) ==
  [k \in Keys |-> IF table[k] /= None /\ table[k].expires <= t THEN None ELSE table[k]]

\* EvictProvider on a table.
Without(table, p) ==
  [k \in Keys |-> IF table[k] /= None /\ table[k].provider = p THEN None ELSE table[k]]

\* The keys a table binds to one of the providers ps.
Dropped(table, ps) == {k \in Keys : table[k] /= None /\ table[k].provider \in ps}

IndexOf(table) ==
  [p \in StickyProviders |-> {k \in Keys : table[k] /= None /\ table[k].provider = p}]

StickyInit ==
  /\ now = 0 /\ ops = 0 /\ failures = 0 /\ restarts = 0
  /\ entries = NoEntries /\ providerKeys = [p \in StickyProviders |-> {}]
  /\ pending = newStickyPendingMutations
  /\ worker = "idle" /\ batch = pending /\ todo = pending /\ open = TRUE
  /\ durable = NoEntries /\ restored = NoEntries
  /\ rebound = [p \in StickyProviders |-> {}] /\ astray = {}

Operation == ops < MaxOps /\ ops' = ops + 1 /\ UNCHANGED <<now, failures, restarts>>

-----------------------------------------------------------------------------
(* The memory cache *)

\* setLocked: the key leaves the index of the provider it was bound to.
setLocked(k, e) ==
  /\ entries' = [entries EXCEPT ![k] = e]
  /\ providerKeys' =
       [p \in StickyProviders |->
          IF p = e.provider THEN providerKeys[p] \cup {k}
          ELSE IF entries[k] /= None /\ entries[k].provider = p THEN providerKeys[p] \ {k}
          ELSE providerKeys[p]]

deleteEntryLocked(k) ==
  /\ entries' = [entries EXCEPT ![k] = None]
  /\ providerKeys' =
       [p \in StickyProviders |-> IF entries[k] /= None /\ entries[k].provider = p
                              THEN providerKeys[p] \ {k} ELSE providerKeys[p]]

\* The eviction follows the index, not the entries.
evictLocked(p) ==
  /\ entries' = [k \in Keys |-> IF k \in providerKeys[p] THEN None ELSE entries[k]]
  /\ providerKeys' = [providerKeys EXCEPT ![p] = {}]

-----------------------------------------------------------------------------
(* PersistentStickyCache: mutations *)

Set(k, p, ttl) ==
  LET e == [provider |-> p, expires |-> now + ttl] IN
  /\ Operation
  /\ setLocked(k, e)
  /\ pending' = [pending EXCEPT !.deletes = @ \ {k}, !.upserts[k] = e]
  /\ rebound' = [rebound EXCEPT ![p] = @ \cup {k}] /\ astray' = astray \ {k}
  /\ UNCHANGED <<workerVars, durable, restored>>

Delete(k) ==
  /\ Operation
  /\ deleteEntryLocked(k)
  /\ pending' = [pending EXCEPT !.upserts[k] = None, !.deletes = @ \cup {k}]
  /\ astray' = astray \ {k}
  /\ UNCHANGED <<workerVars, durable, restored, rebound>>

EvictProvider(p) ==
  /\ Operation
  /\ evictLocked(p)
  /\ pending' = [pending EXCEPT !.evictions = @ \cup {p}, !.upserts = Without(@, p)]
  /\ rebound' = [rebound EXCEPT ![p] = {}]
  /\ astray' = astray \cup Dropped(pending.upserts, {p})
  /\ UNCHANGED <<workerVars, durable, restored>>

Cleanup ==
  /\ Operation
  /\ entries' = Sweep(entries, now)
  /\ providerKeys' = [p \in StickyProviders |-> {k \in providerKeys[p] : Live(entries[k])}]
  /\ pending' = [pending EXCEPT !.cleanupBefore = now + 1, !.upserts = Sweep(@, now)]
  /\ astray' = astray \cup {k \in Dropped(pending.upserts, StickyProviders) :
                              /\ ~Live(pending.upserts[k])
                              /\ Live(durable[k]) \/ Live(batch.upserts[k])}
  /\ UNCHANGED <<workerVars, durable, restored, rebound>>

-----------------------------------------------------------------------------
(* flush: swap, apply row by row, requeue on the first failure *)

Swap ==
  /\ worker = "idle" /\ pending /= newStickyPendingMutations
  /\ worker' = "apply" /\ batch' = pending /\ todo' = pending
  /\ pending' = newStickyPendingMutations

FlushBegin ==
  /\ open /\ Swap
  /\ UNCHANGED <<clockVars, memoryVars, open, durable, restored, history>>

\* One store call of applyBatch.
Apply ==
  /\ worker = "apply"
  /\ \/ \E p \in todo.evictions :
          durable' = Without(durable, p) /\ todo' = [todo EXCEPT !.evictions = @ \ {p}]
     \/ /\ todo.evictions = {}
        /\ \E k \in todo.deletes :
             /\ durable' = [durable EXCEPT ![k] = None]
             /\ todo' = [todo EXCEPT !.deletes = @ \ {k}]
     \/ /\ todo.evictions = {} /\ todo.deletes = {}
        /\ \E k \in Keys :
             /\ todo.upserts[k] /= None
             /\ durable' = [durable EXCEPT ![k] = todo.upserts[k]]
             /\ todo' = [todo EXCEPT !.upserts[k] = None]
     \/ /\ todo.evictions = {} /\ todo.deletes = {} /\ todo.upserts = NoEntries
        /\ todo.cleanupBefore /= 0
        /\ durable' = Sweep(durable, todo.cleanupBefore - 1)
        /\ todo' = [todo EXCEPT !.cleanupBefore = 0]
  /\ UNCHANGED <<clockVars, memoryVars, pending, worker, batch, open, restored, history>>

FlushEnd ==
  /\ worker = "apply" /\ todo = newStickyPendingMutations
  /\ worker' = "idle" /\ batch' = newStickyPendingMutations
  /\ UNCHANGED <<clockVars, memoryVars, pending, todo, open, durable, restored, history>>

MutRequeuedEvicted ==
  LET deletes == pending.deletes \cup {k \in batch.deletes : pending.upserts[k] = None} IN
  [upserts   |-> [k \in Keys |-> IF pending.upserts[k] = None /\ k \notin deletes
                                   THEN batch.upserts[k] ELSE pending.upserts[k]],
   deletes   |-> deletes,
   evictions |-> pending.evictions \cup batch.evictions,
   cleanupBefore |-> IF batch.cleanupBefore > pending.cleanupBefore
                       THEN batch.cleanupBefore ELSE pending.cleanupBefore]

\* requeue: what was queued meanwhile is newer than the failed batch.
Requeued ==
  LET evictions == pending.evictions \cup batch.evictions
      deletes == pending.deletes \cup {k \in batch.deletes : pending.upserts[k] = None}
      kept(k) == /\ batch.upserts[k] /= None
                 /\ pending.upserts[k] = None /\ k \notin deletes
                 /\ batch.upserts[k].provider \notin evictions
  IN [upserts   |-> [k \in Keys |-> IF kept(k) THEN batch.upserts[k] ELSE pending.upserts[k]],
      deletes   |-> deletes,
      evictions |-> evictions,
      cleanupBefore |-> IF batch.cleanupBefore > pending.cleanupBefore
                          THEN batch.cleanupBefore ELSE pending.cleanupBefore]

\* The queued bindings a requeue gives up because their provider is being evicted.
RequeueDrops ==
  {k \in Dropped(batch.upserts, Requeued.evictions) :
     k \notin pending.deletes /\ pending.upserts[k] = None}

FlushFails ==
  /\ worker = "apply" /\ todo /= newStickyPendingMutations
  /\ failures < MaxFailures /\ failures' = failures + 1
  /\ pending' = Requeued
  /\ worker' = "idle" /\ batch' = newStickyPendingMutations /\ todo' = batch'
  /\ astray' = astray \cup RequeueDrops
  /\ UNCHANGED <<now, ops, restarts, memoryVars, open, durable, restored, rebound>>

\* Close waits for the worker to leave its loop, then flushes once itself.
Close ==
  /\ open /\ worker = "idle"
  /\ open' = FALSE
  /\ Swap \/ (pending = newStickyPendingMutations /\ UNCHANGED <<pending, worker, batch, todo>>)
  /\ UNCHANGED <<clockVars, memoryVars, durable, restored, history>>

-----------------------------------------------------------------------------
(* Import, restart, time *)

\* importCodexSticky and snapshotCommittedSticky, one transaction: a live row wins
\* over the imported one, and the winner is what will be merged into memory.
ImportCommit(k, p, ttl) ==
  LET winner == IF Live(durable[k]) THEN durable[k]
                                    ELSE [provider |-> p, expires |-> now + ttl] IN
  /\ Operation /\ restored = NoEntries
  /\ durable' = [durable EXCEPT ![k] = winner]
  /\ restored' = [restored EXCEPT ![k] = winner]
  /\ rebound' = [rebound EXCEPT ![p] = IF Live(durable[k]) THEN @ ELSE @ \cup {k}]
  /\ UNCHANGED <<memoryVars, pending, workerVars, astray>>

\* A flush has changed, or will change, the row the import committed for k.
Overtaken(k) ==
  \/ durable[k] /= restored[k] \/ pending.upserts[k] /= None
  \/ k \in batch.deletes \/ batch.upserts[k] /= None
  \/ restored[k].provider \in batch.evictions

\* MergeRestoredEntries: live affinity and queued deletions win over the import.
MergeRestoredEntries(k) ==
  /\ restored[k] /= None
  /\ restored' = [restored EXCEPT ![k] = None]
  /\ IF \/ k \in pending.deletes \/ restored[k].provider \in pending.evictions
        \/ Live(entries[k]) \/ ~Live(restored[k])
       THEN UNCHANGED <<memoryVars, astray>>
       ELSE /\ setLocked(k, restored[k])
            /\ astray' = IF Overtaken(k) THEN astray \cup {k} ELSE astray \ {k}
  /\ UNCHANGED <<clockVars, pending, workerVars, durable, rebound>>

\* The process dies and starts again; a failed load leaves memory empty.
Restart ==
  /\ restarts < MaxRestarts
  /\ \/ entries' = [k \in Keys |-> IF Live(durable[k]) THEN durable[k] ELSE None]
        /\ astray' = {} /\ UNCHANGED failures
     \/ failures < MaxFailures /\ failures' = failures + 1 /\ entries' = NoEntries
        /\ astray' = Dropped(durable, StickyProviders)
  /\ providerKeys' = IndexOf(entries')
  /\ pending' = newStickyPendingMutations
  /\ worker' = "idle" /\ batch' = pending' /\ todo' = pending' /\ open' = TRUE
  /\ restored' = NoEntries
  /\ rebound' = IndexOf(durable)
  /\ restarts' = restarts + 1
  /\ UNCHANGED <<now, ops, durable>>

StickyTick ==
  /\ now < MaxTime /\ now' = now + 1
  /\ UNCHANGED <<ops, failures, restarts, memoryVars, pending, workerVars, durable, restored,
                 history>>

-----------------------------------------------------------------------------
WorkerStep == FlushBegin \/ Apply \/ FlushEnd

StickyNext ==
  \/ \E k \in Keys, p \in StickyProviders, ttl \in Ttls : Set(k, p, ttl)
  \/ \E k \in Keys : Delete(k)
  \/ \E p \in Evictable : EvictProvider(p)
  \/ Cleanup
  \/ WorkerStep \/ FlushFails \/ Close
  \/ \E k \in Importable, p \in StickyProviders, ttl \in Ttls : ImportCommit(k, p, ttl)
  \/ \E k \in Keys : MergeRestoredEntries(k)
  \/ Restart \/ StickyTick

\* The worker is woken by every mutation and by its retry ticker.
StickySpec == StickyInit /\ [][StickyNext]_stickyVars /\ WF_stickyVars(WorkerStep)

-----------------------------------------------------------------------------
StickyTypeOK ==
  /\ {now, ops, failures, restarts} \subseteq Nat
  /\ entries \in Table /\ providerKeys \in [StickyProviders -> SUBSET Keys]
  /\ pending \in Mutations /\ batch \in Mutations /\ todo \in Mutations
  /\ worker \in {"idle", "apply"} /\ open \in BOOLEAN
  /\ durable \in Table /\ restored \in Table
  /\ rebound \in [StickyProviders -> SUBSET Keys] /\ astray \subseteq Keys

\* The reverse index EvictProvider trusts lists exactly the keys bound to each
\* provider, after any sequence of rebinding, deletes, sweeps, merges and restarts.
ProviderKeysExact == providerKeys = IndexOf(entries)

\* Nothing is queued or in flight; nor does an import wait to be merged.
QueueDrained == worker = "idle" /\ pending = newStickyPendingMutations
Quiescent == QueueDrained /\ restored = NoEntries

\* "Memory and queued persistence must share one mutation order; otherwise a
\* concurrent completion can restore a different affinity after restart" (Set): once
\* the queue is drained, a live row is the binding memory has and a live binding
\* survives a restart.  The code gives this up for a key whose queued upsert an
\* eviction drops (EvictProvider) or a sweep drops while an older row outlives it
\* (Cleanup), whose rebinding a requeue drops (requeue), whose row a flush removes
\* before an import has merged it (MergeRestoredEntries) and for rows a failing load
\* did not read, until the key is next set or deleted.
DiskMirrorsMemory ==
  Quiescent => \A k \in Keys \ astray :
                 Live(durable[k]) \/ Live(entries[k]) => durable[k] = entries[k]

\* An eviction is never undone by a write that was queued, in flight or requeued
\* before it: once drained, every live row was bound after its provider's eviction.
EvictionSticks ==
  QueueDrained => \A k \in Keys : Live(durable[k]) => k \in rebound[durable[k].provider]

\* Disk and memory tell one story: an eviction sticks, and what is live in one is
\* live in the other once the queue is drained.
BindingsConsistent == DiskMirrorsMemory /\ EvictionSticks

-----------------------------------------------------------------------------
(* The inductive invariant: where the row of a key is heading once what is in *)
(* flight and queued has been applied, and where if the batch in flight fails. *)

Applied(row, m, k) ==
  IF m.upserts[k] /= None THEN m.upserts[k]
  ELSE IF k \in m.deletes THEN None
  ELSE IF row /= None /\ row.provider \in m.evictions THEN None ELSE row

Heading(k) == Applied(Applied(durable[k], todo, k), pending, k)
HeadingIfFailed(k) == Applied(durable[k], Requeued, k)

\* The batch in flight shrinks from what was swapped, a key is set or deleted but
\* not both, and no sweep is of an instant still to come.
WorkerShaped ==
  /\ worker = "idle" => batch = newStickyPendingMutations /\ todo = newStickyPendingMutations
  /\ todo.evictions \subseteq batch.evictions /\ todo.deletes \subseteq batch.deletes
  /\ \A k \in Keys :
       /\ todo.upserts[k] \in {None, batch.upserts[k]}
       /\ pending.upserts[k] /= None => k \notin pending.deletes
       /\ batch.upserts[k] /= None => k \notin batch.deletes
  /\ pending.cleanupBefore <= now + 1
  /\ todo.cleanupBefore <= now + 1 /\ batch.cleanupBefore <= now + 1

\* A binding older than its provider's last eviction has that eviction ahead of it.
EvictionsAhead ==
  \A k \in Keys :
    /\ pending.upserts[k] /= None => k \in rebound[pending.upserts[k].provider]
    /\ batch.upserts[k] /= None =>
         \/ k \in rebound[batch.upserts[k].provider]
         \/ batch.upserts[k].provider \in pending.evictions
    /\ durable[k] /= None =>
         \/ k \in rebound[durable[k].provider]
         \/ durable[k].provider \in pending.evictions \cup todo.evictions

\* A live queued binding is the one in memory.
QueueIsMemory(k) ==
  /\ Live(pending.upserts[k]) => pending.upserts[k] = entries[k]
  /\ /\ pending.upserts[k] = None /\ k \notin pending.deletes
     /\ Live(batch.upserts[k]) /\ batch.upserts[k].provider \notin pending.evictions
     => batch.upserts[k] = entries[k]

\* A row that would be live is the binding in memory, or will be once merged.
Agrees(row, k) ==
  /\ Live(entries[k]) => row = entries[k]
  /\ Live(row) => row \in {entries[k], restored[k]}

Converging(k) ==
  /\ QueueIsMemory(k)
  /\ Agrees(Heading(k), k)
  /\ k \notin RequeueDrops => Agrees(HeadingIfFailed(k), k)

StickyInv ==
  /\ StickyTypeOK /\ ProviderKeysExact /\ WorkerShaped /\ EvictionsAhead
  /\ \A k \in Keys \ astray : Converging(k)
=============================================================================

--------------------------- MODULE CaptureSession ---------------------------
(* The debug capture of requests (internal/requestcapture): one manager, at    *)
(* most one active session, the retained graph of traces, records and payload *)
(* blobs, and the readers (queries, the status lease) that outlive a stop.    *)
(* Every retained object is charged to the session and to the process; the    *)
(* session shell stays charged until its last owner lets go of it.            *)
(* One action is one critical section of the session (gate and mu) or one     *)
(* account transaction. A charge is counted in units, one per object.         *)
EXTENDS Integers, Sequences, FiniteSets, FiniteSetsExt, SequencesExt

CONSTANTS
    Sessions,        \* generations that may be started, 1..n
    Traces, Records, \* sequence numbers of traces and records
    Workers,         \* goroutines that hold recorder handles
    Queries,         \* admin readers of records
    Quota,           \* retained_bytes_limit of a session
    Ceiling,         \* processCeilingBytes
    PerProvider,     \* completed records kept per provider
    MaxActive,       \* maxActiveRecords
    MaxTransitions,  \* maxTransitionsPerTrace
    MaxChunks,       \* bound on the chunks of one payload
    MaxLineages      \* bound on pending message identifiers

ASSUME BoundsAreNatural ==
    /\ Sessions \subseteq Nat \ {0} /\ Traces \subseteq Nat \ {0}
    /\ Records \subseteq Nat \ {0}
    /\ {Quota, Ceiling, PerProvider, MaxActive, MaxChunks, MaxTransitions, MaxLineages} \subseteq Nat

VARIABLES
    manager,  \* [active, closed, starting]: atomic pointer and lifecycle flags
    account,  \* [charged, temporary, releasing, pinned]: the process account
    session,  \* the session shells, by generation
    trace,    \* gatewayState, by sequence number
    record,   \* recordState, by sequence number
    blob,     \* payloads: a record's response, a trace's shared request
    recorder,   \* recorder calls in progress
    query,    \* query leases
    status    \* the one status lease of the manager

heap == <<account, session, trace, record, blob>>
captureVars == <<manager, account, session, trace, record, blob, recorder, query, status>>

RootCharge == 1
BaseCharge == 1
StatusCharge == 1
StartCharge == RootCharge + BaseCharge + StatusCharge

Blobs == {"response"} \X Records \cup {"request"} \X Traces

NoSession == [phase |-> "unborn", accepting |-> FALSE, releasing |-> FALSE,
              charged |-> 0, temporary |-> 0, owners |-> 0,
              ownerAccepting |-> FALSE, root |-> 0, slot |-> "none"]
NoTrace == [gen |-> 0, state |-> "none", selected |-> FALSE, lineages |-> 0,
            transitions |-> 0, stub |-> FALSE, shared |-> FALSE]
NoRecord == [gen |-> 0, trace |-> 0, state |-> "none", charge |-> 0,
             messages |-> 0, answered |-> FALSE, disabled |-> FALSE,
             lossy |-> FALSE, shares |-> FALSE, rank |-> 0]
NoBlob == [gen |-> 0, refs |-> 0, chunks |-> <<>>]
IdleQuery == [phase |-> "idle", gen |-> 0, owned |-> 0, charge |-> 0,
         canceled |-> FALSE, pins |-> {}]

CaptureInit ==
    /\ manager = [active |-> 0, closed |-> FALSE, starting |-> 0]
    /\ account = [charged |-> 0, temporary |-> 0, releasing |-> 0, pinned |-> 0]
    /\ session = [g \in Sessions |-> NoSession]
    /\ trace = [t \in Traces |-> NoTrace]
    /\ record = [r \in Records |-> NoRecord]
    /\ blob = [b \in Blobs |-> NoBlob]
    /\ recorder = [w \in Workers |-> IdleQuery]
    /\ query = [q \in Queries |-> IdleQuery]
    /\ status = [phase |-> "idle", gen |-> 0]

-----------------------------------------------------------------------------
(* The account. A helper maps the retained graph to the graph after one call; *)
(* an action applies them in the order of the code.                            *)

Graph == [account |-> account, session |-> session, trace |-> trace,
          record |-> record, blob |-> blob]

Becomes(h) ==
    /\ account' = h.account /\ session' = h.session /\ trace' = h.trace
    /\ record' = h.record /\ blob' = h.blob

Fits(h, g, n) ==
    /\ n <= Quota - h.session[g].charged
    /\ n <= Ceiling - h.account.charged

\* tryReserveLocked, once the units fit.
Charged(h, g, n) ==
    [h EXCEPT !.session[g].charged = @ + n, !.account.charged = @ + n]

\* releaseLocked: a refund the account does not hold is refused and logged.
Refunded(h, g, n) ==
    IF \/ n > h.session[g].charged
       \/ n > h.account.charged
       \/ h.session[g].releasing /\ n > h.account.releasing
      THEN h
      ELSE [h EXCEPT !.session[g].charged = @ - n,
                     !.account.charged = @ - n,
                     !.account.releasing = IF h.session[g].releasing THEN @ - n ELSE @]

MutChunksReleased(h, b, ids, pinned) ==
    LET after == [i \in DOMAIN h.blob[b].chunks |->
                    IF i \in ids
                      THEN [refs |-> h.blob[b].chunks[i].refs - 1,
                            pins |-> h.blob[b].chunks[i].pins - (IF pinned THEN 1 ELSE 0)]
                      ELSE h.blob[b].chunks[i]]
    IN  Refunded([h EXCEPT !.blob[b].chunks = after,
                           !.account.pinned = @ - Cardinality({i \in ids : pinned /\ after[i].pins = 0})],
                 h.blob[b].gen, Cardinality(ids))

\* releaseChunkLocked on every chunk of ids, for the blob or for a pinned view.
ChunksReleased(h, b, ids, pinned) ==
    LET g == h.blob[b].gen
        after == [i \in DOMAIN h.blob[b].chunks |->
                    IF i \in ids
                      THEN [refs |-> h.blob[b].chunks[i].refs - 1,
                            pins |-> h.blob[b].chunks[i].pins - (IF pinned THEN 1 ELSE 0)]
                      ELSE h.blob[b].chunks[i]]
        unpinned == {i \in ids : pinned /\ after[i].pins = 0}
        freed == {i \in ids : after[i].refs = 0}
    IN  Refunded([h EXCEPT !.blob[b].chunks = after,
                           !.account.pinned = @ - Cardinality(unpinned)],
                 g, Cardinality(freed))

\* releaseBlobLocked
BlobReleased(h, b) ==
    IF h.blob[b].refs = 0 THEN h
    ELSE LET less == [h EXCEPT !.blob[b].refs = @ - 1]
         IN  IF less.blob[b].refs > 0 THEN less
             ELSE Refunded(ChunksReleased(less, b, DOMAIN h.blob[b].chunks, FALSE),
                           h.blob[b].gen, 1)

\* releaseTraceLocked: shared request, entries with their stubs, identifiers.
TraceReleased(h, t) ==
    IF h.trace[t].state \notin {"open", "finished"} THEN h
    ELSE LET tr == h.trace[t]
             bodyless == IF tr.shared THEN BlobReleased(h, <<"request", t>>) ELSE h
         IN  [Refunded(bodyless, tr.gen, 1 + tr.lineages + tr.transitions)
                EXCEPT !.trace[t] = [NoTrace EXCEPT !.gen = tr.gen, !.state = "gone"]]

LiveRecords(h, t) ==
    {r \in Records : h.record[r].trace = t /\ h.record[r].state \in {"active", "completed"}}

\* The finished trace of an evicted record goes with its last record.
Emptied(h, t, evicting) ==
    IF evicting /\ h.trace[t].state = "finished" /\ LiveRecords(h, t) = {}
      THEN TraceReleased(h, t) ELSE h

\* detachAndReleaseRecordLocked and releaseRecordLocked.
RecordReleased(h, r, evicting) ==
    LET rec == h.record[r]
        requestless == IF rec.shares THEN BlobReleased(h, <<"request", rec.trace>>) ELSE h
        bodiless == BlobReleased(requestless, <<"response", r>>)
        gone == [Refunded(bodiless, rec.gen, rec.charge + rec.messages)
                   EXCEPT !.record[r] = [NoRecord EXCEPT !.gen = rec.gen, !.state = "gone",
                                                         !.trace = rec.trace]]
    IN  Emptied(gone, rec.trace, evicting)

CompletedOf(h, g) == {r \in Records : h.record[r].gen = g /\ h.record[r].state = "completed"}

EvictedInOrder(h, order) == FoldLeft(LAMBDA acc, r : RecordReleased(acc, r, TRUE), h, order)

\* evictOldestCompletedLocked, k times: in the order the records began.
Evicted(h, g, k) ==
    EvictedInOrder(h, SubSeq(SetToSortSeq(CompletedOf(h, g), <), 1, k))

\* As few evictions as make room, all of them if none does.
Evictions(h, g, n) ==
    LET most == Cardinality(CompletedOf(h, g))
    IN  Min({most} \cup {k \in 0..most : Fits(Evicted(h, g, k), g, n)})

ReservedIn(h, g, n) ==
    IF Fits(h, g, n) THEN [ok |-> TRUE, h |-> Charged(h, g, n)] ELSE [ok |-> FALSE, h |-> h]

\* reserveLocked with eviction. The result says whether the units were reserved.
Reserve(h, g, n) == ReservedIn(Evicted(h, g, Evictions(h, g, n)), g, n)

\* enforceProviderRetentionLocked: in the order the records were completed.
Retained(h, g) ==
    LET byCompletion == SetToSortSeq(CompletedOf(h, g),
                                     LAMBDA a, b : h.record[a].rank < h.record[b].rank)
    IN  EvictedInOrder(h, SubSeq(byCompletion, 1, Len(byCompletion) - PerProvider))

\* appendProviderRecordLocked: rs are completed after all others, in their order.
Completed(h, g, rs) ==
    LET last == Max({0} \cup {h.record[r].rank : r \in CompletedOf(h, g)})
    IN  [h EXCEPT !.record = [r \in Records |->
            IF r \in rs THEN [h.record[r] EXCEPT !.state = "completed",
                                 !.rank = last + Cardinality({p \in rs : p <= r})]
            ELSE h.record[r]]]

\* newBlobLocked
Digested(room, g, b) ==
    IF room.ok THEN [room EXCEPT !.h.blob[b] = [gen |-> g, refs |-> 1, chunks |-> <<>>]] ELSE room

Chunked(room, b) ==
    IF room.ok THEN [room EXCEPT !.h.blob[b].chunks = Append(@, [refs |-> 1, pins |-> 0])] ELSE room

\* blobBuilder.appendLocked for a payload of one chunk: the digest is charged
\* before the chunk and stays when the chunk is denied.
AppendedTo(digest, g, b) ==
    IF digest.ok THEN Chunked(Reserve(digest.h, g, 1), b) ELSE digest

Appended(h, g, b) ==
    AppendedTo(IF h.blob[b].refs = 0 THEN Digested(Reserve(h, g, 1), g, b)
               ELSE [ok |-> TRUE, h |-> h], g, b)

-----------------------------------------------------------------------------
(* Owners of a session shell.                                                 *)

RetainableActive == manager.active # 0 /\ session[manager.active].ownerAccepting

\* releaseOwnerLocked: the last owner refunds the shell, but only if nothing
\* else is charged any more; a refused release is not tried again.
OwnerReleased(h, g) ==
    LET s == h.session[g] IN
    CASE s.owners > 1 -> [h EXCEPT !.session[g].owners = @ - 1]
      [] s.owners = 1 /\ s.charged = s.root /\ s.temporary = 0 ->
           [Refunded(h, g, s.root) EXCEPT !.session[g].owners = 0, !.session[g].root = 0,
                                          !.session[g].phase = "freed"]
      [] OTHER -> h

-----------------------------------------------------------------------------
(* Manager lifecycle: Start, Stop and Close.                                  *)

\* claimStartAdmission and beginStartAllocation.
StartBegin(g) ==
    /\ ~manager.closed /\ manager.active = 0 /\ manager.starting = 0
    /\ session[g].phase = "unborn" /\ \A p \in Sessions : p < g => session[p].phase # "unborn"
    /\ StartCharge <= Quota /\ StartCharge <= Ceiling - account.charged
    /\ manager' = [manager EXCEPT !.starting = g]
    /\ account' = [account EXCEPT !.charged = @ + StartCharge, !.temporary = @ + StartCharge]
    /\ UNCHANGED <<session, trace, record, blob, recorder, query, status>>

\* Start publishes the candidate: the temporary charge becomes the session's.
StartPublish ==
    LET g == manager.starting IN
    /\ g # 0 /\ ~manager.closed /\ manager.active = 0
    /\ manager' = [manager EXCEPT !.active = g, !.starting = 0]
    /\ account' = [account EXCEPT !.temporary = @ - StartCharge]
    /\ session' = [session EXCEPT ![g] =
           [phase |-> "live", accepting |-> TRUE, releasing |-> FALSE,
            charged |-> StartCharge, temporary |-> 0, owners |-> 1,
            ownerAccepting |-> TRUE, root |-> RootCharge, slot |-> "free"]]
    /\ UNCHANGED <<trace, record, blob, recorder, query, status>>

\* Start gives up: no identifier, or the manager was closed meanwhile.
StartRollback ==
    /\ manager.starting # 0
    /\ manager' = [manager EXCEPT !.starting = 0]
    /\ account' = [account EXCEPT !.charged = @ - StartCharge, !.temporary = @ - StartCharge]
    /\ UNCHANGED <<session, trace, record, blob, recorder, query, status>>

\* Stop or Close: logical detachment; nothing can retain the session after it.
Detach(closing) ==
    /\ closing \/ manager.active # 0
    /\ closing => ~manager.closed
    /\ manager' = [manager EXCEPT !.active = 0, !.closed = @ \/ closing]
    /\ session' = IF manager.active = 0 THEN session
                  ELSE [session EXCEPT ![manager.active].phase = "detached"]
    /\ UNCHANGED <<account, trace, record, blob, recorder, query, status>>

\* cancelQueries
CancelQueries(g) ==
    /\ session[g].phase = "detached"
    /\ session' = [session EXCEPT ![g].phase = "canceled"]
    /\ query' = [q \in Queries |->
                   IF query[q].gen = g /\ query[q].charge > 0
                     THEN [query[q] EXCEPT !.canceled = TRUE] ELSE query[q]]
    /\ UNCHANGED <<manager, account, trace, record, blob, recorder, status>>

\* retireStatusSlotLocked: a slot checked out by a status lease stays charged.
SlotRetired(h, g) ==
    IF status.gen = g /\ status.phase = "claimed"
      THEN [h EXCEPT !.session[g].slot = "retired"]
      ELSE [Refunded(h, g, StatusCharge) EXCEPT !.session[g].slot = "gone"]

\* releaseAllLocked, in its order.
Torn(h, g) ==
    LET marked == [h EXCEPT !.session[g].accepting = FALSE, !.session[g].releasing = TRUE,
                            !.account.releasing = @ + h.session[g].charged]
        records == {r \in Records : h.record[r].gen = g /\ h.record[r].state \in {"active", "completed"}}
        traces == {t \in Traces : h.trace[t].gen = g}
        recordless == FoldLeft(LAMBDA acc, r : RecordReleased(acc, r, FALSE),
                               SlotRetired(marked, g), SetToSortSeq(records, <))
        traceless == FoldLeft(LAMBDA acc, t : TraceReleased(acc, t), recordless,
                              SetToSortSeq(traces, <))
        baseless == Refunded(traceless, g, BaseCharge)
    IN  OwnerReleased([baseless EXCEPT !.session[g].ownerAccepting = FALSE], g)

\* sessionState.stop
Teardown(g) ==
    /\ session[g].phase = "canceled" /\ session[g].accepting
    /\ Becomes(Torn(Graph, g))
    /\ UNCHANGED <<manager, recorder, query, status>>

-----------------------------------------------------------------------------
(* Recorder calls: retain the active session, act under its locks, let go.    *)

RetainActive(w) ==
    /\ recorder[w].phase = "idle" /\ RetainableActive
    /\ session' = [session EXCEPT ![manager.active].owners = @ + 1]
    /\ recorder' = [recorder EXCEPT ![w].phase = "owned", ![w].gen = manager.active]
    /\ UNCHANGED <<manager, account, trace, record, blob, query, status>>

\* gatewayAccess.release, recorderAccess.release: the owner goes after the locks.
ReleaseOwner(w) ==
    /\ \/ recorder[w].phase = "done"
       \/ recorder[w].phase = "owned" /\ manager.active # recorder[w].gen
    /\ Becomes(OwnerReleased(Graph, recorder[w].gen))
    /\ recorder' = [recorder EXCEPT ![w] = IdleQuery]
    /\ UNCHANGED <<manager, query, status>>

\* The checks every recorder call repeats under gate and mu.
Admitted(w) ==
    /\ recorder[w].phase = "owned" /\ manager.active = recorder[w].gen
    /\ session[recorder[w].gen].accepting /\ ~session[recorder[w].gen].releasing

Acted(w, h) ==
    /\ Becomes(h)
    /\ recorder' = [recorder EXCEPT ![w].phase = "done"]
    /\ UNCHANGED <<manager, query, status>>

OpenIn(t, g) == trace[t].gen = g /\ trace[t].state = "open"
ActiveIn(r, g) == record[r].gen = g /\ record[r].state = "active"
\* mutableLocked
MutableIn(r, g) == ActiveIn(r, g) /\ ~record[r].disabled

\* sessionState.beginGateway: reserves without evicting.
BeginGateway(w, t) ==
    LET g == recorder[w].gen IN
    /\ Admitted(w) /\ trace[t].state = "none"
    /\ \A p \in Traces : p < t => trace[p].state # "none"
    /\ IF Fits(Graph, g, 1)
         THEN Acted(w, [Charged(Graph, g, 1) EXCEPT !.trace[t] =
                          [NoTrace EXCEPT !.gen = g, !.state = "open"]])
         ELSE Acted(w, Graph)

\* newMessageIDLocked: reserves without evicting.
NewMessageID(w, t) ==
    LET g == recorder[w].gen IN
    /\ Admitted(w) /\ OpenIn(t, g) /\ trace[t].lineages < MaxLineages
    /\ Fits(Graph, g, 1)
    /\ Acted(w, [Charged(Graph, g, 1) EXCEPT !.trace[t].lineages = @ + 1])

\* appendTransitionTargetLocked
Entered(room, t) ==
    IF room.ok THEN [room EXCEPT !.h.trace[t].transitions = @ + 1] ELSE room

TransitionAppended(h, g, t) ==
    IF h.trace[t].transitions >= MaxTransitions THEN [ok |-> FALSE, h |-> h]
    ELSE Entered(Reserve(h, g, 1), t)

\* transitionLocked
Transition(w, t) ==
    /\ Admitted(w) /\ OpenIn(t, recorder[w].gen)
    /\ Acted(w, TransitionAppended(Graph, recorder[w].gen, t).h)

\* The stub's charge is added to its entry; a denied stub takes the entry back.
Stubbed(room, g, t) ==
    IF room.ok THEN [room.h EXCEPT !.trace[t].stub = TRUE, !.trace[t].transitions = @ + 1]
    ELSE [Refunded(room.h, g, 1) EXCEPT !.trace[t].transitions = @ - 1]

StubAppended(entry, g, t) ==
    IF entry.ok THEN Stubbed(Reserve(entry.h, g, 1), g, t) ELSE entry.h

\* beginTransitionRecorderLocked: an attempt at a provider that is not captured.
BeginTransition(w, t) ==
    LET g == recorder[w].gen
    IN  /\ Admitted(w) /\ OpenIn(t, g) /\ ~trace[t].stub
        /\ Acted(w, StubAppended(TransitionAppended(Graph, g, t), g, t))

\* transitionRecorderState.finishLocked
FinishTransition(w, t) ==
    /\ Admitted(w) /\ OpenIn(t, recorder[w].gen) /\ trace[t].stub
    /\ Acted(w, [Graph EXCEPT !.trace[t].stub = FALSE])

\* Every record of the trace shares the request body of the first.
Sharing(body, t, r) ==
    LET shared == body.h.blob[<<"request", t>>].refs > 0
    IN  [body.h EXCEPT !.blob[<<"request", t>>].refs = IF shared THEN @ + 1 ELSE @,
                       !.trace[t].shared = shared, !.record[r].shares = shared,
                       !.record[r].lossy = ~body.ok]

RecordBegun(room, g, t, r) ==
    LET begun == [room.h EXCEPT !.record[r] = [NoRecord EXCEPT !.gen = g, !.trace = t,
                                               !.state = "active", !.charge = 2],
                                !.trace[t].selected = TRUE]
    IN  CASE ~room.ok          -> [room.h EXCEPT !.trace[t].selected = TRUE]
          [] trace[t].selected -> Sharing([ok |-> TRUE, h |-> begun], t, r)
          [] OTHER             -> Sharing(Appended(begun, g, <<"request", t>>), t, r)

\* beginRecordLocked: record and trace entry, then the shared request body.
BeginRecord(w, t, r) ==
    LET g == recorder[w].gen
    IN  /\ Admitted(w) /\ OpenIn(t, g)
        /\ record[r].state = "none" /\ \A p \in Records : p < r => record[p].state # "none"
        /\ IF Cardinality({p \in Records : ActiveIn(p, g)}) >= MaxActive
             THEN Acted(w, [Graph EXCEPT !.trace[t].selected = TRUE])
             ELSE Acted(w, RecordBegun(Reserve(Graph, g, 2), g, t, r))

\* A denied reservation costs the record its completeness.
Losing(room, r) == [room.h EXCEPT !.record[r].lossy = @ \/ ~room.ok]

Described(room, r) ==
    [Losing(room, r) EXCEPT !.record[r].charge = IF room.ok THEN @ + 1 ELSE @]

\* observeHTTPResponseLocked and observeWebSocketHandshakeLocked
ObserveResponse(w, r) ==
    /\ Admitted(w) /\ MutableIn(r, recorder[w].gen) /\ ~record[r].answered
    /\ Acted(w, [Described(Reserve(Graph, recorder[w].gen, 1), r) EXCEPT !.record[r].answered = TRUE])

\* stateFaultLocked: a payload or a message before the response disables the
\* record, which can then only be finished.
StateFault(w, r) ==
    /\ Admitted(w) /\ MutableIn(r, recorder[w].gen) /\ ~record[r].answered
    /\ Acted(w, [Graph EXCEPT !.record[r].disabled = TRUE, !.record[r].lossy = TRUE])

\* observeUpstreamLocked
ObserveUpstream(w, r) ==
    /\ Admitted(w) /\ MutableIn(r, recorder[w].gen) /\ record[r].answered
    /\ Len(blob[<<"response", r>>].chunks) < MaxChunks
    /\ Acted(w, Losing(Appended(Graph, recorder[w].gen, <<"response", r>>), r))

\* The message's charge, then its payload. A denied message consumes its pending
\* identifier.
MessageIn(room, g, r) ==
    LET t == record[r].trace
        denied == [room.h EXCEPT !.record[r].lossy = TRUE]
    IN  CASE room.ok -> Losing(Appended([room.h EXCEPT !.record[r].messages = @ + 1],
                                        g, <<"response", r>>), r)
          [] ~room.ok /\ trace[t].lineages = 0 -> denied
          [] OTHER -> [Refunded(denied, g, 1) EXCEPT !.trace[t].lineages = @ - 1]

\* messageReadLocked
MessageRead(w, r) ==
    LET g == recorder[w].gen
    IN  /\ Admitted(w) /\ MutableIn(r, g) /\ record[r].answered
        /\ Len(blob[<<"response", r>>].chunks) < MaxChunks /\ record[r].messages < MaxChunks
        /\ Acted(w, MessageIn(Reserve(Graph, g, 1), g, r))

\* recordState.finishLocked with retention: the outcome's metadata may evict.
FinishRecord(w, r) ==
    LET g == recorder[w].gen
    IN  /\ Admitted(w) /\ ActiveIn(r, g)
        /\ Acted(w, Retained(Completed(Described(Reserve(Graph, g, 1), r), g, {r}), g))

RequestGivenUp(h, t) ==
    IF h.trace[t].shared THEN [BlobReleased(h, <<"request", t>>) EXCEPT !.trace[t].shared = FALSE] ELSE h

TraceEnded(h, t) ==
    IF ~h.trace[t].selected \/ LiveRecords(h, t) = {} THEN TraceReleased(h, t) ELSE h

\* gatewayState.finishLocked: what is still active is completed without any
\* eviction, then retention runs, then the trace gives up the shared request and,
\* when no record of it is left, itself.
Finished(h, g, t) ==
    LET open == {r \in Records : h.record[r].trace = t /\ h.record[r].gen = g
                                  /\ h.record[r].state = "active"}
        completed == Completed([h EXCEPT !.trace[t].state = "finished", !.trace[t].stub = FALSE],
                               g, open)
    IN  TraceEnded(RequestGivenUp(Retained(completed, g), t), t)

FinishGateway(w, t) ==
    /\ Admitted(w) /\ OpenIn(t, recorder[w].gen)
    /\ Acted(w, Finished(Graph, recorder[w].gen, t))

-----------------------------------------------------------------------------
(* Queries. Opening one keeps an owner of its own besides the lease's.        *)

\* OpenRecordPage, OpenRecordDetail up to beginQuery.
OpenQuery(q) ==
    /\ query[q].phase = "idle" /\ RetainableActive
    /\ session' = [session EXCEPT ![manager.active].owners = @ + 1]
    /\ query' = [query EXCEPT ![q].phase = "entered", ![q].gen = manager.active, ![q].owned = 1]
    /\ UNCHANGED <<manager, account, trace, record, blob, recorder, status>>

\* Temporary units of a lease.
Borrowed(h, g, n) ==
    [Charged(h, g, n) EXCEPT !.session[g].temporary = @ + n, !.account.temporary = @ + n]

\* beginQuery: the lease is charged before it may wait for any lock.
BeginQuery(q) ==
    LET g == query[q].gen IN
    /\ query[q].phase = "entered"
    /\ \/ /\ session[g].phase = "live" /\ session[g].ownerAccepting
          /\ ~session[g].releasing /\ Fits(Graph, g, 1)
          /\ Becomes([Borrowed(Graph, g, 1) EXCEPT !.session[g].owners = @ + 1])
          /\ query' = [query EXCEPT ![q].phase = "begun", ![q].owned = 2, ![q].charge = 1]
       \/ /\ session[g].phase # "live" \/ ~Fits(Graph, g, 1)
          /\ query' = [query EXCEPT ![q].phase = "closing"]
          /\ UNCHANGED heap
    /\ UNCHANGED <<manager, recorder, status>>

\* snapshotBlobPrefixLocked on every chunk of a blob.
BlobPinned(h, b) ==
    LET fresh == {i \in DOMAIN h.blob[b].chunks : h.blob[b].chunks[i].pins = 0}
    IN  [h EXCEPT !.blob[b].chunks =
                    [i \in DOMAIN @ |-> [refs |-> @[i].refs + 1, pins |-> @[i].pins + 1]],
                  !.account.pinned = @ + Cardinality(fresh)]

ViewOf(r) ==
    {b \in {<<"response", r>>} \cup (IF record[r].shares THEN {<<"request", record[r].trace>>} ELSE {}) :
        blob[b].refs > 0}

\* openRecordDetail under the locks: grow the lease, pin the payloads it shows.
SnapshotRecord(q, r) ==
    LET g == query[q].gen
        pinned == SetToSeq(ViewOf(r))
    IN  /\ query[q].phase = "begun" /\ ~query[q].canceled
        /\ manager.active = g /\ session[g].accepting
        /\ record[r].gen = g /\ record[r].state \in {"active", "completed"}
        /\ Fits(Graph, g, 1)
        /\ Becomes(FoldLeft(LAMBDA acc, b : BlobPinned(acc, b), Borrowed(Graph, g, 1), pinned))
        /\ query' = [query EXCEPT ![q].phase = "pinned", ![q].charge = 2,
                                  ![q].pins = {<<b, Len(blob[b].chunks)>> : b \in ViewOf(r)}]
        /\ UNCHANGED <<manager, recorder, status>>

\* openRecordPage: summaries only, nothing is pinned.
ListRecords(q) ==
    LET g == query[q].gen IN
    /\ query[q].phase = "begun" /\ ~query[q].canceled
    /\ manager.active = g /\ session[g].accepting
    /\ query' = [query EXCEPT ![q].phase = "leased"]
    /\ UNCHANGED <<manager, heap, recorder, status>>

\* snapshot.release after materialize: the pins go before the lease.
Unpinned(h, pins) ==
    FoldLeft(LAMBDA acc, p : ChunksReleased(acc, p[1], 1..p[2], TRUE), h, SetToSeq(pins))

ReleaseSnapshot(q) ==
    /\ query[q].phase = "pinned"
    /\ Becomes(Unpinned(Graph, query[q].pins))
    /\ query' = [query EXCEPT ![q].pins = {},
                              ![q].phase = IF query[q].canceled \/ manager.active # query[q].gen
                                             THEN "ending" ELSE "leased"]
    /\ UNCHANGED <<manager, recorder, status>>

\* The query fails before it has a lease to return.
AbandonQuery(q) ==
    /\ query[q].phase = "begun"
    /\ query' = [query EXCEPT ![q].phase = "ending"]
    /\ UNCHANGED <<manager, heap, recorder, status>>

\* WriteJSON or Close of the lease, once the opening call has let its owner go.
CloseQuery(q) ==
    /\ query[q].phase = "leased" /\ query[q].owned = 1
    /\ query' = [query EXCEPT ![q].phase = "ending"]
    /\ UNCHANGED <<manager, heap, recorder, status>>

\* releaseQueryLease: refund, then (next step) the owner.
ReleaseQueryLease(q) ==
    LET g == query[q].gen
        n == query[q].charge
    IN  /\ query[q].phase = "ending"
        /\ Becomes([Refunded(Graph, g, n) EXCEPT !.session[g].temporary = @ - n,
                                                 !.account.temporary = @ - n])
        /\ query' = [query EXCEPT ![q].phase = "closing", ![q].charge = 0]
        /\ UNCHANGED <<manager, recorder, status>>

\* One owner of the query goes: the opening call's or the lease's.
ReleaseQueryOwner(q) ==
    /\ query[q].owned > 0
    /\ \/ query[q].phase = "closing"
       \/ query[q].phase = "leased" /\ query[q].owned = 2
    /\ Becomes(OwnerReleased(Graph, query[q].gen))
    /\ query' = [query EXCEPT ![q] = IF query[q].phase = "closing" /\ query[q].owned = 1
                                       THEN IdleQuery ELSE [query[q] EXCEPT !.owned = @ - 1]]
    /\ UNCHANGED <<manager, recorder, status>>

-----------------------------------------------------------------------------
(* The status lease: one checkout of a slot for the whole manager.            *)

\* OpenStatus retains the active session, if there is one.
OpenStatus ==
    /\ status.phase = "idle"
    /\ IF RetainableActive
         THEN /\ session' = [session EXCEPT ![manager.active].owners = @ + 1]
              /\ status' = [status EXCEPT !.phase = "retained", !.gen = manager.active]
         ELSE /\ status' = [status EXCEPT !.phase = "claimed", !.gen = 0]
              /\ UNCHANGED session
    /\ UNCHANGED <<manager, account, trace, record, blob, recorder, query>>

\* claimSessionStatusSlot, refused once the session is detached.
ClaimStatusSlot ==
    LET g == status.gen IN
    /\ status.phase = "retained"
    /\ status' = [status EXCEPT !.phase =
                    IF manager.active = g /\ session[g].accepting /\ session[g].slot = "free"
                      THEN "claimed" ELSE "releasing"]
    /\ UNCHANGED <<manager, heap, recorder, query>>

\* WriteJSON ended, or Close when nobody writes: the registry is severed; a slot
\* retired meanwhile is refunded next.
ReleaseStatusLease ==
    LET g == status.gen IN
    /\ status.phase = "claimed"
    /\ status' = [status EXCEPT !.phase = IF g = 0 THEN "idle"
                                          ELSE IF session[g].slot = "retired" THEN "refunding"
                                          ELSE "releasing"]
    /\ UNCHANGED <<manager, heap, recorder, query>>

RefundStatusSlot ==
    /\ status.phase = "refunding"
    /\ Becomes([Refunded(Graph, status.gen, StatusCharge) EXCEPT !.session[status.gen].slot = "gone"])
    /\ status' = [status EXCEPT !.phase = "releasing"]
    /\ UNCHANGED <<manager, recorder, query>>

ReleaseStatusOwner ==
    /\ status.phase = "releasing"
    /\ Becomes(OwnerReleased(Graph, status.gen))
    /\ status' = [phase |-> "idle", gen |-> 0]
    /\ UNCHANGED <<manager, recorder, query>>

-----------------------------------------------------------------------------

Lifecycle ==
    \/ \E g \in Sessions : StartBegin(g) \/ CancelQueries(g) \/ Teardown(g)
    \/ StartPublish \/ StartRollback
    \/ \E closing \in BOOLEAN : Detach(closing)

Recording ==
    \E w \in Workers :
        \/ RetainActive(w) \/ ReleaseOwner(w)
        \/ \E t \in Traces : \/ BeginGateway(w, t) \/ NewMessageID(w, t) \/ Transition(w, t)
                             \/ BeginTransition(w, t) \/ FinishTransition(w, t) \/ FinishGateway(w, t)
                             \/ \E r \in Records : BeginRecord(w, t, r)
        \/ \E r \in Records : \/ ObserveResponse(w, r) \/ StateFault(w, r) \/ ObserveUpstream(w, r)
                              \/ MessageRead(w, r) \/ FinishRecord(w, r)

Querying ==
    \E q \in Queries :
        \/ OpenQuery(q) \/ BeginQuery(q) \/ ListRecords(q) \/ AbandonQuery(q)
        \/ \E r \in Records : SnapshotRecord(q, r)
        \/ ReleaseSnapshot(q) \/ CloseQuery(q) \/ ReleaseQueryLease(q) \/ ReleaseQueryOwner(q)

Reporting ==
    \/ OpenStatus \/ ClaimStatusSlot
    \/ ReleaseStatusLease \/ RefundStatusSlot \/ ReleaseStatusOwner

CaptureNext == Lifecycle \/ Recording \/ Querying \/ Reporting

CaptureSpec == CaptureInit /\ [][CaptureNext]_captureVars

-----------------------------------------------------------------------------
(* Properties.                                                                *)

CaptureTypeOK ==
    /\ manager.active \in Sessions \cup {0} /\ manager.starting \in Sessions \cup {0}
    /\ DOMAIN session = Sessions /\ DOMAIN blob = Blobs
    /\ \A g \in Sessions : session[g].charged \in Nat /\ session[g].temporary \in Nat

LiveChunks(b) == {i \in DOMAIN blob[b].chunks : blob[b].chunks[i].refs > 0}

\* What the objects that exist now were charged for.
Retention(g) ==
    LET traces == {t \in Traces : trace[t].gen = g /\ trace[t].state \in {"open", "finished"}}
        records == {r \in Records : record[r].gen = g /\ record[r].state \in {"active", "completed"}}
        blobs == {b \in Blobs : blob[b].gen = g}
    IN  session[g].root
        + (IF session[g].accepting THEN BaseCharge ELSE 0)
        + (IF session[g].slot \in {"free", "retired"} THEN StatusCharge ELSE 0)
        + MapThenSumSet(LAMBDA t : 1 + trace[t].lineages + trace[t].transitions, traces)
        + MapThenSumSet(LAMBDA r : record[r].charge + record[r].messages, records)
        + MapThenSumSet(LAMBDA b : (IF blob[b].refs > 0 THEN 1 ELSE 0) + Cardinality(LiveChunks(b)), blobs)
        + MapThenSumSet(LAMBDA q : query[q].charge, {q \in Queries : query[q].gen = g})

\* Every retained object is charged once and refunded once, whatever evictions,
\* denied reservations, pinned readers and stops come between.
ChargesExact ==
    \A g \in Sessions : session[g].phase \notin {"unborn"} => session[g].charged = Retention(g)

\* The process account is the sum of the sessions', with the part that waits for
\* readers of stopped sessions told apart.
ProcessAccountExact ==
    LET starting == IF manager.starting # 0 THEN StartCharge ELSE 0
        Total(f(_), s) == MapThenSumSet(f, s)
    IN  /\ account.charged = starting + Total(LAMBDA g : session[g].charged, Sessions)
        /\ account.temporary = starting + Total(LAMBDA g : session[g].temporary, Sessions)
        /\ account.releasing = Total(LAMBDA g : session[g].charged,
                                     {g \in Sessions : session[g].releasing})
        /\ account.pinned = Cardinality({<<b, i>> \in Blobs \X (1..MaxChunks) :
                               i \in DOMAIN blob[b].chunks /\ blob[b].chunks[i].pins > 0})

\* No session exceeds its quota and the process never exceeds its ceiling.
WithinBudget ==
    /\ account.charged <= Ceiling
    /\ \A g \in Sessions : session[g].charged <= Quota

\* A reader never sees a payload whose chunks were given back.
PinnedChunksLive ==
    \A q \in Queries : \A p \in query[q].pins : 1..p[2] \subseteq LiveChunks(p[1])

\* The last owner's release is never refused: a session that was stopped and that
\* nobody holds has given everything back.
ShellReturned ==
    \A g \in Sessions :
        (/\ session[g].phase = "canceled" /\ ~session[g].accepting
         /\ \A w \in Workers : recorder[w].gen # g
         /\ \A q \in Queries : query[q].gen # g
         /\ status.gen # g)
            => FALSE

\* Captured memory is accounted for: charges are exact and within their budgets,
\* and what a reader pinned stays until it returns it.
MemoryAccounted ==
    ChargesExact /\ ProcessAccountExact /\ WithinBudget /\ PinnedChunksLive /\ ShellReturned
=============================================================================

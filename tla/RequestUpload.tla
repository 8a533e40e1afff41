----------------------------- MODULE RequestUpload -----------------------------
(***************************************************************************)
(* One client upload and the exchanges that send it upstream               *)
(* (internal/requestingress, the upload owner of internal/proxy and the    *)
(* transmissions of internal/upstreamtransport).                           *)
(*                                                                         *)
(* A pump goroutine reads the client body once and keeps it in segments,   *)
(* in memory while the budgets allow and in a temporary file afterwards.   *)
(* Readers replay it from the start while it still grows: the projection   *)
(* that extracts the request's facts, and one transmission per physical    *)
(* upstream exchange.  Committing a response closes the retry window; the  *)
(* upload stops when no transmission needs it any more, and the store is   *)
(* removed after its owner, the pump and the last reader are done.         *)
(*                                                                         *)
(* A byte of the body is its position 1..length.  A read may return any    *)
(* part of what is there.  Other requests draw on the shared memory        *)
(* budget, so what is left of it at an allocation is a choice.             *)
(***************************************************************************)
EXTENDS Integers, Sequences, FiniteSets

CONSTANTS
    Uploads,             \* the uploads: how many bytes a client sends, how many it declares
                         \* (-1: none), and whether routing needs the body's facts
    MaxBodyBytes,        \* the configured limit
    MemoryBytes,         \* what one upload may keep in memory
    SharedBytes,         \* what all uploads together may keep in memory
    MinimumSegment,      \* the smallest allocation of a memory segment
    MaxTransmissions,    \* bound on physical exchanges of one request
    ClientProtocols,     \* the protocols clients speak: "http1", "http2"
    MaxFaults            \* bound on storage faults

ASSUME UploadAssumption ==
    /\ Uploads \subseteq [length : Nat, declared : {-1} \cup 0..MaxBodyBytes, needsFacts : BOOLEAN]
    /\ {MaxBodyBytes, SharedBytes, MinimumSegment, MaxTransmissions, MaxFaults} \subseteq Nat
    /\ MemoryBytes \in Int
    /\ ClientProtocols \subseteq {"http1", "http2"}

VARIABLES
    client,        \* the peer: its protocol, what it sends and what it declared
    input,         \* the request body: its once-only close, and whether its read was interrupted
    store,         \* requestingress.Handle
    charged,       \* the part of the shared Budget this upload holds
    pump,          \* the goroutine that reads the body
    watcher,       \* the goroutine that turns cancellation into Abort
    operation,     \* the operation's context: "live", or why it was cancelled
    main,          \* the handler goroutine
    reader,        \* the readers of the store
    upload,        \* ingressUpload: open transmissions and the retry window
    faults         \* storage faults so far

uploadVars == <<client, input, store, charged, pump, watcher, operation, main, reader, upload, faults>>

Transmissions == 1..MaxTransmissions
Projection == 0
Readers == {Projection} \cup Transmissions

LeastOf(a, b) == IF a < b THEN a ELSE b
MostOf(a, b) == IF a > b THEN a ELSE b

(***************************************************************************)
(* Start refuses a declared Content-Length above the limit, so Uploads has *)
(* none.                                                                   *)
(***************************************************************************)
At0(pc) == [pc |-> pc, offset |-> 0, got |-> <<>>, eof |-> FALSE, trailers |-> FALSE]

UploadInit ==
    /\ \E u \in Uploads, protocol \in ClientProtocols :
            /\ client = [length |-> u.length, declared |-> u.declared, protocol |-> protocol]
            /\ main = [pc |-> "starting", transmission |-> 0, needsFacts |-> u.needsFacts]
    /\ input = [stop |-> "idle", interrupted |-> FALSE]
    /\ store = [state |-> "receiving", err |-> "none", received |-> 0, retained |-> 0, memory |-> 0,
                segments |-> <<>>, file |-> "none", disk |-> <<>>, trailers |-> FALSE,
                closed |-> FALSE, readers |-> 0, pumpDone |-> FALSE, cleaned |-> FALSE, reported |-> FALSE]
    /\ charged = 0
    /\ pump = [pc |-> "read", chunk |-> 0, terminal |-> "none"]
    /\ watcher = "watching"
    /\ operation = "live"
    /\ reader = [r \in Readers |-> At0("none")]
    /\ upload = [active |-> 0, retryClosed |-> FALSE]
    /\ faults = 0

Stopped == store.state \in {"failed", "aborted"}

(***************************************************************************)
(* The once-only close of the request body.  The caller that comes first   *)
(* interrupts the pending read if it has a reason, and closes the body;    *)
(* the others wait for it.  An HTTP/1 body's Close waits for the client    *)
(* unless its read deadline has been moved or the body is at its end; an   *)
(* HTTP/2 body's Close breaks the stream's pipe at once.                   *)
(***************************************************************************)
InputAtEnd == store.received = client.length

Interrupts(reason) == reason # "none" /\ client.protocol = "http1"

StopInput(reason) ==
    /\ input.stop = "idle"
    /\ input' = [stop |-> "closing", interrupted |-> Interrupts(reason)]

CloseReturns == client.protocol = "http2" \/ input.interrupted \/ operation = "gone" \/ InputAtEnd

InputCloses ==
    /\ input.stop = "closing"
    /\ CloseReturns
    /\ input' = [input EXCEPT !.stop = "done"]
    /\ UNCHANGED <<client, store, charged, pump, watcher, operation, main, reader, upload, faults>>

(***************************************************************************)
(* Abort only stops a source that is still receiving; its caller then      *)
(* stops the input, outside the lock.                                      *)
(***************************************************************************)
Abort(reason) ==
    IF store.state = "receiving" THEN [store EXCEPT !.state = "aborted", !.err = reason] ELSE store

AfterAbort(stopping, next) == IF store.state = "receiving" THEN stopping ELSE next

(***************************************************************************)
(* cleanupLocked: the last of owner, pump and readers removes the store    *)
(* and gives its memory back.                                              *)
(***************************************************************************)
Cleans(s) == ~s.cleaned /\ s.closed /\ s.pumpDone /\ s.readers = 0

cleanupLocked(s) ==
    IF Cleans(s)
    THEN /\ store' = [s EXCEPT !.cleaned = TRUE, !.memory = 0, !.segments = <<>>, !.disk = <<>>,
                               !.file = IF s.file = "none" THEN "none" ELSE "removed"]
         /\ charged' = charged - s.memory
    ELSE store' = s /\ UNCHANGED charged

(***************************************************************************)
(* reportFailure announces a failed source once: the operation is          *)
(* cancelled with it.                                                      *)
(***************************************************************************)
Unreported == store.state = "failed" /\ ~store.reported

Reported == [store EXCEPT !.reported = @ \/ Unreported]

CancelledBy == IF Unreported /\ operation = "live" THEN "failure" ELSE operation

-----------------------------------------------------------------------------
(***************************************************************************)
(* The pump.  A read in flight may still deliver bytes after the source    *)
(* was stopped, unless the read itself was interrupted.                    *)
(***************************************************************************)
PumpChecks ==
    /\ pump.pc = "check"
    /\ pump' = [pump EXCEPT !.pc = IF store.state = "receiving" THEN "read" ELSE "settle"]
    /\ UNCHANGED <<client, input, store, charged, watcher, operation, main, reader, upload, faults>>

InputBroken == input.interrupted \/ (client.protocol = "http2" /\ input.stop # "idle")

PumpReads ==
    /\ pump.pc = "read"
    /\ ~InputBroken
    /\ \E n \in 1..(client.length - store.received) :
            pump' = [pump EXCEPT !.pc = "accept", !.chunk = n]
    /\ UNCHANGED <<client, input, store, charged, watcher, operation, main, reader, upload, faults>>

PumpReadFails ==
    /\ pump.pc = "read"
    /\ InputBroken \/ operation = "gone"
    /\ pump' = [pump EXCEPT !.pc = "settle", !.terminal = "read"]
    /\ UNCHANGED <<client, input, store, charged, watcher, operation, main, reader, upload, faults>>

(***************************************************************************)
(* endInput: the trailers are final only at the end of the body, and a     *)
(* body shorter than its declaration is a failure.                         *)
(***************************************************************************)
LengthHolds == client.declared < 0 \/ store.received = client.declared

PumpEnds ==
    /\ pump.pc = "read"
    /\ ~InputBroken
    /\ InputAtEnd
    /\ store' = [store EXCEPT !.trailers = @ \/ store.state = "receiving"]
    /\ pump' = [pump EXCEPT !.pc = "settle",
                            !.terminal = IF store.state = "receiving" /\ ~LengthHolds THEN "length" ELSE "none"]
    /\ UNCHANGED <<client, input, charged, watcher, operation, main, reader, upload, faults>>

(***************************************************************************)
(* acceptChunk.  The configured limit and then the declared length bound   *)
(* what is kept of a chunk; all of it counts as received.                  *)
(***************************************************************************)
acceptedBytesLocked(n) ==
    LET within == LeastOf(n, MostOf(0, MaxBodyBytes - store.received))
        remaining == MostOf(0, client.declared - store.received)
    IN  IF client.declared >= 0 /\ remaining < within
        THEN [bytes |-> remaining, err |-> "length"]
        ELSE [bytes |-> within, err |-> IF within < n THEN "limit" ELSE "none"]

LastSegment == store.segments[Len(store.segments)]

(***************************************************************************)
(* A chunk extends the last memory segment when its spare capacity holds   *)
(* it.  A new segment goes to memory, charged for its capacity, while no   *)
(* file exists and both budgets allow it, and to the file otherwise.       *)
(***************************************************************************)
ExtendsTail(n) ==
    /\ store.segments # <<>>
    /\ LastSegment.inMemory
    /\ n <= LastSegment.capacity - LastSegment.size

Acquired(n, others) ==
    LET desired == LeastOf(MostOf(n, MinimumSegment), MemoryBytes - store.memory)
        granted == LeastOf(desired, SharedBytes - others - charged)
    IN  IF store.file = "none" /\ granted >= n THEN granted ELSE 0

InTail(n) ==
    [store EXCEPT !.segments[Len(store.segments)].bytes = @ \o [i \in 1..n |-> store.received + i],
                  !.segments[Len(store.segments)].size = @ + n,
                  !.retained = @ + n]

InMemory(n, allocation) ==
    [store EXCEPT !.segments = Append(@, [start |-> store.retained, size |-> n, inMemory |-> TRUE, offset |-> 0,
                                          capacity |-> allocation, bytes |-> [i \in 1..n |-> store.received + i]]),
                  !.memory = @ + allocation, !.retained = @ + n]

Spilled(n) ==
    LET joins == store.segments # <<>> /\ ~LastSegment.inMemory
    IN  [store EXCEPT
            !.file = "open",
            !.disk = @ \o [i \in 1..n |-> store.received + i],
            !.segments = IF joins THEN [@ EXCEPT ![Len(@)].size = @ + n]
                         ELSE Append(@, [start |-> store.retained, size |-> n, inMemory |-> FALSE,
                                         offset |-> Len(store.disk), capacity |-> 0, bytes |-> <<>>]),
            !.retained = @ + n]

Received(s, n) == [s EXCEPT !.received = store.received + n]

Accepted(terminal) ==
    pump' = [pump EXCEPT !.pc = IF terminal = "none" THEN "check" ELSE "settle", !.terminal = terminal, !.chunk = 0]

PumpAcceptsLate ==
    /\ pump.pc = "accept"
    /\ store.state # "receiving"
    /\ store' = Received(store, pump.chunk)
    /\ pump' = [pump EXCEPT !.pc = "settle", !.terminal = store.err, !.chunk = 0]
    /\ UNCHANGED <<client, input, charged, watcher, operation, main, reader, upload, faults>>

PumpAccepts ==
    /\ pump.pc = "accept"
    /\ store.state = "receiving"
    /\ \E others \in 0..SharedBytes :
          LET allowed == acceptedBytesLocked(pump.chunk)
              n == allowed.bytes
              allocation == Acquired(n, others)
          IN  /\ others = 0 \/ (n > 0 /\ ~ExtendsTail(n) /\ store.file = "none")
              /\ store' = Received(IF n = 0 THEN store
                                   ELSE IF ExtendsTail(n) THEN InTail(n)
                                   ELSE IF allocation > 0 THEN InMemory(n, allocation)
                                   ELSE Spilled(n), pump.chunk)
              /\ charged' = IF n = 0 \/ ExtendsTail(n) THEN charged ELSE charged + allocation
              /\ Accepted(allowed.err)
    /\ UNCHANGED <<client, input, watcher, operation, main, reader, upload, faults>>

(***************************************************************************)
(* Creating or writing the temporary file fails: nothing of the chunk is   *)
(* kept.                                                                   *)
(***************************************************************************)
PumpStorageFails ==
    /\ pump.pc = "accept"
    /\ store.state = "receiving"
    /\ faults < MaxFaults
    /\ LET n == acceptedBytesLocked(pump.chunk).bytes
       IN  n > 0 /\ ~ExtendsTail(n)
    /\ \E file \in {store.file, "open"} : store' = Received([store EXCEPT !.file = file], pump.chunk)
    /\ pump' = [pump EXCEPT !.pc = "settle", !.terminal = "storage", !.chunk = 0]
    /\ faults' = faults + 1
    /\ UNCHANGED <<client, input, charged, watcher, operation, main, reader, upload>>

(***************************************************************************)
(* finish: settle the state, stop the input, report, and only then give    *)
(* up the pump's hold on the store.                                        *)
(***************************************************************************)
PumpSettles ==
    /\ pump.pc = "settle"
    /\ store' = IF store.state # "receiving" THEN store
                ELSE IF pump.terminal = "none" THEN [store EXCEPT !.state = "complete"]
                ELSE [store EXCEPT !.state = "failed", !.err = pump.terminal]
    /\ pump' = [pump EXCEPT !.pc = "stop"]
    /\ UNCHANGED <<client, input, charged, watcher, operation, main, reader, upload, faults>>

PumpStopsInput ==
    /\ pump.pc = "stop"
    /\ StopInput(pump.terminal)
    /\ UNCHANGED <<client, store, charged, pump, watcher, operation, main, reader, upload, faults>>

PumpFinishes ==
    /\ pump.pc = "stop"
    /\ input.stop = "done"
    /\ cleanupLocked([Reported EXCEPT !.pumpDone = TRUE])
    /\ operation' = CancelledBy
    /\ pump' = [pump EXCEPT !.pc = "done", !.terminal = "none"]
    /\ UNCHANGED <<client, input, watcher, main, reader, upload, faults>>

(***************************************************************************)
(* Cancellation of the operation aborts the upload while the pump runs.    *)
(***************************************************************************)
WatcherAborts ==
    /\ watcher = "watching"
    /\ operation # "live"
    /\ pump.pc # "done"
    /\ store' = Abort("cancelled")
    /\ watcher' = AfterAbort("stopping", "ended")
    /\ UNCHANGED <<client, input, charged, pump, operation, main, reader, upload, faults>>

WatcherStops ==
    /\ watcher = "stopping"
    /\ StopInput("cancelled")
    /\ watcher' = "ended"
    /\ UNCHANGED <<client, store, charged, pump, operation, main, reader, upload, faults>>

(***************************************************************************)
(* The client leaves; the end of its connection or stream cancels the      *)
(* operation.                                                              *)
(***************************************************************************)
ClientGone ==
    /\ operation = "live"
    /\ main.pc # "returned"
    /\ operation' = "gone"
    /\ UNCHANGED <<client, input, store, charged, pump, watcher, main, reader, upload, faults>>

-----------------------------------------------------------------------------
(***************************************************************************)
(* Readers.  A read returns bytes of one segment, the end of a complete    *)
(* source, or the source's failure; otherwise it waits for more.           *)
(***************************************************************************)
CanOpen == ~store.closed /\ ~Stopped

SegmentAt(offset) ==
    CHOOSE k \in 1..Len(store.segments) :
        /\ offset >= store.segments[k].start
        /\ offset < store.segments[k].start + store.segments[k].size

MutreadSegmentLocked(offset, count) ==
    LET s == store.segments[SegmentAt(offset)]
        within == offset - s.start
    IN  IF s.inMemory THEN SubSeq(s.bytes, within + 1, within + count)
        ELSE SubSeq(store.disk, s.offset + 1, s.offset + count)

readSegmentLocked(offset, count) ==
    LET s == store.segments[SegmentAt(offset)]
        within == offset - s.start
    IN  IF s.inMemory THEN SubSeq(s.bytes, within + 1, within + count)
        ELSE SubSeq(store.disk, s.offset + within + 1, s.offset + within + count)

Readable(offset) ==
    LET s == store.segments[SegmentAt(offset)] IN s.size - (offset - s.start)

ReaderReads(r) ==
    /\ reader[r].pc = "open"
    /\ ~Stopped
    /\ reader[r].offset < store.retained
    /\ \E count \in 1..Readable(reader[r].offset) :
            reader' = [reader EXCEPT ![r].offset = @ + count,
                                     ![r].got = @ \o readSegmentLocked(reader[r].offset, count)]
    /\ UNCHANGED <<client, input, store, charged, pump, watcher, operation, main, upload, faults>>

(***************************************************************************)
(* The temporary file cannot be read: the source fails for everyone, also  *)
(* after it was complete.  The reader reports it and stops the input.      *)
(***************************************************************************)
ReaderFaults(r) ==
    /\ reader[r].pc = "open"
    /\ ~Stopped
    /\ faults < MaxFaults
    /\ reader[r].offset < store.retained
    /\ ~store.segments[SegmentAt(reader[r].offset)].inMemory
    /\ store' = [store EXCEPT !.state = "failed", !.err = "storage"]
    /\ reader' = [reader EXCEPT ![r].pc = "reporting"]
    /\ faults' = faults + 1
    /\ UNCHANGED <<client, input, charged, pump, watcher, operation, main, upload>>

ReaderReports(r) ==
    /\ reader[r].pc = "reporting"
    /\ store' = Reported
    /\ operation' = CancelledBy
    /\ reader' = [reader EXCEPT ![r].pc = "stopping"]
    /\ UNCHANGED <<client, input, charged, pump, watcher, main, upload, faults>>

ReaderStopsInput(r) ==
    /\ reader[r].pc = "stopping"
    /\ StopInput("storage")
    /\ UNCHANGED <<client, store, charged, pump, watcher, operation, main, reader, upload, faults>>

ReaderReturns(r) ==
    /\ reader[r].pc = "stopping"
    /\ input.stop = "done"
    /\ reader' = [reader EXCEPT ![r].pc = "open"]
    /\ UNCHANGED <<client, input, store, charged, pump, watcher, operation, main, upload, faults>>

(***************************************************************************)
(* A transmission that reaches the end publishes the final trailers.       *)
(***************************************************************************)
ReaderEnds(r) ==
    /\ reader[r].pc = "open"
    /\ ~reader[r].eof
    /\ store.state = "complete"
    /\ reader[r].offset = store.retained
    /\ reader' = [reader EXCEPT ![r].eof = TRUE, ![r].trailers = store.trailers]
    /\ UNCHANGED <<client, input, store, charged, pump, watcher, operation, main, upload, faults>>

ProjectionCloses ==
    /\ reader[Projection].pc = "open"
    /\ reader[Projection].eof \/ Stopped \/ operation # "live"
    /\ cleanupLocked([store EXCEPT !.readers = @ - 1])
    /\ reader' = [reader EXCEPT ![Projection] = At0("closed")]
    /\ UNCHANGED <<client, input, pump, watcher, operation, main, upload, faults>>

(***************************************************************************)
(* The transport closes a transmission's body: at its end, after the       *)
(* source failed, or once the exchange has answered or failed.             *)
(***************************************************************************)
TransmissionCloses(t) ==
    /\ reader[t].pc = "open"
    /\ reader[t].eof \/ Stopped \/ ~(main.pc = "exchanging" /\ main.transmission = t)
    /\ cleanupLocked([store EXCEPT !.readers = @ - 1])
    /\ reader' = [reader EXCEPT ![t] = At0("retiring")]
    /\ UNCHANGED <<client, input, pump, watcher, operation, main, upload, faults>>

(***************************************************************************)
(* uploadReader.Close: the last active transmission of a closed retry      *)
(* window stops an upload nobody reads any more.                           *)
(***************************************************************************)
TransmissionRetires(t) ==
    /\ reader[t].pc = "retiring"
    /\ upload' = [upload EXCEPT !.active = @ - 1]
    /\ LET stop == upload.retryClosed /\ upload.active = 1
       IN  /\ store' = IF stop THEN Abort("finished") ELSE store
           /\ reader' = [reader EXCEPT ![t].pc = IF stop THEN AfterAbort("aborting", "closed") ELSE "closed"]
    /\ UNCHANGED <<client, input, charged, pump, watcher, operation, main, faults>>

TransmissionStopsInput(t) ==
    /\ reader[t].pc = "aborting"
    /\ StopInput("finished")
    /\ UNCHANGED <<client, store, charged, pump, watcher, operation, main, reader, upload, faults>>

TransmissionStopped(t) ==
    /\ reader[t].pc = "aborting"
    /\ input.stop = "done"
    /\ reader' = [reader EXCEPT ![t].pc = "closed"]
    /\ UNCHANGED <<client, input, store, charged, pump, watcher, operation, main, upload, faults>>

-----------------------------------------------------------------------------
(***************************************************************************)
(* The handler.  The projection opens first; a request whose routing needs *)
(* the body's facts waits for it or for the end of the operation.          *)
(***************************************************************************)
At(pc) == main' = [main EXCEPT !.pc = pc]

ProjectRequest ==
    /\ main.pc = "starting"
    /\ IF CanOpen
       THEN /\ store' = [store EXCEPT !.readers = @ + 1]
            /\ reader' = [reader EXCEPT ![Projection].pc = "open"]
       ELSE /\ reader' = [reader EXCEPT ![Projection].pc = "closed"]
            /\ UNCHANGED store
    /\ main' = [main EXCEPT !.pc = IF main.needsFacts THEN "admission" ELSE "ready", !.needsFacts = FALSE]
    /\ UNCHANGED <<client, input, charged, pump, watcher, operation, upload, faults>>

Admit ==
    /\ main.pc = "admission"
    /\ reader[Projection].pc = "closed" \/ operation # "live"
    /\ At(IF operation = "live" /\ store.state # "failed" THEN "ready" ELSE "closing")
    /\ UNCHANGED <<client, input, store, charged, pump, watcher, operation, reader, upload, faults>>

(***************************************************************************)
(* A transmission opens a reader of its own and counts as active.          *)
(***************************************************************************)
Counted == [upload EXCEPT !.active = @ + 1]

OpenTransmission ==
    /\ main.pc = "ready"
    /\ operation = "live"
    /\ main.transmission < MaxTransmissions
    /\ CanOpen
    /\ store' = [store EXCEPT !.readers = @ + 1]
    /\ upload' = Counted
    /\ reader' = [reader EXCEPT ![main.transmission + 1].pc = "open"]
    /\ main' = [main EXCEPT !.pc = "exchanging", !.transmission = @ + 1]
    /\ UNCHANGED <<client, input, charged, pump, watcher, operation, faults>>

(***************************************************************************)
(* No exchange can be opened, or the execution gives up.                   *)
(***************************************************************************)
GiveUp ==
    /\ main.pc = "ready"
    /\ At("finishing")
    /\ UNCHANGED <<client, input, store, charged, pump, watcher, operation, reader, upload, faults>>

UpstreamAnswers ==
    /\ main.pc = "exchanging"
    /\ At("answered")
    /\ UNCHANGED <<client, input, store, charged, pump, watcher, operation, reader, upload, faults>>

(***************************************************************************)
(* The exchange fails.  The transport joins the old body before a native   *)
(* reopen or another attempt can read the source again.                    *)
(***************************************************************************)
ExchangeFails ==
    /\ main.pc = "exchanging"
    /\ At("joining")
    /\ UNCHANGED <<client, input, store, charged, pump, watcher, operation, reader, upload, faults>>

ExchangeJoined ==
    /\ main.pc = "joining"
    /\ reader[main.transmission].pc = "closed"
    /\ At("ready")
    /\ UNCHANGED <<client, input, store, charged, pump, watcher, operation, reader, upload, faults>>

FailOver ==
    /\ main.pc = "answered"
    /\ At(IF store.state = "failed" THEN "finishing" ELSE "ready")
    /\ UNCHANGED <<client, input, store, charged, pump, watcher, operation, reader, upload, faults>>

(***************************************************************************)
(* Committing the response closes the retry window.                        *)
(***************************************************************************)
closeRetryWindow ==
    /\ main.pc = "answered"
    /\ upload' = [upload EXCEPT !.retryClosed = TRUE]
    /\ store' = IF upload.active = 0 THEN Abort("finished") ELSE store
    /\ At(IF upload.active = 0 THEN AfterAbort("committing", "relaying") ELSE "relaying")
    /\ UNCHANGED <<client, input, charged, pump, watcher, operation, reader, faults>>

MainStopsInput ==
    /\ main.pc \in {"committing", "finishStop", "closeStop"}
    /\ StopInput("finished")
    /\ UNCHANGED <<client, store, charged, pump, watcher, operation, main, reader, upload, faults>>

MainStopped ==
    /\ main.pc \in {"committing", "finishStop", "closeStop"}
    /\ input.stop = "done"
    /\ At(CASE main.pc = "committing" -> "relaying"
            [] main.pc = "finishStop" -> "waitFacts"
            [] main.pc = "closeStop" -> "join")
    /\ UNCHANGED <<client, input, store, charged, pump, watcher, operation, reader, upload, faults>>

ResponseEnds ==
    /\ main.pc = "relaying"
    /\ At("finishing")
    /\ UNCHANGED <<client, input, store, charged, pump, watcher, operation, reader, upload, faults>>

finishIngress ==
    /\ main.pc = "finishing"
    /\ store' = Abort("finished")
    /\ At(AfterAbort("finishStop", "waitFacts"))
    /\ UNCHANGED <<client, input, charged, pump, watcher, operation, reader, upload, faults>>

FactsSettled ==
    /\ main.pc = "waitFacts"
    /\ reader[Projection].pc = "closed"
    /\ At("closing")
    /\ UNCHANGED <<client, input, store, charged, pump, watcher, operation, reader, upload, faults>>

(***************************************************************************)
(* Close ends the ownership; it waits for the pump, not for the readers.   *)
(***************************************************************************)
CloseUpload ==
    /\ main.pc = "closing"
    /\ store' = [Abort("closed") EXCEPT !.closed = TRUE]
    /\ At(AfterAbort("closeStop", "join"))
    /\ UNCHANGED <<client, input, charged, pump, watcher, operation, reader, upload, faults>>

JoinPump ==
    /\ main.pc = "join"
    /\ pump.pc = "done"
    /\ cleanupLocked(store)
    /\ operation' = IF operation = "live" THEN "ended" ELSE operation
    /\ At("returned")
    /\ UNCHANGED <<client, input, pump, watcher, reader, upload, faults>>

-----------------------------------------------------------------------------
PumpStep ==
    PumpChecks \/ PumpReadFails \/ PumpAcceptsLate \/ PumpAccepts \/ PumpSettles
        \/ PumpStopsInput \/ PumpFinishes

ReaderStep(r) == ReaderReports(r) \/ ReaderStopsInput(r) \/ ReaderReturns(r)

ProjectionStep == ReaderReads(Projection) \/ ReaderEnds(Projection) \/ ProjectionCloses

TransmissionStep(t) ==
    TransmissionCloses(t) \/ TransmissionRetires(t) \/ TransmissionStopsInput(t) \/ TransmissionStopped(t)

MainStep == MainStopsInput \/ MainStopped \/ finishIngress \/ FactsSettled \/ CloseUpload \/ JoinPump

(***************************************************************************)
(* What the program does by itself, without the client or the upstream.    *)
(***************************************************************************)
WindDown ==
    \/ PumpStep \/ InputCloses \/ WatcherAborts \/ WatcherStops
    \/ \E r \in Readers : ReaderStep(r)
    \/ ProjectionStep
    \/ \E t \in Transmissions : TransmissionStep(t)
    \/ MainStep

UploadNext ==
    \/ WindDown
    \/ PumpReads \/ PumpEnds \/ PumpStorageFails
    \/ ClientGone
    \/ \E r \in Readers : ReaderFaults(r)
    \/ \E t \in Transmissions : ReaderReads(t) \/ ReaderEnds(t)
    \/ ProjectRequest \/ Admit \/ OpenTransmission \/ GiveUp
    \/ UpstreamAnswers \/ ExchangeFails \/ ExchangeJoined \/ FailOver \/ closeRetryWindow \/ ResponseEnds

UploadSpec == UploadInit /\ [][UploadNext]_uploadVars

-----------------------------------------------------------------------------
OpenReaders == {r \in Readers : reader[r].pc \in {"open", "reporting", "stopping"}}

(***************************************************************************)
(* Every reader replays the client's bytes in order from the first one,    *)
(* across memory and file segments and however the reads were cut, and     *)
(* sees an end only of the whole body, with its declared length and its    *)
(* final trailers.                                                         *)
(***************************************************************************)
ReplayExact ==
    \A r \in Readers :
        /\ reader[r].got = [i \in 1..reader[r].offset |-> i]
        /\ reader[r].eof =>
              /\ reader[r].offset = client.length
              /\ reader[r].trailers
              /\ client.declared \in {-1, client.length}

(***************************************************************************)
(* The store outlives whoever uses it: nothing is removed before the owner *)
(* closed it, the pump ended and the last reader is closed, and its memory *)
(* goes back to the shared budget exactly once.                            *)
(***************************************************************************)
StoreOutlivesReaders ==
    /\ store.readers = Cardinality(OpenReaders)
    /\ OpenReaders # {} \/ pump.pc # "done" => ~store.cleaned
    /\ charged = store.memory
    /\ charged \in 0..SharedBytes

(***************************************************************************)
(* An upload is not cut off as finished while a transmission still reads   *)
(* it, until the handler itself winds the request down.                    *)
(***************************************************************************)
ResponderFed ==
    store.err = "finished" /\ main.pc \in {"answered", "committing", "relaying"} =>
        \A t \in Transmissions : reader[t].pc # "open"

(***************************************************************************)
(* Winding a request down never waits for an HTTP/2 client that stalls in  *)
(* its upload: until the handler has returned and the store is removed,    *)
(* the program has a step of its own to take.                              *)
(***************************************************************************)
NeverWedged ==
    \/ main.pc \notin {"finishing", "finishStop", "waitFacts", "closing", "closeStop", "join", "returned"}
    \/ main.pc = "returned" /\ store.cleaned
    \/ ENABLED WindDown

\* What upstreams read is what the client sent, from a store that outlives its
\* readers, however the request ends.
UploadIntact == ReplayExact /\ StoreOutlivesReaders /\ ResponderFed /\ NeverWedged
================================================================================

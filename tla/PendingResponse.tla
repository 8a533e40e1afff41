--------------------------- MODULE PendingResponse ---------------------------
(***************************************************************************)
(* One pending upstream response (internal/responseanalysis/pending): the  *)
(* coordinator goroutine that alone writes to the client, the pump that    *)
(* reads the upstream body and drives the analysis, and the executor of    *)
(* the proxy that waits for the boundary and decides.                      *)
(*                                                                         *)
(* Pump and coordinator meet on unbuffered channels, so a pump event, its  *)
(* handler and the answer the pump waits for are one step; reads, decoding *)
(* and timer callbacks interleave with everything else.  Body bytes are    *)
(* numbered 1, 2, ... in the order the upstream sent them.  A timer signal *)
(* carries whether its generation is still the current one: every stop and *)
(* every arm of a timer makes the signals it fired before stale.  Usage    *)
(* observations, byte counters, reasons and traces are left out.           *)
(***************************************************************************)
EXTENDS Naturals, Sequences, SequencesExt

CONSTANTS
  Modes,         \* the analysis modes of responses that may start
  MaxBytes,      \* bytes the upstream sends at most
  MaxChunk,      \* bytes one read returns at most
  MaxBlocks,     \* decoded blocks one raw chunk yields at most
  MaxFrames,     \* decisive observations of one decoded block at most
  IdleEnabled    \* IdleDuration > 0

AllModes == {"hold", "probe", "gate", "observe", "unanalyzable"}

ASSUME BoundsAssumption ==
  /\ Modes \subseteq AllModes
  /\ MaxBytes \in Nat /\ MaxChunk \in Nat
  /\ MaxBlocks \in Nat /\ MaxFrames \in Nat
  /\ IdleEnabled \in BOOLEAN

VARIABLES
  mode,        \* StartInput.Mode, or "unanalyzable" when InitialFailure is set
  c,           \* the coordinator's fields and the cells it shares
  bodyPump,        \* the pump goroutine: place, raw source, analysis loop
  got,         \* number of the last byte the upstream handed over
  cancelled,   \* the request context is done
  executor,    \* what the proxy is doing with the response
  cmd          \* the command in the channel, "none" when empty

responseVars == <<mode, c, bodyPump, got, cancelled, executor, cmd>>

Timers == {"probe", "idle"}
Kinds == {"semantic", "visible", "failopen"}

\* The bytes from a + 1 to b, in order.
Bytes(a, b) == [i \in 1..(b - a) |-> a + i]

InitialCoordinator ==
  [state |-> "probing", prefix |-> <<>>, written |-> <<>>, headers |-> FALSE,
   termination |-> "none", analysisFailure |-> FALSE, hasSemantic |-> FALSE,
   paused |-> FALSE, denied |-> FALSE, bodyClosed |-> FALSE,
   started |-> FALSE, analyzing |-> FALSE, running |-> FALSE,
   finalized |-> FALSE, cancelSeen |-> FALSE,
   armed |-> {}, inflight |-> {}, mail |-> <<>>,
   boundary |-> "none", semantic |-> "none",
   discarding |-> FALSE, reply |-> "none", ack |-> "none", breaks |-> 0]

NoPump ==
  [at |-> "none", phase |-> "boot", directive |-> "analyze", last |-> "analyze",
   rawErr |-> "none", pendingErr |-> "none", chunk |-> <<>>, blocks |-> 0,
   frames |-> 0, obs |-> "none", ret |-> "none", readError |-> FALSE]

\* breaks is the byte whose write to the client fails, once.
ResponseInit ==
  /\ mode \in Modes
  /\ \E b \in 1..(MaxBytes + 1) : c = [InitialCoordinator EXCEPT !.breaks = b]
  /\ bodyPump = NoPump
  /\ got = 0
  /\ cancelled = FALSE
  /\ executor = IF mode = "hold" THEN "decide" ELSE "boundary"
  /\ cmd = "none"

-----------------------------------------------------------------------------
(* Timers and the client writer, as functions of the coordinator's fields. *)

Stale(signal, kind) == IF signal.kind = kind THEN [signal EXCEPT !.live = FALSE] ELSE signal

StopTimer(s, kind) ==
  [s EXCEPT !.armed = @ \ {kind},
            !.inflight = {Stale(x, kind) : x \in @},
            !.mail = [i \in DOMAIN @ |-> Stale(@[i], kind)]]

ArmTimer(s, kind) == [StopTimer(s, kind) EXCEPT !.armed = @ \cup {kind}]

armIdleTimer(s) == IF IdleEnabled THEN ArmTimer(s, "idle") ELSE StopTimer(s, "idle")

closeBody(s) == [s EXCEPT !.bodyClosed = TRUE]

ClientWriteFailed(s) == closeBody([s EXCEPT !.termination = "client_write_failure"])

WriteFails(s, bytes) == s.breaks \in ToSet(bytes)

\* writeFull: the bytes before the failing one still reach the client.
writeRaw(s, bytes) ==
  IF WriteFails(s, bytes)
  THEN ClientWriteFailed([s EXCEPT !.written = @ \o SelectSeq(bytes, LAMBDA b : b < s.breaks),
                                   !.breaks = 0])
  ELSE [s EXCEPT !.written = @ \o bytes]

\* flushPrefix followed by the bytes that were not retained.
flushPrefix(s, rest) == [writeRaw(s, s.prefix \o rest) EXCEPT !.prefix = <<>>]

\* A result cell keeps the first value published.
Publish(cell, value) == IF cell = "none" THEN value ELSE cell

commitForwarding(s, rest) ==
  IF s.state # "probing" THEN s
  ELSE LET opened == [StopTimer(s, "probe") EXCEPT !.state = "forwarding", !.headers = TRUE]
       IN [flushPrefix(opened, rest) EXCEPT !.boundary = Publish(@, "forwarding")]

startPump(s, analyze) == [s EXCEPT !.started = TRUE, !.analyzing = analyze]

finalize(s) ==
  LET quiet == closeBody(StopTimer(StopTimer(s, "probe"), "idle"))
  IN [quiet EXCEPT !.finalized = TRUE, !.prefix = <<>>,
                   !.termination = IF @ = "none" THEN "internal_failure" ELSE @,
                   !.semantic = IF s.hasSemantic THEN @ ELSE Publish(@, "completed"),
                   !.reply = IF s.discarding THEN "ok" ELSE @,
                   !.discarding = FALSE]

Acked(s, directive) == [s EXCEPT !.ack = directive]

\* Mutant: a paused pump is left waiting for its answer.
MutDiscardParks(s) ==
  LET closed == closeBody(StopTimer(StopTimer(s, "probe"), "idle"))
      dropped == [closed EXCEPT !.state = "discarded", !.prefix = <<>>,
                                !.termination = IF @ = "none" THEN "discarded" ELSE @,
                                !.boundary = Publish(@, "discarded"), !.paused = FALSE]
  IN IF s.started THEN dropped ELSE finalize(dropped)

discard(s) ==
  LET closed == closeBody(StopTimer(StopTimer(s, "probe"), "idle"))
      dropped == [closed EXCEPT !.state = "discarded", !.prefix = <<>>,
                                !.termination = IF @ = "none" THEN "discarded" ELSE @,
                                !.boundary = Publish(@, "discarded"),
                                !.paused = FALSE,
                                !.ack = IF s.paused THEN "stop" ELSE @]
  IN IF s.started THEN dropped ELSE finalize(dropped)

handleCancellation(s) ==
  LET gone == [s EXCEPT !.termination = "client_cancelled"]
  IN CASE s.state = "discarded" -> s
       [] s.state = "probing" -> discard(gone)
       [] OTHER -> [closeBody(StopTimer(gone, "idle"))
                      EXCEPT !.paused = FALSE, !.ack = IF s.paused THEN "stop" ELSE @]

-----------------------------------------------------------------------------
(* What the coordinator answers to the events of the pump.                 *)

\* No further upstream read and no further client write is wanted.
Unwanted(s) ==
  s.state = "discarded" \/ s.termination \in {"client_write_failure", "client_cancelled"}

bufferedAnalysisDirective(s) ==
  IF s.state # "discarded" /\ s.analyzing /\ ~s.analysisFailure THEN "analyze" ELSE "stop"

analysisDirective(s) ==
  IF Unwanted(s) THEN "stop" ELSE IF s.analysisFailure THEN "forward" ELSE "analyze"

resumePumpAfterResolution(s) ==
  IF s.paused THEN [Acked(s, analysisDirective(s)) EXCEPT !.paused = FALSE] ELSE s

handleReadStarted(s) ==
  IF Unwanted(s) THEN Acked(s, "stop") ELSE Acked(armIdleTimer(s), "analyze")

\* retainRaw: kept bytes fit the request's and the process' memory budget.
retainRaw(s, raw, kept) ==
  [s EXCEPT !.prefix = @ \o SubSeq(raw, 1, kept), !.denied = kept < Len(raw)]

handleProbingRaw(s, raw, kept) ==
  LET held == retainRaw(s, raw, kept)
  IN IF ~held.denied THEN Acked(held, "analyze")
     ELSE LET sent == commitForwarding(held, SubSeq(raw, kept + 1, Len(raw)))
          IN Acked(sent, bufferedAnalysisDirective(sent))

writeForwardingRaw(s, raw) ==
  LET sent == writeRaw(s, raw)
  IN IF WriteFails(s, raw) THEN Acked(sent, bufferedAnalysisDirective(sent))
     ELSE Acked(sent, IF s.analyzing /\ ~s.analysisFailure THEN "analyze" ELSE "forward")

handleForwardingRaw(s, raw, kept) ==
  IF ~s.analyzing \/ mode # "gate" \/ s.analysisFailure THEN writeForwardingRaw(s, raw)
  ELSE LET held == retainRaw(s, raw, kept)
           sent == IF held.denied THEN flushPrefix(held, SubSeq(raw, kept + 1, Len(raw))) ELSE held
       IN Acked(sent, bufferedAnalysisDirective(sent))

handleRaw(s, raw, kept) ==
  LET stopped == StopTimer(s, "idle")
  IN CASE Unwanted(stopped) -> Acked(stopped, bufferedAnalysisDirective(stopped))
       [] stopped.state = "probing" -> handleProbingRaw(stopped, raw, kept)
       [] OTHER -> handleForwardingRaw(stopped, raw, kept)

handleAnalysisCheckpoint(s) ==
  LET sent == IF s.state = "forwarding" THEN flushPrefix(s, <<>>) ELSE s
  IN IF Unwanted(s) THEN Acked(s, bufferedAnalysisDirective(s))
     ELSE Acked(sent, IF Unwanted(sent) THEN bufferedAnalysisDirective(sent)
                                        ELSE analysisDirective(sent))

handleSemanticMatch(s) ==
  LET seen == [s EXCEPT !.hasSemantic = TRUE, !.semantic = Publish(@, "matched")]
  IN CASE s.hasSemantic -> Acked(s, analysisDirective(s))
       [] ~s.hasSemantic /\ s.state = "probing" ->
            [StopTimer(seen, "probe") EXCEPT !.boundary = Publish(@, "probing"), !.paused = TRUE]
       [] ~s.hasSemantic /\ s.state = "forwarding" /\ mode = "gate" ->
            [seen EXCEPT !.paused = TRUE]
       [] OTHER -> Acked(seen, analysisDirective(seen))

\* commitForwarding while probing, flushPrefix while forwarding.
Released(s) ==
  IF s.state = "forwarding" THEN flushPrefix(s, <<>>) ELSE commitForwarding(s, <<>>)

handleDecisiveObservation(s, kind) ==
  LET noted == IF kind = "failopen" THEN [s EXCEPT !.analysisFailure = TRUE] ELSE s
      shown == commitForwarding(noted, <<>>)
      opened == Released(noted)
  IN CASE Unwanted(noted) -> Acked(noted, bufferedAnalysisDirective(noted))
       [] ~Unwanted(noted) /\ kind = "semantic" -> handleSemanticMatch(noted)
       [] ~Unwanted(noted) /\ kind = "visible" -> Acked(shown, bufferedAnalysisDirective(shown))
       [] OTHER -> Acked(opened, analysisDirective(opened))

handleAnalysisFailure(s) ==
  LET opened == Released([s EXCEPT !.analysisFailure = TRUE])
  IN Acked(opened, IF opened.termination = "client_write_failure" \/ opened.state = "discarded"
                   THEN "stop" ELSE "forward")

handlePumpTermination(s, readError) ==
  LET outcome == IF s.state = "discarded" THEN "discarded"
                 ELSE IF readError THEN "upstream_read_failure" ELSE "completed"
      ended == [s EXCEPT !.termination = IF s.state = "probing" \/ @ = "none" THEN outcome ELSE @]
  IN finalize(commitForwarding(ended, <<>>))

-----------------------------------------------------------------------------
(* The pump between two meetings with the coordinator.                     *)

\* sendPumpTerminal
Ended(p, readError) == [p EXCEPT !.at = "ended", !.readError = readError]

\* forward: hand over raw bytes until the body ends or the coordinator stops it.
Forwarding(p) ==
  LET raw == [p EXCEPT !.phase = "forward", !.blocks = 0]
  IN IF p.pendingErr # "none" THEN Ended(raw, p.pendingErr = "fail") ELSE [raw EXCEPT !.at = "start"]

\* runAnalysisDriver after the driver's Read and the checkpoint, finishAnalysisRead.
finishAnalysisRead(p) ==
  CASE p.ret = "ok" /\ p.last = "analyze" -> [p EXCEPT !.at = "driver"]
    [] p.ret \in {"ok", "analysisStopped"} /\ p.last # "analyze" ->
         IF p.last = "stop" THEN Ended(p, FALSE) ELSE Forwarding(p)
    [] OTHER ->
         IF p.directive = "stop" THEN Ended(p, FALSE)
         ELSE IF p.rawErr = "fail" THEN Ended(p, TRUE)
         ELSE IF p.ret = "eof" THEN Ended(p, FALSE)
         ELSE [p EXCEPT !.at = "failing"]

\* Mutant: no checkpoint after a Read that returned an error.
MutReturned(p, ret) ==
  LET back == [p EXCEPT !.ret = ret, !.frames = 0]
  IN IF mode = "gate" /\ p.last = "analyze" /\ ret = "ok" THEN [back EXCEPT !.at = "checkpoint"]
     ELSE finishAnalysisRead(back)

\* The driver's Read returns ret; a gated pump asks for a checkpoint first.
Returned(p, ret) ==
  LET back == [p EXCEPT !.ret = ret, !.frames = 0]
  IN IF mode = "gate" /\ p.last = "analyze" THEN [back EXCEPT !.at = "checkpoint"]
     ELSE finishAnalysisRead(back)

\* prepareAnalysisDriver when the factory fails.
OpenFailed(p) ==
  IF p.directive = "stop" THEN Ended(p, FALSE)
  ELSE IF p.rawErr = "fail" THEN Ended(p, TRUE)
  ELSE [p EXCEPT !.at = "failing"]

\* fill returns ErrReadStopped; the decoder may still hold decoded bytes.
ReadStopped(p) ==
  LET stopped == [p EXCEPT !.directive = "stop", !.blocks = 0]
  IN CASE p.phase = "forward" -> Ended(stopped, FALSE)
       [] p.phase = "open" -> OpenFailed(stopped)
       [] OTHER -> [stopped EXCEPT !.at = "feeding", !.ret = "readStopped", !.frames = MaxFrames]

\* fill after the coordinator took the raw bytes and lets the pump go on.  While
\* the pump analyses, no failure is recorded yet and the directive is "analyze".
Handed(p, directive) ==
  LET filled == [p EXCEPT !.directive = directive,
                          !.pendingErr = IF p.rawErr # "none" THEN p.rawErr ELSE @]
  IN IF p.phase = "forward" THEN Forwarding(filled) ELSE [filled EXCEPT !.at = "driver"]

\* The pump after the coordinator answered the event it is waiting on.
Deliver(p, directive) ==
  CASE p.at = "start" -> IF directive = "stop" THEN ReadStopped(p) ELSE [p EXCEPT !.at = "reading"]
    [] p.at = "raw" -> IF directive = "stop" THEN ReadStopped(p) ELSE Handed(p, directive)
    [] p.at \in {"observe", "paused"} ->
         IF directive = "analyze" THEN [p EXCEPT !.at = "feeding", !.last = directive]
         ELSE Returned([p EXCEPT !.last = directive], "analysisStopped")
    [] p.at = "checkpoint" -> finishAnalysisRead([p EXCEPT !.last = directive])
    [] p.at = "failing" -> IF directive = "stop" THEN Ended(p, p.phase = "open") ELSE Forwarding(p)

\* runPump, prepareDecodedBuffer: the decoded buffer may be denied.
PumpBoots ==
  /\ bodyPump.at = "boot"
  /\ \/ ~c.analyzing /\ bodyPump' = Forwarding(bodyPump)
     \/ c.analyzing /\ bodyPump' = [bodyPump EXCEPT !.at = "driver", !.phase = "open"]
     \/ c.analyzing /\ bodyPump' = [bodyPump EXCEPT !.at = "failing"]
  /\ UNCHANGED <<mode, c, got, cancelled, executor, cmd>>

\* body.Read: some bytes, the end, a failure; a closed body fails.  Reads that
\* return neither bytes nor an error change nothing and are left out.
ReadReturns ==
  /\ bodyPump.at = "reading"
  /\ \E n \in 0..MaxChunk, err \in {"none", "eof", "fail"} :
       /\ got + n <= MaxBytes
       /\ n = 0 => err # "none"
       /\ bodyPump.rawErr # "none" => n = 0 /\ err = bodyPump.rawErr
       /\ c.bodyClosed => err = "fail" \/ bodyPump.rawErr # "none"
       /\ \E blocks \in IF n = 0 \/ bodyPump.phase = "forward" THEN {0} ELSE 0..MaxBlocks :
            bodyPump' = [bodyPump EXCEPT !.at = "raw", !.chunk = Bytes(got, got + n), !.blocks = blocks,
                                 !.rawErr = IF err = "none" THEN @ ELSE err]
       /\ got' = got + n
  /\ UNCHANGED <<mode, c, cancelled, executor, cmd>>

\* The driver factory: it may read (a gzip header), succeed or fail.
DriverOpens ==
  /\ bodyPump.at = "driver" /\ bodyPump.phase = "open"
  /\ \/ /\ bodyPump.blocks = 0 /\ bodyPump.pendingErr = "none"
        /\ bodyPump' = [bodyPump EXCEPT !.at = "start"]
     \/ bodyPump' = [bodyPump EXCEPT !.phase = "analyze"]
     \/ bodyPump' = OpenFailed([bodyPump EXCEPT !.pendingErr = IF bodyPump.blocks = 0 THEN "none" ELSE @])
  /\ UNCHANGED <<mode, c, got, cancelled, executor, cmd>>

\* The driver's decoder: a block, the source's end or failure, one more read
\* of the source, or a decoding error.
DriverDecodes ==
  /\ bodyPump.at = "driver" /\ bodyPump.phase = "analyze"
  /\ LET feeding == [bodyPump EXCEPT !.at = "feeding", !.frames = MaxFrames]
     IN \/ /\ bodyPump.blocks > 0
           /\ bodyPump' = [feeding EXCEPT !.blocks = @ - 1, !.ret = "ok"]
        \/ /\ bodyPump.blocks = 0 /\ bodyPump.pendingErr = "none"
           /\ bodyPump' = [bodyPump EXCEPT !.at = "start"]
        \/ /\ bodyPump.blocks = 0 /\ bodyPump.pendingErr = "eof"
           /\ bodyPump' = [feeding EXCEPT !.pendingErr = "none", !.ret = "eof"]
        \/ /\ bodyPump.blocks = 0 /\ bodyPump.pendingErr = "fail"
           /\ bodyPump' = Returned([bodyPump EXCEPT !.pendingErr = "none"], "corrupt")
        \/ /\ got > 0
           /\ bodyPump' = Returned(bodyPump, "corrupt")
  /\ UNCHANGED <<mode, c, got, cancelled, executor, cmd>>

\* The driver feeds its stream, which emits observations or is done.
DriverFeeds ==
  /\ bodyPump.at = "feeding"
  /\ \/ /\ bodyPump.frames > 0
        /\ \E kind \in Kinds :
             bodyPump' = [bodyPump EXCEPT !.at = "observe", !.obs = kind, !.frames = @ - 1]
     \/ bodyPump' = Returned(bodyPump, bodyPump.ret)
  /\ UNCHANGED <<mode, c, got, cancelled, executor, cmd>>

BodyPumpStep == PumpBoots \/ DriverOpens \/ DriverDecodes \/ DriverFeeds

-----------------------------------------------------------------------------
(* The coordinator's loop: one select case per step.                       *)

Running == c.running /\ ~c.finalized

\* The handler's result s takes effect and the waiting pump p gets its answer.
Settle(s, p) ==
  /\ c' = [s EXCEPT !.ack = "none"]
  /\ bodyPump' = IF s.started /\ ~c.started THEN [p EXCEPT !.at = "boot"]
             ELSE IF s.ack = "none" THEN p ELSE Deliver(p, s.ack)

\* Start and the first part of run.  The prefix is empty, so a commit writes
\* only the head here and cannot fail.
RunStarts ==
  /\ ~c.running
  /\ LET s == [c EXCEPT !.running = TRUE]
         failed == [s EXCEPT !.analysisFailure = TRUE]
     IN CASE mode = "hold" -> Settle(s, bodyPump)
          [] mode = "unanalyzable" -> Settle(startPump(commitForwarding(failed, <<>>), FALSE), bodyPump)
          [] mode = "observe" -> Settle(startPump(commitForwarding(s, <<>>), TRUE), bodyPump)
          [] OTHER -> Settle(startPump(ArmTimer(s, "probe"), TRUE), bodyPump)
  /\ UNCHANGED <<mode, got, cancelled, executor, cmd>>

commandAllowed(s, kind) ==
  s.state = "probing" \/ (s.state = "forwarding" /\ kind \in {"abort", "continue"})

\* Commit: release the prefix, let a paused pump go on, start one for a hold.
CommitCommand(s) ==
  LET sent == resumePumpAfterResolution(commitForwarding(s, <<>>))
      begun == IF s.started THEN sent ELSE startPump(sent, FALSE)
  IN [begun EXCEPT !.reply = IF WriteFails(s, s.prefix) THEN "err" ELSE "ok"]

handleCommand(s, kind) ==
  CASE ~commandAllowed(s, kind) -> [s EXCEPT !.reply = "err"]
    [] commandAllowed(s, kind) /\ kind = "commit" -> CommitCommand(s)
    [] commandAllowed(s, kind) /\ kind \in {"discard", "abort"} ->
         discard([s EXCEPT !.discarding = TRUE])
    [] OTHER -> [resumePumpAfterResolution(s) EXCEPT !.reply = IF s.paused THEN "ok" ELSE "err"]

TakeCommand ==
  /\ Running /\ cmd # "none"
  /\ Settle(handleCommand(c, cmd), bodyPump)
  /\ cmd' = "none"
  /\ UNCHANGED <<mode, got, cancelled, executor>>

Cancelled(s) == [handleCancellation(s) EXCEPT !.cancelSeen = TRUE]

\* handlePumpEvent, after a cancellation that is already known.
TakeEvent ==
  /\ Running
  /\ LET s == IF cancelled /\ ~c.cancelSeen THEN Cancelled(c) ELSE c
     IN \/ bodyPump.at = "start" /\ Settle(handleReadStarted(s), bodyPump)
        \/ /\ bodyPump.at = "raw"
           /\ \E kept \in 0..Len(bodyPump.chunk) : Settle(handleRaw(s, bodyPump.chunk, kept), bodyPump)
        \/ /\ bodyPump.at = "observe"
           /\ LET t == handleDecisiveObservation(s, bodyPump.obs)
              IN Settle(t, IF t.paused THEN [bodyPump EXCEPT !.at = "paused"] ELSE bodyPump)
        \/ bodyPump.at = "checkpoint" /\ Settle(handleAnalysisCheckpoint(s), bodyPump)
        \/ bodyPump.at = "failing" /\ Settle(handleAnalysisFailure(s), bodyPump)
        \/ /\ bodyPump.at = "ended"
           /\ Settle(handlePumpTermination(s, bodyPump.readError), [bodyPump EXCEPT !.at = "joined"])
  /\ UNCHANGED <<mode, got, cancelled, executor, cmd>>

handleTimerSignal(s, signal) ==
  LET idle == IF s.state = "probing" \/ s.termination = "none"
              THEN [StopTimer(s, "idle") EXCEPT !.termination = "upstream_read_failure"]
              ELSE StopTimer(s, "idle")
  IN CASE ~signal.live -> s
       [] signal.live /\ signal.kind = "probe" -> commitForwarding(s, <<>>)
       [] signal.live /\ signal.kind = "idle" /\ s.state = "discarded" -> s
       [] OTHER -> closeBody(commitForwarding(idle, <<>>))

\* handlePendingTimerSignals: drain the mailbox, then handle in arrival order.
\* An idle signal that releases the response leaves a probe signal behind it
\* nothing to do, as the state is no longer probing.
TakeTimers ==
  /\ Running /\ c.mail # <<>>
  /\ LET drained == [c EXCEPT !.mail = <<>>]
     IN Settle(FoldLeft(handleTimerSignal, drained, c.mail), bodyPump)
  /\ UNCHANGED <<mode, got, cancelled, executor, cmd>>

TakeCancellation ==
  /\ Running /\ cancelled /\ ~c.cancelSeen
  /\ Settle(Cancelled(c), bodyPump)
  /\ UNCHANGED <<mode, got, cancelled, executor, cmd>>

\* A timer expires: its callback runs on its own and enqueues later.
TimerFires ==
  /\ \E kind \in c.armed :
       c' = [c EXCEPT !.armed = @ \ {kind}, !.inflight = @ \cup {[kind |-> kind, live |-> TRUE]}]
  /\ UNCHANGED <<mode, bodyPump, got, cancelled, executor, cmd>>

\* timerMailbox.enqueue: one slot per kind, only a newer generation replaces.
Enqueue ==
  /\ \E signal \in c.inflight :
       LET queued == SelectSeq(c.mail, LAMBDA x : x.kind = signal.kind)
           others == SelectSeq(c.mail, LAMBDA x : x.kind # signal.kind)
           newer == queued = <<>> \/ (signal.live /\ ~Head(queued).live)
       IN c' = [c EXCEPT !.inflight = @ \ {signal},
                         !.mail = IF newer /\ ~c.finalized THEN Append(others, signal) ELSE @]
  /\ UNCHANGED <<mode, bodyPump, got, cancelled, executor, cmd>>

\* The client leaves, or the server ends the context after the handler.
ClientLeaves ==
  /\ ~cancelled /\ cancelled' = TRUE
  /\ UNCHANGED <<mode, c, bodyPump, got, executor, cmd>>

-----------------------------------------------------------------------------
(* The executor: resolvePendingResponse, commit, discard, finishForwarding. *)

AwaitBoundary ==
  /\ executor = "boundary" /\ c.boundary # "none"
  /\ executor' = CASE c.boundary = "probing" -> "decide"
                   [] c.boundary = "forwarding" -> "milestone"
                   [] OTHER -> "wait"
  /\ UNCHANGED <<mode, c, bodyPump, got, cancelled, cmd>>

\* A command goes into the channel; a finished response refuses it.
Send(kind, refused) ==
  /\ executor' = IF c.finalized THEN refused ELSE kind
  /\ cmd' = IF c.finalized THEN cmd ELSE kind
  /\ UNCHANGED <<mode, c, bodyPump, got, cancelled>>

Decide ==
  /\ executor = "decide"
  /\ \E kind \in {"commit", "discard"} : Send(kind, "done")

\* AwaitSemanticOrCompletion, abortVisibleSemantic
AwaitMilestone ==
  /\ executor = "milestone" /\ c.semantic # "none"
  /\ \/ c.semantic = "matched" /\ Send("abort", "preserve")
     \/ c.semantic = "matched" /\ Send("continue", "wait")
     \/ /\ c.semantic = "completed" /\ executor' = "wait"
        /\ UNCHANGED <<mode, c, bodyPump, got, cancelled, cmd>>

\* An abort that lost the race is followed by Continue.
Preserve == executor = "preserve" /\ Send("continue", "wait")

AfterReply(kind, answer) ==
  CASE kind = "commit" -> IF answer = "ok" THEN "milestone" ELSE "done"
    [] kind = "discard" -> "done"
    [] kind = "abort" -> IF answer = "ok" THEN "wait" ELSE "preserve"
    [] kind = "continue" -> "wait"

\* The reply of an accepted command, or the completion that overtook it.
Receive ==
  /\ executor \in {"commit", "discard", "abort", "continue"}
  /\ c.reply # "none" \/ (c.finalized /\ cmd # "none")
  /\ executor' = AfterReply(executor, IF c.reply = "none" THEN "err" ELSE c.reply)
  /\ c' = [c EXCEPT !.reply = "none"]
  /\ cmd' = "none"
  /\ UNCHANGED <<mode, bodyPump, got, cancelled>>

AwaitCompletion ==
  /\ executor = "wait" /\ c.finalized
  /\ executor' = "done"
  /\ UNCHANGED <<mode, c, bodyPump, got, cancelled, cmd>>

ExecutorStep == AwaitBoundary \/ Decide \/ AwaitMilestone \/ Preserve \/ Receive \/ AwaitCompletion

ResponseNext ==
  \/ RunStarts \/ TakeCommand \/ TakeEvent \/ TakeTimers \/ TakeCancellation
  \/ PumpBoots \/ ReadReturns \/ DriverOpens \/ DriverDecodes \/ DriverFeeds
  \/ TimerFires \/ Enqueue \/ ClientLeaves
  \/ AwaitBoundary \/ Decide \/ AwaitMilestone \/ Preserve \/ Receive \/ AwaitCompletion

ResponseSpec == ResponseInit /\ [][ResponseNext]_responseVars

\* The runtime schedules the goroutines, timers expire, a read of a closed body
\* returns, and the server ends the context of a request whose handler is done.
\* Nothing makes the upstream answer or an idle client leave.
ResponseFairness ==
  /\ WF_responseVars(RunStarts)
  /\ WF_responseVars(TakeCommand) /\ WF_responseVars(TakeEvent)
  /\ WF_responseVars(TakeTimers) /\ WF_responseVars(TakeCancellation)
  /\ WF_responseVars(BodyPumpStep)
  /\ WF_responseVars(c.bodyClosed /\ ReadReturns)
  /\ WF_responseVars(TimerFires) /\ WF_responseVars(Enqueue)
  /\ WF_responseVars(ExecutorStep)
  /\ WF_responseVars(executor = "done" /\ ClientLeaves)

ResponseFairSpec == ResponseSpec /\ ResponseFairness

-----------------------------------------------------------------------------
(* Properties.                                                             *)

Directives == {"analyze", "forward", "stop"}
Signals == [kind : Timers, live : BOOLEAN]

\* The fields of the coordinator, the pump and the executor keep their types.
ResponseTypeOK ==
  /\ mode \in Modes /\ got \in 0..MaxBytes /\ cancelled \in BOOLEAN
  /\ c.state \in {"probing", "forwarding", "discarded"}
  /\ c.prefix \in Seq(1..MaxBytes) /\ c.written \in Seq(1..MaxBytes)
  /\ c.termination \in {"none", "completed", "discarded", "upstream_read_failure",
                        "client_write_failure", "client_cancelled"}
  /\ c.armed \subseteq Timers /\ c.inflight \subseteq Signals
  /\ Len(c.mail) <= 2 /\ ToSet(c.mail) \subseteq Signals
  /\ c.boundary \in {"none", "probing", "forwarding", "discarded"}
  /\ c.semantic \in {"none", "matched", "completed"}
  /\ c.reply \in {"none", "ok", "err"} /\ c.ack = "none"
  /\ bodyPump.at \in {"none", "boot", "driver", "start", "reading", "raw", "feeding", "observe",
                 "paused", "checkpoint", "failing", "ended", "joined"}
  /\ bodyPump.directive \in Directives /\ bodyPump.last \in Directives
  /\ cmd \in {"none", "commit", "discard", "abort", "continue"}
  /\ executor \in {"boundary", "decide", "commit", "discard", "milestone", "abort",
                  "preserve", "continue", "wait", "done"}

\* The client receives the upstream's bytes in order, once and without a gap,
\* whatever mixture of prefix flushes, direct writes, failed writes and fail-open
\* paths of the coordinator delivered them (flushPrefix, writeRaw).
Contiguous == c.written = Bytes(0, Len(c.written))

\* As long as the client still wants the response, every byte read is written,
\* retained in the prefix or on its way to the coordinator, and a response reported
\* as completed was delivered to its last byte (retainRaw, fill, finalize).
NoByteLost ==
  /\ ~Unwanted(c) /\ ~c.finalized =>
       c.written \o c.prefix \o (IF bodyPump.at = "raw" THEN bodyPump.chunk ELSE <<>>) = Bytes(0, got)
  /\ c.finalized /\ c.termination = "completed" => c.written = Bytes(0, got)

\* A semantic match found while probing leaves the client untouched until the
\* executor's decision is handled, whichever timer expires or is still in flight
\* meanwhile (handleDecisiveObservation, handleTimerSignal).
MatchWaitsForExecutor ==
  c.boundary = "probing" /\ (executor \in {"boundary", "decide"} \/ cmd \in {"commit", "discard"}) =>
    c.written = <<>> /\ ~c.headers

\* The completion is published only after the pump was joined and the body
\* closed, and leaves no waiter behind: boundary, milestone and the reply of a
\* discard are all there (finalize).
SettledLeavesNobody ==
  c.finalized =>
    /\ bodyPump.at \in {"none", "joined"}
    /\ c.bodyClosed
    /\ c.boundary # "none" /\ c.semantic # "none"
    /\ executor \in {"commit", "discard", "abort", "continue"} => c.reply # "none" \/ cmd # "none"

\* With an idle timeout every response whose coordinator runs settles and its
\* executor returns, even if the upstream stalls, the client stays and the executor
\* has to be asked.
Settles == c.running ~> (c.finalized /\ executor = "done")

\* The client is sent the upstream's bytes once, in order and only when the
\* executor may no longer replace them, and nobody is left waiting.
ResponseIntact == NoByteLost /\ Contiguous /\ MatchWaitsForExecutor /\ SettledLeavesNobody
=============================================================================

-------------------------- MODULE WebSocketSession --------------------------
(***************************************************************************)
(* One proxied WebSocket session: the provider-attempt loop of             *)
(* internal/websocketproxy, the selection probe that reads client frames   *)
(* before a provider is chosen, the replay of those frames to every        *)
(* replacement provider, the pre-visible window in which an upstream may   *)
(* still be replaced, and the two relay goroutines after it.               *)
(*                                                                         *)
(* A client frame is its ordinal.  The concurrency is the code's: the      *)
(* session-owned client reader and the upstream reader run beside whatever *)
(* the orchestrator does, and in the live phase client-to-upstream and     *)
(* upstream-to-client are two goroutines that share the replay buffer and  *)
(* the visibility flag.                                                    *)
(***************************************************************************)
EXTENDS Naturals, Sequences, SequencesExt

CONSTANTS
  Upstreams,    \* route targets the selector may return
  NoServer,         \* no provider
  FrameKinds,        \* kinds of client frame: "plain" (may be replayed) and "bound"
                \* (response.append / response.inject: this connection only)
  Policies,     \* whether the conversation may switch accounts
  MaxSent,    \* bound: frames the client sends
  MaxDown,      \* bound: application frames the upstreams send
  MaxAttempts,  \* global attempt budget of the session
  MaxRedials,   \* same-provider retries
  ReplayLimit,  \* frames the pre-visible replay buffer can hold
  ProbeLimit    \* frames the selection probe may consume

ASSUME WebSocketAssumption ==
  /\ NoServer \notin Upstreams
  /\ FrameKinds \subseteq {"plain", "bound"} /\ Policies \subseteq BOOLEAN
  /\ {MaxSent, MaxDown, MaxRedials, ReplayLimit, ProbeLimit} \subseteq Nat
  /\ MaxAttempts \in Nat \ {0}

VARIABLES
  phase,         \* where the orchestrator is
  kind,       \* kind of each client frame
  peer,     \* the downstream socket: conn, frames sent, peer gone
  requestCancelled,  \* the request context is cancelled
  handoff,    \* the session-owned client read: idle, reading, frame or error
  taken,      \* client frames the reader has taken off the socket
  buffer,     \* pre-visible replay buffer
  unsent,    \* probe frames that have not reached any upstream
  up,         \* the physical upstream: conn, got, read, replayed
  fed,        \* application frames the upstreams have sent
  plan,       \* frames the current replay still has to write
  work,       \* client frame being written upstream; frame 0 for none
  legs,       \* the two relay goroutines
  visible,    \* lifecycle.clientVisible
  closed,     \* the Codex operation no longer allows a replacement
  shown,      \* attempts whose frames the client received, in order
  suppressed, \* suppressedAttempt is set
  lease,      \* provider whose lease the session owns
  dials,     \* attempts started on each provider
  givenUp,   \* providers already given up
  outcome,     \* result of the last attempt
  notice      \* how the session told the client that it ended

dialled == <<up, plan, work, legs>>
frames == <<handoff, taken, buffer, unsent>>
routing == <<lease, dials, givenUp>>
boundary == <<visible, closed, shown>>
sessionVars == <<phase, kind, peer, requestCancelled, frames, dialled, fed, boundary,
          suppressed, routing, outcome, notice>>

Frames == 1..MaxSent
Causes == {"transport", "rejected", "config", "clean", "semantic", "client",
           "internal", "unavailable", "upgrade"}
NoWork == [frame |-> 0, index |-> 0]
NoUpstream == [conn |-> FALSE, got |-> <<>>, read |-> "none", replayed |-> FALSE]
IdleLegs == [c2u |-> "off", u2c |-> "off", swallowed |-> FALSE, errs |-> <<>>]
LiveLegs == [IdleLegs EXCEPT !.c2u = "run", !.u2c = "run"]
IdleHandoff == [st |-> "idle", frame |-> 0]
Reading == [st |-> "reading", frame |-> 0]

\* The outcome of an attempt, as WebSocketAttemptResult carries it.
Outcome(cause) == [cause |-> cause, accepted |-> TRUE, replayFailed |-> FALSE,
                   denied |-> FALSE, reconnect |-> FALSE]
Refused(cause) == [Outcome(cause) EXCEPT !.accepted = FALSE]
Denied == [Outcome("unavailable") EXCEPT !.denied = TRUE]
ReplayFailure(denied) ==
  [Outcome("transport") EXCEPT !.replayFailed = TRUE, !.denied = denied]
\* A frame bound to this connection that did not reach it asks for a reconnect.
WriteFailure(f) == [Outcome("transport") EXCEPT !.reconnect = kind[f] = "bound"]
RejectedFrame(reconnect) == [Outcome("client") EXCEPT !.reconnect = reconnect]
ReadEnd(r) == Outcome(IF r = "clean" THEN "clean" ELSE "transport")

SessionInit ==
  /\ phase = "bootstrap" /\ kind \in [Frames -> FrameKinds]
  /\ peer = [conn |-> "none", sent |-> 0, gone |-> FALSE] /\ requestCancelled = FALSE
  /\ handoff = IdleHandoff /\ taken = 0
  /\ buffer = [state |-> "replayable", msgs |-> <<>>] /\ unsent = <<>>
  /\ up = NoUpstream /\ fed = 0 /\ plan = <<>> /\ work = NoWork /\ legs = IdleLegs
  /\ visible = FALSE /\ closed = FALSE /\ shown = <<>> /\ suppressed = FALSE
  /\ lease = NoServer /\ dials = [p \in Upstreams |-> 0] /\ givenUp = {}
  /\ outcome = Refused("unavailable") /\ notice = "none"

-----------------------------------------------------------------------------
(* The pre-visible replay buffer.                                          *)

Closed(b, why) ==
  IF b.state = "replayable" THEN [state |-> why, msgs |-> <<>>] ELSE b

Recorded(b, f) ==
  IF visible THEN Closed(b, "visibility")
  ELSE IF b.state # "replayable" \/ kind[f] = "bound" THEN b
  ELSE IF Len(b.msgs) >= ReplayLimit THEN Closed(b, "budget")
  ELSE [b EXCEPT !.msgs = Append(@, [frame |-> f, delivered |-> FALSE])]

RecordedIndex(b, f) ==
  IF Len(Recorded(b, f).msgs) > Len(b.msgs) THEN Len(b.msgs) + 1 ELSE 0

MarkDelivered(b, i) ==
  IF i \in 1..Len(b.msgs) THEN [b EXCEPT !.msgs[i].delivered = TRUE] ELSE b

\* A parse-degraded observation closes replay before the frame is recorded.
Degraded(b, d) == IF d THEN Closed(b, "degraded") ELSE b

\* What a new upstream is owed: delivered frames again, then first deliveries.
ReplayPlan(b) ==
  LET item(i) == [frame |-> b.msgs[i].frame, index |-> i, owed |-> FALSE]
      again == SelectSeq([i \in 1..Len(b.msgs) |-> item(i)],
                 LAMBDA m : b.msgs[m.index].delivered \/ unsent = <<>>)
      first == [i \in 1..Len(unsent) |-> [unsent[i] EXCEPT !.owed = TRUE]]
  IN  again \o first

-----------------------------------------------------------------------------
(* The client, the upstream and the request context.                       *)

ClientSends ==
  /\ peer.conn = "open" /\ ~peer.gone /\ peer.sent < MaxSent
  /\ peer' = [peer EXCEPT !.sent = @ + 1]
  /\ UNCHANGED <<phase, kind, requestCancelled, frames, dialled, fed, boundary,
                 suppressed, routing, outcome, notice>>

ClientHangsUp ==
  /\ peer.conn = "open" /\ ~peer.gone
  /\ peer' = [peer EXCEPT !.gone = TRUE]
  /\ UNCHANGED <<phase, kind, requestCancelled, frames, dialled, fed, boundary,
                 suppressed, routing, outcome, notice>>

CancelRequest ==
  /\ phase # "done" /\ ~requestCancelled /\ requestCancelled' = TRUE
  /\ UNCHANGED <<phase, kind, peer, frames, dialled, fed, boundary,
                 suppressed, routing, outcome, notice>>

\* The one outstanding read of the downstream socket; it belongs to the
\* session, so it survives the attempt that asked for it.
ClientReadCompletes ==
  /\ handoff.st = "reading"
  /\ \/ /\ taken < peer.sent
        /\ handoff' = [st |-> "frame", frame |-> taken + 1]
        /\ taken' = taken + 1
     \/ /\ requestCancelled \/ (peer.gone /\ taken = peer.sent) \/ peer.conn = "closed"
        /\ handoff' = [st |-> "error", frame |-> 0]
        /\ UNCHANGED taken
  /\ UNCHANGED <<phase, kind, peer, requestCancelled, buffer, unsent, dialled, fed,
                 boundary, suppressed, routing, outcome, notice>>

UpstreamReadCompletes ==
  /\ up.conn /\ up.read = "reading"
  /\ \/ /\ fed < MaxDown /\ fed' = fed + 1
        /\ \E r \in {"data", "error"} : up' = [up EXCEPT !.read = r]
     \/ /\ \E r \in {"fault", "clean"} : up' = [up EXCEPT !.read = r]
        /\ UNCHANGED fed
  /\ UNCHANGED <<phase, kind, peer, requestCancelled, frames, plan, work, legs,
                 boundary, suppressed, routing, outcome, notice>>

-----------------------------------------------------------------------------
(* The selection probe.                                                    *)

Bootstrap ==
  /\ phase = "bootstrap"
  /\ \/ /\ phase' = "select" /\ UNCHANGED <<peer, handoff, notice>>
     \/ /\ phase' = "probe" /\ peer' = [peer EXCEPT !.conn = "open"]
        /\ handoff' = Reading /\ UNCHANGED notice
     \/ /\ phase' = "done" /\ notice' = "http" /\ UNCHANGED <<peer, handoff>>
  /\ UNCHANGED <<kind, requestCancelled, taken, buffer, unsent, dialled, fed,
                 boundary, suppressed, routing, outcome>>

\* A frame past the budget stays in the handoff for the first live relay.
ProbeFrame ==
  /\ phase = "probe" /\ handoff.st = "frame" /\ Len(unsent) < ProbeLimit
  /\ kind[handoff.frame] = "plain"
  /\ LET f == handoff.frame IN
     \E ready, d \in BOOLEAN :
       /\ unsent' = Append(unsent, [frame |-> f, owed |-> TRUE,
                                      index |-> RecordedIndex(buffer, f)])
       /\ buffer' = Degraded(Recorded(buffer, f), d)
       /\ phase' = IF ready \/ Len(unsent) + 1 >= ProbeLimit THEN "select" ELSE "probe"
       /\ handoff' = IF phase' = "probe" THEN Reading ELSE IdleHandoff
  /\ UNCHANGED <<kind, peer, requestCancelled, taken, dialled, fed, boundary,
                 suppressed, routing, outcome, notice>>

ProbeStops ==
  /\ phase = "probe" /\ handoff.st # "error" /\ phase' = "select"
  /\ UNCHANGED <<kind, peer, requestCancelled, frames, dialled, fed, boundary,
                 suppressed, routing, outcome, notice>>

\* A connection-bound frame has no connection yet; a read error ends the probe.
ProbeFails ==
  /\ phase = "probe"
  /\ \/ handoff.st = "frame" /\ kind[handoff.frame] = "bound"
     \/ handoff.st = "error"
     \/ requestCancelled
  /\ phase' = "done" /\ peer' = [peer EXCEPT !.conn = "closed"]
  /\ notice' = IF handoff.st = "frame" THEN "close" ELSE notice
  /\ UNCHANGED <<kind, requestCancelled, frames, dialled, fed, boundary, suppressed,
                 routing, outcome>>

-----------------------------------------------------------------------------
(* Selecting a provider and dialling it.                                   *)

AttemptsStarted == FoldFunction(LAMBDA n, m : n + m, 0, dials)

CanStart == AttemptsStarted < MaxAttempts
RetryAllowed(p) == dials[p] > 0 /\ dials[p] - 1 < MaxRedials /\ CanStart

SelectProvider ==
  /\ phase = "select" /\ CanStart
  /\ \E p \in Upstreams \ givenUp :
       lease' = p /\ dials' = [dials EXCEPT ![p] = @ + 1]
  /\ phase' = "dial" /\ up' = NoUpstream
  /\ UNCHANGED <<kind, peer, requestCancelled, frames, plan, work, legs, fed, boundary,
                 suppressed, givenUp, outcome, notice>>

\* No provider, a selection error, or an exhausted budget ends the session.
SelectionFails ==
  /\ phase = "select" /\ phase' = "finish"
  /\ UNCHANGED <<kind, peer, requestCancelled, frames, dialled, fed, boundary,
                 suppressed, routing, outcome, notice>>

\* Every way an attempt ends before its upstream and client are both open: the
\* provider is not ready; the dial fails or is refused, and an unauthorized one
\* fails again with refreshed credentials; the upstream picks a subprotocol the
\* client cannot have; the Codex state boundary refuses the connection.
PreparationFailures == {Refused("config")}
DialRejections == {Refused("transport"), Refused("rejected")}
RefreshedDialFailures == DialRejections \cup PreparationFailures
SubprotocolFailures == {Refused("rejected"), Outcome("rejected")}
BoundaryFailures == {Refused("internal"), Outcome("internal")}
UpgradeFailures == IF peer.conn = "none" THEN {Outcome("upgrade")} ELSE {}

DialFails ==
  /\ phase = "dial" /\ phase' = "settle"
  /\ outcome' \in UNION {PreparationFailures, DialRejections, RefreshedDialFailures,
                        SubprotocolFailures, BoundaryFailures, UpgradeFailures}
  /\ UNCHANGED <<kind, peer, requestCancelled, frames, dialled, fed, boundary,
                 suppressed, routing, notice>>

\* The client was upgraded, but the disclosed handshake state was not committed.
HandshakeCommitFails ==
  /\ phase = "dial" /\ peer.conn = "none" /\ phase' = "settle"
  /\ peer' = [peer EXCEPT !.conn = "closed"] /\ notice' = "close"
  /\ outcome' = Outcome("internal")
  /\ UNCHANGED <<kind, requestCancelled, frames, dialled, fed, boundary, suppressed, routing>>

\* The first accepted handshake may already disclose opaque state to the client.
DialAccepted ==
  /\ phase = "dial"
  /\ \E pins \in (IF peer.conn = "none" THEN BOOLEAN ELSE {FALSE}) :
       /\ visible' = (visible \/ pins) /\ closed' = (closed \/ pins)
       /\ buffer' = IF pins THEN Closed(buffer, "visibility") ELSE buffer
       /\ plan' = ReplayPlan(buffer')
  /\ peer' = [peer EXCEPT !.conn = IF @ = "none" THEN "open" ELSE @]
  /\ up' = [conn |-> TRUE, got |-> <<>>, read |-> "reading", replayed |-> FALSE]
  /\ phase' = "replay"
  /\ UNCHANGED <<kind, requestCancelled, handoff, taken, unsent, work, legs, fed, shown,
                 suppressed, routing, outcome, notice>>

-----------------------------------------------------------------------------
(* Replaying the client's frames to the new upstream.                      *)

\* Publishing a result: the suppressed payload is kept or cleared with it.
Settled(res) ==
  /\ outcome' = res /\ phase' = "settle"
  /\ suppressed' = (res.cause = "semantic" \/ (suppressed /\ ~visible))
  /\ up' = NoUpstream
  /\ plan' = <<>> /\ work' = NoWork /\ legs' = IdleLegs

ReplayUnavailable ==
  plan = <<>> /\ ~up.replayed /\ buffer.state # "replayable" /\ ~visible

ReplayFrame ==
  /\ phase = "replay" /\ plan # <<>>
  /\ LET m == Head(plan) IN
     /\ up' = [up EXCEPT !.got = Append(@, m.frame), !.replayed = TRUE]
     /\ buffer' = MarkDelivered(buffer, m.index)
     /\ unsent' = IF m.owed THEN Tail(unsent) ELSE unsent
     /\ plan' = Tail(plan)
  /\ UNCHANGED <<phase, kind, peer, requestCancelled, handoff, taken, work, legs, fed,
                 boundary, suppressed, routing, outcome, notice>>

\* The write or its commit failed, or the conversation denies this provider.
ReplayFails ==
  /\ phase = "replay" /\ (plan # <<>> \/ ReplayUnavailable)
  /\ \E denied \in BOOLEAN : Settled(ReplayFailure(denied))
  /\ UNCHANGED <<kind, peer, requestCancelled, frames, fed, boundary, routing, notice>>

\* The upstream's own end is the failure, not the upload it interrupted.
ReplayInterrupted ==
  /\ phase = "replay" /\ up.read \in {"fault", "clean"}
  /\ Settled(ReadEnd(up.read))
  /\ UNCHANGED <<kind, peer, requestCancelled, frames, fed, boundary, routing, notice>>

ReplayDone ==
  /\ phase = "replay" /\ plan = <<>> /\ ~ReplayUnavailable
  /\ up.read \notin {"fault", "clean"}
  /\ IF (up.replayed /\ suppressed) \/ visible
     THEN phase' = "live" /\ legs' = LiveLegs
     ELSE phase' = "window" /\ UNCHANGED legs
  /\ handoff' = IF handoff.st = "idle" THEN Reading ELSE handoff
  /\ UNCHANGED <<kind, peer, requestCancelled, taken, buffer, unsent, up, plan, work,
                 fed, boundary, suppressed, routing, outcome, notice>>

-----------------------------------------------------------------------------
(* The pre-visible window: one owner decides about both directions.        *)

\* An admitted frame is recorded for replay before it is written.
StartWrite(f, d) ==
  LET b == Degraded(buffer, d) IN
  /\ buffer' = Recorded(b, f) /\ work' = [frame |-> f, index |-> RecordedIndex(b, f)]
  /\ handoff' = IdleHandoff

WindowTakesFrame ==
  /\ phase = "window" /\ work = NoWork /\ handoff.st = "frame"
  /\ \E d \in BOOLEAN : StartWrite(handoff.frame, d)
  /\ UNCHANGED <<phase, kind, peer, requestCancelled, taken, unsent, up, plan, legs, fed,
                 boundary, suppressed, routing, outcome, notice>>

\* A denied frame is kept for the provider that will be selected with it.
WindowDeniesFrame ==
  /\ phase = "window" /\ work = NoWork /\ handoff.st = "frame"
  /\ kind[handoff.frame] = "plain" /\ ~closed
  /\ buffer' = Recorded(buffer, handoff.frame) /\ handoff' = IdleHandoff
  /\ Settled(Denied)
  /\ UNCHANGED <<kind, peer, requestCancelled, taken, unsent, fed, boundary, routing,
                 notice>>

WindowRejectsFrame ==
  /\ phase = "window" /\ work = NoWork /\ handoff.st = "frame"
  /\ handoff' = IdleHandoff /\ \E r \in BOOLEAN : Settled(RejectedFrame(r))
  /\ UNCHANGED <<kind, peer, requestCancelled, taken, buffer, unsent, fed, boundary,
                 routing, notice>>

\* The physical write, the replay closure of a bound frame, the confirmation.
Written(f, i) ==
  /\ up' = [up EXCEPT !.got = Append(@, f)]
  /\ buffer' = MarkDelivered(IF kind[f] = "bound" THEN Closed(buffer, "bound")
                             ELSE buffer, i)
  /\ closed' = (closed \/ kind[f] = "bound")
  /\ work' = NoWork /\ handoff' = Reading

WindowWrites ==
  /\ phase = "window" /\ work # NoWork
  /\ Written(work.frame, work.index)
  /\ UNCHANGED <<phase, kind, peer, requestCancelled, taken, unsent, plan, legs, fed,
                 visible, shown, suppressed, routing, outcome, notice>>

WindowWriteFails ==
  /\ phase = "window" /\ work # NoWork
  /\ \/ Settled(WriteFailure(work.frame))
     \/ Settled(Outcome("internal"))
  /\ UNCHANGED <<kind, peer, requestCancelled, frames, fed, boundary, routing, notice>>

\* Mutant: the pending client read dies with the attempt that asked for it.
MutWindowUpstreamEnds ==
  /\ phase = "window" /\ up.read \in {"fault", "clean"}
  /\ Settled(ReadEnd(up.read)) /\ handoff' = IdleHandoff
  /\ UNCHANGED <<kind, peer, requestCancelled, taken, buffer, unsent, fed, boundary,
                 routing, notice>>

\* An upstream end cancels the upload; the upload's own result is dropped.
WindowUpstreamEnds ==
  /\ phase = "window" /\ up.read \in {"fault", "clean"}
  /\ Settled(ReadEnd(up.read))
  /\ UNCHANGED <<kind, peer, requestCancelled, frames, fed, boundary, routing, notice>>

\* Mutant: the window does not watch the request context.
MutWindowClientEnds ==
  /\ phase = "window" /\ handoff.st = "error" /\ work = NoWork
  /\ Settled(Outcome("client"))
  /\ UNCHANGED <<kind, peer, requestCancelled, frames, fed, boundary, routing, notice>>

WindowClientEnds ==
  /\ phase = "window" /\ (handoff.st = "error" \/ requestCancelled) /\ work = NoWork
  /\ Settled(Outcome("client"))
  /\ UNCHANGED <<kind, peer, requestCancelled, frames, fed, boundary, routing, notice>>

\* An allowlisted provider error is withheld while a replacement is possible.
Suppresses(b, degraded) ==
  up.read = "error" /\ ~degraded /\ (visible \/ b.state = "replayable")

MakeVisible ==
  visible' = TRUE /\ closed' = TRUE /\ buffer' = Closed(buffer, "visibility")
Shows == shown' = Append(shown, AttemptsStarted)

WindowUpstreamFrame ==
  /\ phase = "window" /\ work = NoWork /\ up.read \in {"data", "error"}
  /\ \E d \in BOOLEAN :
       \/ /\ Suppresses(buffer, d) /\ Settled(Outcome("semantic"))
          /\ UNCHANGED <<frames, boundary>>
       \/ /\ ~Suppresses(buffer, d) /\ MakeVisible /\ Shows
          /\ phase' = "live"
          /\ up' = [up EXCEPT !.read = "reading"]
          /\ legs' = LiveLegs
          /\ UNCHANGED <<handoff, taken, unsent, plan, work, suppressed, outcome>>
  /\ UNCHANGED <<kind, peer, requestCancelled, fed, routing, notice>>

\* Not shown: refused by the state boundary, or the client write failed.
WindowUpstreamRefused ==
  /\ phase = "window" /\ work = NoWork /\ up.read \in {"data", "error"}
  /\ ~Suppresses(buffer, FALSE)
  /\ Settled(Outcome("transport")) \/ (peer.gone /\ Settled(Outcome("client")))
  /\ UNCHANGED <<kind, peer, requestCancelled, frames, fed, boundary, routing, notice>>

\* Shown, but the state that must follow the frame could not be committed.
WindowCommitFails ==
  /\ phase = "window" /\ work = NoWork /\ up.read \in {"data", "error"}
  /\ ~Suppresses(buffer, FALSE)
  /\ Shows
  /\ UNCHANGED <<visible, closed>> /\ Settled(Outcome("internal"))
  /\ UNCHANGED <<kind, peer, requestCancelled, frames, fed, routing, notice>>

-----------------------------------------------------------------------------
(* The live relay: two goroutines, each ending with its first error.       *)

LegFails(leg, res) ==
  legs' = [legs EXCEPT ![leg] = "err", !.errs = Append(@, res)]

LiveTakesFrame ==
  /\ phase = "live" /\ legs.c2u = "run" /\ work = NoWork /\ handoff.st = "frame"
  /\ \/ /\ \E d \in BOOLEAN : StartWrite(handoff.frame, d)
        /\ UNCHANGED legs
     \/ /\ kind[handoff.frame] = "plain" /\ ~closed /\ LegFails("c2u", Denied)
        /\ buffer' = Recorded(buffer, handoff.frame)
        /\ handoff' = IdleHandoff /\ UNCHANGED work
     \/ /\ \E r \in BOOLEAN : LegFails("c2u", RejectedFrame(r))
        /\ handoff' = IdleHandoff /\ UNCHANGED <<buffer, work>>
  /\ UNCHANGED <<phase, kind, peer, requestCancelled, taken, unsent, up, plan, fed,
                 boundary, suppressed, routing, outcome, notice>>

\* Written and confirmed, or written while its state commit failed.
LiveWrites ==
  /\ phase = "live" /\ legs.c2u = "run" /\ work # NoWork
  /\ Written(work.frame, work.index)
  /\ UNCHANGED legs \/ LegFails("c2u", Outcome("internal"))
  /\ UNCHANGED <<phase, kind, peer, requestCancelled, taken, unsent, plan, fed,
                 visible, shown, suppressed, routing, outcome, notice>>

\* The write failed, or the other goroutine or the caller cancelled the attempt.
ClientLegEnds ==
  /\ phase = "live" /\ legs.c2u = "run" /\ work' = NoWork
  /\ \/ work # NoWork /\ LegFails("c2u", WriteFailure(work.frame))
     \/ /\ work = NoWork /\ (handoff.st = "error" \/ requestCancelled \/ legs.u2c = "err")
        /\ LegFails("c2u", Outcome("client"))
  /\ UNCHANGED <<phase, kind, peer, requestCancelled, frames, up, plan, fed, boundary,
                 suppressed, routing, outcome, notice>>

\* Whether the upstream's frame is forwarded, withheld or refused.
LiveDecides ==
  /\ phase = "live" /\ legs.u2c = "run" /\ up.read \in {"data", "error"}
  /\ \E d \in BOOLEAN :
       LET b == Degraded(buffer, d) IN
       /\ buffer' = b
       /\ IF Suppresses(b, d)
          THEN legs' = [legs EXCEPT !.u2c = "err", !.swallowed = TRUE,
                                    !.errs = Append(@, Outcome("transport"))]
          ELSE \/ legs' = [legs EXCEPT !.u2c = "send"]
               \/ LegFails("u2c", Outcome("transport"))
  /\ UNCHANGED <<phase, kind, peer, requestCancelled, handoff, taken, unsent, up, plan,
                 work, fed, boundary, suppressed, routing, outcome, notice>>

LiveShows ==
  /\ phase = "live" /\ legs.u2c = "send"
  /\ \/ Shows /\ legs' = [legs EXCEPT !.u2c = "confirm"]
     \/ /\ peer.gone \/ requestCancelled \/ legs.c2u = "err"
        /\ LegFails("u2c", Outcome("client")) /\ UNCHANGED shown
  /\ UNCHANGED <<phase, kind, peer, requestCancelled, frames, up, plan, work, fed, visible,
                 closed, suppressed, routing, outcome, notice>>

\* The bytes are out: commit the operation, then mark the session visible.
LiveConfirms ==
  /\ phase = "live" /\ legs.u2c = "confirm"
  /\ \/ /\ MakeVisible /\ legs' = [legs EXCEPT !.u2c = "run"]
        /\ up' = [up EXCEPT !.read = "reading"]
     \/ LegFails("u2c", Outcome("internal")) /\ UNCHANGED <<visible, closed, buffer, up>>
  /\ UNCHANGED <<phase, kind, peer, requestCancelled, handoff, taken, unsent, plan, work,
                 fed, shown, suppressed, routing, outcome, notice>>

UpstreamLegEnds ==
  /\ phase = "live" /\ legs.u2c = "run"
  /\ \/ up.read \in {"fault", "clean"} /\ LegFails("u2c", ReadEnd(up.read))
     \/ (requestCancelled \/ legs.c2u = "err") /\ LegFails("u2c", Outcome("transport"))
  /\ UNCHANGED <<phase, kind, peer, requestCancelled, frames, up, plan, work, fed, boundary,
                 suppressed, routing, outcome, notice>>

\* The error that came first names the outcome; a withheld provider error
\* overrides both.
RelayEnds ==
  /\ phase = "live" /\ legs.c2u = "err" /\ legs.u2c = "err"
  /\ \E recovery \in Policies :
     LET res == IF legs.swallowed THEN Outcome("semantic") ELSE Head(legs.errs)
         reconnects == legs.swallowed /\ visible /\ recovery
         preserved == IF legs.swallowed THEN ~reconnects
                      ELSE ~visible /\ res.cause \in {"transport", "clean", "unavailable"}
     IN /\ Settled(res)
        /\ peer' = IF preserved THEN peer ELSE [peer EXCEPT !.conn = "closed"]
        /\ notice' = CASE preserved  -> notice
                       [] reconnects -> "reconnect"
                       [] OTHER      -> IF requestCancelled THEN notice ELSE "close"
  /\ UNCHANGED <<kind, requestCancelled, frames, fed, boundary, routing>>

-----------------------------------------------------------------------------
(* After an attempt: the same provider, another one, or the end.           *)

CanReplace ==
  /\ ~closed /\ ~outcome.reconnect /\ (outcome.replayFailed => outcome.denied)
  /\ buffer.state = "replayable" \/ ~outcome.accepted
  /\ ~visible
  /\ \/ outcome.cause \in {"rejected", "transport", "config"}
     \/ outcome.denied
     \/ outcome.cause = "semantic" /\ suppressed

Retryable == outcome.cause = "transport" /\ ~outcome.replayFailed /\ ~visible

\* The same lease, after a backoff, if the provider's own budget allows it.
RetryLater ==
  /\ phase = "settle" /\ CanReplace /\ Retryable /\ RetryAllowed(lease) /\ phase' = "backoff"
  /\ UNCHANGED <<kind, peer, requestCancelled, frames, dialled, fed, boundary,
                 suppressed, routing, outcome, notice>>

RetryActivated ==
  /\ phase = "backoff" /\ ~requestCancelled /\ phase' = "dial"
  /\ dials' = [dials EXCEPT ![lease] = @ + 1]
  /\ UNCHANGED <<kind, peer, requestCancelled, frames, dialled, fed, boundary,
                 suppressed, lease, givenUp, outcome, notice>>

RetryCancelled ==
  /\ phase = "backoff" /\ requestCancelled /\ phase' = "finish" /\ outcome' = Outcome("client")
  /\ UNCHANGED <<kind, peer, requestCancelled, frames, dialled, fed, boundary,
                 suppressed, routing, notice>>

\* Another provider: an ineligible retry, an unavailable one or a refused permit.
Replace ==
  /\ (phase = "settle" /\ CanReplace) \/ phase = "backoff"
  /\ CanStart /\ phase' = "select"
  /\ givenUp' = givenUp \cup {lease} /\ lease' = NoServer
  /\ UNCHANGED <<kind, peer, requestCancelled, frames, dialled, fed, boundary,
                 suppressed, dials, outcome, notice>>

Conclude ==
  /\ phase = "settle" /\ (CanReplace => ~CanStart) /\ phase' = "finish"
  /\ UNCHANGED <<kind, peer, requestCancelled, frames, dialled, fed, boundary,
                 suppressed, routing, outcome, notice>>

\* An unseen session owes the client an error; a visible one only the reconnect
\* notice of a provider error that was withheld.
OwesTerminalError == ~visible \/ outcome.cause = "semantic"

\* The terminal error: an HTTP answer, an error frame, or nothing more to say.
Finish ==
  /\ phase = "finish" /\ phase' = "done"
  /\ notice' = CASE peer.conn = "none" -> "http"
                 [] peer.conn = "open" /\ OwesTerminalError -> "gateway"
                 [] OTHER -> notice
  /\ peer' = IF peer.conn = "open" THEN [peer EXCEPT !.conn = "closed"] ELSE peer
  /\ lease' = NoServer
  /\ UNCHANGED <<kind, requestCancelled, frames, dialled, fed, boundary, suppressed,
                 dials, givenUp, outcome>>

-----------------------------------------------------------------------------
Probing == Bootstrap \/ ProbeFrame \/ ProbeStops \/ ProbeFails
Dialling == \/ SelectProvider \/ SelectionFails \/ DialFails \/ HandshakeCommitFails
            \/ DialAccepted
Replaying == ReplayFrame \/ ReplayFails \/ ReplayInterrupted \/ ReplayDone
Window == \/ WindowTakesFrame \/ WindowDeniesFrame \/ WindowRejectsFrame
          \/ WindowWrites \/ WindowWriteFails \/ WindowUpstreamEnds
          \/ WindowClientEnds \/ WindowUpstreamFrame \/ WindowUpstreamRefused
          \/ WindowCommitFails
Live == \/ LiveTakesFrame \/ LiveWrites \/ ClientLegEnds \/ LiveDecides \/ LiveShows
        \/ LiveConfirms \/ UpstreamLegEnds \/ RelayEnds
Settling == \/ RetryLater \/ RetryActivated \/ RetryCancelled \/ Replace \/ Conclude
            \/ Finish
Gateway == Probing \/ Dialling \/ Replaying \/ Window \/ Live \/ Settling
Peers == \/ ClientSends \/ ClientHangsUp \/ CancelRequest
               \/ ClientReadCompletes \/ UpstreamReadCompletes

SessionNext == Gateway \/ Peers
SessionSpec == SessionInit /\ [][SessionNext]_sessionVars
SessionFairSpec == SessionSpec /\ WF_sessionVars(Gateway)

-----------------------------------------------------------------------------
(* Properties.                                                             *)

\* Whichever upstream is connected has received the client's frames from the
\* first on, in order, none twice and no replayable one left out: the handoff,
\* the probe's queue and the replay buffer lose and repeat nothing across
\* failed attempts (websocket_relay_client_to_upstream.go).
FramesInOrder ==
  \A i \in 1..Len(up.got) :
    /\ \A j \in 1..(i - 1) : up.got[j] < up.got[i]
    /\ \A f \in 1..(up.got[i] - 1) :
         kind[f] = "plain" => \E j \in 1..(i - 1) : up.got[j] = f

\* The client never sees frames of two upstreams: once a byte was written, even
\* one whose commit then failed, no later attempt's frame reaches it
\* (websocket_relay.go, onUpstreamVisible; websocket_account_recovery.go).
OneStream == \A i \in 1..Len(shown) : shown[i] = shown[1]

\* A client that is still there and has seen nothing is told how the session
\* ended, whatever was withheld from it (websocket_session_result.go).
UnseenClientTold ==
  (phase = "done" /\ ~peer.gone /\ ~requestCancelled /\ ~visible) => notice # "none"

\* A frame bound to one connection that the upstream did not get is never
\* silently left out: no later frame reaches any upstream
\* (clientFrameWriteError, websocket_relay_state.go).
NoFrameOmitted ==
  \A i \in 1..Len(up.got) : \A f \in 1..(up.got[i] - 1) :
    \E j \in 1..(i - 1) : up.got[j] = f

\* Once the request context is cancelled the session ends, from every phase
\* (websocket_session_orchestrator.go, Run).
SessionEnds == requestCancelled ~> phase = "done"

\* Frames pass a session in order, of one upstream to the client, which is told
\* how it ended.
StreamIntact == FramesInOrder /\ OneStream /\ UnseenClientTold
=============================================================================

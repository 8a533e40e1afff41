---------------------------- MODULE CodexSocket ----------------------------
(***************************************************************************)
(* One Codex WebSocket operation (internal/codex/websocket) as the session *)
(* orchestrator drives it: dials of provider accounts, their handshakes,   *)
(* the two relay directions of an accepted connection, and the replacement *)
(* of an attempt nobody has seen output of.                                *)
(*                                                                         *)
(* The operation pins the account a conversation value belongs to, claims  *)
(* values that nobody owns, keeps the cookies of a handshake aside until   *)
(* the attempt becomes visible, and records the serving route for the      *)
(* conversation (internal/codex/continuation).  The two directions run     *)
(* concurrently: between the preparation of a frame, its write and the     *)
(* commit of its permit the other direction may pin, commit or stop.       *)
(*                                                                         *)
(* The ownership service is abstracted to one table (CodexContinuity has   *)
(* its two stores); another session of the same or of another client may   *)
(* take a free value at any time, and the store may be out of reach.       *)
(***************************************************************************)
EXTENDS Naturals, Sequences, FiniteSets

CONSTANTS
    DialTargets,     \* provider route targets
    AccountOf,       \* target |-> its account: protocol scope and authority
    OutboundRule,    \* target |-> continuation boundary for leaving it
    InboundRule,     \* target |-> continuation boundary for entering it
    ClientIds,       \* values a client introduces (thread, window, metadata)
    UpstreamRefs,    \* values an upstream issues (turn state, response)
    MaxClientFrames, MaxServerFrames,   \* bounds on the traffic
    MaxDials,        \* the attempt budget of a session
    MaxOutages,      \* bound on the changes of the store's availability
    MaxRivals,       \* bound on the claims of other sessions
    Nothing

Carriable == ClientIds \cup UpstreamRefs
Accounts == {AccountOf[t] : t \in DialTargets}
BindingRows == [account: Accounts, target: DialTargets, life: {"pending", "committed"},
                mine: BOOLEAN, ours: BOOLEAN]

ASSUME SocketAssumption ==
    /\ ClientIds \cap UpstreamRefs = {} /\ MaxDials \in Nat \ {0}
    /\ Nothing \notin Carriable \cup DialTargets \cup Accounts \cup {"internal"}
    /\ Nothing \notin BindingRows
    /\ \A f \in {OutboundRule, InboundRule} :
          f \in [DialTargets -> {"none", "same_identity", "any"}]

VARIABLES
    recovery,   \* conversation recovery policy: "keep" or "switch"
    header,     \* the value the client's handshake carries
    sock,       \* the operation's pins, candidate and connection
    crumbs,     \* the speculative cookie overlay and what was published
    bindings,   \* value |-> its owner
    convo,      \* the continuation session and the stored routes
    main,       \* the orchestrator
    up, down,   \* the two relay directions
    kept,       \* classified client frames that a replacement replays
    outage,     \* the store cannot be reached
    spent,      \* events used up, by kind
    reached,    \* history: value |-> accounts that may have seen it
    unclaimed,  \* history: values sent without a claim during an outage
    shown       \* history: targets whose output reached the client

socketVars == <<recovery, header, sock, crumbs, bindings, convo, main, up, down,
                kept, outage, spent, reached, unclaimed, shown>>

Account(s) == AccountOf[s.candidate]

-----------------------------------------------------------------------------
(* Ownership decisions. *)

OwnerStatus(v) ==
    IF outage THEN "store"
    ELSE IF bindings[v] = Nothing THEN "unknown"
    ELSE IF bindings[v].mine THEN "current" ELSE "conflict"

(* The operation pinned to an account, or Nothing when it already serves *)
(* another one.                                                          *)
PinAccount(s, a) ==
    IF s = Nothing \/ s.scope \notin {Nothing, a} THEN Nothing
    ELSE [s EXCEPT !.scope = a]

(* State that no store can place is anchored to the connection it is on. *)
NeedsAnchor(v) ==
    \/ OwnerStatus(v) = "unknown" /\ v \in UpstreamRefs
    \/ OwnerStatus(v) = "store" /\ v \in ClientIds

Constrained(s, v) ==
    IF recovery = "switch" \/ v = Nothing THEN s
    ELSE IF OwnerStatus(v) = "current" THEN PinAccount(s, bindings[v].account)
    ELSE IF NeedsAnchor(v) /\ s.scope = Nothing /\ s.open THEN PinAccount(s, Account(s))
    ELSE s

BoundStatus(s, v) ==
    IF OwnerStatus(v) = "current" /\ s.candidate # Nothing
          /\ bindings[v].account # Account(s)
    THEN "conflict" ELSE OwnerStatus(v)

(* What happens to a value in a client frame or in the handshake headers. *)
ClientVerdict(s, v, inHeader) ==
    LET st == BoundStatus(s, v)  anchored == s.scope # Nothing
    IN  IF v = Nothing THEN "none"
        ELSE IF recovery = "switch" THEN "opaque"
        ELSE IF st = "current" THEN "forward"
        ELSE IF st = "unknown" /\ v \in ClientIds THEN "claim"
        ELSE IF st = "unknown" /\ anchored THEN "adopt"
        ELSE IF st = "store" /\ anchored /\ v \in ClientIds THEN "degraded"
        ELSE IF st = "conflict" /\ inHeader /\ v \in ClientIds THEN "drop"
        ELSE "reject"

(* The same for a value an upstream sends. *)
ServerVerdict(s, v) ==
    LET st == BoundStatus(s, v)
    IN  IF v = Nothing THEN "none"
        ELSE IF recovery = "switch"
                /\ (convo.source[v] # "unseen" \/ st \in {"store", "conflict"})
        THEN "opaque"
        ELSE IF st \in {"unknown", "store"} THEN "claim"
        ELSE IF st = "current" THEN "forward" ELSE "reject"

-----------------------------------------------------------------------------
(* Continuation routes: where a conversation may move. *)

Permits(rule, same) == rule = "any" \/ (rule = "same_identity" /\ same)

MayContinue(from, to) ==
    IF from = "external" THEN Permits(InboundRule[to], FALSE)
    ELSE LET same == AccountOf[from] = AccountOf[to]
         IN  from = to \/ (Permits(OutboundRule[from], same)
                           /\ Permits(InboundRule[to], same))

(* A thread outranks the opaque references of its conversation. *)
Sources ==
    LET known(S) == {convo.source[v] : v \in S} \ {"unseen", "none"}
    IN  IF known(ClientIds) # {} THEN known(ClientIds)
        ELSE IF known(UpstreamRefs) # {} THEN known(UpstreamRefs)
        ELSE {convo.current} \ {Nothing}

Authorized(t) == \A from \in Sources : MayContinue(from, t)

(* The first observation of a value freezes where it came from. *)
ObservedSource(v) ==
    IF convo.saved[v] # Nothing THEN convo.saved[v]
    ELSE IF OwnerStatus(v) = "current" THEN bindings[v].target
    ELSE IF v \in UpstreamRefs THEN "external" ELSE "none"

Observes(v) == recovery = "switch" /\ v # Nothing /\ convo.source[v] = "unseen"
ObserveValue(v) ==
    convo' = IF Observes(v) THEN [convo EXCEPT !.source[v] = ObservedSource(v)]
             ELSE convo

ServingRoute(c, t) ==
    [source  |-> [v \in Carriable |-> IF c.source[v] = "unseen" THEN "unseen" ELSE t],
     current |-> t,
     saved   |-> [v \in Carriable |-> IF c.source[v] = "unseen" THEN c.saved[v] ELSE t]]

-----------------------------------------------------------------------------
(* Permits: the claims prepared for one delivery. *)

NoPermit == [lease |-> Nothing, pin |-> FALSE, route |-> FALSE, close |-> FALSE]

Pending(s) == [account |-> Account(s), target |-> s.candidate, life |-> "pending",
               mine |-> TRUE, ours |-> FALSE]
Lease(s, v, created) == [v |-> v, account |-> Account(s), created |-> created]

(* The lease a verdict needs: "none", "skip", "refused", "new" or "held". *)
LeaseOutcome(s, v, verdict, visible) ==
    LET free == bindings[v] = Nothing
        held == ~free /\ bindings[v].mine /\ bindings[v].account = Account(s)
        anchored == s.scope # Nothing \/ s.open
    IN  IF verdict \notin {"claim", "adopt", "forward"} THEN "none"
        ELSE IF outage /\ (verdict = "forward"
                           \/ (verdict = "claim" /\ ~visible /\ anchored)) THEN "skip"
        ELSE IF outage /\ ~visible THEN "refused"
        ELSE IF held THEN "held"
        ELSE IF free /\ verdict # "forward" THEN "new" ELSE "refused"

PreparedPermit(s, v, verdict, out) ==
    [NoPermit EXCEPT
        !.lease = IF out \in {"new", "held"} THEN Lease(s, v, out = "new") ELSE Nothing,
        !.pin   = verdict \in {"claim", "adopt"}]

ClaimBinding(s, v, out) ==
    bindings' = IF out = "new" THEN [bindings EXCEPT ![v] = Pending(s)] ELSE bindings

(* An unpinned operation of a switching policy takes no pin from a claim *)
(* before its output is visible.                                         *)
PinCandidate(s, scope, route) ==
    LET a == Account(s)
        p == IF scope \/ route THEN PinAccount(s, a) ELSE s
    IN  IF ~route /\ (~scope \/ (recovery = "switch" /\ ~s.visible)) THEN s
        ELSE IF p = Nothing \/ (route /\ s.target \notin {Nothing, s.candidate})
        THEN Nothing
        ELSE IF route THEN [p EXCEPT !.target = s.candidate] ELSE p

(* A lease commits when its binding is still the one it was taken on. *)
Committable(permit) ==
    \/ permit.lease = Nothing
    \/ LET b == bindings[permit.lease.v]
       IN  b # Nothing /\ b.mine /\ b.account = permit.lease.account

CommittedSock(s, permit) ==
    LET p == PinCandidate(s, permit.pin, permit.route)
    IN  IF p = Nothing \/ ~permit.close THEN p ELSE [p EXCEPT !.closed = TRUE]

Established(b) == [b EXCEPT !.life = "committed", !.ours = TRUE]

CommitLease(permit) ==
    bindings' = IF permit.lease = Nothing THEN bindings
                ELSE [bindings EXCEPT ![permit.lease.v] = Established(@)]

Abandoned(permit) ==
    IF permit.lease # Nothing /\ permit.lease.created
          /\ bindings[permit.lease.v].life = "pending"
    THEN [bindings EXCEPT ![permit.lease.v] = Nothing] ELSE bindings

Unheld(v, verdict, out) == IF out = "skip" \/ verdict = "degraded" THEN {v} ELSE {}
Sees(v, a) == IF v = Nothing THEN reached ELSE [reached EXCEPT ![v] = @ \cup {a}]

-----------------------------------------------------------------------------
(* The orchestrator: begin, dial, handshake. *)

Fresh == [scope |-> Nothing, target |-> Nothing, candidate |-> Nothing,
          open |-> FALSE, visible |-> FALSE, closed |-> FALSE]
Still == [pc |-> "idle", frame |-> Nothing, permit |-> NoPermit, replay |-> <<>>,
          replaying |-> FALSE]

MainAt(pc) == main' = [main EXCEPT !.pc = pc]
SettleWith(cause) == main' = [main EXCEPT !.pc = "settle", !.cause = cause]
quiet == <<recovery, header, outage, spent>>
relay == <<up, down, kept>>
history == <<reached, unclaimed, shown>>

BeginSocket ==
    LET s == Constrained(sock, header)
        bad == s = Nothing \/ ClientVerdict(s, header, TRUE) = "reject"
                  \/ (Observes(header) /\ outage)
    IN  /\ main.pc = "begin"
        /\ MainAt(IF bad THEN "ended" ELSE "select")
        /\ sock' = IF s = Nothing THEN sock ELSE s
        /\ IF bad THEN UNCHANGED convo ELSE ObserveValue(header)
        /\ UNCHANGED <<crumbs, bindings, relay, history, quiet>>

(* Every dial starts from an empty overlay, also on the same account. *)
DiscardOverlay(c) ==
    IF c.authority = Nothing THEN c.overlay
    ELSE [c.overlay EXCEPT ![c.authority] = {}]

Bindable(t) ==
    sock.scope \in {Nothing, AccountOf[t]} /\ sock.target \in {Nothing, t}

PrepareDial(t) ==
    LET bound == [sock EXCEPT !.candidate = t]
        pinned == Constrained(bound, header)
        s == IF pinned = Nothing THEN bound ELSE pinned
        verdict == IF pinned = Nothing THEN "reject" ELSE ClientVerdict(s, header, TRUE)
        out == LeaseOutcome(s, header, verdict, FALSE)
    IN  /\ main.pc = "select" /\ main.dials < MaxDials /\ main.only \in {Nothing, t}
        /\ main' = [main EXCEPT !.dials = @ + 1, !.accepted = FALSE, !.only = Nothing,
                !.pc = IF Authorized(t) /\ Bindable(t)
                          /\ verdict # "reject" /\ out # "refused"
                       THEN "dialing" ELSE "settle",
                !.cause = IF Authorized(t) THEN "internal" ELSE "denied",
                !.sent = IF verdict = "drop" THEN Nothing ELSE header,
                !.permit = PreparedPermit(s, header, verdict, out)]
        /\ IF ~Authorized(t) \/ ~Bindable(t)
           THEN UNCHANGED <<sock, crumbs, bindings, unclaimed>>
           ELSE IF verdict = "reject"
           THEN sock' = s /\ UNCHANGED <<crumbs, bindings, unclaimed>>
           ELSE /\ sock' = s
                /\ crumbs' = [crumbs EXCEPT !.overlay = DiscardOverlay(crumbs),
                                            !.authority = AccountOf[t]]
                /\ ClaimBinding(s, header, out)
                /\ unclaimed' = unclaimed \cup Unheld(header, verdict, out)
        /\ UNCHANGED <<convo, relay, reached, shown, quiet>>

(* Mutant: a lost dial releases its claims too. *)
MutSettledDial(outcome) ==
    IF outcome = "accepted" THEN "commit" ELSE "abandon"

(* A refusal or a dial that sent nothing releases its claims; anything else *)
(* may have established them.                                               *)
SettledDial(outcome) ==
    IF outcome \in {"rejected", "hidden"} THEN "abandon" ELSE "commit"

DialEnds(outcome) ==
    LET commits == SettledDial(outcome) = "commit"
        s == CommittedSock(sock, main.permit)
        fails == IF commits THEN ~Committable(main.permit) \/ s = Nothing
                 ELSE outage /\ main.permit.lease # Nothing /\ main.permit.lease.created
    IN  /\ main.pc = "dialing"
        /\ reached' = IF outcome \in {"lost", "accepted"}
                      THEN Sees(main.sent, Account(sock)) ELSE reached
        /\ CASE fails -> SettleWith("internal")
             [] ~fails /\ outcome = "accepted" ->
                  main' = [main EXCEPT !.pc = "handshake", !.accepted = TRUE]
             [] OTHER -> SettleWith(IF outcome = "rejected" THEN "rejected" ELSE "transport")
        /\ IF fails THEN UNCHANGED <<sock, bindings, crumbs>>
           ELSE /\ sock' = IF commits THEN s ELSE sock
                /\ IF commits THEN CommitLease(main.permit)
                   ELSE bindings' = Abandoned(main.permit)
                /\ crumbs' = IF outcome \in {"rejected", "accepted"}
                             THEN [crumbs EXCEPT !.overlay[crumbs.authority] = @ \cup {main.dials}]
                             ELSE crumbs
        /\ UNCHANGED <<convo, relay, unclaimed, shown, quiet>>

(* Handshake cookies are published once, by the attempt that became visible *)
(* or was the session's last.                                               *)
Publish(c) ==
    IF c.closed THEN c
    ELSE [c EXCEPT !.published = c.overlay[c.authority], !.closed = TRUE]

StartRelay(s, seen) ==
    /\ sock' = [s EXCEPT !.open = TRUE]
    /\ main' = [main EXCEPT !.pc = "relay", !.client = TRUE, !.seen = @ \/ seen,
                            !.cause = Nothing]
    /\ up' = [Still EXCEPT !.replay = kept] /\ down' = Still

(* The first accepted handshake also answers the client's upgrade, and may *)
(* show it a turn state.                                                   *)
AcceptClient(v, stored) ==
    LET verdict == ServerVerdict(sock, v)
        out == LeaseOutcome(sock, v, verdict, TRUE)
        permit == [PreparedPermit(sock, v, verdict, out) EXCEPT
                     !.pin = TRUE, !.route = TRUE]
        s == CommittedSock(sock, permit)
    IN  /\ main.pc = "handshake" /\ ~main.client /\ v \in UpstreamRefs
        /\ IF verdict = "reject" \/ out = "refused"
           THEN /\ SettleWith("internal")
                /\ UNCHANGED <<sock, bindings, crumbs, convo, reached, shown, up, down, kept>>
           ELSE /\ shown' = shown \cup {sock.candidate}
                /\ reached' = Sees(v, Account(sock))
                /\ bindings' = IF out = "none" THEN bindings
                               ELSE [bindings EXCEPT ![v] =
                                  Established(IF out = "new" THEN Pending(sock) ELSE bindings[v])]
                /\ IF s # Nothing /\ stored
                   THEN /\ StartRelay([s EXCEPT !.visible = TRUE], TRUE)
                        /\ crumbs' = Publish(crumbs)
                        /\ convo' = ServingRoute(convo, sock.candidate)
                        /\ kept' = <<>>
                   ELSE /\ main' = [main EXCEPT !.pc = "settle", !.cause = "internal",
                                                !.client = TRUE]
                        /\ sock' = IF s = Nothing THEN sock ELSE s
                        /\ UNCHANGED <<crumbs, convo, up, down, kept>>
        /\ UNCHANGED <<unclaimed, quiet>>

OpenConnection ==
    /\ main.pc = "handshake" /\ StartRelay(sock, FALSE)
    /\ UNCHANGED <<crumbs, bindings, convo, kept, history, quiet>>

-----------------------------------------------------------------------------
(* The relay, client to upstream. *)

Relaying == main.pc = "relay"

(* Until output is visible one goroutine owns both directions: an upload and *)
(* the handling of an upstream frame do not overlap.                         *)
UpTurn == main.seen \/ down.pc \in {"idle", "stopped"}
DownTurn == main.seen \/ (up.pc = "idle" /\ up.replay = <<>>)
Cause(c) == main' = [main EXCEPT !.cause = IF @ = Nothing THEN c ELSE @]
StopUp(c) == up' = [Still EXCEPT !.pc = "stopped"] /\ Cause(c)
StopDown(c) == down' = [Still EXCEPT !.pc = "stopped"] /\ Cause(c)

(* Classification happens once per frame; a replay reuses it. *)
ClassifyClientFrame(v, bound) ==
    LET s == Constrained(sock, v)
        bad == s = Nothing \/ ClientVerdict(s, v, FALSE) = "reject"
                  \/ (Observes(v) /\ outage)
        frame == [v |-> v, bound |-> bound, verdict |-> ClientVerdict(s, v, FALSE)]
    IN  /\ Relaying /\ up.pc = "idle" /\ up.replay = <<>> /\ main.cause = Nothing /\ UpTurn
        /\ spent.client < MaxClientFrames
        /\ spent' = [spent EXCEPT !.client = @ + 1]
        /\ sock' = IF s = Nothing THEN sock ELSE s
        /\ IF bad THEN StopUp("internal") /\ UNCHANGED <<kept, convo>>
           ELSE /\ up' = [up EXCEPT !.pc = "classified", !.frame = frame]
                /\ kept' = IF bound \/ main.seen THEN kept ELSE Append(kept, frame)
                /\ ObserveValue(v) /\ UNCHANGED main
        /\ UNCHANGED <<recovery, header, crumbs, bindings, down, outage, history>>

ReplayFrame ==
    /\ Relaying /\ up.pc = "idle" /\ up.replay # <<>> /\ main.cause = Nothing /\ UpTurn
    /\ up' = [up EXCEPT !.pc = "classified", !.frame = Head(up.replay),
                        !.replay = Tail(up.replay), !.replaying = TRUE]
    /\ UNCHANGED <<sock, crumbs, bindings, convo, main, down, kept, history, quiet>>

PrepareDelivery ==
    LET f == up.frame
        out == LeaseOutcome(sock, f.v, f.verdict, FALSE)
    IN  /\ Relaying /\ up.pc = "classified"
        /\ IF ~Authorized(sock.candidate)
           THEN /\ StopUp(IF ~f.bound /\ ~sock.closed THEN "denied" ELSE "reconnect")
                /\ UNCHANGED <<bindings, unclaimed>>
           ELSE IF out = "refused"
           THEN StopUp("internal") /\ UNCHANGED <<bindings, unclaimed>>
           ELSE /\ up' = [up EXCEPT !.pc = "prepared",
                     !.permit = [PreparedPermit(sock, f.v, f.verdict, out)
                                   EXCEPT !.close = f.bound]]
                /\ ClaimBinding(sock, f.v, out)
                /\ unclaimed' = unclaimed \cup Unheld(f.v, f.verdict, out)
                /\ UNCHANGED main
        /\ UNCHANGED <<sock, crumbs, convo, down, kept, reached, shown, quiet>>

WriteUpstream ==
    /\ Relaying /\ up.pc = "prepared"
    /\ up' = [up EXCEPT !.pc = "written"]
    /\ reached' = Sees(up.frame.v, Account(sock))
    /\ UNCHANGED <<sock, crumbs, bindings, convo, main, down, kept, unclaimed, shown, quiet>>

(* A failed write may still have delivered the frame: its claim stays. *)
Released == bindings

WriteUpstreamFails(delivered) ==
    /\ Relaying /\ up.pc = "prepared"
    /\ StopUp(IF up.replaying THEN "replay" ELSE "transport")
    /\ reached' = IF delivered THEN Sees(up.frame.v, Account(sock)) ELSE reached
    /\ bindings' = Released
    /\ UNCHANGED <<sock, crumbs, convo, down, kept, unclaimed, shown, quiet>>

CommitDelivery ==
    LET s == CommittedSock(sock, up.permit)
    IN  /\ Relaying /\ up.pc = "written"
        /\ IF Committable(up.permit) /\ s # Nothing
           THEN /\ sock' = s /\ CommitLease(up.permit) /\ UNCHANGED main
                /\ up' = [Still EXCEPT !.replay = up.replay]
           ELSE StopUp("internal") /\ UNCHANGED <<sock, bindings>>
        /\ UNCHANGED <<crumbs, convo, down, kept, history, quiet>>

-----------------------------------------------------------------------------
(* The relay, upstream to client. *)

PrepareServerFrame(v) ==
    LET verdict == ServerVerdict(sock, v)
        out == LeaseOutcome(sock, v, verdict, TRUE)
    IN  /\ Relaying /\ down.pc = "idle" /\ main.cause = Nothing /\ DownTurn
        /\ spent.server < MaxServerFrames
        /\ spent' = [spent EXCEPT !.server = @ + 1]
        /\ IF verdict = "reject" \/ out = "refused"
           THEN StopDown("internal") /\ UNCHANGED bindings
           ELSE /\ down' = [down EXCEPT !.pc = "prepared", !.frame = v,
                     !.permit = [PreparedPermit(sock, v, verdict, out) EXCEPT
                                   !.pin = v # Nothing]]
                /\ ClaimBinding(sock, v, out) /\ UNCHANGED main
        /\ UNCHANGED <<recovery, header, sock, crumbs, convo, up, kept, outage, history>>

WriteClient(ok) ==
    /\ Relaying /\ down.pc = "prepared"
    /\ IF ok
       THEN /\ down' = [down EXCEPT !.pc = "written"]
            /\ reached' = Sees(down.frame, Account(sock))
            /\ shown' = shown \cup {sock.candidate} /\ UNCHANGED main
       ELSE StopDown("client") /\ UNCHANGED <<reached, shown>>
    /\ UNCHANGED <<sock, crumbs, bindings, convo, up, kept, unclaimed, quiet>>

ConfirmFrame ==
    LET s == CommittedSock(sock, down.permit)
    IN  /\ Relaying /\ down.pc = "written"
        /\ IF Committable(down.permit) /\ s # Nothing
           THEN /\ sock' = s /\ CommitLease(down.permit) /\ UNCHANGED main
                /\ down' = [down EXCEPT !.pc = IF s.visible THEN "route" ELSE "pin"]
           ELSE StopDown("internal") /\ UNCHANGED <<sock, bindings>>
        /\ UNCHANGED <<crumbs, convo, up, kept, history, quiet>>

(* The visibility boundary, in the code's order: pin, cookies, route. *)
PinVisible ==
    LET s == PinCandidate(sock, TRUE, TRUE)
    IN  /\ Relaying /\ down.pc = "pin"
        /\ IF s = Nothing THEN StopDown("internal") /\ UNCHANGED sock
           ELSE sock' = s /\ down' = [down EXCEPT !.pc = "cookies"] /\ UNCHANGED main
        /\ UNCHANGED <<crumbs, bindings, convo, up, kept, history, quiet>>

CommitCookies(stored) ==
    /\ Relaying /\ down.pc = "cookies"
    /\ IF stored
       THEN /\ crumbs' = Publish(crumbs) /\ UNCHANGED main
            /\ down' = [down EXCEPT !.pc = "route"]
       ELSE StopDown("internal") /\ UNCHANGED crumbs
    /\ UNCHANGED <<sock, bindings, convo, up, kept, history, quiet>>

CommitConversationRoute(stored) ==
    /\ Relaying /\ down.pc = "route"
    /\ IF stored
       THEN /\ convo' = ServingRoute(convo, sock.candidate) /\ down' = Still
            /\ sock' = [sock EXCEPT !.visible = TRUE] /\ kept' = <<>>
            /\ main' = [main EXCEPT !.seen = TRUE]
       ELSE StopDown("internal") /\ UNCHANGED <<sock, convo, kept>>
    /\ UNCHANGED <<crumbs, bindings, up, history, quiet>>

(* A peer goes away, or the other direction ended the attempt. *)
StopReading ==
    /\ Relaying
    /\ \/ /\ up.pc = "idle" /\ UpTurn /\ StopUp("client") /\ UNCHANGED down
       \/ /\ down.pc = "idle" /\ StopDown("transport") /\ UNCHANGED up
    /\ UNCHANGED <<sock, crumbs, bindings, convo, kept, history, quiet>>

CloseConnection ==
    /\ Relaying /\ up.pc = "stopped" /\ down.pc = "stopped"
    /\ MainAt("settle") /\ sock' = [sock EXCEPT !.open = FALSE]
    /\ UNCHANGED <<crumbs, bindings, convo, relay, history, quiet>>

-----------------------------------------------------------------------------
(* After an attempt. *)

Replaceable ==
    /\ ~sock.closed /\ ~main.seen /\ main.dials < MaxDials
    /\ main.cause \in {"transport", "rejected", "denied"}

RetrySameProvider ==
    /\ main.pc = "settle" /\ Replaceable /\ main.cause = "transport"
    /\ main' = [main EXCEPT !.pc = "select", !.only = sock.candidate]
    /\ UNCHANGED <<sock, crumbs, bindings, convo, relay, history, quiet>>

(* A switching policy forgets what only routed the attempt; the keeping one *)
(* changes nothing.                                                         *)
Forgotten(s) ==
    IF recovery = "keep" THEN s
    ELSE [s EXCEPT !.candidate = Nothing, !.scope = Nothing, !.open = FALSE]

ReplacePhysicalAttempt ==
    /\ main.pc = "settle" /\ Replaceable
    /\ IF recovery = "switch" /\ (sock.visible \/ sock.target # Nothing)
       THEN MainAt("ended") /\ UNCHANGED sock
       ELSE MainAt("select") /\ sock' = Forgotten(sock)
    /\ UNCHANGED <<crumbs, bindings, convo, relay, history, quiet>>

(* The session's last attempt publishes its cookies if it served the client. *)
ConcludeSocket ==
    /\ main.pc = "settle" /\ ~Replaceable /\ MainAt("ended")
    /\ crumbs' = IF main.accepted /\ main.client THEN Publish(crumbs) ELSE crumbs
    /\ UNCHANGED <<sock, bindings, convo, relay, history, quiet>>

-----------------------------------------------------------------------------
(* Everyone else. *)

RivalClaims(v, t, mine) ==
    /\ bindings[v] = Nothing /\ ~outage /\ spent.rivals < MaxRivals /\ main.pc # "ended"
    /\ spent' = [spent EXCEPT !.rivals = @ + 1]
    /\ bindings' = [bindings EXCEPT ![v] = [account |-> AccountOf[t], target |-> t,
                       life |-> "committed", mine |-> mine, ours |-> FALSE]]
    /\ UNCHANGED <<recovery, header, sock, crumbs, convo, main, relay, outage, history>>

StoreChanges ==
    /\ spent.outages < MaxOutages /\ main.pc # "ended"
    /\ outage' = ~outage /\ spent' = [spent EXCEPT !.outages = @ + 1]
    /\ UNCHANGED <<recovery, header, sock, crumbs, bindings, convo, main, relay, history>>

-----------------------------------------------------------------------------
SocketInit ==
    /\ recovery \in {"keep", "switch"} /\ header \in Carriable \cup {Nothing}
    /\ sock = Fresh
    /\ crumbs = [authority |-> Nothing, overlay |-> [a \in Accounts |-> {}],
                 published |-> {}, closed |-> FALSE]
    /\ bindings = [v \in Carriable |-> Nothing]
    /\ convo = [source |-> [v \in Carriable |-> "unseen"], current |-> Nothing,
                saved |-> [v \in Carriable |-> Nothing]]
    /\ main = [pc |-> "begin", dials |-> 0, accepted |-> FALSE, client |-> FALSE,
               seen |-> FALSE, cause |-> Nothing, only |-> Nothing, sent |-> Nothing,
               permit |-> NoPermit]
    /\ up = Still /\ down = Still /\ kept = <<>>
    /\ outage = FALSE /\ spent = [client |-> 0, server |-> 0, outages |-> 0, rivals |-> 0]
    /\ reached = [v \in Carriable |-> {}] /\ unclaimed = {} /\ shown = {}

SocketNext ==
    \/ BeginSocket \/ OpenConnection
    \/ \E t \in DialTargets : PrepareDial(t)
    \/ \E o \in {"rejected", "hidden", "lost", "accepted"} : DialEnds(o)
    \/ \E v \in UpstreamRefs, ok \in BOOLEAN : AcceptClient(v, ok)
    \/ \E v \in Carriable \cup {Nothing}, b \in BOOLEAN : ClassifyClientFrame(v, b)
    \/ ReplayFrame \/ PrepareDelivery \/ WriteUpstream \/ CommitDelivery
    \/ \E d \in BOOLEAN : WriteUpstreamFails(d)
    \/ \E v \in UpstreamRefs \cup {Nothing} : PrepareServerFrame(v)
    \/ ConfirmFrame \/ PinVisible
    \/ \E ok \in BOOLEAN :
          WriteClient(ok) \/ CommitCookies(ok) \/ CommitConversationRoute(ok)
    \/ StopReading \/ CloseConnection
    \/ RetrySameProvider \/ ReplacePhysicalAttempt \/ ConcludeSocket
    \/ \E v \in Carriable, t \in DialTargets, mine \in BOOLEAN : RivalClaims(v, t, mine)
    \/ StoreChanges

SocketSpec == SocketInit /\ [][SocketNext]_socketVars

-----------------------------------------------------------------------------
(* Without the switching policy a conversation value lives at one account:  *)
(* once an upstream may have taken it, no replay, retry or replacement of   *)
(* this session gives it to another account.  A value forwarded without a   *)
(* claim because the store was out of reach is exempt.                      *)
OneAccountPerValue ==
    recovery = "keep" => \A v \in Carriable \ unclaimed : Cardinality(reached[v]) <= 1

(* The cookies a session publishes come from the handshake of the attempt *)
(* that served the client, never from a rejected or replaced one.         *)
CookiesOfServingAttempt ==
    crumbs.published # {} => crumbs.published = {main.dials} /\ main.accepted

\* No value and no cookie of one account reaches another.
AccountsSeparate == OneAccountPerValue /\ CookiesOfServingAttempt

-----------------------------------------------------------------------------
(* The inductive invariant. *)

Socks == [scope: Accounts \cup {Nothing}, target: DialTargets \cup {Nothing},
          candidate: DialTargets \cup {Nothing},
          open: BOOLEAN, visible: BOOLEAN, closed: BOOLEAN]
Crumbs == [authority: Accounts \cup {Nothing}, overlay: [Accounts -> SUBSET Nat],
           published: SUBSET Nat, closed: BOOLEAN]
LeaseRows == [v: Carriable, account: Accounts, created: BOOLEAN]
Grants == [lease: LeaseRows \cup {Nothing}, pin: BOOLEAN, route: BOOLEAN, close: BOOLEAN]
(* Only a frame without a value needs no verdict, and only a switching *)
(* policy passes one on unread.                                         *)
ClientFrames(policy) ==
    {f \in [v: Carriable \cup {Nothing}, bound: BOOLEAN,
             verdict: {"none", "opaque", "forward", "claim", "adopt", "degraded"}] :
        /\ f.v = Nothing <=> f.verdict = "none"
        /\ f.verdict = "opaque" => policy = "switch"}
Legs(frames, policy) ==
    [pc: {"idle", "classified", "prepared", "written", "pin", "cookies", "route", "stopped"},
     frame: frames \cup {Nothing}, permit: Grants, replay: Seq(ClientFrames(policy)),
     replaying: BOOLEAN]
Mains == [pc: {"begin", "select", "dialing", "handshake", "relay", "settle", "ended"},
          dials: Nat, accepted: BOOLEAN, client: BOOLEAN, seen: BOOLEAN,
          cause: {"internal", "denied", "rejected", "transport", "reconnect", "client",
                  "replay", Nothing},
          only: DialTargets \cup {Nothing}, sent: Carriable \cup {Nothing}, permit: Grants]

(* The operation, its connection, the bindings and the traffic keep their shape. *)
SocketTypeOK ==
    /\ recovery \in {"keep", "switch"} /\ header \in Carriable \cup {Nothing}
    /\ sock \in Socks /\ crumbs \in Crumbs /\ main \in Mains
    /\ bindings \in [Carriable -> BindingRows \cup {Nothing}]
    /\ up \in Legs(ClientFrames(recovery), recovery) /\ down \in Legs(UpstreamRefs, recovery)
    /\ kept \in Seq(ClientFrames(recovery))
    /\ outage \in BOOLEAN
    /\ reached \in [Carriable -> SUBSET Accounts] /\ unclaimed \subseteq Carriable

(* An attempt has its account, only a relay has frames underway, and before *)
(* its output is visible one direction works at a time.                     *)
AttemptShaped ==
    /\ main.pc \in {"dialing", "handshake", "relay"} \/ sock.open => sock.candidate \in DialTargets
    /\ up.pc # "idle" \/ down.pc # "idle" =>
          main.pc = "relay" \/ {up.pc, down.pc} \subseteq {"idle", "stopped"}
    /\ up.pc \in {"classified", "prepared", "written"} => up.frame \in ClientFrames(recovery)
    /\ main.pc = "relay" /\ ~main.seen /\ down.pc \notin {"idle", "stopped"} =>
          up.pc = "idle" /\ main.cause = Nothing
    /\ main.seen => main.pc \in {"relay", "settle", "ended"}
    /\ main.pc \in {"handshake", "relay"} => main.accepted
    /\ main.pc = "dialing" => ~main.accepted

(* A value is sent to an account only if it is bound there, or exempt. *)
BoundAt(v, a) == v = Nothing \/ v \in unclaimed \/ (bindings[v] # Nothing /\ bindings[v].account = a)

(* What an account may have seen is bound to it. *)
ReachedBound ==
    \A v \in Carriable \ unclaimed :
       reached[v] # {} => bindings[v] # Nothing /\ reached[v] \subseteq {bindings[v].account}

(* A dial sends what is bound, and releases only what nobody has seen. *)
DialBound ==
    main.pc = "dialing" =>
       /\ BoundAt(main.sent, Account(sock))
       /\ main.permit.lease # Nothing /\ main.permit.lease.created =>
             reached[main.permit.lease.v] = {} \/ main.permit.lease.v \in unclaimed

(* So do the frames about to be written. *)
UpBound == up.pc = "prepared" => BoundAt(up.frame.v, Account(sock))
DownBound == down.pc = "prepared" => BoundAt(down.frame, Account(sock))

ValuesBound == recovery = "keep" => ReachedBound /\ DialBound /\ UpBound /\ DownBound

(* The overlay holds the cookies of the current dial at most, and a session *)
(* that published them dials no more.                                       *)
OverlayCurrent ==
    /\ \A a \in Accounts \ {crumbs.authority} : crumbs.overlay[a] = {}
    /\ main.pc = "dialing" => crumbs.authority # Nothing /\ crumbs.overlay[crumbs.authority] = {}
    /\ main.accepted => crumbs.authority # Nothing /\ crumbs.overlay[crumbs.authority] \subseteq {main.dials}
    /\ crumbs.published # {} =>
          /\ crumbs.published = {main.dials} /\ main.accepted
          /\ \/ main.seen \/ main.pc = "ended"
             \/ main.pc = "relay" /\ (down.pc = "route" \/ main.cause = "internal")
             \/ main.pc = "settle" /\ main.cause = "internal"

SocketInv == SocketTypeOK /\ AttemptShaped /\ ValuesBound /\ OverlayCurrent
=============================================================================

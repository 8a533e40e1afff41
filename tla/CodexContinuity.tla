-------------------------- MODULE CodexContinuity --------------------------
(***************************************************************************)
(* Ownership of Codex conversation state (internal/codex/continuity) and   *)
(* the HTTP operation that drives it (internal/codex/http).                *)
(*                                                                         *)
(* Every conversation value (a thread identifier, a turn state, a response *)
(* reference) belongs to one client at one upstream account, its protocol  *)
(* scope.  A binding is pending until the value was disclosed or shown,    *)
(* committed after it, and a tombstone for a while once it expired.  The   *)
(* bindings live in SQLite (durable) and in a process-local mirror         *)
(* (memory) that answers while SQLite cannot; one call of the service      *)
(* touches the two tables in separate steps, so calls of several           *)
(* operations interleave between them.  A call takes its time when it      *)
(* starts and uses it in every step.                                       *)
(***************************************************************************)
EXTENDS Naturals, Sequences, FiniteSets, SequencesExt

CONSTANTS
    Operations,     \* client requests, each with its own operation ID
    Principals,        \* client scopes
    Scopes,         \* protocol scopes: upstream accounts
    Identities,     \* values a client may introduce (thread, session, ...)
    Issued,         \* values only an upstream introduces
    HeaderCarried,  \* identities that arrive in a header only
    PendingTTL, CommittedTTL, TombstoneTTL,
    MaxOwned,    \* rows of one kind a table may hold
    MaxContinuityClock,       \* bound on the clock
    MaxFailures,    \* bound on the transactions that fail
    MaxInPlay,      \* bound on the values one behaviour uses
    None

ASSUME ContinuityAssumption ==
    /\ Identities \cap Issued = {} /\ HeaderCarried \subseteq Identities
    /\ IsFiniteSet(Identities) /\ IsFiniteSet(Issued)
    /\ {PendingTTL, CommittedTTL, TombstoneTTL, MaxOwned} \subseteq Nat \ {0}

(* A row of either table. *)
OwnershipRows == [client : Principals, scope : Scopes, by : Operations,
                  life : {"pending", "committed", "tombstone"}, until : Nat]

ASSUME NoOwnerAssumption == None \notin Scopes /\ None \notin OwnershipRows

VARIABLES
    inPlay,         \* the values this behaviour uses
    clock,
    durable,        \* the SQLite table: value |-> binding or None
    memory,         \* the process-local mirror, lost by a restart
    operation,      \* the requests and the service call each is in
    failures,       \* failed transactions so far
    proofs          \* history: owners whose commit the service confirmed

continuityVars == <<inPlay, clock, durable, memory, operation, failures, proofs>>

Values == Identities \cup Issued
SameKind(v, w) == {v, w} \subseteq Identities \/ {v, w} \subseteq Issued

-----------------------------------------------------------------------------
(* The two tables run the same transitions. *)

(* A binding as a transaction at time `at` finds it: expired bindings turn *)
(* into tombstones, elapsed ones vanish.                                   *)
Reconciled(row, at) ==
    IF row = None THEN None
    ELSE IF at >= row.until + TombstoneTTL THEN None
    ELSE IF at >= row.until THEN [row EXCEPT !.life = "tombstone"]
    ELSE row

Standing(row) ==
    IF row = None THEN "unknown"
    ELSE IF row.life = "tombstone" THEN "expired" ELSE "owned"

Matches(row, client, scope) ==
    row.client = client /\ scope \in {None, row.scope}

Resolution(row, client, scope) ==
    IF Standing(row) = "owned" /\ ~Matches(row, client, scope)
    THEN "conflict" ELSE Standing(row)

Purged(table, v, at) ==
    [w \in Values |-> IF SameKind(v, w) THEN Reconciled(table[w], at) ELSE table[w]]

Full(table, v) ==
    Cardinality({w \in Values : SameKind(v, w) /\ table[w] # None}) >= MaxOwned

(* What a table operation answers, and the table after it. *)
Answer(decision, row, table) == [decision |-> decision, row |-> row, table |-> table]

LookedUp(table, v, client, scope, at) ==
    LET row == Reconciled(table[v], at)
    IN  Answer(Resolution(row, client, scope), row, [table EXCEPT ![v] = row])

ClaimedIn(table, v, client, scope, by, at) ==
    LET found == LookedUp(table, v, client, scope, at)
        kept  == Purged(table, v, at)
        fresh == [client |-> client, scope |-> scope, by |-> by,
                  life |-> "pending", until |-> at + PendingTTL]
    IN  IF found.decision # "unknown" THEN found
        ELSE IF Full(kept, v) THEN Answer("capacity", None, kept)
        ELSE Answer("claimed", fresh, [kept EXCEPT ![v] = fresh])

SameClaim(row, other) ==
    row.client = other.client /\ row.scope = other.scope /\ row.by = other.by

(* A committed binding's deadline only ever advances. *)
Later(x, y) == IF x > y THEN x ELSE y

Renewed(row, at) ==
    [row EXCEPT !.life  = "committed",
                !.until = IF row.life = "committed"
                          THEN Later(row.until, at + CommittedTTL)
                          ELSE at + CommittedTTL]

CommittedIn(table, v, lease, at) ==
    LET row  == Reconciled(table[v], at)
        kept == [table EXCEPT ![v] = row]
    IN  IF Standing(row) # "owned" THEN Answer(Standing(row), row, kept)
        ELSE IF ~SameClaim(row, lease) THEN Answer("conflict", row, kept)
        ELSE Answer("committed", Renewed(row, at), [table EXCEPT ![v] = Renewed(row, at)])

AbandonedIn(table, v, lease, at) ==
    LET row  == Reconciled(table[v], at)
        kept == [table EXCEPT ![v] = row]
    IN  IF Standing(row) # "owned" THEN Answer(Standing(row), row, kept)
        ELSE IF row.life # "pending" \/ ~SameClaim(row, lease)
        THEN Answer("conflict", row, kept)
        ELSE Answer("abandoned", row, [table EXCEPT ![v] = None])

(* Mirroring a binding the durable table proved. *)
Remembered(table, v, client, row, at) ==
    LET found == LookedUp(table, v, client, row.scope, at)
        kept  == Purged(table, v, at)
    IN  CASE found.decision \in {"expired", "conflict"} -> found
          [] found.decision = "owned" ->
                IF found.row.life = "committed" /\ row.life # "committed"
                THEN found
                ELSE Answer("owned", row, [table EXCEPT ![v] = row])
          [] OTHER -> IF Full(kept, v) THEN Answer("capacity", row, kept)
                      ELSE Answer("owned", row, [kept EXCEPT ![v] = row])

-----------------------------------------------------------------------------
(* The calls an operation makes, one after the other. *)

Ask(call, v, scope, fallback, lease) ==
    [call |-> call, v |-> v, scope |-> scope, fallback |-> fallback, lease |-> lease]

AskLookup(v, scope) == Ask("lookup", v, scope, FALSE, None)
AskClaim(v, fallback) == Ask("claim", v, None, fallback, None)    \* at the attempt's scope
AskLease(call, lease) == Ask(call, lease.v, None, FALSE, lease)

Created(leases) == SelectSeq(leases, LAMBDA l : l.created)
AsksFor(call, leases) == [i \in 1..Len(leases) |-> AskLease(call, leases[i])]

NoCall == [step |-> "store", at |-> 0, cause |-> "none", row |-> None]

FreshBinding ==
    [phase |-> "new", client |-> None, switch |-> FALSE, evidence |-> {},
     status |-> [v \in Values |-> "none"], source |-> [v \in Values |-> None],
     action |-> [v \in Values |-> "none"],
     required |-> None, scope |-> None, pin |-> FALSE, leases |-> <<>>,
     spent |-> FALSE, failed |-> FALSE, shown |-> None, disclosed |-> {},
     todo |-> <<>>, call |-> NoCall]

Ended == [FreshBinding EXCEPT !.phase = "ended"]

(* continuation outcomes a switching operation treats as opaque state *)
Degradable(p, decision) ==
    p.switch /\ decision \in {"unknown", "expired", "unavailable"}
Persistence(decision) == decision \in {"unavailable", "capacity"}

(* decideOwner: what becomes of a value the client sent. *)
Decided(v, status, anchored) ==
    CASE status \in {"current", "opaque"} -> "forward"
      [] status = "unknown" ->
            IF v \in Identities THEN "claim"
            ELSE IF anchored THEN "adopt" ELSE "reject"
      [] status = "down" ->
            IF anchored /\ v \in Identities THEN "degraded" ELSE "reject"
      [] OTHER -> IF v \in HeaderCarried THEN "drop" ELSE "reject"

Admitted(p) ==
    LET owners   == {p.source[v] : v \in {w \in p.evidence : p.status[w] = "current"}}
        anchored == ~p.switch /\ owners # {}
        action   == [v \in Values |-> IF v \in p.evidence
                                      THEN Decided(v, p.status[v], anchored)
                                      ELSE "none"]
    IN  IF (~p.switch /\ Cardinality(owners) > 1) \/ \E v \in Values : action[v] = "reject"
        THEN Ended
        ELSE [p EXCEPT !.phase = "admitted", !.action = action, !.evidence = {},
                       !.status = IF p.switch THEN @ ELSE FreshBinding.status,
                       !.source = IF p.switch THEN @ ELSE FreshBinding.source,
                       !.required = IF anchored THEN CHOOSE s \in owners : TRUE ELSE None]

(* Mutant: a retry may choose another account. *)
MutPinned(p) == p

Pinned(p) ==
    IF ~p.switch /\ p.pin THEN [p EXCEPT !.required = p.scope] ELSE p

Idle(p) == [p EXCEPT !.phase = "admitted", !.scope = None, !.pin = FALSE,
                     !.leases = <<>>, !.failed = FALSE, !.shown = None,
                     !.todo = <<>>]

(* What an operation does once the calls of its phase are over. *)
Done(p) ==
    CASE p.phase = "resolving" -> Admitted(p)
      [] p.phase = "preparing" -> [p EXCEPT !.phase = "sending"]
      [] p.phase = "undoing"   -> Idle(p)
      [] p.phase = "disclosing" ->
            [p EXCEPT !.phase = "answered", !.spent = TRUE, !.leases = <<>>]
      [] p.phase = "abandoning" -> Idle(IF p.failed THEN Pinned(p) ELSE p)
      [] p.phase = "gating"    -> [p EXCEPT !.phase = "writing"]
      [] p.phase = "showing"   -> [p EXCEPT !.phase = "answered", !.leases = <<>>]
      [] OTHER -> p

ProceedOperation(p) == IF p.todo = <<>> THEN Done(p) ELSE p

-----------------------------------------------------------------------------
(* What each phase makes of a call's outcome: [decision, row, origin,      *)
(* created], where the decision is ok or the continuity error.             *)

Outcome(decision, row, origin, created) ==
    [decision |-> decision, row |-> row, origin |-> origin, created |-> created]

LeaseOf(v, out) == [v |-> v, client |-> out.row.client, scope |-> out.row.scope,
                    by |-> out.row.by, origin |-> out.origin, created |-> out.created]

Popped(p) == [p EXCEPT !.todo = Tail(p.todo), !.call = NoCall]

Leased(p, v, out) == [Popped(p) EXCEPT !.leases = Append(@, LeaseOf(v, out))]

(* Resolve keeps an expired owner's client as a constraint. *)
Observed(p, out) ==
    IF out.decision \in {"ok", "expired"} /\ out.row # None /\ out.row.client # p.client
    THEN "conflict" ELSE out.decision

(* Ledger.ObserveRequest and classifyProvenanceResolution. *)
ObserveBinding(p, v, out) ==
    LET seen == Observed(p, out)
        kind == IF seen # "conflict" /\ p.switch THEN "opaque"
                ELSE CASE seen = "ok" -> "current"
                       [] seen = "unknown" -> "unknown"
                       [] seen \in {"conflict", "expired"} -> "conflict"
                       [] OTHER -> "down"
    IN  [Popped(p) EXCEPT !.status[v] = kind,
                          !.source[v] = IF seen = "ok" THEN out.row.scope ELSE None]

(* prepareRequestContinuityLocked: a lease, none, or the attempt fails and *)
(* the claims it created are abandoned.                                    *)
Prepared(p, v, out) ==
    IF out.decision = "ok" THEN Leased(p, v, out)
    ELSE IF \/ Degradable(p, out.decision)
            \/ ~p.switch /\ Persistence(out.decision) /\ p.action[v] \in {"forward", "claim"}
    THEN Popped(p)
    ELSE [Popped(p) EXCEPT !.phase = "undoing",
                           !.todo = AsksFor("abandon", Created(p.leases))]

(* prepareServerDecisionLocked for one issued value. *)
Gated(p, a, out) ==
    LET claim == [p EXCEPT !.todo = <<AskClaim(a.v, TRUE)>>, !.call = NoCall]
        seen  == IF a.scope = None THEN Observed(p, out) ELSE out.decision
    IN  IF a.call = "claim"
        THEN IF out.decision = "ok" THEN Leased(p, a.v, out)
             ELSE IF Degradable(p, out.decision) THEN Popped(p)
             ELSE Ended
        ELSE IF seen = "ok"
        THEN IF a.scope = None
             THEN [p EXCEPT !.todo = <<AskLookup(a.v, p.scope)>>, !.call = NoCall]
             ELSE Leased(p, a.v, out)
        ELSE IF seen # "unknown" /\ Degradable(p, seen) THEN Popped(p)
        ELSE IF seen = "unknown" \/ Persistence(seen) THEN claim
        ELSE Ended

(* Commits stop at the first error that is not opaque. *)
Settled(p, out) ==
    IF out.decision = "ok" \/ Degradable(p, out.decision)
    THEN Popped(p)
    ELSE IF p.phase = "disclosing" THEN [Idle(p) EXCEPT !.call = NoCall]
    ELSE [Popped(p) EXCEPT !.todo = <<>>]

Returned(p, out) ==
    LET a == Head(p.todo)
    IN  ProceedOperation(
          CASE p.phase = "resolving" -> ObserveBinding(p, a.v, out)
            [] p.phase = "preparing" -> Prepared(p, a.v, out)
            [] p.phase = "undoing"   -> Popped(p)
            [] p.phase = "abandoning" ->
                 [Popped(p) EXCEPT !.failed = @ \/ out.decision # "ok"]
            [] p.phase = "gating" -> Gated(p, a, out)
            [] OTHER -> Settled(p, out))

Error(decision, row) == Outcome(decision, row, "none", FALSE)

-----------------------------------------------------------------------------
(* The steps of a service call. *)

Goes(o, p) == operation' = [operation EXCEPT ![o] = p]

Confirm(v, lease, at, where) ==
    proofs' = [proofs EXCEPT ![v] =
                 {q \in @ \cup {[client |-> lease.client, scope |-> lease.scope,
                                 until |-> at + CommittedTTL, where |-> where]} :
                    q.until > clock}]

(* A copy from the durable table replaces the mirror's deadline, and what  *)
(* the mirror alone confirmed lasts no longer.                             *)
Mirrored(v, row) ==
    proofs' = [proofs EXCEPT ![v] =
                 {q \in @ : \/ q.where # "memory" \/ q.until <= row.until
                            \/ q.client # row.client \/ q.scope # row.scope}]

(* The call goes on at `step`, keeping what the durable table said. *)
OnTo(p, step, at, ans) ==
    [p EXCEPT !.call = [step |-> step, at |-> at, cause |-> ans.decision, row |-> ans.row]]

At(o, step) ==
    /\ operation[o].phase # "ended"
    /\ operation[o].todo # <<>>
    /\ operation[o].call.step = step

(* What the durable table answers a call; a lease the mirror granted never *)
(* asks it.                                                                *)
DurableAnswer(o, a) ==
    IF a.lease # None /\ a.lease.origin = "memory" THEN Answer("skipped", None, durable)
    ELSE CASE
         a.call = "lookup"  -> LookedUp(durable, a.v, operation[o].client, a.scope, clock)
      [] a.call = "claim"   -> ClaimedIn(durable, a.v, operation[o].client, operation[o].scope, o, clock)
      [] a.call = "commit"  -> CommittedIn(durable, a.v, a.lease, clock)
      [] OTHER              -> AbandonedIn(durable, a.v, a.lease, clock)    \* abandon

(* The transaction fails as a whole: SQLite is busy or gone. *)
Unavailable == Answer("unavailable", None, durable)

Fails(ok) ==
    /\ ok \/ failures < MaxFailures
    /\ failures' = IF ok THEN failures ELSE failures + 1

NextStep(a, decision) ==
    CASE a.call = "lookup" ->
            IF decision \in {"unavailable", "unknown"} THEN "memory"
            ELSE IF decision = "owned" THEN "remember" ELSE "return"
      [] a.call = "claim" ->
            IF a.fallback /\ Persistence(decision) THEN "memory"
            ELSE IF decision \in {"claimed", "owned"} THEN "remember" ELSE "return"
      [] a.call = "commit" ->
            IF decision \in {"skipped", "unavailable", "unknown", "committed"}
            THEN "memory" ELSE "return"
      [] OTHER ->                                             \* abandon
            IF decision \in {"skipped", "abandoned"} THEN "memory" ELSE "return"

DurableStep(o, ok) ==
    /\ At(o, "store")
    /\ LET p    == operation[o]
           a    == Head(p.todo)
           ans  == IF ok THEN DurableAnswer(o, a) ELSE Unavailable
           step == NextStep(a, ans.decision)
       IN  /\ (~ok /\ a.lease # None) => a.lease.origin = "durable"
           /\ Fails(ok)
           /\ durable' = ans.table
           /\ Goes(o, IF step = "return" THEN Returned(p, Error(ans.decision, ans.row))
                      ELSE OnTo(p, step, clock, ans))
           /\ IF a.call = "commit" /\ ans.decision = "committed"
              THEN Confirm(a.v, a.lease, clock, "disk")
              ELSE UNCHANGED proofs
    /\ UNCHANGED <<inPlay, clock, memory>>

(* The binding is copied into the mirror; a contradiction there fails the  *)
(* call, a full mirror does not.                                           *)
RememberStep(o) ==
    /\ At(o, "remember")
    /\ LET p   == operation[o]
           a   == Head(p.todo)
           ans == Remembered(memory, a.v, p.client, p.call.row, p.call.at)
       IN  /\ memory' = ans.table
           /\ Goes(o, Returned(p, IF ans.decision \in {"owned", "capacity"}
                                  THEN Outcome("ok", p.call.row, "durable",
                                               a.call = "claim" /\ p.call.cause = "claimed")
                                  ELSE Error(ans.decision, None)))
           /\ IF ans.table[a.v] = p.call.row THEN Mirrored(a.v, p.call.row)
              ELSE UNCHANGED proofs
    /\ UNCHANGED <<inPlay, clock, durable, failures>>

(* lookupProvenance: the mirror answers for a table that cannot, or tells  *)
(* of a binding the table has lost.                                        *)
MirrorLookup(o) ==
    /\ At(o, "memory") /\ Head(operation[o].todo).call = "lookup"
    /\ LET p   == operation[o]
           a   == Head(p.todo)
           ans == LookedUp(memory, a.v, p.client, a.scope, p.call.at)
       IN  /\ memory' = ans.table
           /\ Goes(o, IF ans.decision = "owned"
                      THEN IF p.call.cause = "unknown"
                           THEN OnTo(p, "restore", p.call.at, ans)
                           ELSE Returned(p, Outcome("ok", ans.row, "memory", FALSE))
                      ELSE IF ans.decision = "unknown"
                      THEN Returned(p, Error(p.call.cause, None))
                      ELSE Returned(p, Error(ans.decision, ans.row)))
    /\ UNCHANGED <<inPlay, clock, durable, failures, proofs>>

(* restoreDurableProvenance: the lost binding is claimed again under the   *)
(* operation that created it.                                              *)
RestoreStep(o, ok) ==
    /\ At(o, "restore")
    /\ LET p   == operation[o]
           a   == Head(p.todo)
           row == p.call.row
           ans == IF ok THEN ClaimedIn(durable, a.v, p.client, row.scope, row.by, p.call.at)
                  ELSE Unavailable
       IN  /\ Fails(ok)
           /\ durable' = ans.table
           /\ Goes(o, CASE Persistence(ans.decision) ->
                             Returned(p, Outcome("ok", row, "memory", FALSE))
                        [] ans.decision \in {"claimed", "owned"} ->
                             OnTo(p, "remember", p.call.at, ans)
                        [] OTHER -> Returned(p, Error(ans.decision, ans.row)))
    /\ UNCHANGED <<inPlay, clock, memory, proofs>>

(* claimProvenance: a value the upstream issued is reserved in the mirror. *)
MirrorClaim(o) ==
    /\ At(o, "memory") /\ Head(operation[o].todo).call = "claim"
    /\ LET p   == operation[o]
           a   == Head(p.todo)
           ans == ClaimedIn(memory, a.v, p.client, p.scope, o, p.call.at)
       IN  /\ memory' = ans.table
           /\ Goes(o, Returned(p, IF ans.decision \in {"claimed", "owned"}
                                  THEN Outcome("ok", ans.row, "memory", ans.decision = "claimed")
                                  ELSE Error(ans.decision, None)))
    /\ UNCHANGED <<inPlay, clock, durable, failures, proofs>>

(* commitProvenance, and what Commit makes of it after the durable answer. *)
CommitDecision(cause, decision) ==
    IF \/ decision = "committed"
       \/ cause = "committed" /\ decision \in {"unknown", "capacity"} THEN "ok"
    ELSE IF cause = "unavailable" /\ decision = "unknown" THEN "unavailable"
    ELSE decision

MirrorCommit(o) ==
    /\ At(o, "memory") /\ Head(operation[o].todo).call = "commit"
    /\ LET p   == operation[o]
           a   == Head(p.todo)
           ans == CommittedIn(memory, a.v, a.lease, p.call.at)
       IN  /\ memory' = ans.table
           /\ Goes(o, Returned(p, Error(CommitDecision(p.call.cause, ans.decision), None)))
           /\ IF ans.decision = "committed" THEN Confirm(a.v, a.lease, p.call.at, "memory")
              ELSE UNCHANGED proofs
    /\ UNCHANGED <<inPlay, clock, durable, failures>>

MirrorAbandon(o) ==
    /\ At(o, "memory") /\ Head(operation[o].todo).call = "abandon"
    /\ LET p   == operation[o]
           a   == Head(p.todo)
           ans == AbandonedIn(memory, a.v, a.lease, p.call.at)
           ok  == \/ ans.decision = "abandoned"
                  \/ p.call.cause = "abandoned" /\ ans.decision = "unknown"
       IN  /\ memory' = ans.table
           /\ Goes(o, Returned(p, Error(IF ok THEN "ok" ELSE ans.decision, None)))
    /\ UNCHANGED <<inPlay, clock, durable, failures, proofs>>

-----------------------------------------------------------------------------
(* The HTTP operation. *)

Turns(o, p) ==
    /\ Goes(o, ProceedOperation(p))
    /\ UNCHANGED <<inPlay, clock, durable, memory, failures, proofs>>

(* Identity fields are reconciled before continuity fields. *)
InOrder(S) == SetToSeq(S \cap Identities) \o SetToSeq(S \cap Issued)

(* BeginResolved: every value the client sent is resolved once. *)
BeginOperation(o, client, switch, sent) ==
    /\ operation[o].phase = "new"
    /\ Turns(o, [operation[o] EXCEPT
                   !.phase = "resolving", !.client = client, !.switch = switch,
                   !.evidence = sent,
                   !.todo = [i \in 1..Len(InOrder(sent)) |->
                               AskLookup(InOrder(sent)[i], None)]])

(* prepareRequestLease: the call, if any, that leases a value for scope s. *)
LeaseAsks(p, s, v) ==
    CASE p.switch -> IF p.source[v] = None THEN <<>> ELSE <<AskLookup(v, p.source[v])>>
      [] p.action[v] = "forward" -> <<AskLookup(v, s)>>
      [] p.action[v] \in {"claim", "adopt"} -> <<AskClaim(v, FALSE)>>
      [] OTHER -> <<>>

Carried(p) == {v \in Values : p.action[v] \in {"forward", "degraded", "claim", "adopt"}}

PrepareAttempt(o, s) ==
    LET p     == operation[o]
        fresh == p.switch \/ ~p.spent
        order == InOrder(Carried(p))
    IN  /\ p.phase = "admitted"
        /\ p.required \in {None, s}
        /\ Turns(o, [p EXCEPT
             !.phase = "preparing", !.scope = s, !.pin = fresh /\ Carried(p) # {},
             !.todo = IF fresh
                      THEN FlattenSeq([i \in 1..Len(order) |-> LeaseAsks(p, s, order[i])])
                      ELSE <<>>])

(* MarkDisclosed: request data may have crossed the physical boundary. *)
MarkDisclosed(o) ==
    LET p == operation[o]
    IN  /\ p.phase = "sending"
        /\ Turns(o, [Pinned(p) EXCEPT !.phase = "disclosing",
                                      !.disclosed = IF p.switch \/ Carried(p) = {} THEN @
                                                    ELSE @ \cup {p.scope},
                                      !.todo = AsksFor("commit", p.leases)])

(* AbandonBeforeDisclosure: the transport proved that nothing was sent. *)
AbandonBeforeDisclosure(o) ==
    LET p == operation[o]
    IN  /\ p.phase = "sending"
        /\ Turns(o, [p EXCEPT !.phase = "abandoning",
                              !.todo = AsksFor("abandon", Created(p.leases))])

(* The response or its next event introduces a value: it is reserved       *)
(* before its bytes are written.  A value the request itself carried stays *)
(* opaque to a switching operation.                                        *)
GateResponse(o, v) ==
    LET p == operation[o]
        known == p.switch /\ p.status[v] = "opaque"
    IN  /\ p.phase = "answered"
        /\ Turns(o, [p EXCEPT !.phase = "gating", !.shown = v,
                              !.todo = IF known THEN <<>>
                                       ELSE <<AskLookup(v, IF p.switch THEN None ELSE p.scope)>>])

(* The bytes reached the client, so the reservations are committed; an     *)
(* uncertain write leaves them pending.                                    *)
WriteVisible(o) ==
    LET p == operation[o]
    IN  /\ p.phase = "writing"
        /\ Turns(o, [p EXCEPT !.phase = "showing", !.todo = AsksFor("commit", p.leases)])

WriteUncertain(o) ==
    /\ operation[o].phase = "writing"
    /\ Turns(o, Ended)

(* The response was not shown: the request may be tried again. *)
RetryUnseen(o) ==
    /\ operation[o].phase = "answered" /\ operation[o].shown = None
    /\ Turns(o, Idle(operation[o]))

FinishOperation(o) ==
    /\ operation[o].phase \in {"admitted", "answered"}
    /\ Turns(o, Ended)

-----------------------------------------------------------------------------
(* The world around it. *)

ContinuityTick ==
    /\ clock < MaxContinuityClock
    /\ clock' = clock + 1
    /\ proofs' = [v \in Values |-> {q \in proofs[v] : q.until > clock + 1}]
    /\ UNCHANGED <<inPlay, durable, memory, operation, failures>>

(* Cleanup reconciles every row of the durable table. *)
CleanupBindings ==
    /\ durable' = [v \in Values |-> Reconciled(durable[v], clock)]
    /\ UNCHANGED <<inPlay, clock, memory, operation, failures, proofs>>

(* A restart loses the mirror and every request in flight. *)
RestartProcess ==
    /\ memory' = [v \in Values |-> None]
    /\ operation' = [o \in Operations |->
                       IF operation[o].phase = "new" THEN operation[o]
                       ELSE Ended]
    /\ proofs' = [v \in Values |-> {q \in proofs[v] : q.where # "memory"}]
    /\ UNCHANGED <<inPlay, clock, durable, failures>>

ContinuityInit ==
    /\ inPlay \in {S \in SUBSET Values : Cardinality(S) = MaxInPlay}
    /\ clock = 0
    /\ durable = [v \in Values |-> None]
    /\ memory = [v \in Values |-> None]
    /\ operation = [o \in Operations |-> FreshBinding]
    /\ failures = 0
    /\ proofs = [v \in Values |-> {}]

ContinuityNext ==
    \/ \E o \in Operations :
        \/ \E c \in Principals, switch \in BOOLEAN, sent \in SUBSET inPlay :
              BeginOperation(o, c, switch, sent)
        \/ \E s \in Scopes : PrepareAttempt(o, s)
        \/ MarkDisclosed(o)
        \/ AbandonBeforeDisclosure(o)
        \/ \E v \in Issued \cap inPlay : GateResponse(o, v)
        \/ WriteVisible(o)
        \/ WriteUncertain(o)
        \/ RetryUnseen(o)
        \/ FinishOperation(o)
        \/ \E ok \in BOOLEAN : DurableStep(o, ok)
        \/ \E ok \in BOOLEAN : RestoreStep(o, ok)
        \/ RememberStep(o)
        \/ MirrorLookup(o)
        \/ MirrorClaim(o)
        \/ MirrorCommit(o)
        \/ MirrorAbandon(o)
    \/ ContinuityTick
    \/ CleanupBindings
    \/ RestartProcess

ContinuitySpec == ContinuityInit /\ [][ContinuityNext]_continuityVars

-----------------------------------------------------------------------------
(* Once a table confirmed a value to a client at an account, it confirms   *)
(* it to no other client or account before that binding's deadline: not    *)
(* while SQLite is failing and the mirror answers, not between the steps   *)
(* of two calls, not for a call whose time is long past, and on disk not   *)
(* across a restart.  A confirmation is normally given by both tables, and *)
(* then neither can be moved to contradict it; one that only SQLite holds  *)
(* (the mirror was full, the process restarted, or the mirror's copy       *)
(* expired inside the call) does not bind the mirror during an outage.     *)
NoTakeover ==
    \A v \in Values : \A x, y \in proofs[v] :
        x.where = y.where => x.client = y.client /\ x.scope = y.scope

(* A request that must keep its account discloses the conversation values  *)
(* it carries to one account only, over all its attempts, even when the    *)
(* store could not lease them.                                             *)
ScopePinned ==
    \A o \in Operations : Cardinality(operation[o].disclosed) <= 1

\* A conversation's value keeps its owner, and a request the scope it was pinned to.
OwnershipHeld == NoTakeover /\ ScopePinned

-----------------------------------------------------------------------------
(* The inductive invariant. *)

Shaped(p) == p = [x \in DOMAIN FreshBinding |-> p[x]]

Working(p) == p.phase \notin {"new", "resolving", "admitted", "ended"}

(* Who asks, and what: until it is prepared an operation only looks values *)
(* up, so every claim is made for an account.                              *)
AsksSound(p) ==
    /\ p.phase \notin {"new", "ended"} => p.client \in Principals
    /\ p.phase \in {"new", "admitted", "sending", "answered", "writing", "ended"} =>
          p.todo = <<>>
    /\ p.phase = "resolving" => p.todo \in Seq({AskLookup(v, None) : v \in Values})
    /\ Working(p) => p.scope \in Scopes

(* A call never holds a time to come, and what it will copy is a live      *)
(* binding of its own client.                                              *)
CallSound(p, now) ==
    /\ p.todo = <<>> => p.call = NoCall
    /\ p.call.at \in 0..now
    /\ (p.call.step \in {"remember", "restore"} /\ Head(p.todo).v \in Values) =>
          p.call.row \in OwnershipRows /\ p.call.row.life # "tombstone"
          /\ p.call.row.client = p.client

(* What keeps a request at its account: once its values were disclosed it  *)
(* is required, and while they may be, they are pinned.                    *)
MustStay(p) == ~p.switch /\ Carried(p) # {}

ScopeKept(p) ==
    /\ Working(p) => p.required \in {None, p.scope}
    /\ p.disclosed # {} => /\ MustStay(p) /\ p.required # None
                           /\ p.disclosed = {p.required}
    /\ MustStay(p) /\ (p.spent \/ p.phase = "disclosing") => p.required # None
    /\ MustStay(p) /\ ~p.spent /\ p.phase \in {"preparing", "sending"} => p.pin
    /\ p.phase \in {"new", "resolving"} => p.disclosed = {} /\ ~p.spent

OperationSound(p, now) == Shaped(p) /\ AsksSound(p) /\ CallSound(p, now) /\ ScopeKept(p)

(* A confirmation that lasts is backed by a committed row that lasts longer. *)
Backed(q, row) ==
    /\ row # None /\ row.life = "committed"
    /\ row.client = q.client /\ row.scope = q.scope /\ row.until >= q.until

ProofBacked(v, q) ==
    /\ q.until \in Nat /\ q.until > clock
    /\ q.where \in {"disk", "memory"}
    /\ Backed(q, IF q.where = "memory" THEN memory[v] ELSE durable[v])

ContinuityInv ==
    /\ clock \in Nat /\ inPlay \subseteq Values
    /\ durable \in [Values -> OwnershipRows \cup {None}]
    /\ memory \in [Values -> OwnershipRows \cup {None}]
    /\ operation = [o \in Operations |-> operation[o]]
    /\ proofs = [v \in Values |-> proofs[v]]
    /\ \A o \in Operations : OperationSound(operation[o], clock)
    /\ \A v \in Values : \A q \in proofs[v] : ProofBacked(v, q)
=============================================================================

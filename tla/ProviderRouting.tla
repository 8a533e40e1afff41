--------------------------- MODULE ProviderRouting --------------------------
(***************************************************************************)
(* Which provider serves a request, and what one request leaves behind for *)
(* the next: the selector's eligibility rules and root/group strategies,   *)
(* the switch history of a request, sticky affinity, the registry of       *)
(* active requests, and the short-lived continuity seeds that carry vendor *)
(* isolation from an interrupted response to the client's next request.    *)
(*                                                                         *)
(* All requests have one continuity key (one client, one API type, sticky  *)
(* mode api_type).  A selection is one step; what happens between the      *)
(* slots it takes is the subject of ProviderLeases.  `lineage' is a ghost: *)
(* the provider whose bytes the client saw, then every provider entered by *)
(* failover, through all the requests that carried the conversation.       *)
(***************************************************************************)
EXTENDS Integers, Sequences, FiniteSets, SequencesExt

CONSTANTS Askers,       \* requests
          Routes,        \* providers
          Catalogues,    \* the configurations a behaviour may start with, by name
          NoRoute,       \* no provider, group, seed or context
          SwitchBudget,  \* MaxProviderSwitches
          FlakyRoutes,   \* the providers whose health changes
          SeedTTL, MaxTicks, MaxHealthChanges, MaxInFlight, MaxDepartures

ASSUME RoutingAssumption ==
  /\ {SwitchBudget, SeedTTL, MaxTicks, MaxHealthChanges, MaxInFlight,
      MaxDepartures} \subseteq Nat
  /\ SwitchBudget > 0

VARIABLES installed, up, flips, sticky, seed, ask, clockTick

routingVars == <<installed, up, flips, sticky, seed, ask, clockTick>>

Kinds == {"http", "websocket"}

Unborn == [phase |-> "new"]

\* What the store serves: providers, groups, policies and settings.
catalogue == Catalogues[installed]

RoutingInit ==
  /\ installed \in DOMAIN Catalogues
  /\ up = Routes /\ flips = 0
  /\ sticky = [k \in Kinds |-> NoRoute]
  /\ seed = NoRoute
  /\ ask = [c \in Askers |-> Unborn]
  /\ clockTick = 0

Row(p) == catalogue.rows[p]

-----------------------------------------------------------------------------
(* Vendor isolation.                                                       *)

VendorMatch(a, b) ==
  a # "" /\ b # "" /\ (a = "*" \/ b = "*" \/ a = b)

AnyVendorMatch(vendors, candidate) ==
  \E v \in vendors \ {"*"} : VendorMatch(v, candidate)

AllVendorsMatch(vendors, candidate) ==
  vendors # {} /\ candidate # "" /\ \A v \in vendors : VendorMatch(v, candidate)

scopeOrder == [none |-> 0, vendor |-> 1, any |-> 2]

StricterScope(a, b) == IF scopeOrder[a] < scopeOrder[b] THEN a ELSE b

NewContext(p) ==
  [origin |-> p, vendors |-> {Row(p).vendor} \ {""}, scope |-> Row(p).failoverScope]

ObserveProvider(ctx, p) ==
  [ctx EXCEPT !.vendors = @ \union ({Row(p).vendor} \ {""}),
              !.scope = StricterScope(@, Row(p).failoverScope)]

IsProviderSwitchAllowed(chain, p) ==
  chain # << >> => /\ Len(chain) - 1 < SwitchBudget
                   /\ ~Contains(chain, p)

IsFailoverVendorAllowed(ctx, p) ==
  ctx # NoRoute =>
    /\ ctx.scope # "none"
    /\ ctx.scope = "vendor" => AnyVendorMatch(ctx.vendors, Row(p).vendor)
    /\ Row(p).acceptFailover # "none"
    /\ Row(p).acceptFailover = "vendor" => AllVendorsMatch(ctx.vendors, Row(p).vendor)

-----------------------------------------------------------------------------
(* Routing policies.                                                       *)

RankOf == [none |-> 1, prefix |-> 2, exact |-> 3]

Matches(policy, m) ==
  policy.enabled /\ (policy.match = "none" \/ m \in policy.models)

Outranks(a, b) ==
  \/ RankOf[a.match] > RankOf[b.match]
  \/ RankOf[a.match] = RankOf[b.match] /\ a.length > b.length

resolveRoutingPolicy(m) ==
  LET matching == {x \in catalogue.policies : Matches(x, m)}
  IN {x \in matching : \A y \in matching : ~Outranks(y, x)}

allowsProvider(m, p) ==
  \A policy \in resolveRoutingPolicy(m) :
    IF policy.target # NoRoute
    THEN p = policy.target
    ELSE /\ policy.groups # {} => Row(p).group \in policy.groups
         /\ policy.vendors # {} => Row(p).vendor \in policy.vendors

(* Whether a request without a model would need one to be routed.          *)
HiddenModelDemand(q) ==
  q.model = "" /\ \E x \in catalogue.policies : x.enabled /\ x.match # "none"

-----------------------------------------------------------------------------
(* Eligibility.                                                            *)

GroupEnabled(p) ==
  Row(p).group # NoRoute => catalogue.groups[Row(p).group].enabled

routeTransitionAllows(q, p) ==
  /\ IsProviderSwitchAllowed(q.chain, p)
  /\ q.mode = "failover" => IsFailoverVendorAllowed(q.ctx, p)

(* The scope of the first constraint that refuses p, or "allowed".  A      *)
(* "route" refusal holds for every request, a "request" one for this only. *)
(* `checks' names the optional constraints in force.                       *)
evaluateProvider(q, p, checks) ==
  IF ~Row(p).enabled \/ q.kind \notin Row(p).transports THEN "route"
  ELSE IF "routing" \in checks /\ ~allowsProvider(q.model, p) THEN "request"
  ELSE IF ~GroupEnabled(p) \/ ~Row(p).usable THEN "route"
  ELSE IF "authority" \in checks /\ q.required # NoRoute /\ Row(p).authority # q.required
       THEN "request"
  ELSE IF p \in q.denied THEN "request"
  ELSE IF "health" \in checks /\ p \notin up THEN "route"
  ELSE IF "transition" \in checks /\ ~routeTransitionAllows(q, p) THEN "request"
  ELSE "allowed"

selectionEligibility == {"routing", "authority", "health", "transition"}

existingRouteEligibility == {"routing", "authority", "health"}

AllowsProvider(q, p) == evaluateProvider(q, p, selectionEligibility) = "allowed"

Holders(p) == {c \in Askers : /\ ask[c].phase \notin {"new", "looked", "done"}
                               /\ ask[c].held /\ ask[c].provider = p}

HasSlot(p, released) ==
  Row(p).limit = 0 \/ Cardinality(Holders(p) \ released) < Row(p).limit

-----------------------------------------------------------------------------
(* Strategies.  An operator returns the set of its possible results: the   *)
(* random and the weighted strategy may return any candidate.              *)

SelectByPriority(S, priority, id) ==
  {x \in S : \A y \in S : \/ priority[x] < priority[y]
                          \/ priority[x] = priority[y] /\ id[x] <= id[y]}

SelectProvider(S, strategy) ==
  IF strategy = "priority"
  THEN SelectByPriority(S, [p \in S |-> Row(p).priority], [p \in S |-> Row(p).id])
  ELSE S

RootOf(p) == IF Row(p).group = NoRoute THEN p ELSE Row(p).group

rootPriority(x) ==
  IF x \in Routes THEN Row(x).priority ELSE catalogue.groups[x].priority

rootID(x) == IF x \in Routes THEN Row(x).id ELSE catalogue.groups[x].id

selectRootCandidate(S) ==
  IF catalogue.strategy = "priority"
  THEN SelectByPriority(S, [x \in S |-> rootPriority(x)], [x \in S |-> rootID(x)])
  ELSE S

MutSelectFromGroup(q, members, strategy, released) ==
  {IF HasSlot(p, released) THEN p ELSE NoRoute : p \in SelectProvider(members, strategy)}

selectFromGroup(q, members, strategy, released) ==
  LET pick[S \in SUBSET members] ==
        IF S = {} THEN {NoRoute}
        ELSE UNION {IF AllowsProvider(q, p) /\ HasSlot(p, released)
                    THEN {p} ELSE pick[S \ {p}] : p \in SelectProvider(S, strategy)}
  IN pick[members]

selectFromRootCandidate(q, x, members, released) ==
  IF x \in Routes
  THEN {IF HasSlot(x, released) THEN x ELSE NoRoute}
  ELSE selectFromGroup(q, members, catalogue.groups[x].strategy, released)

buildRootCandidates(q, excluded) ==
  {p \in Routes \ excluded : AllowsProvider(q, p)}

selectExcluding(q, excluded, released) ==
  LET members == buildRootCandidates(q, excluded)
      pick[S \in SUBSET {RootOf(p) : p \in members}] ==
        IF S = {} THEN {NoRoute}
        ELSE UNION {UNION {IF p = NoRoute THEN pick[S \ {x}] ELSE {p} :
                             p \in selectFromRootCandidate(
                                     q, x, {m \in members : RootOf(m) = x}, released)} :
                    x \in selectRootCandidate(S)}
  IN pick[{RootOf(p) : p \in members}]

-----------------------------------------------------------------------------
(* The seed store.                                                         *)

seedExpired == clockTick - seed.at > SeedTTL

SeedLive == seed # NoRoute /\ ~seedExpired

Candidate == [id |-> seed.id, origin |-> seed.ctx.origin,
              purpose |-> seed.purpose, excluded |-> seed.excluded]

MutConsumed(id) ==
  IF SeedLive THEN seed ELSE NoRoute

Consumed(id) ==
  IF SeedLive /\ seed.id # id THEN seed ELSE NoRoute

Consumable(id) == SeedLive /\ seed.id = id

StoreSeed(s) ==
  seed' = IF SeedLive /\ seed.at > s.at THEN seed ELSE s

visibleContinuitySeed(c, q, purpose, excluded) ==
  [id |-> c, purpose |-> purpose, excluded |-> excluded, ctx |-> q.ctx,
   at |-> clockTick, lineage |-> q.lineage]

CleanupExpired ==
  /\ seed # NoRoute /\ seedExpired
  /\ seed' = NoRoute
  /\ UNCHANGED <<installed, up, flips, sticky, ask, clockTick>>

-----------------------------------------------------------------------------
(* The request's switch tracker.                                           *)

InFlight == {c \in Askers : ask[c].phase \notin {"new", "done"}}

(* A request arrives and looks for a live seed of its continuity key.      *)
Begin(c, profile) ==
  LET q == profile @@
           [phase |-> "looked", mode |-> "initial", chain |-> << >>, ctx |-> NoRoute,
            candidate |-> NoRoute, excluded |-> {}, provider |-> NoRoute,
            source |-> "none", held |-> FALSE, listed |-> FALSE, received |-> FALSE,
            seen |-> FALSE, gone |-> FALSE, outcome |-> "none", used |-> NoRoute, lineage |-> << >>]
      ready == q.model # "" \/ ~HiddenModelDemand(q)
  IN /\ ask[c].phase = "new"
     /\ Cardinality(InFlight) < MaxInFlight
     /\ ask' = [ask EXCEPT ![c] = IF ready /\ SeedLive
                                  THEN [q EXCEPT !.candidate = Candidate] ELSE q]
     /\ seed' = IF ready /\ seed # NoRoute /\ seedExpired THEN NoRoute ELSE seed
     /\ UNCHANGED <<installed, up, flips, sticky, clockTick>>

RecoveryPending(q) ==
  q.candidate # NoRoute /\ q.candidate.purpose = "account_recovery" /\ q.switchAccount

(* A recovery seed is consumed before the selection: the failed account is *)
(* excluded and the selection is already a failover.                       *)
ConsumeAccountRecoverySeed(c) ==
  LET q == ask[c] IN
  /\ q.phase = "looked" /\ RecoveryPending(q)
  /\ seed' = Consumed(q.candidate.id)
  /\ ask' = [ask EXCEPT ![c] =
               IF Consumable(q.candidate.id)
               THEN [q EXCEPT !.candidate = NoRoute, !.excluded = seed.excluded,
                              !.ctx = seed.ctx, !.mode = "failover",
                              !.used = seed.id, !.lineage = seed.lineage]
               ELSE [q EXCEPT !.candidate = NoRoute]]
  /\ UNCHANGED <<installed, up, flips, sticky, clockTick>>

UsesContinuity(source) == source \in {"preferred", "sticky", "active"}

Attaches(q) ==
  /\ q.chain = << >> /\ q.candidate # NoRoute
  /\ UsesContinuity(q.source)
  /\ q.provider = q.candidate.origin

(* recordSelection for the selected provider p: switch history, the seed   *)
(* attached on the first selection, the failover context.                  *)
Recorded(q, p) ==
  LET attached == Attaches(q) /\ Consumable(q.candidate.id)
      chained == IF q.chain # << >> /\ Last(q.chain) = p
                 THEN q.chain ELSE Append(q.chain, p)
  IN [q EXCEPT
        !.chain = chained,
        !.ctx = CASE attached -> seed.ctx
                  [] q.mode = "failover" /\ ~attached -> ObserveProvider(@, p)
                  [] OTHER -> @,
        !.candidate = IF q.chain = << >> /\ ~attached THEN NoRoute ELSE @,
        !.used = IF attached THEN seed.id ELSE @,
        !.lineage = CASE attached -> seed.lineage
                      [] q.mode = "failover" /\ ~attached -> Append(@, p)
                      [] OTHER -> @,
        !.mode = "initial"]

markClientVisible(q) ==
  IF q.ctx # NoRoute THEN q
  ELSE [q EXCEPT !.ctx = NewContext(q.provider), !.lineage = <<q.provider>>]

-----------------------------------------------------------------------------
(* The registry of active requests.  Registering again for another         *)
(* provider hands the slot over; an entry that leaves gives it back.       *)

Registered(q, p) ==
  [q EXCEPT !.phase = "serving", !.provider = p, !.held = TRUE, !.listed = TRUE,
            !.received = FALSE]

Removed(q) == [q EXCEPT !.listed = FALSE, !.held = FALSE]

-----------------------------------------------------------------------------
(* Selection.                                                              *)

PreferredRoute(q) ==
  /\ q.required # NoRoute
  /\ q.preferred # NoRoute /\ q.preferred \notin q.excluded
  /\ AllowsProvider(q, q.preferred) /\ HasSlot(q.preferred, {})

StickyServes(q, p) ==
  p # NoRoute /\ AllowsProvider(q, p) /\ HasSlot(p, {})

(* Only a refusal that holds for every request, or a full provider, drops  *)
(* the affinity.                                                           *)
StickyAfter(q, p) ==
  IF p = NoRoute \/ StickyServes(q, p) \/ evaluateProvider(q, p, selectionEligibility) = "request"
  THEN p ELSE NoRoute

(* Providers the authority admits and providers the policy admits are both *)
(* free, and none is in both: the client is told of a conflict instead of  *)
(* an outage.                                                              *)
ContinuityRoutingConflict(q) ==
  LET free == {p \in Routes : evaluateProvider(q, p, {"health", "transition"}) = "allowed" /\ HasSlot(p, {})}
      byAuthority == {p \in free : Row(p).authority = q.required}
      byPolicy == {p \in free : allowsProvider(q.model, p)}
  IN /\ q.required # NoRoute /\ q.excluded = {}
     /\ resolveRoutingPolicy(q.model) # {}
     /\ byAuthority # {} /\ byPolicy # {} /\ byAuthority \intersect byPolicy = {}

(* What is remembered of a request that is over.                           *)
Ended(q, outcome) ==
  [phase |-> "done", outcome |-> outcome, listed |-> FALSE, source |-> "none",
   gone |-> q.gone, provider |-> NoRoute, used |-> q.used, lineage |-> << >>]

Chosen(q, p, source, phase) ==
  IF p = NoRoute
  THEN Ended(q, IF ContinuityRoutingConflict(q) THEN "conflict" ELSE "no_provider")
  ELSE [q EXCEPT !.phase = phase, !.provider = p, !.source = source, !.held = TRUE]

(* The active registry is only asked when the selection was not already    *)
(* continuity.                                                             *)
AsksActive(q) == q.kind = "websocket" \/ ~q.codex \/ ~q.switchAccount

SelectInitial(c) ==
  LET q == ask[c]
      stuck == sticky[q.kind]
  IN /\ q.phase = "looked" /\ ~RecoveryPending(q) /\ q.excluded = {}
     /\ IF PreferredRoute(q)
        THEN /\ ask' = [ask EXCEPT ![c] = Chosen(q, q.preferred, "preferred", "recording")]
             /\ sticky' = sticky
        ELSE /\ sticky' = [sticky EXCEPT ![q.kind] = StickyAfter(q, stuck)]
             /\ IF StickyServes(q, stuck)
                THEN ask' = [ask EXCEPT ![c] = Chosen(q, stuck, "sticky", "recording")]
                ELSE \E p \in selectExcluding(q, {}, {}) :
                       ask' = [ask EXCEPT ![c] =
                                 Chosen(q, p, "strategy",
                                        IF AsksActive(q) THEN "asking" ELSE "recording")]
     /\ UNCHANGED <<installed, up, flips, seed, clockTick>>

(* With exclusions the selection is a reservation that is activated.       *)
SelectInitialWithExclusions(c) ==
  LET q == ask[c] IN
  /\ q.phase = "looked" /\ q.excluded # {}
  /\ \E p \in selectExcluding(q, q.excluded, {}) :
       ask' = [ask EXCEPT ![c] = Chosen(q, p, "alternate", "recording")]
  /\ UNCHANGED <<installed, up, flips, sticky, seed, clockTick>>

ActiveLeases == {c \in Askers : /\ ask[c].phase # "new"
                                 /\ ask[c].listed /\ ask[c].received /\ ask[c].held}

(* Some active request of the key is followed if its provider may still    *)
(* serve this one; the first lease is released after the second is taken.  *)
SelectActive(c) ==
  LET q == ask[c] IN
  /\ q.phase = "asking"
  /\ IF ActiveLeases = {}
     THEN ask' = [ask EXCEPT ![c].phase = "recording"]
     ELSE \E d \in ActiveLeases :
            LET p == ask[d].provider IN
            ask' = [ask EXCEPT ![c] =
                      IF evaluateProvider(q, p, existingRouteEligibility) = "allowed" /\ HasSlot(p, {})
                      THEN [q EXCEPT !.phase = "recording", !.provider = p,
                                     !.source = "active"]
                      ELSE [q EXCEPT !.phase = "recording"]]
  /\ UNCHANGED <<installed, up, flips, sticky, seed, clockTick>>

(* The selection is recorded and the request registered as active.         *)
RecordSelection(c) ==
  LET q == ask[c] IN
  /\ q.phase = "recording"
  /\ seed' = IF Attaches(q) THEN Consumed(q.candidate.id) ELSE seed
  /\ ask' = [ask EXCEPT ![c] = Registered(Recorded(q, q.provider), q.provider)]
  /\ UNCHANGED <<installed, up, flips, sticky, clockTick>>

switchMode(q) == IF q.ctx # NoRoute THEN "failover" ELSE "replacement"

(* The attempt failed before the client saw a byte: an alternate is taken, *)
(* as a failover when the conversation was visible before, else as a       *)
(* replacement.  HTTP holds its slot while it reserves; WebSocket has      *)
(* given it back.  Registering hands the slot over.                        *)
SwitchProvider(c) ==
  LET q == [ask[c] EXCEPT !.mode = switchMode(ask[c])]
      excluded == q.excluded \union {q.provider}
      released == IF q.kind = "websocket" THEN {c} ELSE {}
  IN /\ ask[c].phase = "serving"
     /\ \E p \in IF q.gone THEN {NoRoute} ELSE selectExcluding(q, excluded, released) :
          ask' = [ask EXCEPT ![c] =
                    IF p = NoRoute THEN [@ EXCEPT !.phase = "leaving", !.outcome = "failed",
                                                  !.chain = << >>, !.excluded = {}]
                    ELSE [Registered(Recorded(q, p), p) EXCEPT
                            !.source = "alternate", !.excluded = excluded]]
     /\ UNCHANGED <<installed, up, flips, sticky, seed, clockTick>>

-----------------------------------------------------------------------------
(* The response, and what it leaves behind.                                *)

(* The switch history is not read any more once a byte is out.             *)
FirstByte(c) ==
  /\ ask[c].phase = "serving"
  /\ ask' = [ask EXCEPT ![c] = [@ EXCEPT !.phase = "visible", !.seen = TRUE,
                                         !.received = ask[c].listed, !.chain = << >>,
                                         !.excluded = {}, !.candidate = NoRoute,
                                         !.source = "none"]]
  /\ UNCHANGED <<installed, up, flips, sticky, seed, clockTick>>

Departed == {c \in Askers : ask[c].phase # "new" /\ ask[c].gone}

ClientLeaves(c) ==
  /\ ask[c].phase \in {"serving", "visible"} /\ ~ask[c].gone
  /\ Cardinality(Departed) < MaxDepartures
  /\ ask' = [ask EXCEPT ![c].gone = TRUE]
  /\ UNCHANGED <<installed, up, flips, sticky, seed, clockTick>>

WritesSticky(q) ==
  q.outcome # "failed" \/ (IF q.kind = "http" THEN ~q.codex ELSE ~q.switchAccount)

Rebound(q) == [sticky EXCEPT ![q.kind] = IF WritesSticky(q) THEN q.provider ELSE @]

Recoverable(q) == q.kind = "websocket" /\ q.switchAccount /\ q.outcome = "failed"

(* The visible response ends.  HTTP rebinds the affinity here; a WebSocket *)
(* that may switch accounts publishes its recovery seed before the close.  *)
Settle(c, outcome) ==
  LET q == [markClientVisible(ask[c]) EXCEPT !.phase = "leaving", !.outcome = outcome] IN
  /\ ask[c].phase = "visible"
  /\ ask[c].gone => outcome = "client"
  /\ outcome = "client" => ask[c].gone
  /\ ask' = [ask EXCEPT ![c] = q]
  /\ sticky' = IF q.kind = "http" THEN Rebound(q) ELSE sticky
  /\ IF Recoverable(q)
     THEN StoreSeed(visibleContinuitySeed(c, q, "account_recovery", {q.provider}))
     ELSE seed' = seed
  /\ UNCHANGED <<installed, up, flips, clockTick>>

(* The entry leaves the registry and the slot goes back, unless the        *)
(* orphan sweep has done both.                                             *)
Unregister(c) ==
  /\ ask[c].phase = "leaving"
  /\ ask' = [ask EXCEPT ![c] =
               IF ask[c].seen
               THEN [Removed(@) EXCEPT !.phase = "publishing"]
               ELSE Ended(@, "over")]
  /\ UNCHANGED <<installed, up, flips, sticky, seed, clockTick>>

Publishes(q) == q.outcome = "failed" /\ ~Recoverable(q)

Publish(c) ==
  LET q == ask[c] IN
  /\ q.phase = "publishing"
  /\ ask' = [ask EXCEPT ![c] = Ended(q, "over")]
  /\ sticky' = IF q.kind = "websocket" THEN Rebound(q) ELSE sticky
  /\ IF Publishes(q) THEN StoreSeed(visibleContinuitySeed(c, q, "ordinary", {}))
     ELSE seed' = seed
  /\ UNCHANGED <<installed, up, flips, clockTick>>

Orphans == {c \in Askers : ask[c].phase # "new" /\ ask[c].listed /\ ask[c].gone}

CleanupStale ==
  /\ Orphans # {}
  /\ ask' = [c \in Askers |-> IF c \in Orphans THEN Removed(ask[c]) ELSE ask[c]]
  /\ UNCHANGED <<installed, up, flips, sticky, seed, clockTick>>

(* The circuit of a route opens or closes; HealthCircuit says when.        *)
HealthChanges(p) ==
  /\ flips < MaxHealthChanges
  /\ flips' = flips + 1
  /\ up' = IF p \in up THEN up \ {p} ELSE up \union {p}
  /\ UNCHANGED <<installed, sticky, seed, ask, clockTick>>

Tick ==
  /\ clockTick < MaxTicks
  /\ clockTick' = clockTick + 1
  /\ UNCHANGED <<installed, up, flips, sticky, seed, ask>>

RoutingNext ==
  \/ \E c \in Askers :
       \/ \E profile \in catalogue.profiles : Begin(c, profile)
       \/ ConsumeAccountRecoverySeed(c) \/ SelectInitial(c)
       \/ SelectInitialWithExclusions(c) \/ SelectActive(c) \/ RecordSelection(c)
       \/ SwitchProvider(c) \/ FirstByte(c) \/ ClientLeaves(c)
       \/ \E outcome \in {"ok", "failed", "client"} : Settle(c, outcome)
       \/ Unregister(c) \/ Publish(c)
  \/ CleanupExpired \/ CleanupStale \/ Tick
  \/ \E p \in FlakyRoutes : HealthChanges(p)

RoutingSpec == RoutingInit /\ [][RoutingNext]_routingVars

-----------------------------------------------------------------------------
(* Properties.                                                             *)

Born == {c \in Askers : ask[c].phase # "new"}

Lineages == {ask[c].lineage : c \in Born} \union
            (IF seed = NoRoute THEN {} ELSE {seed.lineage})

MayFollow(before, p) ==
  /\ \A b \in before : Row(b).failoverScope # "none"
  /\ (\E b \in before : Row(b).failoverScope = "vendor") =>
       \E b \in before : Row(b).vendor # "*" /\ VendorMatch(Row(b).vendor, Row(p).vendor)
  /\ Row(p).acceptFailover # "none"
  /\ Row(p).acceptFailover = "vendor" =>
       LET vendors == {Row(b).vendor : b \in before} \ {""}
       IN vendors # {} /\ \A v \in vendors : VendorMatch(v, Row(p).vendor)

(* Once a client has seen bytes of a provider, the failovers of that       *)
(* conversation respect every provider it went through, in whatever        *)
(* requests: none is left that forbids leaving, none entered that refuses, *)
(* and vendors stay apart as configured.  A seed carries the conversation  *)
(* to one request only.                                                    *)
FailoverIsolated ==
  /\ \A L \in Lineages : \A j \in 2..Len(L) : MayFollow({L[i] : i \in 1..(j - 1)}, L[j])
  /\ \A c, d \in Born : c # d /\ ask[c].used # NoRoute => ask[c].used # ask[d].used

RootBefore(p, o) ==
  LET x == RootOf(p) y == RootOf(o) IN
  \/ catalogue.strategy # "priority"
  \/ rootPriority(x) < rootPriority(y)
  \/ rootPriority(x) = rootPriority(y) /\ rootID(x) <= rootID(y)

MemberBefore(p, o) ==
  RootOf(p) = RootOf(o) /\ p # o =>
    \/ catalogue.groups[RootOf(p)].strategy # "priority"
    \/ Row(p).priority < Row(o).priority
    \/ Row(p).priority = Row(o).priority /\ Row(p).id <= Row(o).id

(* Without continuity a request gets the provider that the priorities put  *)
(* first among those that may serve it and have a free slot, and is        *)
(* refused only when there is none.                                        *)
SelectsBest ==
  [][\A c \in Askers :
       (/\ ask[c].phase = "looked" /\ ask'[c].phase # "looked"
        /\ ask'[c].source \in {"none", "strategy", "alternate"}) =>
         LET open == {p \in Routes \ ask[c].excluded :
                        AllowsProvider(ask[c], p) /\ HasSlot(p, {})}
             chosen == ask'[c].provider
         IN IF chosen = NoRoute THEN open = {}
            ELSE /\ chosen \in open
                 /\ \A o \in open : RootBefore(chosen, o) /\ MemberBefore(chosen, o)]_routingVars
=============================================================================

----------------------------- MODULE CookieJars -----------------------------
(***************************************************************************)
(* The provider cookie jars of the Codex gateway.  A jar belongs to one    *)
(* client, is named by an opaque handle the client returns, and keeps the  *)
(* cookies of each upstream authority.  A request leases its jar, gathers  *)
(* the cookies of its responses in overlays, and merges at most one        *)
(* overlay, in one transaction that also expires, evicts and reclaims.     *)
(* Leases are process memory; the jars are in SQLite.                      *)
(*                                                                         *)
(* A jar's row, its identity and its handle are one value, drawn fresh; a  *)
(* cookie is its key and the client whose response set it.                 *)
(***************************************************************************)
EXTENDS Integers, FiniteSets, FiniteSetsExt

CONSTANTS Requests, Clients, Jars, Authorities, CookieKeys,
          NoJar,
          IdleTTL, AbsoluteTTL, RefreshWindow, CookieTTL, OrphanGrace,
          MaxCookiesPerAuthority, MaxCookiesPerJar, MaxAuthoritiesPerJar,
          MaxBindings, MaxEntries,
          MaxClock

(* The rows of the three tables.                                            *)
Bindings == [owner : Clients, access : Nat, idle : Nat, absolute : Nat, returned : BOOLEAN]
AuthorityRows == [access : Nat, unreachable : Nat \cup {NoJar}]
Entries == [expires : Nat, access : Nat, by : Clients]

ASSUME CookieAssumption ==
  /\ {IdleTTL, AbsoluteTTL, CookieTTL, MaxCookiesPerAuthority, MaxCookiesPerJar,
      MaxAuthoritiesPerJar, MaxBindings, MaxEntries, RefreshWindow, OrphanGrace}
       \subseteq Nat \ {0}
  /\ RefreshWindow <= IdleTTL /\ IdleTTL <= AbsoluteTTL
  /\ MaxClock \in Nat
  /\ \A S \in {Requests, Jars, Authorities, CookieKeys} : IsFiniteSet(S)
  /\ NoJar \notin Bindings /\ NoJar \notin AuthorityRows /\ NoJar \notin Entries

VARIABLES jarDb,     \* handles, authorities and entries, as committed
          request,   \* each request's cookie state
          leases,    \* references of each jar, in memory
          drawn,     \* jar identities drawn so far
          now

cookieVars == <<jarDb, request, leases, drawn, now>>

Slots == Jars \X Authorities \X CookieKeys

Closed == [state |-> "closed"]

CookieInit ==
  /\ jarDb = [handles |-> [j \in Jars |-> NoJar],
              authorities |-> [p \in Jars \X Authorities |-> NoJar],
              entries |-> [s \in Slots |-> NoJar]]
  /\ request = [r \in Requests |-> [state |-> "new"]]
  /\ leases = [j \in Jars |-> 0]
  /\ drawn = {}
  /\ now = 0

Least(a, b) == IF a <= b THEN a ELSE b
Most(a, b) == IF a >= b THEN a ELSE b

MutActive(j) == FALSE

Active(j) == leases[j] > 0

Filled(d, slots) == {s \in slots : d.entries[s] # NoJar}
JarSlots(j) == {s \in Slots : s[1] = j}
AuthoritySlots(j, a) == {s \in Slots : s[1] = j /\ s[2] = a}
Bound(d) == {j \in Jars : d.handles[j] # NoJar}
KnownAuthorities(d, j) == {a \in Authorities : d.authorities[<<j, a>>] # NoJar}

-----------------------------------------------------------------------------
(* Deleting and evicting, inside a transaction.                            *)

DeleteEntries(d, slots) ==
  [d EXCEPT !.entries = [s \in Slots |-> IF s \in slots THEN NoJar ELSE @[s]]]

DeleteJars(d, jars) ==
  [handles |-> [j \in Jars |-> IF j \in jars THEN NoJar ELSE d.handles[j]],
   authorities |-> [p \in Jars \X Authorities |->
                      IF p[1] \in jars THEN NoJar ELSE d.authorities[p]],
   entries |-> [s \in Slots |-> IF s[1] \in jars THEN NoJar ELSE d.entries[s]]]

DeleteAuthorities(d, pairs) ==
  [d EXCEPT !.authorities = [p \in Jars \X Authorities |->
                               IF p \in pairs THEN NoJar ELSE @[p]],
            !.entries = [s \in Slots |->
                           IF <<s[1], s[2]>> \in pairs THEN NoJar ELSE @[s]]]

DeleteEmptyAuthorities(d, jars) ==
  DeleteAuthorities(d, {p \in jars \X Authorities :
                          Filled(d, AuthoritySlots(p[1], p[2])) = {}})

Expired(row) == row.idle <= now \/ row.absolute <= now

\* expired cookies, then expired jars and long unreachable authorities that
\* no request leases, then authorities without cookies
CleanupStale(d) ==
  LET fresh == DeleteEntries(d, {s \in Filled(d, Slots) : d.entries[s].expires <= now})
      live == DeleteJars(fresh, {j \in Bound(fresh) : Expired(fresh.handles[j]) /\ ~Active(j)})
      orphans == {p \in Jars \X Authorities :
                    /\ live.authorities[p] # NoJar
                    /\ live.authorities[p].unreachable # NoJar
                    /\ live.authorities[p].unreachable <= now - OrphanGrace
                    /\ ~Active(p[1])}
  IN DeleteEmptyAuthorities(DeleteAuthorities(live, orphans), Jars)

\* the least recently sent cookies beyond the maximum; ties either way
EvictEntries(d, slots, maximum) ==
  LET filled == Filled(d, slots)
      overflow == Cardinality(filled) - maximum
  IN IF overflow <= 0 THEN {d}
     ELSE {DeleteEntries(d, out) :
             out \in {s \in kSubset(overflow, filled) :
                        \A x \in s, y \in filled \ s :
                          d.entries[x].access <= d.entries[y].access}}

EvictAuthorities(d, j) ==
  LET known == KnownAuthorities(d, j)
      overflow == Cardinality(known) - MaxAuthoritiesPerJar
  IN IF overflow <= 0 THEN {d}
     ELSE {DeleteAuthorities(d, {j} \X out) :
             out \in {s \in kSubset(overflow, known) :
                        \A x \in s, y \in known \ s :
                          d.authorities[<<j, x>>].access <= d.authorities[<<j, y>>].access}}

EnforceJarCapacity(d, j, a) ==
  UNION {UNION {EvictAuthorities(DeleteEmptyAuthorities(e2, {j}), j) :
                  e2 \in EvictEntries(e1, JarSlots(j), MaxCookiesPerJar)} :
           e1 \in EvictEntries(d, AuthoritySlots(j, a), MaxCookiesPerAuthority)}

WithinGlobal(d) ==
  /\ Cardinality(Bound(d)) <= MaxBindings
  /\ Cardinality(Filled(d, Slots)) <= MaxEntries

\* empty jars first, then jars whose handle never came back, then the least
\* recently used
ReclaimedBefore(d, x, y) ==
  LET rank(j) == <<Filled(d, JarSlots(j)) # {}, d.handles[j].returned>>
  IN \/ ~rank(x)[1] /\ rank(y)[1]
     \/ rank(x)[1] = rank(y)[1] /\ ~rank(x)[2] /\ rank(y)[2]
     \/ rank(x) = rank(y) /\ d.handles[x].access < d.handles[y].access

\* jars are deleted in that order until both limits hold; when they still do
\* not, the transaction is rolled back
ReclaimCapacity(d, current) ==
  LET candidates == {j \in Bound(d) \ {current} : ~Active(j)}
      InOrder(s) == \A x \in s, y \in candidates \ s : ~ReclaimedBefore(d, y, x)
      Needed(s) == s = {} \/ \E last \in s :
                     /\ \A x \in s : ~ReclaimedBefore(d, last, x)
                     /\ ~WithinGlobal(DeleteJars(d, s \ {last}))
  IN {DeleteJars(d, s) : s \in {s \in SUBSET candidates :
        InOrder(s) /\ Needed(s) /\ WithinGlobal(DeleteJars(d, s))}}

-----------------------------------------------------------------------------
(* Merging an overlay.  A mutation is a cookie to set or a tombstone.      *)

Mutations == {"set", "gone", "expired"}

ApplyMutations(d, j, a, changes, client) ==
  LET set == {k \in DOMAIN changes : changes[k] = "set"}
      row == [access |-> IF d.authorities[<<j, a>>] = NoJar THEN now
                         ELSE d.authorities[<<j, a>>].access,
              unreachable |-> IF d.authorities[<<j, a>>] = NoJar THEN NoJar
                              ELSE d.authorities[<<j, a>>].unreachable]
      entry == [expires |-> now + CookieTTL, access |-> now, by |-> client]
  IN [d EXCEPT !.authorities[<<j, a>>] = IF set = {} THEN @ ELSE row,
               !.entries = [s \in Slots |->
                              IF s[1] # j \/ s[2] # a \/ s[3] \notin DOMAIN changes THEN @[s]
                              ELSE IF s[3] \in set THEN entry ELSE NoJar]]

MergeTransaction(d, j, a, changes, client) ==
  IF d.handles[j] = NoJar THEN {}
  ELSE UNION {ReclaimCapacity(e, j) :
                e \in EnforceJarCapacity(ApplyMutations(d, j, a, changes, client), j, a)}

NewBinding(client) ==
  [owner |-> client, access |-> now, idle |-> now + IdleTTL,
   absolute |-> now + AbsoluteTTL, returned |-> FALSE]

CreateJar(d, j, a, changes, client) ==
  LET clean == CleanupStale(d)
  IN MergeTransaction([clean EXCEPT !.handles[j] = NewBinding(client)], j, a, changes, client)

-----------------------------------------------------------------------------
(* A request.                                                              *)

NoOverlays == [a \in Authorities |-> [k \in {} |-> "set"]]

Opened(r, client, j, persisted, refresh) ==
  request' = [request EXCEPT ![r] =
    [state |-> "open", client |-> client, jar |-> j, persisted |-> persisted,
     publish |-> refresh, reserved |-> FALSE, held |-> persisted,
     overlays |-> NoOverlays, sent |-> {}, picked |-> NoJar]]

Owned(client, j) == jarDb.handles[j].owner = client

JarUsable(client, j) ==
  jarDb.handles[j] # NoJar /\ Owned(client, j) /\ ~Expired(jarDb.handles[j])

Remaining(row) == Least(row.idle, row.absolute) - now

Touched(row) ==
  LET access == Most(row.access, now)
  IN [row EXCEPT !.access = access, !.returned = TRUE,
                 !.idle = Least(row.absolute, Most(row.idle, access + IdleTTL))]

\* the handle names a live jar of this client: the lease is taken inside the
\* transaction that renews it
BeginReuse(r, client, j) ==
  /\ request[r].state = "new"
  /\ JarUsable(client, j)
  /\ jarDb' = [jarDb EXCEPT !.handles[j] = Touched(@)]
  /\ leases' = [leases EXCEPT ![j] = @ + 1]
  /\ Opened(r, client, j, TRUE, Remaining(jarDb.handles[j]) <= RefreshWindow)
  /\ UNCHANGED <<drawn, now>>

\* no handle, a malformed or unknown one, another client's, or an expired one
BeginTransient(r, client, j) ==
  /\ request[r].state = "new"
  /\ j \notin drawn
  /\ drawn' = drawn \cup {j}
  /\ Opened(r, client, j, FALSE, FALSE)
  /\ UNCHANGED <<jarDb, leases, now>>

\* the commit of the renewal failed and the lease is given back
BeginFails(r) ==
  /\ request[r].state = "new"
  /\ request' = [request EXCEPT ![r] = Closed]
  /\ UNCHANGED <<jarDb, leases, drawn, now>>

\* a batch that would pass the limit leaves the overlay as it was
ApplyResponse(r, a, k, mutation) ==
  /\ request[r].state = "open"
  /\ request[r].picked = NoJar
  /\ Cardinality(DOMAIN request[r].overlays[a] \cup {k}) <= MaxCookiesPerAuthority
  /\ request' = [request EXCEPT ![r].overlays[a] =
       [x \in DOMAIN @ \cup {k} |-> IF x = k THEN mutation ELSE @[x]]]
  /\ UNCHANGED <<jarDb, leases, drawn, now>>

\* the stored cookies that no mutation of the overlay replaces
Selected(r, a) ==
  {s \in Filled(jarDb, AuthoritySlots(request[r].jar, a)) :
     /\ request[r].persisted
     /\ jarDb.entries[s].expires > now
     /\ s[3] \notin DOMAIN request[r].overlays[a]}

SelectCookies(r, a) ==
  /\ request[r].state = "open"
  /\ request[r].picked = NoJar
  /\ request[r].persisted => jarDb.handles[request[r].jar] # NoJar
  /\ request' = [request EXCEPT
       ![r].sent = @ \cup {jarDb.entries[s].by : s \in Selected(r, a)},
       ![r].picked = IF request[r].persisted THEN <<a, Selected(r, a)>> ELSE NoJar]
  /\ UNCHANGED <<jarDb, leases, drawn, now>>

EntryUsed(entry) == [entry EXCEPT !.access = Most(@, now)]

\* the cookies and their authority are marked as used in a second transaction
Touch(r) ==
  /\ request[r].state = "open"
  /\ request[r].picked # NoJar
  /\ jarDb.handles[request[r].jar] # NoJar
  /\ LET there == Filled(jarDb, request[r].picked[2])
         p == <<request[r].jar, request[r].picked[1]>>
     IN jarDb' = [jarDb EXCEPT
          !.entries = [s \in Slots |-> IF s \in there THEN EntryUsed(@[s]) ELSE @[s]],
          !.authorities[p] = IF there = {} \/ @ = NoJar THEN @
                             ELSE [access |-> Most(@.access, now), unreachable |-> NoJar]]
  /\ request' = [request EXCEPT ![r].picked = NoJar]
  /\ UNCHANGED <<leases, drawn, now>>

HasLiveCookies(changes) == \E k \in DOMAIN changes : changes[k] = "set"

\* the request's jar is leased: merge into it
CommitMerge(r, a) ==
  /\ request[r].state = "open" /\ request[r].picked = NoJar
  /\ request[r].persisted
  /\ jarDb' \in MergeTransaction(CleanupStale(jarDb), request[r].jar, a,
                                 request[r].overlays[a], request[r].client)
  /\ request' = [request EXCEPT ![r].state = "committed", ![r].overlays = NoOverlays]
  /\ UNCHANGED <<leases, drawn, now>>

\* the first live cookies create the jar, its handle and its lease
CommitCreate(r, a) ==
  /\ request[r].state = "open" /\ request[r].picked = NoJar
  /\ ~request[r].persisted /\ HasLiveCookies(request[r].overlays[a])
  /\ jarDb' \in CreateJar(jarDb, request[r].jar, a,
                          request[r].overlays[a], request[r].client)
  /\ leases' = [leases EXCEPT ![request[r].jar] = @ + 1]
  /\ request' = [request EXCEPT ![r].state = "committed", ![r].overlays = NoOverlays,
                   ![r].persisted = TRUE, ![r].publish = TRUE, ![r].held = TRUE]
  /\ UNCHANGED <<drawn, now>>

CommitNothing(r, a) ==
  /\ request[r].state = "open" /\ request[r].picked = NoJar
  /\ ~request[r].persisted /\ ~HasLiveCookies(request[r].overlays[a])
  /\ request' = [request EXCEPT ![r].state = "committed", ![r].overlays = NoOverlays]
  /\ UNCHANGED <<jarDb, leases, drawn, now>>

\* the attempt at this authority is replaced
Discard(r, a) ==
  /\ request[r].state = "open" /\ request[r].picked = NoJar
  /\ request' = [request EXCEPT ![r].overlays[a] = NoOverlays[a]]
  /\ UNCHANGED <<jarDb, leases, drawn, now>>

\* before a WebSocket upgrade the handle is sent ahead of the jar
ReserveUpgradeCookie(r) ==
  /\ request[r].state = "open" /\ request[r].picked = NoJar
  /\ request[r].persisted => request[r].publish
  /\ ~request[r].reserved
  /\ request' = [request EXCEPT ![r].reserved = TRUE]
  /\ UNCHANGED <<jarDb, leases, drawn, now>>

\* after the commit the handle goes out with the response
GatewaySetCookie(r) ==
  /\ request[r].state = "committed" /\ request[r].persisted /\ request[r].publish
  /\ request' = [request EXCEPT ![r].state = "published"]
  /\ UNCHANGED <<jarDb, leases, drawn, now>>

LeaseReleased(r) ==
  IF request[r].held THEN [leases EXCEPT ![request[r].jar] = @ - 1] ELSE leases

\* the end of the request, whatever became of it
DiscardAll(r) ==
  /\ request[r].state \in {"open", "committed", "published"}
  /\ leases' = LeaseReleased(r)
  /\ request' = [request EXCEPT ![r] = Closed]
  /\ UNCHANGED <<jarDb, drawn, now>>

-----------------------------------------------------------------------------
(* Maintenance, time and restarts.                                         *)

\* an authority becomes unreachable once, and reachable again at any time
MarkReachable(row, ok) ==
  [row EXCEPT !.unreachable = IF ok THEN NoJar ELSE IF @ = NoJar THEN now ELSE @]

ApplyAuthorityReachability(d, reachable) ==
  [d EXCEPT !.authorities = [p \in Jars \X Authorities |->
     IF @[p] = NoJar THEN NoJar ELSE MarkReachable(@[p], p[2] \in reachable)]]

DeleteEmptyBindings(d) ==
  DeleteJars(d, {j \in Bound(d) : Filled(d, JarSlots(j)) = {} /\ ~Active(j)})

Cleanup(reachable) ==
  /\ jarDb' = DeleteEmptyBindings(CleanupStale(
                ApplyAuthorityReachability(CleanupStale(jarDb), reachable)))
  /\ jarDb' # jarDb
  /\ UNCHANGED <<request, leases, drawn, now>>

Tick ==
  /\ now < MaxClock
  /\ now' = now + 1
  /\ UNCHANGED <<jarDb, request, leases, drawn>>

\* the process ends: requests and leases are lost, the jars stay
CookieRestart ==
  /\ \E r \in Requests : request[r].state \notin {"new", "closed"}
  /\ request' = [r \in Requests |-> IF request[r].state = "new" THEN request[r] ELSE Closed]
  /\ leases' = [j \in Jars |-> 0]
  /\ UNCHANGED <<jarDb, drawn, now>>

CookieNext ==
  \/ \E r \in Requests, c \in Clients, j \in Jars :
       BeginReuse(r, c, j) \/ BeginTransient(r, c, j)
  \/ \E r \in Requests, a \in Authorities, k \in CookieKeys, m \in Mutations :
       ApplyResponse(r, a, k, m)
  \/ \E r \in Requests, a \in Authorities :
       SelectCookies(r, a) \/ CommitMerge(r, a) \/ CommitCreate(r, a)
         \/ CommitNothing(r, a) \/ Discard(r, a)
  \/ \E r \in Requests :
       BeginFails(r) \/ Touch(r) \/ ReserveUpgradeCookie(r)
         \/ GatewaySetCookie(r) \/ DiscardAll(r)
  \/ \E reachable \in SUBSET Authorities : Cleanup(reachable)
  \/ Tick \/ CookieRestart

CookieSpec == CookieInit /\ [][CookieNext]_cookieVars

-----------------------------------------------------------------------------
Holders(j) == {r \in Requests : request[r].state \notin {"new", "closed"}
                                  /\ request[r].jar = j /\ request[r].held}

(* The jar a request leased is there, and its client's, until the request  *)
(* ends: no cleanup, eviction or reclaim of another request's merge takes  *)
(* it away, not even between the commit and the response that carries the  *)
(* handle (the lease of BeginRequest and CreateJar).                       *)
LeasedJarLives ==
  \A j \in Jars :
    /\ leases[j] = Cardinality(Holders(j))
    /\ \A r \in Holders(j) :
         jarDb.handles[j] # NoJar /\ jarDb.handles[j].owner = request[r].client

(* Cookies never cross clients: a request is sent only cookies that        *)
(* responses to its own client set, whatever handle it presented and       *)
(* whatever was reclaimed in between.                                      *)
OwnCookiesOnly ==
  \A r \in Requests :
    request[r].state \notin {"new", "closed"} => request[r].sent \subseteq {request[r].client}

\* A jar, and a database, within the policy.
WithinJar(d, j) ==
  /\ Cardinality(Filled(d, JarSlots(j))) <= MaxCookiesPerJar
  /\ Cardinality(KnownAuthorities(d, j)) <= MaxAuthoritiesPerJar
  /\ \A a \in Authorities :
       Cardinality(Filled(d, AuthoritySlots(j, a))) <= MaxCookiesPerAuthority

WithinLimits(d) == WithinGlobal(d) /\ \A j \in Jars : WithinJar(d, j)

\* Every entry has its authority and its binding.
Rooted(d) ==
  \A s \in Filled(d, Slots) :
    d.authorities[<<s[1], s[2]>>] # NoJar /\ d.handles[s[1]] # NoJar

(* After every transaction the jars are within the policy: per authority,  *)
(* per jar and in all, and no cookie outlives its authority or its jar.    *)
JarsWithinLimits == WithinLimits(jarDb) /\ Rooted(jarDb)

\* A leased jar is not collected, a client sees its own cookies only, and the
\* jars stay within their limits.
JarsIsolated == LeasedJarLives /\ OwnCookiesOnly /\ JarsWithinLimits

-----------------------------------------------------------------------------
(* The inductive invariant.                                                *)

\* The request has begun and has not ended.
Underway(r) == request[r].state \notin {"new", "closed"}

Overlays == UNION {[K -> Mutations] : K \in SUBSET CookieKeys}

RunningRequests ==
  [state : {"open", "committed", "published"}, client : Clients, jar : Jars,
   persisted : BOOLEAN, publish : BOOLEAN, reserved : BOOLEAN, held : BOOLEAN,
   overlays : [Authorities -> Overlays], sent : SUBSET Clients,
   picked : {NoJar} \cup (Authorities \X SUBSET Slots)]

Databases ==
  [handles : [Jars -> Bindings \cup {NoJar}],
   authorities : [Jars \X Authorities -> AuthorityRows \cup {NoJar}],
   entries : [Slots -> Entries \cup {NoJar}]]

\* The tables hold typed rows, a request is new, closed or running with every
\* field of its cookie state, and a lease is a count.
CookieTypeOK ==
  /\ jarDb \in Databases
  /\ request \in [Requests -> [state : {"new", "closed"}] \cup RunningRequests]
  /\ leases \in [Jars -> Nat]
  /\ drawn \subseteq Jars
  /\ now \in Nat

\* Every cookie of a jar was set by a response to the client that owns the jar.
CookiesOfOwner(d) ==
  \A s \in Filled(d, Slots) :
    d.handles[s[1]] # NoJar => d.entries[s].by = d.handles[s[1]].owner

\* A request leases its jar exactly when the jar is stored; a jar not yet
\* stored is one request's alone, has no binding and is never drawn again.
JarsAssigned ==
  /\ Bound(jarDb) \subseteq drawn
  /\ \A r \in Requests : Underway(r) =>
       /\ request[r].jar \in drawn
       /\ request[r].held = request[r].persisted
       /\ ~request[r].persisted =>
            /\ jarDb.handles[request[r].jar] = NoJar
            /\ \A q \in Requests \ {r} : Underway(q) => request[q].jar # request[r].jar

CookieInv ==
  /\ CookieTypeOK
  /\ LeasedJarLives
  /\ OwnCookiesOnly
  /\ JarsWithinLimits
  /\ CookiesOfOwner(jarDb)
  /\ JarsAssigned
=============================================================================

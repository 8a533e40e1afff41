---------------------------- MODULE CodexProofs ----------------------------
(***************************************************************************)
(* Machine-checked proofs about the Codex side of the gateway: the cookie  *)
(* jars (CookieJars), for any finite sets of requests, jars, authorities   *)
(* and cookies, any clients and any limits; the WebSocket operation        *)
(* (CodexSocket), for any targets, accounts and conversation values and    *)
(* any number of frames, dials, outages and rival claims; and the          *)
(* ownership of conversation values (CodexContinuity), for any operations, *)
(* values, scopes, times to live and limits, and any number of failed      *)
(* transactions and restarts.                                              *)
(***************************************************************************)
EXTENDS CookieJars, CodexSocket, CodexContinuity, FiniteSetTheorems, TLAPS

-----------------------------------------------------------------------------
(* Finite sets and counting.                                                *)

\* The slots of the entry table are finitely many.
LEMMA SlotsFinite == IsFiniteSet(Slots)
<1>. DEFINE S == (Jars \X Authorities) \X CookieKeys
            f == [x \in S |-> <<x[1][1], x[1][2], x[2]>>]
<1>1. IsFiniteSet(Jars \X Authorities)
  BY CookieAssumption, FS_Product
<1>2. IsFiniteSet(S)
  BY <1>1, CookieAssumption, FS_Product
<1>3. f \in [S -> Slots]
  BY DEF Slots
<1>4. ASSUME NEW s \in Slots PROVE \E x \in S : f[x] = s
  <2>. DEFINE x == <<<<s[1], s[2]>>, s[3]>>
  <2>1. x \in S /\ s = <<s[1], s[2], s[3]>>
    BY DEF Slots
  <2>2. f[x] = <<s[1], s[2], s[3]>>
    BY <2>1
  <2>. QED
    BY <2>1, <2>2
<1>5. f \in Surjection(S, Slots)
  BY <1>3, <1>4 DEF Surjection
<1>. QED
  BY <1>2, <1>5, FS_Surjection

\* A part of a finite set is finite and no larger.
LEMMA Smaller ==
  ASSUME NEW S, IsFiniteSet(S), NEW T, T \subseteq S, NEW n \in Nat, Cardinality(S) <= n
  PROVE  Cardinality(T) <= n
BY FS_Subset, FS_CardinalityType

\* Database e is a part of d: no row is in e and not in d, and the rows of e
\* have the owners and the authors they have in d.
Below(e, d) ==
  /\ \A j \in Jars : e.handles[j] # NoJar =>
       d.handles[j] # NoJar /\ e.handles[j].owner = d.handles[j].owner
  /\ \A p \in Jars \X Authorities : e.authorities[p] # NoJar => d.authorities[p] # NoJar
  /\ \A s \in Slots : e.entries[s] # NoJar =>
       d.entries[s] # NoJar /\ e.entries[s].by = d.entries[s].by

\* Two deletions in a row leave a part of what there was.
LEMMA BelowIsTransitive ==
  ASSUME NEW d, NEW e, NEW f, Below(e, d), Below(f, e)
  PROVE  Below(f, d)
BY DEF Below

\* The bound jars, the filled slots and the known authorities of a part.
LEMMA BelowSets ==
  ASSUME NEW d, NEW e, Below(e, d)
  PROVE  /\ Bound(e) \subseteq Bound(d)
         /\ \A S : S \subseteq Slots => Filled(e, S) \subseteq Filled(d, S)
         /\ \A j \in Jars : KnownAuthorities(e, j) \subseteq KnownAuthorities(d, j)
BY DEF Below, Bound, Filled, KnownAuthorities

\* What the limits count is finite.
LEMMA SetsFinite ==
  ASSUME NEW d
  PROVE  /\ IsFiniteSet(Bound(d))
         /\ \A S : S \subseteq Slots => IsFiniteSet(Filled(d, S))
         /\ \A j : IsFiniteSet(KnownAuthorities(d, j))
<1>1. IsFiniteSet(Bound(d))
  <2>1. Bound(d) \subseteq Jars
    BY DEF Bound
  <2>. QED BY <2>1, CookieAssumption, FS_Subset
<1>2. ASSUME NEW S, S \subseteq Slots PROVE IsFiniteSet(Filled(d, S))
  <2>1. Filled(d, S) \subseteq Slots
    BY <1>2 DEF Filled
  <2>. QED BY <2>1, SlotsFinite, FS_Subset
<1>3. ASSUME NEW j PROVE IsFiniteSet(KnownAuthorities(d, j))
  <2>1. KnownAuthorities(d, j) \subseteq Authorities
    BY DEF KnownAuthorities
  <2>. QED BY <2>1, CookieAssumption, FS_Subset
<1>. QED BY <1>1, <1>2, <1>3

\* A slot names a jar and an authority of it.
LEMMA SlotParts ==
  ASSUME NEW s \in Slots
  PROVE  s[1] \in Jars /\ s[2] \in Authorities /\ <<s[1], s[2]>> \in Jars \X Authorities
BY DEF Slots

\* The slots of a jar, and of one of its authorities.
LEMMA SlotSets ==
  /\ \A j : JarSlots(j) \subseteq Slots
  /\ \A j, a : AuthoritySlots(j, a) \subseteq Slots
BY DEF JarSlots, AuthoritySlots

\* The limits of the policy are numbers.
LEMMA LimitsAreNat ==
  /\ MaxCookiesPerAuthority \in Nat /\ MaxCookiesPerJar \in Nat
  /\ MaxAuthoritiesPerJar \in Nat /\ MaxBindings \in Nat /\ MaxEntries \in Nat
BY CookieAssumption

\* A smaller jar stays within its limits, and a smaller database within the
\* global ones.
LEMMA BelowIsWithinJar ==
  ASSUME NEW d, NEW e, Below(e, d), NEW j \in Jars, WithinJar(d, j)
  PROVE  WithinJar(e, j)
<1>1. Cardinality(Filled(e, JarSlots(j))) <= MaxCookiesPerJar
  BY BelowSets, SetsFinite, SlotSets, Smaller, LimitsAreNat DEF WithinJar
<1>2. Cardinality(KnownAuthorities(e, j)) <= MaxAuthoritiesPerJar
  BY BelowSets, SetsFinite, Smaller, LimitsAreNat DEF WithinJar
<1>3. ASSUME NEW a \in Authorities
      PROVE  Cardinality(Filled(e, AuthoritySlots(j, a))) <= MaxCookiesPerAuthority
  BY BelowSets, SetsFinite, SlotSets, Smaller, LimitsAreNat DEF WithinJar
<1>. QED BY <1>1, <1>2, <1>3 DEF WithinJar

\* A part of a database within the policy is within it.
LEMMA BelowIsWithin ==
  ASSUME NEW d, NEW e, Below(e, d), WithinLimits(d)
  PROVE  WithinLimits(e)
<1>1. Cardinality(Bound(e)) <= MaxBindings
  BY BelowSets, SetsFinite, Smaller, LimitsAreNat DEF WithinLimits, WithinGlobal
<1>2. Cardinality(Filled(e, Slots)) <= MaxEntries
  BY BelowSets, SetsFinite, Smaller, LimitsAreNat DEF WithinLimits, WithinGlobal
<1>. QED BY <1>1, <1>2, BelowIsWithinJar DEF WithinLimits, WithinGlobal

\* What is left of a jar still belongs to its owner.
LEMMA BelowIsOwned ==
  ASSUME NEW d, NEW e, Below(e, d), CookiesOfOwner(d)
  PROVE  CookiesOfOwner(e)
BY SlotParts DEF Below, CookiesOfOwner, Filled

-----------------------------------------------------------------------------
(* Deleting.                                                                *)

\* Deleting cookies leaves a part, with the same bindings.
LEMMA DeleteEntriesShrinks ==
  ASSUME NEW d \in Databases, NEW S
  PROVE  LET e == DeleteEntries(d, S) IN
         /\ e \in Databases
         /\ Below(e, d)
         /\ e.handles = d.handles
         /\ Rooted(d) => Rooted(e)
         /\ \A s \in Slots : e.entries[s] = IF s \in S THEN NoJar ELSE d.entries[s]
<1>. DEFINE e == DeleteEntries(d, S)
<1>1. e \in Databases /\ e.handles = d.handles /\ e.authorities = d.authorities
  BY DEF DeleteEntries, Databases
<1>2. \A s \in Slots : e.entries[s] = IF s \in S THEN NoJar ELSE d.entries[s]
  BY DEF DeleteEntries, Databases
<1>. HIDE DEF e
<1>3. Below(e, d)
  BY <1>1, <1>2 DEF Below
<1>4. Rooted(d) => Rooted(e)
  BY <1>1, <1>2 DEF Rooted, Filled
<1>. QED BY <1>1, <1>2, <1>3, <1>4 DEF e

\* Deleting jars takes their authorities and their cookies along.
LEMMA DeleteJarsShrinks ==
  ASSUME NEW d \in Databases, NEW S
  PROVE  LET e == DeleteJars(d, S) IN
         /\ e \in Databases
         /\ Below(e, d)
         /\ \A j \in Jars : e.handles[j] = IF j \in S THEN NoJar ELSE d.handles[j]
         /\ Rooted(d) => Rooted(e)
<1>. DEFINE e == DeleteJars(d, S)
<1>1. e \in Databases
  BY SlotParts DEF DeleteJars, Databases
<1>2. \A j \in Jars : e.handles[j] = IF j \in S THEN NoJar ELSE d.handles[j]
  BY DEF DeleteJars
<1>3. \A p \in Jars \X Authorities : e.authorities[p] = IF p[1] \in S THEN NoJar ELSE d.authorities[p]
  BY DEF DeleteJars
<1>4. \A s \in Slots : e.entries[s] = IF s[1] \in S THEN NoJar ELSE d.entries[s]
  BY DEF DeleteJars
<1>. HIDE DEF e
<1>5. Below(e, d)
  BY <1>2, <1>3, <1>4 DEF Below
<1>6. Rooted(d) => Rooted(e)
  BY <1>2, <1>3, <1>4, SlotParts DEF Rooted, Filled
<1>. QED BY <1>1, <1>2, <1>5, <1>6 DEF e

\* Deleting authorities takes their cookies along and leaves the bindings.
LEMMA DeleteAuthoritiesShrinks ==
  ASSUME NEW d \in Databases, NEW S
  PROVE  LET e == DeleteAuthorities(d, S) IN
         /\ e \in Databases
         /\ Below(e, d)
         /\ e.handles = d.handles
         /\ Rooted(d) => Rooted(e)
         /\ \A p \in Jars \X Authorities : e.authorities[p] = IF p \in S THEN NoJar ELSE d.authorities[p]
<1>. DEFINE e == DeleteAuthorities(d, S)
<1>1. e \in Databases /\ e.handles = d.handles
  BY SlotParts DEF DeleteAuthorities, Databases
<1>2. \A p \in Jars \X Authorities : e.authorities[p] = IF p \in S THEN NoJar ELSE d.authorities[p]
  BY DEF DeleteAuthorities, Databases
<1>3. \A s \in Slots : e.entries[s] = IF <<s[1], s[2]>> \in S THEN NoJar ELSE d.entries[s]
  BY DEF DeleteAuthorities, Databases
<1>. HIDE DEF e
<1>4. Below(e, d)
  BY <1>1, <1>2, <1>3 DEF Below
<1>5. Rooted(d) => Rooted(e)
  BY <1>1, <1>2, <1>3, SlotParts DEF Rooted, Filled
<1>. QED BY <1>1, <1>2, <1>4, <1>5 DEF e

\* Deleting the authorities without a cookie.
LEMMA DeleteEmptyShrinks ==
  ASSUME NEW d \in Databases, NEW S
  PROVE  LET e == DeleteEmptyAuthorities(d, S) IN
         /\ e \in Databases
         /\ Below(e, d)
         /\ e.handles = d.handles
         /\ Rooted(d) => Rooted(e)
BY DeleteAuthoritiesShrinks DEF DeleteEmptyAuthorities

\* The cleanup of a transaction leaves a part, and every leased jar.
LEMMA CleanupShrinks ==
  ASSUME NEW d \in Databases
  PROVE  LET e == CleanupStale(d) IN
         /\ e \in Databases
         /\ Below(e, d)
         /\ Rooted(d) => Rooted(e)
         /\ \A j \in Jars : Active(j) => e.handles[j] = d.handles[j]
<1>. DEFINE fresh == DeleteEntries(d, {s \in Filled(d, Slots) : d.entries[s].expires <= now})
            dead == {j \in Bound(fresh) : Expired(fresh.handles[j]) /\ ~Active(j)}
            live == DeleteJars(fresh, dead)
            orphans == {p \in Jars \X Authorities :
                    /\ live.authorities[p] # NoJar
                    /\ live.authorities[p].unreachable # NoJar
                    /\ live.authorities[p].unreachable <= now - OrphanGrace
                    /\ ~Active(p[1])}
            pruned == DeleteAuthorities(live, orphans)
            e == DeleteEmptyAuthorities(pruned, Jars)
<1>0. CleanupStale(d) = e
  BY DEF CleanupStale
<1>1. fresh \in Databases /\ Below(fresh, d) /\ fresh.handles = d.handles /\ (Rooted(d) => Rooted(fresh))
  BY DeleteEntriesShrinks
<1>. HIDE DEF fresh
<1>2. /\ live \in Databases /\ Below(live, fresh) /\ (Rooted(fresh) => Rooted(live))
      /\ \A j \in Jars : live.handles[j] = IF j \in dead THEN NoJar ELSE fresh.handles[j]
  BY <1>1, DeleteJarsShrinks
<1>3. \A j \in Jars : Active(j) => live.handles[j] = d.handles[j]
  BY <1>1, <1>2
<1>. HIDE DEF live
<1>4. /\ pruned \in Databases /\ Below(pruned, live) /\ (Rooted(live) => Rooted(pruned))
      /\ pruned.handles = live.handles
  BY <1>2, DeleteAuthoritiesShrinks
<1>. HIDE DEF pruned
<1>5. /\ e \in Databases /\ Below(e, pruned) /\ (Rooted(pruned) => Rooted(e))
      /\ e.handles = pruned.handles
  BY <1>4, DeleteEmptyShrinks
<1>. HIDE DEF e
<1>6. Below(e, d)
  BY <1>1, <1>2, <1>4, <1>5, BelowIsTransitive
<1>. QED BY <1>0, <1>1, <1>2, <1>3, <1>4, <1>5, <1>6

-----------------------------------------------------------------------------
(* Evicting and reclaiming.                                                 *)

\* Evicting cookies brings the slots it looks at down to the maximum.
LEMMA EvictEntriesShrinks ==
  ASSUME NEW d \in Databases, NEW S, S \subseteq Slots, NEW n \in Nat,
         NEW e \in EvictEntries(d, S, n)
  PROVE  /\ e \in Databases
         /\ Below(e, d)
         /\ e.handles = d.handles
         /\ Rooted(d) => Rooted(e)
         /\ Cardinality(Filled(e, S)) <= n
<1>. DEFINE filled == Filled(d, S)
            overflow == Cardinality(filled) - n
<1>1. IsFiniteSet(filled) /\ Cardinality(filled) \in Nat
  BY SetsFinite, FS_CardinalityType
<1>2. CASE overflow <= 0
  <2>1. e = d
    BY <1>2 DEF EvictEntries
  <2>. QED BY <1>1, <1>2, <2>1 DEF Below
<1>3. CASE ~(overflow <= 0)
  <2>1. PICK out \in kSubset(overflow, filled) : e = DeleteEntries(d, out)
    BY <1>3 DEF EvictEntries
  <2>2. out \subseteq filled /\ Cardinality(out) = overflow
    BY DEF kSubset
  <2>3. /\ e \in Databases /\ Below(e, d) /\ e.handles = d.handles /\ (Rooted(d) => Rooted(e))
        /\ \A s \in Slots : e.entries[s] = IF s \in out THEN NoJar ELSE d.entries[s]
    BY <2>1, DeleteEntriesShrinks
  <2>4. Filled(e, S) = filled \ out
    BY <2>3 DEF Filled
  <2>5. filled \cap out = out
    BY <2>2
  <2>6. Cardinality(filled \ out) = Cardinality(filled) - Cardinality(out)
    BY <1>1, <2>5, FS_Difference
  <2>. QED BY <1>1, <2>2, <2>3, <2>4, <2>6
<1>. QED BY <1>2, <1>3

\* Evicting authorities brings a jar down to the maximum of them.
LEMMA EvictAuthoritiesShrinks ==
  ASSUME NEW d \in Databases, NEW j \in Jars, NEW e \in EvictAuthorities(d, j)
  PROVE  /\ e \in Databases
         /\ Below(e, d)
         /\ e.handles = d.handles
         /\ Rooted(d) => Rooted(e)
         /\ Cardinality(KnownAuthorities(e, j)) <= MaxAuthoritiesPerJar
<1>. DEFINE known == KnownAuthorities(d, j)
            overflow == Cardinality(known) - MaxAuthoritiesPerJar
<1>1. IsFiniteSet(known) /\ Cardinality(known) \in Nat
  BY SetsFinite, FS_CardinalityType
<1>2. CASE overflow <= 0
  <2>1. e = d
    BY <1>2 DEF EvictAuthorities
  <2>. QED BY <1>1, <1>2, <2>1, LimitsAreNat DEF Below
<1>3. CASE ~(overflow <= 0)
  <2>1. PICK out \in kSubset(overflow, known) : e = DeleteAuthorities(d, {j} \X out)
    BY <1>3 DEF EvictAuthorities
  <2>2. out \subseteq known /\ Cardinality(out) = overflow
    BY DEF kSubset
  <2>3. /\ e \in Databases /\ Below(e, d) /\ e.handles = d.handles /\ (Rooted(d) => Rooted(e))
        /\ \A p \in Jars \X Authorities :
             e.authorities[p] = IF p \in {j} \X out THEN NoJar ELSE d.authorities[p]
    BY <2>1, DeleteAuthoritiesShrinks
  <2>4. \A a \in Authorities :
          e.authorities[<<j, a>>] = IF a \in out THEN NoJar ELSE d.authorities[<<j, a>>]
    BY <2>3
  <2>5. KnownAuthorities(e, j) = known \ out
    BY <2>4 DEF KnownAuthorities
  <2>6. known \cap out = out
    BY <2>2
  <2>7. Cardinality(known \ out) = Cardinality(known) - Cardinality(out)
    BY <1>1, <2>6, FS_Difference
  <2>. QED BY <1>1, <2>2, <2>3, <2>5, <2>7, LimitsAreNat
<1>. QED BY <1>2, <1>3

\* Enforcing the limits of the jar that was merged into brings it within them,
\* when its other authorities were.
LEMMA EnforceShrinks ==
  ASSUME NEW d \in Databases, NEW j \in Jars, NEW a \in Authorities,
         \A b \in Authorities \ {a} :
            Cardinality(Filled(d, AuthoritySlots(j, b))) <= MaxCookiesPerAuthority,
         NEW e \in EnforceJarCapacity(d, j, a)
  PROVE  /\ e \in Databases
         /\ Below(e, d)
         /\ e.handles = d.handles
         /\ Rooted(d) => Rooted(e)
         /\ WithinJar(e, j)
<1>0. PICK e1 \in EvictEntries(d, AuthoritySlots(j, a), MaxCookiesPerAuthority) :
        e \in UNION {EvictAuthorities(DeleteEmptyAuthorities(x, {j}), j) :
                       x \in EvictEntries(e1, JarSlots(j), MaxCookiesPerJar)}
  BY DEF EnforceJarCapacity
<1>1. PICK e2 \in EvictEntries(e1, JarSlots(j), MaxCookiesPerJar) :
        e \in EvictAuthorities(DeleteEmptyAuthorities(e2, {j}), j)
  BY <1>0
<1>. DEFINE e3 == DeleteEmptyAuthorities(e2, {j})
<1>2. /\ e1 \in Databases /\ Below(e1, d) /\ e1.handles = d.handles /\ (Rooted(d) => Rooted(e1))
      /\ Cardinality(Filled(e1, AuthoritySlots(j, a))) <= MaxCookiesPerAuthority
  BY SlotSets, LimitsAreNat, EvictEntriesShrinks
<1>3. /\ e2 \in Databases /\ Below(e2, e1) /\ e2.handles = e1.handles /\ (Rooted(e1) => Rooted(e2))
      /\ Cardinality(Filled(e2, JarSlots(j))) <= MaxCookiesPerJar
  BY <1>2, SlotSets, LimitsAreNat, EvictEntriesShrinks
<1>4. e3 \in Databases /\ Below(e3, e2) /\ e3.handles = e2.handles /\ (Rooted(e2) => Rooted(e3))
  BY <1>3, DeleteEmptyShrinks
<1>5. e \in EvictAuthorities(e3, j)
  BY <1>1
<1>. HIDE DEF e3
<1>6. /\ e \in Databases /\ Below(e, e3) /\ e.handles = e3.handles /\ (Rooted(e3) => Rooted(e))
      /\ Cardinality(KnownAuthorities(e, j)) <= MaxAuthoritiesPerJar
  BY <1>4, <1>5, EvictAuthoritiesShrinks
<1>7. Below(e, e2) /\ Below(e, e1) /\ Below(e, d)
  BY <1>2, <1>3, <1>4, <1>6, BelowIsTransitive
<1>8. Cardinality(Filled(e, JarSlots(j))) <= MaxCookiesPerJar
  BY <1>3, <1>7, BelowSets, SetsFinite, SlotSets, Smaller, LimitsAreNat
<1>9. Cardinality(Filled(e, AuthoritySlots(j, a))) <= MaxCookiesPerAuthority
  BY <1>2, <1>7, BelowSets, SetsFinite, SlotSets, Smaller, LimitsAreNat
<1>10. ASSUME NEW b \in Authorities \ {a}
       PROVE  Cardinality(Filled(e, AuthoritySlots(j, b))) <= MaxCookiesPerAuthority
  BY <1>7, BelowSets, SetsFinite, SlotSets, Smaller, LimitsAreNat
<1>11. WithinJar(e, j)
  BY <1>6, <1>8, <1>9, <1>10 DEF WithinJar
<1>. QED BY <1>2, <1>3, <1>4, <1>6, <1>7, <1>11

\* Reclaiming takes neither the current jar nor a leased one.
LEMMA ReclaimShrinks ==
  ASSUME NEW d \in Databases, NEW j \in Jars, NEW e \in ReclaimCapacity(d, j)
  PROVE  /\ e \in Databases
         /\ Below(e, d)
         /\ Rooted(d) => Rooted(e)
         /\ WithinGlobal(e)
         /\ \A i \in Jars : i = j \/ Active(i) => e.handles[i] = d.handles[i]
<1>. DEFINE candidates == {i \in Bound(d) \ {j} : ~Active(i)}
<1>1. PICK s \in SUBSET candidates : e = DeleteJars(d, s) /\ WithinGlobal(DeleteJars(d, s))
  BY DEF ReclaimCapacity
<1>2. /\ e \in Databases /\ Below(e, d) /\ (Rooted(d) => Rooted(e))
      /\ \A i \in Jars : e.handles[i] = IF i \in s THEN NoJar ELSE d.handles[i]
  BY <1>1, DeleteJarsShrinks
<1>. QED BY <1>1, <1>2

-----------------------------------------------------------------------------
(* Merging.                                                                 *)

\* Merging an overlay writes one authority of one jar, with the client's cookies.
LEMMA ApplyMutationsWrites ==
  ASSUME CookieTypeOK, NEW d \in Databases, NEW j \in Jars, NEW a \in Authorities,
         NEW changes, NEW client \in Clients,
         d.handles[j] # NoJar, d.handles[j].owner = client, Rooted(d), CookiesOfOwner(d)
  PROVE  LET e == ApplyMutations(d, j, a, changes, client) IN
         /\ e \in Databases
         /\ e.handles = d.handles
         /\ Rooted(e)
         /\ CookiesOfOwner(e)
         /\ \A p \in Jars \X Authorities : p # <<j, a>> => e.authorities[p] = d.authorities[p]
         /\ \A s \in Slots : s[1] # j \/ s[2] # a => e.entries[s] = d.entries[s]
<1>. DEFINE set == {k \in DOMAIN changes : changes[k] = "set"}
            old == d.authorities[<<j, a>>]
            row == [access |-> IF old = NoJar THEN now ELSE old.access,
                    unreachable |-> IF old = NoJar THEN NoJar ELSE old.unreachable]
            entry == [expires |-> now + CookieTTL, access |-> now, by |-> client]
            e == ApplyMutations(d, j, a, changes, client)
            authorities == [d.authorities EXCEPT ![<<j, a>>] = IF set = {} THEN @ ELSE row]
            entries == [s \in Slots |->
                          IF s[1] # j \/ s[2] # a \/ s[3] \notin DOMAIN changes THEN d.entries[s]
                          ELSE IF s[3] \in set THEN entry ELSE NoJar]
<1>1. /\ old \in AuthorityRows \cup {NoJar}
      /\ now \in Nat /\ now + CookieTTL \in Nat
  BY CookieAssumption DEF CookieTypeOK, Databases
<1>2. row \in AuthorityRows /\ row # NoJar
  BY <1>1, CookieAssumption DEF AuthorityRows
<1>3. entry \in Entries /\ entry # NoJar /\ entry.by = client
  BY <1>1, CookieAssumption DEF Entries
<1>. HIDE DEF row, entry
<1>4. authorities \in [Jars \X Authorities -> AuthorityRows \cup {NoJar}]
  BY <1>1, <1>2 DEF Databases
<1>5. entries \in [Slots -> Entries \cup {NoJar}]
  BY <1>3 DEF Databases
<1>. HIDE DEF authorities, entries
<1>6. e = [d EXCEPT !.authorities = authorities, !.entries = entries]
  BY DEF ApplyMutations, row, entry, authorities, entries
<1>7. e \in Databases /\ e.handles = d.handles /\ e.authorities = authorities /\ e.entries = entries
  BY <1>4, <1>5, <1>6 DEF Databases
<1>. USE DEF authorities, entries
<1>8. \A p \in Jars \X Authorities : p # <<j, a>> => e.authorities[p] = d.authorities[p]
  BY <1>7 DEF Databases
<1>9. e.authorities[<<j, a>>] = IF set = {} THEN old ELSE row
  BY <1>7 DEF Databases
<1>10. \A s \in Slots : e.entries[s] = IF s[1] # j \/ s[2] # a \/ s[3] \notin DOMAIN changes THEN d.entries[s]
                          ELSE IF s[3] \in set THEN entry ELSE NoJar
  BY <1>7
<1>. HIDE DEF e, authorities, entries
<1>11. ASSUME NEW s \in Slots, e.entries[s] # NoJar
       PROVE  /\ e.authorities[<<s[1], s[2]>>] # NoJar /\ e.handles[s[1]] # NoJar
              /\ e.entries[s].by = e.handles[s[1]].owner
  <2>1. s[1] \in Jars /\ <<s[1], s[2]>> \in Jars \X Authorities
    BY SlotParts
  <2>2. CASE s[1] # j \/ s[2] # a \/ s[3] \notin DOMAIN changes
    <3>1. e.entries[s] = d.entries[s] /\ s \in Filled(d, Slots)
      BY <1>10, <1>11, <2>2 DEF Filled
    <3>2. d.authorities[<<s[1], s[2]>>] # NoJar /\ d.handles[s[1]] # NoJar
      BY <3>1 DEF Rooted
    <3>3. d.entries[s].by = d.handles[s[1]].owner
      BY <3>1, <3>2 DEF CookiesOfOwner
    <3>4. e.authorities[<<s[1], s[2]>>] # NoJar
      BY <1>2, <1>8, <1>9, <2>1, <3>2
    <3>. QED BY <1>7, <3>1, <3>2, <3>3, <3>4
  <2>3. CASE ~(s[1] # j \/ s[2] # a \/ s[3] \notin DOMAIN changes)
    <3>1. s[3] \in set /\ e.entries[s] = entry
      BY <1>10, <1>11, <2>3
    <3>. QED BY <1>2, <1>3, <1>7, <1>9, <2>3, <3>1
  <2>. QED BY <2>2, <2>3
<1>12. Rooted(e) /\ CookiesOfOwner(e)
  BY <1>11 DEF Rooted, CookiesOfOwner, Filled
<1>. QED BY <1>7, <1>8, <1>10, <1>12 DEF e

\* A merge leaves the jars within the policy, takes no leased jar away, and
\* keeps the cookies of each jar its owner's.
LEMMA MergeKeeps ==
  ASSUME CookieTypeOK, NEW d \in Databases, NEW j \in Jars, NEW a \in Authorities,
         NEW changes, NEW client \in Clients,
         d.handles[j] # NoJar => d.handles[j].owner = client,
         Rooted(d), CookiesOfOwner(d), \A i \in Jars : WithinJar(d, i),
         NEW f \in MergeTransaction(d, j, a, changes, client)
  PROVE  /\ f \in Databases /\ Rooted(f) /\ CookiesOfOwner(f) /\ WithinLimits(f)
         /\ d.handles[j] # NoJar
         /\ \A i \in Jars : i = j \/ Active(i) => f.handles[i] = d.handles[i]
         /\ \A i \in Jars : f.handles[i] # NoJar => d.handles[i] # NoJar
<1>. DEFINE m == ApplyMutations(d, j, a, changes, client)
<1>1. d.handles[j] # NoJar
  BY DEF MergeTransaction
<1>2. PICK e \in EnforceJarCapacity(m, j, a) : f \in ReclaimCapacity(e, j)
  BY <1>1 DEF MergeTransaction
<1>3. /\ m \in Databases /\ m.handles = d.handles /\ Rooted(m) /\ CookiesOfOwner(m)
      /\ \A p \in Jars \X Authorities : p # <<j, a>> => m.authorities[p] = d.authorities[p]
      /\ \A s \in Slots : s[1] # j \/ s[2] # a => m.entries[s] = d.entries[s]
  BY <1>1, ApplyMutationsWrites
<1>. HIDE DEF m
<1>4. ASSUME NEW b \in Authorities \ {a}
      PROVE  Cardinality(Filled(m, AuthoritySlots(j, b))) <= MaxCookiesPerAuthority
  <2>1. Filled(m, AuthoritySlots(j, b)) = Filled(d, AuthoritySlots(j, b))
    BY <1>3 DEF Filled, AuthoritySlots
  <2>. QED BY <2>1 DEF WithinJar
<1>5. /\ e \in Databases /\ Below(e, m) /\ e.handles = m.handles /\ Rooted(e) /\ WithinJar(e, j)
  BY <1>3, <1>4, EnforceShrinks
<1>6. /\ f \in Databases /\ Below(f, e) /\ Rooted(f) /\ WithinGlobal(f)
      /\ \A i \in Jars : i = j \/ Active(i) => f.handles[i] = e.handles[i]
  BY <1>2, <1>5, ReclaimShrinks
<1>7. Below(f, m)
  BY <1>5, <1>6, BelowIsTransitive
<1>8. CookiesOfOwner(f)
  BY <1>3, <1>7, BelowIsOwned
<1>9. ASSUME NEW i \in Jars PROVE WithinJar(f, i)
  <2>1. CASE i = j
    BY <1>5, <1>6, <2>1, BelowIsWithinJar
  <2>2. CASE i # j
    <3>1. Filled(m, JarSlots(i)) = Filled(d, JarSlots(i))
      BY <1>3, <2>2 DEF Filled, JarSlots
    <3>2. \A b \in Authorities : Filled(m, AuthoritySlots(i, b)) = Filled(d, AuthoritySlots(i, b))
      BY <1>3, <2>2 DEF Filled, AuthoritySlots
    <3>3. \A b \in Authorities : m.authorities[<<i, b>>] = d.authorities[<<i, b>>]
      BY <1>3, <2>2
    <3>4. KnownAuthorities(m, i) = KnownAuthorities(d, i)
      BY <3>3 DEF KnownAuthorities
    <3>5. WithinJar(m, i)
      BY <3>1, <3>2, <3>4 DEF WithinJar
    <3>. QED BY <1>7, <3>5, BelowIsWithinJar
  <2>. QED BY <2>1, <2>2
<1>10. \A i \in Jars : f.handles[i] # NoJar => d.handles[i] # NoJar
  BY <1>3, <1>7 DEF Below
<1>. QED BY <1>1, <1>3, <1>5, <1>6, <1>8, <1>9, <1>10 DEF WithinLimits

-----------------------------------------------------------------------------
(* Leases.                                                                  *)

\* The requests that lease a jar can be counted.
LEMMA HoldersFinite ==
  ASSUME NEW j \in Jars
  PROVE  IsFiniteSet(Holders(j)) /\ Cardinality(Holders(j)) \in Nat
<1>1. Holders(j) \subseteq Requests
  BY DEF Holders
<1>. QED BY <1>1, CookieAssumption, FS_Subset, FS_CardinalityType

\* A jar some request holds is active.
LEMMA HeldIsActive ==
  ASSUME LeasedJarLives, NEW j \in Jars, NEW r \in Holders(j)
  PROVE  Active(j)
<1>1. Cardinality(Holders(j)) # 0
  BY HoldersFinite, FS_EmptySet
<1>. QED BY <1>1, HoldersFinite DEF LeasedJarLives, Active

\* What a running request is.
LEMMA RunningFields ==
  ASSUME CookieTypeOK, NEW r \in Requests, Underway(r)
  PROVE  request[r] \in RunningRequests
BY DEF CookieTypeOK, Underway

\* The step leaves the request running or not, with its client, jar and lease.
Steady(r) ==
  /\ Underway(r)' = Underway(r)
  /\ Underway(r) =>
       /\ request'[r].client = request[r].client
       /\ request'[r].jar = request[r].jar
       /\ request'[r].held = request[r].held
       /\ request'[r].persisted = request[r].persisted

\* A step that changes no request's jar, and takes no leased jar away, keeps
\* the leases and the assignment of the jars.
LEMMA SteadyKeeps ==
  ASSUME CookieInv, \A r \in Requests : Steady(r), UNCHANGED <<leases, drawn>>,
         \A j \in Jars : jarDb'.handles[j] # NoJar => jarDb.handles[j] # NoJar,
         \A j \in Jars : Active(j) /\ jarDb.handles[j] # NoJar =>
            jarDb'.handles[j] # NoJar /\ jarDb'.handles[j].owner = jarDb.handles[j].owner
  PROVE  LeasedJarLives' /\ JarsAssigned'
<1>. USE DEF CookieInv
<1>1. ASSUME NEW j \in Jars PROVE Holders(j)' = Holders(j)
  BY DEF Holders, Steady, Underway
<1>2. ASSUME NEW j \in Jars
      PROVE  /\ leases'[j] = Cardinality(Holders(j)')
             /\ \A r \in Holders(j)' :
                  jarDb'.handles[j] # NoJar /\ jarDb'.handles[j].owner = request'[r].client
  <2>1. leases'[j] = Cardinality(Holders(j)')
    BY <1>1 DEF LeasedJarLives
  <2>2. ASSUME NEW r \in Holders(j)'
        PROVE  jarDb'.handles[j] # NoJar /\ jarDb'.handles[j].owner = request'[r].client
    <3>1. r \in Holders(j) /\ r \in Requests /\ Underway(r)
      BY <1>1 DEF Holders, Underway
    <3>2. Active(j)
      BY <3>1, HeldIsActive
    <3>3. jarDb.handles[j] # NoJar /\ jarDb.handles[j].owner = request[r].client
      BY <3>1 DEF LeasedJarLives
    <3>. QED BY <3>1, <3>2, <3>3 DEF Steady
  <2>. QED BY <2>1, <2>2
<1>3. LeasedJarLives'
  BY <1>2 DEF LeasedJarLives
<1>4. (Bound(jarDb) \subseteq drawn)'
  BY DEF JarsAssigned, Bound
<1>5. ASSUME NEW r \in Requests, Underway(r)'
      PROVE  /\ request'[r].jar \in drawn'
             /\ request'[r].held = request'[r].persisted
             /\ ~request'[r].persisted =>
                  /\ jarDb'.handles[request'[r].jar] = NoJar
                  /\ \A q \in Requests \ {r} : Underway(q)' => request'[q].jar # request'[r].jar
  <2>1. Underway(r) /\ request[r].jar \in Jars
    BY <1>5, RunningFields DEF Steady, RunningRequests
  <2>. QED BY <2>1 DEF Steady, JarsAssigned
<1>. QED BY <1>3, <1>4, <1>5 DEF JarsAssigned

-----------------------------------------------------------------------------
(* The steps.                                                               *)

\* The overlays of a new request.
LEMMA NoOverlaysTyped == NoOverlays \in [Authorities -> Overlays]
<1>1. [x \in {} |-> "set"] \in [{} -> Mutations]
  OBVIOUS
<1>2. [x \in {} |-> "set"] \in Overlays
  BY <1>1 DEF Overlays
<1>. QED BY <1>2 DEF NoOverlays

\* The database after a step, when it is within the policy and owned.
LEMMA DatabaseKept ==
  ASSUME WithinLimits(jarDb'), Rooted(jarDb'), CookiesOfOwner(jarDb')
  PROVE  JarsWithinLimits' /\ CookiesOfOwner(jarDb)'
BY DEF JarsWithinLimits, WithinLimits, WithinGlobal, WithinJar, Rooted, CookiesOfOwner,
   Bound, Filled, KnownAuthorities

\* No step but the selection of cookies changes what a request has sent.
LEMMA SentKeeps ==
  ASSUME CookieInv, \A q \in Requests : Steady(q),
         \A q \in Requests : Underway(q) => request'[q].sent = request[q].sent
  PROVE  OwnCookiesOnly'
BY DEF CookieInv, OwnCookiesOnly, Steady, Underway

\* A step that writes one running request and keeps its client, jar and lease.
LEMMA FieldsSteady ==
  ASSUME CookieTypeOK, NEW r \in Requests, request[r] \in RunningRequests,
         NEW o \in RunningRequests, request' = [request EXCEPT ![r] = o],
         o.client = request[r].client, o.jar = request[r].jar, o.held = request[r].held,
         o.persisted = request[r].persisted
  PROVE  /\ request' \in [Requests -> [state : {"new", "closed"}] \cup RunningRequests]
         /\ \A q \in Requests : Steady(q)
         /\ request'[r] = o
         /\ \A q \in Requests \ {r} : request'[q] = request[q]
<1>1. request \in [Requests -> [state : {"new", "closed"}] \cup RunningRequests]
  BY DEF CookieTypeOK
<1>. QED BY <1>1 DEF Steady, Underway, RunningRequests

\* A step that writes one running request, keeps what it sent too, and changes
\* no jar and no lease.
LEMMA FieldsKeep ==
  ASSUME CookieInv, NEW r \in Requests, request[r] \in RunningRequests,
         NEW o \in RunningRequests, request' = [request EXCEPT ![r] = o],
         o.client = request[r].client, o.jar = request[r].jar, o.held = request[r].held,
         o.persisted = request[r].persisted, o.sent = request[r].sent,
         UNCHANGED <<jarDb, leases, drawn, now>>
  PROVE  CookieInv'
<1>. USE DEF CookieInv
<1>1. /\ request' \in [Requests -> [state : {"new", "closed"}] \cup RunningRequests]
      /\ \A q \in Requests : Steady(q)
      /\ request'[r] = o
      /\ \A q \in Requests \ {r} : request'[q] = request[q]
  BY FieldsSteady
<1>2. LeasedJarLives' /\ JarsAssigned'
  BY <1>1, SteadyKeeps
<1>3. CookieTypeOK'
  BY <1>1 DEF CookieTypeOK
<1>4. OwnCookiesOnly'
  BY <1>1, SentKeeps
<1>5. (JarsWithinLimits /\ CookiesOfOwner(jarDb))'
  BY DatabaseKept DEF JarsWithinLimits
<1>. QED BY <1>2, <1>3, <1>4, <1>5

\* A request whose cookie state could not begin is closed.
LEMMA BeginFailsKeeps ==
  ASSUME CookieInv, NEW r \in Requests, BeginFails(r)
  PROVE  CookieInv'
<1>. USE DEF CookieInv
<1>1. /\ request' = [request EXCEPT ![r] = Closed] /\ UNCHANGED <<jarDb, leases, drawn, now>>
      /\ request[r].state = "new"
  BY DEF BeginFails
<1>2. /\ request' \in [Requests -> [state : {"new", "closed"}] \cup RunningRequests]
      /\ request'[r] = Closed /\ \A q \in Requests \ {r} : request'[q] = request[q]
  BY <1>1 DEF CookieTypeOK, Closed
<1>3. \A q \in Requests : Steady(q)
  BY <1>1, <1>2 DEF Steady, Underway, Closed
<1>4. LeasedJarLives' /\ JarsAssigned'
  BY <1>1, <1>3, SteadyKeeps
<1>5. CookieTypeOK'
  BY <1>1, <1>2 DEF CookieTypeOK
<1>6. OwnCookiesOnly'
  BY <1>1, <1>2, <1>3, SentKeeps DEF Underway
<1>7. (JarsWithinLimits /\ CookiesOfOwner(jarDb))'
  BY <1>1, DatabaseKept DEF JarsWithinLimits
<1>. QED BY <1>4, <1>5, <1>6, <1>7

\* The state of a request that an action finds running.
LEMMA RunningState ==
  ASSUME CookieInv, NEW r \in Requests, request[r].state \in {"open", "committed", "published"}
  PROVE  request[r] \in RunningRequests
BY RunningFields DEF CookieInv, Underway

\* A response adds its mutation to the overlay of its authority.
LEMMA ApplyResponseKeeps ==
  ASSUME CookieInv, NEW r \in Requests, NEW a \in Authorities, NEW k \in CookieKeys,
         NEW m \in Mutations, ApplyResponse(r, a, k, m)
  PROVE  CookieInv'
<1>. DEFINE old == request[r].overlays[a]
            new == [x \in DOMAIN old \cup {k} |-> IF x = k THEN m ELSE old[x]]
            o == [request[r] EXCEPT !.overlays = [@ EXCEPT ![a] = new]]
<1>1. request[r] \in RunningRequests
  BY RunningState DEF ApplyResponse
<1>2. old \in Overlays
  BY <1>1 DEF RunningRequests
<1>3. request' = [request EXCEPT ![r] = o] /\ UNCHANGED <<jarDb, leases, drawn, now>>
  BY DEF ApplyResponse
<1>. HIDE DEF old
<1>4. PICK K \in SUBSET CookieKeys : old \in [K -> Mutations]
  BY <1>2 DEF Overlays
<1>5. new \in [K \cup {k} -> Mutations]
  BY <1>4
<1>6. new \in Overlays
  BY <1>5 DEF Overlays
<1>. HIDE DEF new
<1>7. /\ o \in RunningRequests /\ o.client = request[r].client /\ o.jar = request[r].jar
      /\ o.held = request[r].held /\ o.persisted = request[r].persisted /\ o.sent = request[r].sent
  BY <1>1, <1>6 DEF RunningRequests
<1>. HIDE DEF o
<1>. QED BY <1>1, <1>3, <1>7, FieldsKeep

\* A commit without a live cookie stores nothing.
LEMMA CommitNothingKeeps ==
  ASSUME CookieInv, NEW r \in Requests, NEW a \in Authorities, CommitNothing(r, a)
  PROVE  CookieInv'
<1>. DEFINE o == [request[r] EXCEPT !.state = "committed", !.overlays = NoOverlays]
<1>1. request[r] \in RunningRequests
  BY RunningState DEF CommitNothing
<1>2. request' = [request EXCEPT ![r] = o] /\ UNCHANGED <<jarDb, leases, drawn, now>>
  BY DEF CommitNothing
<1>3. /\ o \in RunningRequests /\ o.client = request[r].client /\ o.jar = request[r].jar
      /\ o.held = request[r].held /\ o.persisted = request[r].persisted /\ o.sent = request[r].sent
  BY <1>1, NoOverlaysTyped DEF RunningRequests
<1>. HIDE DEF o
<1>. QED BY <1>1, <1>2, <1>3, FieldsKeep

\* A replaced attempt drops its overlay.
LEMMA DiscardKeeps ==
  ASSUME CookieInv, NEW r \in Requests, NEW a \in Authorities, Discard(r, a)
  PROVE  CookieInv'
<1>. DEFINE o == [request[r] EXCEPT !.overlays = [@ EXCEPT ![a] = NoOverlays[a]]]
<1>1. request[r] \in RunningRequests
  BY RunningState DEF Discard
<1>2. request' = [request EXCEPT ![r] = o] /\ UNCHANGED <<jarDb, leases, drawn, now>>
  BY DEF Discard
<1>3. /\ o \in RunningRequests /\ o.client = request[r].client /\ o.jar = request[r].jar
      /\ o.held = request[r].held /\ o.persisted = request[r].persisted /\ o.sent = request[r].sent
  BY <1>1, NoOverlaysTyped DEF RunningRequests
<1>. HIDE DEF o
<1>. QED BY <1>1, <1>2, <1>3, FieldsKeep

\* The handle of an upgrade is reserved.
LEMMA ReserveKeeps ==
  ASSUME CookieInv, NEW r \in Requests, ReserveUpgradeCookie(r)
  PROVE  CookieInv'
<1>. DEFINE o == [request[r] EXCEPT !.reserved = TRUE]
<1>1. request[r] \in RunningRequests
  BY RunningState DEF ReserveUpgradeCookie
<1>2. request' = [request EXCEPT ![r] = o] /\ UNCHANGED <<jarDb, leases, drawn, now>>
  BY DEF ReserveUpgradeCookie
<1>3. /\ o \in RunningRequests /\ o.client = request[r].client /\ o.jar = request[r].jar
      /\ o.held = request[r].held /\ o.persisted = request[r].persisted /\ o.sent = request[r].sent
  BY <1>1 DEF RunningRequests
<1>. HIDE DEF o
<1>. QED BY <1>1, <1>2, <1>3, FieldsKeep

\* The handle goes out with the response.
LEMMA SetCookieKeeps ==
  ASSUME CookieInv, NEW r \in Requests, GatewaySetCookie(r)
  PROVE  CookieInv'
<1>. DEFINE o == [request[r] EXCEPT !.state = "published"]
<1>1. request[r] \in RunningRequests
  BY RunningState DEF GatewaySetCookie
<1>2. request' = [request EXCEPT ![r] = o] /\ UNCHANGED <<jarDb, leases, drawn, now>>
  BY DEF GatewaySetCookie
<1>3. /\ o \in RunningRequests /\ o.client = request[r].client /\ o.jar = request[r].jar
      /\ o.held = request[r].held /\ o.persisted = request[r].persisted /\ o.sent = request[r].sent
  BY <1>1 DEF RunningRequests
<1>. HIDE DEF o
<1>. QED BY <1>1, <1>2, <1>3, FieldsKeep

\* The selected cookies are the request's own client's: the jar is leased, so
\* it is that client's, and so are its cookies.
LEMMA SelectCookiesKeeps ==
  ASSUME CookieInv, NEW r \in Requests, NEW a \in Authorities, SelectCookies(r, a)
  PROVE  CookieInv'
<1>. USE DEF CookieInv
<1>. DEFINE q == request[r]
            new == {jarDb.entries[s].by : s \in Selected(r, a)}
            pick == IF q.persisted THEN <<a, Selected(r, a)>> ELSE NoJar
            o == [q EXCEPT !.sent = @ \cup new, !.picked = pick]
<1>1. Underway(r) /\ q \in RunningRequests
  <2>1. Underway(r)
    BY DEF SelectCookies, Underway
  <2>. QED BY <2>1, RunningFields
<1>2. ASSUME NEW s \in Selected(r, a) PROVE jarDb.entries[s].by = q.client
  <2>1. q.persisted /\ s \in Filled(jarDb, Slots) /\ s[1] = q.jar
    BY DEF Selected, Filled, AuthoritySlots
  <2>2. q.held /\ q.jar \in Jars
    BY <1>1, <2>1 DEF JarsAssigned, RunningRequests
  <2>3. r \in Holders(q.jar)
    BY <1>1, <2>2 DEF Holders, Underway
  <2>4. jarDb.handles[q.jar] # NoJar /\ jarDb.handles[q.jar].owner = q.client
    BY <2>2, <2>3 DEF LeasedJarLives
  <2>. QED BY <2>1, <2>4 DEF CookiesOfOwner
<1>3. new \subseteq {q.client}
  BY <1>2
<1>4. Selected(r, a) \subseteq Slots
  BY DEF Selected, Filled, AuthoritySlots
<1>5. pick \in {NoJar} \cup (Authorities \X SUBSET Slots)
  BY <1>4
<1>6. request' = [request EXCEPT ![r] = o] /\ UNCHANGED <<jarDb, leases, drawn, now>>
  BY DEF SelectCookies
<1>. HIDE DEF new, pick
<1>7. /\ o \in RunningRequests /\ o.client = q.client /\ o.jar = q.jar /\ o.held = q.held
      /\ o.persisted = q.persisted /\ o.sent = q.sent \cup new
  BY <1>1, <1>3, <1>5 DEF RunningRequests
<1>. HIDE DEF o
<1>8. /\ request' \in [Requests -> [state : {"new", "closed"}] \cup RunningRequests]
      /\ \A p \in Requests : Steady(p)
      /\ request'[r] = o
      /\ \A p \in Requests \ {r} : request'[p] = request[p]
  BY <1>1, <1>6, <1>7, FieldsSteady
<1>9. LeasedJarLives' /\ JarsAssigned'
  BY <1>6, <1>8, SteadyKeeps
<1>10. CookieTypeOK'
  BY <1>6, <1>8 DEF CookieTypeOK
<1>11. OwnCookiesOnly'
  <2>1. q.sent \subseteq {q.client}
    BY <1>1 DEF OwnCookiesOnly, Underway
  <2>2. request'[r].sent \subseteq {request'[r].client}
    BY <1>3, <1>7, <1>8, <2>1
  <2>3. ASSUME NEW p \in Requests \ {r}, request'[p].state \notin {"new", "closed"}
        PROVE  request'[p].sent \subseteq {request'[p].client}
    BY <1>8, <2>3 DEF OwnCookiesOnly
  <2>. QED BY <2>2, <2>3 DEF OwnCookiesOnly
<1>12. (JarsWithinLimits /\ CookiesOfOwner(jarDb))'
  BY <1>6, DatabaseKept DEF JarsWithinLimits
<1>. QED BY <1>9, <1>10, <1>11, <1>12

\* A mark of use changes no binding and fills or empties nothing.
LEMMA TouchKeeps ==
  ASSUME CookieInv, NEW r \in Requests, Touch(r)
  PROVE  CookieInv'
<1>. USE DEF CookieInv
<1>. DEFINE q == request[r]
            there == Filled(jarDb, q.picked[2])
            p == <<q.jar, q.picked[1]>>
            entries == [s \in Slots |-> IF s \in there
                          THEN EntryUsed(jarDb.entries[s]) ELSE jarDb.entries[s]]
            authorities == [jarDb.authorities EXCEPT ![p] =
                              IF there = {} \/ @ = NoJar THEN @
                              ELSE [access |-> Most(@.access, now), unreachable |-> NoJar]]
            o == [q EXCEPT !.picked = NoJar]
<1>1. Underway(r) /\ q \in RunningRequests
  <2>1. Underway(r)
    BY DEF Touch, Underway
  <2>. QED BY <2>1, RunningFields
<1>2. jarDb \in Databases /\ now \in Nat
  BY DEF CookieTypeOK
<1>3. request' = [request EXCEPT ![r] = o] /\ UNCHANGED <<leases, drawn, now>>
  BY DEF Touch
<1>4. jarDb' = [jarDb EXCEPT !.entries = entries, !.authorities = authorities]
  BY <1>2 DEF Touch, Databases
<1>5. ASSUME NEW s \in Slots
      PROVE  /\ entries[s] \in Entries \cup {NoJar}
             /\ entries[s] # NoJar => jarDb.entries[s] # NoJar /\ entries[s].by = jarDb.entries[s].by
  <2>1. jarDb.entries[s] \in Entries \cup {NoJar}
    BY <1>2 DEF Databases
  <2>2. CASE s \in there
    <3>1. jarDb.entries[s] \in Entries
      BY <2>1, <2>2 DEF Filled
    <3>. QED BY <1>2, <2>2, <3>1 DEF Entries, EntryUsed, Most, Filled
  <2>3. CASE s \notin there
    BY <2>1, <2>3
  <2>. QED BY <2>2, <2>3
<1>6. ASSUME NEW x \in Jars \X Authorities
      PROVE  /\ authorities[x] \in AuthorityRows \cup {NoJar}
             /\ authorities[x] # NoJar <=> jarDb.authorities[x] # NoJar
  <2>. DEFINE row == jarDb.authorities[x]
  <2>1. row \in AuthorityRows \cup {NoJar} /\ jarDb.authorities \in [Jars \X Authorities -> AuthorityRows \cup {NoJar}]
    BY <1>2 DEF Databases
  <2>2. CASE x = p /\ there # {} /\ row # NoJar
    <3>1. authorities[x] = [access |-> Most(row.access, now), unreachable |-> NoJar]
      BY <2>1, <2>2
    <3>2. Most(row.access, now) \in Nat
      BY <1>2, <2>1, <2>2 DEF AuthorityRows, Most
    <3>3. [access |-> Most(row.access, now), unreachable |-> NoJar] \in AuthorityRows
      BY <3>2 DEF AuthorityRows
    <3>. QED BY <2>2, <3>1, <3>3, CookieAssumption
  <2>3. CASE ~(x = p /\ there # {} /\ row # NoJar)
    BY <2>1, <2>3
  <2>. QED BY <2>2, <2>3
<1>7. /\ entries \in [Slots -> Entries \cup {NoJar}]
      /\ authorities \in [Jars \X Authorities -> AuthorityRows \cup {NoJar}]
  <2>1. entries \in [Slots -> Entries \cup {NoJar}]
    BY <1>5
  <2>2. DOMAIN authorities = Jars \X Authorities
    BY <1>2 DEF Databases
  <2>3. authorities = [x \in DOMAIN authorities |-> authorities[x]]
    BY <1>2 DEF Databases
  <2>. QED BY <1>6, <2>1, <2>2, <2>3
<1>. HIDE DEF entries, authorities
<1>8. /\ jarDb' \in Databases /\ jarDb'.handles = jarDb.handles
      /\ jarDb'.entries = entries /\ jarDb'.authorities = authorities
  BY <1>2, <1>4, <1>7 DEF Databases
<1>9. Below(jarDb', jarDb)
  BY <1>5, <1>6, <1>8 DEF Below
<1>10. Rooted(jarDb')
  BY <1>5, <1>6, <1>8, SlotParts DEF JarsWithinLimits, Rooted, Filled
<1>11. WithinLimits(jarDb') /\ CookiesOfOwner(jarDb')
  BY <1>9, BelowIsWithin, BelowIsOwned DEF JarsWithinLimits
<1>12. /\ o \in RunningRequests /\ o.client = q.client /\ o.jar = q.jar /\ o.held = q.held
       /\ o.persisted = q.persisted /\ o.sent = q.sent
  BY <1>1 DEF RunningRequests
<1>. HIDE DEF o
<1>13. /\ request' \in [Requests -> [state : {"new", "closed"}] \cup RunningRequests]
       /\ \A x \in Requests : Steady(x)
       /\ request'[r] = o
       /\ \A x \in Requests \ {r} : request'[x] = request[x]
  BY <1>1, <1>3, <1>12, FieldsSteady
<1>14. LeasedJarLives' /\ JarsAssigned'
  BY <1>3, <1>8, <1>13, SteadyKeeps
<1>15. CookieTypeOK'
  BY <1>3, <1>8, <1>13 DEF CookieTypeOK
<1>16. OwnCookiesOnly'
  BY <1>1, <1>12, <1>13 DEF OwnCookiesOnly, Underway
<1>. QED BY <1>10, <1>11, <1>14, <1>15, <1>16, DatabaseKept

\* A merge into the leased jar, after the cleanup of the same transaction.
LEMMA CommitMergeKeeps ==
  ASSUME CookieInv, NEW r \in Requests, NEW a \in Authorities, CommitMerge(r, a)
  PROVE  CookieInv'
<1>. USE DEF CookieInv
<1>. DEFINE q == request[r]
            d == CleanupStale(jarDb)
            o == [q EXCEPT !.state = "committed", !.overlays = NoOverlays]
<1>1. Underway(r) /\ q \in RunningRequests /\ q.persisted
  <2>1. Underway(r) /\ q.persisted
    BY DEF CommitMerge, Underway
  <2>. QED BY <2>1, RunningFields
<1>2. q.held /\ q.jar \in Jars /\ q.client \in Clients
  BY <1>1 DEF JarsAssigned, RunningRequests
<1>3. r \in Holders(q.jar)
  BY <1>1, <1>2 DEF Holders, Underway
<1>4. Active(q.jar) /\ jarDb.handles[q.jar] # NoJar /\ jarDb.handles[q.jar].owner = q.client
  BY <1>2, <1>3, HeldIsActive DEF LeasedJarLives
<1>5. /\ jarDb' \in MergeTransaction(d, q.jar, a, q.overlays[a], q.client)
      /\ request' = [request EXCEPT ![r] = o] /\ UNCHANGED <<leases, drawn, now>>
  BY DEF CommitMerge
<1>6. /\ d \in Databases /\ Below(d, jarDb) /\ Rooted(d)
      /\ \A j \in Jars : Active(j) => d.handles[j] = jarDb.handles[j]
  BY CleanupShrinks DEF CookieTypeOK, JarsWithinLimits
<1>. HIDE DEF d
<1>7. CookiesOfOwner(d) /\ \A i \in Jars : WithinJar(d, i)
  BY <1>6, BelowIsOwned, BelowIsWithin DEF JarsWithinLimits, WithinLimits
<1>8. /\ jarDb' \in Databases /\ Rooted(jarDb') /\ CookiesOfOwner(jarDb') /\ WithinLimits(jarDb')
      /\ \A i \in Jars : i = q.jar \/ Active(i) => jarDb'.handles[i] = d.handles[i]
      /\ \A i \in Jars : jarDb'.handles[i] # NoJar => d.handles[i] # NoJar
  BY <1>2, <1>4, <1>5, <1>6, <1>7, MergeKeeps
<1>9. /\ o \in RunningRequests /\ o.client = q.client /\ o.jar = q.jar /\ o.held = q.held
      /\ o.persisted = q.persisted /\ o.sent = q.sent
  BY <1>1, NoOverlaysTyped DEF RunningRequests
<1>. HIDE DEF o
<1>10. /\ request' \in [Requests -> [state : {"new", "closed"}] \cup RunningRequests]
       /\ \A x \in Requests : Steady(x)
       /\ request'[r] = o
       /\ \A x \in Requests \ {r} : request'[x] = request[x]
  BY <1>1, <1>5, <1>9, FieldsSteady
<1>11. /\ \A j \in Jars : jarDb'.handles[j] # NoJar => jarDb.handles[j] # NoJar
       /\ \A j \in Jars : Active(j) /\ jarDb.handles[j] # NoJar =>
            jarDb'.handles[j] # NoJar /\ jarDb'.handles[j].owner = jarDb.handles[j].owner
  BY <1>6, <1>8 DEF Below
<1>12. LeasedJarLives' /\ JarsAssigned'
  BY <1>5, <1>10, <1>11, SteadyKeeps
<1>13. CookieTypeOK'
  BY <1>5, <1>8, <1>10 DEF CookieTypeOK
<1>14. OwnCookiesOnly'
  BY <1>9, <1>10, SentKeeps
<1>. QED BY <1>8, <1>12, <1>13, <1>14, DatabaseKept

\* Marking authorities as reachable or not fills and empties nothing.
LEMMA ReachabilityMarks ==
  ASSUME NEW d \in Databases, NEW reachable, now \in Nat
  PROVE  LET e == ApplyAuthorityReachability(d, reachable) IN
         /\ e \in Databases
         /\ Below(e, d)
         /\ e.handles = d.handles
         /\ Rooted(d) => Rooted(e)
<1>. DEFINE authorities == [p \in Jars \X Authorities |->
                              IF d.authorities[p] = NoJar THEN NoJar
                              ELSE MarkReachable(d.authorities[p], p[2] \in reachable)]
            e == ApplyAuthorityReachability(d, reachable)
<1>1. ASSUME NEW p \in Jars \X Authorities
      PROVE  /\ authorities[p] \in AuthorityRows \cup {NoJar}
             /\ authorities[p] # NoJar <=> d.authorities[p] # NoJar
  <2>1. d.authorities[p] \in AuthorityRows \cup {NoJar}
    BY DEF Databases
  <2>2. CASE d.authorities[p] = NoJar
    BY <2>2
  <2>3. CASE d.authorities[p] # NoJar
    <3>1. MarkReachable(d.authorities[p], p[2] \in reachable) \in AuthorityRows
      BY <2>1, <2>3 DEF AuthorityRows, MarkReachable
    <3>2. authorities[p] = MarkReachable(d.authorities[p], p[2] \in reachable)
      BY <2>3
    <3>. QED BY <2>3, <3>1, <3>2, CookieAssumption
  <2>. QED BY <2>2, <2>3
<1>2. authorities \in [Jars \X Authorities -> AuthorityRows \cup {NoJar}]
  BY <1>1
<1>3. e = [d EXCEPT !.authorities = authorities]
  BY DEF ApplyAuthorityReachability
<1>. HIDE DEF authorities, e
<1>4. e \in Databases /\ e.handles = d.handles /\ e.entries = d.entries /\ e.authorities = authorities
  BY <1>2, <1>3 DEF Databases
<1>5. Below(e, d)
  BY <1>1, <1>4 DEF Below
<1>6. Rooted(d) => Rooted(e)
  BY <1>1, <1>4, SlotParts DEF Rooted, Filled
<1>. QED BY <1>4, <1>5, <1>6 DEF e

\* Maintenance only shrinks the jars, and no leased one.
LEMMA CleanupKeeps ==
  ASSUME CookieInv, NEW reachable, Cleanup(reachable)
  PROVE  CookieInv'
<1>. USE DEF CookieInv
<1>. DEFINE d1 == CleanupStale(jarDb)
            d2 == ApplyAuthorityReachability(d1, reachable)
            d3 == CleanupStale(d2)
            empty == {j \in Bound(d3) : Filled(d3, JarSlots(j)) = {} /\ ~Active(j)}
<1>0. jarDb' = DeleteJars(d3, empty) /\ UNCHANGED <<request, leases, drawn, now>>
  BY DEF Cleanup, DeleteEmptyBindings
<1>1. /\ d1 \in Databases /\ Below(d1, jarDb) /\ Rooted(d1)
      /\ \A j \in Jars : Active(j) => d1.handles[j] = jarDb.handles[j]
  BY CleanupShrinks DEF CookieTypeOK, JarsWithinLimits
<1>. HIDE DEF d1
<1>2. d2 \in Databases /\ Below(d2, d1) /\ Rooted(d2) /\ d2.handles = d1.handles
  BY <1>1, ReachabilityMarks DEF CookieTypeOK
<1>. HIDE DEF d2
<1>3. /\ d3 \in Databases /\ Below(d3, d2) /\ Rooted(d3)
      /\ \A j \in Jars : Active(j) => d3.handles[j] = d2.handles[j]
  BY <1>2, CleanupShrinks
<1>. HIDE DEF d3
<1>4. /\ jarDb' \in Databases /\ Below(jarDb', d3) /\ Rooted(jarDb')
      /\ \A j \in Jars : jarDb'.handles[j] = IF j \in empty THEN NoJar ELSE d3.handles[j]
  BY <1>0, <1>3, DeleteJarsShrinks
<1>5. \A j \in Jars : Active(j) => jarDb'.handles[j] = jarDb.handles[j]
  BY <1>1, <1>2, <1>3, <1>4
<1>6. Below(jarDb', jarDb)
  BY <1>1, <1>2, <1>3, <1>4, BelowIsTransitive
<1>7. WithinLimits(jarDb') /\ CookiesOfOwner(jarDb')
  BY <1>6, BelowIsWithin, BelowIsOwned DEF JarsWithinLimits
<1>8. \A q \in Requests : Steady(q)
  BY <1>0 DEF Steady, Underway
<1>9. \A j \in Jars : jarDb'.handles[j] # NoJar => jarDb.handles[j] # NoJar
  BY <1>6 DEF Below
<1>10. LeasedJarLives' /\ JarsAssigned'
  BY <1>0, <1>5, <1>8, <1>9, SteadyKeeps
<1>11. CookieTypeOK'
  BY <1>0, <1>4 DEF CookieTypeOK
<1>12. OwnCookiesOnly'
  BY <1>0, <1>8, SentKeeps
<1>. QED BY <1>4, <1>7, <1>10, <1>11, <1>12, DatabaseKept
\* Time changes no jar, request or lease.
LEMMA TickKeeps ==
  ASSUME CookieInv, Tick
  PROVE  CookieInv'
<1>. USE DEF CookieInv
<1>1. UNCHANGED <<jarDb, request, leases, drawn>> /\ now' \in Nat
  BY DEF Tick, CookieTypeOK
<1>2. \A q \in Requests : Steady(q)
  BY <1>1 DEF Steady, Underway
<1>3. LeasedJarLives' /\ JarsAssigned'
  BY <1>1, <1>2, SteadyKeeps
<1>4. CookieTypeOK'
  BY <1>1 DEF CookieTypeOK
<1>5. OwnCookiesOnly'
  BY <1>1, <1>2, SentKeeps
<1>6. (JarsWithinLimits /\ CookiesOfOwner(jarDb))'
  BY <1>1, DatabaseKept DEF JarsWithinLimits
<1>. QED BY <1>3, <1>4, <1>5, <1>6

\* A request that becomes a holder adds one lease, and one that stops takes
\* one away.
LEMMA HolderCounts ==
  ASSUME CookieInv, NEW r \in Requests, NEW j \in Jars,
         \A i \in Jars \ {j} : Holders(i)' = Holders(i),
         \/ /\ r \notin Holders(j) /\ Holders(j)' = Holders(j) \cup {r}
            /\ leases' = [leases EXCEPT ![j] = @ + 1]
         \/ /\ r \in Holders(j) /\ Holders(j)' = Holders(j) \ {r}
            /\ leases' = [leases EXCEPT ![j] = @ - 1]
  PROVE  /\ leases' \in [Jars -> Nat]
         /\ \A i \in Jars : leases'[i] = Cardinality(Holders(i)')
<1>1. leases \in [Jars -> Nat] /\ \A i \in Jars : leases[i] = Cardinality(Holders(i))
  BY DEF CookieInv, CookieTypeOK, LeasedJarLives
<1>2. IsFiniteSet(Holders(j)) /\ Cardinality(Holders(j)) \in Nat
  BY HoldersFinite
<1>3. CASE r \notin Holders(j) /\ Holders(j)' = Holders(j) \cup {r} /\ leases' = [leases EXCEPT ![j] = @ + 1]
  <2>1. Cardinality(Holders(j)') = Cardinality(Holders(j)) + 1
    BY <1>2, <1>3, FS_AddElement
  <2>2. leases'[j] = leases[j] + 1 /\ \A i \in Jars \ {j} : leases'[i] = leases[i]
    BY <1>1, <1>3
  <2>3. \A i \in Jars : leases'[i] = Cardinality(Holders(i)')
    BY <1>1, <2>1, <2>2
  <2>. QED BY <1>1, <1>3, <2>3
<1>4. CASE r \in Holders(j) /\ Holders(j)' = Holders(j) \ {r} /\ leases' = [leases EXCEPT ![j] = @ - 1]
  <2>1. Cardinality(Holders(j)') = Cardinality(Holders(j)) - 1 /\ IsFiniteSet(Holders(j)')
    BY <1>2, <1>4, FS_RemoveElement
  <2>2. Cardinality(Holders(j)') \in Nat
    BY <2>1, FS_CardinalityType
  <2>3. leases'[j] = leases[j] - 1 /\ \A i \in Jars \ {j} : leases'[i] = leases[i]
    BY <1>1, <1>4
  <2>4. \A i \in Jars : leases'[i] = Cardinality(Holders(i)')
    BY <1>1, <2>1, <2>3
  <2>. QED BY <1>1, <1>4, <2>2, <2>4
<1>. QED BY <1>3, <1>4

\* The lease of a live jar of the client is taken by the step that renews it.
LEMMA BeginReuseKeeps ==
  ASSUME CookieInv, NEW r \in Requests, NEW c \in Clients, NEW j \in Jars, BeginReuse(r, c, j)
  PROVE  CookieInv'
<1>. USE DEF CookieInv
<1>. DEFINE row == jarDb.handles[j]
            o == [state |-> "open", client |-> c, jar |-> j, persisted |-> TRUE,
                  publish |-> Remaining(row) <= RefreshWindow, reserved |-> FALSE, held |-> TRUE,
                  overlays |-> NoOverlays, sent |-> {}, picked |-> NoJar]
<1>1. /\ request \in [Requests -> [state : {"new", "closed"}] \cup RunningRequests]
      /\ jarDb \in Databases /\ now \in Nat
  BY DEF CookieTypeOK
<1>2. /\ request[r].state = "new" /\ row # NoJar /\ row.owner = c
      /\ jarDb' = [jarDb EXCEPT !.handles = [@ EXCEPT ![j] = Touched(row)]]
      /\ leases' = [leases EXCEPT ![j] = @ + 1]
      /\ request' = [request EXCEPT ![r] = o] /\ UNCHANGED <<drawn, now>>
  BY DEF BeginReuse, Opened, JarUsable, Owned
<1>3. row \in Bindings
  BY <1>1, <1>2 DEF Databases
<1>4. Touched(row) \in Bindings /\ Touched(row).owner = c
  <2>1. IdleTTL \in Nat
    BY CookieAssumption
  <2>2. Most(row.access, now) \in Nat
    BY <1>1, <1>3 DEF Bindings, Most
  <2>3. Least(row.absolute, Most(row.idle, Most(row.access, now) + IdleTTL)) \in Nat
    BY <1>3, <2>1, <2>2 DEF Bindings, Least, Most
  <2>. HIDE DEF row
  <2>. QED BY <1>2, <1>3, <2>2, <2>3 DEF Bindings, Touched
<1>5. Touched(row) # NoJar
  BY <1>4, CookieAssumption
<1>6. o \in RunningRequests
  BY NoOverlaysTyped DEF RunningRequests
<1>7. /\ jarDb' \in Databases /\ jarDb'.authorities = jarDb.authorities /\ jarDb'.entries = jarDb.entries
      /\ \A i \in Jars : jarDb'.handles[i] = IF i = j THEN Touched(row) ELSE jarDb.handles[i]
  <2>. DEFINE handles == [jarDb.handles EXCEPT ![j] = Touched(row)]
  <2>1. handles \in [Jars -> Bindings \cup {NoJar}]
    BY <1>1, <1>4 DEF Databases
  <2>2. \A i \in Jars : handles[i] = IF i = j THEN Touched(row) ELSE jarDb.handles[i]
    BY <1>1 DEF Databases
  <2>3. jarDb' = [jarDb EXCEPT !.handles = handles]
    BY <1>2
  <2>. HIDE DEF handles
  <2>. QED BY <1>1, <2>1, <2>2, <2>3 DEF Databases
<1>8. /\ request' \in [Requests -> [state : {"new", "closed"}] \cup RunningRequests]
      /\ request'[r] = o /\ \A q \in Requests \ {r} : request'[q] = request[q]
  BY <1>1, <1>2, <1>6
<1>9. /\ r \notin Holders(j) /\ Holders(j)' = Holders(j) \cup {r}
      /\ \A i \in Jars \ {j} : Holders(i)' = Holders(i)
  BY <1>2, <1>8 DEF Holders
<1>. HIDE DEF row
<1>10. leases' \in [Jars -> Nat] /\ \A i \in Jars : leases'[i] = Cardinality(Holders(i)')
  BY <1>2, <1>9, HolderCounts
<1>11. LeasedJarLives'
  <2>1. ASSUME NEW i \in Jars, NEW q \in Holders(i)'
        PROVE  jarDb'.handles[i] # NoJar /\ jarDb'.handles[i].owner = request'[q].client
    <3>1. CASE q = r
      <4>1. i = j
        BY <1>8, <3>1 DEF Holders
      <4>. QED BY <1>4, <1>5, <1>7, <1>8, <3>1, <4>1
    <3>2. CASE q # r
      <4>1. q \in Holders(i) /\ q \in Requests \ {r}
        BY <1>9, <3>2 DEF Holders
      <4>2. jarDb.handles[i] # NoJar /\ jarDb.handles[i].owner = request[q].client
        BY <4>1 DEF LeasedJarLives
      <4>. QED BY <1>2, <1>4, <1>5, <1>7, <1>8, <4>1, <4>2 DEF row
    <3>. QED BY <3>1, <3>2
  <2>. QED BY <1>10, <2>1 DEF LeasedJarLives
<1>12. JarsAssigned'
  <2>1. j \in drawn
    BY <1>2 DEF JarsAssigned, Bound, row
  <2>2. (Bound(jarDb) \subseteq drawn)'
    BY <1>2, <1>7, <2>1 DEF JarsAssigned, Bound
  <2>3. ASSUME NEW q \in Requests \ {r}, Underway(q)'
        PROVE  /\ request'[q].jar \in drawn'
               /\ request'[q].held = request'[q].persisted
               /\ ~request'[q].persisted =>
                    /\ jarDb'.handles[request'[q].jar] = NoJar
                    /\ \A p \in Requests \ {q} : Underway(p)' => request'[p].jar # request'[q].jar
    <3>1. Underway(q) /\ request'[q] = request[q]
      BY <1>8, <2>3 DEF Underway
    <3>2. request[q].jar \in Jars
      BY <3>1, RunningFields DEF RunningRequests
    <3>3. ~request[q].persisted => request[q].jar # j
      BY <1>2, <3>1 DEF JarsAssigned, row
    <3>4. ASSUME ~request[q].persisted, NEW p \in Requests \ {q}, Underway(p)'
          PROVE  request'[p].jar # request[q].jar
      <4>1. CASE p = r
        BY <1>8, <3>3, <3>4, <4>1
      <4>2. CASE p # r
        <5>1. Underway(p) /\ request'[p] = request[p]
          BY <1>8, <3>4, <4>2 DEF Underway
        <5>. QED BY <3>1, <3>4, <5>1 DEF JarsAssigned
      <4>. QED BY <4>1, <4>2
    <3>. QED BY <1>2, <1>7, <3>1, <3>2, <3>3, <3>4 DEF JarsAssigned
  <2>4. request'[r].jar \in drawn' /\ request'[r].held = request'[r].persisted /\ request'[r].persisted
    BY <1>2, <1>8, <2>1
  <2>. QED BY <2>2, <2>3, <2>4 DEF JarsAssigned
<1>13. CookieTypeOK'
  BY <1>1, <1>2, <1>7, <1>8, <1>10 DEF CookieTypeOK
<1>14. OwnCookiesOnly'
  BY <1>8 DEF OwnCookiesOnly
<1>15. Below(jarDb', jarDb) /\ Rooted(jarDb')
  BY <1>2, <1>4, <1>5, <1>7, SlotParts DEF Below, JarsWithinLimits, Rooted, Filled, row
<1>16. WithinLimits(jarDb') /\ CookiesOfOwner(jarDb')
  BY <1>15, BelowIsWithin, BelowIsOwned DEF JarsWithinLimits
<1>. QED BY <1>11, <1>12, <1>13, <1>14, <1>15, <1>16, DatabaseKept

\* A fresh jar is this request's alone and is not stored.
LEMMA BeginTransientKeeps ==
  ASSUME CookieInv, NEW r \in Requests, NEW c \in Clients, NEW j \in Jars, BeginTransient(r, c, j)
  PROVE  CookieInv'
<1>. USE DEF CookieInv
<1>. DEFINE o == [state |-> "open", client |-> c, jar |-> j, persisted |-> FALSE,
                  publish |-> FALSE, reserved |-> FALSE, held |-> FALSE,
                  overlays |-> NoOverlays, sent |-> {}, picked |-> NoJar]
<1>1. request \in [Requests -> [state : {"new", "closed"}] \cup RunningRequests]
  BY DEF CookieTypeOK
<1>2. /\ request[r].state = "new" /\ j \notin drawn /\ drawn' = drawn \cup {j}
      /\ request' = [request EXCEPT ![r] = o] /\ UNCHANGED <<jarDb, leases, now>>
  BY DEF BeginTransient, Opened
<1>3. o \in RunningRequests
  BY NoOverlaysTyped DEF RunningRequests
<1>4. /\ request' \in [Requests -> [state : {"new", "closed"}] \cup RunningRequests]
      /\ request'[r] = o /\ \A q \in Requests \ {r} : request'[q] = request[q]
  BY <1>1, <1>2, <1>3
<1>5. \A i \in Jars : Holders(i)' = Holders(i)
  BY <1>2, <1>4 DEF Holders
<1>6. LeasedJarLives'
  <2>1. ASSUME NEW i \in Jars, NEW q \in Holders(i)'
        PROVE  jarDb'.handles[i] # NoJar /\ jarDb'.handles[i].owner = request'[q].client
    <3>1. q \in Holders(i) /\ q \in Requests \ {r}
      BY <1>2, <1>5 DEF Holders
    <3>. QED BY <1>2, <1>4, <3>1 DEF LeasedJarLives
  <2>. QED BY <1>2, <1>5, <2>1 DEF LeasedJarLives
<1>7. JarsAssigned'
  <2>1. jarDb.handles[j] = NoJar
    BY <1>2 DEF JarsAssigned, Bound
  <2>2. (Bound(jarDb) \subseteq drawn)'
    BY <1>2 DEF JarsAssigned, Bound
  <2>3. ASSUME NEW q \in Requests \ {r}, Underway(q)'
        PROVE  Underway(q) /\ request'[q] = request[q] /\ request[q].jar \in drawn /\ request[q].jar # j
    <3>1. Underway(q) /\ request'[q] = request[q]
      BY <1>4, <2>3 DEF Underway
    <3>. QED BY <1>2, <3>1 DEF JarsAssigned
  <2>4. ASSUME NEW q \in Requests \ {r}, Underway(q)'
        PROVE  /\ request'[q].jar \in drawn'
               /\ request'[q].held = request'[q].persisted
               /\ ~request'[q].persisted =>
                    /\ jarDb'.handles[request'[q].jar] = NoJar
                    /\ \A p \in Requests \ {q} : Underway(p)' => request'[p].jar # request'[q].jar
    <3>1. Underway(q) /\ request'[q] = request[q] /\ request[q].jar \in drawn /\ request[q].jar # j
      BY <2>3, <2>4
    <3>2. ASSUME ~request[q].persisted, NEW p \in Requests \ {q}, Underway(p)'
          PROVE  request'[p].jar # request[q].jar
      <4>1. CASE p = r
        BY <1>4, <3>1, <4>1
      <4>2. CASE p # r
        BY <2>3, <3>1, <3>2, <4>2 DEF JarsAssigned
      <4>. QED BY <4>1, <4>2
    <3>. QED BY <1>2, <3>1, <3>2 DEF JarsAssigned
  <2>5. /\ request'[r].jar \in drawn' /\ request'[r].held = request'[r].persisted
        /\ jarDb'.handles[request'[r].jar] = NoJar
        /\ \A p \in Requests \ {r} : Underway(p)' => request'[p].jar # request'[r].jar
    BY <1>2, <1>4, <2>1, <2>3
  <2>. QED BY <2>2, <2>4, <2>5 DEF JarsAssigned
<1>8. CookieTypeOK'
  BY <1>2, <1>4 DEF CookieTypeOK
<1>9. OwnCookiesOnly'
  BY <1>4 DEF OwnCookiesOnly
<1>10. (JarsWithinLimits /\ CookiesOfOwner(jarDb))'
  BY <1>2, DatabaseKept DEF JarsWithinLimits
<1>. QED BY <1>6, <1>7, <1>8, <1>9, <1>10

\* The end of a request gives its lease back.
LEMMA DiscardAllKeeps ==
  ASSUME CookieInv, NEW r \in Requests, DiscardAll(r)
  PROVE  CookieInv'
<1>. USE DEF CookieInv
<1>1. request \in [Requests -> [state : {"new", "closed"}] \cup RunningRequests]
  BY DEF CookieTypeOK
<1>2. /\ leases' = LeaseReleased(r)
      /\ request' = [request EXCEPT ![r] = Closed] /\ UNCHANGED <<jarDb, drawn, now>>
  BY DEF DiscardAll
<1>3. Underway(r) /\ request[r] \in RunningRequests
  <2>1. Underway(r)
    BY DEF DiscardAll, Underway
  <2>. QED BY <2>1, RunningFields
<1>4. request[r].jar \in Jars /\ request[r].held \in BOOLEAN
  BY <1>3 DEF RunningRequests
<1>5. /\ request' \in [Requests -> [state : {"new", "closed"}] \cup RunningRequests]
      /\ request'[r] = Closed /\ \A q \in Requests \ {r} : request'[q] = request[q]
  BY <1>1, <1>2 DEF Closed
<1>6. \A i \in Jars : Holders(i)' = Holders(i) \ {r}
  BY <1>5 DEF Holders, Closed
<1>7. \A i \in Jars : r \in Holders(i) <=> request[r].held /\ i = request[r].jar
  BY <1>3 DEF Holders, Underway
<1>8. leases' \in [Jars -> Nat] /\ \A i \in Jars : leases'[i] = Cardinality(Holders(i)')
  <2>1. CASE request[r].held
    <3>1. PICK j \in Jars : j = request[r].jar
      BY <1>4
    <3>2. r \in Holders(j) /\ \A i \in Jars \ {j} : Holders(i)' = Holders(i)
      BY <1>6, <1>7, <2>1, <3>1
    <3>3. leases' = [leases EXCEPT ![j] = @ - 1] /\ Holders(j)' = Holders(j) \ {r}
      BY <1>2, <1>6, <2>1, <3>1 DEF LeaseReleased
    <3>. QED BY <3>2, <3>3, HolderCounts
  <2>2. CASE ~request[r].held
    <3>1. \A i \in Jars : Holders(i)' = Holders(i)
      BY <1>6, <1>7, <2>2
    <3>. QED BY <1>2, <2>2, <3>1 DEF LeaseReleased, LeasedJarLives, CookieTypeOK
  <2>. QED BY <2>1, <2>2
<1>9. LeasedJarLives'
  <2>1. ASSUME NEW i \in Jars, NEW q \in Holders(i)'
        PROVE  jarDb'.handles[i] # NoJar /\ jarDb'.handles[i].owner = request'[q].client
    <3>1. q \in Holders(i) /\ q \in Requests \ {r}
      BY <1>6 DEF Holders
    <3>. QED BY <1>2, <1>5, <3>1 DEF LeasedJarLives
  <2>. QED BY <1>8, <2>1 DEF LeasedJarLives
<1>10. ASSUME NEW q \in Requests, Underway(q)' PROVE q # r /\ Underway(q) /\ request'[q] = request[q]
  BY <1>5, <1>10 DEF Underway, Closed
<1>11. JarsAssigned'
  BY <1>2, <1>10 DEF JarsAssigned, Bound
<1>12. CookieTypeOK'
  BY <1>2, <1>5, <1>8 DEF CookieTypeOK
<1>13. OwnCookiesOnly'
  BY <1>10 DEF OwnCookiesOnly, Underway
<1>14. (JarsWithinLimits /\ CookiesOfOwner(jarDb))'
  BY <1>2, DatabaseKept DEF JarsWithinLimits
<1>. QED BY <1>9, <1>11, <1>12, <1>13, <1>14

\* A restart loses the requests and all leases together.
LEMMA RestartKeeps ==
  ASSUME CookieInv, CookieRestart
  PROVE  CookieInv'
<1>. USE DEF CookieInv
<1>1. /\ leases' = [j \in Jars |-> 0] /\ UNCHANGED <<jarDb, drawn, now>>
      /\ request' = [r \in Requests |-> IF request[r].state = "new" THEN request[r] ELSE Closed]
  BY DEF CookieRestart
<1>2. request' \in [Requests -> [state : {"new", "closed"}] \cup RunningRequests]
  BY <1>1 DEF CookieTypeOK, Closed
<1>3. \A r \in Requests : ~Underway(r)'
  BY <1>1 DEF Underway, Closed
<1>4. \A j \in Jars : Holders(j)' = {}
  BY <1>3 DEF Holders, Underway
<1>5. Cardinality({}) = 0
  BY FS_EmptySet
<1>6. LeasedJarLives'
  BY <1>1, <1>4, <1>5 DEF LeasedJarLives
<1>7. JarsAssigned'
  BY <1>1, <1>3 DEF JarsAssigned, Bound
<1>8. CookieTypeOK'
  BY <1>1, <1>2 DEF CookieTypeOK
<1>9. OwnCookiesOnly'
  BY <1>3 DEF OwnCookiesOnly, Underway
<1>10. (JarsWithinLimits /\ CookiesOfOwner(jarDb))'
  BY <1>1, DatabaseKept DEF JarsWithinLimits
<1>. QED BY <1>6, <1>7, <1>8, <1>9, <1>10

\* Creating the jar: it was nobody else's and empty, and it is bound, leased
\* and merged into by one step.
LEMMA CommitCreateKeeps ==
  ASSUME CookieInv, NEW r \in Requests, NEW a \in Authorities, CommitCreate(r, a)
  PROVE  CookieInv'
<1>. USE DEF CookieInv
<1>. DEFINE q == request[r]
            j == q.jar
            clean == CleanupStale(jarDb)
            new == NewBinding(q.client)
            d == [clean EXCEPT !.handles[j] = new]
            o == [q EXCEPT !.state = "committed", !.overlays = NoOverlays,
                           !.persisted = TRUE, !.publish = TRUE, !.held = TRUE]
<1>1. Underway(r) /\ q \in RunningRequests /\ ~q.persisted
  <2>1. Underway(r) /\ ~q.persisted
    BY DEF CommitCreate, Underway
  <2>. QED BY <2>1, RunningFields
<1>2. j \in Jars /\ q.client \in Clients
  BY <1>1 DEF RunningRequests
<1>3. /\ jarDb' \in MergeTransaction(d, j, a, q.overlays[a], q.client)
      /\ leases' = [leases EXCEPT ![j] = @ + 1]
      /\ request' = [request EXCEPT ![r] = o] /\ UNCHANGED <<drawn, now>>
  BY DEF CommitCreate, CreateJar
<1>4. /\ ~q.held /\ jarDb.handles[j] = NoJar /\ j \in drawn
      /\ \A p \in Requests \ {r} : Underway(p) => request[p].jar # j
  BY <1>1 DEF JarsAssigned
<1>5. /\ clean \in Databases /\ Below(clean, jarDb) /\ Rooted(clean)
      /\ \A i \in Jars : Active(i) => clean.handles[i] = jarDb.handles[i]
  BY CleanupShrinks DEF CookieTypeOK, JarsWithinLimits
<1>. HIDE DEF clean
<1>6. clean.handles[j] = NoJar
  BY <1>2, <1>4, <1>5 DEF Below
<1>7. CookiesOfOwner(clean) /\ \A i \in Jars : WithinJar(clean, i)
  BY <1>5, BelowIsOwned, BelowIsWithin DEF JarsWithinLimits, WithinLimits
<1>8. new \in Bindings /\ new # NoJar /\ new.owner = q.client
  <2>1. now + IdleTTL \in Nat /\ now + AbsoluteTTL \in Nat /\ now \in Nat
    BY CookieAssumption DEF CookieTypeOK
  <2>2. new \in Bindings /\ new.owner = q.client
    BY <1>2, <2>1 DEF NewBinding, Bindings
  <2>. QED BY <2>2, CookieAssumption
<1>. HIDE DEF new
<1>9. /\ d \in Databases /\ d.authorities = clean.authorities /\ d.entries = clean.entries
      /\ \A i \in Jars : d.handles[i] = IF i = j THEN new ELSE clean.handles[i]
  <2>. DEFINE handles == [clean.handles EXCEPT ![j] = new]
  <2>1. handles \in [Jars -> Bindings \cup {NoJar}]
    BY <1>5, <1>8 DEF Databases
  <2>2. \A i \in Jars : handles[i] = IF i = j THEN new ELSE clean.handles[i]
    BY <1>5 DEF Databases
  <2>3. d = [clean EXCEPT !.handles = handles]
    OBVIOUS
  <2>. HIDE DEF handles, d
  <2>. QED BY <1>5, <2>1, <2>2, <2>3 DEF Databases
<1>. HIDE DEF d
<1>10. Rooted(d)
  BY <1>5, <1>8, <1>9, SlotParts DEF Rooted, Filled
<1>11. CookiesOfOwner(d)
  BY <1>5, <1>6, <1>7, <1>9, SlotParts DEF Rooted, CookiesOfOwner, Filled
<1>12. \A i \in Jars : WithinJar(d, i)
  BY <1>7, <1>9 DEF WithinJar, Filled, KnownAuthorities
<1>13. /\ jarDb' \in Databases /\ Rooted(jarDb') /\ CookiesOfOwner(jarDb') /\ WithinLimits(jarDb')
       /\ \A i \in Jars : i = j \/ Active(i) => jarDb'.handles[i] = d.handles[i]
       /\ \A i \in Jars : jarDb'.handles[i] # NoJar => d.handles[i] # NoJar
  BY <1>2, <1>3, <1>8, <1>9, <1>10, <1>11, <1>12, MergeKeeps
<1>14. o \in RunningRequests /\ o.client = q.client /\ o.jar = j /\ o.held /\ o.persisted /\ o.sent = q.sent
       /\ o.state = "committed"
  BY <1>1, NoOverlaysTyped DEF RunningRequests
<1>. HIDE DEF o
<1>15. /\ request' \in [Requests -> [state : {"new", "closed"}] \cup RunningRequests]
       /\ request'[r] = o /\ \A p \in Requests \ {r} : request'[p] = request[p]
  BY <1>3, <1>14 DEF CookieTypeOK
<1>16. PICK jar \in Jars : jar = j
  BY <1>2
<1>17. leases' \in [Jars -> Nat] /\ \A i \in Jars : leases'[i] = Cardinality(Holders(i)')
  <2>1. /\ r \notin Holders(jar) /\ Holders(jar)' = Holders(jar) \cup {r}
        /\ \A i \in Jars \ {jar} : Holders(i)' = Holders(i)
    BY <1>4, <1>14, <1>15, <1>16 DEF Holders
  <2>2. leases' = [leases EXCEPT ![jar] = @ + 1]
    BY <1>3, <1>16
  <2>. QED BY <2>1, <2>2, HolderCounts
<1>18. LeasedJarLives'
  <2>1. ASSUME NEW i \in Jars, NEW p \in Holders(i)'
        PROVE  jarDb'.handles[i] # NoJar /\ jarDb'.handles[i].owner = request'[p].client
    <3>1. CASE p = r
      <4>1. i = j
        BY <1>14, <1>15, <3>1 DEF Holders
      <4>. QED BY <1>2, <1>8, <1>9, <1>13, <1>14, <1>15, <3>1, <4>1
    <3>2. CASE p # r
      <4>1. p \in Holders(i) /\ p \in Requests \ {r} /\ Underway(p) /\ request[p].jar = i
        BY <1>15, <3>2 DEF Holders, Underway
      <4>2. i # j /\ Active(i)
        BY <1>4, <4>1, HeldIsActive
      <4>3. jarDb.handles[i] # NoJar /\ jarDb.handles[i].owner = request[p].client
        BY <4>1 DEF LeasedJarLives
      <4>. QED BY <1>5, <1>9, <1>13, <1>15, <4>1, <4>2, <4>3
    <3>. QED BY <3>1, <3>2
  <2>. QED BY <1>17, <2>1 DEF LeasedJarLives
<1>19. \A i \in Jars \ {j} : jarDb'.handles[i] # NoJar => jarDb.handles[i] # NoJar
  BY <1>5, <1>9, <1>13 DEF Below
<1>20. JarsAssigned'
  <2>1. (Bound(jarDb) \subseteq drawn)'
    BY <1>3, <1>4, <1>19 DEF JarsAssigned, Bound
  <2>2. ASSUME NEW p \in Requests \ {r}, Underway(p)'
        PROVE  Underway(p) /\ request'[p] = request[p] /\ request[p].jar \in Jars \ {j}
    <3>1. Underway(p) /\ request'[p] = request[p]
      BY <1>15, <2>2 DEF Underway
    <3>. QED BY <1>4, <3>1, RunningFields DEF RunningRequests
  <2>3. ASSUME NEW p \in Requests \ {r}, Underway(p)'
        PROVE  /\ request'[p].jar \in drawn'
               /\ request'[p].held = request'[p].persisted
               /\ ~request'[p].persisted =>
                    /\ jarDb'.handles[request'[p].jar] = NoJar
                    /\ \A x \in Requests \ {p} : Underway(x)' => request'[x].jar # request'[p].jar
    <3>1. Underway(p) /\ request'[p] = request[p] /\ request[p].jar \in Jars \ {j}
      BY <2>2, <2>3
    <3>2. ASSUME ~request[p].persisted, NEW x \in Requests \ {p}, Underway(x)'
          PROVE  request'[x].jar # request[p].jar
      <4>1. CASE x = r
        BY <1>14, <1>15, <3>1, <4>1
      <4>2. CASE x # r
        BY <2>2, <3>1, <3>2, <4>2 DEF JarsAssigned
      <4>. QED BY <4>1, <4>2
    <3>. QED BY <1>3, <1>19, <3>1, <3>2 DEF JarsAssigned
  <2>4. request'[r].jar \in drawn' /\ request'[r].held = request'[r].persisted /\ request'[r].persisted
    BY <1>1, <1>3, <1>4, <1>14, <1>15 DEF RunningRequests
  <2>. QED BY <2>1, <2>3, <2>4 DEF JarsAssigned
<1>21. CookieTypeOK'
  BY <1>3, <1>13, <1>15, <1>17 DEF CookieTypeOK
<1>22. OwnCookiesOnly'
  BY <1>1, <1>14, <1>15 DEF OwnCookiesOnly, Underway
<1>. QED BY <1>13, <1>18, <1>20, <1>21, <1>22, DatabaseKept

-----------------------------------------------------------------------------
(* The invariant.                                                           *)

\* The process starts with empty tables, no request and no lease.
LEMMA CookieInitInv == CookieInit => CookieInv
<1>. SUFFICES ASSUME CookieInit PROVE CookieInv
  OBVIOUS
<1>1. CookieTypeOK
  BY DEF CookieInit, CookieTypeOK, Databases
<1>2. \A r \in Requests : ~Underway(r)
  BY DEF CookieInit, Underway
<1>3. Cardinality({}) = 0
  BY FS_EmptySet
<1>4. \A j \in Jars : Holders(j) = {}
  BY <1>2 DEF Holders, Underway
<1>5. LeasedJarLives
  BY <1>3, <1>4 DEF CookieInit, LeasedJarLives
<1>6. OwnCookiesOnly
  BY <1>2 DEF OwnCookiesOnly, Underway
<1>7. /\ Bound(jarDb) = {} /\ \A S : S \subseteq Slots => Filled(jarDb, S) = {}
      /\ \A j \in Jars : KnownAuthorities(jarDb, j) = {}
  BY DEF CookieInit, Bound, Filled, KnownAuthorities
<1>8. WithinLimits(jarDb)
  <2>1. WithinGlobal(jarDb)
    BY <1>3, <1>7, LimitsAreNat DEF WithinGlobal
  <2>2. ASSUME NEW j \in Jars PROVE WithinJar(jarDb, j)
    <3>1. /\ Filled(jarDb, JarSlots(j)) = {} /\ KnownAuthorities(jarDb, j) = {}
          /\ \A a \in Authorities : Filled(jarDb, AuthoritySlots(j, a)) = {}
      BY <1>7, SlotSets
    <3>. QED BY <1>3, <3>1, LimitsAreNat DEF WithinJar
  <2>. QED BY <2>1, <2>2 DEF WithinLimits
<1>9. Rooted(jarDb) /\ CookiesOfOwner(jarDb)
  BY <1>7 DEF Rooted, CookiesOfOwner
<1>10. JarsAssigned
  BY <1>2, <1>7 DEF JarsAssigned
<1>. QED BY <1>1, <1>5, <1>6, <1>8, <1>9, <1>10 DEF CookieInv, JarsWithinLimits

\* Every step keeps the invariant.
LEMMA CookieNextInv == CookieInv /\ [CookieNext]_cookieVars => CookieInv'
<1>. SUFFICES ASSUME CookieInv, [CookieNext]_cookieVars PROVE CookieInv'
  OBVIOUS
<1>1. ASSUME NEW r \in Requests, NEW c \in Clients, NEW j \in Jars,
             BeginReuse(r, c, j) \/ BeginTransient(r, c, j)
      PROVE  CookieInv'
  BY <1>1, BeginReuseKeeps, BeginTransientKeeps
<1>2. ASSUME NEW r \in Requests, NEW a \in Authorities, NEW k \in CookieKeys, NEW m \in Mutations,
             ApplyResponse(r, a, k, m)
      PROVE  CookieInv'
  BY <1>2, ApplyResponseKeeps
<1>3. ASSUME NEW r \in Requests, NEW a \in Authorities,
             \/ SelectCookies(r, a) \/ CommitMerge(r, a) \/ CommitCreate(r, a)
             \/ CommitNothing(r, a) \/ Discard(r, a)
      PROVE  CookieInv'
  BY <1>3, SelectCookiesKeeps, CommitMergeKeeps, CommitCreateKeeps,
     CommitNothingKeeps, DiscardKeeps
<1>4. ASSUME NEW r \in Requests,
             \/ BeginFails(r) \/ Touch(r) \/ ReserveUpgradeCookie(r)
             \/ GatewaySetCookie(r) \/ DiscardAll(r)
      PROVE  CookieInv'
  BY <1>4, BeginFailsKeeps, TouchKeeps, ReserveKeeps, SetCookieKeeps, DiscardAllKeeps
<1>5. ASSUME NEW reachable \in SUBSET Authorities, Cleanup(reachable)
      PROVE  CookieInv'
  BY <1>5, CleanupKeeps
<1>6. CASE Tick \/ CookieRestart
  BY <1>6, TickKeeps, RestartKeeps
<1>7. CASE UNCHANGED cookieVars
  BY <1>7 DEF cookieVars, CookieInv, CookieTypeOK, LeasedJarLives, Holders, OwnCookiesOnly,
     JarsWithinLimits, WithinLimits, WithinGlobal, WithinJar, Rooted, Filled, Bound,
     KnownAuthorities, CookiesOfOwner, JarsAssigned, Underway
<1>. QED BY <1>1, <1>2, <1>3, <1>4, <1>5, <1>6, <1>7 DEF CookieNext
\* The invariant holds of every reachable state.
LEMMA CookieSpecInv == CookieSpec => []CookieInv
BY CookieInitInv, CookieNextInv, PTL DEF CookieSpec

\* The cookie state is well typed: the rows of the jar tables, the requests'
\* cookie state and the lease counts (codex/cookie, schema.go and runtime.go).
THEOREM CookieTypes == CookieSpec => []CookieTypeOK
<1>1. CookieInv => CookieTypeOK
  BY DEF CookieInv
<1>. QED BY <1>1, CookieSpecInv, PTL

\* A leased jar is not collected, requests carry only their own client's
\* cookies, and every commit leaves the jars within the policy, for any number
\* of requests, clients, jars, authorities and cookies.
THEOREM JarsAreIsolated == CookieSpec => []JarsIsolated
<1>1. CookieInv => JarsIsolated
  BY DEF CookieInv, JarsIsolated
<1>. QED BY <1>1, CookieSpecInv, PTL

-----------------------------------------------------------------------------
(* The operation's pins: every decision about them leaves the attempt alone. *)

\* The operation with other pins: the same attempt, the same connection.
SameAttempt(s, p) == p \in Socks /\ p.candidate = s.candidate /\ p.open = s.open

(* An account of the configuration is the one of some target. *)
LEMMA AccountTypes ==
    ASSUME NEW t \in DialTargets PROVE AccountOf[t] \in Accounts
BY DEF Accounts

(* Pinning an account either fails or changes the scope only. *)
LEMMA PinAccountKeeps ==
    ASSUME NEW s \in Socks, NEW a \in Accounts
    PROVE  PinAccount(s, a) = Nothing \/ SameAttempt(s, PinAccount(s, a))
BY DEF PinAccount, SameAttempt, Socks

(* A value's owner pins the operation, and changes nothing else of it. *)
LEMMA ConstrainedKeeps ==
    ASSUME NEW s \in Socks, NEW v \in Carriable \cup {Nothing}, SocketTypeOK,
           s.open => s.candidate \in DialTargets
    PROVE  Constrained(s, v) = Nothing \/ SameAttempt(s, Constrained(s, v))
<1>1. SameAttempt(s, s)
  BY DEF SameAttempt
<1>2. CASE recovery = "switch" \/ v = Nothing
  BY <1>1, <1>2 DEF Constrained
<1>3. CASE ~(recovery = "switch" \/ v = Nothing) /\ OwnerStatus(v) = "current"
  <2>1. bindings[v].account \in Accounts
    BY <1>3 DEF OwnerStatus, SocketTypeOK, BindingRows
  <2>2. Constrained(s, v) = PinAccount(s, bindings[v].account)
    BY <1>3 DEF Constrained
  <2> QED BY <2>1, <2>2, PinAccountKeeps
<1>4. CASE ~(recovery = "switch" \/ v = Nothing) /\ OwnerStatus(v) # "current"
           /\ NeedsAnchor(v) /\ s.scope = Nothing /\ s.open
  <2>1. Account(s) \in Accounts
    BY <1>4, AccountTypes DEF Account
  <2>2. Constrained(s, v) = PinAccount(s, Account(s))
    BY <1>4 DEF Constrained
  <2> QED BY <2>1, <2>2, PinAccountKeeps
<1>5. CASE ~(recovery = "switch" \/ v = Nothing) /\ OwnerStatus(v) # "current"
           /\ ~(NeedsAnchor(v) /\ s.scope = Nothing /\ s.open)
  BY <1>1, <1>5 DEF Constrained
<1> QED BY <1>2, <1>3, <1>4, <1>5

(* A claim, a visible output or a route pins what the attempt already serves. *)
LEMMA PinCandidateKeeps ==
    ASSUME NEW s \in Socks, s.candidate \in DialTargets,
           NEW scope \in BOOLEAN, NEW route \in BOOLEAN
    PROVE  PinCandidate(s, scope, route) = Nothing
           \/ SameAttempt(s, PinCandidate(s, scope, route))
<1>1. PICK p : p = IF scope \/ route THEN PinAccount(s, Account(s)) ELSE s
  OBVIOUS
<1>2. p = Nothing \/ SameAttempt(s, p)
  BY <1>1, PinAccountKeeps, AccountTypes DEF Account, SameAttempt
<1>3. SameAttempt(s, s)
  BY DEF SameAttempt
<1>4. SameAttempt(s, p) => SameAttempt(s, [p EXCEPT !.target = s.candidate])
  BY DEF SameAttempt, Socks
<1>5. PinCandidate(s, scope, route) \in {s, Nothing, [p EXCEPT !.target = s.candidate], p}
      /\ (PinCandidate(s, scope, route) = s \/ p # Nothing \/ PinCandidate(s, scope, route) = Nothing)
  BY <1>1 DEF PinCandidate
<1> QED BY <1>2, <1>3, <1>4, <1>5

(* The commit of a permit pins, and may close the operation. *)
LEMMA CommittedSockKeeps ==
    ASSUME NEW s \in Socks, s.candidate \in DialTargets, NEW permit \in Grants
    PROVE  CommittedSock(s, permit) = Nothing \/ SameAttempt(s, CommittedSock(s, permit))
<1>1. PICK p : p = PinCandidate(s, permit.pin, permit.route)
  OBVIOUS
<1>2. p = Nothing \/ SameAttempt(s, p)
  BY <1>1, PinCandidateKeeps DEF Grants
<1>3. SameAttempt(s, p) => SameAttempt(s, [p EXCEPT !.closed = TRUE])
  BY DEF SameAttempt, Socks
<1>4. CommittedSock(s, permit) = IF p = Nothing \/ ~permit.close THEN p
                                 ELSE [p EXCEPT !.closed = TRUE]
  BY <1>1 DEF CommittedSock
<1> QED BY <1>2, <1>3, <1>4

-----------------------------------------------------------------------------
(* Verdicts and leases. *)

(* A frame is classified with one of the verdicts a delivery handles; under *)
(* the keeping policy none of them passes a value on unread.                *)
LEMMA ClientVerdictRange ==
    ASSUME NEW s, NEW v \in Carriable \cup {Nothing}, SocketTypeOK, NEW b \in BOOLEAN,
           ClientVerdict(s, v, FALSE) # "reject"
    PROVE  [v |-> v, bound |-> b, verdict |-> ClientVerdict(s, v, FALSE)] \in ClientFrames(recovery)
<1>1. PICK d : d = ClientVerdict(s, v, FALSE)
  OBVIOUS
<1>2. d \in {"none", "opaque", "forward", "claim", "adopt", "degraded"}
      /\ (v = Nothing <=> d = "none") /\ (d = "opaque" => recovery = "switch")
  BY <1>1 DEF ClientVerdict
<1> QED BY <1>1, <1>2 DEF ClientFrames

(* A lease is new on a free value only, and held where the value is bound. *)
LEMMA LeaseOutcomes ==
    ASSUME NEW s, NEW v, NEW d, NEW visible \in BOOLEAN
    PROVE  /\ LeaseOutcome(s, v, d, visible) \in {"none", "skip", "refused", "new", "held"}
           /\ LeaseOutcome(s, v, d, visible) = "none" => d \notin {"claim", "adopt", "forward"}
           /\ LeaseOutcome(s, v, d, visible) # "none" => d \in {"claim", "adopt", "forward"}
           /\ LeaseOutcome(s, v, d, visible) = "new" => bindings[v] = Nothing
           /\ LeaseOutcome(s, v, d, visible) = "held" =>
                 bindings[v] # Nothing /\ bindings[v].account = Account(s)
           /\ LeaseOutcome(s, v, d, visible) = "skip" => outage
           /\ LeaseOutcome(s, v, d, TRUE) = "skip" => d = "forward"
BY DEF LeaseOutcome

(* The permit of a delivery is well formed. *)
LEMMA PreparedPermitTypes ==
    ASSUME NEW s \in Socks, s.candidate \in DialTargets, NEW v, NEW d, NEW out,
           out \in {"new", "held"} => v \in Carriable
    PROVE  PreparedPermit(s, v, d, out) \in Grants
<1>1. Account(s) \in Accounts
  BY AccountTypes DEF Account
<1>2. PICK l : l = IF out \in {"new", "held"} THEN Lease(s, v, out = "new") ELSE Nothing
  OBVIOUS
<1>3. l \in LeaseRows \cup {Nothing}
  BY <1>1, <1>2 DEF Lease, LeaseRows
<1>4. PICK b : b = (d \in {"claim", "adopt"})
  OBVIOUS
<1>5. b \in BOOLEAN /\ NoPermit \in Grants
  BY <1>4 DEF NoPermit, Grants
<1>6. PreparedPermit(s, v, d, out) = [NoPermit EXCEPT !.lease = l, !.pin = b]
  BY <1>2, <1>4 DEF PreparedPermit
<1> QED BY <1>3, <1>5, <1>6 DEF Grants

(* A pending claim is a binding of the attempt's account. *)
LEMMA PendingTypes ==
    ASSUME NEW s \in Socks, s.candidate \in DialTargets
    PROVE  Pending(s) \in BindingRows /\ Pending(s) # Nothing /\ Pending(s).account = Account(s)
<1>1. Account(s) \in Accounts
  BY AccountTypes DEF Account
<1>2. Pending(s) \in BindingRows
  BY <1>1 DEF Pending, BindingRows
<1> QED BY <1>2, SocketAssumption DEF Pending

(* Committing a binding keeps its account. *)
LEMMA EstablishedTypes ==
    ASSUME NEW b \in BindingRows
    PROVE  Established(b) \in BindingRows /\ Established(b) # Nothing
           /\ Established(b).account = b.account
<1>1. Established(b) \in BindingRows
  BY DEF Established, BindingRows
<1> QED BY <1>1, SocketAssumption DEF Established, BindingRows

-----------------------------------------------------------------------------
(* The bindings: no step of a relay moves a value to another account. *)

\* Every bound value stays bound to its account.
OwnersKept == \A v \in Carriable :
    bindings[v] # Nothing => bindings'[v] # Nothing /\ bindings'[v].account = bindings[v].account

\* The bindings keep their shape.
BindingsTyped == bindings \in [Carriable -> BindingRows \cup {Nothing}]

(* A claim takes a free value for the attempt's account, or nothing. *)
LEMMA ClaimKeepsOwners ==
    ASSUME SocketTypeOK, NEW s \in Socks, s.candidate \in DialTargets,
           NEW v \in Carriable \cup {Nothing}, NEW d, NEW visible \in BOOLEAN,
           NEW out, out = LeaseOutcome(s, v, d, visible),
           out \in {"new", "held"} => v \in Carriable,
           ClaimBinding(s, v, out)
    PROVE  /\ OwnersKept /\ BindingsTyped'
           /\ out \in {"new", "held"} => bindings'[v] # Nothing /\ bindings'[v].account = Account(s)
<1>1. out = "new" => bindings[v] = Nothing
  BY DEF LeaseOutcome
<1>2. out = "held" => bindings[v] # Nothing /\ bindings[v].account = Account(s)
  BY DEF LeaseOutcome
<1>3. PICK p : p = Pending(s)
  OBVIOUS
<1>4. p \in BindingRows /\ p # Nothing /\ p.account = Account(s)
  BY <1>3, PendingTypes
<1>5. CASE out = "new"
  <2>1. bindings' = [bindings EXCEPT ![v] = p] /\ v \in Carriable
    BY <1>5, <1>3 DEF ClaimBinding
  <2> QED BY <2>1, <1>1, <1>4, <1>5 DEF OwnersKept, BindingsTyped, SocketTypeOK
<1>6. CASE out # "new"
  <2>1. bindings' = bindings
    BY <1>6 DEF ClaimBinding
  <2> QED BY <2>1, <1>2, <1>6 DEF OwnersKept, BindingsTyped, SocketTypeOK
<1> QED BY <1>5, <1>6

(* A commit changes the life of a binding, never its account. *)
LEMMA CommitKeepsOwners ==
    ASSUME SocketTypeOK, NEW permit \in Grants, Committable(permit), CommitLease(permit)
    PROVE  OwnersKept /\ BindingsTyped'
<1>1. CASE permit.lease = Nothing
  BY <1>1 DEF CommitLease, OwnersKept, BindingsTyped, SocketTypeOK
<1>2. CASE permit.lease # Nothing
  <2>1. PICK w : w = permit.lease.v
    OBVIOUS
  <2>2. w \in Carriable /\ bindings[w] # Nothing /\ bindings[w] \in BindingRows
    BY <1>2, <2>1 DEF Grants, LeaseRows, Committable, SocketTypeOK
  <2>3. PICK e : e = Established(bindings[w])
    OBVIOUS
  <2>4. e \in BindingRows /\ e # Nothing /\ e.account = bindings[w].account
    BY <2>2, <2>3, EstablishedTypes
  <2>5. bindings' = [bindings EXCEPT ![w] = e]
    BY <1>2, <2>1, <2>3 DEF CommitLease
  <2> QED BY <2>2, <2>4, <2>5 DEF OwnersKept, BindingsTyped, SocketTypeOK
<1> QED BY <1>1, <1>2

(* What was bound at an account stays bound there. *)
LEMMA BoundAtKept ==
    ASSUME OwnersKept, unclaimed \subseteq unclaimed', NEW v \in Carriable \cup {Nothing}, NEW a,
           BoundAt(v, a)
    PROVE  BoundAt(v, a)'
BY DEF BoundAt, OwnersKept

\* Bindings that do not change keep their owners.
LEMMA SameOwners == ASSUME bindings' = bindings PROVE OwnersKept
BY DEF OwnersKept

(* A value an account has not been shown before is shown where it is bound. *)
LEMMA ReachedGrows ==
    ASSUME SocketTypeOK, BindingsTyped', ReachedBound, OwnersKept, unclaimed \subseteq unclaimed',
           NEW v \in Carriable \cup {Nothing}, NEW a \in Accounts, reached' = Sees(v, a),
           BoundAt(v, a)'
    PROVE  ReachedBound' /\ (reached \in [Carriable -> SUBSET Accounts])'
<1>1. CASE v = Nothing
  <2>1. reached' = reached
    BY <1>1 DEF Sees
  <2> QED BY <2>1 DEF ReachedBound, OwnersKept, SocketTypeOK
<1>2. CASE v # Nothing
  <2>1. reached' = [reached EXCEPT ![v] = reached[v] \cup {a}] /\ v \in Carriable
    BY <1>2 DEF Sees
  <2>2. ReachedBound'
    BY <2>1, <1>2 DEF ReachedBound, OwnersKept, SocketTypeOK, BoundAt
  <2>3. (reached \in [Carriable -> SUBSET Accounts])'
    BY <2>1 DEF SocketTypeOK
  <2> QED BY <2>2, <2>3
<1> QED BY <1>1, <1>2

(* Without the policy of keeping nothing is claimed of the history. *)
LEMMA ReachedTypes ==
    ASSUME SocketTypeOK, NEW v \in Carriable \cup {Nothing}, NEW a \in Accounts, reached' = Sees(v, a)
    PROVE  (reached \in [Carriable -> SUBSET Accounts])'
<1>1. CASE v = Nothing
  BY <1>1 DEF Sees, SocketTypeOK
<1>2. CASE v # Nothing
  <2>1. reached' = [reached EXCEPT ![v] = reached[v] \cup {a}] /\ v \in Carriable
    BY <1>2 DEF Sees
  <2> QED BY <2>1 DEF SocketTypeOK
<1> QED BY <1>1, <1>2

\* What the accounts have seen stays bound while the owners are kept.
LEMMA ReachedKept ==
    ASSUME SocketTypeOK, ReachedBound, OwnersKept, unclaimed \subseteq unclaimed', reached' = reached
    PROVE  ReachedBound'
BY DEF ReachedBound, OwnersKept, SocketTypeOK

(* A step that keeps the owners, and whose new frames are bound, keeps the *)
(* values where they are.                                                  *)
LEMMA ValuesFrame ==
    ASSUME SocketInv, OwnersKept, unclaimed \subseteq unclaimed', recovery' = recovery,
           reached' = reached \/ (recovery = "keep" => ReachedBound'),
           sock'.candidate = sock.candidate,
           main'.pc = "dialing" =>
              main.pc = "dialing" /\ main'.sent = main.sent /\ main'.permit = main.permit
              /\ reached' = reached,
           up'.pc = "prepared" =>
              (up.pc = "prepared" /\ up'.frame = up.frame) \/ (recovery = "keep" => UpBound'),
           down'.pc = "prepared" =>
              (down.pc = "prepared" /\ down'.frame = down.frame) \/ (recovery = "keep" => DownBound')
    PROVE  ValuesBound'
<1> SUFFICES ASSUME recovery = "keep"
             PROVE  ReachedBound' /\ DialBound' /\ UpBound' /\ DownBound'
  BY DEF ValuesBound
<1>1. SocketTypeOK /\ AttemptShaped /\ ReachedBound /\ DialBound /\ UpBound /\ DownBound
  BY DEF SocketInv, ValuesBound
<1>2. ReachedBound'
  BY <1>1, ReachedKept
<1>3. PICK a : a = Account(sock)
  OBVIOUS
<1>4. Account(sock') = a
  BY <1>3 DEF Account
<1>5. UpBound'
  <2>1. CASE up'.pc = "prepared" /\ up.pc = "prepared" /\ up'.frame = up.frame
    <3>1. up.frame.v \in Carriable \cup {Nothing}
      BY <2>1, <1>1 DEF SocketTypeOK, AttemptShaped, Legs, ClientFrames
    <3>2. PICK v \in Carriable \cup {Nothing} : v = up.frame.v
      BY <3>1
    <3>3. BoundAt(v, a)'
      BY <1>1, <1>3, <2>1, <3>2, BoundAtKept DEF UpBound
    <3> QED BY <1>4, <2>1, <3>2, <3>3 DEF UpBound
  <2> QED BY <2>1 DEF UpBound
<1>6. DownBound'
  <2>1. CASE down'.pc = "prepared" /\ down.pc = "prepared" /\ down'.frame = down.frame
    <3>1. down.frame \in Carriable \cup {Nothing}
      BY <2>1, <1>1 DEF SocketTypeOK, Legs, Carriable
    <3>2. PICK v \in Carriable \cup {Nothing} : v = down.frame
      BY <3>1
    <3>3. BoundAt(v, a)'
      BY <1>1, <1>3, <2>1, <3>2, BoundAtKept DEF DownBound
    <3> QED BY <1>4, <2>1, <3>2, <3>3 DEF DownBound
  <2> QED BY <2>1 DEF DownBound
<1>7. DialBound'
  <2> SUFFICES ASSUME main'.pc = "dialing" PROVE DialBound'
    BY DEF DialBound
  <2>1. main.pc = "dialing" /\ main'.sent = main.sent /\ main'.permit = main.permit /\ reached' = reached
    OBVIOUS
  <2>2. PICK v \in Carriable \cup {Nothing} : v = main.sent
    BY <1>1 DEF SocketTypeOK, Mains
  <2>3. BoundAt(v, a)'
    BY <1>1, <1>3, <2>1, <2>2, BoundAtKept DEF DialBound
  <2> QED BY <1>1, <1>4, <2>1, <2>2, <2>3 DEF DialBound
<1> QED BY <1>2, <1>5, <1>6, <1>7

-----------------------------------------------------------------------------
(* The steps. *)

\* A direction at rest, stopped or about to replay is well formed.
LEMMA StillTypes ==
    ASSUME NEW frames, NEW policy
    PROVE  /\ Still \in Legs(frames, policy)
           /\ [Still EXCEPT !.pc = "stopped"] \in Legs(frames, policy)
           /\ \A q \in Seq(ClientFrames(policy)) : [Still EXCEPT !.replay = q] \in Legs(frames, policy)
<1>1. NoPermit \in Grants
  BY DEF NoPermit, Grants
<1>2. <<>> \in Seq(ClientFrames(policy))
  OBVIOUS
<1> QED BY <1>1, <1>2 DEF Still, Legs

\* The start of an operation pins the owner of the handshake value, if there is one.
LEMMA BeginSocketStep ==
    ASSUME SocketInv, BeginSocket PROVE SocketInv'
<1>1. SocketTypeOK /\ AttemptShaped /\ OverlayCurrent
  BY DEF SocketInv
<1>2. PICK s : s = Constrained(sock, header)
  OBVIOUS
<1>3. s = Nothing \/ SameAttempt(sock, s)
  BY <1>1, <1>2, ConstrainedKeeps DEF SocketTypeOK, AttemptShaped
<1>4. sock' \in Socks /\ sock'.candidate = sock.candidate /\ sock'.open = sock.open
  BY <1>1, <1>2, <1>3 DEF BeginSocket, SameAttempt, SocketTypeOK
<1>5. PICK k \in {"ended", "select"} : main' = [main EXCEPT !.pc = k]
  BY DEF BeginSocket, MainAt
<1>6. /\ main.pc = "begin" /\ recovery' = recovery /\ header' = header /\ outage' = outage
      /\ crumbs' = crumbs /\ bindings' = bindings /\ up' = up /\ down' = down /\ kept' = kept
      /\ reached' = reached /\ unclaimed' = unclaimed
  BY DEF BeginSocket, relay, history, quiet
<1>7. SocketTypeOK'
  BY <1>1, <1>4, <1>5, <1>6 DEF SocketTypeOK, Mains
<1>8. AttemptShaped'
  BY <1>1, <1>4, <1>5, <1>6 DEF SocketTypeOK, Mains, AttemptShaped
<1>9. ValuesBound'
  <2>1. main'.pc # "dialing"
    BY <1>1, <1>5 DEF SocketTypeOK, Mains
  <2> QED BY <1>4, <1>6, <2>1, SameOwners, ValuesFrame
<1>10. OverlayCurrent'
  BY <1>1, <1>5, <1>6 DEF SocketTypeOK, Mains, AttemptShaped, OverlayCurrent
<1> QED BY <1>7, <1>8, <1>9, <1>10 DEF SocketInv

(* What a prepared permit leases. *)
LEMMA PreparedLease ==
    ASSUME NEW s, NEW v, NEW d, NEW out
    PROVE  PreparedPermit(s, v, d, out).lease # Nothing =>
              /\ out \in {"new", "held"} /\ PreparedPermit(s, v, d, out).lease.v = v
              /\ PreparedPermit(s, v, d, out).lease.created => out = "new"
<1>1. PICK l : l = IF out \in {"new", "held"} THEN Lease(s, v, out = "new") ELSE Nothing
  OBVIOUS
<1>2. PreparedPermit(s, v, d, out).lease = l
  BY <1>1 DEF PreparedPermit, NoPermit
<1>3. out \in {"new", "held"} => l.v = v /\ (l.created => out = "new")
  BY <1>1 DEF Lease
<1> QED BY <1>1, <1>2, <1>3

(* A value that a delivery goes ahead with is bound to the attempt's account, *)
(* or exempt.                                                                 *)
LEMMA DeliveryBound ==
    ASSUME SocketTypeOK, recovery = "keep", NEW s \in Socks, s.candidate \in DialTargets,
           NEW v \in Carriable, NEW d \in {"forward", "claim", "adopt", "degraded"},
           NEW visible \in BOOLEAN, NEW out, out = LeaseOutcome(s, v, d, visible), out # "refused",
           ClaimBinding(s, v, out), Unheld(v, d, out) \subseteq unclaimed'
    PROVE  BoundAt(v, Account(s))'
<1>1. out \in {"none", "skip", "new", "held"} /\ (out = "none" => d = "degraded")
  BY DEF LeaseOutcome
<1>2. CASE out \in {"skip", "none"}
  BY <1>1, <1>2 DEF Unheld, BoundAt
<1>3. CASE out \in {"new", "held"}
  <2>1. bindings'[v] # Nothing /\ bindings'[v].account = Account(s)
    BY <1>3, ClaimKeepsOwners
  <2>2. PICK a : a = Account(s)
    OBVIOUS
  <2> QED BY <2>1 DEF BoundAt, Account
<1> QED BY <1>1, <1>2, <1>3

\* A dial claims the handshake value for its account and starts an empty overlay.
LEMMA PrepareDialStep ==
    ASSUME SocketInv, NEW t \in DialTargets, PrepareDial(t) PROVE SocketInv'
<1>1. SocketTypeOK /\ AttemptShaped /\ ValuesBound /\ OverlayCurrent
  BY DEF SocketInv
<1>2. PICK bound : bound = [sock EXCEPT !.candidate = t]
  OBVIOUS
<1>3. bound \in Socks /\ bound.candidate = t
  BY <1>1, <1>2 DEF SocketTypeOK, Socks
<1>4. PICK pinned : pinned = Constrained(bound, header)
  OBVIOUS
<1>5. pinned = Nothing \/ SameAttempt(bound, pinned)
  BY <1>1, <1>3, <1>4, ConstrainedKeeps DEF SocketTypeOK
<1>6. PICK s : s = IF pinned = Nothing THEN bound ELSE pinned
  OBVIOUS
<1>7. s \in Socks /\ s.candidate = t
  BY <1>3, <1>5, <1>6 DEF SameAttempt
<1>8. PICK d : d = IF pinned = Nothing THEN "reject" ELSE ClientVerdict(s, header, TRUE)
  OBVIOUS
<1>9. /\ d \in {"none", "opaque", "forward", "claim", "adopt", "degraded", "drop", "reject"}
      /\ header = Nothing => d \in {"none", "reject"}
      /\ d = "none" => header = Nothing
      /\ recovery = "keep" => d # "opaque"
  BY <1>8 DEF ClientVerdict
<1>10. PICK out : out = LeaseOutcome(s, header, d, FALSE)
  OBVIOUS
<1>11. out \in {"new", "held"} => header \in Carriable
  BY <1>1, <1>9, <1>10 DEF LeaseOutcome, SocketTypeOK
<1>12. PICK permit : permit = PreparedPermit(s, header, d, out)
  OBVIOUS
<1>13. permit \in Grants
  BY <1>7, <1>11, <1>12, PreparedPermitTypes
<1>14. PICK goes \in BOOLEAN : goes = (Authorized(t) /\ Bindable(t) /\ d # "reject")
  OBVIOUS
<1>15. PICK sent : sent = IF d = "drop" THEN Nothing ELSE header
  OBVIOUS
<1>16. PICK k \in {"dialing", "settle"}, c \in {"internal", "denied"} :
         /\ main' = [main EXCEPT !.dials = main.dials + 1, !.accepted = FALSE, !.only = Nothing,
                       !.pc = k, !.cause = c, !.sent = sent, !.permit = permit]
         /\ k = "dialing" => goes /\ out # "refused"
  BY <1>2, <1>4, <1>6, <1>8, <1>10, <1>12, <1>14, <1>15 DEF PrepareDial
<1>17. /\ main.pc = "select" /\ recovery' = recovery /\ header' = header /\ outage' = outage
       /\ up' = up /\ down' = down /\ kept' = kept /\ reached' = reached
  BY DEF PrepareDial, relay, quiet
<1>18. /\ main' \in Mains /\ main'.pc = k /\ ~main'.accepted /\ main'.seen = main.seen
       /\ main'.sent = sent /\ main'.permit = permit
  <2>1. sent \in Carriable \cup {Nothing} /\ main \in Mains
    BY <1>1, <1>15 DEF SocketTypeOK
  <2>2. PICK n \in Nat : n = main.dials + 1
    BY <2>1 DEF Mains
  <2>3. PICK r : r = main'
    OBVIOUS
  <2>4. r = [main EXCEPT !.dials = n, !.accepted = FALSE, !.only = Nothing, !.pc = k,
                         !.cause = c, !.sent = sent, !.permit = permit]
    BY <1>16, <2>2, <2>3
  <2>5. PICK m : m = main
    OBVIOUS
  <2>6. m \in Mains /\ r = [m EXCEPT !.dials = n, !.accepted = FALSE, !.only = Nothing, !.pc = k,
                                     !.cause = c, !.sent = sent, !.permit = permit]
    BY <2>1, <2>4, <2>5
  <2>7. /\ r \in Mains /\ r.pc = k /\ ~r.accepted /\ r.seen = m.seen
        /\ r.sent = sent /\ r.permit = permit
    BY <1>13, <2>1, <2>6 DEF Mains
  <2> QED BY <2>3, <2>5, <2>7
<1>19. CASE ~goes
  <2>1. crumbs' = crumbs /\ bindings' = bindings /\ unclaimed' = unclaimed /\ sock' \in {sock, s}
    BY <1>2, <1>4, <1>6, <1>8, <1>14, <1>19 DEF PrepareDial
  <2>2. k = "settle"
    BY <1>16, <1>19
  <2>3. sock' \in Socks /\ (sock'.open => sock'.candidate \in DialTargets)
    BY <1>1, <1>7, <2>1 DEF SocketTypeOK, AttemptShaped
  <2>4. main' \in Mains /\ main'.pc = "settle" /\ ~main'.accepted /\ main'.seen = main.seen
    BY <1>18, <2>2
  <2>5. SocketTypeOK'
    BY <1>1, <1>17, <2>1, <2>3, <2>4 DEF SocketTypeOK
  <2>6. AttemptShaped'
    BY <1>1, <1>17, <2>3, <2>4 DEF AttemptShaped
  <2>7. ValuesBound'
    <3>1. recovery = "keep" => ReachedBound'
      BY <1>1, <1>17, <2>1, SameOwners, ReachedKept DEF ValuesBound
    <3>2. up'.pc # "prepared" /\ down'.pc # "prepared"
      BY <1>1, <1>17 DEF AttemptShaped
    <3> QED BY <1>17, <2>4, <3>1, <3>2 DEF ValuesBound, DialBound, UpBound, DownBound
  <2>8. OverlayCurrent'
    BY <1>1, <1>17, <2>1, <2>4 DEF OverlayCurrent, AttemptShaped
  <2> QED BY <2>5, <2>6, <2>7, <2>8 DEF SocketInv
<1>20. CASE goes
  <2>1. PICK overlay : overlay = DiscardOverlay(crumbs)
    OBVIOUS
  <2>2. /\ crumbs' = [crumbs EXCEPT !.overlay = overlay, !.authority = AccountOf[t]]
        /\ sock' = s /\ ClaimBinding(s, header, out)
        /\ unclaimed' = unclaimed \cup Unheld(header, d, out)
    BY <1>2, <1>4, <1>6, <1>8, <1>10, <1>14, <1>20, <2>1 DEF PrepareDial
  <2>3. OwnersKept /\ BindingsTyped'
    BY <1>1, <1>7, <1>10, <1>11, <2>2, ClaimKeepsOwners DEF SocketTypeOK
  <2>4. Unheld(header, d, out) \subseteq Carriable
    <3>1. out = "skip" \/ d = "degraded" => header \in Carriable
      BY <1>1, <1>9, <1>10 DEF LeaseOutcome, SocketTypeOK
    <3> QED BY <3>1 DEF Unheld
  <2>5. overlay \in [Accounts -> SUBSET Nat] /\ \A a \in Accounts : overlay[a] = {}
    <3>1. Nothing \notin Accounts
      BY SocketAssumption
    <3>2. crumbs.overlay \in [Accounts -> SUBSET Nat] /\ crumbs.authority \in Accounts \cup {Nothing}
      BY <1>1 DEF SocketTypeOK, Crumbs
    <3>3. \A a \in Accounts \ {crumbs.authority} : crumbs.overlay[a] = {}
      BY <1>1 DEF OverlayCurrent
    <3> QED BY <2>1, <3>1, <3>2, <3>3 DEF DiscardOverlay
  <2>6. AccountOf[t] \in Accounts /\ AccountOf[t] # Nothing
    BY AccountTypes, SocketAssumption
  <2>7. /\ crumbs' \in Crumbs /\ crumbs'.authority = AccountOf[t] /\ crumbs'.overlay = overlay
        /\ crumbs'.published = crumbs.published
    BY <1>1, <2>2, <2>5, <2>6 DEF SocketTypeOK, Crumbs
  <2>8. /\ main' \in Mains /\ main'.pc = k /\ ~main'.accepted /\ main'.seen = main.seen
        /\ main'.sent = sent /\ main'.permit = permit
    BY <1>18
  <2>9. SocketTypeOK'
    BY <1>1, <1>7, <1>17, <2>2, <2>3, <2>4, <2>7, <2>8 DEF SocketTypeOK, BindingsTyped
  <2>10. AttemptShaped'
    BY <1>1, <1>7, <1>17, <2>2, <2>8 DEF AttemptShaped
  <2>11. ValuesBound'
    <3> SUFFICES ASSUME recovery = "keep"
                 PROVE  ReachedBound' /\ DialBound' /\ UpBound' /\ DownBound'
      BY <1>17 DEF ValuesBound
    <3>1. ReachedBound'
      BY <1>1, <1>17, <2>2, <2>3, ReachedKept DEF ValuesBound
    <3>2. up'.pc # "prepared" /\ down'.pc # "prepared"
      BY <1>1, <1>17 DEF AttemptShaped
    <3>3. DialBound'
      <4> SUFFICES ASSUME k = "dialing" PROVE DialBound'
        BY <2>8 DEF DialBound
      <4>1. out # "refused" /\ d # "reject"
        BY <1>14, <1>16
      <4>2. BoundAt(sent, Account(s))'
        <5>1. CASE sent = Nothing
          BY <5>1 DEF BoundAt
        <5>2. CASE sent # Nothing
          <6>1. sent = header /\ header \in Carriable
                /\ d \in {"forward", "claim", "adopt", "degraded"}
            BY <1>1, <1>9, <1>15, <4>1, <5>2 DEF SocketTypeOK
          <6> QED BY <1>1, <1>7, <1>10, <2>2, <4>1, <6>1, DeliveryBound
        <5> QED BY <5>1, <5>2
      <4>3. permit.lease # Nothing /\ permit.lease.created =>
               reached[permit.lease.v] = {} \/ permit.lease.v \in unclaimed
        <5> SUFFICES ASSUME permit.lease # Nothing, permit.lease.created
                     PROVE  reached[header] = {} \/ header \in unclaimed
          BY <1>12, PreparedLease
        <5>1. out = "new"
          BY <1>12, PreparedLease
        <5>2. bindings[header] = Nothing /\ header \in Carriable
          BY <1>10, <1>11, <5>1 DEF LeaseOutcome
        <5> QED BY <1>1, <5>2 DEF ValuesBound, ReachedBound
      <4> QED BY <1>17, <2>2, <2>8, <4>2, <4>3 DEF DialBound, Account
    <3> QED BY <3>1, <3>2, <3>3 DEF UpBound, DownBound
  <2>12. OverlayCurrent'
    BY <1>1, <1>17, <2>5, <2>6, <2>7, <2>8 DEF OverlayCurrent, AttemptShaped
  <2> QED BY <2>9, <2>10, <2>11, <2>12 DEF SocketInv
<1> QED BY <1>19, <1>20

(* A refused dial releases a claim that nobody has seen; every other binding *)
(* stays.                                                                     *)
LEMMA AbandonedKeeps ==
    ASSUME SocketTypeOK, NEW permit \in Grants, bindings' = Abandoned(permit), reached' = reached,
           unclaimed' = unclaimed, ReachedBound,
           permit.lease # Nothing /\ permit.lease.created =>
              reached[permit.lease.v] = {} \/ permit.lease.v \in unclaimed
    PROVE  ReachedBound'
<1>1. CASE bindings' = bindings
  BY <1>1, SameOwners, ReachedKept
<1>2. CASE bindings' # bindings
  <2>1. PICK w : w = permit.lease.v
    OBVIOUS
  <2>2. /\ permit.lease # Nothing /\ permit.lease.created
        /\ bindings' = [bindings EXCEPT ![w] = Nothing]
    BY <1>2, <2>1 DEF Abandoned
  <2>3. w \in Carriable /\ (reached[w] = {} \/ w \in unclaimed)
    BY <2>1, <2>2 DEF Grants, LeaseRows
  <2> QED BY <2>2, <2>3 DEF ReachedBound, SocketTypeOK
<1> QED BY <1>1, <1>2

\* Releasing a claim keeps the shape of the bindings.
LEMMA AbandonedTypes ==
    ASSUME SocketTypeOK, NEW permit \in Grants, bindings' = Abandoned(permit)
    PROVE  BindingsTyped'
<1>1. CASE bindings' = bindings
  BY <1>1 DEF SocketTypeOK, BindingsTyped
<1>2. CASE bindings' # bindings
  <2>1. bindings' = [bindings EXCEPT ![permit.lease.v] = Nothing]
    BY <1>2 DEF Abandoned
  <2> QED BY <2>1 DEF SocketTypeOK, BindingsTyped
<1> QED BY <1>1, <1>2

\* A dial that may have arrived commits its claim; one that was refused releases it unseen.
LEMMA DialEndsStep ==
    ASSUME SocketInv, NEW o \in {"rejected", "hidden", "lost", "accepted"}, DialEnds(o)
    PROVE  SocketInv'
<1>1. SocketTypeOK /\ AttemptShaped /\ ValuesBound /\ OverlayCurrent
  BY DEF SocketInv
<1>2. /\ main.pc = "dialing" /\ recovery' = recovery /\ header' = header /\ outage' = outage
      /\ up' = up /\ down' = down /\ kept' = kept /\ unclaimed' = unclaimed
  BY DEF DialEnds, relay, quiet
<1>3. PICK permit \in Grants : permit = main.permit
  BY <1>1 DEF SocketTypeOK, Mains
<1>4. PICK s : s = CommittedSock(sock, permit)
  OBVIOUS
<1>5. sock \in Socks /\ sock.candidate \in DialTargets
  BY <1>1, <1>2 DEF SocketTypeOK, AttemptShaped
<1>6. s = Nothing \/ SameAttempt(sock, s)
  BY <1>3, <1>4, <1>5, CommittedSockKeeps
<1>7. PICK commits \in BOOLEAN : commits = (SettledDial(o) = "commit")
  OBVIOUS
<1>8. o \in {"lost", "accepted"} => commits
  BY <1>7 DEF SettledDial
<1>9. PICK fails \in BOOLEAN :
        fails = IF commits THEN ~Committable(permit) \/ s = Nothing
                ELSE outage /\ permit.lease # Nothing /\ permit.lease.created
  OBVIOUS
<1>10. \/ /\ fails /\ main' = [main EXCEPT !.pc = "settle", !.cause = "internal"]
          /\ sock' = sock /\ bindings' = bindings /\ crumbs' = crumbs
       \/ /\ ~fails
          /\ \/ o = "accepted" /\ main' = [main EXCEPT !.pc = "handshake", !.accepted = TRUE]
             \/ /\ o # "accepted"
                /\ \E c \in {"rejected", "transport"} :
                      main' = [main EXCEPT !.pc = "settle", !.cause = c]
          /\ sock' = IF commits THEN s ELSE sock
          /\ IF commits THEN CommitLease(permit) ELSE bindings' = Abandoned(permit)
          /\ crumbs' = IF o \in {"rejected", "accepted"}
                       THEN [crumbs EXCEPT !.overlay[crumbs.authority] = @ \cup {main.dials}]
                       ELSE crumbs
  BY <1>3, <1>4, <1>7, <1>9 DEF DialEnds, SettleWith
<1>11. sock' \in Socks /\ sock'.candidate = sock.candidate
  BY <1>5, <1>6, <1>9, <1>10 DEF SameAttempt
<1>12. /\ main' \in Mains /\ main'.pc \in {"settle", "handshake"} /\ main'.seen = main.seen
       /\ main'.dials = main.dials /\ (main'.pc = "handshake" <=> main'.accepted)
       /\ main'.accepted => o = "accepted" /\ ~fails
  BY <1>1, <1>2, <1>10 DEF SocketTypeOK, Mains, AttemptShaped
<1>13. BindingsTyped' /\ (fails \/ commits => OwnersKept)
  <2>1. CASE fails
    BY <1>1, <1>10, <2>1, SameOwners DEF SocketTypeOK, BindingsTyped
  <2>2. CASE ~fails /\ commits
    BY <1>1, <1>9, <1>10, <2>2, CommitKeepsOwners
  <2>3. CASE ~fails /\ ~commits
    BY <1>1, <1>10, <2>3, AbandonedTypes
  <2> QED BY <2>1, <2>2, <2>3
<1>14. PICK a \in Accounts : a = Account(sock)
  BY <1>5, AccountTypes DEF Account
<1>15. PICK v \in Carriable \cup {Nothing} : v = main.sent
  BY <1>1 DEF SocketTypeOK, Mains
<1>16. IF o \in {"lost", "accepted"} THEN reached' = Sees(v, a) ELSE reached' = reached
  BY <1>14, <1>15 DEF DialEnds
<1>17. (reached \in [Carriable -> SUBSET Accounts])'
  BY <1>1, <1>16, ReachedTypes DEF SocketTypeOK
<1>18. PICK au \in Accounts : au = crumbs.authority /\ crumbs.overlay[au] = {}
  BY <1>1, <1>2 DEF SocketTypeOK, Crumbs, OverlayCurrent
<1>19. /\ crumbs' \in Crumbs /\ crumbs'.authority = au /\ crumbs'.published = crumbs.published
       /\ \A b \in Accounts \ {au} : crumbs'.overlay[b] = {}
       /\ crumbs'.overlay[au] \subseteq {main.dials}
  <2>1. CASE crumbs' = crumbs
    BY <1>1, <1>18, <2>1 DEF SocketTypeOK, OverlayCurrent
  <2>2. CASE crumbs' # crumbs
    <3>1. PICK ov : ov = [crumbs.overlay EXCEPT ![au] = {main.dials}]
      OBVIOUS
    <3>2. crumbs' = [crumbs EXCEPT !.overlay = ov]
      BY <1>1, <1>10, <1>18, <2>2, <3>1 DEF SocketTypeOK, Crumbs
    <3>3. /\ ov \in [Accounts -> SUBSET Nat] /\ ov[au] = {main.dials}
          /\ \A b \in Accounts \ {au} : ov[b] = {}
      BY <1>1, <1>18, <3>1 DEF SocketTypeOK, Crumbs, Mains, OverlayCurrent
    <3> QED BY <1>1, <1>18, <3>2, <3>3 DEF SocketTypeOK, Crumbs
  <2> QED BY <2>1, <2>2
<1>20. SocketTypeOK'
  BY <1>1, <1>2, <1>11, <1>12, <1>13, <1>17, <1>19 DEF SocketTypeOK, BindingsTyped
<1>21. AttemptShaped'
  BY <1>1, <1>2, <1>5, <1>11, <1>12 DEF AttemptShaped
<1>22. ValuesBound'
  <2> SUFFICES ASSUME recovery = "keep"
               PROVE  ReachedBound' /\ DialBound' /\ UpBound' /\ DownBound'
    BY <1>2 DEF ValuesBound
  <2>1. up'.pc # "prepared" /\ down'.pc # "prepared"
    BY <1>1, <1>2 DEF AttemptShaped
  <2>2. main'.pc # "dialing"
    BY <1>12
  <2>3. ReachedBound /\ DialBound
    BY <1>1 DEF ValuesBound
  <2>4. CASE o \in {"lost", "accepted"}
    <3>1. OwnersKept
      BY <1>8, <1>13, <2>4
    <3>2. BoundAt(v, a)
      BY <1>2, <1>14, <1>15, <2>3 DEF DialBound
    <3>3. BoundAt(v, a)'
      BY <1>2, <3>1, <3>2, BoundAtKept
    <3>4. ReachedBound'
      BY <1>1, <1>2, <1>13, <1>16, <2>3, <2>4, <3>1, <3>3, ReachedGrows
    <3> QED BY <2>1, <2>2, <3>4 DEF DialBound, UpBound, DownBound
  <2>5. CASE o \notin {"lost", "accepted"} /\ (fails \/ commits)
    BY <1>1, <1>2, <1>13, <1>16, <2>1, <2>2, <2>3, <2>5, ReachedKept
       DEF DialBound, UpBound, DownBound
  <2>6. CASE o \notin {"lost", "accepted"} /\ ~fails /\ ~commits
    <3>1. ReachedBound'
      BY <1>1, <1>2, <1>3, <1>10, <1>16, <2>3, <2>6, AbandonedKeeps DEF DialBound
    <3> QED BY <2>1, <2>2, <3>1 DEF DialBound, UpBound, DownBound
  <2> QED BY <2>4, <2>5, <2>6
<1>23. OverlayCurrent'
  <2>1. crumbs.published = {} /\ crumbs'.authority # Nothing
    BY <1>1, <1>2, <1>18, <1>19, SocketAssumption DEF OverlayCurrent, AttemptShaped
  <2> QED BY <1>12, <1>19, <2>1 DEF OverlayCurrent
<1> QED BY <1>20, <1>21, <1>22, <1>23 DEF SocketInv

(* An upstream's value is claimed, or forwarded where it is bound. *)
LEMMA ServerVerdicts ==
    ASSUME NEW s, NEW v, NEW d, d = ServerVerdict(s, v),
           NEW out, out = LeaseOutcome(s, v, d, TRUE), d # "reject", out # "refused"
    PROVE  /\ out \in {"none", "new", "held"}
           /\ out \in {"new", "held"} => v # Nothing
           /\ recovery = "keep" /\ v # Nothing => d \in {"claim", "forward"} /\ out # "none"
<1>1. d \in {"none", "opaque", "claim", "forward"} /\ (v = Nothing => d = "none")
      /\ (recovery = "keep" /\ v # Nothing => d \in {"claim", "forward"})
      /\ (d = "forward" => ~outage)
  BY DEF ServerVerdict, BoundStatus, OwnerStatus
<1> QED BY <1>1 DEF LeaseOutcome

(* Publishing takes the current dial's cookies. *)
LEMMA PublishKeeps ==
    ASSUME SocketTypeOK, OverlayCurrent, main.accepted, crumbs' = Publish(crumbs)
    PROVE  /\ crumbs' \in Crumbs /\ crumbs'.overlay = crumbs.overlay
           /\ crumbs'.authority = crumbs.authority
           /\ crumbs'.published = crumbs.published \/ crumbs'.published \subseteq {main.dials}
<1>1. PICK au \in Accounts : au = crumbs.authority /\ crumbs.overlay[au] \subseteq {main.dials}
  BY DEF SocketTypeOK, Crumbs, OverlayCurrent
<1>2. CASE crumbs.closed
  BY <1>2 DEF Publish, SocketTypeOK
<1>3. CASE ~crumbs.closed
  <2>1. crumbs' = [crumbs EXCEPT !.published = crumbs.overlay[au], !.closed = TRUE]
    BY <1>1, <1>3 DEF Publish
  <2> QED BY <1>1, <2>1 DEF SocketTypeOK, Crumbs
<1> QED BY <1>2, <1>3

\* The first accepted handshake shows a turn state that is bound to its account.
LEMMA AcceptClientStep ==
    ASSUME SocketInv, NEW v \in UpstreamRefs, NEW stored \in BOOLEAN, AcceptClient(v, stored)
    PROVE  SocketInv'
<1>1. SocketTypeOK /\ AttemptShaped /\ ValuesBound /\ OverlayCurrent
  BY DEF SocketInv
<1>2. /\ main.pc = "handshake" /\ recovery' = recovery /\ header' = header /\ outage' = outage
      /\ unclaimed' = unclaimed
  BY DEF AcceptClient, quiet
<1>3. sock \in Socks /\ sock.candidate \in DialTargets /\ main.accepted /\ ~main.seen
  BY <1>1, <1>2 DEF SocketTypeOK, AttemptShaped, Mains
<1>4. {up.pc, down.pc} \subseteq {"idle", "stopped"} /\ crumbs.published = {}
  BY <1>1, <1>2, <1>3 DEF AttemptShaped, OverlayCurrent
<1>5. PICK d : d = ServerVerdict(sock, v)
  OBVIOUS
<1>6. PICK out : out = LeaseOutcome(sock, v, d, TRUE)
  OBVIOUS
<1>7. PICK permit : permit = [PreparedPermit(sock, v, d, out) EXCEPT !.pin = TRUE, !.route = TRUE]
  OBVIOUS
<1>8. v \in Carriable /\ v # Nothing
  BY SocketAssumption DEF Carriable
<1>9. permit \in Grants
  <2>1. PICK g : g = PreparedPermit(sock, v, d, out)
    OBVIOUS
  <2>2. g \in Grants
    BY <1>3, <1>8, <2>1, PreparedPermitTypes
  <2> QED BY <1>7, <2>1, <2>2 DEF Grants
<1>10. PICK s : s = CommittedSock(sock, permit)
  OBVIOUS
<1>11. s = Nothing \/ SameAttempt(sock, s)
  BY <1>3, <1>9, <1>10, CommittedSockKeeps
<1>12. CASE d = "reject" \/ out = "refused"
  <2>1. /\ main' = [main EXCEPT !.pc = "settle", !.cause = "internal"] /\ sock' = sock
        /\ bindings' = bindings /\ crumbs' = crumbs /\ reached' = reached
        /\ up' = up /\ down' = down /\ kept' = kept
    BY <1>5, <1>6, <1>12 DEF AcceptClient, SettleWith
  <2>2. SocketTypeOK'
    BY <1>1, <1>2, <2>1 DEF SocketTypeOK, Mains
  <2>3. AttemptShaped'
    BY <1>1, <1>3, <1>4, <2>1 DEF SocketTypeOK, Mains, AttemptShaped
  <2>4. ValuesBound'
    <3>1. main'.pc # "dialing"
      BY <1>1, <2>1 DEF SocketTypeOK, Mains
    <3> QED BY <1>2, <2>1, <3>1, SameOwners, ValuesFrame
  <2>5. OverlayCurrent'
    BY <1>1, <1>4, <2>1 DEF SocketTypeOK, Mains, OverlayCurrent
  <2> QED BY <2>2, <2>3, <2>4, <2>5 DEF SocketInv
<1>13. CASE ~(d = "reject" \/ out = "refused")
  <2>1. out \in {"none", "new", "held"} /\ (recovery = "keep" => out # "none")
    BY <1>5, <1>6, <1>8, <1>13, ServerVerdicts
  <2>2. PICK a \in Accounts : a = Account(sock)
    BY <1>3, AccountTypes DEF Account
  <2>3. PICK e : e = Established(IF out = "new" THEN Pending(sock) ELSE bindings[v])
    OBVIOUS
  <2>4. /\ reached' = Sees(v, a)
        /\ bindings' = IF out = "none" THEN bindings ELSE [bindings EXCEPT ![v] = e]
    BY <1>5, <1>6, <1>13, <2>2, <2>3 DEF AcceptClient
  <2>5. /\ out = "new" => bindings[v] = Nothing
        /\ out = "held" => bindings[v] # Nothing /\ bindings[v].account = a
    BY <1>6, <2>2 DEF LeaseOutcome
  <2>6. out # "none" => e \in BindingRows /\ e # Nothing /\ e.account = a
    <3>1. CASE out = "new"
      BY <1>3, <2>2, <2>3, <3>1, PendingTypes, EstablishedTypes
    <3>2. CASE out = "held"
      <4>1. bindings[v] \in BindingRows
        BY <1>1, <1>8, <2>5, <3>2 DEF SocketTypeOK
      <4> QED BY <2>3, <2>5, <3>2, <4>1, EstablishedTypes
    <3> QED BY <2>1, <3>1, <3>2
  <2>7. OwnersKept /\ BindingsTyped' /\ (out # "none" => bindings'[v] # Nothing /\ bindings'[v].account = a)
    BY <1>1, <1>8, <2>1, <2>4, <2>5, <2>6 DEF OwnersKept, BindingsTyped, SocketTypeOK
  <2>8. (reached \in [Carriable -> SUBSET Accounts])'
    BY <1>1, <1>8, <2>4, ReachedTypes
  <2>9. recovery = "keep" => ReachedBound'
    <3>1. recovery = "keep" => BoundAt(v, a)'
      BY <2>1, <2>7 DEF BoundAt
    <3> QED BY <1>1, <1>2, <1>8, <2>4, <2>7, <3>1, ReachedGrows DEF ValuesBound
  <2>10. CASE s # Nothing /\ stored
    <3>1. /\ sock' = [[s EXCEPT !.visible = TRUE] EXCEPT !.open = TRUE]
          /\ main' = [main EXCEPT !.pc = "relay", !.client = TRUE, !.seen = @ \/ TRUE,
                                  !.cause = Nothing]
          /\ up' = [Still EXCEPT !.replay = kept] /\ down' = Still
          /\ crumbs' = Publish(crumbs) /\ kept' = <<>>
      BY <1>5, <1>6, <1>7, <1>10, <1>13, <2>10 DEF AcceptClient, StartRelay
    <3>2. sock' \in Socks /\ sock'.candidate = sock.candidate
      BY <1>11, <2>10, <3>1 DEF SameAttempt, Socks
    <3>3. main' \in Mains /\ main'.pc = "relay" /\ main'.seen /\ main'.accepted /\ main'.dials = main.dials
      BY <1>1, <1>3, <3>1 DEF SocketTypeOK, Mains
    <3>4. /\ up' \in Legs(ClientFrames(recovery), recovery) /\ down' \in Legs(UpstreamRefs, recovery)
          /\ kept' \in Seq(ClientFrames(recovery))
      BY <1>1, <3>1, StillTypes DEF SocketTypeOK
    <3>5. up'.pc = "idle" /\ down'.pc = "idle"
      BY <3>1 DEF Still
    <3>6. /\ crumbs' \in Crumbs /\ crumbs'.overlay = crumbs.overlay
          /\ crumbs'.authority = crumbs.authority
          /\ crumbs'.published = crumbs.published \/ crumbs'.published \subseteq {main.dials}
      BY <1>1, <1>3, <3>1, PublishKeeps
    <3>7. SocketTypeOK'
      BY <1>1, <1>2, <2>7, <2>8, <3>2, <3>3, <3>4, <3>6 DEF SocketTypeOK, BindingsTyped
    <3>8. AttemptShaped'
      BY <1>3, <3>2, <3>3, <3>5 DEF AttemptShaped
    <3>9. ValuesBound'
      BY <1>2, <2>9, <3>3, <3>5 DEF ValuesBound, DialBound, UpBound, DownBound
    <3>10. OverlayCurrent'
      BY <1>1, <1>3, <1>4, <3>3, <3>6 DEF OverlayCurrent
    <3> QED BY <3>7, <3>8, <3>9, <3>10 DEF SocketInv
  <2>11. CASE ~(s # Nothing /\ stored)
    <3>1. /\ sock' = IF s = Nothing THEN sock ELSE s
          /\ main' = [main EXCEPT !.pc = "settle", !.cause = "internal", !.client = TRUE]
          /\ up' = up /\ down' = down /\ crumbs' = crumbs /\ kept' = kept
      BY <1>5, <1>6, <1>7, <1>10, <1>13, <2>11 DEF AcceptClient
    <3>2. sock' \in Socks /\ sock'.candidate = sock.candidate
      BY <1>3, <1>11, <3>1 DEF SameAttempt
    <3>3. main' \in Mains /\ main'.pc = "settle" /\ ~main'.seen /\ main'.accepted /\ main'.dials = main.dials
      BY <1>1, <1>3, <3>1 DEF SocketTypeOK, Mains
    <3>4. SocketTypeOK'
      BY <1>1, <1>2, <2>7, <2>8, <3>1, <3>2, <3>3 DEF SocketTypeOK, BindingsTyped
    <3>5. AttemptShaped'
      BY <1>1, <1>3, <1>4, <3>1, <3>2, <3>3 DEF AttemptShaped
    <3>6. ValuesBound'
      BY <1>2, <1>4, <2>9, <3>1, <3>3 DEF ValuesBound, DialBound, UpBound, DownBound
    <3>7. OverlayCurrent'
      BY <1>1, <1>3, <1>4, <3>1, <3>3 DEF OverlayCurrent
    <3> QED BY <3>4, <3>5, <3>6, <3>7 DEF SocketInv
  <2> QED BY <2>10, <2>11
<1> QED BY <1>12, <1>13

\* A connection opens with nothing underway but the replay.
LEMMA OpenConnectionStep ==
    ASSUME SocketInv, OpenConnection PROVE SocketInv'
<1>1. SocketTypeOK /\ AttemptShaped /\ ValuesBound /\ OverlayCurrent
  BY DEF SocketInv
<1>2. /\ main.pc = "handshake" /\ recovery' = recovery /\ header' = header /\ outage' = outage
      /\ unclaimed' = unclaimed /\ reached' = reached /\ bindings' = bindings /\ crumbs' = crumbs
      /\ kept' = kept
      /\ sock' = [sock EXCEPT !.open = TRUE]
      /\ main' = [main EXCEPT !.pc = "relay", !.client = TRUE, !.seen = @ \/ FALSE, !.cause = Nothing]
      /\ up' = [Still EXCEPT !.replay = kept] /\ down' = Still
  BY DEF OpenConnection, StartRelay, history, quiet
<1>3. sock' \in Socks /\ sock'.candidate = sock.candidate /\ sock.candidate \in DialTargets
  BY <1>1, <1>2 DEF SocketTypeOK, Socks, AttemptShaped
<1>4. main' \in Mains /\ main'.pc = "relay" /\ ~main'.seen /\ main'.accepted /\ main'.dials = main.dials
  BY <1>1, <1>2 DEF SocketTypeOK, Mains, AttemptShaped
<1>5. up' \in Legs(ClientFrames(recovery), recovery) /\ down' \in Legs(UpstreamRefs, recovery)
  BY <1>1, <1>2, StillTypes DEF SocketTypeOK
<1>6. up'.pc = "idle" /\ down'.pc = "idle"
  BY <1>2 DEF Still
<1>7. SocketTypeOK'
  BY <1>1, <1>2, <1>3, <1>4, <1>5 DEF SocketTypeOK
<1>8. AttemptShaped'
  BY <1>3, <1>4, <1>6 DEF AttemptShaped
<1>9. ValuesBound'
  BY <1>2, <1>3, <1>4, <1>6, SameOwners, ValuesFrame
<1>10. OverlayCurrent'
  BY <1>1, <1>2, <1>4 DEF OverlayCurrent, AttemptShaped
<1> QED BY <1>7, <1>8, <1>9, <1>10 DEF SocketInv

-----------------------------------------------------------------------------
(* The relay's steps.  In a relay one attempt is connected and accepted; a  *)
(* direction that stops leaves its cause, and keeps an earlier one.         *)

\* A stopping direction changes only the cause, and only the first one does.
LEMMA RelayMain ==
    ASSUME SocketInv, Relaying, NEW c \in {"internal", "denied", "reconnect", "client", "replay", "transport"},
           Cause(c)
    PROVE  /\ main' \in Mains /\ main'.pc = "relay" /\ main'.seen = main.seen
           /\ main'.accepted = main.accepted /\ main'.dials = main.dials
           /\ main'.cause = IF main.cause = Nothing THEN c ELSE main.cause
BY DEF SocketInv, SocketTypeOK, Relaying, Mains, Cause

(* The upload direction stops: what it had underway is forgotten. *)
LEMMA UpStops ==
    ASSUME SocketInv, Relaying, down.pc \in {"idle", "stopped"} \/ main.seen,
           NEW c \in {"internal", "denied", "reconnect", "client", "replay", "transport"}, StopUp(c),
           sock' \in Socks, sock'.candidate = sock.candidate,
           OwnersKept, BindingsTyped',
           reached' = reached \/ ((recovery = "keep" => ReachedBound')
                                  /\ (reached \in [Carriable -> SUBSET Accounts])'),
           UNCHANGED <<recovery, header, outage, unclaimed, crumbs, down, kept>>
    PROVE  SocketInv'
<1>1. SocketTypeOK /\ AttemptShaped /\ ValuesBound /\ OverlayCurrent
  BY DEF SocketInv
<1>2. up' = [Still EXCEPT !.pc = "stopped"] /\ Cause(c)
  BY DEF StopUp
<1>3. /\ main' \in Mains /\ main'.pc = "relay" /\ main'.seen = main.seen
      /\ main'.accepted = main.accepted /\ main'.dials = main.dials
      /\ main'.cause = IF main.cause = Nothing THEN c ELSE main.cause
  BY <1>2, RelayMain
<1>4. up' \in Legs(ClientFrames(recovery), recovery) /\ up'.pc = "stopped"
  BY <1>2, StillTypes DEF Still
<1>5. SocketTypeOK'
  BY <1>1, <1>3, <1>4 DEF SocketTypeOK, BindingsTyped
<1>6. AttemptShaped'
  BY <1>1, <1>3, <1>4 DEF AttemptShaped, Relaying
<1>7. ValuesBound'
  BY <1>3, <1>4, ValuesFrame
<1>8. OverlayCurrent'
  BY <1>1, <1>3, SocketAssumption DEF OverlayCurrent, Relaying
<1> QED BY <1>5, <1>6, <1>7, <1>8 DEF SocketInv

(* So does the other. *)
LEMMA DownStops ==
    ASSUME SocketInv, Relaying,
           NEW c \in {"internal", "client", "transport"}, StopDown(c),
           down.pc = "route" /\ ~main.seen => c = "internal",
           OwnersKept, BindingsTyped',
           UNCHANGED <<recovery, header, outage, unclaimed, reached, crumbs, up, kept, sock>>
    PROVE  SocketInv'
<1>1. SocketTypeOK /\ AttemptShaped /\ ValuesBound /\ OverlayCurrent
  BY DEF SocketInv
<1>2. down' = [Still EXCEPT !.pc = "stopped"] /\ Cause(c)
  BY DEF StopDown
<1>3. /\ main' \in Mains /\ main'.pc = "relay" /\ main'.seen = main.seen
      /\ main'.accepted = main.accepted /\ main'.dials = main.dials
      /\ main'.cause = IF main.cause = Nothing THEN c ELSE main.cause
  BY <1>2, RelayMain
<1>4. down' \in Legs(UpstreamRefs, recovery) /\ down'.pc = "stopped"
  BY <1>2, StillTypes DEF Still
<1>5. SocketTypeOK'
  BY <1>1, <1>3, <1>4 DEF SocketTypeOK, BindingsTyped
<1>6. AttemptShaped'
  BY <1>1, <1>3, <1>4 DEF AttemptShaped, Relaying
<1>7. ValuesBound'
  BY <1>3, <1>4, ValuesFrame
<1>8. OverlayCurrent'
  BY <1>1, <1>3, SocketAssumption DEF OverlayCurrent, AttemptShaped, Relaying
<1> QED BY <1>5, <1>6, <1>7, <1>8 DEF SocketInv

(* The upload direction moves on with the frame it has. *)
LEMMA UpMoves ==
    ASSUME SocketInv, Relaying, down.pc \in {"idle", "stopped"} \/ main.seen,
           up' \in Legs(ClientFrames(recovery), recovery), kept' \in Seq(ClientFrames(recovery)),
           up'.pc \in {"classified", "prepared", "written"} => up'.frame \in ClientFrames(recovery),
           up'.pc = "prepared" => (recovery = "keep" => UpBound'),
           sock' \in Socks, sock'.candidate = sock.candidate,
           OwnersKept, BindingsTyped', unclaimed \subseteq unclaimed', unclaimed' \subseteq Carriable,
           reached' = reached \/ ((recovery = "keep" => ReachedBound')
                                  /\ (reached \in [Carriable -> SUBSET Accounts])'),
           UNCHANGED <<recovery, header, outage, main, crumbs, down>>
    PROVE  SocketInv'
<1>1. SocketTypeOK /\ AttemptShaped /\ ValuesBound /\ OverlayCurrent
  BY DEF SocketInv
<1>2. SocketTypeOK'
  BY <1>1 DEF SocketTypeOK, BindingsTyped
<1>3. AttemptShaped'
  BY <1>1 DEF AttemptShaped, Relaying
<1>4. ValuesBound'
  BY ValuesFrame DEF Relaying
<1>5. OverlayCurrent'
  BY <1>1 DEF OverlayCurrent
<1> QED BY <1>2, <1>3, <1>4, <1>5 DEF SocketInv

(* A frame underway to the upstream has the turn, and its value. *)
LEMMA UpWorking ==
    ASSUME SocketInv, Relaying, up.pc \in {"classified", "prepared", "written"}
    PROVE  /\ down.pc \in {"idle", "stopped"} \/ main.seen
           /\ sock \in Socks /\ sock.candidate \in DialTargets /\ Account(sock) \in Accounts
           /\ up.frame \in ClientFrames(recovery)
           /\ up.frame.v \in Carriable \cup {Nothing}
           /\ up.permit \in Grants
<1>1. SocketTypeOK /\ AttemptShaped
  BY DEF SocketInv
<1>2. sock \in Socks /\ sock.candidate \in DialTargets
  BY <1>1 DEF SocketTypeOK, AttemptShaped, Relaying
<1>3. Account(sock) \in Accounts
  BY <1>2, AccountTypes DEF Account
<1>4. down.pc \in {"idle", "stopped"} \/ main.seen
  BY <1>1 DEF AttemptShaped, Relaying
<1>5. up.frame \in ClientFrames(recovery) /\ up.permit \in Grants
  BY <1>1 DEF SocketTypeOK, AttemptShaped, Legs
<1> QED BY <1>2, <1>3, <1>4, <1>5 DEF ClientFrames

\* A classified frame has a verdict the policy allows.
LEMMA ClassifyClientFrameStep ==
    ASSUME SocketInv, NEW v \in Carriable \cup {Nothing}, NEW b \in BOOLEAN, ClassifyClientFrame(v, b)
    PROVE  SocketInv'
<1>1. SocketTypeOK /\ AttemptShaped
  BY DEF SocketInv
<1>2. PICK s : s = Constrained(sock, v)
  OBVIOUS
<1>3. s = Nothing \/ SameAttempt(sock, s)
  BY <1>1, <1>2, ConstrainedKeeps DEF SocketTypeOK, AttemptShaped
<1>4. PICK d : d = ClientVerdict(s, v, FALSE)
  OBVIOUS
<1>5. PICK f : f = [v |-> v, bound |-> b, verdict |-> d]
  OBVIOUS
<1>6. PICK bad : bad = (s = Nothing \/ d = "reject" \/ (Observes(v) /\ outage))
  OBVIOUS
<1>7. /\ Relaying /\ up.pc = "idle" /\ UpTurn
      /\ sock' = IF s = Nothing THEN sock ELSE s
      /\ UNCHANGED <<recovery, header, crumbs, bindings, down, outage>>
      /\ UNCHANGED <<reached, unclaimed>>
  BY <1>2 DEF ClassifyClientFrame, history
<1>8. sock' \in Socks /\ sock'.candidate = sock.candidate
  BY <1>1, <1>3, <1>7 DEF SameAttempt, SocketTypeOK
<1>9. OwnersKept /\ BindingsTyped'
  BY <1>1, <1>7, SameOwners DEF BindingsTyped, SocketTypeOK
<1>10. down.pc \in {"idle", "stopped"} \/ main.seen
  BY <1>7 DEF UpTurn
<1>11. CASE bad
  <2>1. StopUp("internal") /\ kept' = kept
    BY <1>2, <1>4, <1>6, <1>11 DEF ClassifyClientFrame
  <2> QED BY <1>7, <1>8, <1>9, <1>10, <2>1, UpStops
<1>12. CASE ~bad
  <2>1. /\ up' = [up EXCEPT !.pc = "classified", !.frame = f]
        /\ kept' \in {kept, Append(kept, f)} /\ main' = main
    BY <1>2, <1>4, <1>5, <1>6, <1>12 DEF ClassifyClientFrame
  <2>2. f \in ClientFrames(recovery)
    BY <1>1, <1>4, <1>5, <1>6, <1>12, ClientVerdictRange
  <2>3. kept' \in Seq(ClientFrames(recovery))
    BY <1>1, <2>1, <2>2 DEF SocketTypeOK
  <2>4. up' \in Legs(ClientFrames(recovery), recovery) /\ up'.pc = "classified" /\ up'.frame = f
    BY <1>1, <2>1, <2>2 DEF SocketTypeOK, Legs
  <2> QED BY <1>1, <1>7, <1>8, <1>9, <1>10, <2>1, <2>2, <2>3, <2>4, UpMoves DEF SocketTypeOK
<1> QED BY <1>11, <1>12

\* A replay takes up a frame classified before.
LEMMA ReplayFrameStep ==
    ASSUME SocketInv, ReplayFrame PROVE SocketInv'
<1>1. SocketTypeOK
  BY DEF SocketInv
<1>2. /\ Relaying /\ UpTurn /\ up.replay # <<>>
      /\ up' = [up EXCEPT !.pc = "classified", !.frame = Head(up.replay),
                          !.replay = Tail(up.replay), !.replaying = TRUE]
      /\ UNCHANGED <<sock, crumbs, bindings, main, down, kept, reached, unclaimed>>
      /\ UNCHANGED <<recovery, header, outage>>
  BY DEF ReplayFrame, history, quiet
<1>3. up.replay \in Seq(ClientFrames(recovery))
  BY <1>1 DEF SocketTypeOK, Legs
<1>4. PICK f, q : f = Head(up.replay) /\ q = Tail(up.replay)
  OBVIOUS
<1>5. f \in ClientFrames(recovery) /\ q \in Seq(ClientFrames(recovery))
  BY <1>2, <1>3, <1>4
<1>6. up' \in Legs(ClientFrames(recovery), recovery) /\ up'.pc = "classified" /\ up'.frame = f
  BY <1>1, <1>2, <1>4, <1>5 DEF SocketTypeOK, Legs
<1>7. down.pc \in {"idle", "stopped"} \/ main.seen
  BY <1>2 DEF UpTurn
<1>8. OwnersKept /\ BindingsTyped'
  BY <1>1, <1>2, SameOwners DEF BindingsTyped, SocketTypeOK
<1>9. sock' \in Socks /\ sock'.candidate = sock.candidate
      /\ kept' \in Seq(ClientFrames(recovery)) /\ unclaimed' \subseteq Carriable
  BY <1>1, <1>2 DEF SocketTypeOK
<1> QED BY <1>2, <1>5, <1>6, <1>7, <1>8, <1>9, UpMoves

\* A delivery is prepared only with its value bound to the attempt or exempt.
LEMMA PrepareDeliveryStep ==
    ASSUME SocketInv, PrepareDelivery PROVE SocketInv'
<1>1. SocketTypeOK
  BY DEF SocketInv
<1>2. /\ Relaying /\ up.pc = "classified"
      /\ UNCHANGED <<sock, crumbs, down, kept, reached>> /\ UNCHANGED <<recovery, header, outage>>
  BY DEF PrepareDelivery, quiet
<1>3. /\ down.pc \in {"idle", "stopped"} \/ main.seen
      /\ sock \in Socks /\ sock.candidate \in DialTargets /\ up.frame \in ClientFrames(recovery)
      /\ up.frame.v \in Carriable \cup {Nothing}
  BY <1>2, UpWorking
<1>4. PICK f \in ClientFrames(recovery) : f = up.frame
  BY <1>3
<1>5. PICK v \in Carriable \cup {Nothing} : v = f.v
  BY <1>3, <1>4
<1>5a. PICK d : d = f.verdict
  OBVIOUS
<1>6. /\ v = Nothing <=> d = "none"
      /\ d \in {"none", "opaque", "forward", "claim", "adopt", "degraded"}
      /\ recovery = "keep" => d # "opaque"
  BY <1>1, <1>5, <1>5a DEF ClientFrames, SocketTypeOK
<1>7. PICK out : out = LeaseOutcome(sock, v, d, FALSE)
  OBVIOUS
<1>8. out \in {"new", "held", "skip"} => v \in Carriable
  BY <1>6, <1>7 DEF LeaseOutcome
<1>9. sock' \in Socks /\ sock'.candidate = sock.candidate /\ kept' \in Seq(ClientFrames(recovery))
  BY <1>1, <1>2 DEF SocketTypeOK
<1>10. CASE ~Authorized(sock.candidate) \/ out = "refused"
  <2>1. PICK c \in {"internal", "denied", "reconnect"} : StopUp(c)
    BY <1>4, <1>5, <1>5a, <1>7, <1>10 DEF PrepareDelivery
  <2>2. UNCHANGED <<bindings, unclaimed>>
    BY <1>4, <1>5, <1>5a, <1>7, <1>10 DEF PrepareDelivery
  <2>3. OwnersKept /\ BindingsTyped'
    BY <1>1, <2>2, SameOwners DEF BindingsTyped, SocketTypeOK
  <2> QED BY <1>2, <1>3, <1>9, <2>1, <2>2, <2>3, UpStops
<1>11. CASE ~(~Authorized(sock.candidate) \/ out = "refused")
  <2>1. PICK g : g = PreparedPermit(sock, v, d, out)
    OBVIOUS
  <2>2. g \in Grants
    BY <1>3, <1>8, <2>1, PreparedPermitTypes
  <2>3. PICK h : h = [g EXCEPT !.close = f.bound]
    OBVIOUS
  <2>4. h \in Grants
    BY <2>2, <2>3 DEF Grants, ClientFrames
  <2>5. /\ up' = [up EXCEPT !.pc = "prepared", !.permit = h]
        /\ ClaimBinding(sock, v, out) /\ unclaimed' = unclaimed \cup Unheld(v, d, out) /\ main' = main
    BY <1>4, <1>5, <1>5a, <1>7, <1>11, <2>1, <2>3 DEF PrepareDelivery
  <2>6. up' \in Legs(ClientFrames(recovery), recovery) /\ up'.pc = "prepared" /\ up'.frame = f
    BY <1>1, <1>4, <2>4, <2>5 DEF SocketTypeOK, Legs
  <2>7. OwnersKept /\ BindingsTyped'
    BY <1>1, <1>3, <1>7, <1>8, <2>5, ClaimKeepsOwners
  <2>8. unclaimed' \subseteq Carriable /\ unclaimed \subseteq unclaimed'
    <3>1. Unheld(v, d, out) \subseteq Carriable
      BY <1>6, <1>8 DEF Unheld
    <3> QED BY <1>1, <2>5, <3>1 DEF SocketTypeOK
  <2>9. recovery = "keep" => UpBound'
    <3> SUFFICES ASSUME recovery = "keep" PROVE BoundAt(v, Account(sock))'
      BY <1>5, <2>6 DEF UpBound
    <3>1. CASE v = Nothing
      BY <3>1 DEF BoundAt
    <3>2. CASE v # Nothing
      <4>1. v \in Carriable /\ d \in {"forward", "claim", "adopt", "degraded"}
        BY <1>6, <3>2
      <4>2. PICK s \in Socks : s = sock
        BY <1>3
      <4>3. BoundAt(v, Account(s))'
        BY <1>1, <1>3, <1>7, <1>11, <2>5, <4>1, <4>2, DeliveryBound
      <4> QED BY <1>2, <4>2, <4>3 DEF Account
    <3> QED BY <3>1, <3>2
  <2> QED BY <1>2, <1>3, <1>9, <2>5, <2>6, <2>7, <2>8, <2>9, UpMoves
<1> QED BY <1>10, <1>11

(* The write shows a value that is bound to the account. *)
LEMMA UploadSeen ==
    ASSUME SocketInv, Relaying, up.pc = "prepared", reached' = Sees(up.frame.v, Account(sock)),
           UNCHANGED <<bindings, unclaimed>>
    PROVE  (recovery = "keep" => ReachedBound') /\ (reached \in [Carriable -> SUBSET Accounts])'
<1>1. SocketTypeOK /\ ValuesBound
  BY DEF SocketInv
<1>2. PICK v \in Carriable \cup {Nothing} : v = up.frame.v
  BY UpWorking
<1>3. PICK a \in Accounts : a = Account(sock)
  BY UpWorking
<1>4. OwnersKept /\ BindingsTyped'
  BY <1>1, SameOwners DEF BindingsTyped, SocketTypeOK
<1>5. recovery = "keep" => BoundAt(v, a)'
  BY <1>1, <1>2, <1>3, <1>4, BoundAtKept DEF ValuesBound, UpBound
<1>6. recovery = "keep" => ReachedBound'
  BY <1>1, <1>2, <1>3, <1>4, <1>5, ReachedGrows DEF ValuesBound
<1> QED BY <1>1, <1>2, <1>3, <1>6, ReachedTypes

\* A written frame has shown its value where it is bound.
LEMMA WriteUpstreamStep ==
    ASSUME SocketInv, WriteUpstream PROVE SocketInv'
<1>1. SocketTypeOK
  BY DEF SocketInv
<1>2. /\ Relaying /\ up.pc = "prepared" /\ up' = [up EXCEPT !.pc = "written"]
      /\ reached' = Sees(up.frame.v, Account(sock))
      /\ UNCHANGED <<sock, crumbs, bindings, main, down, kept, unclaimed>>
      /\ UNCHANGED <<recovery, header, outage>>
  BY DEF WriteUpstream, quiet
<1>3. (recovery = "keep" => ReachedBound') /\ (reached \in [Carriable -> SUBSET Accounts])'
  BY <1>2, UploadSeen
<1>4. (down.pc \in {"idle", "stopped"} \/ main.seen) /\ up.frame \in ClientFrames(recovery)
  BY <1>2, UpWorking
<1>5. up' \in Legs(ClientFrames(recovery), recovery) /\ up'.pc = "written" /\ up'.frame = up.frame
  BY <1>1, <1>2 DEF SocketTypeOK, Legs
<1>6. OwnersKept /\ BindingsTyped'
  BY <1>1, <1>2, SameOwners DEF BindingsTyped, SocketTypeOK
<1>7. sock' \in Socks /\ sock'.candidate = sock.candidate
      /\ kept' \in Seq(ClientFrames(recovery)) /\ unclaimed' \subseteq Carriable
  BY <1>1, <1>2 DEF SocketTypeOK
<1> QED BY <1>2, <1>3, <1>4, <1>5, <1>6, <1>7, UpMoves

\* So has a failed write that delivered the frame; its claim stays.
LEMMA WriteUpstreamFailsStep ==
    ASSUME SocketInv, NEW delivered \in BOOLEAN, WriteUpstreamFails(delivered) PROVE SocketInv'
<1>1. SocketTypeOK
  BY DEF SocketInv
<1>2. /\ Relaying /\ up.pc = "prepared"
      /\ reached' = IF delivered THEN Sees(up.frame.v, Account(sock)) ELSE reached
      /\ UNCHANGED <<sock, crumbs, bindings, down, kept, unclaimed>>
      /\ UNCHANGED <<recovery, header, outage>>
  BY DEF WriteUpstreamFails, quiet, Released
<1>3. reached' = reached \/ ((recovery = "keep" => ReachedBound')
                             /\ (reached \in [Carriable -> SUBSET Accounts])')
  BY <1>2, UploadSeen
<1>4. PICK c \in {"replay", "transport"} : StopUp(c)
  BY DEF WriteUpstreamFails
<1>5. down.pc \in {"idle", "stopped"} \/ main.seen
  BY <1>2, UpWorking
<1>6. OwnersKept /\ BindingsTyped'
  BY <1>1, <1>2, SameOwners DEF BindingsTyped, SocketTypeOK
<1>7. sock' \in Socks /\ sock'.candidate = sock.candidate
  BY <1>1, <1>2 DEF SocketTypeOK
<1> QED BY <1>2, <1>3, <1>4, <1>5, <1>6, <1>7, UpStops

\* The commit of a delivery pins the account it was prepared for.
LEMMA CommitDeliveryStep ==
    ASSUME SocketInv, CommitDelivery PROVE SocketInv'
<1>1. SocketTypeOK
  BY DEF SocketInv
<1>2. /\ Relaying /\ up.pc = "written"
      /\ UNCHANGED <<crumbs, down, kept, reached, unclaimed>> /\ UNCHANGED <<recovery, header, outage>>
  BY DEF CommitDelivery, quiet, history
<1>3. /\ down.pc \in {"idle", "stopped"} \/ main.seen
      /\ sock \in Socks /\ sock.candidate \in DialTargets /\ up.permit \in Grants
  BY <1>2, UpWorking
<1>4. PICK permit \in Grants : permit = up.permit
  BY <1>3
<1>5. PICK s : s = CommittedSock(sock, permit)
  OBVIOUS
<1>6. s = Nothing \/ SameAttempt(sock, s)
  BY <1>3, <1>5, CommittedSockKeeps
<1>7. CASE Committable(permit) /\ s # Nothing
  <2>1. /\ sock' = s /\ CommitLease(permit) /\ main' = main
        /\ up' = [Still EXCEPT !.replay = up.replay]
    BY <1>4, <1>5, <1>7 DEF CommitDelivery
  <2>2. sock' \in Socks /\ sock'.candidate = sock.candidate
    BY <1>6, <1>7, <2>1 DEF SameAttempt
  <2>3. OwnersKept /\ BindingsTyped'
    BY <1>1, <1>7, <2>1, CommitKeepsOwners
  <2>4. up.replay \in Seq(ClientFrames(recovery)) /\ kept' \in Seq(ClientFrames(recovery))
        /\ unclaimed' \subseteq Carriable
    BY <1>1, <1>2 DEF SocketTypeOK, Legs
  <2>5. up' \in Legs(ClientFrames(recovery), recovery) /\ up'.pc = "idle"
    BY <2>1, <2>4, StillTypes DEF Still
  <2> QED BY <1>2, <1>3, <2>1, <2>2, <2>3, <2>4, <2>5, UpMoves
<1>8. CASE ~(Committable(permit) /\ s # Nothing)
  <2>1. StopUp("internal") /\ UNCHANGED <<sock, bindings>>
    BY <1>4, <1>5, <1>8 DEF CommitDelivery
  <2>2. OwnersKept /\ BindingsTyped'
    BY <1>1, <2>1, SameOwners DEF BindingsTyped, SocketTypeOK
  <2> QED BY <1>2, <1>3, <2>1, <2>2, UpStops
<1> QED BY <1>7, <1>8

(* The download direction moves on, before the boundary of visibility. *)
LEMMA DownMoves ==
    ASSUME SocketInv, Relaying, down.pc # "route",
           down' \in Legs(UpstreamRefs, recovery),
           main.seen \/ (up.pc = "idle" /\ main.cause = Nothing),
           down'.pc = "prepared" => (recovery = "keep" => DownBound'),
           sock' \in Socks, sock'.candidate = sock.candidate,
           OwnersKept, BindingsTyped',
           reached' = reached \/ ((recovery = "keep" => ReachedBound')
                                  /\ (reached \in [Carriable -> SUBSET Accounts])'),
           UNCHANGED <<recovery, header, outage, main, crumbs, up, kept, unclaimed>>
    PROVE  SocketInv'
<1>1. SocketTypeOK /\ AttemptShaped /\ ValuesBound /\ OverlayCurrent
  BY DEF SocketInv
<1>2. SocketTypeOK'
  BY <1>1 DEF SocketTypeOK, BindingsTyped
<1>3. AttemptShaped'
  BY <1>1 DEF AttemptShaped, Relaying
<1>4. ValuesBound'
  BY ValuesFrame DEF Relaying
<1>5. OverlayCurrent'
  BY <1>1 DEF OverlayCurrent
<1> QED BY <1>2, <1>3, <1>4, <1>5 DEF SocketInv

(* A frame underway to the client: before visibility nothing else is. *)
LEMMA DownWorking ==
    ASSUME SocketInv, Relaying
    PROVE  /\ sock \in Socks /\ sock.candidate \in DialTargets /\ Account(sock) \in Accounts
           /\ down.frame \in Carriable \cup {Nothing} /\ down.permit \in Grants /\ main.accepted
           /\ down.pc \notin {"idle", "stopped"} => main.seen \/ (up.pc = "idle" /\ main.cause = Nothing)
<1>1. SocketTypeOK /\ AttemptShaped
  BY DEF SocketInv
<1>2. sock \in Socks /\ sock.candidate \in DialTargets
  BY <1>1 DEF SocketTypeOK, AttemptShaped, Relaying
<1>3. Account(sock) \in Accounts
  BY <1>2, AccountTypes DEF Account
<1>4. down.frame \in Carriable \cup {Nothing} /\ down.permit \in Grants
  BY <1>1 DEF SocketTypeOK, Legs, Carriable
<1>5. /\ main.accepted
      /\ down.pc \notin {"idle", "stopped"} => main.seen \/ (up.pc = "idle" /\ main.cause = Nothing)
  BY <1>1 DEF AttemptShaped, Relaying
<1> QED BY <1>2, <1>3, <1>4, <1>5

\* A value of the upstream is bound to its account before the client sees it.
LEMMA PrepareServerFrameStep ==
    ASSUME SocketInv, NEW v \in UpstreamRefs \cup {Nothing}, PrepareServerFrame(v)
    PROVE  SocketInv'
<1>1. SocketTypeOK
  BY DEF SocketInv
<1>2. /\ Relaying /\ down.pc = "idle" /\ main.cause = Nothing /\ DownTurn
      /\ UNCHANGED <<recovery, header, sock, crumbs, up, kept, outage>> /\ UNCHANGED <<reached, unclaimed>>
  BY DEF PrepareServerFrame, history
<1>3. sock \in Socks /\ sock.candidate \in DialTargets
  BY <1>2, DownWorking
<1>4. PICK d : d = ServerVerdict(sock, v)
  OBVIOUS
<1>5. PICK out : out = LeaseOutcome(sock, v, d, TRUE)
  OBVIOUS
<1>6. CASE d = "reject" \/ out = "refused"
  <2>1. StopDown("internal") /\ bindings' = bindings
    BY <1>4, <1>5, <1>6 DEF PrepareServerFrame
  <2>2. OwnersKept /\ BindingsTyped'
    BY <1>1, <2>1, SameOwners DEF BindingsTyped, SocketTypeOK
  <2> QED BY <1>2, <2>1, <2>2, DownStops
<1>7. CASE ~(d = "reject" \/ out = "refused")
  <2>1. /\ out \in {"none", "new", "held"} /\ (out \in {"new", "held"} => v # Nothing)
        /\ recovery = "keep" /\ v # Nothing => d \in {"claim", "forward"} /\ out # "none"
    BY <1>4, <1>5, <1>7, ServerVerdicts
  <2>2. v \in Carriable \cup {Nothing} /\ (out \in {"new", "held"} => v \in Carriable)
    BY <2>1 DEF Carriable
  <2>3. PICK g : g = PreparedPermit(sock, v, d, out)
    OBVIOUS
  <2>4. g \in Grants
    BY <1>3, <2>2, <2>3, PreparedPermitTypes
  <2>5. PICK h : h = [g EXCEPT !.pin = v # Nothing]
    OBVIOUS
  <2>6. h \in Grants
    BY <2>4, <2>5 DEF Grants
  <2>7. /\ down' = [down EXCEPT !.pc = "prepared", !.frame = v, !.permit = h]
        /\ ClaimBinding(sock, v, out) /\ main' = main
    BY <1>4, <1>5, <1>7, <2>3, <2>5 DEF PrepareServerFrame
  <2>8. down' \in Legs(UpstreamRefs, recovery) /\ down'.pc = "prepared" /\ down'.frame = v
    BY <1>1, <2>6, <2>7 DEF SocketTypeOK, Legs
  <2>9. /\ OwnersKept /\ BindingsTyped'
        /\ out \in {"new", "held"} => bindings'[v] # Nothing /\ bindings'[v].account = Account(sock)
    BY <1>1, <1>3, <1>5, <2>2, <2>7, ClaimKeepsOwners
  <2>10. recovery = "keep" => DownBound'
    BY <1>2, <2>1, <2>8, <2>9 DEF DownBound, BoundAt, Account
  <2>11. main.seen \/ (up.pc = "idle" /\ main.cause = Nothing)
    BY <1>2 DEF DownTurn
  <2> QED BY <1>2, <1>3, <2>7, <2>8, <2>9, <2>10, <2>11, DownMoves
<1> QED BY <1>6, <1>7

\* The client is shown a value where it is bound.
LEMMA WriteClientStep ==
    ASSUME SocketInv, NEW ok \in BOOLEAN, WriteClient(ok) PROVE SocketInv'
<1>1. SocketTypeOK /\ ValuesBound
  BY DEF SocketInv
<1>2. /\ Relaying /\ down.pc = "prepared"
      /\ UNCHANGED <<sock, crumbs, bindings, up, kept, unclaimed>> /\ UNCHANGED <<recovery, header, outage>>
  BY DEF WriteClient, quiet
<1>3. /\ main.seen \/ (up.pc = "idle" /\ main.cause = Nothing)
      /\ Account(sock) \in Accounts /\ down.frame \in Carriable \cup {Nothing}
  BY <1>2, DownWorking
<1>4. OwnersKept /\ BindingsTyped'
  BY <1>1, <1>2, SameOwners DEF BindingsTyped, SocketTypeOK
<1>5. CASE ok
  <2>1. /\ down' = [down EXCEPT !.pc = "written"] /\ reached' = Sees(down.frame, Account(sock))
        /\ main' = main
    BY <1>5 DEF WriteClient
  <2>2. PICK v \in Carriable \cup {Nothing}, a \in Accounts : v = down.frame /\ a = Account(sock)
    BY <1>3
  <2>3. recovery = "keep" => BoundAt(v, a)'
    BY <1>1, <1>2, <1>4, <2>2, BoundAtKept DEF ValuesBound, DownBound
  <2>4. recovery = "keep" => ReachedBound'
    BY <1>1, <1>2, <1>4, <2>1, <2>2, <2>3, ReachedGrows DEF ValuesBound
  <2>5. (reached \in [Carriable -> SUBSET Accounts])'
    BY <1>1, <2>1, <2>2, ReachedTypes
  <2>6. down' \in Legs(UpstreamRefs, recovery) /\ down'.pc = "written"
    BY <1>1, <2>1 DEF SocketTypeOK, Legs
  <2> QED BY <1>1, <1>2, <1>3, <1>4, <2>1, <2>4, <2>5, <2>6, DownMoves DEF SocketTypeOK
<1>6. CASE ~ok
  <2>1. StopDown("client") /\ reached' = reached
    BY <1>6 DEF WriteClient
  <2> QED BY <1>2, <1>4, <2>1, DownStops
<1> QED BY <1>5, <1>6

\* The commit of a shown value pins the account.
LEMMA ConfirmFrameStep ==
    ASSUME SocketInv, ConfirmFrame PROVE SocketInv'
<1>1. SocketTypeOK
  BY DEF SocketInv
<1>2. /\ Relaying /\ down.pc = "written"
      /\ UNCHANGED <<crumbs, up, kept, reached, unclaimed>> /\ UNCHANGED <<recovery, header, outage>>
  BY DEF ConfirmFrame, quiet, history
<1>3. /\ sock \in Socks /\ sock.candidate \in DialTargets /\ down.permit \in Grants
      /\ main.seen \/ (up.pc = "idle" /\ main.cause = Nothing)
  BY <1>2, DownWorking
<1>4. PICK permit \in Grants : permit = down.permit
  BY <1>3
<1>5. PICK s : s = CommittedSock(sock, permit)
  OBVIOUS
<1>6. s = Nothing \/ SameAttempt(sock, s)
  BY <1>3, <1>5, CommittedSockKeeps
<1>7. CASE Committable(permit) /\ s # Nothing
  <2>1. sock' = s /\ CommitLease(permit) /\ main' = main
    BY <1>4, <1>5, <1>7 DEF ConfirmFrame
  <2>2. PICK k \in {"route", "pin"} : down' = [down EXCEPT !.pc = k]
    BY <1>4, <1>5, <1>7 DEF ConfirmFrame
  <2>3. sock' \in Socks /\ sock'.candidate = sock.candidate
    BY <1>6, <1>7, <2>1 DEF SameAttempt
  <2>4. OwnersKept /\ BindingsTyped'
    BY <1>1, <1>7, <2>1, CommitKeepsOwners
  <2>5. down' \in Legs(UpstreamRefs, recovery) /\ down'.pc = k
    BY <1>1, <2>2 DEF SocketTypeOK, Legs
  <2> QED BY <1>2, <1>3, <2>1, <2>3, <2>4, <2>5, DownMoves
<1>8. CASE ~(Committable(permit) /\ s # Nothing)
  <2>1. StopDown("internal") /\ UNCHANGED <<sock, bindings>>
    BY <1>4, <1>5, <1>8 DEF ConfirmFrame
  <2>2. OwnersKept /\ BindingsTyped'
    BY <1>1, <2>1, SameOwners DEF BindingsTyped, SocketTypeOK
  <2> QED BY <1>2, <2>1, <2>2, DownStops
<1> QED BY <1>7, <1>8

\* The visible attempt is pinned before its cookies are published.
LEMMA PinVisibleStep ==
    ASSUME SocketInv, PinVisible PROVE SocketInv'
<1>1. SocketTypeOK
  BY DEF SocketInv
<1>2. /\ Relaying /\ down.pc = "pin"
      /\ UNCHANGED <<crumbs, bindings, up, kept, reached, unclaimed>>
      /\ UNCHANGED <<recovery, header, outage>>
  BY DEF PinVisible, quiet, history
<1>3. /\ sock \in Socks /\ sock.candidate \in DialTargets
      /\ main.seen \/ (up.pc = "idle" /\ main.cause = Nothing)
  BY <1>2, DownWorking
<1>4. OwnersKept /\ BindingsTyped'
  BY <1>1, <1>2, SameOwners DEF BindingsTyped, SocketTypeOK
<1>5. PICK s : s = PinCandidate(sock, TRUE, TRUE)
  OBVIOUS
<1>6. s = Nothing \/ SameAttempt(sock, s)
  BY <1>3, <1>5, PinCandidateKeeps
<1>7. CASE s # Nothing
  <2>1. sock' = s /\ main' = main /\ down' = [down EXCEPT !.pc = "cookies"]
    BY <1>5, <1>7 DEF PinVisible
  <2>2. sock' \in Socks /\ sock'.candidate = sock.candidate
    BY <1>6, <1>7, <2>1 DEF SameAttempt
  <2>3. down' \in Legs(UpstreamRefs, recovery) /\ down'.pc = "cookies"
    BY <1>1, <2>1 DEF SocketTypeOK, Legs
  <2> QED BY <1>2, <1>3, <1>4, <2>1, <2>2, <2>3, DownMoves
<1>8. CASE s = Nothing
  <2>1. StopDown("internal") /\ sock' = sock
    BY <1>5, <1>8 DEF PinVisible
  <2> QED BY <1>2, <1>4, <2>1, DownStops
<1> QED BY <1>7, <1>8

\* The visible attempt publishes the cookies of its own dial.
LEMMA CommitCookiesStep ==
    ASSUME SocketInv, NEW stored \in BOOLEAN, CommitCookies(stored) PROVE SocketInv'
<1>1. SocketTypeOK /\ AttemptShaped /\ OverlayCurrent
  BY DEF SocketInv
<1>2. /\ Relaying /\ down.pc = "cookies"
      /\ UNCHANGED <<sock, bindings, up, kept, reached, unclaimed>> /\ UNCHANGED <<recovery, header, outage>>
  BY DEF CommitCookies, quiet, history
<1>3. OwnersKept /\ BindingsTyped'
  BY <1>1, <1>2, SameOwners DEF BindingsTyped, SocketTypeOK
<1>4. CASE stored
  <2>1. crumbs' = Publish(crumbs) /\ main' = main /\ down' = [down EXCEPT !.pc = "route"]
    BY <1>4 DEF CommitCookies
  <2>2. main.accepted
    BY <1>2, DownWorking
  <2>3. /\ crumbs' \in Crumbs /\ crumbs'.overlay = crumbs.overlay
        /\ crumbs'.authority = crumbs.authority
        /\ crumbs'.published = crumbs.published \/ crumbs'.published \subseteq {main.dials}
    BY <1>1, <2>1, <2>2, PublishKeeps
  <2>4. down' \in Legs(UpstreamRefs, recovery) /\ down'.pc = "route"
    BY <1>1, <2>1 DEF SocketTypeOK, Legs
  <2>5. SocketTypeOK'
    BY <1>1, <1>2, <2>1, <2>3, <2>4 DEF SocketTypeOK
  <2>6. AttemptShaped'
    BY <1>1, <1>2, <2>1, <2>4 DEF AttemptShaped, Relaying
  <2>7. ValuesBound'
    <3>1. main'.pc # "dialing"
      BY <1>2, <2>1 DEF Relaying
    <3> QED BY <1>2, <1>3, <2>4, <3>1, ValuesFrame
  <2>8. OverlayCurrent'
    BY <1>1, <1>2, <2>1, <2>2, <2>3, <2>4 DEF OverlayCurrent, Relaying
  <2> QED BY <2>5, <2>6, <2>7, <2>8 DEF SocketInv
<1>5. CASE ~stored
  <2>1. StopDown("internal") /\ crumbs' = crumbs
    BY <1>5 DEF CommitCookies
  <2> QED BY <1>2, <1>3, <2>1, DownStops
<1> QED BY <1>4, <1>5

\* The stored route makes the attempt visible: no other dial follows.
LEMMA CommitConversationRouteStep ==
    ASSUME SocketInv, NEW stored \in BOOLEAN, CommitConversationRoute(stored) PROVE SocketInv'
<1>1. SocketTypeOK /\ AttemptShaped /\ OverlayCurrent
  BY DEF SocketInv
<1>2. /\ Relaying /\ down.pc = "route"
      /\ UNCHANGED <<crumbs, bindings, up, reached, unclaimed>> /\ UNCHANGED <<recovery, header, outage>>
  BY DEF CommitConversationRoute, quiet, history
<1>3. OwnersKept /\ BindingsTyped'
  BY <1>1, <1>2, SameOwners DEF BindingsTyped, SocketTypeOK
<1>4. CASE stored
  <2>1. /\ down' = Still /\ sock' = [sock EXCEPT !.visible = TRUE] /\ kept' = <<>>
        /\ main' = [main EXCEPT !.seen = TRUE]
    BY <1>4 DEF CommitConversationRoute
  <2>2. sock' \in Socks /\ sock'.candidate = sock.candidate
    BY <1>1, <2>1 DEF SocketTypeOK, Socks
  <2>3. /\ main' \in Mains /\ main'.pc = "relay" /\ main'.seen /\ main'.accepted = main.accepted
        /\ main'.dials = main.dials
    BY <1>1, <1>2, <2>1 DEF SocketTypeOK, Mains, Relaying
  <2>4. /\ down' \in Legs(UpstreamRefs, recovery) /\ down'.pc = "idle"
        /\ kept' \in Seq(ClientFrames(recovery))
    <3>1. down' \in Legs(UpstreamRefs, recovery)
      BY <2>1, StillTypes
    <3>2. down'.pc = "idle"
      BY <2>1 DEF Still
    <3>3. kept' \in Seq(ClientFrames(recovery))
      BY <2>1
    <3> QED BY <3>1, <3>2, <3>3
  <2>5. SocketTypeOK'
    BY <1>1, <1>2, <2>2, <2>3, <2>4 DEF SocketTypeOK
  <2>6. AttemptShaped'
    BY <1>1, <1>2, <2>2, <2>3, <2>4 DEF AttemptShaped, Relaying
  <2>7. ValuesBound'
    BY <1>2, <1>3, <2>2, <2>3, <2>4, ValuesFrame
  <2>8. OverlayCurrent'
    BY <1>1, <1>2, <2>3 DEF OverlayCurrent
  <2> QED BY <2>5, <2>6, <2>7, <2>8 DEF SocketInv
<1>5. CASE ~stored
  <2>1. StopDown("internal") /\ sock' = sock /\ kept' = kept
    BY <1>5 DEF CommitConversationRoute
  <2> QED BY <1>2, <1>3, <2>1, DownStops
<1> QED BY <1>4, <1>5

\* A peer that goes away stops its direction.
LEMMA StopReadingStep ==
    ASSUME SocketInv, StopReading PROVE SocketInv'
<1>1. SocketTypeOK
  BY DEF SocketInv
<1>2. /\ Relaying
      /\ UNCHANGED <<sock, crumbs, bindings, kept, reached, unclaimed>>
      /\ UNCHANGED <<recovery, header, outage>>
  BY DEF StopReading, quiet, history
<1>3. OwnersKept /\ BindingsTyped' /\ sock' \in Socks
  BY <1>1, <1>2, SameOwners DEF BindingsTyped, SocketTypeOK
<1>4. CASE UpTurn /\ StopUp("client") /\ UNCHANGED down
  BY <1>2, <1>3, <1>4, UpStops DEF UpTurn
<1>5. CASE down.pc = "idle" /\ StopDown("transport") /\ UNCHANGED up
  BY <1>2, <1>3, <1>5, DownStops
<1> QED BY <1>4, <1>5 DEF StopReading

\* A connection closes when both directions have stopped.
LEMMA CloseConnectionStep ==
    ASSUME SocketInv, CloseConnection PROVE SocketInv'
<1>1. SocketTypeOK /\ AttemptShaped /\ OverlayCurrent
  BY DEF SocketInv
<1>2. /\ Relaying /\ up.pc = "stopped" /\ down.pc = "stopped"
      /\ main' = [main EXCEPT !.pc = "settle"] /\ sock' = [sock EXCEPT !.open = FALSE]
      /\ UNCHANGED <<crumbs, bindings, up, down, kept, reached, unclaimed>>
      /\ UNCHANGED <<recovery, header, outage>>
  BY DEF CloseConnection, MainAt, relay, quiet, history
<1>3. sock' \in Socks /\ sock'.candidate = sock.candidate /\ ~sock'.open
  BY <1>1, <1>2 DEF SocketTypeOK, Socks
<1>4. /\ main' \in Mains /\ main'.pc = "settle" /\ main'.seen = main.seen
      /\ main'.accepted = main.accepted /\ main'.dials = main.dials /\ main'.cause = main.cause
  BY <1>1, <1>2 DEF SocketTypeOK, Mains
<1>5. SocketTypeOK'
  BY <1>1, <1>2, <1>3, <1>4 DEF SocketTypeOK
<1>6. AttemptShaped'
  BY <1>1, <1>2, <1>3, <1>4 DEF AttemptShaped
<1>7. ValuesBound'
  BY <1>2, <1>3, <1>4, SameOwners, ValuesFrame
<1>8. OverlayCurrent'
  BY <1>1, <1>2, <1>4 DEF OverlayCurrent, Relaying
<1> QED BY <1>5, <1>6, <1>7, <1>8 DEF SocketInv

(* After an attempt the orchestrator selects again, or ends. *)
LEMMA MovesOn ==
    ASSUME SocketInv, main.pc = "settle", NEW k \in {"select", "ended"}, NEW only \in DialTargets \cup {Nothing},
           main' = [main EXCEPT !.pc = k, !.only = only],
           k = "select" => Replaceable,
           sock' \in Socks, sock'.open => sock'.candidate \in DialTargets,
           UNCHANGED <<crumbs, bindings, up, down, kept, reached, unclaimed>>,
           UNCHANGED <<recovery, header, outage>>
    PROVE  SocketInv'
<1>1. SocketTypeOK /\ AttemptShaped /\ ValuesBound /\ OverlayCurrent
  BY DEF SocketInv
<1>2. /\ main' \in Mains /\ main'.pc = k /\ main'.seen = main.seen
      /\ main'.accepted = main.accepted /\ main'.dials = main.dials /\ main'.cause = main.cause
  BY <1>1 DEF SocketTypeOK, Mains
<1>3. k = "select" => ~main.seen /\ main.cause # "internal"
  BY DEF Replaceable
<1>4. up.pc \in {"idle", "stopped"} /\ down.pc \in {"idle", "stopped"}
  BY <1>1 DEF AttemptShaped
<1>5. SocketTypeOK'
  BY <1>1, <1>2 DEF SocketTypeOK
<1>6. AttemptShaped'
  BY <1>1, <1>2, <1>3, <1>4 DEF AttemptShaped
<1>7. ValuesBound'
  <2>1. recovery = "keep" => ReachedBound'
    BY <1>1, SameOwners, ReachedKept DEF ValuesBound
  <2> QED BY <1>2, <1>4, <2>1 DEF ValuesBound, DialBound, UpBound, DownBound
<1>8. OverlayCurrent'
  BY <1>1, <1>2, <1>3 DEF OverlayCurrent
<1> QED BY <1>5, <1>6, <1>7, <1>8 DEF SocketInv

\* A retry dials again only while nothing is visible.
LEMMA RetrySameProviderStep ==
    ASSUME SocketInv, RetrySameProvider PROVE SocketInv'
<1>1. SocketTypeOK /\ AttemptShaped
  BY DEF SocketInv
<1>2. /\ main.pc = "settle" /\ Replaceable
      /\ main' = [main EXCEPT !.pc = "select", !.only = sock.candidate] /\ sock' = sock
      /\ UNCHANGED <<crumbs, bindings, up, down, kept, reached, unclaimed>>
      /\ UNCHANGED <<recovery, header, outage>>
  BY DEF RetrySameProvider, relay, quiet, history
<1>3. sock' \in Socks /\ (sock'.open => sock'.candidate \in DialTargets)
      /\ sock.candidate \in DialTargets \cup {Nothing}
  BY <1>1, <1>2 DEF SocketTypeOK, AttemptShaped, Socks
<1> QED BY <1>2, <1>3, MovesOn

\* So does a replacement.
LEMMA ReplacePhysicalAttemptStep ==
    ASSUME SocketInv, ReplacePhysicalAttempt PROVE SocketInv'
<1>1. SocketTypeOK /\ AttemptShaped
  BY DEF SocketInv
<1>2. /\ main.pc = "settle" /\ Replaceable
      /\ UNCHANGED <<crumbs, bindings, up, down, kept, reached, unclaimed>>
      /\ UNCHANGED <<recovery, header, outage>>
  BY DEF ReplacePhysicalAttempt, relay, quiet, history
<1>3. PICK k \in {"select", "ended"} :
        main' = [main EXCEPT !.pc = k] /\ sock' \in {sock, Forgotten(sock)}
  BY DEF ReplacePhysicalAttempt, MainAt
<1>4. PICK only \in DialTargets \cup {Nothing} : only = main.only
  BY <1>1 DEF SocketTypeOK, Mains
<1>5. main' = [main EXCEPT !.pc = k, !.only = only]
  BY <1>1, <1>3, <1>4 DEF SocketTypeOK, Mains
<1>6. sock' \in Socks /\ (sock'.open => sock'.candidate \in DialTargets)
  BY <1>1, <1>3 DEF Forgotten, SocketTypeOK, AttemptShaped, Socks
<1> QED BY <1>2, <1>5, <1>6, MovesOn

\* The last attempt publishes the cookies of its own dial at most.
LEMMA ConcludeSocketStep ==
    ASSUME SocketInv, ConcludeSocket PROVE SocketInv'
<1>1. SocketTypeOK /\ AttemptShaped /\ ValuesBound /\ OverlayCurrent
  BY DEF SocketInv
<1>2. /\ main.pc = "settle" /\ main' = [main EXCEPT !.pc = "ended"]
      /\ crumbs' = crumbs \/ (main.accepted /\ crumbs' = Publish(crumbs))
      /\ UNCHANGED <<sock, bindings, up, down, kept, reached, unclaimed>>
      /\ UNCHANGED <<recovery, header, outage>>
  BY DEF ConcludeSocket, MainAt, relay, quiet, history
<1>3. /\ main' \in Mains /\ main'.pc = "ended" /\ main'.seen = main.seen
      /\ main'.accepted = main.accepted /\ main'.dials = main.dials
  BY <1>1, <1>2 DEF SocketTypeOK, Mains
<1>4. /\ crumbs' \in Crumbs /\ crumbs'.overlay = crumbs.overlay
      /\ crumbs'.authority = crumbs.authority
      /\ \/ crumbs'.published = crumbs.published
         \/ main.accepted /\ crumbs'.published \subseteq {main.dials}
  BY <1>1, <1>2, PublishKeeps DEF SocketTypeOK
<1>5. SocketTypeOK'
  BY <1>1, <1>2, <1>3, <1>4 DEF SocketTypeOK
<1>6. AttemptShaped'
  BY <1>1, <1>2, <1>3 DEF AttemptShaped
<1>7. ValuesBound'
  BY <1>2, <1>3, SameOwners, ValuesFrame
<1>8. OverlayCurrent'
  BY <1>1, <1>3, <1>4 DEF OverlayCurrent
<1> QED BY <1>5, <1>6, <1>7, <1>8 DEF SocketInv

-----------------------------------------------------------------------------
(* Everyone else, and the whole. *)

\* Another session takes free values only.
LEMMA RivalClaimsStep ==
    ASSUME SocketInv, NEW v \in Carriable, NEW t \in DialTargets, NEW mine \in BOOLEAN,
           RivalClaims(v, t, mine)
    PROVE  SocketInv'
<1>1. SocketTypeOK /\ AttemptShaped /\ ValuesBound /\ OverlayCurrent
  BY DEF SocketInv
<1>2. PICK b : b = [account |-> AccountOf[t], target |-> t, life |-> "committed",
                    mine |-> mine, ours |-> FALSE]
  OBVIOUS
<1>3. b \in BindingRows
  BY <1>2, AccountTypes DEF BindingRows
<1>4. /\ bindings[v] = Nothing /\ bindings' = [bindings EXCEPT ![v] = b]
      /\ UNCHANGED <<recovery, header, sock, crumbs, main, up, down, kept, outage>>
      /\ UNCHANGED <<reached, unclaimed>>
  BY <1>2 DEF RivalClaims, relay, history
<1>5. OwnersKept /\ BindingsTyped'
  BY <1>1, <1>3, <1>4 DEF OwnersKept, BindingsTyped, SocketTypeOK
<1>6. SocketTypeOK'
  BY <1>1, <1>4, <1>5 DEF SocketTypeOK, BindingsTyped
<1>7. AttemptShaped'
  BY <1>1, <1>4 DEF AttemptShaped
<1>8. ValuesBound'
  BY <1>4, <1>5, ValuesFrame
<1>9. OverlayCurrent'
  BY <1>1, <1>4 DEF OverlayCurrent
<1> QED BY <1>6, <1>7, <1>8, <1>9 DEF SocketInv

\* An outage, and a step of nobody, change nothing of the operation.
LEMMA SocketStutters ==
    ASSUME SocketInv, outage' \in BOOLEAN,
           UNCHANGED <<recovery, header, sock, crumbs, bindings, main, up, down, kept>>,
           UNCHANGED <<reached, unclaimed>>
    PROVE  SocketInv'
<1>1. SocketTypeOK /\ AttemptShaped /\ ValuesBound /\ OverlayCurrent
  BY DEF SocketInv
<1>2. SocketTypeOK'
  BY <1>1 DEF SocketTypeOK
<1>3. AttemptShaped'
  BY <1>1 DEF AttemptShaped
<1>4. ValuesBound'
  BY SameOwners, ValuesFrame
<1>5. OverlayCurrent'
  BY <1>1 DEF OverlayCurrent
<1> QED BY <1>2, <1>3, <1>4, <1>5 DEF SocketInv

\* The operation starts with nothing bound, seen or published.
LEMMA SocketStarts == SocketInit => SocketInv
<1> SUFFICES ASSUME SocketInit PROVE SocketInv
  OBVIOUS
<1>1. NoPermit \in Grants /\ <<>> \in Seq(ClientFrames(recovery))
  BY DEF NoPermit, Grants
<1>2. sock \in Socks /\ ~sock.open
  BY DEF SocketInit, Fresh, Socks
<1>3. main \in Mains /\ main.pc = "begin" /\ ~main.seen /\ ~main.accepted
  BY <1>1 DEF SocketInit, Mains
<1>4. crumbs \in Crumbs /\ crumbs.published = {} /\ \A a \in Accounts : crumbs.overlay[a] = {}
  BY DEF SocketInit, Crumbs
<1>5. /\ up \in Legs(ClientFrames(recovery), recovery) /\ down \in Legs(UpstreamRefs, recovery)
      /\ up.pc = "idle" /\ down.pc = "idle"
  BY StillTypes DEF SocketInit, Still
<1>6. SocketTypeOK
  BY <1>1, <1>2, <1>3, <1>4, <1>5 DEF SocketInit, SocketTypeOK
<1>7. AttemptShaped
  BY <1>2, <1>3, <1>5 DEF AttemptShaped
<1>8. ValuesBound
  BY <1>3, <1>5 DEF SocketInit, ValuesBound, ReachedBound, DialBound, UpBound, DownBound
<1>9. OverlayCurrent
  BY <1>3, <1>4 DEF OverlayCurrent
<1> QED BY <1>6, <1>7, <1>8, <1>9 DEF SocketInv

\* The socket invariant is inductive.
LEMMA SocketSteps ==
    ASSUME SocketInv, [SocketNext]_socketVars PROVE SocketInv'
<1>1. CASE BeginSocket
  BY <1>1, BeginSocketStep
<1>2. CASE OpenConnection
  BY <1>2, OpenConnectionStep
<1>3. ASSUME NEW t \in DialTargets, PrepareDial(t) PROVE SocketInv'
  BY <1>3, PrepareDialStep
<1>4. ASSUME NEW o \in {"rejected", "hidden", "lost", "accepted"}, DialEnds(o) PROVE SocketInv'
  BY <1>4, DialEndsStep
<1>5. ASSUME NEW v \in UpstreamRefs, NEW ok \in BOOLEAN, AcceptClient(v, ok) PROVE SocketInv'
  BY <1>5, AcceptClientStep
<1>6. ASSUME NEW v \in Carriable \cup {Nothing}, NEW b \in BOOLEAN, ClassifyClientFrame(v, b)
      PROVE  SocketInv'
  BY <1>6, ClassifyClientFrameStep
<1>7. CASE ReplayFrame
  BY <1>7, ReplayFrameStep
<1>8. CASE PrepareDelivery
  BY <1>8, PrepareDeliveryStep
<1>9. CASE WriteUpstream
  BY <1>9, WriteUpstreamStep
<1>10. CASE CommitDelivery
  BY <1>10, CommitDeliveryStep
<1>11. ASSUME NEW d \in BOOLEAN, WriteUpstreamFails(d) PROVE SocketInv'
  BY <1>11, WriteUpstreamFailsStep
<1>12. ASSUME NEW v \in UpstreamRefs \cup {Nothing}, PrepareServerFrame(v) PROVE SocketInv'
  BY <1>12, PrepareServerFrameStep
<1>13. CASE ConfirmFrame
  BY <1>13, ConfirmFrameStep
<1>14. CASE PinVisible
  BY <1>14, PinVisibleStep
<1>15. ASSUME NEW ok \in BOOLEAN, WriteClient(ok) PROVE SocketInv'
  BY <1>15, WriteClientStep
<1>16. ASSUME NEW ok \in BOOLEAN, CommitCookies(ok) PROVE SocketInv'
  BY <1>16, CommitCookiesStep
<1>17. ASSUME NEW ok \in BOOLEAN, CommitConversationRoute(ok) PROVE SocketInv'
  BY <1>17, CommitConversationRouteStep
<1>18. CASE StopReading
  BY <1>18, StopReadingStep
<1>19. CASE CloseConnection
  BY <1>19, CloseConnectionStep
<1>20. CASE RetrySameProvider
  BY <1>20, RetrySameProviderStep
<1>21. CASE ReplacePhysicalAttempt
  BY <1>21, ReplacePhysicalAttemptStep
<1>22. CASE ConcludeSocket
  BY <1>22, ConcludeSocketStep
<1>23. ASSUME NEW v \in Carriable, NEW t \in DialTargets, NEW mine \in BOOLEAN, RivalClaims(v, t, mine)
       PROVE  SocketInv'
  BY <1>23, RivalClaimsStep
<1>24. CASE StoreChanges
  <2>1. /\ outage' \in BOOLEAN
        /\ UNCHANGED <<recovery, header, sock, crumbs, bindings, main, up, down, kept>>
        /\ UNCHANGED <<reached, unclaimed>>
    BY <1>24 DEF StoreChanges, relay, history
  <2> QED BY <2>1, SocketStutters
<1>25. CASE UNCHANGED socketVars
  <2>1. /\ outage' \in BOOLEAN
        /\ UNCHANGED <<recovery, header, sock, crumbs, bindings, main, up, down, kept>>
        /\ UNCHANGED <<reached, unclaimed>>
    BY <1>25 DEF socketVars, SocketInv, SocketTypeOK
  <2> QED BY <2>1, SocketStutters
<1> QED
  BY <1>1, <1>2, <1>3, <1>4, <1>5, <1>6, <1>7, <1>8, <1>9, <1>10, <1>11, <1>12, <1>13, <1>14,
     <1>15, <1>16, <1>17, <1>18, <1>19, <1>20, <1>21, <1>22, <1>23, <1>24, <1>25
  DEF SocketNext

(* What the invariant says of the values and the cookies. *)
LEMMA AccountsAreSeparate == SocketInv => AccountsSeparate
<1> SUFFICES ASSUME SocketInv PROVE OneAccountPerValue /\ CookiesOfServingAttempt
  BY DEF AccountsSeparate
<1>1. CookiesOfServingAttempt
  BY DEF SocketInv, OverlayCurrent, CookiesOfServingAttempt
<1>2. OneAccountPerValue
  <2> SUFFICES ASSUME recovery = "keep", NEW v \in Carriable \ unclaimed
               PROVE  Cardinality(reached[v]) <= 1
    BY DEF OneAccountPerValue
  <2>1. CASE reached[v] = {}
    BY <2>1, FS_EmptySet
  <2>2. CASE reached[v] # {}
    <3>1. PICK a : reached[v] = {a}
      BY <2>2 DEF SocketInv, ValuesBound, ReachedBound
    <3>2. Cardinality({a}) = 1
      BY FS_Singleton, Zenon
    <3> QED BY <3>1, <3>2
  <2> QED BY <2>1, <2>2
<1> QED BY <1>1, <1>2

\* Every reachable state of a Codex WebSocket operation satisfies the invariant.
THEOREM SocketInvariant == SocketSpec => []SocketInv
<1>1. SocketInit => SocketInv
  BY SocketStarts
<1>2. SocketInv /\ [SocketNext]_socketVars => SocketInv'
  BY SocketSteps
<1> QED BY <1>1, <1>2, PTL DEF SocketSpec

\* No conversation value reaches two accounts and no cookie of a replaced attempt is
\* published (codex/websocket ClientPermit, ServerPermit and HandshakeCommit), for any
\* targets, accounts, values and bounds.
THEOREM SocketsKeepAccountsApart == SocketSpec => []AccountsSeparate
BY SocketInvariant, AccountsAreSeparate, PTL

-----------------------------------------------------------------------------
(* Continuity ownership: the tables of SQLite and of the mirror.            *)

OwnershipTables == [Values -> OwnershipRows \cup {None}]

\* A live row is what a transaction finds, whatever its time.
LEMMA ReconciledRow ==
  ASSUME NEW row \in OwnershipRows \cup {None}, NEW at \in Nat
  PROVE  /\ Reconciled(row, at) \in OwnershipRows \cup {None}
         /\ row # None /\ at < row.until => Reconciled(row, at) = row
         /\ Reconciled(row, at) # None =>
              /\ row # None /\ Reconciled(row, at).client = row.client
              /\ Reconciled(row, at).scope = row.scope
              /\ Reconciled(row, at).until = row.until
              /\ Reconciled(row, at).life \in {row.life, "tombstone"}
BY ContinuityAssumption, NoOwnerAssumption DEF Reconciled, OwnershipRows

\* What backs confirmations in table t still backs them in table u.
Keeps(t, u, time) ==
  \A w \in Values : t[w] # None /\ t[w].life = "committed" /\ t[w].until > time =>
     /\ u[w] # None /\ u[w].life = "committed" /\ u[w].client = t[w].client
     /\ u[w].scope = t[w].scope /\ u[w].until >= t[w].until

\* A row that a transaction leaves reconciled stays behind its confirmations.
LEMMA ReconciledKeeps ==
  ASSUME NEW t \in OwnershipTables, NEW u \in OwnershipTables, NEW time \in Nat, NEW at \in 0..time,
         \A w \in Values : u[w] \in {t[w], Reconciled(t[w], at)}
  PROVE  Keeps(t, u, time)
<1> SUFFICES ASSUME NEW w \in Values, t[w] # None, t[w].life = "committed", t[w].until > time
             PROVE  u[w] = t[w] /\ u[w].until >= t[w].until
  BY DEF Keeps
<1>1. t[w] \in OwnershipRows /\ t[w].until \in Nat /\ at < t[w].until
  BY DEF OwnershipTables, OwnershipRows
<1>2. Reconciled(t[w], at) = t[w]
  BY <1>1, ReconciledRow, at \in Nat
<1> QED
  BY <1>1, <1>2

\* Looking a value up reconciles its row, and finds the client's live row or none.
LEMMA LookedUpTable ==
  ASSUME NEW t \in OwnershipTables, NEW v, NEW client, NEW scope,
         NEW time \in Nat, NEW at \in 0..time
  PROVE  LET ans == LookedUp(t, v, client, scope, at)
         IN  /\ ans.table \in OwnershipTables /\ Keeps(t, ans.table, time)
             /\ v \in Values =>
                  /\ ans.row \in OwnershipRows \cup {None} /\ ans.table[v] = ans.row
                  /\ ans.row = Reconciled(t[v], at)
                  /\ ans.decision = "owned" =>
                       /\ ans.row \in OwnershipRows /\ ans.row.life # "tombstone"
                       /\ ans.row.client = client /\ scope \in {None, ans.row.scope}
                  /\ ans.decision \notin {"owned", "expired", "conflict"} => ans.row = None
                  /\ ans.decision = "expired" => ans.row # None /\ ans.row.life = "tombstone"
                  /\ ans.decision = "conflict" => ans.row # None
<1> DEFINE row == Reconciled(t[v], at)
           ans == LookedUp(t, v, client, scope, at)
<1>1. ans.decision = Resolution(row, client, scope) /\ ans.row = row /\ ans.table = [t EXCEPT ![v] = row]
  BY DEF LookedUp, Answer
<1>2. v \in Values => row \in OwnershipRows \cup {None}
  BY ReconciledRow, at \in Nat DEF OwnershipTables
<1>3. ans.table \in OwnershipTables /\ \A w \in Values : ans.table[w] \in {t[w], Reconciled(t[w], at)}
  BY <1>1, <1>2 DEF OwnershipTables
<1>4. Keeps(t, ans.table, time)
  BY <1>3, ReconciledKeeps
<1>5. v \in Values => ans.table[v] = row
  BY <1>1 DEF OwnershipTables
<1>6. ASSUME v \in Values
      PROVE  /\ Resolution(row, client, scope) = "owned" =>
                       /\ row \in OwnershipRows /\ row.life # "tombstone"
                       /\ row.client = client /\ scope \in {None, row.scope}
             /\ Resolution(row, client, scope) \notin {"owned", "expired", "conflict"} => row = None
             /\ Resolution(row, client, scope) = "expired" => row # None /\ row.life = "tombstone"
             /\ Resolution(row, client, scope) = "conflict" => row # None
  BY <1>2, <1>6 DEF Resolution, Standing, Matches
<1> QED
  BY <1>1, <1>2, <1>3, <1>4, <1>5, <1>6

\* Purging reconciles every row of a kind.
LEMMA PurgedTable ==
  ASSUME NEW t \in OwnershipTables, NEW v, NEW at \in Nat
  PROVE  /\ Purged(t, v, at) \in OwnershipTables
         /\ \A w \in Values : Purged(t, v, at)[w] \in {t[w], Reconciled(t[w], at)}
BY ReconciledRow DEF Purged, OwnershipTables

\* What a claim writes is a row.
ClaimTyped(v, client, scope, by) ==
  v \in Values => client \in Principals /\ scope \in Scopes /\ by \in Operations

\* A claim takes a value nobody has a row for, or finds the client's own row.
LEMMA ClaimedTable ==
  ASSUME NEW t \in OwnershipTables, NEW v, NEW client, NEW scope, NEW by,
         ClaimTyped(v, client, scope, by),
         NEW time \in Nat, NEW at \in 0..time
  PROVE  LET ans == ClaimedIn(t, v, client, scope, by, at)
         IN  /\ ans.table \in OwnershipTables /\ Keeps(t, ans.table, time)
             /\ v \in Values /\ ans.decision \in {"claimed", "owned"} =>
                  /\ ans.row \in OwnershipRows /\ ans.row.life # "tombstone"
                  /\ ans.row.client = client
<1> DEFINE found == LookedUp(t, v, client, scope, at)
           staying == Purged(t, v, at)
           fresh == [client |-> client, scope |-> scope, by |-> by,
                     life |-> "pending", until |-> at + PendingTTL]
           ans == ClaimedIn(t, v, client, scope, by, at)
           last == [staying EXCEPT ![v] = fresh]
<1>1. /\ found.table \in OwnershipTables /\ Keeps(t, found.table, time)
      /\ v \in Values => 
                  /\ found.row = Reconciled(t[v], at)
                  /\ found.decision = "owned" =>
                       /\ found.row \in OwnershipRows /\ found.row.life # "tombstone"
                       /\ found.row.client = client
                  /\ found.decision \notin {"owned", "expired", "conflict"} => found.row = None
  BY LookedUpTable
<1>2. staying \in OwnershipTables /\ \A w \in Values : staying[w] \in {t[w], Reconciled(t[w], at)}
  BY PurgedTable, at \in Nat
<1>3. v \in Values => fresh \in OwnershipRows
  BY ContinuityAssumption, at \in Nat DEF OwnershipRows, ClaimTyped
<1>4. Keeps(t, staying, time)
  BY <1>2, ReconciledKeeps
<1>5. last \in OwnershipTables
  BY <1>2, <1>3 DEF OwnershipTables
<1>6. CASE found.decision # "unknown"
  <2>1. ans = found
    BY <1>6 DEF ClaimedIn
  <2>2. found.decision # "claimed"
    BY DEF LookedUp, Answer, Resolution, Standing
  <2> QED
    BY <2>1, <2>2, <1>1
<1>7. CASE found.decision = "unknown" /\ Full(staying, v)
  <2>1. ans = Answer("capacity", None, staying)
    BY <1>7 DEF ClaimedIn
  <2> QED
    BY <2>1, <1>2, <1>4 DEF Answer
<1>8. CASE found.decision = "unknown" /\ ~Full(staying, v)
  <2>1. ans = Answer("claimed", fresh, last)
    BY <1>8 DEF ClaimedIn
  <2>2. Keeps(t, last, time)
    <3> SUFFICES ASSUME NEW w \in Values, t[w] # None, t[w].life = "committed", t[w].until > time
                 PROVE  last[w] = staying[w]
      BY <1>4 DEF Keeps
    <3>1. w # v
      <4> SUFFICES ASSUME w = v PROVE FALSE
        OBVIOUS
      <4>1. t[w] \in OwnershipRows /\ t[w].until \in Nat /\ at < t[w].until /\ at \in Nat
        BY DEF OwnershipTables, OwnershipRows
      <4>2. Reconciled(t[w], at) = t[w]
        BY <4>1, ReconciledRow
      <4> QED
        BY <4>2, <1>1, <1>8
    <3> QED
      BY <3>1, <1>2 DEF OwnershipTables
  <2> QED
    BY <2>1, <2>2, <1>3, <1>5 DEF Answer, OwnershipRows
<1> QED
  BY <1>6, <1>7, <1>8

\* Renewing a row keeps its owner and never shortens a committed deadline.
LEMMA RenewedRow ==
  ASSUME NEW row \in OwnershipRows, NEW at \in Nat
  PROVE  /\ Renewed(row, at) \in OwnershipRows /\ Renewed(row, at).life = "committed"
         /\ Renewed(row, at).client = row.client /\ Renewed(row, at).scope = row.scope
         /\ Renewed(row, at).until >= at + CommittedTTL
         /\ row.life = "committed" => Renewed(row, at).until >= row.until
<1> DEFINE u == IF row.life = "committed" THEN Later(row.until, at + CommittedTTL)
                ELSE at + CommittedTTL
<1>1. /\ u \in Nat /\ u >= at + CommittedTTL
      /\ row.life = "committed" => u >= row.until
  BY ContinuityAssumption DEF Later, OwnershipRows
<1>2. Renewed(row, at) = [row EXCEPT !.life = "committed", !.until = u]
  BY DEF Renewed
<1> HIDE DEF u
<1> QED
  BY <1>1, <1>2 DEF OwnershipRows

\* A commit renews the claimant's own row and touches no other's.
LEMMA CommittedTable ==
  ASSUME NEW t \in OwnershipTables, NEW v, NEW lease, NEW time \in Nat, NEW at \in 0..time
  PROVE  LET ans == CommittedIn(t, v, lease, at)
         IN  /\ ans.table \in OwnershipTables /\ Keeps(t, ans.table, time)
             /\ v \in Values /\ ans.decision = "committed" =>
                  /\ ans.table[v] \in OwnershipRows /\ ans.table[v].life = "committed"
                  /\ ans.table[v].client = lease.client /\ ans.table[v].scope = lease.scope
                  /\ ans.table[v].until >= at + CommittedTTL
<1> DEFINE row == Reconciled(t[v], at)
           staying == [t EXCEPT ![v] = row]
           ans == CommittedIn(t, v, lease, at)
           new == Renewed(row, at)
           last == [t EXCEPT ![v] = new]
<1>1. v \in Values => row \in OwnershipRows \cup {None}
  BY ReconciledRow, at \in Nat DEF OwnershipTables
<1>2. staying \in OwnershipTables /\ \A w \in Values : staying[w] \in {t[w], Reconciled(t[w], at)}
  BY <1>1 DEF OwnershipTables
<1>3. Keeps(t, staying, time)
  BY <1>2, ReconciledKeeps
<1>4. CASE Standing(row) = "owned" /\ SameClaim(row, lease)
  <2>1. ans = Answer("committed", new, last)
    BY <1>4 DEF CommittedIn
  <2>2. CASE v \in Values
    <3>1. row \in OwnershipRows /\ row.life # "tombstone"
      BY <1>1, <1>4, <2>2 DEF Standing
    <3>2. /\ new \in OwnershipRows /\ new.life = "committed" /\ new.client = row.client
          /\ new.scope = row.scope /\ new.until >= at + CommittedTTL
          /\ row.life = "committed" => new.until >= row.until
      BY <3>1, RenewedRow, at \in Nat
    <3>3. last \in OwnershipTables /\ last[v] = new
      BY <2>2, <3>2 DEF OwnershipTables
    <3>4. Keeps(t, last, time)
      <4> SUFFICES ASSUME NEW w \in Values, t[w] # None, t[w].life = "committed", t[w].until > time
                   PROVE  /\ last[w] # None /\ last[w].life = "committed" /\ last[w].client = t[w].client
                          /\ last[w].scope = t[w].scope /\ last[w].until >= t[w].until
        BY DEF Keeps
      <4>1. t[w] \in OwnershipRows /\ t[w].until \in Nat /\ at < t[w].until /\ at \in Nat
        BY DEF OwnershipTables, OwnershipRows
      <4>2. CASE w = v
        <5>1. row = t[w]
          BY <4>1, <4>2, ReconciledRow
        <5> QED
          BY <5>1, <3>2, <3>3, <4>2, NoOwnerAssumption
      <4>3. CASE w # v
        BY <4>3, <4>1 DEF OwnershipTables
      <4> QED
        BY <4>2, <4>3
    <3> QED
      BY <2>1, <3>2, <3>3, <3>4, <1>4 DEF Answer, SameClaim
  <2>3. CASE v \notin Values
    <3>1. last = t
      BY <2>3 DEF OwnershipTables
    <3>2. Keeps(t, t, time)
      BY ReconciledKeeps
    <3>3. ans.table = t
      BY <2>1, <3>1 DEF Answer
    <3> QED
      BY <2>3, <3>3, <3>2
  <2> QED
    BY <2>2, <2>3
<1>5. CASE ~(Standing(row) = "owned" /\ SameClaim(row, lease))
  <2>1. ans.table = staying /\ ans.decision # "committed"
    BY <1>5 DEF CommittedIn, Answer, Standing
  <2> QED
    BY <2>1, <1>2, <1>3
<1> QED
  BY <1>4, <1>5

\* An abandoned row was pending, so nothing was confirmed by it.
LEMMA AbandonedTable ==
  ASSUME NEW t \in OwnershipTables, NEW v, NEW lease, NEW time \in Nat, NEW at \in 0..time
  PROVE  LET ans == AbandonedIn(t, v, lease, at)
         IN  ans.table \in OwnershipTables /\ Keeps(t, ans.table, time)
<1> DEFINE row == Reconciled(t[v], at)
           staying == [t EXCEPT ![v] = row]
           ans == AbandonedIn(t, v, lease, at)
           last == [t EXCEPT ![v] = None]
<1>1. v \in Values => row \in OwnershipRows \cup {None}
  BY ReconciledRow, at \in Nat DEF OwnershipTables
<1>2. staying \in OwnershipTables /\ \A w \in Values : staying[w] \in {t[w], Reconciled(t[w], at)}
  BY <1>1 DEF OwnershipTables
<1>3. Keeps(t, staying, time)
  BY <1>2, ReconciledKeeps
<1>4. CASE Standing(row) = "owned" /\ row.life = "pending" /\ SameClaim(row, lease)
  <2>1. ans = Answer("abandoned", row, last)
    BY <1>4 DEF AbandonedIn
  <2>2. last \in OwnershipTables
    BY DEF OwnershipTables
  <2>3. Keeps(t, last, time)
    <3> SUFFICES ASSUME NEW w \in Values, t[w] # None, t[w].life = "committed", t[w].until > time
                 PROVE  last[w] = t[w] /\ t[w].until >= t[w].until
      BY DEF Keeps
    <3>1. t[w] \in OwnershipRows /\ t[w].until \in Nat /\ at < t[w].until /\ at \in Nat
      BY DEF OwnershipTables, OwnershipRows
    <3>2. Reconciled(t[w], at) = t[w]
      BY <3>1, ReconciledRow
    <3>3. w # v
      BY <3>2, <1>4
    <3> QED
      BY <3>1, <3>3 DEF OwnershipTables
  <2> QED
    BY <2>1, <2>2, <2>3 DEF Answer
<1>5. CASE ~(Standing(row) = "owned" /\ row.life = "pending" /\ SameClaim(row, lease))
  <2>1. ans.table = staying
    BY <1>5 DEF AbandonedIn, Answer
  <2> QED
    BY <2>1, <1>2, <1>3
<1> QED
  BY <1>4, <1>5

\* A row that may be copied for a client.
CopyFit(v, row, client) ==
  v \in Values => row \in OwnershipRows /\ row.life # "tombstone" /\ row.client = client

\* Mirroring a live row of the client keeps every owner; only the deadline of the
\* value itself can become that of the copy.
LEMMA RememberedTable ==
  ASSUME NEW t \in OwnershipTables, NEW v, NEW client, NEW row, NEW time \in Nat, NEW at \in 0..time,
         CopyFit(v, row, client)
  PROVE  LET ans == Remembered(t, v, client, row, at)
         IN  /\ ans.table \in OwnershipTables
             /\ \A w \in Values : t[w] # None /\ t[w].life = "committed" /\ t[w].until > time =>
                  /\ ans.table[w] # None /\ ans.table[w].life = "committed"
                  /\ ans.table[w].client = t[w].client /\ ans.table[w].scope = t[w].scope
                  /\ ans.table[w].until >= t[w].until \/ (w = v /\ ans.table[v] = row)
<1> DEFINE found == LookedUp(t, v, client, row.scope, at)
           staying == Purged(t, v, at)
           ans == Remembered(t, v, client, row, at)
           copied == [t EXCEPT ![v] = row]
           added == [staying EXCEPT ![v] = row]
           Good(u) == /\ u \in OwnershipTables
                      /\ \A w \in Values : t[w] # None /\ t[w].life = "committed" /\ t[w].until > time =>
                           /\ u[w] # None /\ u[w].life = "committed"
                           /\ u[w].client = t[w].client /\ u[w].scope = t[w].scope
                           /\ u[w].until >= t[w].until \/ (w = v /\ u[v] = row)
<1>1. /\ found.table \in OwnershipTables /\ Keeps(t, found.table, time)
      /\ v \in Values =>
            /\ found.row = Reconciled(t[v], at)
            /\ found.decision = "owned" =>
                 /\ found.row \in OwnershipRows /\ found.row.client = client
                 /\ row.scope \in {None, found.row.scope}
            /\ found.decision \notin {"owned", "expired", "conflict"} => found.row = None
  BY LookedUpTable
<1>2. staying \in OwnershipTables /\ \A w \in Values : staying[w] \in {t[w], Reconciled(t[w], at)}
  BY PurgedTable, at \in Nat
<1>3. Keeps(t, staying, time)
  BY <1>2, ReconciledKeeps
<1>4. Good(found.table) /\ Good(staying)
  BY <1>1, <1>2, <1>3 DEF Keeps
<1>5. ASSUME NEW w \in Values, t[w] # None, t[w].life = "committed", t[w].until > time
      PROVE  t[w] \in OwnershipRows /\ t[w].until \in Nat /\ Reconciled(t[w], at) = t[w]
  <2>1. t[w] \in OwnershipRows /\ t[w].until \in Nat /\ at < t[w].until /\ at \in Nat
    BY <1>5 DEF OwnershipTables, OwnershipRows
  <2> QED
    BY <2>1, <1>5, ReconciledRow
<1>0. v \in Values => row \in OwnershipRows /\ row.life # "tombstone" /\ row.client = client
  BY DEF CopyFit
<1>6. ASSUME found.decision = "owned", ~(found.row.life = "committed" /\ row.life # "committed")
      PROVE  Good(copied)
  <2>1. copied \in OwnershipTables
    BY <1>0 DEF OwnershipTables
  <2>2. ASSUME NEW w \in Values, t[w] # None, t[w].life = "committed", t[w].until > time
        PROVE  /\ copied[w] # None /\ copied[w].life = "committed"
               /\ copied[w].client = t[w].client /\ copied[w].scope = t[w].scope
               /\ copied[w].until >= t[w].until \/ (w = v /\ copied[v] = row)
    <3>1. t[w] \in OwnershipRows /\ t[w].until \in Nat /\ Reconciled(t[w], at) = t[w]
      BY <2>2, <1>5
    <3>2. CASE w = v
      <4>1. found.row = t[w] /\ row \in OwnershipRows /\ copied[w] = row
        BY <3>1, <3>2, <1>0, <1>1 DEF OwnershipTables
      <4>2. row.scope = t[w].scope
        BY <4>1, <1>1, <1>6, <3>2, NoOwnerAssumption DEF OwnershipRows
      <4> QED
        BY <4>1, <4>2, <1>0, <1>1, <1>6, <2>2, <3>2, NoOwnerAssumption
    <3>3. CASE w # v
      BY <3>1, <3>3, <2>2 DEF OwnershipTables
    <3> QED
      BY <3>2, <3>3
  <2> QED
    BY <2>1, <2>2
<1>7. ASSUME found.decision \notin {"owned", "expired", "conflict"}
      PROVE  Good(added)
  <2>1. added \in OwnershipTables
    BY <1>0, <1>2 DEF OwnershipTables
  <2>2. ASSUME NEW w \in Values, t[w] # None, t[w].life = "committed", t[w].until > time
        PROVE  added[w] = t[w] /\ t[w].until >= t[w].until
    <3>1. t[w] \in OwnershipRows /\ t[w].until \in Nat /\ Reconciled(t[w], at) = t[w]
      BY <2>2, <1>5
    <3>2. w # v
      BY <3>1, <1>1, <1>7, <2>2
    <3> QED
      BY <3>1, <3>2, <1>2 DEF OwnershipTables
  <2> QED
    BY <2>1, <2>2
<1>8. CASE found.decision \in {"expired", "conflict"}
  <2>1. ans = found
    BY <1>8 DEF Remembered
  <2> QED
    BY <1>4, <2>1
<1>9. CASE found.decision = "owned"
  <2>1. CASE found.row.life = "committed" /\ row.life # "committed"
    <3>1. ans = found
      BY <1>9, <2>1 DEF Remembered
    <3> QED
      BY <1>4, <3>1
  <2>2. CASE ~(found.row.life = "committed" /\ row.life # "committed")
    <3>1. ans = Answer("owned", row, copied)
      BY <1>9, <2>2 DEF Remembered
    <3>2. ans.table = copied
      BY <3>1 DEF Answer
    <3> QED
      BY <1>6, <1>9, <2>2, <3>2
  <2> QED
    BY <2>1, <2>2
<1>10. CASE found.decision \notin {"owned", "expired", "conflict"}
  <2>1. CASE Full(staying, v)
    <3>1. ans = Answer("capacity", row, staying)
      BY <1>10, <2>1 DEF Remembered
    <3>2. ans.table = staying
      BY <3>1 DEF Answer
    <3> QED
      BY <1>4, <3>2
  <2>2. CASE ~Full(staying, v)
    <3>1. ans = Answer("owned", row, added)
      BY <1>10, <2>2 DEF Remembered
    <3>2. ans.table = added
      BY <3>1 DEF Answer
    <3> QED
      BY <1>7, <1>10, <3>2
  <2> QED
    BY <2>1, <2>2
<1> QED
  BY <1>8, <1>9, <1>10

-----------------------------------------------------------------------------
(* Continuity ownership: the operation.                                     *)

\* The fields of an operation.
LEMMA Fields ==
  DOMAIN FreshBinding =
    {"phase", "client", "switch", "evidence", "status", "source", "action", "required",
     "scope", "pin", "leases", "spent", "failed", "shown", "disclosed", "todo", "call"}
BY DEF FreshBinding

\* q differs from p in no field that decides where the conversation may go.
SameRoute(p, q) ==
  /\ Shaped(q) /\ q.client = p.client /\ q.switch = p.switch /\ q.action = p.action
  /\ q.required = p.required /\ q.scope = p.scope /\ q.pin = p.pin
  /\ q.spent = p.spent /\ q.disclosed = p.disclosed

\* Ending a call drops it from the list and nothing else.
LEMMA PoppedRoute ==
  ASSUME NEW p, Shaped(p)
  PROVE  /\ SameRoute(p, Popped(p)) /\ Popped(p).phase = p.phase
         /\ Popped(p).todo = Tail(p.todo) /\ Popped(p).call = NoCall
BY Fields DEF Shaped, SameRoute, Popped

\* Noting a lease leaves the route alone.
LEMMA LeasedRoute ==
  ASSUME NEW p, Shaped(p), NEW v, NEW out
  PROVE  /\ SameRoute(p, Leased(p, v, out)) /\ Leased(p, v, out).phase = p.phase
         /\ Leased(p, v, out).todo = Tail(p.todo) /\ Leased(p, v, out).call = NoCall
<1>1. Shaped(Popped(p))
  BY PoppedRoute DEF SameRoute
<1> HIDE DEF Popped
<1>2. /\ SameRoute(Popped(p), Leased(p, v, out)) /\ Leased(p, v, out).phase = Popped(p).phase
      /\ Leased(p, v, out).todo = Popped(p).todo /\ Leased(p, v, out).call = Popped(p).call
  BY <1>1, Fields DEF Shaped, SameRoute, Leased
<1> QED
  BY <1>2, PoppedRoute DEF SameRoute

\* Observing a value notes its status and nothing else.
LEMMA ObserveRoute ==
  ASSUME NEW p, Shaped(p), NEW v, NEW out
  PROVE  LET q == ObserveBinding(p, v, out)
         IN  /\ SameRoute(p, q) /\ q.phase = p.phase
             /\ q.todo = Tail(p.todo) /\ q.call = NoCall
<1> DEFINE r == Popped(p)
           q == ObserveBinding(p, v, out)
<1>1. PICK kind, source : q = [r EXCEPT !.status[v] = kind, !.source[v] = source]
  BY DEF ObserveBinding
<1>2. SameRoute(p, r) /\ r.phase = p.phase /\ r.todo = Tail(p.todo) /\ r.call = NoCall
  BY PoppedRoute
<1> HIDE DEF r, q
<1>3. SameRoute(r, q) /\ q.phase = r.phase /\ q.todo = r.todo /\ q.call = r.call
  BY <1>1, <1>2, Fields DEF Shaped, SameRoute
<1>4. SameRoute(p, q) /\ q.phase = p.phase /\ q.todo = Tail(p.todo) /\ q.call = NoCall
  BY <1>2, <1>3 DEF SameRoute
<1> QED
  BY <1>4 DEF q

\* Preparing a value leases it, skips it, or turns to undoing.
LEMMA PreparedRoute ==
  ASSUME NEW p, Shaped(p), NEW v, NEW out
  PROVE  LET q == Prepared(p, v, out)
         IN  SameRoute(p, q) /\ q.phase \in {p.phase, "undoing"} /\ q.call = NoCall
<1> DEFINE r == Popped(p)
           q == Prepared(p, v, out)
           t == AsksFor("abandon", Created(p.leases))
<1>1. q = Leased(p, v, out) \/ q = r \/ q = [r EXCEPT !.phase = "undoing", !.todo = t]
  BY DEF Prepared
<1>2. SameRoute(p, r) /\ r.phase = p.phase /\ r.call = NoCall
  BY PoppedRoute
<1>3. CASE q = [r EXCEPT !.phase = "undoing", !.todo = t]
  <2> HIDE DEF r, q, t
  <2>1. SameRoute(r, q) /\ q.phase = "undoing" /\ q.call = r.call
    BY <1>2, <1>3, Fields DEF Shaped, SameRoute
  <2>2. SameRoute(p, q) /\ q.phase = "undoing" /\ q.call = NoCall
    BY <1>2, <2>1 DEF SameRoute
  <2> QED
    BY <2>2 DEF q
<1>4. CASE q = Leased(p, v, out)
  BY <1>4, LeasedRoute
<1>5. CASE q = r
  BY <1>5, <1>2
<1> QED
  BY <1>1, <1>3, <1>4, <1>5

\* Gating a value leases it, skips it, asks again, or ends the operation.
LEMMA GatedRoute ==
  ASSUME NEW p, Shaped(p), NEW a, NEW out
  PROVE  LET q == Gated(p, a, out)
         IN  q = Ended \/ (SameRoute(p, q) /\ q.phase = p.phase /\ q.call = NoCall)
<1> DEFINE claim == [p EXCEPT !.todo = <<AskClaim(a.v, TRUE)>>, !.call = NoCall]
           again == [p EXCEPT !.todo = <<AskLookup(a.v, p.scope)>>, !.call = NoCall]
<1>1. SameRoute(p, claim) /\ claim.phase = p.phase /\ claim.call = NoCall
  BY Fields DEF Shaped, SameRoute
<1>3. SameRoute(p, again) /\ again.phase = p.phase /\ again.call = NoCall
  BY Fields DEF Shaped, SameRoute
<1>2. \/ Gated(p, a, out) = Leased(p, a.v, out)
      \/ Gated(p, a, out) = Popped(p)
      \/ Gated(p, a, out) = Ended
      \/ Gated(p, a, out) = claim
      \/ Gated(p, a, out) = again
  <2> DEFINE seen == IF a.scope = None THEN Observed(p, out) ELSE out.decision
  <2>1. CASE a.call = "claim"
    BY <2>1 DEF Gated
  <2>2. CASE a.call = "lookup" /\ seen = "ok"
    BY <2>2 DEF Gated
  <2>3. CASE a.call = "lookup" /\ seen # "ok"
    BY <2>3 DEF Gated
  <2>4. CASE a.call \notin {"claim", "lookup"}
    BY <2>4 DEF Gated
  <2> QED
    BY <2>1, <2>2, <2>3, <2>4
<1> HIDE DEF claim, again
<1> QED
  BY <1>1, <1>2, <1>3, LeasedRoute, PoppedRoute

\* A commit goes on, stops, or puts the operation back.
LEMMA SettledRoute ==
  ASSUME NEW p, Shaped(p), NEW out
  PROVE  LET q == Settled(p, out)
         IN  \/ SameRoute(p, q) /\ q.phase = p.phase /\ q.call = NoCall
                /\ q.todo \in {Tail(p.todo), <<>>}
             \/ p.phase = "disclosing" /\ q = [Idle(p) EXCEPT !.call = NoCall]
<1>1. ASSUME NEW r, Shaped(r)
      PROVE  LET q == [r EXCEPT !.todo = <<>>]
             IN  SameRoute(r, q) /\ q.phase = r.phase /\ q.call = r.call /\ q.todo = <<>>
  BY <1>1, Fields DEF Shaped, SameRoute
<1>2. \/ Settled(p, out) = Popped(p)
      \/ p.phase = "disclosing" /\ Settled(p, out) = [Idle(p) EXCEPT !.call = NoCall]
      \/ Settled(p, out) = [Popped(p) EXCEPT !.todo = <<>>]
  BY DEF Settled
<1>3. CASE Settled(p, out) = [Popped(p) EXCEPT !.todo = <<>>]
  <2>1. LET q == Settled(p, out)
        IN  SameRoute(Popped(p), q) /\ q.phase = Popped(p).phase /\ q.call = Popped(p).call /\ q.todo = <<>>
    BY <1>1, <1>3, PoppedRoute DEF SameRoute
  <2> QED
    BY <2>1, PoppedRoute DEF SameRoute
<1> QED
  BY <1>2, <1>3, PoppedRoute

\* Whatever leaves the route alone and ends the call keeps an operation sound.
LEMMA RouteSound ==
  ASSUME NEW time \in Nat, NEW p, OperationSound(p, time), p.todo # <<>>, NEW q, SameRoute(p, q),
         q.call = NoCall,
         q.phase = p.phase \/ (p.phase = "preparing" /\ q.phase = "undoing"),
         p.phase = "resolving" => q.todo = Tail(p.todo)
  PROVE  OperationSound(q, time)
<1>1. p.phase \notin {"new", "admitted", "sending", "answered", "writing", "ended"}
  BY DEF OperationSound, AsksSound
<1>2. AsksSound(q)
  <2>1. p.phase = "resolving" => q.todo \in Seq({AskLookup(v, None) : v \in Values})
    <3> DEFINE S == {AskLookup(v, None) : v \in Values}
    <3>1. p.phase = "resolving" => p.todo \in Seq(S)
      BY DEF OperationSound, AsksSound
    <3> HIDE DEF S
    <3>2. p.phase = "resolving" => Tail(p.todo) \in Seq(S)
      BY <3>1
    <3> QED
      BY <3>2 DEF S
  <2> QED
    BY <1>1, <2>1 DEF OperationSound, AsksSound, SameRoute, Working
<1>3. CallSound(q, time)
  BY DEF CallSound, NoCall
<1>4. MustStay(q) = MustStay(p)
  BY DEF SameRoute, MustStay, Carried
<1>5. ScopeKept(q)
  BY <1>1, <1>4 DEF OperationSound, ScopeKept, SameRoute, Working
<1> QED
  BY <1>2, <1>3, <1>5 DEF OperationSound, SameRoute

\* An operation that ended is sound.
LEMMA EndedSound ==
  ASSUME NEW time \in Nat
  PROVE  OperationSound(Ended, time)
<1>1. /\ Shaped(Ended) /\ Ended.phase = "ended" /\ Ended.todo = <<>> /\ Ended.call = NoCall
      /\ Ended.disclosed = {} /\ Ended.spent = FALSE
  BY Fields DEF Shaped, Ended, FreshBinding
<1> HIDE DEF Ended
<1> QED
  BY <1>1 DEF OperationSound, AsksSound, CallSound, ScopeKept, Working, NoCall

\* An operation put back may be tried again where it has to be.
LEMMA IdleSound ==
  ASSUME NEW time \in Nat, NEW p, Shaped(p), p.client \in Principals, ScopeKept(p), p.call = NoCall,
         p.phase \notin {"new", "resolving"}
  PROVE  OperationSound(Idle(p), time)
<1> DEFINE q == Idle(p)
<1>1. /\ Shaped(q) /\ q.client = p.client /\ q.switch = p.switch /\ q.action = p.action
      /\ q.required = p.required /\ q.spent = p.spent /\ q.disclosed = p.disclosed
      /\ q.phase = "admitted" /\ q.todo = <<>> /\ q.call = NoCall
  BY Fields DEF Shaped, Idle
<1> HIDE DEF q
<1>2. MustStay(q) = MustStay(p)
  BY <1>1 DEF MustStay, Carried
<1>3. ScopeKept(q)
  BY <1>1, <1>2 DEF ScopeKept, Working
<1>4. OperationSound(q, time)
  BY <1>1, <1>3 DEF OperationSound, AsksSound, CallSound, Working, NoCall
<1> QED
  BY <1>4 DEF q

\* Pinning an operation requires the account it is at.
LEMMA PinnedFields ==
  ASSUME NEW p, Shaped(p)
  PROVE  LET q == Pinned(p)
         IN  /\ Shaped(q) /\ q.client = p.client /\ q.switch = p.switch /\ q.action = p.action
             /\ q.spent = p.spent /\ q.disclosed = p.disclosed /\ q.scope = p.scope
             /\ q.phase = p.phase /\ q.todo = p.todo /\ q.call = p.call /\ q.pin = p.pin
             /\ q.leases = p.leases
             /\ q.required = IF ~p.switch /\ p.pin THEN p.scope ELSE p.required
<1>1. CASE ~p.switch /\ p.pin
  BY <1>1, Fields DEF Shaped, Pinned
<1>2. CASE ~(~p.switch /\ p.pin)
  BY <1>2 DEF Pinned
<1> QED
  BY <1>1, <1>2

\* Pinning contradicts no earlier disclosure.
LEMMA PinnedKept ==
  ASSUME NEW p, Shaped(p), ScopeKept(p), Working(p), p.scope \in Scopes
  PROVE  ScopeKept(Pinned(p))
<1> DEFINE q == Pinned(p)
<1>1. /\ q.switch = p.switch /\ q.action = p.action
      /\ q.spent = p.spent /\ q.disclosed = p.disclosed /\ q.scope = p.scope
      /\ q.phase = p.phase /\ q.pin = p.pin
      /\ q.required = IF ~p.switch /\ p.pin THEN p.scope ELSE p.required
  BY PinnedFields
<1> HIDE DEF q
<1>2. MustStay(q) = MustStay(p) /\ p.scope # None
  BY <1>1, NoOwnerAssumption DEF MustStay, Carried
<1>3. ScopeKept(q)
  BY <1>1, <1>2 DEF ScopeKept, Working
<1> QED
  BY <1>3 DEF q

\* What admission decides keeps an operation sound: nothing was disclosed before it.
LEMMA AdmittedSound ==
  ASSUME NEW time \in Nat, NEW p, OperationSound(p, time), p.phase = "resolving", p.todo = <<>>
  PROVE  OperationSound(Admitted(p), time)
<1> DEFINE owners   == {p.source[v] : v \in {w \in p.evidence : p.status[w] = "current"}}
           anchored == ~p.switch /\ owners # {}
           action   == [v \in Values |-> IF v \in p.evidence
                                      THEN Decided(v, p.status[v], anchored)
                                      ELSE "none"]
           required == IF anchored THEN CHOOSE s \in owners : TRUE ELSE None
           q == Admitted(p)
<1>1. q = Ended \/ \E status, source :
         q = [p EXCEPT !.phase = "admitted", !.action = action, !.evidence = {},
                       !.status = status, !.source = source, !.required = required]
  BY DEF Admitted
<1>2. CASE q = Ended
  BY <1>2, EndedSound
<1>3. CASE q # Ended
  <2>1. PICK status, source :
           q = [p EXCEPT !.phase = "admitted", !.action = action, !.evidence = {},
                         !.status = status, !.source = source, !.required = required]
    BY <1>1, <1>3
  <2> HIDE DEF q, action, required
  <2>2. /\ Shaped(q) /\ q.phase = "admitted" /\ q.client = p.client /\ q.todo = p.todo
        /\ q.call = p.call /\ q.disclosed = p.disclosed /\ q.spent = p.spent
    BY <2>1, Fields DEF Shaped, OperationSound
  <2>3. p.disclosed = {} /\ ~p.spent /\ p.client \in Principals /\ p.call = NoCall
    BY DEF OperationSound, ScopeKept, AsksSound, CallSound
  <2>4. OperationSound(q, time)
    BY <2>2, <2>3 DEF OperationSound, AsksSound, CallSound, ScopeKept, Working, NoCall
  <2> QED
    BY <2>4 DEF q
<1> QED
  BY <1>2, <1>3

\* Once a disclosure is over, the operation counts as spent.
LEMMA SpentSound ==
  ASSUME NEW time \in Nat, NEW p, OperationSound(p, time), p.phase = "disclosing", p.todo = <<>>
  PROVE  OperationSound([p EXCEPT !.phase = "answered", !.spent = TRUE, !.leases = <<>>], time)
<1> DEFINE q == [p EXCEPT !.phase = "answered", !.spent = TRUE, !.leases = <<>>]
<1>1. /\ Shaped(q) /\ q.client = p.client /\ q.switch = p.switch /\ q.action = p.action
      /\ q.required = p.required /\ q.spent = TRUE /\ q.disclosed = p.disclosed /\ q.scope = p.scope
      /\ q.phase = "answered" /\ q.todo = <<>> /\ q.call = p.call
  BY Fields DEF Shaped, OperationSound
<1> HIDE DEF q
<1>2. MustStay(q) = MustStay(p)
  BY <1>1 DEF MustStay, Carried
<1>3. ScopeKept(q)
  BY <1>1, <1>2 DEF ScopeKept, Working, OperationSound
<1>4. OperationSound(q, time)
  BY <1>1, <1>3 DEF OperationSound, AsksSound, CallSound, Working, NoCall
<1> QED
  BY <1>4 DEF q

\* Moving on to wait for the next event changes no route.
LEMMA WaitSound ==
  ASSUME NEW time \in Nat, NEW p, OperationSound(p, time), p.todo = <<>>, Working(p),
         NEW q, SameRoute(p, q), q.todo = <<>>, q.call = p.call,
         \/ q.phase \in {"writing", "answered"}
         \/ q.phase = "sending" /\ p.phase = "preparing"
  PROVE  OperationSound(q, time)
<1>1. MustStay(q) = MustStay(p)
  BY DEF SameRoute, MustStay, Carried
<1>2. ScopeKept(q)
  BY <1>1 DEF SameRoute, ScopeKept, Working, OperationSound
<1>3. p.call = NoCall /\ p.client \in Principals /\ p.scope \in Scopes
  BY DEF OperationSound, AsksSound, CallSound, Working
<1> QED
  BY <1>2, <1>3 DEF SameRoute, OperationSound, AsksSound, CallSound, Working, NoCall

\* Whatever follows the last call of a phase keeps an operation sound.
LEMMA DoneSound ==
  ASSUME NEW time \in Nat, NEW p, OperationSound(p, time), p.todo = <<>>
  PROVE  OperationSound(Done(p), time)
<1>1. CASE p.phase = "resolving"
  <2>1. Done(p) = Admitted(p)
    BY <1>1 DEF Done
  <2> QED
    BY <2>1, <1>1, AdmittedSound
<1>2. CASE p.phase = "preparing"
  <2> DEFINE q == [p EXCEPT !.phase = "sending"]
  <2>1. Done(p) = q
    BY <1>2 DEF Done
  <2>2. SameRoute(p, q) /\ q.todo = <<>> /\ q.call = p.call /\ q.phase = "sending"
    BY Fields DEF SameRoute, Shaped, OperationSound
  <2> HIDE DEF q
  <2> QED
    BY <2>1, <2>2, <1>2, WaitSound DEF Working
<1>3. CASE p.phase = "undoing"
  <2>1. Done(p) = Idle(p)
    BY <1>3 DEF Done
  <2>2. Shaped(p) /\ p.client \in Principals /\ ScopeKept(p) /\ p.call = NoCall
    BY <1>3 DEF OperationSound, AsksSound, CallSound
  <2> QED
    BY <2>1, <2>2, <1>3, IdleSound
<1>4. CASE p.phase = "disclosing"
  <2>1. Done(p) = [p EXCEPT !.phase = "answered", !.spent = TRUE, !.leases = <<>>]
    BY <1>4 DEF Done
  <2> QED
    BY <2>1, <1>4, SpentSound
<1>5. CASE p.phase = "abandoning"
  <2> DEFINE r == IF p.failed THEN Pinned(p) ELSE p
  <2>1. Done(p) = Idle(r)
    BY <1>5 DEF Done
  <2>2. Shaped(p) /\ p.client \in Principals /\ ScopeKept(p) /\ p.call = NoCall /\ p.scope \in Scopes
    BY <1>5 DEF OperationSound, AsksSound, CallSound, Working
  <2>3. Shaped(r) /\ r.client \in Principals /\ ScopeKept(r) /\ r.call = NoCall /\ r.phase = "abandoning"
    BY <2>2, <1>5, PinnedFields, PinnedKept DEF Working
  <2> HIDE DEF r
  <2> QED
    BY <2>1, <2>3, IdleSound
<1>6. CASE p.phase = "gating"
  <2> DEFINE q == [p EXCEPT !.phase = "writing"]
  <2>1. Done(p) = q
    BY <1>6 DEF Done
  <2>2. SameRoute(p, q) /\ q.todo = <<>> /\ q.call = p.call /\ q.phase = "writing"
    BY Fields DEF SameRoute, Shaped, OperationSound
  <2> HIDE DEF q
  <2> QED
    BY <2>1, <2>2, <1>6, WaitSound DEF Working
<1>7. CASE p.phase = "showing"
  <2> DEFINE q == [p EXCEPT !.phase = "answered", !.leases = <<>>]
  <2>1. Done(p) = q
    BY <1>7 DEF Done
  <2>2. SameRoute(p, q) /\ q.todo = <<>> /\ q.call = p.call /\ q.phase = "answered"
    BY Fields DEF SameRoute, Shaped, OperationSound
  <2> HIDE DEF q
  <2> QED
    BY <2>1, <2>2, <1>7, WaitSound DEF Working
<1>8. CASE p.phase \notin {"resolving", "preparing", "undoing", "disclosing", "abandoning", "gating", "showing"}
  BY <1>8 DEF Done
<1> QED
  BY <1>1, <1>2, <1>3, <1>4, <1>5, <1>6, <1>7, <1>8

\* An operation that has nothing left to ask goes on soundly.
LEMMA ProceedSound ==
  ASSUME NEW time \in Nat, NEW p, OperationSound(p, time)
  PROVE  OperationSound(ProceedOperation(p), time)
BY DoneSound DEF ProceedOperation

\* Whatever a service call answers, its operation goes on soundly.
LEMMA ReturnedSound ==
  ASSUME NEW time \in Nat, NEW p, OperationSound(p, time), p.todo # <<>>, NEW out
  PROVE  OperationSound(Returned(p, out), time)
<1> DEFINE a == Head(p.todo)
           q == CASE p.phase = "resolving" -> ObserveBinding(p, a.v, out)
                  [] p.phase = "preparing" -> Prepared(p, a.v, out)
                  [] p.phase = "undoing"   -> Popped(p)
                  [] p.phase = "abandoning" ->
                       [Popped(p) EXCEPT !.failed = @ \/ out.decision # "ok"]
                  [] p.phase = "gating" -> Gated(p, a, out)
                  [] OTHER -> Settled(p, out)
<1>0. Shaped(p)
  BY DEF OperationSound
<1>1. CASE p.phase = "resolving"
  <2>1. q = ObserveBinding(p, a.v, out)
    BY <1>1
  <2> HIDE DEF q, a
  <2>2. SameRoute(p, q) /\ q.phase = p.phase /\ q.todo = Tail(p.todo) /\ q.call = NoCall
    BY <2>1, <1>0, ObserveRoute
  <2> QED
    BY <2>2, RouteSound, ProceedSound DEF Returned, q, a
<1>2. CASE p.phase = "preparing"
  <2>1. q = Prepared(p, a.v, out)
    BY <1>2
  <2> HIDE DEF q, a
  <2>2. SameRoute(p, q) /\ q.phase \in {p.phase, "undoing"} /\ q.call = NoCall
    BY <2>1, <1>0, PreparedRoute
  <2>3. OperationSound(q, time)
    BY <2>2, <1>2, RouteSound
  <2> QED
    BY <2>3, ProceedSound DEF Returned, q, a
<1>3. CASE p.phase = "undoing"
  <2>1. q = Popped(p)
    BY <1>3
  <2>2. SameRoute(p, q) /\ q.phase = p.phase /\ q.call = NoCall
    BY <2>1, <1>0, PoppedRoute
  <2> HIDE DEF q, a
  <2>3. OperationSound(q, time)
    BY <2>2, <1>3, RouteSound
  <2> QED
    BY <2>3, ProceedSound DEF Returned, q, a
<1>4. CASE p.phase = "abandoning"
  <2> DEFINE r == Popped(p)
  <2>1. q = [r EXCEPT !.failed = @ \/ out.decision # "ok"]
    BY <1>4
  <2>2. SameRoute(p, r) /\ r.phase = p.phase /\ r.call = NoCall
    BY <1>0, PoppedRoute
  <2> HIDE DEF q, a, r
  <2>3. SameRoute(r, q) /\ q.phase = r.phase /\ q.call = r.call
    BY <2>1, <2>2, Fields DEF SameRoute, Shaped
  <2>4. SameRoute(p, q) /\ q.phase = p.phase /\ q.call = NoCall
    BY <2>2, <2>3 DEF SameRoute
  <2>5. OperationSound(q, time)
    BY <2>4, <1>4, RouteSound
  <2> QED
    BY <2>5, ProceedSound DEF Returned, q, a
<1>5. CASE p.phase = "gating"
  <2>1. q = Gated(p, a, out)
    BY <1>5
  <2> HIDE DEF q, a
  <2>2. q = Ended \/ (SameRoute(p, q) /\ q.phase = p.phase /\ q.call = NoCall)
    BY <2>1, <1>0, GatedRoute
  <2>3. OperationSound(q, time)
    BY <2>2, <1>5, RouteSound, EndedSound
  <2> QED
    BY <2>3, ProceedSound DEF Returned, q, a
<1>6. CASE p.phase \notin {"resolving", "preparing", "undoing", "abandoning", "gating"}
  <2>1. q = Settled(p, out)
    BY <1>6
  <2> HIDE DEF q, a
  <2>2. CASE SameRoute(p, q) /\ q.phase = p.phase /\ q.call = NoCall
    <3>1. OperationSound(q, time)
      BY <2>2, <1>6, RouteSound
    <3> QED
      BY <3>1, ProceedSound DEF Returned, q, a
  <2>3. CASE p.phase = "disclosing" /\ q = [Idle(p) EXCEPT !.call = NoCall]
    <3> DEFINE r == [p EXCEPT !.call = NoCall]
    <3>1. SameRoute(p, r) /\ r.phase = p.phase /\ r.call = NoCall
      BY <1>0, Fields DEF SameRoute, Shaped
    <3>2. q = Idle(r)
      BY <2>3, <1>0, Fields DEF Shaped, Idle
    <3> HIDE DEF r
    <3>3. OperationSound(r, time)
      BY <3>1, <2>3, RouteSound
    <3>4. OperationSound(Idle(r), time)
      BY <3>1, <3>3, <2>3, IdleSound DEF OperationSound, AsksSound
    <3> QED
      BY <3>2, <3>4, ProceedSound DEF Returned, q, a
  <2> QED
    BY <2>1, <2>2, <2>3, <1>0, SettledRoute
<1> QED
  BY <1>1, <1>2, <1>3, <1>4, <1>5, <1>6

\* A call that goes on keeps its operation sound if what it will copy is fit for it.
LEMMA OnToSound ==
  ASSUME NEW time \in Nat, NEW p, OperationSound(p, time), p.todo # <<>>, NEW step, NEW at \in 0..time,
         NEW ans,
         step \in {"remember", "restore"} /\ Head(p.todo).v \in Values =>
           /\ ans.row \in OwnershipRows /\ ans.row.life # "tombstone"
           /\ ans.row.client = p.client
  PROVE  OperationSound(OnTo(p, step, at, ans), time)
<1> DEFINE q == OnTo(p, step, at, ans)
<1>1. /\ SameRoute(p, q) /\ q.phase = p.phase /\ q.todo = p.todo
      /\ q.call = [step |-> step, at |-> at, cause |-> ans.decision, row |-> ans.row]
  BY Fields DEF OnTo, SameRoute, Shaped, OperationSound
<1> HIDE DEF q
<1>2. CallSound(q, time)
  BY <1>1 DEF CallSound, SameRoute
<1>3. AsksSound(q)
  BY <1>1 DEF OperationSound, AsksSound, SameRoute, Working
<1>4. MustStay(q) = MustStay(p)
  BY <1>1 DEF SameRoute, MustStay, Carried
<1>5. ScopeKept(q)
  BY <1>1, <1>4 DEF OperationSound, ScopeKept, SameRoute, Working
<1>6. OperationSound(q, time)
  BY <1>1, <1>2, <1>3, <1>5 DEF OperationSound, SameRoute
<1> QED
  BY <1>6 DEF q

-----------------------------------------------------------------------------
(* Continuity ownership: the steps.                                         *)

\* The inductive invariant after a step of operation o that takes no time.
LEMMA OperationStep ==
  ASSUME ContinuityInv, NEW o \in Operations, NEW q, OperationSound(q, clock),
         operation' = [operation EXCEPT ![o] = q], UNCHANGED <<clock, inPlay>>,
         durable' \in OwnershipTables, memory' \in OwnershipTables,
         proofs' = [v \in Values |-> proofs'[v]],
         \A v \in Values : \A x \in proofs'[v] : ProofBacked(v, x)'
  PROVE  ContinuityInv'
<1>1. operation' = [w \in Operations |-> operation'[w]]
  BY DEF ContinuityInv
<1>2. \A w \in Operations : OperationSound(operation'[w], clock')
  BY DEF ContinuityInv
<1> QED
  BY <1>1, <1>2 DEF ContinuityInv, OwnershipTables

\* A confirmation stays backed when both tables keep their owners.
LEMMA StillBacked ==
  ASSUME ContinuityInv, clock' = clock, Keeps(durable, durable', clock), Keeps(memory, memory', clock),
         durable' \in OwnershipTables, memory' \in OwnershipTables,
         NEW v \in Values, NEW x \in proofs[v]
  PROVE  ProofBacked(v, x)'
<1>1. ProofBacked(v, x)
  BY DEF ContinuityInv
<1>2. CASE x.where = "memory"
  <2>1. memory[v] # None /\ memory[v].life = "committed" /\ memory[v].until > clock
        /\ memory[v].until \in Nat
    BY <1>1, <1>2 DEF ProofBacked, Backed, ContinuityInv, OwnershipRows
  <2>2. memory'[v] # None /\ memory'[v].until \in Nat /\ memory'[v].until >= memory[v].until
        /\ memory'[v].life = "committed" /\ memory'[v].client = memory[v].client
        /\ memory'[v].scope = memory[v].scope
    BY <2>1 DEF Keeps, OwnershipTables, OwnershipRows
  <2> QED
    BY <1>1, <1>2, <2>1, <2>2 DEF ProofBacked, Backed
<1>3. CASE x.where # "memory"
  <2>1. durable[v] # None /\ durable[v].life = "committed" /\ durable[v].until > clock
        /\ durable[v].until \in Nat
    BY <1>1, <1>3 DEF ProofBacked, Backed, ContinuityInv, OwnershipRows
  <2>2. durable'[v] # None /\ durable'[v].until \in Nat /\ durable'[v].until >= durable[v].until
        /\ durable'[v].life = "committed" /\ durable'[v].client = durable[v].client
        /\ durable'[v].scope = durable[v].scope
    BY <2>1 DEF Keeps, OwnershipTables, OwnershipRows
  <2> QED
    BY <1>1, <1>3, <2>1, <2>2 DEF ProofBacked, Backed
<1> QED
  BY <1>2, <1>3

\* A table keeps its owners when it is left alone.
LEMMA KeepsItself ==
  ASSUME NEW t \in OwnershipTables, NEW time \in Nat
  PROVE  Keeps(t, t, time)
BY DEF Keeps, OwnershipTables, OwnershipRows

\* A confirmation is backed by the row just committed.
LEMMA ConfirmBacked ==
  ASSUME ContinuityInv, clock' = clock, Keeps(durable, durable', clock), Keeps(memory, memory', clock),
         durable' \in OwnershipTables, memory' \in OwnershipTables,
         NEW v, NEW lease, NEW at \in Nat, NEW where \in {"disk", "memory"},
         Confirm(v, lease, at, where),
         v \in Values =>
           LET row == IF where = "memory" THEN memory'[v] ELSE durable'[v]
           IN  /\ row \in OwnershipRows /\ row.life = "committed"
               /\ row.client = lease.client /\ row.scope = lease.scope
               /\ row.until >= at + CommittedTTL
  PROVE  /\ proofs' = [w \in Values |-> proofs'[w]]
         /\ \A w \in Values : \A x \in proofs'[w] : ProofBacked(w, x)'
<1> DEFINE new == [client |-> lease.client, scope |-> lease.scope,
                   until |-> at + CommittedTTL, where |-> where]
<1>1. /\ proofs' = [w \in Values |-> proofs'[w]]
      /\ \A w \in Values : w # v => proofs'[w] = proofs[w]
      /\ v \in Values => proofs'[v] = {q \in proofs[v] \cup {new} : q.until > clock}
  BY DEF Confirm, ContinuityInv
<1>2. ASSUME NEW w \in Values, NEW x \in proofs'[w] PROVE ProofBacked(w, x)'
  <2>1. CASE x \in proofs[w]
    BY <2>1, StillBacked
  <2>2. CASE x \notin proofs[w]
    <3>1. w = v /\ x = new /\ new.until > clock
      BY <1>1, <1>2, <2>2
    <3>2. at + CommittedTTL \in Nat
      BY ContinuityAssumption
    <3>3. new.client = lease.client /\ new.scope = lease.scope /\ new.until = at + CommittedTTL
          /\ new.where = where
      OBVIOUS
    <3> HIDE DEF new
    <3>4. Backed(x, IF x.where = "memory" THEN memory'[w] ELSE durable'[w])
      BY <3>1, <3>2, <3>3, NoOwnerAssumption DEF Backed
    <3> QED
      BY <3>1, <3>2, <3>3, <3>4 DEF ProofBacked, Backed
  <2> QED
    BY <2>1, <2>2
<1> QED
  BY <1>1, <1>2

\* What the invariant says of an operation in a service call.
LEMMA CallFacts ==
  ASSUME ContinuityInv, NEW o \in Operations, NEW step, At(o, step)
  PROVE  LET p == operation[o]
         IN  /\ OperationSound(p, clock) /\ clock \in Nat /\ p.todo # <<>> /\ p.client \in Principals
             /\ p.call.at \in 0..clock /\ p.call.at \in Nat
             /\ p.phase \notin {"new", "admitted", "ended"}
             /\ p.phase # "resolving" => p.scope \in Scopes
             /\ p.phase = "resolving" => Head(p.todo).call = "lookup" /\ Head(p.todo).lease = None
             /\ p.call.step = step
<1>1. OperationSound(operation[o], clock) /\ clock \in Nat
  BY DEF ContinuityInv
<1>2. /\ operation[o].todo # <<>> /\ operation[o].phase \notin {"new", "admitted", "ended"}
      /\ operation[o].client \in Principals /\ operation[o].call.step = step
      /\ operation[o].phase # "resolving" => operation[o].scope \in Scopes
  BY <1>1 DEF At, OperationSound, AsksSound, Working
<1>3. operation[o].phase = "resolving" =>
         Head(operation[o].todo).call = "lookup" /\ Head(operation[o].todo).lease = None
  <2> DEFINE S == {AskLookup(v, None) : v \in Values}
             t == operation[o].todo
  <2>1. operation[o].phase = "resolving" => t \in Seq(S)
    BY <1>1 DEF OperationSound, AsksSound
  <2>2. \A a \in S : a.call = "lookup" /\ a.lease = None
    BY DEF AskLookup, Ask
  <2> HIDE DEF S, t
  <2>3. ASSUME t \in Seq(S), t # <<>> PROVE Head(t) \in S
    BY <2>3
  <2> QED
    BY <1>2, <2>1, <2>2, <2>3 DEF t
<1>4. operation[o].call.at \in 0..clock
  BY <1>1 DEF OperationSound, CallSound
<1> QED
  BY <1>1, <1>2, <1>3, <1>4

\* The durable table answers without moving a confirmed row, and what a lookup or a
\* claim will copy is a live row of the client.
LEMMA DurableAnswers ==
  ASSUME ContinuityInv, NEW o \in Operations, At(o, "store"), NEW ok \in BOOLEAN
  PROVE  LET p   == operation[o]
             a   == Head(p.todo)
             ans == IF ok THEN DurableAnswer(o, a) ELSE Unavailable
         IN  /\ ans.table \in OwnershipTables /\ Keeps(durable, ans.table, clock)
             /\ a.v \in Values /\ NextStep(a, ans.decision) \in {"remember", "restore"} =>
                  /\ ans.row \in OwnershipRows /\ ans.row.life # "tombstone"
                  /\ ans.row.client = p.client
             /\ a.v \in Values /\ a.call = "commit" /\ ans.decision = "committed" =>
                  /\ ans.table[a.v] \in OwnershipRows /\ ans.table[a.v].life = "committed"
                  /\ ans.table[a.v].client = a.lease.client /\ ans.table[a.v].scope = a.lease.scope
                  /\ ans.table[a.v].until >= clock + CommittedTTL
<1> DEFINE p == operation[o]
           a == Head(p.todo)
           ans == IF ok THEN DurableAnswer(o, a) ELSE Unavailable
           Fit(r) == r \in OwnershipRows /\ r.life # "tombstone" /\ r.client = p.client
           Copied(r) == a.v \in Values /\ NextStep(a, r.decision) \in {"remember", "restore"} => Fit(r.row)
           Proved(r) == a.v \in Values /\ a.call = "commit" /\ r.decision = "committed" =>
                  /\ r.table[a.v] \in OwnershipRows /\ r.table[a.v].life = "committed"
                  /\ r.table[a.v].client = a.lease.client /\ r.table[a.v].scope = a.lease.scope
                  /\ r.table[a.v].until >= clock + CommittedTTL
           Good(r) == r.table \in OwnershipTables /\ Keeps(durable, r.table, clock) /\ Copied(r) /\ Proved(r)
<1>1. /\ p.client \in Principals /\ clock \in Nat /\ clock \in 0..clock
      /\ p.phase # "resolving" => p.scope \in Scopes
      /\ p.phase = "resolving" => a.call = "lookup" /\ a.lease = None
      /\ durable \in OwnershipTables
  BY CallFacts DEF ContinuityInv, OwnershipTables
<1>2. \A d : NextStep(a, d) \in {"remember", "restore"} =>
         \/ a.call = "lookup" /\ d = "owned"
         \/ a.call = "claim" /\ d \in {"claimed", "owned"}
  BY DEF NextStep, Persistence
<1>3. Good(Unavailable)
  <2>1. Unavailable.table = durable /\ Unavailable.decision = "unavailable"
    BY DEF Unavailable, Answer
  <2> QED
    BY <1>1, <1>2, <2>1, KeepsItself
<1>4. Good(Answer("skipped", None, durable))
  <2> DEFINE r == Answer("skipped", None, durable)
  <2>1. r.table = durable /\ r.decision = "skipped"
    BY DEF Answer
  <2> HIDE DEF r
  <2> QED
    BY <1>1, <1>2, <2>1, KeepsItself DEF r
<1>5. ASSUME a.call = "lookup" PROVE Good(LookedUp(durable, a.v, p.client, a.scope, clock))
  <2> DEFINE r == LookedUp(durable, a.v, p.client, a.scope, clock)
  <2>1. /\ r.table \in OwnershipTables /\ Keeps(durable, r.table, clock)
        /\ a.v \in Values /\ r.decision = "owned" => Fit(r.row)
    BY <1>1, LookedUpTable
  <2> HIDE DEF r
  <2>2. Copied(r)
    <3> HIDE DEF Fit, a
    <3> QED
      BY <1>2, <1>5, <2>1
  <2>3. Good(r)
    BY <1>5, <2>1, <2>2
  <2> HIDE DEF Good
  <2> QED
    BY <2>3 DEF r
<1>6. ASSUME a.call = "claim" PROVE Good(ClaimedIn(durable, a.v, p.client, p.scope, o, clock))
  <2> DEFINE v == a.v
             c == p.client
             s == p.scope
             r == ClaimedIn(durable, v, c, s, o, clock)
  <2>0. s \in Scopes /\ c \in Principals
    BY <1>1, <1>6
  <2>1. /\ r.table \in OwnershipTables /\ Keeps(durable, r.table, clock)
        /\ v \in Values /\ r.decision \in {"claimed", "owned"} =>
             r.row \in OwnershipRows /\ r.row.life # "tombstone" /\ r.row.client = c
    <3>1. ClaimTyped(v, c, s, o)
      BY <2>0 DEF ClaimTyped
    <3> HIDE DEF v, c, s
    <3> QED
      BY <1>1, <3>1, ClaimedTable
  <2> HIDE DEF r
  <2>2. Copied(r)
    <3> HIDE DEF a
    <3> QED
      BY <1>2, <1>6, <2>1
  <2>3. Good(r)
    BY <1>6, <2>1, <2>2
  <2> HIDE DEF Good
  <2> QED
    BY <2>3 DEF r
<1>7. ASSUME a.call = "commit" PROVE Good(CommittedIn(durable, a.v, a.lease, clock))
  <2> DEFINE r == CommittedIn(durable, a.v, a.lease, clock)
  <2>1. /\ r.table \in OwnershipTables /\ Keeps(durable, r.table, clock) /\ Proved(r)
    BY <1>1, CommittedTable
  <2> HIDE DEF r
  <2>2. Copied(r)
    <3> HIDE DEF Fit, a
    <3> QED
      BY <1>2, <1>7
  <2> QED
    BY <2>1, <2>2 DEF r
<1>8. ASSUME a.call \notin {"lookup", "claim", "commit"} PROVE Good(AbandonedIn(durable, a.v, a.lease, clock))
  <2> DEFINE r == AbandonedIn(durable, a.v, a.lease, clock)
  <2>1. /\ r.table \in OwnershipTables /\ Keeps(durable, r.table, clock)
    BY <1>1, AbandonedTable
  <2> HIDE DEF r
  <2>2. Copied(r) /\ Proved(r)
    <3> HIDE DEF Fit, a
    <3> QED
      BY <1>2, <1>8
  <2> QED
    BY <2>1, <2>2 DEF r
<1>9. \/ ans = Unavailable \/ ans = Answer("skipped", None, durable)
      \/ a.call = "lookup" /\ ans = LookedUp(durable, a.v, p.client, a.scope, clock)
      \/ a.call = "claim" /\ ans = ClaimedIn(durable, a.v, p.client, p.scope, o, clock)
      \/ a.call = "commit" /\ ans = CommittedIn(durable, a.v, a.lease, clock)
      \/ a.call \notin {"lookup", "claim", "commit"} /\ ans = AbandonedIn(durable, a.v, a.lease, clock)
  <2>1. CASE ~ok
    BY <2>1
  <2>2. CASE ok /\ a.lease # None /\ a.lease.origin = "memory"
    BY <2>2 DEF DurableAnswer
  <2>3. CASE ok /\ ~(a.lease # None /\ a.lease.origin = "memory")
    BY <2>3 DEF DurableAnswer
  <2> QED
    BY <2>1, <2>2, <2>3
<1>10. Good(ans)
  <2> HIDE DEF ans, Good
  <2> QED
    BY <1>3, <1>4, <1>5, <1>6, <1>7, <1>8, <1>9
<1> QED
  BY <1>10

\* A step in the durable table.
LEMMA DurableStepKeeps ==
  ASSUME ContinuityInv, NEW o \in Operations, NEW ok \in BOOLEAN, DurableStep(o, ok)
  PROVE  ContinuityInv'
<1> DEFINE p == operation[o]
           a == Head(p.todo)
           ans == IF ok THEN DurableAnswer(o, a) ELSE Unavailable
           step == NextStep(a, ans.decision)
           q == IF step = "return" THEN Returned(p, Error(ans.decision, ans.row))
                ELSE OnTo(p, step, clock, ans)
<1>1. /\ At(o, "store") /\ durable' = ans.table /\ operation' = [operation EXCEPT ![o] = q]
      /\ IF a.call = "commit" /\ ans.decision = "committed"
         THEN Confirm(a.v, a.lease, clock, "disk") ELSE proofs' = proofs
      /\ UNCHANGED <<inPlay, clock, memory>>
  BY DEF DurableStep, Goes
<1>2. /\ OperationSound(p, clock) /\ clock \in Nat /\ p.todo # <<>> /\ clock \in 0..clock
      /\ memory \in OwnershipTables
  BY <1>1, CallFacts DEF ContinuityInv, OwnershipTables
<1>3. /\ ans.table \in OwnershipTables /\ Keeps(durable, ans.table, clock)
      /\ a.v \in Values /\ step \in {"remember", "restore"} =>
           /\ ans.row \in OwnershipRows /\ ans.row.life # "tombstone"
           /\ ans.row.client = p.client
      /\ a.v \in Values /\ a.call = "commit" /\ ans.decision = "committed" =>
           /\ ans.table[a.v] \in OwnershipRows /\ ans.table[a.v].life = "committed"
           /\ ans.table[a.v].client = a.lease.client /\ ans.table[a.v].scope = a.lease.scope
           /\ ans.table[a.v].until >= clock + CommittedTTL
  BY <1>1, DurableAnswers
<1> HIDE DEF ans, step
<1>4. OperationSound(q, clock)
  <2>1. CASE step = "return"
    BY <2>1, <1>2, ReturnedSound
  <2>2. CASE step # "return"
    BY <2>2, <1>2, <1>3, OnToSound
  <2> QED
    BY <2>1, <2>2
<1> HIDE DEF q
<1>5. Keeps(memory, memory', clock) /\ Keeps(durable, durable', clock)
      /\ durable' \in OwnershipTables /\ memory' \in OwnershipTables
  BY <1>1, <1>2, <1>3, KeepsItself
<1>6. /\ proofs' = [w \in Values |-> proofs'[w]]
      /\ \A w \in Values : \A x \in proofs'[w] : ProofBacked(w, x)'
  <2>1. CASE a.call = "commit" /\ ans.decision = "committed"
    <3> DEFINE v == a.v
               lease == a.lease
    <3>1. v \in Values =>
             /\ durable'[v] \in OwnershipRows /\ durable'[v].life = "committed"
             /\ durable'[v].client = lease.client /\ durable'[v].scope = lease.scope
             /\ durable'[v].until >= clock + CommittedTTL
      BY <1>1, <1>3, <2>1
    <3>2. Confirm(v, lease, clock, "disk")
      BY <1>1, <2>1
    <3> HIDE DEF v, lease
    <3> QED
      BY <1>1, <1>2, <1>5, <3>1, <3>2, ConfirmBacked
  <2>2. CASE ~(a.call = "commit" /\ ans.decision = "committed")
    <3>1. proofs' = proofs
      BY <1>1, <2>2
    <3>2. ASSUME NEW w \in Values, NEW x \in proofs[w] PROVE ProofBacked(w, x)'
      BY <1>1, <1>5, StillBacked
    <3> QED
      BY <3>1, <3>2 DEF ContinuityInv
  <2> QED
    BY <2>1, <2>2
<1> QED
  BY <1>1, <1>4, <1>5, <1>6, OperationStep

\* A step in the mirror that confirms nothing.
LEMMA MirrorStep ==
  ASSUME ContinuityInv, NEW o \in Operations, NEW q, OperationSound(q, clock),
         operation' = [operation EXCEPT ![o] = q], UNCHANGED <<inPlay, clock, durable, proofs>>,
         memory' \in OwnershipTables, Keeps(memory, memory', clock)
  PROVE  ContinuityInv'
<1>1. durable' \in OwnershipTables /\ Keeps(durable, durable', clock)
  BY KeepsItself DEF ContinuityInv, OwnershipTables
<1>2. ASSUME NEW w \in Values, NEW x \in proofs[w] PROVE ProofBacked(w, x)'
  BY <1>1, StillBacked
<1>3. /\ proofs' = [w \in Values |-> proofs'[w]]
      /\ \A w \in Values : \A x \in proofs'[w] : ProofBacked(w, x)'
  BY <1>2 DEF ContinuityInv
<1> QED
  BY <1>1, <1>3, OperationStep

\* Lookup in the mirror drops only rows that are dead.
LEMMA MirrorLookupKeeps ==
  ASSUME ContinuityInv, NEW o \in Operations, MirrorLookup(o)
  PROVE  ContinuityInv'
<1> DEFINE p == operation[o]
           a == Head(p.todo)
           ans == LookedUp(memory, a.v, p.client, a.scope, p.call.at)
           q == IF ans.decision = "owned"
                THEN IF p.call.cause = "unknown" THEN OnTo(p, "restore", p.call.at, ans)
                     ELSE Returned(p, Outcome("ok", ans.row, "memory", FALSE))
                ELSE IF ans.decision = "unknown" THEN Returned(p, Error(p.call.cause, None))
                ELSE Returned(p, Error(ans.decision, ans.row))
<1>1. /\ At(o, "memory") /\ memory' = ans.table /\ operation' = [operation EXCEPT ![o] = q]
      /\ UNCHANGED <<inPlay, clock, durable, proofs>>
  BY DEF MirrorLookup, Goes
<1>2. /\ OperationSound(p, clock) /\ clock \in Nat /\ p.todo # <<>> /\ p.call.at \in 0..clock
      /\ memory \in OwnershipTables
  BY <1>1, CallFacts DEF ContinuityInv, OwnershipTables
<1>3. /\ ans.table \in OwnershipTables /\ Keeps(memory, ans.table, clock)
      /\ a.v \in Values /\ ans.decision = "owned" =>
           ans.row \in OwnershipRows /\ ans.row.life # "tombstone" /\ ans.row.client = p.client
  BY <1>2, LookedUpTable
<1> HIDE DEF ans
<1>4. OperationSound(q, clock)
  <2>1. CASE ans.decision = "owned" /\ p.call.cause = "unknown"
    <3>1. q = OnTo(p, "restore", p.call.at, ans)
      BY <2>1
    <3> HIDE DEF q
    <3> QED
      BY <3>1, <2>1, <1>2, <1>3, OnToSound
  <2>2. CASE ~(ans.decision = "owned" /\ p.call.cause = "unknown")
    <3>1. \E out : q = Returned(p, out)
      <4>1. CASE ans.decision = "unknown"
        BY <4>1
      <4>2. CASE ans.decision \notin {"unknown", "owned"}
        BY <4>2
      <4>3. CASE ans.decision = "owned" /\ p.call.cause # "unknown"
        BY <4>3
      <4> QED
        BY <2>2, <4>1, <4>2, <4>3
    <3> HIDE DEF q
    <3> QED
      BY <3>1, <1>2, ReturnedSound
  <2> QED
    BY <2>1, <2>2
<1> HIDE DEF q
<1> QED
  BY <1>1, <1>3, <1>4, MirrorStep

\* A claim in the mirror takes no live row from its owner.
LEMMA MirrorClaimKeeps ==
  ASSUME ContinuityInv, NEW o \in Operations, MirrorClaim(o)
  PROVE  ContinuityInv'
<1> DEFINE p == operation[o]
           a == Head(p.todo)
           v == a.v
           c == p.client
           s == p.scope
           at == p.call.at
           ans == ClaimedIn(memory, v, c, s, o, at)
           out == IF ans.decision \in {"claimed", "owned"}
                  THEN Outcome("ok", ans.row, "memory", ans.decision = "claimed")
                  ELSE Error(ans.decision, None)
           q == Returned(p, out)
<1>1. /\ At(o, "memory") /\ memory' = ans.table /\ operation' = [operation EXCEPT ![o] = q]
      /\ UNCHANGED <<inPlay, clock, durable, proofs>> /\ a.call = "claim"
  BY DEF MirrorClaim, Goes
<1>2. /\ OperationSound(p, clock) /\ clock \in Nat /\ p.todo # <<>> /\ at \in 0..clock
      /\ memory \in OwnershipTables /\ c \in Principals /\ s \in Scopes
  BY <1>1, CallFacts DEF ContinuityInv, OwnershipTables
<1>3. OperationSound(q, clock)
  BY <1>2, ReturnedSound
<1>4. ans.table \in OwnershipTables /\ Keeps(memory, ans.table, clock)
  <2> HIDE DEF v, c, s, at
  <2> QED
    BY <1>2, ClaimedTable DEF ClaimTyped
<1> HIDE DEF q, ans
<1> QED
  BY <1>1, <1>3, <1>4, MirrorStep

\* Abandoning in the mirror removes only the pending row the lease created.
LEMMA MirrorAbandonKeeps ==
  ASSUME ContinuityInv, NEW o \in Operations, MirrorAbandon(o)
  PROVE  ContinuityInv'
<1> DEFINE p == operation[o]
           a == Head(p.todo)
           v == a.v
           lease == a.lease
           at == p.call.at
           ans == AbandonedIn(memory, v, lease, at)
           ok  == \/ ans.decision = "abandoned"
                  \/ p.call.cause = "abandoned" /\ ans.decision = "unknown"
           q == Returned(p, Error(IF ok THEN "ok" ELSE ans.decision, None))
<1>1. /\ At(o, "memory") /\ memory' = ans.table /\ operation' = [operation EXCEPT ![o] = q]
      /\ UNCHANGED <<inPlay, clock, durable, proofs>>
  BY DEF MirrorAbandon, Goes
<1>2. /\ OperationSound(p, clock) /\ clock \in Nat /\ p.todo # <<>> /\ at \in 0..clock
      /\ memory \in OwnershipTables
  BY <1>1, CallFacts DEF ContinuityInv, OwnershipTables
<1>3. OperationSound(q, clock)
  BY <1>2, ReturnedSound
<1>4. ans.table \in OwnershipTables /\ Keeps(memory, ans.table, clock)
  <2> HIDE DEF v, lease, at
  <2> QED
    BY <1>2, AbandonedTable
<1> HIDE DEF q, ans
<1> QED
  BY <1>1, <1>3, <1>4, MirrorStep

\* A commit in the mirror confirms the row it leaves there.
LEMMA MirrorCommitKeeps ==
  ASSUME ContinuityInv, NEW o \in Operations, MirrorCommit(o)
  PROVE  ContinuityInv'
<1> DEFINE p == operation[o]
           a == Head(p.todo)
           v == a.v
           lease == a.lease
           at == p.call.at
           ans == CommittedIn(memory, v, lease, at)
           q == Returned(p, Error(CommitDecision(p.call.cause, ans.decision), None))
<1>1. /\ At(o, "memory") /\ memory' = ans.table /\ operation' = [operation EXCEPT ![o] = q]
      /\ UNCHANGED <<inPlay, clock, durable>>
      /\ IF ans.decision = "committed" THEN Confirm(v, lease, at, "memory") ELSE proofs' = proofs
  BY DEF MirrorCommit, Goes
<1>2. /\ OperationSound(p, clock) /\ clock \in Nat /\ p.todo # <<>> /\ at \in 0..clock /\ at \in Nat
      /\ memory \in OwnershipTables /\ durable \in OwnershipTables
  BY <1>1, CallFacts DEF ContinuityInv, OwnershipTables
<1>3. OperationSound(q, clock)
  BY <1>2, ReturnedSound
<1> HIDE DEF v, lease, at, q
<1>4. /\ ans.table \in OwnershipTables /\ Keeps(memory, ans.table, clock)
      /\ v \in Values /\ ans.decision = "committed" =>
                  /\ ans.table[v] \in OwnershipRows /\ ans.table[v].life = "committed"
                  /\ ans.table[v].client = lease.client /\ ans.table[v].scope = lease.scope
                  /\ ans.table[v].until >= at + CommittedTTL
  BY <1>2, CommittedTable
<1> HIDE DEF ans
<1>5. Keeps(memory, memory', clock) /\ Keeps(durable, durable', clock)
      /\ durable' \in OwnershipTables /\ memory' \in OwnershipTables
  BY <1>1, <1>2, <1>4, KeepsItself
<1>6. CASE ans.decision = "committed"
  <2>1. /\ proofs' = [w \in Values |-> proofs'[w]]
        /\ \A w \in Values : \A x \in proofs'[w] : ProofBacked(w, x)'
    BY <1>1, <1>2, <1>4, <1>5, <1>6, ConfirmBacked
  <2> QED
    BY <1>1, <1>3, <1>5, <2>1, OperationStep
<1>7. CASE ans.decision # "committed"
  BY <1>1, <1>3, <1>5, <1>7, MirrorStep
<1> QED
  BY <1>6, <1>7

\* Restoring a mirrored row in SQLite replaces no confirmed row.
LEMMA RestoreStepKeeps ==
  ASSUME ContinuityInv, NEW o \in Operations, NEW ok \in BOOLEAN, RestoreStep(o, ok)
  PROVE  ContinuityInv'
<1> DEFINE p == operation[o]
           a == Head(p.todo)
           row == p.call.row
           v == a.v
           c == p.client
           at == p.call.at
           ans == IF ok THEN ClaimedIn(durable, v, c, row.scope, row.by, at)
                  ELSE Unavailable
           q == CASE Persistence(ans.decision) ->
                             Returned(p, Outcome("ok", row, "memory", FALSE))
                        [] ans.decision \in {"claimed", "owned"} ->
                             OnTo(p, "remember", at, ans)
                        [] OTHER -> Returned(p, Error(ans.decision, ans.row))
<1>1. /\ At(o, "restore") /\ durable' = ans.table /\ operation' = [operation EXCEPT ![o] = q]
      /\ UNCHANGED <<inPlay, clock, memory, proofs>>
  BY DEF RestoreStep, Goes
<1>2. /\ OperationSound(p, clock) /\ clock \in Nat /\ p.todo # <<>> /\ at \in 0..clock
      /\ memory \in OwnershipTables /\ durable \in OwnershipTables /\ c \in Principals
      /\ p.call.step = "restore"
  BY <1>1, CallFacts DEF ContinuityInv, OwnershipTables
<1>3. v \in Values => row \in OwnershipRows /\ row.scope \in Scopes /\ row.by \in Operations
  BY <1>2 DEF OperationSound, CallSound, OwnershipRows
<1>4. /\ ans.table \in OwnershipTables /\ Keeps(durable, ans.table, clock)
      /\ v \in Values /\ ans.decision \in {"claimed", "owned"} =>
           ans.row \in OwnershipRows /\ ans.row.life # "tombstone" /\ ans.row.client = c
  <2>1. CASE ok
    <3> DEFINE s == row.scope
               b == row.by
               r == ClaimedIn(durable, v, c, s, b, at)
    <3>1. ans = r
      BY <2>1
    <3> HIDE DEF v, c, s, b, at, ans
    <3>2. v \in Values => c \in Principals /\ s \in Scopes /\ b \in Operations
      BY <1>2, <1>3 DEF s, b
    <3>4. ClaimTyped(v, c, s, b)
      BY <3>2 DEF ClaimTyped
    <3>3. /\ r.table \in OwnershipTables /\ Keeps(durable, r.table, clock)
          /\ v \in Values /\ r.decision \in {"claimed", "owned"} =>
               r.row \in OwnershipRows /\ r.row.life # "tombstone" /\ r.row.client = c
      BY <1>2, <3>4, ClaimedTable
    <3> QED
      BY <3>1, <3>3
  <2>2. CASE ~ok
    <3>1. ans.table = durable /\ ans.decision = "unavailable"
      BY <2>2 DEF Unavailable, Answer
    <3> QED
      BY <3>1, <1>2, KeepsItself
  <2> QED
    BY <2>1, <2>2
<1> HIDE DEF ans
<1>5. OperationSound(q, clock)
  <2>1. CASE ans.decision \in {"claimed", "owned"}
    <3>1. q = OnTo(p, "remember", at, ans)
      BY <2>1 DEF Persistence
    <3> HIDE DEF q
    <3> QED
      BY <3>1, <2>1, <1>2, <1>4, OnToSound
  <2>2. CASE ans.decision \notin {"claimed", "owned"}
    <3>1. \E out : q = Returned(p, out)
      <4>1. CASE Persistence(ans.decision)
        BY <4>1, <2>2
      <4>2. CASE ~Persistence(ans.decision)
        BY <4>2, <2>2
      <4> QED
        BY <4>1, <4>2
    <3> HIDE DEF q
    <3> QED
      BY <3>1, <1>2, ReturnedSound
  <2> QED
    BY <2>1, <2>2
<1> HIDE DEF q
<1>6. Keeps(memory, memory', clock) /\ Keeps(durable, durable', clock)
      /\ durable' \in OwnershipTables /\ memory' \in OwnershipTables
  BY <1>1, <1>2, <1>4, KeepsItself
<1>7. ASSUME NEW w \in Values, NEW x \in proofs[w] PROVE ProofBacked(w, x)'
  BY <1>1, <1>6, StillBacked
<1>8. /\ proofs' = [w \in Values |-> proofs'[w]]
      /\ \A w \in Values : \A x \in proofs'[w] : ProofBacked(w, x)'
  BY <1>1, <1>7 DEF ContinuityInv
<1> QED
  BY <1>1, <1>5, <1>6, <1>8, OperationStep

\* Remembering SQLite's answer in the mirror replaces no confirmed row.
LEMMA RememberStepKeeps ==
  ASSUME ContinuityInv, NEW o \in Operations, RememberStep(o)
  PROVE  ContinuityInv'
<1> DEFINE p == operation[o]
           a == Head(p.todo)
           row == p.call.row
           v == a.v
           c == p.client
           at == p.call.at
           ans == Remembered(memory, v, c, row, at)
           out == IF ans.decision \in {"owned", "capacity"}
                  THEN Outcome("ok", row, "durable", a.call = "claim" /\ p.call.cause = "claimed")
                  ELSE Error(ans.decision, None)
           q == Returned(p, out)
<1>1. /\ At(o, "remember") /\ memory' = ans.table /\ operation' = [operation EXCEPT ![o] = q]
      /\ UNCHANGED <<inPlay, clock, durable>>
      /\ IF ans.table[v] = row THEN Mirrored(v, row) ELSE proofs' = proofs
  BY DEF RememberStep, Goes
<1>2. /\ OperationSound(p, clock) /\ clock \in Nat /\ p.todo # <<>> /\ at \in 0..clock
      /\ memory \in OwnershipTables /\ durable \in OwnershipTables
      /\ p.call.step = "remember"
  BY <1>1, CallFacts DEF ContinuityInv, OwnershipTables
<1>3. v \in Values => row \in OwnershipRows /\ row.life # "tombstone" /\ row.client = c
  BY <1>2 DEF OperationSound, CallSound
<1>4. OperationSound(q, clock)
  BY <1>2, ReturnedSound
<1> HIDE DEF v, c, row, at, q
<1>5. /\ ans.table \in OwnershipTables
      /\ \A w \in Values : memory[w] # None /\ memory[w].life = "committed" /\ memory[w].until > clock =>
           /\ ans.table[w] # None /\ ans.table[w].life = "committed"
           /\ ans.table[w].client = memory[w].client /\ ans.table[w].scope = memory[w].scope
           /\ ans.table[w].until >= memory[w].until \/ (w = v /\ ans.table[v] = row)
  <2>1. CopyFit(v, row, c)
    BY <1>3 DEF CopyFit
  <2> QED
    BY <1>2, <2>1, RememberedTable
<1> HIDE DEF ans
<1>6. /\ proofs' = [w \in Values |-> proofs'[w]]
      /\ \A w \in Values : proofs'[w] \subseteq proofs[w]
      /\ v \in Values /\ ans.table[v] = row =>
           \A x \in proofs'[v] : \/ x.where # "memory" \/ x.until <= row.until
                                 \/ x.client # row.client \/ x.scope # row.scope
  BY <1>1 DEF Mirrored, ContinuityInv
<1>7. ASSUME NEW w \in Values, NEW x \in proofs'[w] PROVE ProofBacked(w, x)'
  <2>1. ProofBacked(w, x)
    BY <1>6, <1>7 DEF ContinuityInv
  <2>2. CASE x.where # "memory"
    BY <1>1, <2>1, <2>2 DEF ProofBacked
  <2>3. CASE x.where = "memory"
    <3>1. /\ memory[w] # None /\ memory[w].life = "committed" /\ memory[w].until > clock
          /\ memory[w].until \in Nat /\ memory[w].until >= x.until /\ x.until \in Nat
          /\ memory[w].client = x.client /\ memory[w].scope = x.scope /\ x.until > clock
      BY <2>1, <2>3, <1>2 DEF ProofBacked, Backed, OwnershipTables, OwnershipRows
    <3>2. /\ memory'[w] # None /\ memory'[w].life = "committed"
          /\ memory'[w].client = x.client /\ memory'[w].scope = x.scope
          /\ memory'[w].until \in Nat
          /\ memory'[w].until >= memory[w].until \/ (w = v /\ memory'[w] = row)
      BY <1>1, <1>5, <3>1 DEF OwnershipTables, OwnershipRows
    <3>3. memory'[w].until >= x.until
      <4>1. CASE memory'[w].until >= memory[w].until
        BY <4>1, <3>1, <3>2
      <4>2. CASE w = v /\ memory'[w] = row
        BY <4>2, <3>2, <1>1, <1>6, <1>7, <2>3
      <4> QED
        BY <4>1, <4>2, <3>2
    <3> QED
      BY <1>1, <2>3, <3>1, <3>2, <3>3 DEF ProofBacked, Backed
  <2> QED
    BY <2>2, <2>3
<1>8. durable' \in OwnershipTables /\ memory' \in OwnershipTables
  BY <1>1, <1>2, <1>5
<1>9. \A w \in Values : \A x \in proofs'[w] : ProofBacked(w, x)'
  BY <1>7
<1> QED
  BY <1>1, <1>4, <1>6, <1>8, <1>9, OperationStep

\* A finite set has a sequence of its elements.
LEMMA SetToSeqIsSeq ==
  ASSUME NEW S, IsFiniteSet(S)
  PROVE  SetToSeq(S) \in Seq(S)
<1>1. Cardinality(S) \in Nat /\ ExistsBijection(1..Cardinality(S), S)
  BY FS_CardinalityType
<1>2. \E f \in [1..Cardinality(S) -> S] : IsInjective(f)
  BY <1>1 DEF ExistsBijection, Bijection, Injection, Surjection, IsInjective
<1>3. SetToSeq(S) \in [1..Cardinality(S) -> S]
  BY <1>2 DEF SetToSeq
<1> QED
  BY <1>1, <1>3

\* An operation starts with lookups of the values it was sent.
LEMMA InOrderTyped ==
  ASSUME NEW sent \in SUBSET Values
  PROVE  [i \in 1..Len(InOrder(sent)) |-> AskLookup(InOrder(sent)[i], None)]
            \in Seq({AskLookup(v, None) : v \in Values})
<1> DEFINE A == sent \cap Identities
           B == sent \cap Issued
           s == InOrder(sent)
           T == {AskLookup(v, None) : v \in Values}
<1>1. IsFiniteSet(A) /\ IsFiniteSet(B)
  BY ContinuityAssumption, FS_Subset
<1>2. SetToSeq(A) \in Seq(A) /\ SetToSeq(B) \in Seq(B)
  BY <1>1, SetToSeqIsSeq
<1>3. A \subseteq Values /\ B \subseteq Values
  BY DEF Values
<1>4. SetToSeq(A) \in Seq(Values) /\ SetToSeq(B) \in Seq(Values)
  <2> HIDE DEF A, B
  <2> QED
    BY <1>2, <1>3
<1>5. s \in Seq(Values)
  BY <1>4 DEF InOrder
<1> HIDE DEF s
<1>6. Len(s) \in Nat /\ \A i \in 1..Len(s) : AskLookup(s[i], None) \in T
  BY <1>5
<1> HIDE DEF T
<1>7. [i \in 1..Len(s) |-> AskLookup(s[i], None)] \in Seq(T)
  BY <1>6
<1> QED
  BY <1>7 DEF s, T

\* A turn of an operation outside a service call.
LEMMA TurnKeeps ==
  ASSUME ContinuityInv, NEW o \in Operations, NEW q, OperationSound(q, clock), Turns(o, q)
  PROVE  ContinuityInv'
<1> DEFINE r == ProceedOperation(q)
<1>1. /\ operation' = [operation EXCEPT ![o] = r]
      /\ UNCHANGED <<inPlay, clock, durable, memory, failures, proofs>>
  BY DEF Turns, Goes
<1>2. OperationSound(r, clock)
  BY ProceedSound DEF ContinuityInv
<1>3. memory' \in OwnershipTables /\ Keeps(memory, memory', clock)
  BY <1>1, KeepsItself DEF ContinuityInv, OwnershipTables
<1> HIDE DEF r
<1> QED
  BY <1>1, <1>2, <1>3, MirrorStep

\* A request begins without having disclosed anything.
LEMMA BeginOperationKeeps ==
  ASSUME ContinuityInv, NEW o \in Operations, NEW client \in Principals, NEW switch \in BOOLEAN,
         NEW sent \in SUBSET inPlay, BeginOperation(o, client, switch, sent)
  PROVE  ContinuityInv'
<1> DEFINE p == operation[o]
           t == [i \in 1..Len(InOrder(sent)) |-> AskLookup(InOrder(sent)[i], None)]
           q == [p EXCEPT !.phase = "resolving", !.client = client, !.switch = switch,
                          !.evidence = sent, !.todo = t]
<1>1. p.phase = "new" /\ Turns(o, q)
  BY DEF BeginOperation
<1>2. OperationSound(p, clock) /\ clock \in Nat
  BY DEF ContinuityInv
<1>3. p.call = NoCall /\ p.disclosed = {} /\ ~p.spent
  BY <1>1, <1>2 DEF OperationSound, AsksSound, CallSound, ScopeKept
<1>4. t \in Seq({AskLookup(v, None) : v \in Values})
  BY InOrderTyped DEF ContinuityInv
<1> HIDE DEF t
<1>5. /\ Shaped(q) /\ q.phase = "resolving" /\ q.client = client /\ q.todo = t /\ q.call = p.call
      /\ q.disclosed = p.disclosed /\ q.spent = p.spent
  BY <1>2, Fields DEF OperationSound, Shaped
<1> HIDE DEF q
<1>6. OperationSound(q, clock)
  BY <1>2, <1>3, <1>4, <1>5 DEF OperationSound, AsksSound, CallSound, ScopeKept, Working, NoCall
<1> QED
  BY <1>1, <1>6, TurnKeeps

\* An attempt is prepared on the scope the request must keep.
LEMMA PrepareAttemptKeeps ==
  ASSUME ContinuityInv, NEW o \in Operations, NEW s \in Scopes, PrepareAttempt(o, s)
  PROVE  ContinuityInv'
<1> DEFINE p == operation[o]
           fresh == p.switch \/ ~p.spent
           order == InOrder(Carried(p))
           pin == fresh /\ Carried(p) # {}
           t == IF fresh
                THEN FlattenSeq([i \in 1..Len(order) |-> LeaseAsks(p, s, order[i])])
                ELSE <<>>
           q == [p EXCEPT !.phase = "preparing", !.scope = s, !.pin = pin, !.todo = t]
<1>1. p.phase = "admitted" /\ p.required \in {None, s} /\ Turns(o, q)
  BY DEF PrepareAttempt
<1>2. OperationSound(p, clock) /\ clock \in Nat
  BY DEF ContinuityInv
<1>3. p.call = NoCall /\ p.client \in Principals
  BY <1>1, <1>2 DEF OperationSound, AsksSound, CallSound
<1>4. pin <=> fresh /\ Carried(p) # {}
  OBVIOUS
<1> HIDE DEF t, pin
<1>5. /\ Shaped(q) /\ q.phase = "preparing" /\ q.client = p.client /\ q.call = p.call
      /\ q.disclosed = p.disclosed /\ q.spent = p.spent /\ q.scope = s /\ q.pin = pin
      /\ q.switch = p.switch /\ q.action = p.action /\ q.required = p.required
  BY <1>2, Fields DEF OperationSound, Shaped
<1> HIDE DEF q
<1>6. MustStay(q) = MustStay(p) /\ Carried(q) = Carried(p)
  BY <1>5 DEF MustStay, Carried
<1>7. ScopeKept(q)
  BY <1>1, <1>2, <1>4, <1>5, <1>6 DEF OperationSound, ScopeKept, Working, MustStay
<1>8. OperationSound(q, clock)
  BY <1>2, <1>3, <1>5, <1>7 DEF OperationSound, AsksSound, CallSound, Working, NoCall
<1> QED
  BY <1>1, <1>8, TurnKeeps

\* The first disclosure fixes the scope every later one has.
LEMMA MarkDisclosedKeeps ==
  ASSUME ContinuityInv, NEW o \in Operations, MarkDisclosed(o)
  PROVE  ContinuityInv'
<1> DEFINE p == operation[o]
           r == Pinned(p)
           d == IF p.switch \/ Carried(p) = {} THEN r.disclosed ELSE r.disclosed \cup {p.scope}
           t == AsksFor("commit", p.leases)
           q == [r EXCEPT !.phase = "disclosing", !.disclosed = d, !.todo = t]
<1>1. p.phase = "sending" /\ Turns(o, q)
  BY DEF MarkDisclosed
<1>2. OperationSound(p, clock) /\ clock \in Nat
  BY DEF ContinuityInv
<1>3. p.call = NoCall /\ p.client \in Principals /\ p.scope \in Scopes /\ p.scope # None
  BY <1>1, <1>2, NoOwnerAssumption DEF OperationSound, AsksSound, CallSound, Working
<1>4. /\ Shaped(r) /\ r.client = p.client /\ r.switch = p.switch /\ r.action = p.action
      /\ r.spent = p.spent /\ r.disclosed = p.disclosed /\ r.scope = p.scope
      /\ r.call = p.call /\ r.pin = p.pin
      /\ r.required = IF ~p.switch /\ p.pin THEN p.scope ELSE p.required
  BY <1>2, PinnedFields DEF OperationSound
<1>5. d = IF MustStay(p) THEN p.disclosed \cup {p.scope} ELSE p.disclosed
  BY <1>4 DEF MustStay
<1> HIDE DEF r, d, t
<1>6. /\ Shaped(q) /\ q.phase = "disclosing" /\ q.client = r.client /\ q.call = r.call
      /\ q.disclosed = d /\ q.spent = r.spent /\ q.scope = r.scope /\ q.pin = r.pin
      /\ q.switch = r.switch /\ q.action = r.action /\ q.required = r.required
  BY <1>4, Fields DEF Shaped
<1> HIDE DEF q
<1>7. MustStay(q) = MustStay(p)
  BY <1>4, <1>6 DEF MustStay, Carried
<1>8. MustStay(p) => q.required = p.scope
  BY <1>1, <1>2, <1>4, <1>6 DEF OperationSound, ScopeKept, Working, MustStay
<1>9. ScopeKept(q)
  BY <1>1, <1>2, <1>3, <1>4, <1>5, <1>6, <1>7, <1>8 DEF OperationSound, ScopeKept, Working
<1>10. OperationSound(q, clock)
  BY <1>2, <1>3, <1>4, <1>6, <1>9 DEF OperationSound, AsksSound, CallSound, Working, NoCall
<1> QED
  BY <1>1, <1>10, TurnKeeps

\* A turn that starts calls and leaves the route alone.
LEMMA CallsKeep ==
  ASSUME ContinuityInv, NEW o \in Operations, NEW q, SameRoute(operation[o], q), q.call = operation[o].call,
         operation[o].phase \in {"sending", "answered", "writing"},
         q.phase \in {"abandoning", "gating", "showing"}, Turns(o, q)
  PROVE  ContinuityInv'
<1> DEFINE p == operation[o]
<1>1. OperationSound(p, clock) /\ clock \in Nat
  BY DEF ContinuityInv
<1>2. p.call = NoCall /\ p.client \in Principals /\ p.scope \in Scopes
  BY <1>1 DEF OperationSound, AsksSound, CallSound, Working
<1>3. MustStay(q) = MustStay(p)
  BY DEF SameRoute, MustStay, Carried
<1>4. ScopeKept(q)
  BY <1>1, <1>3 DEF SameRoute, ScopeKept, Working, OperationSound
<1>5. OperationSound(q, clock)
  BY <1>1, <1>2, <1>4 DEF SameRoute, OperationSound, AsksSound, CallSound, Working, NoCall
<1> QED
  BY <1>5, TurnKeeps

\* An attempt abandoned before disclosure discloses nothing.
LEMMA AbandonBeforeDisclosureKeeps ==
  ASSUME ContinuityInv, NEW o \in Operations, AbandonBeforeDisclosure(o)
  PROVE  ContinuityInv'
<1> DEFINE p == operation[o]
           t == AsksFor("abandon", Created(p.leases))
           q == [p EXCEPT !.phase = "abandoning", !.todo = t]
<1>1. p.phase = "sending" /\ Turns(o, q)
  BY DEF AbandonBeforeDisclosure
<1>2. Shaped(p)
  BY DEF ContinuityInv, OperationSound
<1> HIDE DEF t
<1>3. SameRoute(p, q) /\ q.call = p.call /\ q.phase = "abandoning"
  BY <1>2, Fields DEF SameRoute, Shaped
<1> HIDE DEF q
<1> QED
  BY <1>1, <1>3, CallsKeep

\* A response's values are claimed for the scope of the attempt.
LEMMA GateResponseKeeps ==
  ASSUME ContinuityInv, NEW o \in Operations, NEW v, GateResponse(o, v)
  PROVE  ContinuityInv'
<1> DEFINE p == operation[o]
           t == IF p.switch /\ p.status[v] = "opaque" THEN <<>>
                ELSE <<AskLookup(v, IF p.switch THEN None ELSE p.scope)>>
           q == [p EXCEPT !.phase = "gating", !.shown = v, !.todo = t]
<1>1. p.phase = "answered" /\ Turns(o, q)
  BY DEF GateResponse
<1>2. Shaped(p)
  BY DEF ContinuityInv, OperationSound
<1> HIDE DEF t
<1>3. SameRoute(p, q) /\ q.call = p.call /\ q.phase = "gating"
  BY <1>2, Fields DEF SameRoute, Shaped
<1> HIDE DEF q
<1> QED
  BY <1>1, <1>3, CallsKeep

\* Visible response bytes commit what the attempt claimed.
LEMMA WriteVisibleKeeps ==
  ASSUME ContinuityInv, NEW o \in Operations, WriteVisible(o)
  PROVE  ContinuityInv'
<1> DEFINE p == operation[o]
           t == AsksFor("commit", p.leases)
           q == [p EXCEPT !.phase = "showing", !.todo = t]
<1>1. p.phase = "writing" /\ Turns(o, q)
  BY DEF WriteVisible
<1>2. Shaped(p)
  BY DEF ContinuityInv, OperationSound
<1> HIDE DEF t
<1>3. SameRoute(p, q) /\ q.call = p.call /\ q.phase = "showing"
  BY <1>2, Fields DEF SameRoute, Shaped
<1> HIDE DEF q
<1> QED
  BY <1>1, <1>3, CallsKeep

\* Retrying, giving up and finishing change neither the tables nor what was disclosed.
LEMMA OperationEndsKeeps ==
  ASSUME ContinuityInv, NEW o \in Operations,
         WriteUncertain(o) \/ RetryUnseen(o) \/ FinishOperation(o)
  PROVE  ContinuityInv'
<1>1. OperationSound(operation[o], clock) /\ clock \in Nat
  BY DEF ContinuityInv
<1>2. CASE Turns(o, Ended)
  BY <1>1, <1>2, EndedSound, TurnKeeps
<1>3. CASE RetryUnseen(o)
  <2>1. operation[o].phase = "answered" /\ Turns(o, Idle(operation[o]))
    BY <1>3 DEF RetryUnseen
  <2>2. OperationSound(Idle(operation[o]), clock)
    BY <1>1, <2>1, IdleSound DEF OperationSound, AsksSound, CallSound
  <2> QED
    BY <2>1, <2>2, TurnKeeps
<1> QED
  BY <1>2, <1>3 DEF WriteUncertain, FinishOperation

\* Time passes: a call's time stays past, and only lasting confirmations are kept.
LEMMA ContinuityTickKeeps ==
  ASSUME ContinuityInv, ContinuityTick
  PROVE  ContinuityInv'
<1>1. /\ clock' = clock + 1 /\ UNCHANGED <<inPlay, durable, memory, operation>>
      /\ proofs' = [v \in Values |-> {q \in proofs[v] : q.until > clock + 1}] /\ clock \in Nat
  BY DEF ContinuityTick, ContinuityInv
<1>2. ASSUME NEW o \in Operations PROVE OperationSound(operation[o], clock')
  <2>1. OperationSound(operation[o], clock)
    BY DEF ContinuityInv
  <2>2. CallSound(operation[o], clock')
    BY <1>1, <2>1 DEF OperationSound, CallSound
  <2> QED
    BY <2>1, <2>2 DEF OperationSound
<1>3. ASSUME NEW v \in Values, NEW x \in proofs'[v] PROVE ProofBacked(v, x)'
  <2>1. x \in proofs[v] /\ x.until > clock'
    BY <1>1, <1>3
  <2>2. ProofBacked(v, x)
    BY <2>1 DEF ContinuityInv
  <2> QED
    BY <1>1, <2>1, <2>2 DEF ProofBacked
<1>4. proofs' = [v \in Values |-> proofs'[v]]
  BY <1>1
<1> QED
  BY <1>1, <1>2, <1>3, <1>4 DEF ContinuityInv

\* Cleanup reconciles every row of SQLite at the present time.
LEMMA CleanupBindingsKeeps ==
  ASSUME ContinuityInv, CleanupBindings
  PROVE  ContinuityInv'
<1>1. /\ durable' = [v \in Values |-> Reconciled(durable[v], clock)]
      /\ UNCHANGED <<inPlay, clock, memory, operation, proofs>> /\ clock \in Nat /\ clock \in 0..clock
      /\ durable \in OwnershipTables /\ memory \in OwnershipTables
  BY DEF CleanupBindings, ContinuityInv, OwnershipTables
<1>2. durable' \in OwnershipTables
  BY <1>1, ReconciledRow DEF OwnershipTables
<1>3. Keeps(durable, durable', clock)
  BY <1>1, <1>2, ReconciledKeeps
<1>4. Keeps(memory, memory', clock) /\ memory' \in OwnershipTables
  BY <1>1, KeepsItself
<1>5. ASSUME NEW v \in Values, NEW x \in proofs[v] PROVE ProofBacked(v, x)'
  BY <1>1, <1>2, <1>3, <1>4, StillBacked
<1> QED
  BY <1>1, <1>2, <1>5 DEF ContinuityInv, OwnershipTables

\* What only the mirror confirmed ends with it; the disk still backs the rest.
LEMMA RestartProcessKeeps ==
  ASSUME ContinuityInv, RestartProcess
  PROVE  ContinuityInv'
<1>1. /\ memory' = [v \in Values |-> None]
      /\ operation' = [o \in Operations |-> IF operation[o].phase = "new" THEN operation[o] ELSE Ended]
      /\ proofs' = [v \in Values |-> {q \in proofs[v] : q.where # "memory"}]
      /\ UNCHANGED <<inPlay, clock, durable>> /\ clock \in Nat
  BY DEF RestartProcess, ContinuityInv
<1>2. \A o \in Operations : OperationSound(operation'[o], clock')
  BY <1>1, EndedSound DEF ContinuityInv
<1>3. ASSUME NEW v \in Values, NEW x \in proofs'[v] PROVE ProofBacked(v, x)'
  <2>1. x \in proofs[v] /\ x.where # "memory"
    BY <1>1, <1>3
  <2>2. ProofBacked(v, x)
    BY <2>1 DEF ContinuityInv
  <2> QED
    BY <1>1, <2>1, <2>2 DEF ProofBacked
<1>4. operation' = [o \in Operations |-> operation'[o]] /\ proofs' = [v \in Values |-> proofs'[v]]
  BY <1>1
<1>5. memory' \in [Values -> OwnershipRows \cup {None}]
  BY <1>1
<1> QED
  BY <1>1, <1>2, <1>3, <1>4, <1>5 DEF ContinuityInv

\* An empty service satisfies the invariant.
LEMMA ContinuityStarts == ContinuityInit => ContinuityInv
<1> SUFFICES ASSUME ContinuityInit PROVE ContinuityInv
  OBVIOUS
<1>1. /\ Shaped(FreshBinding) /\ FreshBinding.phase = "new" /\ FreshBinding.todo = <<>>
      /\ FreshBinding.call = NoCall /\ FreshBinding.disclosed = {} /\ FreshBinding.spent = FALSE
  BY Fields DEF Shaped, FreshBinding
<1>2. OperationSound(FreshBinding, 0)
  <2> HIDE DEF FreshBinding
  <2> QED
    BY <1>1 DEF OperationSound, AsksSound, CallSound, ScopeKept, Working, NoCall
<1>3. operation = [o \in Operations |-> operation[o]]
      /\ \A o \in Operations : OperationSound(operation[o], clock)
  BY <1>2 DEF ContinuityInit
<1> QED
  BY <1>3 DEF ContinuityInit, ContinuityInv

\* Every step preserves the invariant, action by action.
LEMMA ContinuitySteps == ContinuityInv /\ [ContinuityNext]_continuityVars => ContinuityInv'
<1> SUFFICES ASSUME ContinuityInv, [ContinuityNext]_continuityVars PROVE ContinuityInv'
  OBVIOUS
<1>1. CASE UNCHANGED continuityVars
  BY <1>1 DEF ContinuityInv, continuityVars, ProofBacked
<1>2. ASSUME NEW o \in Operations, NEW c \in Principals, NEW switch \in BOOLEAN,
             NEW sent \in SUBSET inPlay, BeginOperation(o, c, switch, sent)
      PROVE  ContinuityInv'
  BY <1>2, BeginOperationKeeps
<1>3. ASSUME NEW o \in Operations, NEW s \in Scopes, PrepareAttempt(o, s) PROVE ContinuityInv'
  BY <1>3, PrepareAttemptKeeps
<1>4. ASSUME NEW o \in Operations, NEW v \in Issued \cap inPlay, GateResponse(o, v) PROVE ContinuityInv'
  BY <1>4, GateResponseKeeps
<1>5. ASSUME NEW o \in Operations, NEW ok \in BOOLEAN, DurableStep(o, ok) \/ RestoreStep(o, ok)
      PROVE  ContinuityInv'
  BY <1>5, DurableStepKeeps, RestoreStepKeeps
<1>6. ASSUME NEW o \in Operations,
             \/ MarkDisclosed(o) \/ AbandonBeforeDisclosure(o) \/ WriteVisible(o)
             \/ WriteUncertain(o) \/ RetryUnseen(o) \/ FinishOperation(o)
      PROVE  ContinuityInv'
  BY <1>6, MarkDisclosedKeeps, AbandonBeforeDisclosureKeeps, WriteVisibleKeeps, OperationEndsKeeps
<1>7. ASSUME NEW o \in Operations,
             \/ RememberStep(o) \/ MirrorLookup(o) \/ MirrorClaim(o) \/ MirrorCommit(o) \/ MirrorAbandon(o)
      PROVE  ContinuityInv'
  BY <1>7, RememberStepKeeps, MirrorLookupKeeps, MirrorClaimKeeps, MirrorCommitKeeps, MirrorAbandonKeeps
<1>8. CASE ContinuityTick
  BY <1>8, ContinuityTickKeeps
<1>9. CASE CleanupBindings
  BY <1>9, CleanupBindingsKeeps
<1>10. CASE RestartProcess
  BY <1>10, RestartProcessKeeps
<1> QED
  BY <1>1, <1>2, <1>3, <1>4, <1>5, <1>6, <1>7, <1>8, <1>9, <1>10 DEF ContinuityNext

\* Two confirmations of one table are backed by the same row.
LEMMA OwnersAreHeld == ContinuityInv => OwnershipHeld
<1> SUFFICES ASSUME ContinuityInv PROVE NoTakeover /\ ScopePinned
  BY DEF OwnershipHeld
<1>1. ASSUME NEW v \in Values, NEW x \in proofs[v], NEW y \in proofs[v], x.where = y.where
      PROVE  x.client = y.client /\ x.scope = y.scope
  <2>1. ProofBacked(v, x) /\ ProofBacked(v, y)
    BY DEF ContinuityInv
  <2> QED
    BY <1>1, <2>1 DEF ProofBacked, Backed
<1>2. ASSUME NEW o \in Operations PROVE Cardinality(operation[o].disclosed) <= 1
  <2>1. ScopeKept(operation[o])
    BY DEF ContinuityInv, OperationSound
  <2>2. operation[o].disclosed = {} \/ operation[o].disclosed = {operation[o].required}
    BY <2>1 DEF ScopeKept
  <2>3. CASE operation[o].disclosed = {}
    BY <2>3, FS_EmptySet
  <2>4. CASE operation[o].disclosed = {operation[o].required}
    <3>1. Cardinality({operation[o].required}) = 1
      BY FS_Singleton, Zenon
    <3> QED BY <2>4, <3>1
  <2> QED BY <2>2, <2>3, <2>4
<1> QED
  BY <1>1, <1>2 DEF NoTakeover, ScopePinned

\* The invariant of the ownership service and of the operations that use it.
THEOREM ContinuityInvariant == ContinuitySpec => []ContinuityInv
<1>1. ContinuityInit => ContinuityInv
  BY ContinuityStarts
<1>2. ContinuityInv /\ [ContinuityNext]_continuityVars => ContinuityInv'
  BY ContinuitySteps
<1> QED
  BY <1>1, <1>2, PTL DEF ContinuitySpec

\* No table confirms a conversation's value to two owners at once, whatever fails,
\* expires, restarts or interleaves, and a request that must keep its account discloses
\* its values to one account only.
THEOREM OwnershipIsHeld == ContinuitySpec => []OwnershipHeld
<1>1. ContinuityInv => OwnershipHeld
  BY OwnersAreHeld
<1> QED
  BY <1>1, ContinuityInvariant, PTL

=============================================================================

-------------------------- MODULE LoginStagingProofs --------------------------
(* Machine-checked proof that what is staged in memory is accounted for and   *)
(* applied once, for any logins, finitely many imports, any committers and    *)
(* any limits.                                                                *)
EXTENDS LoginStaging, FiniteSetTheorems, TLAPS

ServiceType == [shutdown : BOOLEAN, callback : BOOLEAN, timer : {"none", "armed", "fired"},
                slots : Nat, bytes : Nat]
LoginType == [Logins -> [state : {"none", "pending", "exchanging", "completed", "adrift"}, due : BOOLEAN]]
DraftType == [Imports -> [step : {"none", "parsing", "published"}, sealed : BOOLEAN,
                          claimed : BOOLEAN, due : BOOLEAN]]

ParsingIn(d) == {i \in Imports : d[i].step = "parsing"}
PublishedIn(d) == {i \in Imports : d[i].step = "published"}

\* DraftsAccounted of given fields and drafts.
Counted(v, d) ==
    /\ v.slots = Cardinality(ParsingIn(d)) + Cardinality(PublishedIn(d)) /\ v.slots <= MaxDrafts
    /\ v.bytes = Cardinality(ParsingIn(d)) + 2 * Cardinality(PublishedIn(d)) /\ v.bytes <= MaxBytes

\* The drafts that are counted are finitely many.
LEMMA DraftSetsFinite ==
    ASSUME NEW d
    PROVE  /\ IsFiniteSet(ParsingIn(d)) /\ Cardinality(ParsingIn(d)) \in Nat
           /\ IsFiniteSet(PublishedIn(d)) /\ Cardinality(PublishedIn(d)) \in Nat
<1>1. ParsingIn(d) \subseteq Imports /\ PublishedIn(d) \subseteq Imports
  BY DEF ParsingIn, PublishedIn
<1>2. IsFiniteSet(ParsingIn(d)) /\ IsFiniteSet(PublishedIn(d))
  BY <1>1, StagingBounds, FS_Subset
<1>. QED
  BY <1>2, FS_CardinalityType

\* DraftsAccounted says that the drafts are counted in the fields.
LEMMA AccountedIsCounted == DraftsAccounted <=> Counted(service, draft)
<1>1. /\ Cardinality({i \in Imports : draft[i].step = "parsing"}) \in Nat
      /\ Cardinality({i \in Imports : draft[i].step = "published"}) \in Nat
  BY DraftSetsFinite DEF ParsingIn, PublishedIn
<1>. QED
  BY <1>1 DEF DraftsAccounted, Counted, ParsingIn, PublishedIn, Published, RawBytes, RetainedBytes

\* The same after a step.
LEMMA AccountedIsCountedNext == DraftsAccounted' <=> Counted(service', draft')
<1>1. /\ Cardinality({i \in Imports : draft'[i].step = "parsing"}) \in Nat
      /\ Cardinality({i \in Imports : draft'[i].step = "published"}) \in Nat
  BY DraftSetsFinite DEF ParsingIn, PublishedIn
<1>. QED
  BY <1>1 DEF DraftsAccounted, Counted, ParsingIn, PublishedIn, Published, RawBytes, RetainedBytes

\* Drafts whose steps are the same are counted the same.
LEMMA SameSteps ==
    ASSUME NEW d, NEW e, NEW v, NEW w, Counted(v, d), v.slots = w.slots, v.bytes = w.bytes,
           \A i \in Imports : d[i].step = e[i].step
    PROVE  Counted(w, e)
<1>1. ParsingIn(d) = ParsingIn(e) /\ PublishedIn(d) = PublishedIn(e)
  BY DEF ParsingIn, PublishedIn
<1>. QED
  BY <1>1 DEF Counted

\* The absent login and the absent draft are a login and a draft.
LEMMA NoneTyped ==
    /\ NoLogin \in [state : {"none", "pending", "exchanging", "completed", "adrift"}, due : BOOLEAN]
    /\ NoDraft \in [step : {"none", "parsing", "published"}, sealed : BOOLEAN, claimed : BOOLEAN, due : BOOLEAN]
    /\ NoLogin.state = "none" /\ NoDraft.step = "none"
BY DEF NoLogin, NoDraft

\* The account after published drafts are deleted.
LEMMA DeletedCounted ==
    ASSUME service \in ServiceType, draft \in DraftType, Counted(service, draft),
           NEW gone \in SUBSET PublishedIn(draft)
    PROVE  /\ DraftsDeleted(service, gone) \in ServiceType
           /\ DraftsDeleted(service, gone).shutdown = service.shutdown
           /\ DraftsDeleted(service, gone).callback = service.callback
           /\ WithoutDrafts(gone) \in DraftType
           /\ \A i \in Imports : WithoutDrafts(gone)[i] = IF i \in gone THEN NoDraft ELSE draft[i]
           /\ Counted(DraftsDeleted(service, gone), WithoutDrafts(gone))
<1>. DEFINE v == DraftsDeleted(service, gone)
            d == WithoutDrafts(gone)
            n == Cardinality(gone)
<1>1. gone \subseteq Imports
  BY DEF PublishedIn
<1>2. \A i \in Imports : d[i] = IF i \in gone THEN NoDraft ELSE draft[i]
  BY DEF WithoutDrafts
<1>3. d \in DraftType
  BY NoneTyped DEF WithoutDrafts, DraftType
<1>4. ParsingIn(d) = ParsingIn(draft)
  BY <1>2, NoneTyped DEF ParsingIn, PublishedIn
<1>5. PublishedIn(d) = PublishedIn(draft) \ gone
  BY <1>2, NoneTyped DEF PublishedIn
<1>6. /\ IsFiniteSet(gone) /\ n \in Nat /\ n <= Cardinality(PublishedIn(draft))
      /\ Cardinality(PublishedIn(d)) = Cardinality(PublishedIn(draft)) - n
  <2>1. IsFiniteSet(PublishedIn(draft))
    BY DraftSetsFinite
  <2>2. IsFiniteSet(gone) /\ n <= Cardinality(PublishedIn(draft))
    BY <2>1, FS_Subset
  <2>3. PublishedIn(draft) \cap gone = gone
    OBVIOUS
  <2>4. Cardinality(PublishedIn(draft) \ gone) = Cardinality(PublishedIn(draft)) - Cardinality(PublishedIn(draft) \cap gone)
    BY <2>1, FS_Difference
  <2>. QED
    BY <1>5, <2>2, <2>3, <2>4, FS_CardinalityType
<1>7. /\ v = [service EXCEPT !.slots = IF service.slots > n THEN service.slots - n ELSE 0,
                             !.bytes = IF service.bytes > n * 2 THEN service.bytes - n * 2 ELSE 0]
  BY DEF DraftsDeleted, RetainedBytes
<1>8. service.slots \in Nat /\ service.bytes \in Nat
  BY DEF ServiceType
<1>9. /\ v \in ServiceType /\ v.shutdown = service.shutdown /\ v.callback = service.callback
      /\ v.slots = IF service.slots > n THEN service.slots - n ELSE 0
      /\ v.bytes = IF service.bytes > n * 2 THEN service.bytes - n * 2 ELSE 0
  <2>1. /\ (IF service.slots > n THEN service.slots - n ELSE 0) \in Nat
        /\ (IF service.bytes > n * 2 THEN service.bytes - n * 2 ELSE 0) \in Nat
    BY <1>6, <1>8
  <2>. QED
    BY <1>7, <2>1 DEF ServiceType
<1>10. Counted(v, d)
  <2>1. /\ Cardinality(ParsingIn(draft)) \in Nat /\ Cardinality(PublishedIn(draft)) \in Nat
    BY DraftSetsFinite
  <2>2. v.slots = service.slots - n /\ v.bytes = service.bytes - 2 * n
    BY <1>6, <1>8, <1>9, <2>1 DEF Counted
  <2>. QED
    BY <1>4, <1>6, <1>8, <2>1, <2>2, StagingBounds DEF Counted
<1>. QED
  BY <1>2, <1>3, <1>9, <1>10

\* The expiry task changes nothing but its timer.
LEMMA SyncedSame ==
    ASSUME NEW v \in ServiceType, NEW s, NEW d
    PROVE  /\ Synced(v, s, d) \in ServiceType
           /\ Synced(v, s, d).slots = v.slots /\ Synced(v, s, d).bytes = v.bytes
           /\ Synced(v, s, d).shutdown = v.shutdown /\ Synced(v, s, d).callback = v.callback
BY DEF Synced, ServiceType

\* Only published drafts expire.
LEMMA ExpiredPublished == ExpiredDrafts \in SUBSET PublishedIn(draft)
BY DEF ExpiredDrafts, PublishedIn, Published

-----------------------------------------------------------------------------
(* Logins.                                                                    *)

\* No new pending login, and nothing staged after a shutdown.
Tame(s) ==
    /\ s \in LoginType
    /\ AnyPending(s) => AnyPending(signIn)
    /\ service.shutdown => \A l \in Logins : s[l].state \in {"none", "adrift"}

\* What the invariant says of the fields, the logins and the drafts.
LEMMA InvTypes ==
    ASSUME StagingInv
    PROVE  /\ service \in ServiceType /\ signIn \in LoginType /\ draft \in DraftType
           /\ Counted(service, draft) /\ Tame(signIn)
BY AccountedIsCounted DEF StagingInv, StagingTypeOK, LoginsSound, Tame, ServiceType, LoginType, DraftType

\* Pruning adds no pending login, and stages nothing after a shutdown.
LEMMA PrunedTame ==
    ASSUME NEW s \in LoginType,
           service.shutdown => \A l \in Logins : s[l].state \in {"none", "adrift"}
    PROVE  /\ PrunedLogins(s) \in LoginType
           /\ \A l \in Logins : IsPending(PrunedLogins(s)[l]) => IsPending(s[l])
           /\ service.shutdown => \A l \in Logins : PrunedLogins(s)[l].state \in {"none", "adrift"}
<1>1. \A l \in Logins : PrunedLogins(s)[l] =
         IF ~s[l].due THEN s[l]
         ELSE IF s[l].state \in {"exchanging", "adrift"} THEN [s[l] EXCEPT !.state = "adrift"]
         ELSE NoLogin
  BY DEF PrunedLogins
<1>2. \A l \in Logins :
         /\ s[l] \in [state : {"none", "pending", "exchanging", "completed", "adrift"}, due : BOOLEAN]
         /\ [s[l] EXCEPT !.state = "adrift"] \in
               [state : {"none", "pending", "exchanging", "completed", "adrift"}, due : BOOLEAN]
         /\ [s[l] EXCEPT !.state = "adrift"].state = "adrift"
  BY DEF LoginType
<1>3. PrunedLogins(s) \in LoginType
  BY <1>2, NoneTyped DEF PrunedLogins, LoginType
<1>4. \A l \in Logins : \/ PrunedLogins(s)[l] = s[l]
                        \/ PrunedLogins(s)[l].state \in {"none", "adrift"}
  BY <1>1, <1>2, NoneTyped
<1>. QED
  BY <1>3, <1>4 DEF IsPending

\* So it is with the logins of a state of the invariant.
LEMMA PrunedIsTame == ASSUME StagingInv PROVE Tame(PrunedLogins(signIn))
BY InvTypes, PrunedTame DEF Tame, AnyPending

\* One login of tame logins is dropped, or goes on being exchanged.
LEMMA TameExcept ==
    ASSUME NEW s, Tame(s), NEW l \in Logins, NEW x,
           x = NoLogin \/ (x = [state |-> "exchanging", due |-> FALSE] /\ s[l].state = "pending")
    PROVE  Tame([s EXCEPT ![l] = x])
<1>1. x \in [state : {"none", "pending", "exchanging", "completed", "adrift"}, due : BOOLEAN]
  <2>1. [state |-> "exchanging", due |-> FALSE] \in
           [state : {"none", "pending", "exchanging", "completed", "adrift"}, due : BOOLEAN]
    OBVIOUS
  <2>. QED
    BY <2>1, NoneTyped
<1>2. \A k \in Logins : [s EXCEPT ![l] = x][k] = IF k = l THEN x ELSE s[k]
  BY DEF Tame, LoginType
<1>3. [s EXCEPT ![l] = x] \in LoginType
  BY <1>1 DEF Tame, LoginType
<1>4. \A k \in Logins : IsPending([s EXCEPT ![l] = x][k]) => IsPending(s[k])
  BY <1>2, NoneTyped DEF IsPending
<1>5. service.shutdown => \A k \in Logins : [s EXCEPT ![l] = x][k].state \in {"none", "adrift"}
  BY <1>2, NoneTyped DEF Tame
<1>. QED
  BY <1>3, <1>4, <1>5 DEF Tame, AnyPending

\* Steps that add no pending login and stop the endpoint only when there is none.
LoginQuiet ==
    /\ Tame(signIn')
    /\ service'.shutdown = service.shutdown /\ service'.callback = service.callback
    /\ lifecycle' \in [by : {"free", "login", "stop", "stopped"}, target : Logins \cup {"none"}]
    /\ lifecycle'.by = "login" => lifecycle'.target \in Logins /\ ~service.shutdown
    /\ lifecycle'.by \in {"stop", "stopped"} =>
          lifecycle.by \in {"stop", "stopped"} \/ ~AnyPending(signIn')

\* Such a step takes no endpoint away from a pending login.
LEMMA LoginQuietKeeps == ASSUME StagingInv, LoginQuiet PROVE LoginsSound'
<1>1. LoginsSound
  BY DEF StagingInv
<1>2. AnyPending(signIn') <=> AnyPending(signIn)'
  BY DEF AnyPending, IsPending
<1>3. LoginKeepsEndpoint'
  BY <1>1, <1>2 DEF LoginsSound, LoginQuiet, LoginKeepsEndpoint, Tame
<1>. QED
  BY <1>1, <1>3 DEF LoginsSound, LoginQuiet, Tame

-----------------------------------------------------------------------------
(* Drafts that go, and what the committers know of them.                      *)

DraftsGo(gone) ==
    /\ gone \in SUBSET PublishedIn(draft)
    /\ draft' = WithoutDrafts(gone)
    /\ service' \in ServiceType
    /\ service'.slots = DraftsDeleted(service, gone).slots
    /\ service'.bytes = DraftsDeleted(service, gone).bytes
    /\ service'.shutdown => service.shutdown \/ gone = PublishedIn(draft)

\* Whatever happens to the drafts, none is previewed, none that is published was
\* so before it, and none is due later than it was.
DraftsFade ==
    \A i \in Imports : \/ draft'[i].step = "none"
                       \/ draft'[i].step = draft[i].step /\ (draft[i].due => draft'[i].due)

\* Deleting published drafts keeps the account.
LEMMA DraftsGoKeeps ==
    ASSUME StagingInv, NEW gone, DraftsGo(gone)
    PROVE  /\ draft' \in DraftType /\ DraftsAccounted' /\ DraftsFade
           /\ service'.shutdown => \A i \in Imports : draft'[i].step # "published"
<1>1. /\ service \in ServiceType /\ draft \in DraftType /\ Counted(service, draft)
      /\ gone \in SUBSET PublishedIn(draft)
  BY InvTypes DEF DraftsGo
<1>2. /\ draft' \in DraftType
      /\ \A i \in Imports : draft'[i] = IF i \in gone THEN NoDraft ELSE draft[i]
      /\ Counted(DraftsDeleted(service, gone), draft')
  BY <1>1, DeletedCounted DEF DraftsGo
<1>3. DraftsAccounted'
  BY <1>2, SameSteps, AccountedIsCountedNext DEF DraftsGo
<1>4. DraftsFade
  BY <1>2, NoneTyped DEF DraftsFade
<1>5. service'.shutdown => \A i \in Imports : draft'[i].step # "published"
  BY <1>2, NoneTyped DEF DraftsGo, StagingInv, ReceiptsSound, Published, PublishedIn
<1>. QED
  BY <1>2, <1>3, <1>4, <1>5

\* The commits do not notice drafts that fade.
LEMMA ReceiptsFade ==
    ASSUME StagingInv, draft' \in DraftType, DraftsFade, UNCHANGED <<committer, registry, stored>>,
           service'.shutdown => \A i \in Imports : draft'[i].step # "published"
    PROVE  CommitsOwned' /\ ReceiptsSound'
<1>1. StagingTypeOK /\ CommitsOwned /\ ReceiptsSound
  BY DEF StagingInv
<1>2. CommitsOwned'
  BY <1>1 DEF CommitsOwned
<1>3. \A c \in Committers :
        /\ committer'[c].step = "claiming" => stored'[committer'[c].import].by = "none"
        /\ committer'[c].step \in {"claimed", "applying"} =>
             /\ stored'[committer'[c].import].applied = 0
             /\ draft'[committer'[c].import].step # "parsing"
  BY <1>1 DEF ReceiptsSound, DraftsFade, CommitsOwned
<1>4. \A i \in Imports :
        /\ draft'[i].step = "parsing" => stored'[i].by = "none" /\ stored'[i].applied = 0
        /\ draft'[i].step = "published" /\ ~draft'[i].due /\ stored'[i].by = "none" => stored'[i].applied = 0
        /\ service'.shutdown => draft'[i].step # "published"
  BY <1>1 DEF ReceiptsSound, DraftsFade, Published
<1>5. AppliedOnce'
  BY <1>1 DEF ReceiptsSound, AppliedOnce
<1>. QED
  BY <1>2, <1>3, <1>4, <1>5 DEF ReceiptsSound, Published

\* An access under s.mu that prunes, drops drafts and keeps the commits.
LEMMA AccessKeeps ==
    ASSUME StagingInv, NEW gone, DraftsGo(gone), LoginQuiet, UNCHANGED <<committer, registry, stored>>
    PROVE  StagingInv'
<1>1. /\ draft' \in DraftType /\ DraftsAccounted' /\ DraftsFade
      /\ service'.shutdown => \A i \in Imports : draft'[i].step # "published"
  BY DraftsGoKeeps
<1>2. CommitsOwned' /\ ReceiptsSound'
  BY <1>1, ReceiptsFade
<1>3. LoginsSound'
  BY LoginQuietKeeps
<1>4. StagingTypeOK'
  BY <1>1 DEF StagingInv, StagingTypeOK, DraftsGo, LoginQuiet, Tame, ServiceType, LoginType, DraftType
<1>. QED
  BY <1>1, <1>2, <1>3, <1>4 DEF StagingInv

\* Accessed with the fields the drafts were deleted from.
LEMMA AccessedDrafts ==
    ASSUME StagingInv, NEW gone \in SUBSET PublishedIn(draft), NEW s, NEW d,
           service' = Synced(DraftsDeleted(service, gone), s, d), draft' = WithoutDrafts(gone)
    PROVE  /\ DraftsGo(gone)
           /\ service'.shutdown = service.shutdown /\ service'.callback = service.callback
<1>1. /\ DraftsDeleted(service, gone) \in ServiceType
      /\ DraftsDeleted(service, gone).shutdown = service.shutdown
      /\ DraftsDeleted(service, gone).callback = service.callback
  BY InvTypes, DeletedCounted
<1>. QED
  BY <1>1, SyncedSame DEF DraftsGo

\* Nothing goes.
LEMMA NoDraftGoes ==
    ASSUME StagingInv
    PROVE  /\ {} \in SUBSET PublishedIn(draft) /\ WithoutDrafts({}) = draft
           /\ DraftsDeleted(service, {}).slots = service.slots
           /\ DraftsDeleted(service, {}).bytes = service.bytes
<1>1. service \in ServiceType /\ draft \in DraftType
  BY InvTypes
<1>2. Cardinality({}) = 0
  BY FS_EmptySet
<1>3. WithoutDrafts({}) = draft
  BY <1>1 DEF WithoutDrafts, DraftType
<1>. QED
  BY <1>1, <1>2, <1>3 DEF DraftsDeleted, ServiceType, RetainedBytes

\* A step that leaves drafts, slots and bytes alone deletes none.
LEMMA Untouched ==
    ASSUME StagingInv, UNCHANGED draft, service' \in ServiceType,
           service'.slots = service.slots, service'.bytes = service.bytes, service'.shutdown => service.shutdown
    PROVE  DraftsGo({})
BY NoDraftGoes DEF DraftsGo

-----------------------------------------------------------------------------
(* The logins and the endpoint.                                               *)

Lifecycles == [by : {"free", "login", "stop", "stopped"}, target : Logins \cup {"none"}]

\* What the invariant says of the lifecycle lock.
LEMMA LifecycleKept ==
    ASSUME StagingInv
    PROVE  /\ lifecycle \in Lifecycles /\ Free \in Lifecycles /\ Free.by = "free"
           /\ lifecycle.by = "login" => lifecycle.target \in Logins /\ ~service.shutdown
           /\ [by |-> "stop", target |-> "none"] \in Lifecycles
BY DEF StagingInv, StagingTypeOK, LoginsSound, Lifecycles, Free

\* A step that prunes expired drafts and leaves tame logins, without touching the
\* lifecycle or the commits.
LEMMA PruningKeeps ==
    ASSUME StagingInv, NEW gone \in SUBSET PublishedIn(draft), NEW s, NEW d,
           service' = Synced(DraftsDeleted(service, gone), s, d), draft' = WithoutDrafts(gone),
           Tame(signIn'), UNCHANGED <<lifecycle, committer, registry, stored>>
    PROVE  StagingInv'
<1>1. DraftsGo(gone) /\ service'.shutdown = service.shutdown /\ service'.callback = service.callback
  BY AccessedDrafts
<1>2. LoginQuiet
  BY <1>1, LifecycleKept DEF LoginQuiet, Lifecycles
<1>. QED
  BY <1>1, <1>2, AccessKeeps

\* beginChatGPTLogin takes the lifecycle lock before a shutdown only.
LEMMA BeginLoginKeeps ==
    ASSUME StagingInv, NEW l \in Logins, BeginLogin(l)
    PROVE  StagingInv'
<1>1. /\ DraftsDeleted(service, ExpiredDrafts) \in ServiceType
      /\ DraftsDeleted(service, ExpiredDrafts).shutdown = service.shutdown
      /\ DraftsDeleted(service, ExpiredDrafts).callback = service.callback
  BY InvTypes, DeletedCounted, ExpiredPublished
<1>2. DraftsGo(ExpiredDrafts)
  BY <1>1, ExpiredPublished DEF BeginLogin, DraftsGo
<1>3. lifecycle' = [by |-> "login", target |-> l] /\ ~service.shutdown
  BY DEF BeginLogin
<1>4. /\ lifecycle' \in Lifecycles
      /\ lifecycle'.by = "login" /\ lifecycle'.target = l
  BY <1>3 DEF Lifecycles
<1>5. LoginQuiet
  BY <1>1, <1>3, <1>4, PrunedIsTame DEF BeginLogin, LoginQuiet, Lifecycles
<1>6. UNCHANGED <<committer, registry, stored>>
  BY DEF BeginLogin
<1>. QED
  BY <1>2, <1>5, <1>6, AccessKeeps

\* A look at the logins prunes them.
LEMMA LoginStatusKeeps ==
    ASSUME StagingInv, LoginStatus
    PROVE  StagingInv'
<1>1. /\ service' = Synced(DraftsDeleted(service, ExpiredDrafts), PrunedLogins(signIn), WithoutDrafts(ExpiredDrafts))
      /\ draft' = WithoutDrafts(ExpiredDrafts) /\ signIn' = PrunedLogins(signIn)
      /\ UNCHANGED <<lifecycle, committer, registry, stored>>
  BY DEF LoginStatus, Accessed
<1>2. Tame(signIn')
  BY <1>1, PrunedIsTame
<1>. QED
  BY <1>1, <1>2, ExpiredPublished, PruningKeeps

\* The callback claims a login or cancels it.
LEMMA OAuthCallbackKeeps ==
    ASSUME StagingInv, NEW l \in Logins, NEW ok \in BOOLEAN, OAuthCallback(l, ok)
    PROVE  StagingInv'
<1>. DEFINE s == PrunedLogins(signIn)
            x == IF ok THEN [state |-> "exchanging", due |-> FALSE] ELSE NoLogin
            t == IF s[l].state # "pending" THEN s ELSE [s EXCEPT ![l] = x]
<1>1. /\ service' = Synced(DraftsDeleted(service, ExpiredDrafts), t, WithoutDrafts(ExpiredDrafts))
      /\ draft' = WithoutDrafts(ExpiredDrafts) /\ signIn' = t
      /\ UNCHANGED <<lifecycle, committer, registry, stored>>
  BY DEF OAuthCallback, Accessed
<1>2. Tame(t)
  <2>1. CASE s[l].state # "pending"
    BY <2>1, PrunedIsTame
  <2>2. CASE s[l].state = "pending"
    <3>1. Tame([s EXCEPT ![l] = x])
      BY <2>2, PrunedIsTame, TameExcept
    <3>. QED
      BY <2>2, <3>1
  <2>. QED
    BY <2>1, <2>2
<1>3. Tame(signIn')
  BY <1>1, <1>2
<1>. HIDE DEF t
<1>. QED
  BY <1>1, <1>3, ExpiredPublished, PruningKeeps

\* A completed login is staged before a shutdown only.
LEMMA StoreCompletedTame ==
    ASSUME StagingInv, NEW l \in Logins
    PROVE  Tame(StoreCompleted(signIn, l))
<1>. DEFINE s == [signIn EXCEPT ![l] = NoLogin]
            x == [state |-> "completed", due |-> FALSE]
            p == PrunedLogins(s)
<1>1. Tame(s)
  BY InvTypes, TameExcept
<1>2. CASE service.shutdown
  BY <1>1, <1>2 DEF StoreCompleted
<1>3. CASE ~service.shutdown
  <2>1. p \in LoginType /\ \A k \in Logins : IsPending(p[k]) => IsPending(s[k])
    BY <1>1, PrunedTame DEF Tame
  <2>2. x \in [state : {"none", "pending", "exchanging", "completed", "adrift"}, due : BOOLEAN] /\ x.state = "completed"
    OBVIOUS
  <2>3. StoreCompleted(signIn, l) = [p EXCEPT ![l] = x]
    BY <1>3 DEF StoreCompleted
  <2>. HIDE DEF p, x, s
  <2>4. [p EXCEPT ![l] = x] \in LoginType
    BY <2>1, <2>2 DEF LoginType
  <2>5. \A k \in Logins : [p EXCEPT ![l] = x][k] = IF k = l THEN x ELSE p[k]
    BY <2>1 DEF LoginType
  <2>6. \A k \in Logins : IsPending([p EXCEPT ![l] = x][k]) => IsPending(s[k])
    BY <2>1, <2>2, <2>5 DEF IsPending
  <2>. QED
    BY <1>1, <1>3, <2>3, <2>4, <2>6 DEF Tame, AnyPending
<1>. QED
  BY <1>2, <1>3

\* The exchange of a code stages a credential or drops its login.
LEMMA ExchangeEndsKeeps ==
    ASSUME StagingInv, NEW l \in Logins, NEW ok \in BOOLEAN, ExchangeEnds(l, ok)
    PROVE  StagingInv'
<1>. DEFINE gone == IF ok /\ ~service.shutdown THEN ExpiredDrafts ELSE {}
            s == IF ok THEN StoreCompleted(signIn, l) ELSE [signIn EXCEPT ![l] = NoLogin]
<1>1. /\ service' = Synced(DraftsDeleted(service, gone), s, WithoutDrafts(gone))
      /\ draft' = WithoutDrafts(gone) /\ signIn' = s
      /\ UNCHANGED <<lifecycle, committer, registry, stored>>
  BY DEF ExchangeEnds, Accessed
<1>2. Tame(s)
  <2>1. Tame(StoreCompleted(signIn, l))
    BY StoreCompletedTame
  <2>2. Tame([signIn EXCEPT ![l] = NoLogin])
    BY InvTypes, TameExcept
  <2>. QED
    BY <2>1, <2>2
<1>3. gone \in SUBSET PublishedIn(draft)
  BY ExpiredPublished, NoDraftGoes
<1>4. Tame(signIn')
  BY <1>1, <1>2
<1>. HIDE DEF gone, s
<1>. QED
  BY <1>1, <1>3, <1>4, PruningKeeps

\* A completed login is consumed.
LEMMA FinalizeLoginKeeps ==
    ASSUME StagingInv, NEW l \in Logins, FinalizeLogin(l)
    PROVE  StagingInv'
<1>. DEFINE s == PrunedLogins(signIn)
<1>1. /\ service' = Synced(DraftsDeleted(service, ExpiredDrafts), s, WithoutDrafts(ExpiredDrafts))
      /\ draft' = WithoutDrafts(ExpiredDrafts) /\ signIn' = [s EXCEPT ![l] = NoLogin]
      /\ UNCHANGED <<lifecycle, committer, registry, stored>>
  BY DEF FinalizeLogin
<1>2. Tame(signIn')
  BY <1>1, PrunedIsTame, TameExcept
<1>. HIDE DEF s
<1>. QED
  BY <1>1, <1>2, ExpiredPublished, PruningKeeps

\* The deadline of a login passes.
LEMMA LoginDueKeeps ==
    ASSUME StagingInv, NEW l \in Logins, LoginDue(l)
    PROVE  StagingInv'
<1>1. /\ signIn' = [signIn EXCEPT ![l].due = TRUE]
      /\ UNCHANGED <<service, lifecycle, draft, committer, registry, stored>>
  BY DEF LoginDue
<1>2. signIn \in LoginType /\ Tame(signIn) /\ service \in ServiceType
  BY InvTypes
<1>3. signIn' \in LoginType /\ \A k \in Logins : signIn'[k].state = signIn[k].state
  BY <1>1, <1>2 DEF LoginType
<1>4. Tame(signIn')
  BY <1>2, <1>3 DEF Tame, AnyPending, IsPending
<1>5. DraftsGo({})
  BY <1>1, <1>2, Untouched
<1>6. LoginQuiet
  BY <1>1, <1>4, LifecycleKept DEF LoginQuiet, Lifecycles
<1>. QED
  BY <1>1, <1>5, <1>6, AccessKeeps

\* Steps that leave everything but the lifecycle and the timer alone.
LEMMA IdleKeeps ==
    ASSUME StagingInv, UNCHANGED <<signIn, draft, committer, registry, stored>>,
           service' \in ServiceType, service'.slots = service.slots, service'.bytes = service.bytes,
           service'.shutdown = service.shutdown, service'.callback = service.callback,
           lifecycle' = lifecycle \/ (lifecycle.by = "stop" /\ lifecycle' = [lifecycle EXCEPT !.by = "stopped"])
    PROVE  StagingInv'
<1>1. DraftsGo({})
  BY Untouched
<1>2. Tame(signIn')
  BY InvTypes
<1>3. /\ lifecycle' \in Lifecycles
      /\ lifecycle'.by = "login" => lifecycle'.target \in Logins /\ ~service.shutdown
      /\ lifecycle'.by \in {"stop", "stopped"} => lifecycle.by \in {"stop", "stopped"}
  BY LifecycleKept DEF Lifecycles
<1>4. LoginQuiet
  BY <1>2, <1>3 DEF LoginQuiet, Lifecycles
<1>. QED
  BY <1>1, <1>4, AccessKeeps

\* The timer, the released port and a crashed server stage nothing.
LEMMA QuietEndpointKeeps ==
    ASSUME StagingInv, TimerFires \/ StopEndpoint \/ EndpointCrashes
    PROVE  StagingInv'
<1>0. service \in ServiceType
  BY InvTypes
<1>1. /\ service' \in ServiceType /\ service'.slots = service.slots /\ service'.bytes = service.bytes
      /\ service'.shutdown = service.shutdown /\ service'.callback = service.callback
  BY <1>0 DEF TimerFires, StopEndpoint, EndpointCrashes, ServiceType
<1>2. UNCHANGED <<signIn, draft, committer, registry, stored>>
  BY DEF TimerFires, StopEndpoint, EndpointCrashes
<1>3. lifecycle' = lifecycle \/ (lifecycle.by = "stop" /\ lifecycle' = [lifecycle EXCEPT !.by = "stopped"])
  BY DEF TimerFires, StopEndpoint, EndpointCrashes
<1>. QED
  BY <1>1, <1>2, <1>3, IdleKeeps

\* The sweep decides to stop the endpoint only when no login is pending.
LEMMA SweepKeeps ==
    ASSUME StagingInv, Sweep, UNCHANGED <<committer, registry, stored>>
    PROVE  StagingInv'
<1>1. /\ service' = Synced(DraftsDeleted(service, ExpiredDrafts), PrunedLogins(signIn), WithoutDrafts(ExpiredDrafts))
      /\ draft' = WithoutDrafts(ExpiredDrafts) /\ signIn' = PrunedLogins(signIn)
  BY DEF Sweep, Accessed
<1>2. DraftsGo(ExpiredDrafts) /\ service'.shutdown = service.shutdown /\ service'.callback = service.callback
  BY <1>1, ExpiredPublished, AccessedDrafts
<1>3. \/ lifecycle' = Free
      \/ lifecycle' = [by |-> "stop", target |-> "none"] /\ ~AnyPending(signIn')
  BY <1>1 DEF Sweep
<1>4. LoginQuiet
  <2>1. Tame(signIn')
    BY <1>1, PrunedIsTame
  <2>2. CASE lifecycle' = Free
    BY <1>2, <2>1, <2>2, LifecycleKept DEF LoginQuiet, Lifecycles
  <2>3. CASE lifecycle' = [by |-> "stop", target |-> "none"] /\ ~AnyPending(signIn')
    BY <1>2, <2>1, <2>3, LifecycleKept DEF LoginQuiet, Lifecycles
  <2>. QED
    BY <1>3, <2>2, <2>3
<1>. QED
  BY <1>2, <1>4, AccessKeeps

\* The expiry task and the reconcile goroutine sweep, or find a shutdown.
LEMMA SweepersKeep ==
    ASSUME StagingInv, ExpireSessions \/ ReconcileEndpoint
    PROVE  StagingInv'
<1>1. UNCHANGED <<committer, registry, stored>>
  BY DEF ExpireSessions, ReconcileEndpoint
<1>2. CASE Sweep
  BY <1>1, <1>2, SweepKeeps
<1>3. CASE UNCHANGED <<service, signIn, draft, lifecycle>>
  <2>1. service \in ServiceType
    BY InvTypes
  <2>2. /\ service' \in ServiceType /\ service'.slots = service.slots /\ service'.bytes = service.bytes
        /\ service'.shutdown = service.shutdown /\ service'.callback = service.callback
        /\ lifecycle' = lifecycle /\ UNCHANGED <<signIn, draft, committer, registry, stored>>
    BY <1>1, <1>3, <2>1
  <2>. QED
    BY <2>2, IdleKeeps
<1>. QED
  BY <1>2, <1>3 DEF ExpireSessions, ReconcileEndpoint

\* What every step that keeps the commits has to show.
LEMMA LoginStepKeeps ==
    ASSUME StagingInv, NEW gone, DraftsGo(gone), UNCHANGED <<committer, registry, stored>>,
           signIn' \in LoginType, lifecycle' \in Lifecycles, LoginsSound'
    PROVE  StagingInv'
<1>1. /\ draft' \in DraftType /\ DraftsAccounted' /\ DraftsFade
      /\ service'.shutdown => \A i \in Imports : draft'[i].step # "published"
  BY DraftsGoKeeps
<1>2. CommitsOwned' /\ ReceiptsSound'
  BY <1>1, ReceiptsFade
<1>3. StagingTypeOK'
  BY <1>1 DEF StagingInv, StagingTypeOK, DraftsGo, ServiceType, LoginType, DraftType, Lifecycles
<1>. QED
  BY <1>1, <1>2, <1>3 DEF StagingInv

\* The login is stored with the callback flag set, under the lifecycle lock.
LEMMA StartEndpointKeeps ==
    ASSUME StagingInv, StartEndpoint
    PROVE  StagingInv'
<1>. DEFINE l == lifecycle.target
            x == [NoLogin EXCEPT !.state = "pending"]
            v == [service EXCEPT !.callback = TRUE]
            s == [signIn EXCEPT ![l] = x]
<1>1. /\ lifecycle.by = "login" /\ lifecycle' = Free /\ l \in Logins /\ ~service.shutdown
      /\ UNCHANGED <<committer, registry, stored>>
  BY LifecycleKept DEF StartEndpoint
<1>2. service \in ServiceType /\ signIn \in LoginType
  BY InvTypes
<1>3. CASE Accessed(v, s, draft)
  <2>1. v \in ServiceType /\ v.slots = service.slots /\ v.bytes = service.bytes
        /\ v.shutdown = service.shutdown /\ v.callback = TRUE
    BY <1>2 DEF ServiceType
  <2>2. service' = Synced(v, s, draft) /\ signIn' = s /\ draft' = draft
    BY <1>3 DEF Accessed
  <2>3. /\ service' \in ServiceType /\ service'.slots = service.slots /\ service'.bytes = service.bytes
        /\ service'.shutdown = service.shutdown /\ service'.callback = TRUE
    <3>. HIDE DEF v, s
    <3>. QED
      BY <2>1, <2>2, SyncedSame
  <2>4. DraftsGo({})
    BY <2>2, <2>3, Untouched
  <2>5. x \in [state : {"none", "pending", "exchanging", "completed", "adrift"}, due : BOOLEAN]
    BY DEF NoLogin
  <2>6. signIn' \in LoginType
    BY <1>1, <1>2, <2>2, <2>5 DEF LoginType
  <2>7. LoginsSound'
    BY <1>1, <2>3, LifecycleKept DEF LoginsSound, LoginKeepsEndpoint
  <2>. QED
    BY <1>1, <2>4, <2>6, <2>7, LifecycleKept, LoginStepKeeps
<1>4. CASE UNCHANGED <<endpoint, service, signIn, draft>>
  <2>1. DraftsGo({})
    BY <1>2, <1>4, Untouched
  <2>2. Tame(signIn')
    BY <1>4, InvTypes
  <2>3. LoginQuiet
    BY <1>1, <1>4, <2>2, LifecycleKept DEF LoginQuiet, Lifecycles
  <2>. QED
    BY <1>1, <2>1, <2>3, AccessKeeps
<1>. QED
  BY <1>3, <1>4 DEF StartEndpoint

\* The flag is cleared while the stop still holds the lifecycle lock.
LEMMA ClearCallbackKeeps ==
    ASSUME StagingInv, ClearCallback
    PROVE  StagingInv'
<1>. DEFINE v == [service EXCEPT !.callback = FALSE]
<1>1. /\ lifecycle.by = "stopped" /\ lifecycle' = Free
      /\ service' = Synced(v, signIn, draft) /\ signIn' = signIn /\ draft' = draft
      /\ UNCHANGED <<committer, registry, stored>>
  BY DEF ClearCallback, Accessed
<1>2. service \in ServiceType /\ signIn \in LoginType /\ LoginsSound
  BY InvTypes DEF StagingInv
<1>3. v \in ServiceType /\ v.slots = service.slots /\ v.bytes = service.bytes
      /\ v.shutdown = service.shutdown
  BY <1>2 DEF ServiceType
<1>4. /\ service' \in ServiceType /\ service'.slots = service.slots /\ service'.bytes = service.bytes
      /\ service'.shutdown = service.shutdown
  <2>. HIDE DEF v
  <2>. QED
    BY <1>1, <1>3, SyncedSame
<1>5. DraftsGo({})
  BY <1>1, <1>4, Untouched
<1>6. ~AnyPending(signIn)
  BY <1>1, <1>2 DEF LoginsSound, LoginKeepsEndpoint
<1>7. ~AnyPending(signIn)'
  BY <1>1, <1>6 DEF AnyPending
<1>8. LoginsSound'
  BY <1>1, <1>2, <1>4, <1>7, LifecycleKept DEF LoginsSound, LoginKeepsEndpoint
<1>. QED
  BY <1>1, <1>2, <1>5, <1>8, LifecycleKept, LoginStepKeeps

\* Shutdown drops what is staged and marks the service in one section.
LEMMA ShutdownKeeps ==
    ASSUME StagingInv, Shutdown
    PROVE  StagingInv'
<1>. DEFINE gone == {i \in Imports : Published(draft[i])}
            v == DraftsDeleted(service, gone)
<1>1. /\ service' = [v EXCEPT !.shutdown = TRUE, !.timer = "none"]
      /\ signIn' = [l \in Logins |-> IF signIn[l].state \in {"exchanging", "adrift"}
                                     THEN [signIn[l] EXCEPT !.state = "adrift"] ELSE NoLogin]
      /\ draft' = WithoutDrafts(gone)
      /\ lifecycle' = [by |-> "stop", target |-> "none"] \/ lifecycle' = Free
      /\ UNCHANGED <<committer, registry, stored>>
  BY DEF Shutdown
<1>2. gone = PublishedIn(draft) /\ gone \in SUBSET PublishedIn(draft)
  BY DEF Published, PublishedIn
<1>3. service \in ServiceType /\ signIn \in LoginType
  BY InvTypes
<1>4. v \in ServiceType
  <2>. HIDE DEF gone
  <2>. QED
    BY <1>2, InvTypes, DeletedCounted
<1>. HIDE DEF v, gone
<1>5. service' \in ServiceType /\ service'.slots = v.slots /\ service'.bytes = v.bytes /\ service'.shutdown = TRUE
  BY <1>1, <1>4 DEF ServiceType
<1>6. DraftsGo(gone)
  BY <1>1, <1>2, <1>5 DEF DraftsGo, v
<1>7. \A l \in Logins :
         /\ [signIn[l] EXCEPT !.state = "adrift"] \in
               [state : {"none", "pending", "exchanging", "completed", "adrift"}, due : BOOLEAN]
         /\ [signIn[l] EXCEPT !.state = "adrift"].state = "adrift"
  BY <1>3 DEF LoginType
<1>8. signIn' \in LoginType /\ \A l \in Logins : signIn'[l].state \in {"none", "adrift"}
  BY <1>1, <1>7, NoneTyped DEF LoginType
<1>9. ~AnyPending(signIn)'
  BY <1>8 DEF AnyPending, IsPending
<1>10. lifecycle' \in Lifecycles /\ lifecycle'.by # "login"
  BY <1>1, LifecycleKept
<1>11. LoginsSound'
  BY <1>8, <1>9, <1>10 DEF LoginsSound, LoginKeepsEndpoint
<1>. QED
  BY <1>1, <1>6, <1>8, <1>10, <1>11, LoginStepKeeps

-----------------------------------------------------------------------------
(* Where nothing is staged, and the previews.                                 *)

\* The state of a process that starts.
LEMMA NothingStaged ==
    ASSUME NEW v, NEW d,
           v = [shutdown |-> FALSE, callback |-> FALSE, timer |-> "none", slots |-> 0, bytes |-> 0],
           d = [i \in Imports |-> NoDraft]
    PROVE  v \in ServiceType /\ d \in DraftType /\ Counted(v, d) /\ \A i \in Imports : d[i].step = "none"
<1>1. v \in ServiceType /\ v.slots = 0 /\ v.bytes = 0
  BY DEF ServiceType
<1>2. d \in DraftType /\ \A i \in Imports : d[i].step = "none"
  BY NoneTyped DEF DraftType
<1>3. ParsingIn(d) = {} /\ PublishedIn(d) = {}
  BY <1>2 DEF ParsingIn, PublishedIn
<1>4. Cardinality({}) = 0
  BY FS_EmptySet
<1>5. Counted(v, d)
  BY <1>1, <1>3, <1>4, StagingBounds DEF Counted
<1>. QED
  BY <1>1, <1>2, <1>5

\* The invariant holds where the process starts.
LEMMA InitHolds == StagingInit => StagingInv
<1>. SUFFICES ASSUME StagingInit PROVE StagingInv
  OBVIOUS
<1>1. /\ service \in ServiceType /\ draft \in DraftType /\ Counted(service, draft)
      /\ \A i \in Imports : draft[i].step = "none"
  BY NothingStaged DEF StagingInit
<1>2. DraftsAccounted
  BY <1>1, AccountedIsCounted
<1>3. /\ \A l \in Logins : signIn[l].state = "none"
      /\ \A c \in Committers : committer[c] = IdleCommitter
      /\ \A i \in Imports : stored[i] = NoReceipt
      /\ lifecycle.by = "free" /\ service.shutdown = FALSE
  BY NoneTyped DEF StagingInit, Free
<1>4. IdleCommitter.step = "idle" /\ NoReceipt.by = "none" /\ NoReceipt.applied = 0
  BY DEF IdleCommitter, NoReceipt
<1>5. StagingTypeOK
  BY <1>1, NoneTyped DEF StagingInit, StagingTypeOK, ServiceType, DraftType, Free, IdleCommitter, NoReceipt
<1>6. LoginsSound
  BY <1>3 DEF LoginsSound, LoginKeepsEndpoint, AnyPending, IsPending
<1>7. CommitsOwned
  BY <1>3, <1>4 DEF CommitsOwned, PastAcquire
<1>8. ReceiptsSound
  BY <1>1, <1>3, <1>4 DEF ReceiptsSound, AppliedOnce, Published
<1>. QED
  BY <1>2, <1>5, <1>6, <1>7, <1>8 DEF StagingInv

\* A new process stages nothing and finds the receipts of the old one.
LEMMA ProcessRestartsKeeps ==
    ASSUME StagingInv, ProcessRestarts
    PROVE  StagingInv'
<1>1. /\ service' \in ServiceType /\ draft' \in DraftType /\ Counted(service', draft')
      /\ \A i \in Imports : draft'[i].step = "none"
  BY NothingStaged DEF ProcessRestarts
<1>2. DraftsAccounted'
  BY <1>1, AccountedIsCountedNext
<1>3. /\ \A l \in Logins : signIn'[l].state = "none"
      /\ \A c \in Committers : committer'[c] = IdleCommitter
      /\ stored' = stored
      /\ lifecycle'.by = "free" /\ service'.shutdown = FALSE
  BY NoneTyped DEF ProcessRestarts, Free
<1>4. IdleCommitter.step = "idle"
  BY DEF IdleCommitter
<1>5. StagingTypeOK'
  BY <1>1, NoneTyped DEF ProcessRestarts, StagingInv, StagingTypeOK, ServiceType, DraftType, Free, IdleCommitter
<1>6. LoginsSound'
  BY <1>3 DEF LoginsSound, LoginKeepsEndpoint, AnyPending, IsPending
<1>7. CommitsOwned'
  BY <1>3, <1>4 DEF CommitsOwned, PastAcquire
<1>8. ReceiptsSound'
  BY <1>1, <1>3, <1>4 DEF StagingInv, ReceiptsSound, AppliedOnce, Published
<1>. QED
  BY <1>2, <1>5, <1>6, <1>7, <1>8 DEF StagingInv

\* A handler that adds no pending login and leaves the lifecycle alone.
Served ==
    /\ service' \in ServiceType /\ service'.shutdown = service.shutdown /\ service'.callback = service.callback
    /\ Tame(signIn') /\ UNCHANGED lifecycle

\* Such a handler keeps the logins sound.
LEMMA ServedKeeps ==
    ASSUME StagingInv, Served
    PROVE  signIn' \in LoginType /\ lifecycle' \in Lifecycles /\ LoginsSound'
<1>1. LoginQuiet
  BY LifecycleKept DEF Served, LoginQuiet, Lifecycles
<1>. QED
  BY <1>1, LifecycleKept, LoginQuietKeeps DEF Served, Tame

\* An access that deletes drafts is such a handler.
LEMMA ServedAccess ==
    ASSUME StagingInv, NEW gone \in SUBSET PublishedIn(draft), NEW s, NEW d, UNCHANGED <<signIn, lifecycle>>,
           service' = Synced(DraftsDeleted(service, gone), s, d), draft' = WithoutDrafts(gone)
    PROVE  Served /\ DraftsGo(gone)
BY InvTypes, AccessedDrafts DEF Served, DraftsGo

\* So is a step that touches nothing.
LEMMA ServedUntouched ==
    ASSUME StagingInv, UNCHANGED <<service, signIn, draft, lifecycle>>
    PROVE  Served /\ DraftsGo({})
BY InvTypes, Untouched DEF Served

\* The same drafts with other flags, none of which makes a draft younger.
DraftsFlagged ==
    /\ draft' \in DraftType
    /\ \A i \in Imports : draft'[i].step = draft[i].step /\ (draft[i].due => draft'[i].due)
    /\ service'.slots = service.slots /\ service'.bytes = service.bytes

\* Flags do not change the account.
LEMMA DraftsFlaggedKeeps ==
    ASSUME StagingInv, Served, DraftsFlagged
    PROVE  /\ draft' \in DraftType /\ DraftsAccounted' /\ DraftsFade
           /\ service'.shutdown => \A i \in Imports : draft'[i].step # "published"
<1>1. DraftsAccounted'
  BY InvTypes, SameSteps, AccountedIsCountedNext DEF DraftsFlagged
<1>2. service'.shutdown => \A i \in Imports : draft'[i].step # "published"
  BY DEF DraftsFlagged, Served, StagingInv, ReceiptsSound, Published
<1>. QED
  BY <1>1, <1>2 DEF DraftsFlagged, DraftsFade

\* A step that only sets flags keeps the invariant.
LEMMA FlaggingKeeps ==
    ASSUME StagingInv, Served, DraftsFlagged, UNCHANGED <<committer, registry, stored>>
    PROVE  StagingInv'
<1>1. /\ draft' \in DraftType /\ DraftsAccounted' /\ DraftsFade
      /\ service'.shutdown => \A i \in Imports : draft'[i].step # "published"
  BY DraftsFlaggedKeeps
<1>2. CommitsOwned' /\ ReceiptsSound'
  BY <1>1, ReceiptsFade
<1>3. signIn' \in LoginType /\ lifecycle' \in Lifecycles /\ LoginsSound'
  BY ServedKeeps
<1>4. StagingTypeOK'
  BY <1>1, <1>3 DEF StagingInv, StagingTypeOK, Served, ServiceType, LoginType, DraftType, Lifecycles
<1>. QED
  BY <1>1, <1>2, <1>3, <1>4 DEF StagingInv

\* One draft that was not applied is reserved or published, the others fade.
LEMMA OneDraftKeeps ==
    ASSUME StagingInv, Served, draft' \in DraftType, Counted(service', draft'),
           UNCHANGED <<committer, registry, stored>>, ~service.shutdown,
           NEW i \in Imports, stored[i].by = "none", stored[i].applied = 0,
           draft'[i].step = "parsing" => registry[i] = "nobody",
           \A j \in Imports \ {i} : \/ draft'[j].step = "none"
                                    \/ draft'[j].step = draft[j].step /\ (draft[j].due => draft'[j].due)
    PROVE  StagingInv'
<1>1. StagingTypeOK /\ CommitsOwned /\ ReceiptsSound
  BY DEF StagingInv
<1>2. CommitsOwned'
  BY <1>1 DEF CommitsOwned
<1>3. \A c \in Committers :
        /\ committer'[c].step = "claiming" => stored'[committer'[c].import].by = "none"
        /\ committer'[c].step \in {"claimed", "applying"} =>
             /\ stored'[committer'[c].import].applied = 0
             /\ draft'[committer'[c].import].step # "parsing"
  <2>. SUFFICES ASSUME NEW c \in Committers
                PROVE  /\ committer[c].step = "claiming" => stored[committer[c].import].by = "none"
                       /\ committer[c].step \in {"claimed", "applying"} =>
                            /\ stored[committer[c].import].applied = 0
                            /\ draft'[committer[c].import].step # "parsing"
    OBVIOUS
  <2>1. /\ committer[c].step = "claiming" => stored[committer[c].import].by = "none"
        /\ committer[c].step \in {"claimed", "applying"} => stored[committer[c].import].applied = 0
    BY <1>1 DEF ReceiptsSound
  <2>2. ASSUME committer[c].step \in {"claimed", "applying"}
        PROVE  draft'[committer[c].import].step # "parsing"
    <3>1. committer[c].import \in Imports /\ registry[committer[c].import] = c
      BY <1>1, <2>2 DEF CommitsOwned, PastAcquire
    <3>2. draft[committer[c].import].step # "parsing"
      BY <1>1, <2>2 DEF ReceiptsSound
    <3>. QED
      BY <3>1, <3>2, StagingBounds
  <2>. QED
    BY <2>1, <2>2
<1>4. \A j \in Imports :
        /\ draft'[j].step = "parsing" => stored'[j].by = "none" /\ stored'[j].applied = 0
        /\ draft'[j].step = "published" /\ ~draft'[j].due /\ stored'[j].by = "none" => stored'[j].applied = 0
        /\ service'.shutdown => draft'[j].step # "published"
  BY <1>1 DEF ReceiptsSound, Published, Served
<1>5. ReceiptsSound'
  BY <1>1, <1>3, <1>4 DEF ReceiptsSound, AppliedOnce, Published
<1>6. signIn' \in LoginType /\ lifecycle' \in Lifecycles /\ LoginsSound'
  BY ServedKeeps
<1>7. DraftsAccounted'
  BY AccountedIsCountedNext
<1>8. StagingTypeOK'
  BY <1>1, <1>6 DEF StagingTypeOK, Served, ServiceType, LoginType, DraftType, Lifecycles
<1>. QED
  BY <1>2, <1>5, <1>6, <1>7, <1>8 DEF StagingInv

\* A preview reserves a slot for an import that nobody commits.
LEMMA ReserveDraftKeeps ==
    ASSUME StagingInv, NEW i \in Imports, ReserveDraft(i)
    PROVE  StagingInv'
<1>. DEFINE v == DraftsDeleted(service, ExpiredDrafts)
            d == WithoutDrafts(ExpiredDrafts)
            w == [v EXCEPT !.slots = @ + 1, !.bytes = @ + RawBytes]
<1>1. /\ draft[i] = NoDraft /\ stored[i] = NoReceipt /\ registry[i] = "nobody" /\ ~service.shutdown
      /\ v.slots < MaxDrafts /\ 1 <= MaxBytes - v.bytes
      /\ draft' = [d EXCEPT ![i].step = "parsing"] /\ service' = Synced(w, signIn, draft') /\ signIn' = signIn
      /\ UNCHANGED <<lifecycle, committer, registry, stored>>
  BY DEF ReserveDraft, Accessed, HasDraftCapacity, RawBytes
<1>2. /\ v \in ServiceType /\ v.shutdown = service.shutdown /\ v.callback = service.callback
      /\ d \in DraftType /\ Counted(v, d)
      /\ \A j \in Imports : d[j] = IF j \in ExpiredDrafts THEN NoDraft ELSE draft[j]
  BY InvTypes, ExpiredPublished, DeletedCounted
<1>3. d[i] = NoDraft
  BY <1>1, <1>2
<1>4. /\ w \in ServiceType /\ w.slots = v.slots + 1 /\ w.bytes = v.bytes + 1
      /\ w.shutdown = v.shutdown /\ w.callback = v.callback
  <2>. HIDE DEF v
  <2>1. v.slots + 1 \in Nat /\ v.bytes + 1 \in Nat
    BY <1>2 DEF ServiceType
  <2>. QED
    BY <1>2, <2>1 DEF ServiceType, RawBytes
<1>. HIDE DEF v, d, w
<1>5. /\ service' \in ServiceType /\ service'.slots = v.slots + 1 /\ service'.bytes = v.bytes + 1
      /\ service'.shutdown = service.shutdown /\ service'.callback = service.callback
  BY <1>1, <1>2, <1>4, SyncedSame
<1>6. /\ draft' \in DraftType
      /\ \A j \in Imports : draft'[j].step = IF j = i THEN "parsing" ELSE d[j].step
      /\ \A j \in Imports \ {i} : draft'[j] = d[j]
  BY <1>1, <1>2 DEF DraftType
<1>7. Counted(service', draft')
  <2>1. ParsingIn(draft') = ParsingIn(d) \cup {i} /\ i \notin ParsingIn(d) /\ PublishedIn(draft') = PublishedIn(d)
    BY <1>3, <1>6, NoneTyped DEF ParsingIn, PublishedIn
  <2>2. IsFiniteSet(ParsingIn(d)) /\ Cardinality(ParsingIn(d)) \in Nat /\ Cardinality(PublishedIn(d)) \in Nat
    BY DraftSetsFinite
  <2>3. Cardinality(ParsingIn(draft')) = Cardinality(ParsingIn(d)) + 1
    BY <2>1, <2>2, FS_AddElement
  <2>4. v.slots \in Nat /\ v.bytes \in Nat
    BY <1>2 DEF ServiceType
  <2>. QED
    BY <1>1, <1>2, <1>5, <2>1, <2>2, <2>3, <2>4, StagingBounds DEF Counted
<1>8. Served
  BY <1>1, <1>5, InvTypes DEF Served
<1>9. stored[i].by = "none" /\ stored[i].applied = 0
  BY <1>1 DEF NoReceipt
<1>10. \A j \in Imports \ {i} : \/ draft'[j].step = "none"
                                \/ draft'[j].step = draft[j].step /\ (draft[j].due => draft'[j].due)
  BY <1>2, <1>6, NoneTyped
<1>. QED
  BY <1>1, <1>6, <1>7, <1>8, <1>9, <1>10, OneDraftKeeps

\* A parsed preview trades the bytes it reserved for those it retains.
LEMMA PublishDraftKeeps ==
    ASSUME StagingInv, NEW i \in Imports, PublishDraft(i)
    PROVE  StagingInv'
<1>. DEFINE v == DraftsDeleted(service, ExpiredDrafts)
            d == WithoutDrafts(ExpiredDrafts)
            x == [NoDraft EXCEPT !.step = "published"]
            w == [v EXCEPT !.bytes = @ - RawBytes + RetainedBytes]
<1>1. /\ draft[i].step = "parsing" /\ ~service.shutdown /\ 2 <= MaxBytes - (v.bytes - 1)
      /\ draft' = [d EXCEPT ![i] = x] /\ service' = Synced(w, PrunedLogins(signIn), draft')
      /\ signIn' = PrunedLogins(signIn)
      /\ UNCHANGED <<lifecycle, committer, registry, stored>>
  BY DEF PublishDraft, Accessed, RawBytes, RetainedBytes
<1>2. /\ v \in ServiceType /\ v.shutdown = service.shutdown /\ v.callback = service.callback
      /\ d \in DraftType /\ Counted(v, d)
      /\ \A j \in Imports : d[j] = IF j \in ExpiredDrafts THEN NoDraft ELSE draft[j]
  BY InvTypes, ExpiredPublished, DeletedCounted
<1>3. d[i].step = "parsing"
  BY <1>1, <1>2 DEF ExpiredDrafts, Published
<1>4. v.slots \in Nat /\ v.bytes \in Nat
  BY <1>2 DEF ServiceType
<1>5. /\ w \in ServiceType /\ w.slots = v.slots /\ w.bytes = v.bytes + 1
      /\ w.shutdown = v.shutdown /\ w.callback = v.callback
  <2>. HIDE DEF v
  <2>1. v.bytes - 1 + 2 = v.bytes + 1 /\ v.bytes + 1 \in Nat
    BY <1>4
  <2>. QED
    BY <1>2, <2>1 DEF ServiceType, RawBytes, RetainedBytes
<1>6. x \in [step : {"none", "parsing", "published"}, sealed : BOOLEAN, claimed : BOOLEAN, due : BOOLEAN]
      /\ x.step = "published"
  BY DEF NoDraft
<1>. HIDE DEF v, d, w, x
<1>7. /\ service' \in ServiceType /\ service'.slots = v.slots /\ service'.bytes = v.bytes + 1
      /\ service'.shutdown = service.shutdown /\ service'.callback = service.callback
  BY <1>1, <1>2, <1>5, SyncedSame
<1>8. /\ draft' \in DraftType
      /\ \A j \in Imports : draft'[j].step = IF j = i THEN "published" ELSE d[j].step
      /\ \A j \in Imports \ {i} : draft'[j] = d[j]
  BY <1>1, <1>2, <1>6 DEF DraftType
<1>9. Counted(service', draft')
  <2>1. /\ ParsingIn(draft') = ParsingIn(d) \ {i} /\ i \in ParsingIn(d)
        /\ PublishedIn(draft') = PublishedIn(d) \cup {i} /\ i \notin PublishedIn(d)
    BY <1>3, <1>8 DEF ParsingIn, PublishedIn
  <2>2. /\ IsFiniteSet(ParsingIn(d)) /\ Cardinality(ParsingIn(d)) \in Nat
        /\ IsFiniteSet(PublishedIn(d)) /\ Cardinality(PublishedIn(d)) \in Nat
    BY DraftSetsFinite
  <2>3. Cardinality(ParsingIn(draft')) = Cardinality(ParsingIn(d)) - 1
    BY <2>1, <2>2, FS_RemoveElement
  <2>4. Cardinality(PublishedIn(draft')) = Cardinality(PublishedIn(d)) + 1
    BY <2>1, <2>2, FS_AddElement
  <2>. QED
    BY <1>1, <1>2, <1>4, <1>7, <2>2, <2>3, <2>4, StagingBounds DEF Counted
<1>10. Served
  BY <1>1, <1>7, PrunedIsTame DEF Served
<1>11. stored[i].by = "none" /\ stored[i].applied = 0
  BY <1>1 DEF StagingInv, ReceiptsSound
<1>12. \A j \in Imports \ {i} : \/ draft'[j].step = "none"
                                \/ draft'[j].step = draft[j].step /\ (draft[j].due => draft'[j].due)
  BY <1>2, <1>8, NoneTyped
<1>13. draft'[i].step # "parsing"
  BY <1>8
<1>. QED
  BY <1>1, <1>8, <1>9, <1>10, <1>11, <1>12, <1>13, OneDraftKeeps

\* A preview that failed gives back exactly what it reserved.
LEMMA PreviewFailsKeeps ==
    ASSUME StagingInv, NEW i \in Imports, PreviewFails(i)
    PROVE  StagingInv'
<1>1. /\ draft[i].step = "parsing" /\ draft' = [draft EXCEPT ![i] = NoDraft]
      /\ service' = ReservationReleased(service)
      /\ UNCHANGED <<lifecycle, signIn, committer, registry, stored>>
  BY DEF PreviewFails
<1>2. service \in ServiceType /\ draft \in DraftType /\ Counted(service, draft) /\ Tame(signIn)
  BY InvTypes
<1>3. service.slots \in Nat /\ service.bytes \in Nat
  BY <1>2 DEF ServiceType
<1>4. /\ draft' \in DraftType
      /\ \A j \in Imports : draft'[j] = IF j = i THEN NoDraft ELSE draft[j]
  BY <1>1, <1>2, NoneTyped DEF DraftType
<1>5. /\ ParsingIn(draft') = ParsingIn(draft) \ {i} /\ i \in ParsingIn(draft)
      /\ PublishedIn(draft') = PublishedIn(draft)
  BY <1>1, <1>4, NoneTyped DEF ParsingIn, PublishedIn
<1>6. /\ IsFiniteSet(ParsingIn(draft)) /\ Cardinality(ParsingIn(draft)) \in Nat
      /\ Cardinality(PublishedIn(draft)) \in Nat
  BY DraftSetsFinite
<1>7. /\ Cardinality(ParsingIn(draft')) = Cardinality(ParsingIn(draft)) - 1
      /\ Cardinality(ParsingIn(draft')) \in Nat
  BY <1>5, <1>6, FS_RemoveElement, DraftSetsFinite
<1>8. service.slots >= 1 /\ service.bytes >= 1
  BY <1>2, <1>6, <1>7 DEF Counted
<1>9. /\ service' \in ServiceType /\ service'.slots = service.slots - 1 /\ service'.bytes = service.bytes - 1
      /\ service'.shutdown = service.shutdown /\ service'.callback = service.callback
  <2>1. /\ (IF service.slots > 0 THEN service.slots - 1 ELSE 0) = service.slots - 1
        /\ (IF 1 >= service.bytes THEN 0 ELSE service.bytes - 1) = service.bytes - 1
        /\ service.slots - 1 \in Nat /\ service.bytes - 1 \in Nat
    BY <1>3, <1>8
  <2>2. service' = [service EXCEPT !.slots = service.slots - 1, !.bytes = service.bytes - 1]
    BY <1>1, <2>1 DEF ReservationReleased, RawBytes
  <2>. QED
    BY <1>2, <2>1, <2>2 DEF ServiceType
<1>10. Counted(service', draft')
  BY <1>2, <1>3, <1>5, <1>6, <1>7, <1>9, StagingBounds DEF Counted
<1>11. Served
  BY <1>1, <1>2, <1>9 DEF Served
<1>12. DraftsFade
  BY <1>4, NoneTyped DEF DraftsFade
<1>13. service'.shutdown => \A j \in Imports : draft'[j].step # "published"
  BY <1>4, <1>9, NoneTyped DEF StagingInv, ReceiptsSound, Published
<1>14. CommitsOwned' /\ ReceiptsSound'
  BY <1>1, <1>4, <1>12, <1>13, ReceiptsFade
<1>15. signIn' \in LoginType /\ lifecycle' \in Lifecycles /\ LoginsSound'
  BY <1>11, ServedKeeps
<1>16. StagingTypeOK'
  BY <1>1, <1>4, <1>9, <1>15 DEF StagingInv, StagingTypeOK, ServiceType, LoginType, DraftType, Lifecycles
<1>. QED
  BY <1>10, <1>14, <1>15, <1>16, AccountedIsCountedNext DEF StagingInv

\* One draft is dropped by whoever finds it published.
LEMMA DropKeeps ==
    ASSUME StagingInv, NEW i \in Imports, Published(draft[i]),
           Accessed(DraftsDeleted(service, {i}), signIn, WithoutDrafts({i})), UNCHANGED lifecycle
    PROVE  Served /\ DraftsGo({i})
<1>1. {i} \in SUBSET PublishedIn(draft)
  BY DEF Published, PublishedIn
<1>. QED
  BY <1>1, ServedAccess DEF Accessed

\* A cancelled draft goes with its slot and bytes.
LEMMA CancelDraftKeeps ==
    ASSUME StagingInv, NEW i \in Imports, CancelDraft(i)
    PROVE  StagingInv'
<1>1. /\ Published(draft[i]) /\ Accessed(DraftsDeleted(service, {i}), signIn, WithoutDrafts({i}))
      /\ UNCHANGED <<lifecycle, committer, registry, stored>>
  BY DEF CancelDraft
<1>2. Served /\ DraftsGo({i})
  BY <1>1, DropKeeps
<1>3. signIn' \in LoginType /\ lifecycle' \in Lifecycles /\ LoginsSound'
  BY <1>2, ServedKeeps
<1>. QED
  BY <1>1, <1>2, <1>3, LoginStepKeeps

\* A flag of one draft is set.
LEMMA OneFlagged ==
    ASSUME StagingInv, NEW i \in Imports, NEW b \in BOOLEAN,
           \/ draft' = [draft EXCEPT ![i].sealed = b]
           \/ draft' = [draft EXCEPT ![i].claimed = b]
           \/ draft' = [draft EXCEPT ![i].due = TRUE],
           service'.slots = service.slots, service'.bytes = service.bytes
    PROVE  DraftsFlagged
<1>1. draft \in DraftType
  BY InvTypes
<1>2. draft' \in DraftType
  BY <1>1 DEF DraftType
<1>3. \A j \in Imports : draft'[j].step = draft[j].step /\ (draft[j].due => draft'[j].due)
  BY <1>1 DEF DraftType
<1>. QED
  BY <1>2, <1>3 DEF DraftsFlagged

\* A draft is sealed, or found expired.
LEMMA SealDraftKeeps ==
    ASSUME StagingInv, NEW i \in Imports, SealDraft(i)
    PROVE  StagingInv'
<1>1. Published(draft[i]) /\ UNCHANGED <<lifecycle, committer, registry, stored>>
  BY DEF SealDraft
<1>2. CASE i \in ExpiredDrafts
  <2>1. Accessed(DraftsDeleted(service, {i}), signIn, WithoutDrafts({i}))
    BY <1>2 DEF SealDraft
  <2>2. Served /\ DraftsGo({i})
    BY <1>1, <2>1, DropKeeps
  <2>3. signIn' \in LoginType /\ lifecycle' \in Lifecycles /\ LoginsSound'
    BY <2>2, ServedKeeps
  <2>. QED
    BY <1>1, <2>2, <2>3, LoginStepKeeps
<1>3. CASE i \notin ExpiredDrafts
  <2>1. draft' = [draft EXCEPT ![i].sealed = TRUE] /\ UNCHANGED <<service, signIn>>
    BY <1>3 DEF SealDraft
  <2>2. Served
    BY <1>1, <2>1, InvTypes DEF Served
  <2>3. DraftsFlagged
    BY <2>1, OneFlagged
  <2>. QED
    BY <1>1, <2>2, <2>3, FlaggingKeeps
<1>. QED
  BY <1>2, <1>3

\* The deadline of a draft passes.
LEMMA DraftDueKeeps ==
    ASSUME StagingInv, NEW i \in Imports, DraftDue(i)
    PROVE  StagingInv'
<1>1. /\ draft' = [draft EXCEPT ![i].due = TRUE]
      /\ UNCHANGED <<service, lifecycle, signIn, committer, registry, stored>>
  BY DEF DraftDue
<1>2. Served
  BY <1>1, InvTypes DEF Served
<1>3. DraftsFlagged
  BY <1>1, OneFlagged
<1>. QED
  BY <1>1, <1>2, <1>3, FlaggingKeeps

\* A receipt expires only when its draft can no longer be claimed.
LEMMA ReceiptDueKeeps ==
    ASSUME StagingInv, NEW i \in Imports, ReceiptDue(i)
    PROVE  StagingInv'
<1>1. /\ Published(draft[i]) => draft[i].due
      /\ stored' = [stored EXCEPT ![i].by = "none"]
      /\ UNCHANGED <<service, lifecycle, signIn, draft, committer, registry>>
  BY DEF ReceiptDue
<1>2. StagingTypeOK /\ DraftsAccounted /\ LoginsSound /\ CommitsOwned /\ ReceiptsSound
  BY DEF StagingInv
<1>3. /\ stored' \in [Imports -> [by : Requests \cup {"none"}, applied : Nat]]
      /\ \A j \in Imports : /\ stored'[j].applied = stored[j].applied
                            /\ stored'[j].by = IF j = i THEN "none" ELSE stored[j].by
  BY <1>1, <1>2 DEF StagingTypeOK
<1>4. StagingTypeOK'
  BY <1>1, <1>2, <1>3 DEF StagingTypeOK
<1>5. CommitsOwned'
  BY <1>1, <1>2 DEF CommitsOwned
<1>6. \A c \in Committers :
        /\ committer[c].step = "claiming" => stored'[committer[c].import].by = "none"
        /\ committer[c].step \in {"claimed", "applying"} => stored'[committer[c].import].applied = 0
  BY <1>2, <1>3 DEF CommitsOwned, ReceiptsSound
<1>7. \A j \in Imports :
        /\ draft[j].step = "parsing" => stored'[j].by = "none" /\ stored'[j].applied = 0
        /\ Published(draft[j]) /\ ~draft[j].due /\ stored'[j].by = "none" => stored'[j].applied = 0
  BY <1>1, <1>2, <1>3 DEF ReceiptsSound
<1>8. AppliedOnce'
  BY <1>2, <1>3 DEF ReceiptsSound, AppliedOnce
<1>9. ReceiptsSound'
  BY <1>1, <1>2, <1>6, <1>7, <1>8 DEF ReceiptsSound, Published
<1>10. DraftsAccounted' /\ LoginsSound'
  BY <1>1, <1>2 DEF DraftsAccounted, LoginsSound, LoginKeepsEndpoint, AnyPending, Published
<1>. QED
  BY <1>4, <1>5, <1>9, <1>10 DEF StagingInv

-----------------------------------------------------------------------------
(* The commit of an import.                                                   *)

CommitSteps == {"idle", "acquiring", "rechecking", "claiming", "claimed", "applying", "completing",
                "finalizing", "unclaiming", "aborting"}
CommitterType == [step : CommitSteps, import : Imports \cup {"none"}, request : Requests \cup {"none"}]

\* Committer c goes to y and takes or gives back an entry nobody else owns.
Moves(c, y) ==
    /\ y \in CommitterType
    /\ committer' = [committer EXCEPT ![c] = y]
    /\ registry' \in [Imports -> Committers \cup {"nobody"}]
    /\ \A i \in Imports : registry'[i] = registry[i] \/ registry[i] \in {"nobody", c}
    /\ y.step # "idle" => y.import \in Imports /\ y.request \in Requests
    /\ y.step \in PastAcquire => registry'[y.import] = c

\* Such a step leaves every owner its entry.
LEMMA MovesOwned ==
    ASSUME StagingInv, NEW c \in Committers, NEW y, Moves(c, y)
    PROVE  /\ committer' \in [Committers -> CommitterType]
           /\ \A k \in Committers : committer'[k] = IF k = c THEN y ELSE committer[k]
           /\ CommitsOwned'
<1>1. committer \in [Committers -> CommitterType] /\ CommitsOwned
  BY DEF StagingInv, StagingTypeOK, CommitterType, CommitSteps
<1>2. /\ committer' \in [Committers -> CommitterType]
      /\ \A k \in Committers : committer'[k] = IF k = c THEN y ELSE committer[k]
  BY <1>1 DEF Moves
<1>3. ASSUME NEW k \in Committers
      PROVE  /\ committer'[k].step # "idle" => committer'[k].import \in Imports /\ committer'[k].request \in Requests
             /\ committer'[k].step \in PastAcquire => registry'[committer'[k].import] = k
  <2>1. CASE k = c
    BY <1>2, <2>1 DEF Moves
  <2>2. CASE k # c
    <3>1. committer'[k] = committer[k]
      BY <1>2, <2>2
    <3>2. committer[k].step # "idle" => committer[k].import \in Imports /\ committer[k].request \in Requests
      BY <1>1 DEF CommitsOwned
    <3>3. ASSUME committer[k].step \in PastAcquire PROVE registry'[committer[k].import] = k
      <4>1. committer[k].import \in Imports /\ registry[committer[k].import] = k
        BY <1>1, <3>3 DEF CommitsOwned, PastAcquire
      <4>. QED
        BY <2>2, <4>1, StagingBounds DEF Moves
    <3>. QED
      BY <3>1, <3>2, <3>3
  <2>. QED
    BY <2>1, <2>2
<1>. QED
  BY <1>2, <1>3 DEF CommitsOwned

\* The step of a committer that applies nothing.
LEMMA MoveKeeps ==
    ASSUME StagingInv, Served, draft' \in DraftType, DraftsAccounted', DraftsFade,
           service'.shutdown => \A i \in Imports : draft'[i].step # "published",
           NEW c \in Committers, NEW y, Moves(c, y), UNCHANGED stored,
           y.step = "claiming" => stored[y.import].by = "none",
           y.step \in {"claimed", "applying"} =>
              stored[y.import].applied = 0 /\ draft'[y.import].step # "parsing"
    PROVE  StagingInv'
<1>1. StagingTypeOK /\ CommitsOwned /\ ReceiptsSound
  BY DEF StagingInv
<1>2. /\ committer' \in [Committers -> CommitterType]
      /\ \A k \in Committers : committer'[k] = IF k = c THEN y ELSE committer[k]
      /\ CommitsOwned'
  BY MovesOwned
<1>3. ASSUME NEW k \in Committers
      PROVE  /\ committer'[k].step = "claiming" => stored[committer'[k].import].by = "none"
             /\ committer'[k].step \in {"claimed", "applying"} =>
                  /\ stored[committer'[k].import].applied = 0
                  /\ draft'[committer'[k].import].step # "parsing"
  <2>1. CASE k = c
    BY <1>2, <2>1
  <2>2. CASE k # c
    <3>1. committer'[k] = committer[k]
      BY <1>2, <2>2
    <3>2. /\ committer[k].step = "claiming" => stored[committer[k].import].by = "none"
          /\ committer[k].step \in {"claimed", "applying"} =>
               /\ stored[committer[k].import].applied = 0
               /\ draft[committer[k].import].step # "parsing"
      BY <1>1 DEF ReceiptsSound
    <3>3. committer[k].step \in {"claimed", "applying"} => committer[k].import \in Imports
      BY <1>1 DEF CommitsOwned
    <3>. QED
      BY <3>1, <3>2, <3>3 DEF DraftsFade
  <2>. QED
    BY <2>1, <2>2
<1>4. \A i \in Imports :
        /\ draft'[i].step = "parsing" => stored[i].by = "none" /\ stored[i].applied = 0
        /\ draft'[i].step = "published" /\ ~draft'[i].due /\ stored[i].by = "none" => stored[i].applied = 0
        /\ service'.shutdown => draft'[i].step # "published"
  BY <1>1 DEF ReceiptsSound, DraftsFade, Published
<1>5. ReceiptsSound'
  BY <1>1, <1>3, <1>4 DEF ReceiptsSound, AppliedOnce, Published
<1>6. signIn' \in LoginType /\ lifecycle' \in Lifecycles /\ LoginsSound'
  BY ServedKeeps
<1>7. StagingTypeOK'
  BY <1>1, <1>2, <1>6 DEF StagingTypeOK, Served, Moves, ServiceType, LoginType, DraftType, Lifecycles,
                           CommitterType, CommitSteps
<1>. QED
  BY <1>2, <1>5, <1>6, <1>7 DEF StagingInv

\* Steps that touch nothing that is staged.
LEMMA PlainMoveKeeps ==
    ASSUME StagingInv, UNCHANGED <<service, lifecycle, signIn, draft, stored>>,
           NEW c \in Committers, NEW y, Moves(c, y),
           y.step = "claiming" => stored[y.import].by = "none",
           y.step \in {"claimed", "applying"} =>
              stored[y.import].applied = 0 /\ draft[y.import].step # "parsing"
    PROVE  StagingInv'
<1>1. Served /\ DraftsGo({})
  BY ServedUntouched
<1>2. /\ draft' \in DraftType /\ DraftsAccounted' /\ DraftsFade
      /\ service'.shutdown => \A i \in Imports : draft'[i].step # "published"
  BY <1>1, DraftsGoKeeps
<1>. QED
  BY <1>1, <1>2, MoveKeeps

\* CommitStep keeps the import and the request.
LEMMA StepMoves ==
    ASSUME StagingInv, NEW c \in Committers, NEW st \in CommitSteps, CommitStep(c, st),
           committer[c].step # "idle", UNCHANGED registry, st \in PastAcquire => committer[c].step \in PastAcquire
    PROVE  /\ Moves(c, [committer[c] EXCEPT !.step = st])
           /\ [committer[c] EXCEPT !.step = st].step = st
           /\ [committer[c] EXCEPT !.step = st].import = committer[c].import
<1>. DEFINE y == [committer[c] EXCEPT !.step = st]
<1>1. /\ committer[c] \in CommitterType
      /\ registry \in [Imports -> Committers \cup {"nobody"}]
  BY DEF StagingInv, StagingTypeOK, CommitterType, CommitSteps
<1>2. /\ committer[c].import \in Imports /\ committer[c].request \in Requests
      /\ committer[c].step \in PastAcquire => registry[committer[c].import] = c
  BY DEF StagingInv, CommitsOwned
<1>3. y \in CommitterType /\ y.step = st /\ y.import = committer[c].import /\ y.request = committer[c].request
  BY <1>1 DEF CommitterType
<1>4. committer' = [committer EXCEPT ![c] = y]
  BY DEF CommitStep
<1>. QED
  BY <1>1, <1>2, <1>3, <1>4 DEF Moves

\* Answer gives up what the committer has.
LEMMA AnswerMoves ==
    ASSUME StagingInv, NEW c \in Committers, Answer(c),
           \/ UNCHANGED registry
           \/ committer[c].step \in PastAcquire /\ registry' = [registry EXCEPT ![committer[c].import] = "nobody"]
    PROVE  Moves(c, IdleCommitter) /\ IdleCommitter.step = "idle"
<1>1. registry \in [Imports -> Committers \cup {"nobody"}] /\ CommitsOwned
  BY DEF StagingInv, StagingTypeOK
<1>2. /\ registry' \in [Imports -> Committers \cup {"nobody"}]
      /\ \A i \in Imports : registry'[i] = registry[i] \/ registry[i] \in {"nobody", c}
  BY <1>1 DEF CommitsOwned
<1>3. IdleCommitter \in CommitterType /\ IdleCommitter.step = "idle" /\ "idle" \notin PastAcquire
  BY DEF IdleCommitter, CommitterType, CommitSteps, PastAcquire
<1>. QED
  BY <1>2, <1>3 DEF Moves, Answer

\* Nothing happens.
LEMMA StutterKeeps ==
    ASSUME StagingInv, UNCHANGED <<service, lifecycle, signIn, draft, committer, registry, stored>>
    PROVE  StagingInv'
BY DEF StagingInv, StagingTypeOK, DraftsAccounted, LoginsSound, LoginKeepsEndpoint, AnyPending,
       CommitsOwned, ReceiptsSound, AppliedOnce, Published

\* A commit begins, or is answered from the durable receipt.
LEMMA BeginCommitKeeps ==
    ASSUME StagingInv, NEW c \in Committers, NEW i \in Imports, NEW q \in Requests, BeginCommit(c, i, q)
    PROVE  StagingInv'
<1>. DEFINE y == [step |-> "acquiring", import |-> i, request |-> q]
<1>1. UNCHANGED <<service, lifecycle, signIn, draft, registry, stored>>
  BY DEF BeginCommit
<1>2. CASE UNCHANGED committer
  BY <1>1, <1>2, StutterKeeps
<1>3. CASE committer' = [committer EXCEPT ![c] = y]
  <2>1. y \in CommitterType /\ y.step = "acquiring" /\ y.import = i /\ y.request = q /\ "acquiring" \notin PastAcquire
    BY DEF CommitterType, CommitSteps, PastAcquire
  <2>2. registry \in [Imports -> Committers \cup {"nobody"}]
    BY DEF StagingInv, StagingTypeOK
  <2>3. Moves(c, y)
    BY <1>1, <1>3, <2>1, <2>2 DEF Moves
  <2>. HIDE DEF y
  <2>. QED
    BY <1>1, <2>1, <2>3, PlainMoveKeeps
<1>. QED
  BY <1>2, <1>3 DEF BeginCommit

\* The entry of an import is taken when nobody owns it.
LEMMA AcquireCommitKeeps ==
    ASSUME StagingInv, NEW c \in Committers, AcquireCommit(c)
    PROVE  StagingInv'
<1>. DEFINE y == [committer[c] EXCEPT !.step = "rechecking"]
            i == committer[c].import
<1>1. /\ committer[c].step = "acquiring" /\ registry[i] = "nobody" /\ registry' = [registry EXCEPT ![i] = c]
      /\ committer' = [committer EXCEPT ![c] = y]
      /\ UNCHANGED <<service, lifecycle, signIn, draft, stored>>
  BY DEF AcquireCommit, CommitStep
<1>2. /\ committer[c] \in CommitterType /\ registry \in [Imports -> Committers \cup {"nobody"}]
  BY DEF StagingInv, StagingTypeOK, CommitterType, CommitSteps
<1>3. i \in Imports /\ committer[c].request \in Requests
  BY <1>1 DEF StagingInv, CommitsOwned
<1>4. y \in CommitterType /\ y.step = "rechecking" /\ y.import = i /\ y.request = committer[c].request
  BY <1>2 DEF CommitterType, CommitSteps
<1>5. /\ registry' \in [Imports -> Committers \cup {"nobody"}] /\ registry'[i] = c
      /\ \A j \in Imports : registry'[j] = registry[j] \/ registry[j] = "nobody"
  BY <1>1, <1>2, <1>3
<1>6. Moves(c, y)
  BY <1>1, <1>3, <1>4, <1>5 DEF Moves
<1>. HIDE DEF y
<1>. QED
  BY <1>1, <1>4, <1>6, PlainMoveKeeps

\* A waiter gives up.
LEMMA WaiterTimesOutKeeps ==
    ASSUME StagingInv, NEW c \in Committers, WaiterTimesOut(c)
    PROVE  StagingInv'
<1>1. Answer(c) /\ UNCHANGED <<service, lifecycle, signIn, draft, registry, stored>>
  BY DEF WaiterTimesOut
<1>2. Moves(c, IdleCommitter) /\ IdleCommitter.step = "idle"
  BY <1>1, AnswerMoves
<1>. QED
  BY <1>1, <1>2, PlainMoveKeeps

\* A step of the owner that changes nothing but where it is.
LEMMA OwnerStepKeeps ==
    ASSUME StagingInv, NEW c \in Committers, NEW st \in CommitSteps, CommitStep(c, st),
           committer[c].step \in PastAcquire, UNCHANGED <<service, lifecycle, signIn, draft, registry, stored>>,
           st = "claiming" => stored[committer[c].import].by = "none",
           st \in {"claimed", "applying"} =>
              stored[committer[c].import].applied = 0 /\ draft[committer[c].import].step # "parsing"
    PROVE  StagingInv'
<1>. DEFINE y == [committer[c] EXCEPT !.step = st]
<1>1. committer[c].step # "idle"
  BY DEF PastAcquire
<1>2. Moves(c, y) /\ y.step = st /\ y.import = committer[c].import
  BY <1>1, StepMoves
<1>. HIDE DEF y
<1>. QED
  BY <1>2, PlainMoveKeeps

\* The owner claims only what has no receipt.
LEMMA RecheckReceiptKeeps ==
    ASSUME StagingInv, NEW c \in Committers, RecheckReceipt(c)
    PROVE  StagingInv'
<1>. DEFINE st == IF stored[committer[c].import].by = "none" THEN "claiming" ELSE "aborting"
<1>1. /\ committer[c].step \in PastAcquire /\ CommitStep(c, st)
      /\ UNCHANGED <<service, lifecycle, signIn, draft, registry, stored>>
  BY DEF RecheckReceipt, PastAcquire
<1>2. /\ st \in CommitSteps /\ st \notin {"claimed", "applying"}
      /\ st = "claiming" => stored[committer[c].import].by = "none"
  BY DEF CommitSteps
<1>. HIDE DEF st
<1>. QED
  BY <1>1, <1>2, OwnerStepKeeps

\* The bundle and its candidates are accepted or rejected.
LEMMA CheckKeeps ==
    ASSUME StagingInv, NEW c \in Committers, BundleRejected(c) \/ VerifyCandidates(c)
    PROVE  StagingInv'
<1>1. /\ committer[c].step = "claimed" /\ committer[c].step \in PastAcquire
      /\ UNCHANGED <<service, lifecycle, signIn, draft, registry, stored>>
  BY DEF BundleRejected, VerifyCandidates, PastAcquire
<1>2. stored[committer[c].import].applied = 0 /\ draft[committer[c].import].step # "parsing"
  BY <1>1 DEF StagingInv, ReceiptsSound
<1>3. PICK st \in {"applying", "unclaiming"} : CommitStep(c, st)
  BY DEF BundleRejected, VerifyCandidates
<1>4. st \in CommitSteps /\ st # "claiming"
  BY <1>3 DEF CommitSteps
<1>. QED
  BY <1>1, <1>2, <1>3, <1>4, OwnerStepKeeps

\* The owner gives back its entry and goes on to finalize.
LEMMA CompleteCommitKeeps ==
    ASSUME StagingInv, NEW c \in Committers, CompleteCommit(c)
    PROVE  StagingInv'
<1>. DEFINE y == [committer[c] EXCEPT !.step = "finalizing"]
            i == committer[c].import
<1>1. /\ committer[c].step = "completing" /\ registry' = [registry EXCEPT ![i] = "nobody"]
      /\ committer' = [committer EXCEPT ![c] = y]
      /\ UNCHANGED <<service, lifecycle, signIn, draft, stored>>
  BY DEF CompleteCommit, CommitStep
<1>2. /\ committer[c] \in CommitterType /\ registry \in [Imports -> Committers \cup {"nobody"}]
  BY DEF StagingInv, StagingTypeOK, CommitterType, CommitSteps
<1>3. i \in Imports /\ committer[c].request \in Requests /\ registry[i] = c
  BY <1>1 DEF StagingInv, CommitsOwned, PastAcquire
<1>4. y \in CommitterType /\ y.step = "finalizing" /\ y.import = i /\ y.request = committer[c].request
  BY <1>2 DEF CommitterType, CommitSteps
<1>5. /\ registry' \in [Imports -> Committers \cup {"nobody"}]
      /\ \A j \in Imports : registry'[j] = registry[j] \/ registry[j] = c
  BY <1>1, <1>2, <1>3
<1>6. Moves(c, y)
  BY <1>1, <1>3, <1>4, <1>5 DEF Moves, PastAcquire
<1>. HIDE DEF y
<1>. QED
  BY <1>1, <1>4, <1>6, PlainMoveKeeps

\* The owner gives back its entry and answers.
LEMMA AbortCommitKeeps ==
    ASSUME StagingInv, NEW c \in Committers, AbortCommit(c)
    PROVE  StagingInv'
<1>1. /\ committer[c].step \in PastAcquire /\ registry' = [registry EXCEPT ![committer[c].import] = "nobody"]
      /\ Answer(c) /\ UNCHANGED <<service, lifecycle, signIn, draft, stored>>
  BY DEF AbortCommit, PastAcquire
<1>2. Moves(c, IdleCommitter) /\ IdleCommitter.step = "idle"
  BY <1>1, AnswerMoves
<1>. QED
  BY <1>1, <1>2, PlainMoveKeeps

\* The draft of an applied import goes.
LEMMA FinalizeDraftKeeps ==
    ASSUME StagingInv, NEW c \in Committers, FinalizeDraft(c)
    PROVE  StagingInv'
<1>. DEFINE i == committer[c].import
            gone == IF Published(draft[i]) /\ draft[i].claimed THEN {i} ELSE {}
<1>1. /\ committer[c].step = "finalizing" /\ Answer(c)
      /\ service' = Synced(DraftsDeleted(service, gone), signIn, WithoutDrafts(gone))
      /\ draft' = WithoutDrafts(gone) /\ UNCHANGED <<signIn, lifecycle, registry, stored>>
  BY DEF FinalizeDraft, Accessed
<1>2. i \in Imports
  BY <1>1 DEF StagingInv, CommitsOwned
<1>3. gone \in SUBSET PublishedIn(draft)
  BY <1>2 DEF PublishedIn, Published
<1>. HIDE DEF gone
<1>4. Served /\ DraftsGo(gone)
  BY <1>1, <1>3, ServedAccess
<1>5. /\ draft' \in DraftType /\ DraftsAccounted' /\ DraftsFade
      /\ service'.shutdown => \A j \in Imports : draft'[j].step # "published"
  BY <1>4, DraftsGoKeeps
<1>6. Moves(c, IdleCommitter) /\ IdleCommitter.step = "idle"
  BY <1>1, AnswerMoves
<1>. QED
  BY <1>1, <1>4, <1>5, <1>6, MoveKeeps

\* ClaimDraft and ReleaseClaim: the drafts after them.
LEMMA ClaimedDrafts ==
    ASSUME StagingInv, NEW i \in Imports, UNCHANGED lifecycle,
           \/ UNCHANGED <<service, signIn, draft>>
           \/ Published(draft[i]) /\ Accessed(DraftsDeleted(service, {i}), signIn, WithoutDrafts({i}))
           \/ \E b \in BOOLEAN : Accessed(service, signIn, [draft EXCEPT ![i].claimed = b])
    PROVE  /\ Served /\ draft' \in DraftType /\ DraftsAccounted' /\ DraftsFade
           /\ service'.shutdown => \A j \in Imports : draft'[j].step # "published"
<1>1. CASE UNCHANGED <<service, signIn, draft>>
  <2>1. Served /\ DraftsGo({})
    BY <1>1, ServedUntouched
  <2>. QED
    BY <2>1, DraftsGoKeeps
<1>2. CASE Published(draft[i]) /\ Accessed(DraftsDeleted(service, {i}), signIn, WithoutDrafts({i}))
  <2>1. Served /\ DraftsGo({i})
    BY <1>2, DropKeeps
  <2>. QED
    BY <2>1, DraftsGoKeeps
<1>3. CASE \E b \in BOOLEAN : Accessed(service, signIn, [draft EXCEPT ![i].claimed = b])
  <2>1. PICK b \in BOOLEAN : Accessed(service, signIn, [draft EXCEPT ![i].claimed = b])
    BY <1>3
  <2>2. /\ service' = Synced(service, signIn, draft') /\ signIn' = signIn
        /\ draft' = [draft EXCEPT ![i].claimed = b]
    BY <2>1 DEF Accessed
  <2>3. /\ service' \in ServiceType /\ service'.slots = service.slots /\ service'.bytes = service.bytes
        /\ service'.shutdown = service.shutdown /\ service'.callback = service.callback
    BY <2>2, InvTypes, SyncedSame
  <2>4. Served
    BY <2>2, <2>3, InvTypes DEF Served
  <2>5. DraftsFlagged
    BY <2>2, <2>3, OneFlagged
  <2>. QED
    BY <2>4, <2>5, DraftsFlaggedKeeps
<1>. QED
  BY <1>1, <1>2, <1>3

\* A claim is given on a sealed draft that is not due, which was not applied.
LEMMA ClaimDraftKeeps ==
    ASSUME StagingInv, NEW c \in Committers, ClaimDraft(c)
    PROVE  StagingInv'
<1>. DEFINE i == committer[c].import
<1>1. committer[c].step = "claiming" /\ committer[c].step # "idle" /\ committer[c].step \in PastAcquire
      /\ UNCHANGED <<lifecycle, registry, stored>>
  BY DEF ClaimDraft, PastAcquire
<1>2. i \in Imports /\ stored[i].by = "none"
  BY <1>1 DEF StagingInv, CommitsOwned, ReceiptsSound
<1>3. CASE /\ Published(draft[i]) /\ ~draft[i].due
           /\ Accessed(service, signIn, [draft EXCEPT ![i].claimed = TRUE]) /\ CommitStep(c, "claimed")
  <2>1. /\ Served /\ draft' \in DraftType /\ DraftsAccounted' /\ DraftsFade
        /\ service'.shutdown => \A j \in Imports : draft'[j].step # "published"
    BY <1>1, <1>2, <1>3, ClaimedDrafts
  <2>2. stored[i].applied = 0
    BY <1>2, <1>3 DEF StagingInv, ReceiptsSound
  <2>3. draft'[i].step # "parsing"
    BY <1>2, <1>3, <2>1 DEF DraftsFade, Published
  <2>4. "claimed" \in CommitSteps
    BY DEF CommitSteps
  <2>. DEFINE y == [committer[c] EXCEPT !.step = "claimed"]
  <2>5. Moves(c, y) /\ y.step = "claimed" /\ y.import = i
    BY <1>1, <1>3, <2>4, StepMoves
  <2>. HIDE DEF y
  <2>. QED
    BY <1>1, <2>1, <2>2, <2>3, <2>5, MoveKeeps
<1>4. CASE /\ \/ UNCHANGED <<service, signIn, draft>>
              \/ i \in ExpiredDrafts /\ Accessed(DraftsDeleted(service, {i}), signIn, WithoutDrafts({i}))
           /\ CommitStep(c, "aborting")
  <2>1. /\ Served /\ draft' \in DraftType /\ DraftsAccounted' /\ DraftsFade
        /\ service'.shutdown => \A j \in Imports : draft'[j].step # "published"
    BY <1>1, <1>2, <1>4, ClaimedDrafts DEF ExpiredDrafts
  <2>2. "aborting" \in CommitSteps
    BY DEF CommitSteps
  <2>. DEFINE y == [committer[c] EXCEPT !.step = "aborting"]
  <2>3. Moves(c, y) /\ y.step = "aborting"
    BY <1>1, <1>4, <2>2, StepMoves
  <2>. HIDE DEF y
  <2>. QED
    BY <1>1, <2>1, <2>3, MoveKeeps
<1>. QED
  BY <1>3, <1>4 DEF ClaimDraft

\* A released draft may be claimed again only while it is not due.
LEMMA ReleaseClaimKeeps ==
    ASSUME StagingInv, NEW c \in Committers, ReleaseClaim(c)
    PROVE  StagingInv'
<1>. DEFINE i == committer[c].import
            y == [committer[c] EXCEPT !.step = "aborting"]
<1>1. committer[c].step # "idle" /\ committer[c].step \in PastAcquire /\ CommitStep(c, "aborting")
      /\ UNCHANGED <<lifecycle, registry, stored>>
  BY DEF ReleaseClaim, PastAcquire
<1>2. i \in Imports
  BY <1>1 DEF StagingInv, CommitsOwned
<1>3. \/ UNCHANGED <<service, signIn, draft>>
      \/ Published(draft[i]) /\ Accessed(DraftsDeleted(service, {i}), signIn, WithoutDrafts({i}))
      \/ \E b \in BOOLEAN : Accessed(service, signIn, [draft EXCEPT ![i].claimed = b])
  BY DEF ReleaseClaim
<1>4. /\ Served /\ draft' \in DraftType /\ DraftsAccounted' /\ DraftsFade
      /\ service'.shutdown => \A j \in Imports : draft'[j].step # "published"
  BY <1>1, <1>2, <1>3, ClaimedDrafts
<1>5. "aborting" \in CommitSteps
  BY DEF CommitSteps
<1>6. Moves(c, y) /\ y.step = "aborting"
  BY <1>1, <1>5, StepMoves
<1>. HIDE DEF y
<1>. QED
  BY <1>1, <1>4, <1>6, MoveKeeps

\* The import is applied by the one committer that owns its entry, on a draft
\* that was not applied before.
LEMMA ApplyImportKeeps ==
    ASSUME StagingInv, NEW c \in Committers, ApplyImport(c)
    PROVE  StagingInv'
<1>. DEFINE i == committer[c].import
            q == committer[c].request
<1>1. /\ committer[c].step = "applying" /\ committer[c].step # "idle" /\ committer[c].step \in PastAcquire
      /\ UNCHANGED <<service, lifecycle, signIn, draft, registry>>
  BY DEF ApplyImport, PastAcquire
<1>2. StagingTypeOK /\ DraftsAccounted /\ LoginsSound /\ CommitsOwned /\ ReceiptsSound
  BY DEF StagingInv
<1>3. i \in Imports /\ q \in Requests /\ registry[i] = c
  BY <1>1, <1>2 DEF CommitsOwned
<1>4. stored[i].applied = 0 /\ draft[i].step # "parsing"
  BY <1>1, <1>2 DEF ReceiptsSound
<1>5. PICK st \in {"completing", "unclaiming"} : CommitStep(c, st)
  BY DEF ApplyImport
<1>6. st \in CommitSteps /\ st \notin {"claiming", "claimed", "applying"}
  BY <1>5 DEF CommitSteps
<1>7. stored' = stored \/ (stored[i].by = "none" /\ stored' = [stored EXCEPT ![i] = [by |-> q, applied |-> @.applied + 1]])
  BY DEF ApplyImport, Applied
<1>8. CASE stored' = stored
  BY <1>1, <1>5, <1>6, <1>8, OwnerStepKeeps
<1>9. CASE stored[i].by = "none" /\ stored' = [stored EXCEPT ![i] = [by |-> q, applied |-> @.applied + 1]]
  <2>. DEFINE y == [committer[c] EXCEPT !.step = st]
  <2>1. Moves(c, y) /\ y.step = st
    BY <1>1, <1>5, <1>6, StepMoves
  <2>. HIDE DEF y
  <2>2. /\ committer' \in [Committers -> CommitterType]
        /\ \A k \in Committers : committer'[k] = IF k = c THEN y ELSE committer[k]
        /\ CommitsOwned'
    BY <2>1, MovesOwned
  <2>3. /\ stored' \in [Imports -> [by : Requests \cup {"none"}, applied : Nat]]
        /\ stored'[i].by = q /\ stored'[i].applied = 1
        /\ \A j \in Imports \ {i} : stored'[j] = stored[j]
    <3>1. stored \in [Imports -> [by : Requests \cup {"none"}, applied : Nat]]
      BY <1>2 DEF StagingTypeOK
    <3>2. stored' = [stored EXCEPT ![i] = [by |-> q, applied |-> 1]]
      BY <1>3, <1>4, <1>9, <3>1
    <3>3. [by |-> q, applied |-> 1] \in [by : Requests \cup {"none"}, applied : Nat]
      BY <1>3
    <3>. QED
      BY <1>3, <3>1, <3>2, <3>3
  <2>4. \A k \in Committers \ {c} :
           committer[k].step \in {"claiming", "claimed", "applying"} =>
              committer[k].import \in Imports \ {i} /\ stored'[committer[k].import] = stored[committer[k].import]
    <3>. SUFFICES ASSUME NEW k \in Committers \ {c}, committer[k].step \in {"claiming", "claimed", "applying"}
                  PROVE  committer[k].import \in Imports \ {i}
      BY <2>3
    <3>1. committer[k].import \in Imports /\ registry[committer[k].import] = k
      BY <1>2 DEF CommitsOwned, PastAcquire
    <3>. QED
      BY <1>3, <3>1
  <2>5. \A k \in Committers :
          /\ committer'[k].step = "claiming" => stored'[committer'[k].import].by = "none"
          /\ committer'[k].step \in {"claimed", "applying"} =>
               /\ stored'[committer'[k].import].applied = 0
               /\ draft[committer'[k].import].step # "parsing"
    <3>. SUFFICES ASSUME NEW k \in Committers
                  PROVE  /\ committer'[k].step = "claiming" => stored'[committer'[k].import].by = "none"
                         /\ committer'[k].step \in {"claimed", "applying"} =>
                              /\ stored'[committer'[k].import].applied = 0
                              /\ draft[committer'[k].import].step # "parsing"
      OBVIOUS
    <3>1. CASE k = c
      BY <1>6, <2>1, <2>2, <3>1
    <3>2. CASE k # c
      <4>1. committer'[k] = committer[k]
        BY <2>2, <3>2
      <4>. QED
        BY <1>2, <2>4, <3>2, <4>1 DEF ReceiptsSound
    <3>. QED
      BY <3>1, <3>2
  <2>6. "none" \notin Requests
    BY DEF Requests
  <2>7. \A j \in Imports :
          /\ draft[j].step = "parsing" => stored'[j].by = "none" /\ stored'[j].applied = 0
          /\ Published(draft[j]) /\ ~draft[j].due /\ stored'[j].by = "none" => stored'[j].applied = 0
    BY <1>2, <1>3, <1>4, <2>3, <2>6 DEF ReceiptsSound
  <2>8. AppliedOnce'
    BY <1>2, <1>3, <2>3 DEF ReceiptsSound, AppliedOnce
  <2>9. ReceiptsSound'
    BY <1>1, <1>2, <2>5, <2>7, <2>8 DEF ReceiptsSound, Published
  <2>10. StagingTypeOK'
    BY <1>1, <1>2, <2>2, <2>3 DEF StagingTypeOK, CommitterType, CommitSteps
  <2>11. DraftsAccounted' /\ LoginsSound'
    BY <1>1, <1>2 DEF DraftsAccounted, LoginsSound, LoginKeepsEndpoint, AnyPending, Published
  <2>. QED
    BY <2>2, <2>9, <2>10, <2>11 DEF StagingInv
<1>. QED
  BY <1>7, <1>8, <1>9

-----------------------------------------------------------------------------

\* Every step keeps the invariant.
LEMMA NextKeeps == ASSUME StagingInv, [StagingNext]_stagingVars PROVE StagingInv'
<1>1. CASE \E l \in Logins :
             \/ BeginLogin(l) \/ FinalizeLogin(l) \/ LoginDue(l)
             \/ \E ok \in BOOLEAN : OAuthCallback(l, ok) \/ ExchangeEnds(l, ok)
  BY <1>1, BeginLoginKeeps, FinalizeLoginKeeps, LoginDueKeeps, OAuthCallbackKeeps, ExchangeEndsKeeps
<1>2. CASE \/ StartEndpoint \/ LoginStatus \/ TimerFires \/ ExpireSessions \/ ReconcileEndpoint
           \/ StopEndpoint \/ ClearCallback \/ EndpointCrashes \/ Shutdown
  BY <1>2, StartEndpointKeeps, LoginStatusKeeps, QuietEndpointKeeps, SweepersKeep, ClearCallbackKeeps, ShutdownKeeps
<1>3. CASE \E i \in Imports :
             \/ ReserveDraft(i) \/ PublishDraft(i) \/ PreviewFails(i) \/ SealDraft(i) \/ CancelDraft(i)
             \/ DraftDue(i) \/ ReceiptDue(i)
  BY <1>3, ReserveDraftKeeps, PublishDraftKeeps, PreviewFailsKeeps, SealDraftKeeps, CancelDraftKeeps,
     DraftDueKeeps, ReceiptDueKeeps
<1>4. CASE \E c \in Committers :
             \/ \E i \in Imports, q \in Requests : BeginCommit(c, i, q)
             \/ AcquireCommit(c) \/ WaiterTimesOut(c) \/ RecheckReceipt(c) \/ ClaimDraft(c)
             \/ BundleRejected(c) \/ VerifyCandidates(c) \/ ApplyImport(c) \/ CompleteCommit(c) \/ FinalizeDraft(c)
             \/ ReleaseClaim(c) \/ AbortCommit(c)
  BY <1>4, BeginCommitKeeps, AcquireCommitKeeps, WaiterTimesOutKeeps, RecheckReceiptKeeps, ClaimDraftKeeps,
     CheckKeeps, ApplyImportKeeps, CompleteCommitKeeps, FinalizeDraftKeeps, ReleaseClaimKeeps, AbortCommitKeeps
<1>5. CASE ProcessRestarts
  BY <1>5, ProcessRestartsKeeps
<1>6. CASE UNCHANGED stagingVars
  <2>1. UNCHANGED <<service, lifecycle, signIn, draft, committer, registry, stored>>
    BY <1>6 DEF stagingVars
  <2>. QED
    BY <2>1, StutterKeeps
<1>. QED
  BY <1>1, <1>2, <1>3, <1>4, <1>5, <1>6 DEF StagingNext

\* The invariant implies what the run checks.
LEMMA InvImplies == StagingInv => StagingAccounted
BY DEF StagingInv, StagingAccounted, LoginsSound, ReceiptsSound, NothingStagedAfterShutdown

\* An import is applied once whatever handlers race for it, the slots and bytes
\* of drafts are exactly those in use, a pending login keeps its callback
\* endpoint, and nothing stays staged after a shutdown.
THEOREM StagingIsAccounted == StagingSpec => []StagingAccounted
<1>1. StagingInv /\ [StagingNext]_stagingVars => StagingInv'
  BY NextKeeps
<1>. QED
  BY <1>1, InitHolds, InvImplies, PTL DEF StagingSpec
=============================================================================

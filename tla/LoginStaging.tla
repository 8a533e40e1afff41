---------------------------- MODULE LoginStaging ----------------------------
(* Credentials staged in memory before they are stored: OAuth logins with     *)
(* their loopback callback endpoint (internal/providerauth/service_chatgpt_   *)
(* login.go, service_callback_lifecycle.go, callback_server.go) and drafts of *)
(* provider imports with their commit (service_chatgpt_provider_import*.go,   *)
(* internal/admin/providerimport, internal/store/provider_import*.go).        *)
(* s.mu makes each critical section one action; callbackLifecycleMu, held     *)
(* across several of them while the endpoint starts or stops, is a variable.  *)
(* Time is a flag per staged item that its deadline has passed.               *)
EXTENDS Integers, FiniteSets

CONSTANTS
    Logins,      \* login identifiers
    Imports,     \* import identifiers
    Committers,  \* goroutines that commit imports
    MaxDrafts,   \* maxActiveChatGPTProviderImportDrafts
    MaxBytes     \* maxAggregateChatGPTProviderImportBytes, in units

ASSUME StagingBounds ==
    /\ MaxDrafts \in Nat /\ MaxBytes \in Nat
    /\ IsFiniteSet(Imports) /\ "nobody" \notin Committers

VARIABLES
    service,    \* [shutdown, callback, timer, slots, bytes]: fields under s.mu
    lifecycle,  \* who holds callbackLifecycleMu, and how far it is
    endpoint,   \* whether the loopback server listens
    reconcile,  \* reconcile goroutines were asked for
    signIn,     \* logins: pendingByLoginID, pendingByState, completed
    draft,      \* providerImports and the previews still reserving
    committer,  \* CommitProviderImport handlers
    registry,   \* entries of providerImportCommitReceiptRegistry
    stored      \* the database: receipts and how often an import was applied

stagingVars == <<service, lifecycle, endpoint, reconcile, signIn, draft, committer, registry, stored>>

RawBytes == 1
RetainedBytes == 2
NoLogin == [state |-> "none", due |-> FALSE]
NoDraft == [step |-> "none", sealed |-> FALSE, claimed |-> FALSE, due |-> FALSE]
NoReceipt == [by |-> "none", applied |-> 0]
IdleCommitter == [step |-> "idle", import |-> "none", request |-> "none"]
Free == [by |-> "free", target |-> "none"]

StagingInit ==
    /\ service = [shutdown |-> FALSE, callback |-> FALSE, timer |-> "none", slots |-> 0, bytes |-> 0]
    /\ lifecycle = Free
    /\ endpoint = FALSE
    /\ reconcile = FALSE
    /\ signIn = [l \in Logins |-> NoLogin]
    /\ draft = [i \in Imports |-> NoDraft]
    /\ committer = [c \in Committers |-> IdleCommitter]
    /\ registry = [i \in Imports |-> "nobody"]
    /\ stored = [i \in Imports |-> NoReceipt]

\* pendingByLoginID: a login stays in it while its code is exchanged.
IsPending(x) == x.state \in {"pending", "exchanging"}
AnyPending(s) == \E l \in Logins : IsPending(s[l])
Published(x) == x.step = "published"

\* Expired logins go; one whose code is being exchanged is only forgotten here.
PrunedLogins(s) ==
    [l \in Logins |-> IF ~s[l].due THEN s[l]
                      ELSE IF s[l].state \in {"exchanging", "adrift"} THEN [s[l] EXCEPT !.state = "adrift"]
                      ELSE NoLogin]
ExpiredDrafts == {i \in Imports : Published(draft[i]) /\ draft[i].due /\ ~draft[i].claimed}
WithoutDrafts(gone) == [i \in Imports |-> IF i \in gone THEN NoDraft ELSE draft[i]]

\* deleteChatGPTProviderImportLocked for each of gone, with its floors at zero.
DraftsDeleted(v, gone) ==
    LET n == Cardinality(gone)
    IN  [v EXCEPT !.slots = IF @ > n THEN @ - n ELSE 0,
                  !.bytes = IF @ > n * RetainedBytes THEN @ - n * RetainedBytes ELSE 0]

\* syncSessionExpiryTaskLocked: the timer is armed again for what is staged, and
\* a callback that had already fired has a stale epoch.
Synced(v, s, d) ==
    LET staged == \/ \E l \in Logins : s[l].state \in {"pending", "exchanging", "completed"}
                  \/ \E i \in Imports : Published(d[i]) /\ ~d[i].claimed
    IN  [v EXCEPT !.timer = IF staged /\ ~v.shutdown THEN "armed" ELSE "none"]

\* The common shape of an access under s.mu: prune, change, sync. s and d are
\* the logins and drafts after the change.
Accessed(v, s, d) == service' = Synced(v, s, d) /\ signIn' = s /\ draft' = d

\* shouldReconcile: a goroutine is asked to look whether the endpoint is idle.
AskReconcile(s) == reconcile' = (reconcile \/ (service.callback /\ ~AnyPending(s)))

-----------------------------------------------------------------------------
(* Logins.                                                                    *)

\* beginChatGPTLogin: refused after shutdown; starts the endpoint, then stores
\* the login, all under callbackLifecycleMu.
BeginLogin(l) ==
    /\ lifecycle = Free /\ signIn[l] = NoLogin /\ ~service.shutdown
    /\ lifecycle' = [by |-> "login", target |-> l]
    /\ signIn' = PrunedLogins(signIn)
    /\ draft' = WithoutDrafts(ExpiredDrafts)
    /\ service' = DraftsDeleted(service, ExpiredDrafts)
    /\ UNCHANGED <<endpoint, reconcile, committer, registry, stored>>

\* callback.Start is idempotent, and may fail to bind the port.
StartEndpoint ==
    LET s == [signIn EXCEPT ![lifecycle.target] = [NoLogin EXCEPT !.state = "pending"]]
    IN  /\ lifecycle.by = "login"
        /\ \/ /\ endpoint' = TRUE
              /\ Accessed([service EXCEPT !.callback = TRUE], s, draft)
           \/ ~endpoint /\ UNCHANGED <<endpoint, service, signIn, draft>>
        /\ lifecycle' = Free
        /\ UNCHANGED <<reconcile, committer, registry, stored>>

\* GetChatGPTLoginStatus and every other look at the staged logins.
LoginStatus ==
    LET s == PrunedLogins(signIn)
        d == WithoutDrafts(ExpiredDrafts)
    IN  /\ Accessed(DraftsDeleted(service, ExpiredDrafts), s, d)
        /\ AskReconcile(s)
        /\ UNCHANGED <<lifecycle, endpoint, committer, registry, stored>>

\* handleChatGPTOAuthCallback: an error or an incomplete callback cancels the
\* login of its state; a code claims it, with a new deadline.
OAuthCallback(l, ok) ==
    LET s == PrunedLogins(signIn)
        t == IF s[l].state # "pending" THEN s
             ELSE [s EXCEPT ![l] = IF ok THEN [state |-> "exchanging", due |-> FALSE] ELSE NoLogin]
        d == WithoutDrafts(ExpiredDrafts)
    IN  /\ endpoint
        /\ signIn[l].state = "pending"
        /\ Accessed(DraftsDeleted(service, ExpiredDrafts), t, d)
        /\ AskReconcile(t)
        /\ UNCHANGED <<lifecycle, endpoint, committer, registry, stored>>

\* What storeCompletedLoginLocked admits: nothing after shutdown.
StoreCompleted(s, l) ==
    IF service.shutdown THEN [s EXCEPT ![l] = NoLogin]
    ELSE [PrunedLogins([s EXCEPT ![l] = NoLogin]) EXCEPT ![l] = [state |-> "completed", due |-> FALSE]]

\* The exchange of the code failed, or its credential is staged.
ExchangeEnds(l, ok) ==
    LET gone == IF ok /\ ~service.shutdown THEN ExpiredDrafts ELSE {}
        s == IF ok THEN StoreCompleted(signIn, l) ELSE [signIn EXCEPT ![l] = NoLogin]
    IN  /\ signIn[l].state \in {"exchanging", "adrift"}
        /\ Accessed(DraftsDeleted(service, gone), s, WithoutDrafts(gone))
        /\ AskReconcile(s)
        /\ UNCHANGED <<lifecycle, endpoint, committer, registry, stored>>

\* FinalizeChatGPTLogin consumes a completed login.
FinalizeLogin(l) ==
    LET s == PrunedLogins(signIn)
        d == WithoutDrafts(ExpiredDrafts)
    IN  /\ s[l].state = "completed"
        /\ service' = Synced(DraftsDeleted(service, ExpiredDrafts), s, d)
        /\ signIn' = [s EXCEPT ![l] = NoLogin]
        /\ draft' = d
        /\ AskReconcile(s)
        /\ UNCHANGED <<lifecycle, endpoint, committer, registry, stored>>

-----------------------------------------------------------------------------
(* The endpoint's lifecycle.                                                  *)

Due == \/ \E l \in Logins : signIn[l].state \in {"pending", "exchanging", "completed"} /\ signIn[l].due
       \/ ExpiredDrafts # {}

\* The timer fires once something is due.
TimerFires ==
    /\ service.timer = "armed" /\ Due
    /\ service' = [service EXCEPT !.timer = "fired"]
    /\ UNCHANGED <<lifecycle, endpoint, reconcile, signIn, draft, committer, registry, stored>>

\* expireSessions and reconcileCallbackEndpoint: prune, and decide under s.mu
\* whether the endpoint is idle.
Sweep ==
    LET s == PrunedLogins(signIn)
        d == WithoutDrafts(ExpiredDrafts)
    IN  /\ Accessed(DraftsDeleted(service, ExpiredDrafts), s, d)
        /\ lifecycle' = IF service.callback /\ ~AnyPending(s) THEN [by |-> "stop", target |-> "none"] ELSE Free

ExpireSessions ==
    /\ lifecycle = Free /\ service.timer = "fired" /\ ~service.shutdown
    /\ Sweep
    /\ UNCHANGED <<endpoint, reconcile, committer, registry, stored>>

ReconcileEndpoint ==
    /\ lifecycle = Free /\ reconcile
    /\ reconcile' = FALSE
    /\ IF service.shutdown THEN UNCHANGED <<service, signIn, draft, lifecycle>> ELSE Sweep
    /\ UNCHANGED <<endpoint, committer, registry, stored>>

\* stopCallbackEndpoint: the port is released, then the flag is cleared.
StopEndpoint ==
    /\ lifecycle.by = "stop"
    /\ endpoint' = FALSE
    /\ lifecycle' = [lifecycle EXCEPT !.by = "stopped"]
    /\ UNCHANGED <<service, reconcile, signIn, draft, committer, registry, stored>>

ClearCallback ==
    /\ lifecycle.by = "stopped"
    /\ Accessed([service EXCEPT !.callback = FALSE], signIn, draft)
    /\ lifecycle' = Free
    /\ UNCHANGED <<endpoint, reconcile, committer, registry, stored>>

\* serve ends unexpectedly and forgets its run.
EndpointCrashes ==
    /\ endpoint /\ endpoint' = FALSE
    /\ UNCHANGED <<service, lifecycle, reconcile, signIn, draft, committer, registry, stored>>

\* Shutdown drops everything staged, claimed drafts too, and stops the endpoint.
Shutdown ==
    LET gone == {i \in Imports : Published(draft[i])}
    IN  /\ lifecycle = Free /\ ~service.shutdown
        /\ service' = [DraftsDeleted(service, gone) EXCEPT !.shutdown = TRUE, !.timer = "none"]
        /\ signIn' = [l \in Logins |-> IF signIn[l].state \in {"exchanging", "adrift"}
                                       THEN [signIn[l] EXCEPT !.state = "adrift"] ELSE NoLogin]
        /\ draft' = WithoutDrafts(gone)
        /\ lifecycle' = IF service.callback THEN [by |-> "stop", target |-> "none"] ELSE Free
        /\ UNCHANGED <<endpoint, reconcile, committer, registry, stored>>

-----------------------------------------------------------------------------
(* Previews: a slot and the document's bytes are reserved, the document is    *)
(* parsed, and the draft is published and sealed.                             *)

HasDraftCapacity(v) == v.slots < MaxDrafts /\ RawBytes <= MaxBytes - v.bytes

ReserveDraft(i) ==
    LET v == DraftsDeleted(service, ExpiredDrafts)
        d == WithoutDrafts(ExpiredDrafts)
    IN  /\ draft[i] = NoDraft /\ stored[i] = NoReceipt /\ registry[i] = "nobody"
        /\ ~service.shutdown /\ HasDraftCapacity(v)
        /\ Accessed([v EXCEPT !.slots = @ + 1, !.bytes = @ + RawBytes], signIn,
                    [d EXCEPT ![i].step = "parsing"])
        /\ UNCHANGED <<lifecycle, endpoint, reconcile, committer, registry, stored>>

\* The reservation of a preview that failed.
ReservationReleased(v) ==
    [v EXCEPT !.slots = IF @ > 0 THEN @ - 1 ELSE 0,
              !.bytes = IF RawBytes >= @ THEN 0 ELSE @ - RawBytes]

\* Parsed and there is room for what is retained, or the preview failed.
PublishDraft(i) ==
    LET v == DraftsDeleted(service, ExpiredDrafts)
        room == RetainedBytes <= MaxBytes - (v.bytes - RawBytes)
    IN  /\ draft[i].step = "parsing"
        /\ ~service.shutdown /\ room
        /\ Accessed([v EXCEPT !.bytes = @ - RawBytes + RetainedBytes], PrunedLogins(signIn),
                    [WithoutDrafts(ExpiredDrafts) EXCEPT ![i] = [NoDraft EXCEPT !.step = "published"]])
        /\ UNCHANGED <<lifecycle, endpoint, reconcile, committer, registry, stored>>

\* Parse error, shutdown or no room: the deferred release runs.
PreviewFails(i) ==
    /\ draft[i].step = "parsing"
    /\ service' = ReservationReleased(service)
    /\ draft' = [draft EXCEPT ![i] = NoDraft]
    /\ UNCHANGED <<lifecycle, endpoint, reconcile, signIn, committer, registry, stored>>

\* SealChatGPTProviderImportPreview; an expired draft is dropped instead.
SealDraft(i) ==
    /\ Published(draft[i]) /\ ~draft[i].sealed
    /\ IF i \in ExpiredDrafts
       THEN Accessed(DraftsDeleted(service, {i}), signIn, WithoutDrafts({i}))
       ELSE draft' = [draft EXCEPT ![i].sealed = TRUE] /\ UNCHANGED <<service, signIn>>
    /\ UNCHANGED <<lifecycle, endpoint, reconcile, committer, registry, stored>>

\* CancelChatGPTProviderImport: a claimed draft is in use.
CancelDraft(i) ==
    /\ Published(draft[i]) /\ ~draft[i].claimed
    /\ Accessed(DraftsDeleted(service, {i}), signIn, WithoutDrafts({i}))
    /\ UNCHANGED <<lifecycle, endpoint, reconcile, committer, registry, stored>>

-----------------------------------------------------------------------------
(* CommitProviderImport.                                                      *)

CommitStep(c, step) == committer' = [committer EXCEPT ![c].step = step]
Answer(c) == committer' = [committer EXCEPT ![c] = IdleCommitter]
Requests == {"first", "other"}

\* The durable receipt is looked up first. The request knows the identifier of
\* a preview that was published.
BeginCommit(c, i, q) ==
    /\ committer[c].step = "idle"
    /\ draft[i].sealed
    /\ IF stored[i].by = "none"
       THEN committer' = [committer EXCEPT ![c] = [step |-> "acquiring", import |-> i, request |-> q]]
       ELSE UNCHANGED committer
    /\ UNCHANGED <<service, lifecycle, endpoint, reconcile, signIn, draft, registry, stored>>

\* acquire: one owner per import; waiters try again when it is gone.
AcquireCommit(c) ==
    LET i == committer[c].import IN
    /\ committer[c].step = "acquiring" /\ registry[i] = "nobody"
    /\ registry' = [registry EXCEPT ![i] = c]
    /\ CommitStep(c, "rechecking")
    /\ UNCHANGED <<service, lifecycle, endpoint, reconcile, signIn, draft, stored>>

WaiterTimesOut(c) ==
    /\ committer[c].step = "acquiring"
    /\ Answer(c)
    /\ UNCHANGED <<service, lifecycle, endpoint, reconcile, signIn, draft, registry, stored>>

RecheckReceipt(c) ==
    /\ committer[c].step = "rechecking"
    /\ CommitStep(c, IF stored[committer[c].import].by = "none" THEN "claiming" ELSE "aborting")
    /\ UNCHANGED <<service, lifecycle, endpoint, reconcile, signIn, draft, registry, stored>>

\* ClaimChatGPTProviderImport
ClaimDraft(c) ==
    LET i == committer[c].import IN
    /\ committer[c].step = "claiming"
    /\ IF Published(draft[i]) /\ draft[i].sealed /\ ~draft[i].claimed /\ ~draft[i].due
       THEN /\ Accessed(service, signIn, [draft EXCEPT ![i].claimed = TRUE])
            /\ CommitStep(c, "claimed")
       ELSE /\ IF i \in ExpiredDrafts
               THEN Accessed(DraftsDeleted(service, {i}), signIn, WithoutDrafts({i}))
               ELSE UNCHANGED <<service, signIn, draft>>
            /\ CommitStep(c, "aborting")
    /\ UNCHANGED <<lifecycle, endpoint, reconcile, registry, stored>>

\* The bundle cannot be built from the selection.
BundleRejected(c) ==
    /\ committer[c].step = "claimed"
    /\ CommitStep(c, "unclaiming")
    /\ UNCHANGED <<service, lifecycle, endpoint, reconcile, signIn, draft, registry, stored>>

\* VerifyChatGPTProviderImportCandidates fetches the issuer's keys, for as long
\* as its timeout allows, and accepts every candidate or none.
VerifyCandidates(c) ==
    /\ committer[c].step = "claimed"
    /\ \E ok \in BOOLEAN : CommitStep(c, IF ok THEN "applying" ELSE "unclaiming")
    /\ UNCHANGED <<service, lifecycle, endpoint, reconcile, signIn, draft, registry, stored>>

\* reserveProviderImportReceipt and the bundle, in one transaction: a receipt
\* that is there is replayed or is a mismatch, and nothing is applied.
Applied(i, q) ==
    IF stored[i].by # "none" THEN stored
    ELSE [stored EXCEPT ![i] = [by |-> q, applied |-> @.applied + 1]]

ApplyImport(c) ==
    LET i == committer[c].import
        q == committer[c].request
    IN  /\ committer[c].step = "applying"
        /\ \/ /\ stored' = Applied(i, q)
              /\ CommitStep(c, IF stored[i].by \in {"none", q} THEN "completing" ELSE "unclaiming")
           \/ \* committed, but reported as an error, or not committed at all
              stored' \in {stored, Applied(i, q)} /\ CommitStep(c, "unclaiming")
        /\ UNCHANGED <<service, lifecycle, endpoint, reconcile, signIn, draft, registry>>

CompleteCommit(c) ==
    /\ committer[c].step = "completing"
    /\ registry' = [registry EXCEPT ![committer[c].import] = "nobody"]
    /\ CommitStep(c, "finalizing")
    /\ UNCHANGED <<service, lifecycle, endpoint, reconcile, signIn, draft, stored>>

\* FinalizeChatGPTProviderImport, which after a shutdown finds no draft
FinalizeDraft(c) ==
    LET i == committer[c].import
        gone == IF Published(draft[i]) /\ draft[i].claimed THEN {i} ELSE {}
    IN  /\ committer[c].step = "finalizing"
        /\ Accessed(DraftsDeleted(service, gone), signIn, WithoutDrafts(gone))
        /\ Answer(c)
        /\ UNCHANGED <<lifecycle, endpoint, reconcile, registry, stored>>

\* Mutant: a released draft starts its time again instead of being destroyed.
MutReleaseClaim(c) ==
    LET i == committer[c].import IN
    /\ committer[c].step = "unclaiming"
    /\ IF Published(draft[i]) /\ draft[i].claimed
       THEN Accessed(service, signIn, [draft EXCEPT ![i].claimed = FALSE, ![i].due = FALSE])
       ELSE UNCHANGED <<service, signIn, draft>>
    /\ CommitStep(c, "aborting")
    /\ UNCHANGED <<lifecycle, endpoint, reconcile, registry, stored>>

\* The deferred release of the claim: a draft whose time is over is destroyed.
ReleaseClaim(c) ==
    LET i == committer[c].import
        over == draft[i].due
    IN  /\ committer[c].step = "unclaiming"
        /\ IF Published(draft[i]) /\ draft[i].claimed
           THEN Accessed(IF over THEN DraftsDeleted(service, {i}) ELSE service, signIn,
                         IF over THEN WithoutDrafts({i}) ELSE [draft EXCEPT ![i].claimed = FALSE])
           ELSE UNCHANGED <<service, signIn, draft>>
        /\ CommitStep(c, "aborting")
        /\ UNCHANGED <<lifecycle, endpoint, reconcile, registry, stored>>

AbortCommit(c) ==
    /\ committer[c].step = "aborting"
    /\ registry' = [registry EXCEPT ![committer[c].import] = "nobody"]
    /\ Answer(c)
    /\ UNCHANGED <<service, lifecycle, endpoint, reconcile, signIn, draft, stored>>

-----------------------------------------------------------------------------
(* Time and faults.                                                           *)

LoginDue(l) ==
    /\ signIn[l] # NoLogin /\ ~signIn[l].due
    /\ signIn' = [signIn EXCEPT ![l].due = TRUE]
    /\ UNCHANGED <<service, lifecycle, endpoint, reconcile, draft, committer, registry, stored>>

DraftDue(i) ==
    /\ Published(draft[i]) /\ ~draft[i].due
    /\ draft' = [draft EXCEPT ![i].due = TRUE]
    /\ UNCHANGED <<service, lifecycle, endpoint, reconcile, signIn, committer, registry, stored>>

\* A receipt lives as long as a draft does, and is written after it: it is over
\* only when the draft's own time is, or the draft is gone.
ReceiptDue(i) ==
    /\ stored[i].by # "none"
    /\ Published(draft[i]) => draft[i].due
    /\ stored' = [stored EXCEPT ![i].by = "none"]
    /\ UNCHANGED <<service, lifecycle, endpoint, reconcile, signIn, draft, committer, registry>>

\* A new process: only the database is left. The callback port is free again.
ProcessRestarts ==
    /\ service' = [shutdown |-> FALSE, callback |-> FALSE, timer |-> "none", slots |-> 0, bytes |-> 0]
    /\ lifecycle' = Free
    /\ endpoint' = FALSE
    /\ reconcile' = FALSE
    /\ signIn' = [l \in Logins |-> NoLogin]
    /\ draft' = [i \in Imports |-> NoDraft]
    /\ committer' = [c \in Committers |-> IdleCommitter]
    /\ registry' = [i \in Imports |-> "nobody"]
    /\ UNCHANGED stored

StagingNext ==
    \/ \E l \in Logins :
        \/ BeginLogin(l) \/ FinalizeLogin(l) \/ LoginDue(l)
        \/ \E ok \in BOOLEAN : OAuthCallback(l, ok) \/ ExchangeEnds(l, ok)
    \/ StartEndpoint \/ LoginStatus \/ TimerFires \/ ExpireSessions \/ ReconcileEndpoint
    \/ StopEndpoint \/ ClearCallback \/ EndpointCrashes \/ Shutdown
    \/ \E i \in Imports :
        \/ ReserveDraft(i) \/ PublishDraft(i) \/ PreviewFails(i) \/ SealDraft(i) \/ CancelDraft(i)
        \/ DraftDue(i) \/ ReceiptDue(i)
    \/ \E c \in Committers :
        \/ \E i \in Imports, q \in Requests : BeginCommit(c, i, q)
        \/ AcquireCommit(c) \/ WaiterTimesOut(c) \/ RecheckReceipt(c) \/ ClaimDraft(c)
        \/ BundleRejected(c) \/ VerifyCandidates(c) \/ ApplyImport(c) \/ CompleteCommit(c) \/ FinalizeDraft(c)
        \/ ReleaseClaim(c) \/ AbortCommit(c)
    \/ ProcessRestarts

StagingSpec == StagingInit /\ [][StagingNext]_stagingVars

-----------------------------------------------------------------------------
(* Properties.                                                                *)

\* An import is applied at most once, whatever handlers race for it, whether a
\* commit was reported as an error, and after its receipt expired.
AppliedOnce == \A i \in Imports : stored[i].applied <= 1

\* The draft slots and bytes are exactly those of the published drafts and of
\* the previews still parsing, also across expiry, cancellation and shutdown.
DraftsAccounted ==
    LET parsing == Cardinality({i \in Imports : draft[i].step = "parsing"})
        published == Cardinality({i \in Imports : Published(draft[i])})
    IN  /\ service.slots = parsing + published /\ service.slots <= MaxDrafts
        /\ service.bytes = parsing * RawBytes + published * RetainedBytes
        /\ service.bytes <= MaxBytes

\* A login that waits for its callback has the endpoint marked in use: no stop
\* decided for an older login takes it away.
LoginKeepsEndpoint ==
    AnyPending(signIn) => service.callback /\ lifecycle.by \notin {"stop", "stopped"}

\* After shutdown no credential is staged, though exchanges, previews and
\* commits that began before it still end.
NothingStagedAfterShutdown ==
    service.shutdown =>
        /\ \A l \in Logins : signIn[l].state \in {"none", "adrift"}
        /\ \A i \in Imports : ~Published(draft[i])

\* A staged import is applied once, drafts and bytes are accounted for, a pending
\* login keeps its callback endpoint, and nothing stays staged after a shutdown.
StagingAccounted ==
    AppliedOnce /\ DraftsAccounted /\ LoginKeepsEndpoint /\ NothingStagedAfterShutdown

-----------------------------------------------------------------------------
(* The inductive invariant behind the theorem of LoginStagingProofs.          *)

StagingTypeOK ==
    /\ service \in [shutdown : BOOLEAN, callback : BOOLEAN, timer : {"none", "armed", "fired"},
                    slots : Nat, bytes : Nat]
    /\ lifecycle \in [by : {"free", "login", "stop", "stopped"}, target : Logins \cup {"none"}]
    /\ signIn \in [Logins -> [state : {"none", "pending", "exchanging", "completed", "adrift"},
                              due : BOOLEAN]]
    /\ draft \in [Imports -> [step : {"none", "parsing", "published"}, sealed : BOOLEAN,
                              claimed : BOOLEAN, due : BOOLEAN]]
    /\ committer \in [Committers -> [step : {"idle", "acquiring", "rechecking", "claiming", "claimed",
                                             "applying", "completing", "finalizing", "unclaiming",
                                             "aborting"},
                                     import : Imports \cup {"none"}, request : Requests \cup {"none"}]]
    /\ registry \in [Imports -> Committers \cup {"nobody"}]
    /\ stored \in [Imports -> [by : Requests \cup {"none"}, applied : Nat]]

\* What a stop or a shutdown may interrupt: a login is stored only by whoever
\* holds the lifecycle lock, and before a shutdown.
LoginsSound ==
    /\ lifecycle.by = "login" => lifecycle.target \in Logins /\ ~service.shutdown
    /\ LoginKeepsEndpoint
    /\ service.shutdown => \A l \in Logins : signIn[l].state \in {"none", "adrift"}

PastAcquire == {"rechecking", "claiming", "claimed", "applying", "completing", "unclaiming", "aborting"}

\* Who stands past acquire owns the entry of its import.
CommitsOwned ==
    \A c \in Committers :
        /\ committer[c].step # "idle" => committer[c].import \in Imports /\ committer[c].request \in Requests
        /\ committer[c].step \in PastAcquire => registry[committer[c].import] = c

\* A draft that may still be claimed was not applied, nor was one whose claim is
\* held, and an identifier is not previewed again once it was applied.
ReceiptsSound ==
    /\ \A c \in Committers :
        /\ committer[c].step = "claiming" => stored[committer[c].import].by = "none"
        /\ committer[c].step \in {"claimed", "applying"} =>
             /\ stored[committer[c].import].applied = 0
             /\ draft[committer[c].import].step # "parsing"
    /\ \A i \in Imports :
        /\ draft[i].step = "parsing" => stored[i].by = "none" /\ stored[i].applied = 0
        /\ Published(draft[i]) /\ ~draft[i].due /\ stored[i].by = "none" => stored[i].applied = 0
        /\ service.shutdown => ~Published(draft[i])
    /\ AppliedOnce

StagingInv == StagingTypeOK /\ DraftsAccounted /\ LoginsSound /\ CommitsOwned /\ ReceiptsSound
=============================================================================

-------------------------- MODULE CredentialRefresh --------------------------
(* Refreshing a ChatGPT credential session (internal/providerauth,            *)
(* internal/codex/credentialsession and the admin handlers of a session).     *)
(* A refresh token is single-use: the issuer spends it when it answers. So    *)
(* concurrent callers share one exchange, every write of the row is made      *)
(* under the session's mutation lease, and the answer of an exchange whose    *)
(* commit failed is kept in memory until it is committed or superseded.       *)
(* One session. A credential is the record of its issue: id orders LastRefresh*)
(* and the expiry, tok is its refresh token, from the credential exchanged.   *)
EXTENDS Integers, FiniteSets, FiniteSetsExt

CONSTANTS
    Workers,      \* goroutines: requests and admin calls on the session
    MaxIssued,    \* credentials the issuer may issue
    MaxVersion,   \* the last row version callers are started at
    MaxEdited,    \* the last row version other writers are started at
    MaxSeen,      \* usage observations explored (their FetchedAt)
    SharedLogin   \* whether two admin calls may submit the same login

ASSUME RefreshBounds ==
    /\ {MaxIssued, MaxVersion, MaxEdited, MaxSeen} \subseteq Nat /\ MaxIssued >= 1
    /\ SharedLogin \in BOOLEAN
ASSUME RefreshWorkers == IsFiniteSet(Workers) /\ "nobody" \notin Workers

VARIABLES
    row,        \* the stored session
    issuer,     \* [issued, spent, aged]: the token endpoint and the clock
    answered,   \* tokens whose exchange this process has seen answered
    mutex,      \* mutationCoordinator: [entry, locks]
    flight,     \* inFlightRefreshes[session]: the calling leader or nobody
    pending,    \* pendingChatGPTRefreshCommits[session]
    recent,     \* recentChatGPTRefreshes[session]
    observing,  \* inFlightUsageObservations[session]: [on, latest]
    login,      \* the completed login staged for this account
    worker      \* what each goroutine is doing

refreshVars == <<row, issuer, answered, mutex, flight, pending, recent, observing, login, worker>>

NoCred == [id |-> 0, tok |-> 0, from |-> 0, login |-> FALSE]
NoRow == [version |-> 0, cred |-> NoCred, status |-> "none", usage |-> 0]
NoPending == [version |-> 0, source |-> NoCred, cred |-> NoCred, usage |-> 0]
Nobody == "nobody"
LockIds == 1..(Cardinality(Workers) + 1)
FreeLock == [refs |-> 0, permit |-> TRUE]
IdleWorker == [step |-> "idle", op |-> "none", snap |-> NoRow, force |-> FALSE, lock |-> 0,
               call |-> Nobody, done |-> FALSE, seen |-> 0, direct |-> FALSE, failed |-> FALSE]

LoginCred(n) == [id |-> n, tok |-> n, from |-> 0, login |-> TRUE]

RefreshInit ==
    /\ row = [version |-> 1, cred |-> LoginCred(1), status |-> "active", usage |-> 0]
    /\ issuer = [issued |-> 1, spent |-> {}, aged |-> 1, seen |-> 0]
    /\ answered = {}
    /\ mutex = [entry |-> 0, locks |-> [l \in LockIds |-> FreeLock]]
    /\ flight = Nobody
    /\ pending = NoPending
    /\ recent = NoCred
    /\ observing = [on |-> FALSE, latest |-> 0]
    /\ login = NoCred
    /\ worker = [w \in Workers |-> IdleWorker]

Present == row # NoRow
MutUsable == Present
\* A stored session that may be used and refreshed.
Usable == Present /\ row.status = "active"
Aged(c) == c.id <= issuer.aged
Caller(w) == worker[w].op = "call"
Goto(w, step) == worker' = [worker EXCEPT ![w].step = step]
Return(w) == worker' = [worker EXCEPT ![w] = IdleWorker]

-----------------------------------------------------------------------------
(* The mutation lease of the session: a lock in a map, made by the first who  *)
(* references it and deleted with the last reference.                         *)

LockOf == IF mutex.entry # 0 THEN mutex.entry
          ELSE CHOOSE l \in LockIds : mutex.locks[l] = FreeLock
\* w, now in state r, references the lock and waits for its permit.
Queue(w, r) ==
    /\ mutex' = [entry |-> LockOf, locks |-> [mutex.locks EXCEPT ![LockOf].refs = @ + 1]]
    /\ worker' = [worker EXCEPT ![w] = [r EXCEPT !.step = "waiting", !.lock = LockOf]]

\* unreference, after the permit went back when w held it
Unreferenced(l, held) ==
    LET left == mutex.locks[l].refs - 1
    IN  [entry |-> IF left = 0 THEN 0 ELSE mutex.entry,
         locks |-> [mutex.locks EXCEPT ![l] = [refs |-> left, permit |-> @.permit \/ held]]]

TakePermit(w) ==
    LET l == worker[w].lock IN
    /\ worker[w].step = "waiting"
    /\ mutex.locks[l].permit
    /\ mutex' = [mutex EXCEPT !.locks[l].permit = FALSE]
    /\ Goto(w, "owning")
    /\ UNCHANGED <<row, issuer, answered, flight, pending, recent, observing, login>>

\* Where a worker goes when it no longer has, or never got, the lease.
LeaveLease(w, failed) ==
    worker' = [worker EXCEPT ![w] =
        IF Caller(w) THEN [@ EXCEPT !.step = "closing", !.lock = 0, !.force = FALSE, !.failed = FALSE]
        ELSE IF @.op = "observe"
             THEN [@ EXCEPT !.step = IF failed THEN "dropping" ELSE "taking", !.lock = 0, !.failed = FALSE]
        ELSE IdleWorker]

\* The context ends before the lease is had.
AbandonPermit(w) ==
    /\ worker[w].step = "waiting"
    /\ mutex' = Unreferenced(worker[w].lock, FALSE)
    /\ LeaveLease(w, TRUE)
    /\ UNCHANGED <<row, issuer, answered, flight, pending, recent, observing, login>>

\* The deferred release, on every way out of an owner.
ReleaseLease(w) ==
    /\ worker[w].step = "releasing"
    /\ mutex' = Unreferenced(worker[w].lock, TRUE)
    /\ LeaveLease(w, worker[w].failed)
    /\ UNCHANGED <<row, issuer, answered, flight, pending, recent, observing, login>>

Owning(w) == worker[w].step \in
    {"owning", "exchanging", "failing", "committing", "fetching", "releasing"}

\* The end of an owner's work: the outcome is handed to the deferred release.
Leave(w, failed) ==
    LET own == worker[w] IN
    worker' = [worker EXCEPT ![w] = [own EXCEPT !.step = "releasing", !.failed = failed, !.snap = NoRow,
                                                !.force = FALSE, !.direct = FALSE, !.seen = 0,
                                                !.op = IF own.op = "reauth" THEN "admin" ELSE own.op]]

\* What a write of the row under the lease can do: it commits and says so, or
\* it fails and says so; a credential write may also commit and report an error.
Advanced(r) == [r EXCEPT !.version = @ + 1]

-----------------------------------------------------------------------------
(* Callers: ApplyProviderCredentials for a request, RefreshCredentialSession  *)
(* (force) for an admin.                                                      *)

\* authoritativeCredentialSnapshot and the decode of the stored session
ReadSession(w, force) ==
    /\ worker[w].step = "idle"
    /\ Usable /\ row.version <= MaxVersion
    /\ worker' = [worker EXCEPT ![w] = [IdleWorker EXCEPT !.step = "validating", !.op = "call",
                                                  !.snap = row, !.force = force]]
    /\ UNCHANGED <<row, issuer, answered, mutex, flight, pending, recent, observing, login>>

\* reuseRecentChatGPTRefresh: a snapshot may predate a refresh of this process.
PreferRecent(c) == IF recent.id > c.id THEN recent ELSE c

\* A fresh credential with no commit outstanding is used as it is.
Validate(w) ==
    LET c == PreferRecent(worker[w].snap.cred)
    IN  /\ worker[w].step = "validating"
        /\ IF ~worker[w].force /\ ~Aged(c) /\ pending = NoPending
           THEN Return(w)
           ELSE worker' = [worker EXCEPT ![w].step = "joining", ![w].snap = NoRow]
        /\ UNCHANGED <<row, issuer, answered, mutex, flight, pending, recent, observing, login>>

\* beginChatGPTRefresh: the first caller leads, the others follow its call.
JoinRefresh(w) ==
    /\ worker[w].step = "joining"
    /\ IF flight = Nobody
       THEN flight' = w /\ Queue(w, worker[w])
       ELSE /\ worker' = [worker EXCEPT ![w].step = "following", ![w].call = flight,
                                        ![w].done = (worker[flight].step = "erasing")]
            /\ UNCHANGED <<flight, mutex>>
    /\ UNCHANGED <<row, issuer, answered, pending, recent, observing, login>>

\* A follower has the leader's answer, or its own context ends.
FollowerReturns(w) ==
    /\ worker[w].step = "following" /\ worker[w].done
    /\ Return(w)
    /\ UNCHANGED <<row, issuer, answered, mutex, flight, pending, recent, observing, login>>

FollowerCanceled(w) ==
    /\ worker[w].step = "following"
    /\ Return(w)
    /\ UNCHANGED <<row, issuer, answered, mutex, flight, pending, recent, observing, login>>

\* finishChatGPTRefresh: the call is closed, then taken out of the map if it is
\* still the one there.
CloseCall(w) ==
    /\ worker[w].step = "closing"
    /\ worker' = [v \in Workers |->
                    IF v = w THEN [worker[v] EXCEPT !.step = "erasing"]
                    ELSE [worker[v] EXCEPT !.done = @ \/ (worker[v].step = "following" /\ worker[v].call = w)]]
    /\ UNCHANGED <<row, issuer, answered, mutex, flight, pending, recent, observing, login>>

EraseCall(w) ==
    /\ worker[w].step = "erasing"
    /\ flight' = IF flight = w THEN Nobody ELSE flight
    /\ Return(w)
    /\ UNCHANGED <<row, issuer, answered, mutex, pending, recent, observing, login>>

-----------------------------------------------------------------------------
(* The owner of the lease refreshes.                                          *)

\* With c, stored as in r: use it, exchange it, or fetch its usage.
Proceed(w, r, force) ==
    LET next == IF worker[w].op = "admin" THEN "fetching"
                ELSE IF ~force /\ ~Aged(r.cred) THEN "releasing" ELSE "exchanging"
    IN  IF next = "releasing" THEN Leave(w, FALSE)
        ELSE worker' = [worker EXCEPT ![w].step = next, ![w].snap = IF next = "fetching" THEN NoRow ELSE r,
                                      ![w].force = FALSE]

MutSourceStored(p) == TRUE
\* Whether the stored credential is still the one the pending commit exchanged.
SourceStored(p) == row.cred = p.source

\* reloadChatGPTCredentialSession and resumeChatGPTRefreshCommit
Reload(w) ==
    /\ worker[w].step = "owning" /\ worker[w].op \in {"call", "admin"}
    /\ \/ /\ ~Usable
          /\ Leave(w, TRUE)
          /\ UNCHANGED <<pending, recent>>
       \/ /\ Usable
          /\ IF pending = NoPending
             THEN Proceed(w, row, worker[w].force) /\ UNCHANGED <<pending, recent>>
             ELSE IF row.version < pending.version
             THEN Leave(w, TRUE) /\ UNCHANGED <<pending, recent>>
             ELSE IF ~SourceStored(pending)
             THEN /\ pending' = NoPending
                  /\ recent' = NoCred
                  /\ Proceed(w, row, FALSE)
             ELSE /\ worker' = [worker EXCEPT ![w].step = "committing", ![w].snap = row,
                                              ![w].direct = FALSE, ![w].force = FALSE]
                  /\ UNCHANGED <<pending, recent>>
    /\ UNCHANGED <<row, issuer, answered, mutex, flight, observing, login>>

\* The token endpoint: it answers, and may rotate the token; its answer is lost;
\* or it refuses, for good when the token was spent, revoked or expired.
Exchange(w) ==
    LET old == worker[w].snap.cred
        n == issuer.issued + 1
    IN  /\ worker[w].step = "exchanging"
        /\ \/ /\ old.tok \notin issuer.spent /\ issuer.issued < MaxIssued
              /\ \E rotated \in BOOLEAN :
                    LET spent == IF rotated THEN {old.tok} ELSE {}
                        c == [id |-> n, tok |-> IF rotated THEN n ELSE old.tok,
                              from |-> old.id, login |-> FALSE]
                    IN  /\ issuer' = [issuer EXCEPT !.issued = n, !.spent = @ \cup spent]
                        /\ answered' = answered \cup spent
                        /\ pending' = [version |-> worker[w].snap.version, source |-> old,
                                       cred |-> c, usage |-> worker[w].snap.usage]
              /\ worker' = [worker EXCEPT ![w].step = "committing", ![w].direct = TRUE]
           \/ /\ old.tok \notin issuer.spent
              /\ issuer' = [issuer EXCEPT !.spent = @ \cup {old.tok}]
              /\ worker' = [worker EXCEPT ![w].step = "failing", ![w].snap = NoRow, ![w].failed = FALSE]
              /\ UNCHANGED <<answered, pending>>
           \/ \* failed here: the refusal is terminal
              /\ \E terminal \in IF old.tok \in issuer.spent THEN {TRUE} ELSE BOOLEAN :
                    worker' = [worker EXCEPT ![w].step = "failing", ![w].snap = NoRow, ![w].failed = terminal]
              /\ UNCHANGED <<issuer, answered, pending>>
        /\ UNCHANGED <<row, mutex, flight, recent, observing, login>>

\* persistChatGPTRefreshFailure
RefreshFailure(w) ==
    /\ worker[w].step = "failing"
    /\ row' \in {row, Advanced([row EXCEPT !.status = IF worker[w].failed THEN "reauth" ELSE @])}
    /\ Leave(w, TRUE)
    /\ UNCHANGED <<issuer, answered, mutex, flight, pending, recent, observing, login>>

\* A quota observation newer than the exchange's own is kept.
CommittedUsage(stored, exchanged) == IF stored > exchanged THEN stored ELSE exchanged

\* The row after commitChatGPTRefresh of p over r.
CommittedRow(r, p) ==
    [version |-> r.version + 1, cred |-> p.cred, status |-> "active",
     usage |-> CommittedUsage(r.usage, p.usage)]

Commit(w) ==
    LET r == CommittedRow(worker[w].snap, pending) IN
    /\ worker[w].step = "committing"
    /\ row.version = worker[w].snap.version
    /\ row' = r
    /\ recent' = pending.cred
    /\ pending' = NoPending
    /\ IF worker[w].direct THEN Leave(w, FALSE) ELSE Proceed(w, r, FALSE)
    /\ UNCHANGED <<issuer, answered, mutex, flight, observing, login>>

MutCommitError(w) ==
    /\ worker[w].step = "committing"
    /\ pending' = NoPending
    /\ Leave(w, TRUE)
    /\ UNCHANGED <<row, issuer, answered, mutex, flight, recent, observing, login>>
\* A commit that reports an error keeps the pending answer, written or not.
CommitError(w) ==
    /\ worker[w].step = "committing"
    /\ row' \in {row, CommittedRow(worker[w].snap, pending)}
    /\ Leave(w, TRUE)
    /\ UNCHANGED <<issuer, answered, mutex, flight, pending, recent, observing, login>>

-----------------------------------------------------------------------------
(* Usage: fetched for an admin, or observed in the responses of requests.     *)

\* Fetched now; refused for good; or failed. The write may fail too.
FetchUsage(w) ==
    /\ worker[w].step = "fetching"
    /\ \/ /\ issuer.seen < MaxSeen
          /\ issuer' = [issuer EXCEPT !.seen = @ + 1]
          /\ row' = Advanced([row EXCEPT !.status = "active", !.usage = issuer.seen + 1])
       \/ row' = Advanced([row EXCEPT !.status = "reauth"]) /\ UNCHANGED issuer
       \/ UNCHANGED <<row, issuer>>
    /\ Leave(w, FALSE)
    /\ UNCHANGED <<answered, mutex, flight, pending, recent, observing, login>>

\* ObserveCredentialSessionUsage: one goroutine persists, the others leave the
\* newest observation behind for it.
Observe(w, t) ==
    /\ worker[w].step = "idle" /\ row.version <= MaxEdited
    /\ t <= issuer.seen + 1
    /\ issuer' = [issuer EXCEPT !.seen = Max({@, t})]
    /\ IF observing.on
       THEN /\ observing' = [observing EXCEPT !.latest = Max({@, t})]
            /\ UNCHANGED <<worker, mutex>>
       ELSE /\ observing' = [observing EXCEPT !.on = TRUE]
            /\ Queue(w, [IdleWorker EXCEPT !.op = "observe", !.seen = t])
    /\ UNCHANGED <<row, answered, flight, pending, recent, login>>

\* mergeObservedProviderUsage: a newer observation is stored, unless it comes
\* too soon after the stored one.
MergeUsage(w) ==
    LET t == worker[w].seen IN
    /\ worker[w].step = "owning" /\ worker[w].op = "observe"
    /\ \/ /\ Present /\ t > row.usage
          /\ row' = Advanced([row EXCEPT !.usage = t])
          /\ Leave(w, FALSE)
       \/ UNCHANGED row /\ Leave(w, FALSE)
       \/ UNCHANGED row /\ Leave(w, TRUE)
    /\ UNCHANGED <<issuer, answered, mutex, flight, pending, recent, observing, login>>

TakeQueued(w) ==
    /\ worker[w].step = "taking"
    /\ IF observing.latest = 0
       THEN observing' = [on |-> FALSE, latest |-> 0] /\ Return(w) /\ UNCHANGED mutex
       ELSE /\ observing' = [observing EXCEPT !.latest = 0]
            /\ Queue(w, [worker[w] EXCEPT !.seen = observing.latest])
    /\ UNCHANGED <<row, issuer, answered, flight, pending, recent, login>>

\* finishProviderUsageObservation after an error
DropObservations(w) ==
    /\ worker[w].step = "dropping"
    /\ observing' = [on |-> FALSE, latest |-> 0]
    /\ Return(w)
    /\ UNCHANGED <<row, issuer, answered, mutex, flight, pending, recent, login>>

-----------------------------------------------------------------------------
(* Administration of the session.                                             *)

CompleteLogin ==
    /\ login = NoCred /\ issuer.issued < MaxIssued
    /\ issuer' = [issuer EXCEPT !.issued = @ + 1]
    /\ login' = LoginCred(issuer.issued + 1)
    /\ UNCHANGED <<row, answered, mutex, flight, pending, recent, observing, worker>>

\* ReauthenticateCredentialSession reads the login before it has the lease.
BeginReauth(w) ==
    /\ worker[w].step = "idle" /\ login # NoCred
    /\ SharedLogin \/ \A v \in Workers : worker[v].op # "reauth"
    /\ Queue(w, [IdleWorker EXCEPT !.op = "reauth", !.snap.cred = login])
    /\ UNCHANGED <<row, issuer, answered, flight, pending, recent, observing, login>>

ApplyLogin(w) ==
    LET c == worker[w].snap.cred IN
    /\ worker[w].step = "owning" /\ worker[w].op = "reauth"
    /\ \/ /\ Present
          /\ \E u \in 0..issuer.seen :
                row' = [version |-> row.version + 1, cred |-> c, status |-> "active", usage |-> u]
          /\ login' = IF login = c THEN NoCred ELSE login
       \/ UNCHANGED <<row, login>>
    /\ Leave(w, FALSE)
    /\ UNCHANGED <<issuer, answered, mutex, flight, pending, recent, observing>>

\* An admin call that takes the lease: a usage refresh, a rename or a delete.
BeginAdmin(w) ==
    /\ worker[w].step = "idle" /\ Present /\ row.version <= MaxEdited
    /\ Queue(w, [IdleWorker EXCEPT !.op = "admin"])
    /\ UNCHANGED <<row, issuer, answered, flight, pending, recent, observing, login>>

\* RenameCredentialSessionCAS: the caller's version is current or it is not.
Rename(w) ==
    /\ worker[w].step = "owning" /\ worker[w].op = "admin"
    /\ row' \in {row, IF Present THEN Advanced(row) ELSE row}
    /\ Leave(w, FALSE)
    /\ UNCHANGED <<issuer, answered, mutex, flight, pending, recent, observing, login>>

\* DeleteIfUnreferenced: refused while a route refers to the session.
DeleteSession(w) ==
    /\ worker[w].step = "owning" /\ worker[w].op = "admin"
    /\ row' \in {row, NoRow}
    /\ Leave(w, FALSE)
    /\ UNCHANGED <<issuer, answered, mutex, flight, pending, recent, observing, login>>

\* CreateCredentialSession from a login, under the identifier of a deleted one.
CreateSession ==
    /\ row = NoRow /\ login # NoCred /\ (\A w \in Workers : worker[w].op # "reauth")
    /\ row' = [version |-> 1, cred |-> login, status |-> "active", usage |-> 0]
    /\ login' = NoCred
    /\ UNCHANGED <<issuer, answered, mutex, flight, pending, recent, observing, worker>>

\* InvalidateCredentialSessions, after a provider import committed.
Invalidate ==
    /\ recent' = NoCred
    /\ flight' = Nobody
    /\ UNCHANGED <<row, issuer, answered, mutex, pending, observing, login, worker>>

\* Time: a credential comes within proactiveRefreshWindow of its expiry, and a
\* recent refresh outlives recentRefreshReuseWindow.
Age ==
    /\ issuer.aged < issuer.issued
    /\ issuer' = [issuer EXCEPT !.aged = @ + 1]
    /\ UNCHANGED <<row, answered, mutex, flight, pending, recent, observing, login, worker>>

PruneRecent ==
    /\ recent' = NoCred
    /\ UNCHANGED <<row, issuer, answered, mutex, flight, pending, observing, login, worker>>

\* Everything but the row, and what the issuer remembers, is lost.
Restart ==
    /\ answered' = {}
    /\ mutex' = [entry |-> 0, locks |-> [l \in LockIds |-> FreeLock]]
    /\ flight' = Nobody
    /\ pending' = NoPending
    /\ recent' = NoCred
    /\ observing' = [on |-> FALSE, latest |-> 0]
    /\ login' = NoCred
    /\ worker' = [w \in Workers |-> IdleWorker]
    /\ UNCHANGED <<row, issuer>>

-----------------------------------------------------------------------------
Continue(w) ==
    \/ TakePermit(w) \/ ReleaseLease(w)
    \/ Validate(w) \/ JoinRefresh(w) \/ FollowerReturns(w) \/ CloseCall(w) \/ EraseCall(w)
    \/ Reload(w) \/ Exchange(w) \/ RefreshFailure(w) \/ Commit(w) \/ CommitError(w)
    \/ FetchUsage(w) \/ MergeUsage(w) \/ TakeQueued(w) \/ DropObservations(w)
    \/ ApplyLogin(w) \/ Rename(w) \/ DeleteSession(w)

RefreshNext ==
    \/ \E w \in Workers :
        \/ Continue(w)
        \/ AbandonPermit(w) \/ FollowerCanceled(w)
        \/ \E force \in BOOLEAN : ReadSession(w, force)
        \/ BeginAdmin(w) \/ BeginReauth(w)
        \/ \E t \in 1..MaxSeen : Observe(w, t)
    \/ CompleteLogin \/ CreateSession \/ Invalidate \/ Age \/ PruneRecent \/ Restart

RefreshSpec == RefreshInit /\ [][RefreshNext]_refreshVars

-----------------------------------------------------------------------------
(* Properties.                                                                *)

\* The lock map hands out one lease at a time: an entry is never deleted and
\* made again while somebody still waits on, or holds, the old lock.
LeaseExclusive == \A v, w \in Workers : Owning(v) /\ Owning(w) => v = w

\* An answered exchange is not lost: while the stored token is one this process
\* has seen spent, the answer that replaces it is waiting to be committed, so
\* no later caller presents the spent token again (refresh_token_reused would
\* end the session), whatever commits failed and whoever asks next.
AnswerKept == row.cred.tok \in answered => pending # NoPending /\ pending.source = row.cred

\* Only a login ends a required reauthentication: no refresh, usage fetch or
\* commit that began before the failure brings the session back.  And only a
\* login replaces the usage by an older one: completing an older exchange does
\* not roll back the quota observed while its commit was pending.
LoginStep == row'.cred.login /\ row'.cred # row.cred

SessionNotRolledBack ==
    [][/\ row.status = "reauth" /\ row'.status = "active" => LoginStep
       /\ row.cred.id # 0 /\ row'.cred.id # 0 /\ ~LoginStep => row'.usage >= row.usage]_refreshVars

\* The stored session is a credential cell: it is replaced by a login or by the
\* answer to an exchange of exactly what is stored.
IssuedBy(n) == [id : 1..n, tok : 1..n, from : 0..n, login : BOOLEAN]

Cell == INSTANCE CredentialCell WITH
            cell <- row.cred, NoCredential <- NoCred, Credentials <- IssuedBy(MaxIssued)
ImplementsCell == Cell!CellSpec

\* No follower is left on a call nobody will close: the leader it follows is
\* still at work on that call, also when an import detached the call from the
\* map and another caller leads a new one.
FollowersHaveLeader ==
    \A w \in Workers : worker[w].step = "following" /\ ~worker[w].done
        => Caller(worker[w].call)
           /\ worker[worker[w].call].step \notin {"validating", "joining", "following", "erasing"}

\* Refreshes of a session are serialized: one holder of the lease, one exchange
\* followed by the others, and no issued credential thrown away.
RefreshSerialized == LeaseExclusive /\ AnswerKept /\ FollowersHaveLeader

-----------------------------------------------------------------------------
(* The inductive invariant behind the theorems of CredentialRefreshProofs.    *)

Stored == IssuedBy(issuer.issued) \cup {NoCred}

SessionType == [version : Nat, cred : Stored, status : {"none", "active", "reauth"}, usage : Nat]

Steps == {"idle", "validating", "joining", "following", "waiting", "owning", "exchanging", "failing",
          "committing", "fetching", "releasing", "closing", "erasing", "taking", "dropping"}

GoroutineType ==
    [step : Steps, op : {"none", "call", "admin", "observe", "reauth"}, snap : SessionType,
     force : BOOLEAN, lock : LockIds \cup {0}, call : Workers \cup {Nobody}, done : BOOLEAN,
     seen : Nat, direct : BOOLEAN, failed : BOOLEAN]

RefreshTypeOK ==
    /\ row \in SessionType /\ (Present <=> row.cred # NoCred)
    /\ issuer \in [issued : 1..MaxIssued, spent : SUBSET (1..issuer.issued), aged : Nat, seen : Nat]
    /\ answered \subseteq issuer.spent
    /\ mutex \in [entry : LockIds \cup {0}, locks : [LockIds -> [refs : Nat, permit : BOOLEAN]]]
    /\ flight \in Workers \cup {Nobody}
    /\ pending \in [version : Nat, source : Stored, cred : Stored, usage : Nat]
    /\ recent \in Stored /\ login \in Stored
    /\ observing \in [on : BOOLEAN, latest : Nat]
    /\ worker \in [Workers -> GoroutineType]

Uses(w) == worker[w].step = "waiting" \/ Owning(w)
Users == {w \in Workers : Uses(w)}

\* Whoever refers to a lock refers to the one in the map, which counts them and
\* gives its permit to one; every other lock is as it was made.
LeaseCounted ==
    /\ \A l \in LockIds : l # mutex.entry => mutex.locks[l] = FreeLock
    /\ \A w \in Users : mutex.entry # 0 /\ worker[w].lock = mutex.entry
    /\ mutex.entry # 0 =>
        /\ Users # {} /\ mutex.locks[mutex.entry].refs = Cardinality(Users)
        /\ mutex.locks[mutex.entry].permit <=> \A w \in Workers : ~Owning(w)

\* What an owner works on is the stored session, and a usable one.
OwnersCurrent ==
    \A w \in Workers :
        /\ worker[w].step \in {"exchanging", "committing", "failing", "fetching"} => Usable
        /\ worker[w].step \in {"exchanging", "committing"} => worker[w].snap = row
        /\ worker[w].step = "exchanging" => pending = NoPending
        /\ worker[w].step = "committing" => pending # NoPending /\ pending.source = row.cred

\* A pending answer came from the exchange of its source, and its token is unspent
\* as far as this process knows.
PendingSound ==
    pending # NoPending => /\ pending.cred # NoCred /\ pending.source # NoCred
                           /\ pending.cred.from = pending.source.id /\ ~pending.cred.login
                           /\ pending.cred.tok \notin answered

\* A staged login is nobody's credential yet, and one call at most submits it.
LoginsFresh ==
    /\ login # NoCred =>
        /\ login.login /\ login.tok \notin issuer.spent /\ login.tok # row.cred.tok
        /\ pending # NoPending => login.tok # pending.cred.tok
    /\ \A w \in Workers : worker[w].op = "reauth" =>
        /\ worker[w].step \in {"waiting", "owning"}
        /\ login # NoCred /\ worker[w].snap.cred = login
        /\ \A v \in Workers : worker[v].op = "reauth" => v = w

\* Every quota observation anybody holds has been made.
UsageSeen ==
    /\ row.usage <= issuer.seen /\ pending.usage <= issuer.seen /\ observing.latest <= issuer.seen
    /\ \A w \in Workers : worker[w].seen <= issuer.seen

LeadingSteps == {"waiting", "owning", "exchanging", "failing", "committing", "fetching", "releasing",
                 "closing"}

\* The call in the map is being led, and so is every call somebody still follows.
CallsLed ==
    /\ \A w \in Workers :
        /\ worker[w].step \in {"validating", "joining", "following", "closing", "erasing"} => Caller(w)
        /\ worker[w].step = "following" /\ ~worker[w].done =>
            /\ worker[w].call \in Workers /\ Caller(worker[w].call)
            /\ worker[worker[w].call].step \in LeadingSteps
    /\ flight # Nobody => Caller(flight) /\ worker[flight].step \in LeadingSteps \cup {"erasing"}

RefreshInv ==
    /\ RefreshTypeOK /\ LeaseCounted /\ LeaseExclusive /\ OwnersCurrent /\ PendingSound
    /\ LoginsFresh /\ AnswerKept /\ UsageSeen /\ CallsLed
=============================================================================

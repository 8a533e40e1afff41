----------------------- MODULE CredentialRefreshProofs -----------------------
(* Machine-checked proofs about CredentialRefresh, for any number of          *)
(* goroutines, credentials, versions and observations.                        *)
EXTENDS CredentialRefresh, FiniteSetTheorems, TLAPS

\* There is a lock to make, and no lock is the absent one.
LEMMA LockIdsFacts == 1 \in LockIds /\ 0 \notin LockIds /\ LockIds \subseteq Nat
<1>1. Cardinality(Workers) \in Nat
  BY RefreshWorkers, FS_CardinalityType
<1>. QED
  BY <1>1 DEF LockIds

\* The users of the lock can be counted.
LEMMA UsersFinite == IsFiniteSet(Users) /\ Cardinality(Users) \in Nat
<1>1. Users \subseteq Workers
  BY DEF Users
<1>. QED
  BY <1>1, RefreshWorkers, FS_Subset, FS_CardinalityType

\* What was issued stays issued.
LEMMA TypesGrow ==
  ASSUME issuer.issued \in Nat, issuer'.issued \in Nat, issuer'.issued >= issuer.issued
  PROVE  Stored \subseteq Stored' /\ SessionType \subseteq SessionType' /\ GoroutineType \subseteq GoroutineType'
<1>1. Stored \subseteq Stored'
  BY DEF Stored, IssuedBy
<1>2. SessionType \subseteq SessionType'
  BY <1>1 DEF SessionType
<1>. QED
  BY <1>1, <1>2 DEF GoroutineType

\* Steps that leave the lock and everybody's reference to it alone.
LEMMA SameLease ==
  ASSUME LeaseCounted, LeaseExclusive, mutex' = mutex,
         \A v \in Workers : /\ Uses(v)' <=> Uses(v)
                            /\ Owning(v)' <=> Owning(v)
                            /\ Uses(v) => worker'[v].lock = worker[v].lock
  PROVE  LeaseCounted' /\ LeaseExclusive'
<1>1. Users' = Users
  BY DEF Users
<1>2. LeaseCounted'
  BY <1>1 DEF LeaseCounted, Users
<1>. QED
  BY <1>2 DEF LeaseExclusive

\* The lock a new user references: the one in the map, or a free one.
LEMMA LockOfFree ==
  ASSUME RefreshTypeOK, LeaseCounted
  PROVE  /\ LockOf \in LockIds /\ LockOf # 0
         /\ mutex.entry = 0 => mutex.locks[LockOf] = FreeLock /\ Users = {}
         /\ mutex.entry # 0 => LockOf = mutex.entry
<1>1. CASE mutex.entry = 0
  <2>1. \E l \in LockIds : mutex.locks[l] = FreeLock
    BY <1>1, LockIdsFacts DEF LeaseCounted
  <2>2. LockOf \in LockIds /\ mutex.locks[LockOf] = FreeLock
    BY <1>1, <2>1 DEF LockOf
  <2>. QED
    BY <1>1, <2>2, LockIdsFacts DEF LeaseCounted
<1>2. CASE mutex.entry # 0
  BY <1>2, LockIdsFacts DEF LockOf, RefreshTypeOK
<1>. QED
  BY <1>1, <1>2

\* A goroutine begins to wait for the lease.
LEMMA QueueLease ==
  ASSUME RefreshTypeOK, LeaseCounted, LeaseExclusive, NEW w \in Workers, ~Uses(w), NEW r,
         Queue(w, r), worker'[w].step = "waiting", worker'[w].lock = LockOf,
         \A v \in Workers \ {w} : worker'[v].step = worker[v].step /\ worker'[v].lock = worker[v].lock
  PROVE  /\ LeaseCounted' /\ LeaseExclusive'
         /\ mutex' \in [entry : LockIds \cup {0}, locks : [LockIds -> [refs : Nat, permit : BOOLEAN]]]
<1>. DEFINE k == LockOf
<1>1. /\ k \in LockIds /\ k # 0
      /\ mutex.entry = 0 => mutex.locks[k] = FreeLock /\ Users = {}
      /\ mutex.entry # 0 => k = mutex.entry
  BY LockOfFree
<1>2. mutex' = [entry |-> k, locks |-> [mutex.locks EXCEPT ![k].refs = @ + 1]]
  BY DEF Queue
<1>3. mutex.locks \in [LockIds -> [refs : Nat, permit : BOOLEAN]]
  BY DEF RefreshTypeOK
<1>. HIDE DEF k
<1>4. /\ mutex'.entry = k /\ mutex'.locks \in [LockIds -> [refs : Nat, permit : BOOLEAN]]
      /\ mutex'.locks[k].refs = mutex.locks[k].refs + 1
      /\ mutex'.locks[k].permit = mutex.locks[k].permit
      /\ \A l \in LockIds \ {k} : mutex'.locks[l] = mutex.locks[l]
  BY <1>1, <1>2, <1>3
<1>5. Users' = Users \cup {w} /\ w \notin Users
  BY DEF Users, Uses, Owning
<1>6. Cardinality(Users') = Cardinality(Users) + 1
  BY <1>5, UsersFinite, FS_AddElement
<1>7. \A v \in Workers : Owning(v)' <=> Owning(v)
  BY DEF Owning, Uses
<1>8. mutex.locks[k].refs = Cardinality(Users)
  <2>1. CASE mutex.entry = 0
    <3>1. mutex.locks[k] = FreeLock /\ Users = {}
      BY <1>1, <2>1
    <3>2. FreeLock.refs = 0 /\ Cardinality({}) = 0
      BY FS_EmptySet DEF FreeLock
    <3>. QED
      BY <3>1, <3>2, Zenon
  <2>2. CASE mutex.entry # 0
    BY <1>1, <2>2 DEF LeaseCounted
  <2>. QED
    BY <2>1, <2>2
<1>9. mutex.locks[k].permit <=> \A v \in Workers : ~Owning(v)
  <2>1. CASE mutex.entry = 0
    BY <1>1, <2>1 DEF FreeLock, Users, Uses
  <2>2. CASE mutex.entry # 0
    BY <1>1, <2>2 DEF LeaseCounted
  <2>. QED
    BY <2>1, <2>2
<1>10. LeaseCounted'
  <2>1. \A l \in LockIds : l # k => mutex'.locks[l] = FreeLock
    <3>1. \A l \in LockIds : l # mutex.entry => mutex.locks[l] = FreeLock
      BY DEF LeaseCounted
    <3>2. \A l \in LockIds : l # k => l # mutex.entry
      BY <1>1, LockIdsFacts
    <3>. QED
      BY <1>4, <3>1, <3>2
  <2>2. \A v \in Users' : worker'[v].lock = k
    BY <1>1, <1>5 DEF LeaseCounted, Users, k
  <2>. QED
    BY <1>1, <1>4, <1>5, <1>6, <1>7, <1>8, <1>9, <2>1, <2>2 DEF LeaseCounted, FreeLock
<1>. QED
  BY <1>1, <1>2, <1>4, <1>7, <1>10 DEF LeaseExclusive

\* A goroutine drops its reference, with the permit if it had it.
LEMMA UnreferenceLease ==
  ASSUME RefreshTypeOK, LeaseCounted, LeaseExclusive, NEW w \in Workers, Uses(w),
         NEW held \in BOOLEAN, held <=> Owning(w), mutex' = Unreferenced(worker[w].lock, held),
         ~Uses(w)',
         \A v \in Workers \ {w} : worker'[v].step = worker[v].step /\ worker'[v].lock = worker[v].lock
  PROVE  /\ LeaseCounted' /\ LeaseExclusive'
         /\ mutex' \in [entry : LockIds \cup {0}, locks : [LockIds -> [refs : Nat, permit : BOOLEAN]]]
<1>. DEFINE k == mutex.entry
            left == mutex.locks[k].refs - 1
            locks == [mutex.locks EXCEPT ![k] = [refs |-> left, permit |-> @.permit \/ held]]
<1>0. w \in Users
  BY DEF Users
<1>1. /\ k # 0 /\ k \in LockIds /\ worker[w].lock = k
      /\ mutex.locks[k].refs = Cardinality(Users)
      /\ mutex.locks[k].permit <=> \A v \in Workers : ~Owning(v)
      /\ mutex.locks \in [LockIds -> [refs : Nat, permit : BOOLEAN]]
  BY <1>0 DEF LeaseCounted, RefreshTypeOK
<1>2. Users' = Users \ {w}
  BY DEF Users, Uses, Owning
<1>3. Cardinality(Users') = Cardinality(Users) - 1 /\ Cardinality(Users') \in Nat
  <2>1. IsFiniteSet(Users')
    BY <1>2, UsersFinite, FS_RemoveElement
  <2>. QED
    BY <1>0, <1>2, <2>1, UsersFinite, FS_RemoveElement, FS_CardinalityType
<1>4. left = Cardinality(Users') /\ left \in Nat
  BY <1>1, <1>3
<1>5. mutex' = [entry |-> IF left = 0 THEN 0 ELSE k, locks |-> locks]
  BY <1>1 DEF Unreferenced
<1>6. locks[k].permit <=> \A v \in Workers : ~Owning(v)'
  <2>1. locks[k].permit <=> (mutex.locks[k].permit \/ held)
    BY <1>1
  <2>2. \A v \in Workers \ {w} : Owning(v)' <=> Owning(v)
    BY DEF Owning
  <2>3. ~Owning(w)'
    BY DEF Uses
  <2>. QED
    BY <1>1, <2>1, <2>2, <2>3 DEF LeaseExclusive
<1>7. /\ locks \in [LockIds -> [refs : Nat, permit : BOOLEAN]] /\ locks[k].refs = left
      /\ \A l \in LockIds \ {k} : locks[l] = mutex.locks[l]
  BY <1>1, <1>4
<1>8. left = 0 => Users' = {}
  BY <1>2, <1>3, <1>4, UsersFinite, FS_RemoveElement, FS_EmptySet
<1>9. left = 0 => locks[k] = FreeLock
  <2>1. \A v \in Workers : Users' = {} => ~Owning(v)'
    BY DEF Users, Uses
  <2>2. locks[k] \in [refs : Nat, permit : BOOLEAN]
    BY <1>1, <1>7
  <2>. QED
    BY <1>6, <1>7, <1>8, <2>1, <2>2 DEF FreeLock
<1>10. left # 0 => Users' # {}
  BY <1>4, FS_EmptySet
<1>. HIDE DEF left, locks
<1>11. mutex'.entry = (IF left = 0 THEN 0 ELSE k) /\ mutex'.locks = locks
  BY <1>5
<1>12. \A l \in LockIds : l # k => locks[l] = FreeLock
  BY <1>7 DEF LeaseCounted
<1>13. \A v \in Users' : worker'[v].lock = k
  BY <1>2 DEF LeaseCounted, Users
<1>. HIDE DEF k
<1>14. LeaseCounted'
  BY <1>1, <1>4, <1>6, <1>7, <1>8, <1>9, <1>10, <1>11, <1>12, <1>13 DEF LeaseCounted
<1>15. LeaseExclusive'
  <2>1. \A v \in Workers : Owning(v)' => Owning(v)
    BY DEF Owning, Uses
  <2>. QED
    BY <2>1 DEF LeaseExclusive
<1>. QED
  BY <1>1, <1>5, <1>7, <1>14, <1>15

-----------------------------------------------------------------------------
(* What the steps of one goroutine write.                                     *)

\* Only w's state changed, and it is still a goroutine's.
Only(w) == worker' \in [Workers -> GoroutineType'] /\ \A v \in Workers \ {w} : worker'[v] = worker[v]

\* The values that stand for nothing are of their types.
LEMMA EmptyTypes ==
  /\ NoCred \in Stored /\ NoRow \in SessionType /\ IdleWorker \in GoroutineType
  /\ NoCred \in Stored' /\ NoRow \in SessionType' /\ IdleWorker \in GoroutineType'
<1>1. NoCred \in Stored /\ NoCred \in Stored'
  BY DEF Stored
<1>2. NoRow \in SessionType /\ NoRow \in SessionType'
  BY <1>1 DEF SessionType, NoRow
<1>. QED
  BY <1>1, <1>2 DEF GoroutineType, IdleWorker, Steps

\* The types in a step that issues nothing.
LEMMA TypesKept ==
  ASSUME issuer'.issued = issuer.issued
  PROVE  Stored' = Stored /\ SessionType' = SessionType /\ GoroutineType' = GoroutineType
<1>1. Stored' = Stored
  BY DEF Stored
<1>2. SessionType' = SessionType
  BY <1>1 DEF SessionType
<1>. QED
  BY <1>1, <1>2 DEF GoroutineType

\* Replacing one goroutine's state.
LEMMA OneMoves ==
  ASSUME worker \in [Workers -> GoroutineType], GoroutineType \subseteq GoroutineType', NEW w \in Workers,
         NEW x, x \in GoroutineType', worker' = [worker EXCEPT ![w] = x]
  PROVE  Only(w) /\ worker'[w] = x
BY DEF Only

LEMMA GotoFields ==
  ASSUME worker \in [Workers -> GoroutineType], GoroutineType' = GoroutineType, NEW w \in Workers,
         NEW s \in Steps, Goto(w, s)
  PROVE  Only(w) /\ worker'[w] = [worker[w] EXCEPT !.step = s]
<1>1. [worker[w] EXCEPT !.step = s] \in GoroutineType'
  BY DEF GoroutineType
<1>2. worker' = [worker EXCEPT ![w] = [worker[w] EXCEPT !.step = s]]
  BY DEF Goto
<1>. QED
  BY <1>1, <1>2, OneMoves

LEMMA ReturnFields ==
  ASSUME worker \in [Workers -> GoroutineType], GoroutineType' = GoroutineType, NEW w \in Workers, Return(w)
  PROVE  Only(w) /\ worker'[w] = IdleWorker
BY EmptyTypes, OneMoves DEF Return

LEMMA LeaveFields ==
  ASSUME worker \in [Workers -> GoroutineType], GoroutineType' = GoroutineType, NEW w \in Workers,
         NEW failed \in BOOLEAN, Leave(w, failed)
  PROVE  /\ Only(w) /\ worker'[w].step = "releasing" /\ worker'[w].lock = worker[w].lock
         /\ worker'[w].op = (IF worker[w].op = "reauth" THEN "admin" ELSE worker[w].op)
         /\ worker'[w].seen = 0
<1>. DEFINE x == [worker[w] EXCEPT !.step = "releasing", !.failed = failed, !.snap = NoRow,
                                   !.force = FALSE, !.direct = FALSE, !.seen = 0,
                                   !.op = IF worker[w].op = "reauth" THEN "admin" ELSE worker[w].op]
<1>1. worker[w] \in GoroutineType
  OBVIOUS
<1>2. x \in GoroutineType
  <2>1. NoRow \in SessionType
    BY EmptyTypes
  <2>. QED
    BY <1>1, <2>1 DEF GoroutineType, Steps
<1>3. /\ x.step = "releasing" /\ x.lock = worker[w].lock /\ x.seen = 0
      /\ x.op = (IF worker[w].op = "reauth" THEN "admin" ELSE worker[w].op)
  BY <1>1 DEF GoroutineType
<1>4. worker' = [worker EXCEPT ![w] = x]
  BY DEF Leave
<1>. HIDE DEF x
<1>5. Only(w) /\ worker'[w] = x
  BY <1>2, <1>4, OneMoves
<1>. QED
  BY <1>3, <1>5

LEMMA LeaveLeaseFields ==
  ASSUME worker \in [Workers -> GoroutineType], GoroutineType' = GoroutineType, NEW w \in Workers,
         NEW failed \in BOOLEAN, LeaveLease(w, failed)
  PROVE  /\ Only(w) /\ worker'[w].seen <= worker[w].seen
         /\ \/ Caller(w) /\ worker'[w].step = "closing" /\ worker'[w].op = "call"
            \/ ~Caller(w) /\ worker'[w].step \in {"dropping", "taking"} /\ worker'[w].op = "observe"
            \/ ~Caller(w) /\ worker'[w].step = "idle" /\ worker'[w].op = "none"
<1>. DEFINE r == worker[w]
            x == IF Caller(w) THEN [r EXCEPT !.step = "closing", !.lock = 0, !.force = FALSE, !.failed = FALSE]
                 ELSE IF r.op = "observe"
                      THEN [r EXCEPT !.step = IF failed THEN "dropping" ELSE "taking", !.lock = 0, !.failed = FALSE]
                 ELSE IdleWorker
<1>1. worker[w] \in GoroutineType
  OBVIOUS
<1>2. x \in GoroutineType
  <2>1. CASE Caller(w)
    BY <1>1, <2>1 DEF GoroutineType, Steps
  <2>2. CASE ~Caller(w) /\ r.op = "observe"
    BY <1>1, <2>2 DEF GoroutineType, Steps
  <2>3. CASE ~Caller(w) /\ r.op # "observe"
    BY <2>3, EmptyTypes
  <2>. QED
    BY <2>1, <2>2, <2>3
<1>3. /\ x.seen <= worker[w].seen
      /\ \/ Caller(w) /\ x.step = "closing" /\ x.op = "call"
         \/ ~Caller(w) /\ x.step \in {"dropping", "taking"} /\ x.op = "observe"
         \/ ~Caller(w) /\ x.step = "idle" /\ x.op = "none"
  BY <1>1 DEF GoroutineType, IdleWorker, Caller
<1>4. worker' = [worker EXCEPT ![w] = x]
  BY DEF LeaveLease
<1>. HIDE DEF x
<1>5. Only(w) /\ worker'[w] = x
  BY <1>2, <1>4, OneMoves
<1>. QED
  BY <1>3, <1>5

\* Waiting for the lease, in state r.
LEMMA QueueFields ==
  ASSUME RefreshTypeOK, LeaseCounted, GoroutineType' = GoroutineType, NEW w \in Workers,
         NEW r \in GoroutineType, Queue(w, r)
  PROVE  Only(w) /\ worker'[w] = [r EXCEPT !.step = "waiting", !.lock = LockOf]
<1>1. [r EXCEPT !.step = "waiting", !.lock = LockOf] \in GoroutineType'
  <2>1. LockOf \in LockIds
    BY LockOfFree
  <2>. HIDE DEF LockOf
  <2>. QED
    BY <2>1 DEF GoroutineType, Steps
<1>2. worker' = [worker EXCEPT ![w] = [r EXCEPT !.step = "waiting", !.lock = LockOf]]
  BY DEF Queue
<1>. QED
  BY <1>1, <1>2, OneMoves DEF RefreshTypeOK

-----------------------------------------------------------------------------
(* What a step of one goroutine leaves as it was.                             *)

\* Steps in which a goroutine works on the stored session.
WorkingSteps == {"exchanging", "committing", "failing", "fetching"}

\* The calls are led as before, if w goes on leading what it led.
LEMMA CallsFrame ==
  ASSUME CallsLed, NEW w \in Workers, Only(w), flight' \in {flight, Nobody, w},
         flight' = w => Caller(w)' /\ worker'[w].step \in LeadingSteps,
         worker'[w].step \in {"validating", "joining", "following", "closing", "erasing"} => Caller(w)',
         worker'[w].step = "following" => worker'[w].done \/ \E u \in Workers \ {w} :
             worker'[w].call = u /\ Caller(u) /\ worker[u].step \in LeadingSteps,
         Caller(w) /\ worker[w].step \in LeadingSteps => Caller(w)' /\ worker'[w].step \in LeadingSteps,
         flight \in Workers \cup {Nobody}
  PROVE  CallsLed'
<1>. USE DEF Caller, Only
<1>1. \A v \in Workers : worker'[v].step \in {"validating", "joining", "following", "closing", "erasing"}
                            => Caller(v)'
  BY DEF CallsLed
<1>2. ASSUME NEW v \in Workers, worker'[v].step = "following", ~worker'[v].done
      PROVE  /\ worker'[v].call \in Workers /\ Caller(worker[v].call)'
             /\ worker'[worker'[v].call].step \in LeadingSteps
  <2>1. ASSUME NEW u \in Workers, Caller(u), worker[u].step \in LeadingSteps
        PROVE  Caller(u)' /\ worker'[u].step \in LeadingSteps
    BY <2>1
  <2>2. CASE v = w
    BY <1>2, <2>1, <2>2
  <2>3. CASE v # w
    <3>1. worker'[v] = worker[v]
      BY <2>3
    <3>2. /\ worker[v].call \in Workers /\ Caller(worker[v].call)
          /\ worker[worker[v].call].step \in LeadingSteps
      BY <1>2, <3>1 DEF CallsLed
    <3>. QED
      BY <2>1, <3>1, <3>2
  <2>. QED
    BY <2>2, <2>3
<1>3. flight' # Nobody => Caller(flight)' /\ worker'[flight'].step \in LeadingSteps \cup {"erasing"}
  BY DEF CallsLed
<1>. QED
  BY <1>1, <1>2, <1>3 DEF CallsLed

\* An owner that goes on owning, or another step that keeps its reference.
LEMMA LeaseFrame ==
  ASSUME LeaseCounted, LeaseExclusive, mutex' = mutex, NEW w \in Workers, Only(w),
         Uses(w)' <=> Uses(w), Owning(w)' <=> Owning(w), Uses(w) => worker'[w].lock = worker[w].lock
  PROVE  LeaseCounted' /\ LeaseExclusive'
<1>1. \A v \in Workers : /\ Uses(v)' <=> Uses(v)
                         /\ Owning(v)' <=> Owning(v)
                         /\ Uses(v) => worker'[v].lock = worker[v].lock
  BY DEF Only, Uses, Owning
<1>. QED
  BY <1>1, SameLease

\* w submits the staged login.
Submits(w) == /\ worker[w].step \in {"waiting", "owning"}
              /\ login # NoCred /\ worker[w].snap.cred = login

\* The credentials, when nothing is issued, stored or staged.
LEMMA QuietData ==
  ASSUME OwnersCurrent, PendingSound, LoginsFresh, AnswerKept, UsageSeen,
         UNCHANGED <<row, answered, pending, login>>, issuer'.spent = issuer.spent,
         issuer.seen \in Nat, issuer'.seen \in Nat, issuer'.seen >= issuer.seen,
         row.usage \in Nat, pending.usage \in Nat, worker \in [Workers -> GoroutineType],
         observing'.latest <= issuer'.seen, NEW w \in Workers, Only(w),
         worker'[w].step \notin WorkingSteps,
         worker'[w].op = "reauth" => Submits(w)',
         worker'[w].op = "reauth" => \A v \in Workers \ {w} : worker[v].op # "reauth",
         worker'[w].seen <= issuer'.seen
  PROVE  OwnersCurrent' /\ PendingSound' /\ LoginsFresh' /\ AnswerKept' /\ UsageSeen'
<1>1. OwnersCurrent'
  BY DEF OwnersCurrent, Only, WorkingSteps, Usable, Present
<1>2. PendingSound' /\ AnswerKept'
  BY DEF PendingSound, AnswerKept
<1>3. LoginsFresh'
  <2>1. \A v \in Workers : worker'[v].op = "reauth" => Submits(v)'
    BY DEF Only, LoginsFresh, Submits
  <2>2. \A u, v \in Workers : worker'[u].op = "reauth" /\ worker'[v].op = "reauth" => u = v
    BY DEF Only, LoginsFresh
  <2>. QED
    BY <2>1, <2>2 DEF LoginsFresh, Submits
<1>4. UsageSeen'
  <2>1. \A v \in Workers : worker[v].seen \in Nat
    BY DEF GoroutineType
  <2>2. \A v \in Workers : worker'[v].seen <= issuer'.seen
    BY <2>1 DEF Only, UsageSeen
  <2>. QED
    BY <2>2 DEF UsageSeen
<1>. QED
  BY <1>1, <1>2, <1>3, <1>4

LockTable == [entry : LockIds \cup {0}, locks : [LockIds -> [refs : Nat, permit : BOOLEAN]]]

IssuerType == [issued : 1..MaxIssued, spent : SUBSET (1..issuer.issued), aged : Nat, seen : Nat]

\* A step of one goroutine that leaves the credentials alone.
LEMMA QuietStep ==
  ASSUME RefreshInv, NEW w \in Workers, Only(w), UNCHANGED <<row, answered, pending, recent, login>>,
         issuer' \in IssuerType, issuer'.issued = issuer.issued, issuer'.spent = issuer.spent,
         issuer'.seen >= issuer.seen,
         mutex' \in LockTable, LeaseCounted', LeaseExclusive',
         observing' \in [on : BOOLEAN, latest : Nat], observing'.latest <= issuer'.seen,
         worker'[w].step \notin WorkingSteps,
         worker'[w].op = "reauth" => Submits(w)',
         worker'[w].op = "reauth" => \A v \in Workers \ {w} : worker[v].op # "reauth",
         worker'[w].seen <= issuer'.seen, flight' \in Workers \cup {Nobody}, CallsLed'
  PROVE  RefreshInv'
<1>1. Stored' = Stored /\ SessionType' = SessionType /\ GoroutineType' = GoroutineType
  BY TypesKept
<1>2. RefreshTypeOK'
  BY <1>1 DEF RefreshInv, RefreshTypeOK, Present, LockTable, Only, IssuerType
<1>3. OwnersCurrent' /\ PendingSound' /\ LoginsFresh' /\ AnswerKept' /\ UsageSeen'
  <2>1. /\ issuer.seen \in Nat /\ issuer'.seen \in Nat /\ row.usage \in Nat /\ pending.usage \in Nat
        /\ worker \in [Workers -> GoroutineType]
    BY DEF RefreshInv, RefreshTypeOK, SessionType, IssuerType
  <2>. QED
    BY <2>1, QuietData DEF RefreshInv
<1>. QED
  BY <1>2, <1>3 DEF RefreshInv

\* What the lemmas on the actions start from.
LEMMA Basics ==
  ASSUME RefreshInv
  PROVE  /\ RefreshTypeOK /\ LeaseCounted /\ LeaseExclusive /\ CallsLed
         /\ worker \in [Workers -> GoroutineType] /\ mutex \in LockTable /\ issuer \in IssuerType
         /\ observing \in [on : BOOLEAN, latest : Nat] /\ flight \in Workers \cup {Nobody}
         /\ observing.latest <= issuer.seen /\ \A w \in Workers : worker[w].seen <= issuer.seen
         /\ issuer.seen \in Nat /\ \A w \in Workers : worker[w].seen \in Nat
BY DEF RefreshInv, RefreshTypeOK, LockTable, IssuerType, UsageSeen, GoroutineType

\* Whoever is in the map leads its call.
LEMMA FlightLed ==
  ASSUME CallsLed, NEW w \in Workers, flight = w
  PROVE  Caller(w) /\ worker[w].step \in LeadingSteps \cup {"erasing"}
BY RefreshWorkers DEF CallsLed, Nobody

-----------------------------------------------------------------------------
(* The steps that leave the credentials alone.                                *)

LEMMA TakePermitKeeps ==
  ASSUME RefreshInv, NEW w \in Workers, TakePermit(w)
  PROVE  RefreshInv'
<1>. DEFINE k == mutex.entry
<1>1. /\ RefreshTypeOK /\ LeaseCounted /\ LeaseExclusive /\ CallsLed /\ GoroutineType' = GoroutineType
      /\ worker \in [Workers -> GoroutineType] /\ mutex \in LockTable /\ issuer \in IssuerType
      /\ observing \in [on : BOOLEAN, latest : Nat] /\ flight \in Workers \cup {Nobody}
  BY Basics, TypesKept DEF TakePermit
<1>2. w \in Users /\ Uses(w) /\ ~Owning(w) /\ k # 0 /\ worker[w].lock = k /\ k \in LockIds
  BY <1>1 DEF TakePermit, Users, Uses, Owning, LeaseCounted, LockTable
<1>3. Only(w) /\ worker'[w] = [worker[w] EXCEPT !.step = "owning"]
  BY <1>1, GotoFields DEF TakePermit, Steps
<1>4. /\ worker'[w].step = "owning" /\ worker'[w].lock = k /\ worker'[w].op = worker[w].op
      /\ worker'[w].snap = worker[w].snap /\ worker'[w].seen = worker[w].seen
  BY <1>1, <1>2, <1>3 DEF GoroutineType
<1>5. /\ mutex' \in LockTable /\ mutex'.entry = k /\ mutex'.locks[k].refs = mutex.locks[k].refs
      /\ ~mutex'.locks[k].permit /\ \A l \in LockIds \ {k} : mutex'.locks[l] = mutex.locks[l]
  BY <1>1, <1>2 DEF TakePermit, LockTable
<1>6. \A v \in Workers : ~Owning(v)
  BY <1>1, <1>2 DEF TakePermit, LeaseCounted
<1>7. Users' = Users
  BY <1>2, <1>3, <1>4 DEF Users, Uses, Owning, Only
<1>8. Owning(w)' /\ \A v \in Workers : Owning(v)' => v = w
  BY <1>3, <1>4, <1>6 DEF Only, Owning
<1>9. LeaseCounted' /\ LeaseExclusive'
  <2>1. \A v \in Users' : worker'[v].lock = k
    BY <1>1, <1>3, <1>4, <1>7 DEF LeaseCounted, Only, Users
  <2>. QED
    BY <1>1, <1>2, <1>5, <1>7, <1>8, <2>1 DEF LeaseCounted, LeaseExclusive
<1>10. CallsLed'
  <2>1. Caller(w)' <=> Caller(w)
    BY <1>4 DEF Caller
  <2>2. flight' = w => Caller(w)
    BY <1>1, FlightLed DEF TakePermit
  <2>. QED
    BY <1>1, <1>3, <1>4, <2>1, <2>2, CallsFrame DEF TakePermit, LeadingSteps
<1>11. worker'[w].op = "reauth" => Submits(w)' /\ \A v \in Workers \ {w} : worker[v].op # "reauth"
  BY <1>4 DEF RefreshInv, LoginsFresh, Submits, TakePermit
<1>12. /\ UNCHANGED <<row, issuer, answered, flight, pending, recent, observing, login>>
       /\ issuer'.seen >= issuer.seen /\ worker'[w].seen <= issuer'.seen
       /\ observing'.latest <= issuer'.seen
  BY <1>4, Basics DEF TakePermit
<1>. QED
  BY <1>1, <1>3, <1>4, <1>5, <1>9, <1>10, <1>11, <1>12, QuietStep DEF WorkingSteps

\* Giving the reference up, before or after the lease.
LEMMA LeaveLeaseKeeps ==
  ASSUME RefreshInv, NEW w \in Workers, NEW held \in BOOLEAN, NEW failed \in BOOLEAN,
         Uses(w), held <=> Owning(w), mutex' = Unreferenced(worker[w].lock, held), LeaveLease(w, failed),
         UNCHANGED <<row, issuer, answered, flight, pending, recent, observing, login>>
  PROVE  RefreshInv'
<1>1. /\ RefreshTypeOK /\ LeaseCounted /\ LeaseExclusive /\ CallsLed /\ GoroutineType' = GoroutineType
      /\ worker \in [Workers -> GoroutineType] /\ issuer \in IssuerType
      /\ observing \in [on : BOOLEAN, latest : Nat] /\ flight \in Workers \cup {Nobody}
  BY Basics, TypesKept
<1>2. /\ Only(w) /\ worker'[w].seen <= worker[w].seen
      /\ \/ Caller(w) /\ worker'[w].step = "closing" /\ worker'[w].op = "call"
         \/ ~Caller(w) /\ worker'[w].step \in {"dropping", "taking"} /\ worker'[w].op = "observe"
         \/ ~Caller(w) /\ worker'[w].step = "idle" /\ worker'[w].op = "none"
  BY <1>1, LeaveLeaseFields
<1>3. /\ LeaseCounted' /\ LeaseExclusive' /\ mutex' \in LockTable
  <2>1. ~Uses(w)'
    BY <1>2 DEF Uses, Owning
  <2>2. \A v \in Workers \ {w} : worker'[v].step = worker[v].step /\ worker'[v].lock = worker[v].lock
    BY <1>2 DEF Only
  <2>. QED
    BY <1>1, <2>1, <2>2, UnreferenceLease DEF LockTable
<1>4. CallsLed'
  <2>1. flight = w => Caller(w)
    BY <1>1, FlightLed
  <2>. QED
    BY <1>1, <1>2, <2>1, CallsFrame DEF LeadingSteps, Caller
<1>5. worker'[w].seen <= issuer.seen
  <2>1. worker[w].seen \in Nat /\ worker'[w].seen \in Nat /\ issuer.seen \in Nat /\ worker[w].seen <= issuer.seen
    BY <1>1, <1>2, Basics DEF Only, GoroutineType
  <2>. QED
    BY <1>2, <2>1
<1>. QED
  BY <1>1, <1>2, <1>3, <1>4, <1>5, Basics, QuietStep DEF WorkingSteps, IssuerType

LEMMA AbandonPermitKeeps ==
  ASSUME RefreshInv, NEW w \in Workers, AbandonPermit(w)
  PROVE  RefreshInv'
<1>1. Uses(w) /\ ~Owning(w)
  BY DEF AbandonPermit, Uses, Owning
<1>. QED
  BY <1>1, LeaveLeaseKeeps DEF AbandonPermit

LEMMA ReleaseLeaseKeeps ==
  ASSUME RefreshInv, NEW w \in Workers, ReleaseLease(w)
  PROVE  RefreshInv'
<1>1. Uses(w) /\ Owning(w)
  BY DEF ReleaseLease, Uses, Owning
<1>2. worker[w].failed \in BOOLEAN
  BY Basics DEF GoroutineType
<1>. QED
  BY <1>1, <1>2, LeaveLeaseKeeps DEF ReleaseLease

\* A goroutine without the lease moves on without it.
LEMMA FreeStep ==
  ASSUME RefreshInv, NEW w \in Workers, Only(w), ~Uses(w), ~Uses(w)', worker'[w].op # "reauth",
         worker'[w].seen = 0 \/ worker'[w].seen = worker[w].seen,
         UNCHANGED <<row, issuer, answered, mutex, pending, recent, login>>,
         observing' \in [on : BOOLEAN, latest : Nat], observing'.latest <= issuer.seen,
         flight' \in Workers \cup {Nobody}, CallsLed'
  PROVE  RefreshInv'
<1>1. /\ LeaseCounted /\ LeaseExclusive /\ mutex \in LockTable /\ issuer \in IssuerType
      /\ issuer.seen \in Nat /\ worker[w].seen <= issuer.seen
  BY Basics
<1>2. ~Owning(w) /\ ~Owning(w)'
  BY DEF Uses
<1>3. LeaseCounted' /\ LeaseExclusive'
  BY <1>1, <1>2, LeaseFrame
<1>4. worker'[w].step \notin WorkingSteps
  BY <1>2 DEF Owning, WorkingSteps
<1>5. worker'[w].seen <= issuer'.seen /\ issuer'.seen >= issuer.seen
  BY <1>1
<1>. QED
  BY <1>1, <1>3, <1>4, <1>5, QuietStep

\* A goroutine that is in no call, and whose call nobody leads through it.
LEMMA FreeReturn ==
  ASSUME RefreshInv, NEW w \in Workers, Return(w), ~Uses(w), worker[w].step # "closing",
         UNCHANGED <<row, issuer, answered, mutex, pending, recent, login>>,
         observing' \in [on : BOOLEAN, latest : Nat], observing'.latest <= issuer.seen,
         flight' \in {flight, Nobody}, flight' # w
  PROVE  RefreshInv'
<1>1. /\ CallsLed /\ GoroutineType' = GoroutineType /\ worker \in [Workers -> GoroutineType]
      /\ flight \in Workers \cup {Nobody}
  BY Basics, TypesKept
<1>2. Only(w) /\ worker'[w] = IdleWorker
  BY <1>1, ReturnFields
<1>3. worker'[w].step = "idle" /\ worker'[w].op = "none" /\ worker'[w].seen = 0
  BY <1>2 DEF IdleWorker
<1>4. worker[w].step \notin LeadingSteps
  BY DEF Uses, Owning, LeadingSteps
<1>5. CallsLed'
  BY <1>1, <1>2, <1>3, <1>4, CallsFrame
<1>6. ~Uses(w)'
  BY <1>3 DEF Uses, Owning
<1>. QED
  BY <1>1, <1>2, <1>3, <1>5, <1>6, FreeStep

LEMMA FollowerLeavesKeeps ==
  ASSUME RefreshInv, NEW w \in Workers, FollowerReturns(w) \/ FollowerCanceled(w)
  PROVE  RefreshInv'
<1>1. worker[w].step = "following" /\ Return(w)
      /\ UNCHANGED <<row, issuer, answered, mutex, flight, pending, recent, observing, login>>
  BY DEF FollowerReturns, FollowerCanceled
<1>2. ~Uses(w) /\ flight # w
  BY <1>1, Basics, FlightLed DEF Uses, Owning, LeadingSteps
<1>. QED
  BY <1>1, <1>2, Basics, FreeReturn

LEMMA EraseCallKeeps ==
  ASSUME RefreshInv, NEW w \in Workers, EraseCall(w)
  PROVE  RefreshInv'
<1>1. ~Uses(w) /\ worker[w].step # "closing"
  BY DEF EraseCall, Uses, Owning
<1>2. flight' \in {flight, Nobody} /\ flight' # w
  BY RefreshWorkers DEF EraseCall, Nobody
<1>. QED
  BY <1>1, <1>2, Basics, FreeReturn DEF EraseCall

LEMMA DropObservationsKeeps ==
  ASSUME RefreshInv, NEW w \in Workers, DropObservations(w)
  PROVE  RefreshInv'
<1>1. ~Uses(w) /\ worker[w].step # "closing" /\ flight # w
  BY Basics, FlightLed DEF DropObservations, Uses, Owning, LeadingSteps
<1>2. observing' \in [on : BOOLEAN, latest : Nat] /\ observing'.latest <= issuer.seen
  BY Basics DEF DropObservations
<1>. QED
  BY <1>1, <1>2, FreeReturn DEF DropObservations

\* A caller that is in no call yet.
LEMMA CallerMoves ==
  ASSUME RefreshInv, NEW w \in Workers, worker[w].step \in {"idle", "validating", "joining"},
         NEW x, x \in GoroutineType, x.step \in {"validating", "joining"}, x.op = "call",
         x.seen \in {0, worker[w].seen},
         worker' = [worker EXCEPT ![w] = x],
         UNCHANGED <<row, issuer, answered, mutex, flight, pending, recent, observing, login>>
  PROVE  RefreshInv'
<1>1. /\ CallsLed /\ GoroutineType' = GoroutineType /\ worker \in [Workers -> GoroutineType]
      /\ flight \in Workers \cup {Nobody}
  BY Basics, TypesKept
<1>2. Only(w) /\ worker'[w] = x
  BY <1>1, OneMoves
<1>3. ~Uses(w) /\ ~Uses(w)' /\ worker[w].step \notin LeadingSteps /\ flight # w
  BY <1>1, <1>2, FlightLed DEF Uses, Owning, LeadingSteps
<1>4. CallsLed'
  BY <1>1, <1>2, <1>3, CallsFrame DEF Caller
<1>. QED
  BY <1>1, <1>2, <1>3, <1>4, Basics, FreeStep

LEMMA ReadSessionKeeps ==
  ASSUME RefreshInv, NEW w \in Workers, NEW force \in BOOLEAN, ReadSession(w, force)
  PROVE  RefreshInv'
<1>. DEFINE x == [IdleWorker EXCEPT !.step = "validating", !.op = "call", !.snap = row, !.force = force]
<1>1. row \in SessionType
  BY DEF RefreshInv, RefreshTypeOK
<1>2. x \in GoroutineType
  BY <1>1, EmptyTypes DEF GoroutineType, Steps
<1>3. x.step = "validating" /\ x.op = "call" /\ x.seen = 0
  BY DEF IdleWorker
<1>4. worker' = [worker EXCEPT ![w] = x]
  BY DEF ReadSession
<1>. HIDE DEF x
<1>. QED
  BY <1>2, <1>3, <1>4, CallerMoves DEF ReadSession

LEMMA ValidateKeeps ==
  ASSUME RefreshInv, NEW w \in Workers, Validate(w)
  PROVE  RefreshInv'
<1>. DEFINE x == [worker[w] EXCEPT !.step = "joining", !.snap = NoRow]
<1>1. /\ worker[w].step = "validating" /\ worker[w] \in GoroutineType
      /\ UNCHANGED <<row, issuer, answered, mutex, flight, pending, recent, observing, login>>
  BY Basics DEF Validate
<1>2. CASE Return(w)
  <2>1. ~Uses(w) /\ flight # w
    BY <1>1, Basics, FlightLed DEF Uses, Owning, LeadingSteps
  <2>. QED
    BY <1>1, <1>2, <2>1, Basics, FreeReturn
<1>3. CASE worker' = [worker EXCEPT ![w].step = "joining", ![w].snap = NoRow]
  <2>1. worker' = [worker EXCEPT ![w] = x]
    BY <1>3, Basics
  <2>2. x \in GoroutineType
    <3>1. NoRow \in SessionType
      BY EmptyTypes
    <3>. QED
      BY <1>1, <3>1 DEF GoroutineType, Steps
  <2>3. x.step = "joining" /\ x.op = "call" /\ x.seen = worker[w].seen
    BY <1>1, Basics DEF GoroutineType, CallsLed, Caller
  <2>. HIDE DEF x
  <2>. QED
    BY <1>1, <2>1, <2>2, <2>3, CallerMoves
<1>. QED
  BY <1>2, <1>3 DEF Validate

\* A goroutine that begins to wait for the lease in state r.
LEMMA QueueKeeps ==
  ASSUME RefreshInv, NEW w \in Workers, NEW r \in GoroutineType, Queue(w, r),
         worker[w].step \in {"idle", "joining", "taking"},
         UNCHANGED <<row, answered, pending, recent, login>>,
         issuer' \in IssuerType, issuer'.issued = issuer.issued, issuer'.spent = issuer.spent,
         issuer'.seen >= issuer.seen, r.seen <= issuer'.seen,
         observing' \in [on : BOOLEAN, latest : Nat], observing'.latest <= issuer'.seen,
         flight' \in {flight, w}, flight' = w => r.op = "call",
         r.op = "reauth" => /\ login # NoCred /\ r.snap.cred = login
                            /\ \A v \in Workers \ {w} : worker[v].op # "reauth"
  PROVE  RefreshInv'
<1>1. /\ RefreshTypeOK /\ LeaseCounted /\ LeaseExclusive /\ CallsLed /\ GoroutineType' = GoroutineType
      /\ flight \in Workers \cup {Nobody}
  BY Basics, TypesKept
<1>2. Only(w) /\ worker'[w] = [r EXCEPT !.step = "waiting", !.lock = LockOf]
  BY <1>1, QueueFields
<1>3. /\ worker'[w].step = "waiting" /\ worker'[w].lock = LockOf /\ worker'[w].op = r.op
      /\ worker'[w].snap = r.snap /\ worker'[w].seen = r.seen
  BY <1>2 DEF GoroutineType
<1>4. ~Uses(w) /\ worker[w].step \notin LeadingSteps /\ flight # w
  BY <1>1, FlightLed DEF Uses, Owning, LeadingSteps
<1>5. LeaseCounted' /\ LeaseExclusive' /\ mutex' \in LockTable
  <2>1. \A v \in Workers \ {w} : worker'[v].step = worker[v].step /\ worker'[v].lock = worker[v].lock
    BY <1>2 DEF Only
  <2>. QED
    BY <1>1, <1>3, <1>4, <2>1, QueueLease DEF LockTable
<1>6. CallsLed'
  BY <1>1, <1>2, <1>3, <1>4, CallsFrame DEF Caller, LeadingSteps
<1>7. worker'[w].op = "reauth" => Submits(w)' /\ \A v \in Workers \ {w} : worker[v].op # "reauth"
  BY <1>3 DEF Submits
<1>. QED
  BY <1>1, <1>2, <1>3, <1>5, <1>6, <1>7, QuietStep DEF WorkingSteps

LEMMA JoinRefreshKeeps ==
  ASSUME RefreshInv, NEW w \in Workers, JoinRefresh(w)
  PROVE  RefreshInv'
<1>1. /\ worker[w].step = "joining" /\ Caller(w) /\ worker[w] \in GoroutineType /\ CallsLed
      /\ UNCHANGED <<row, issuer, answered, pending, recent, observing, login>>
      /\ GoroutineType' = GoroutineType /\ worker \in [Workers -> GoroutineType]
      /\ flight \in Workers \cup {Nobody}
  BY Basics, TypesKept DEF JoinRefresh, CallsLed
<1>2. CASE flight = Nobody
  <2>1. flight' = w /\ Queue(w, worker[w])
    BY <1>2 DEF JoinRefresh
  <2>2. issuer' \in IssuerType /\ issuer'.seen >= issuer.seen /\ worker[w].seen <= issuer'.seen
        /\ observing' \in [on : BOOLEAN, latest : Nat] /\ observing'.latest <= issuer'.seen
    BY <1>1, Basics
  <2>. QED
    BY <1>1, <2>1, <2>2, QueueKeeps DEF Caller
<1>3. CASE flight # Nobody
  <2>. DEFINE x == [worker[w] EXCEPT !.step = "following", !.call = flight,
                                     !.done = (worker[flight].step = "erasing")]
  <2>1. flight \in Workers /\ Caller(flight) /\ worker[flight].step \in LeadingSteps \cup {"erasing"}
    BY <1>1, <1>3 DEF CallsLed
  <2>2. worker' = [worker EXCEPT ![w] = x] /\ UNCHANGED <<flight, mutex>>
    BY <1>1, <1>3 DEF JoinRefresh
  <2>3. x \in GoroutineType
    BY <1>1, <2>1 DEF GoroutineType, Steps
  <2>4. /\ x.step = "following" /\ x.op = worker[w].op /\ x.seen = worker[w].seen /\ x.call = flight
        /\ x.done <=> worker[flight].step = "erasing"
    BY <1>1 DEF GoroutineType
  <2>. HIDE DEF x
  <2>5. Only(w) /\ worker'[w] = x
    BY <1>1, <2>2, <2>3, OneMoves
  <2>6. flight # w /\ worker[w].step \notin LeadingSteps
    BY <1>1, <2>1 DEF LeadingSteps
  <2>7. ~Uses(w) /\ ~Uses(w)'
    BY <1>1, <2>4, <2>5 DEF Uses, Owning
  <2>8. CallsLed'
    BY <1>1, <2>1, <2>2, <2>4, <2>5, <2>6, CallsFrame DEF Caller
  <2>. QED
    BY <1>1, <2>2, <2>4, <2>5, <2>7, <2>8, Basics, FreeStep DEF Caller
<1>. QED
  BY <1>2, <1>3

LEMMA TakeQueuedKeeps ==
  ASSUME RefreshInv, NEW w \in Workers, TakeQueued(w)
  PROVE  RefreshInv'
<1>1. /\ worker[w].step = "taking" /\ worker[w] \in GoroutineType
      /\ UNCHANGED <<row, issuer, answered, flight, pending, recent, login>>
      /\ observing \in [on : BOOLEAN, latest : Nat] /\ observing.latest <= issuer.seen
      /\ issuer \in IssuerType /\ issuer.seen \in Nat /\ worker[w].op # "reauth"
  BY Basics DEF TakeQueued, RefreshInv, LoginsFresh
<1>2. ~Uses(w) /\ flight # w
  BY <1>1, Basics, FlightLed DEF Uses, Owning, LeadingSteps
<1>3. CASE observing.latest = 0
  <2>1. observing' = [on |-> FALSE, latest |-> 0] /\ Return(w) /\ UNCHANGED mutex
    BY <1>3 DEF TakeQueued
  <2>. QED
    BY <1>1, <1>2, <2>1, FreeReturn
<1>4. CASE observing.latest # 0
  <2>. DEFINE r == [worker[w] EXCEPT !.seen = observing.latest]
  <2>1. observing' = [observing EXCEPT !.latest = 0] /\ Queue(w, r)
    BY <1>4 DEF TakeQueued
  <2>2. r \in GoroutineType /\ r.seen = observing.latest /\ r.op = worker[w].op
    BY <1>1 DEF GoroutineType
  <2>. HIDE DEF r
  <2>3. observing' \in [on : BOOLEAN, latest : Nat] /\ observing'.latest <= issuer'.seen
        /\ issuer'.seen >= issuer.seen
    BY <1>1, <2>1
  <2>. QED
    BY <1>1, <1>2, <2>1, <2>2, <2>3, QueueKeeps
<1>. QED
  BY <1>3, <1>4

LEMMA BeginAdminKeeps ==
  ASSUME RefreshInv, NEW w \in Workers, BeginAdmin(w)
  PROVE  RefreshInv'
<1>. DEFINE r == [IdleWorker EXCEPT !.op = "admin"]
<1>1. r \in GoroutineType
  BY EmptyTypes DEF GoroutineType
<1>2. r.op = "admin" /\ r.seen = 0
  BY DEF IdleWorker
<1>3. worker[w].step = "idle" /\ Queue(w, r)
      /\ UNCHANGED <<row, issuer, answered, flight, pending, recent, observing, login>>
  BY DEF BeginAdmin
<1>4. flight # w
  BY <1>3, Basics, FlightLed DEF LeadingSteps
<1>5. r.seen <= issuer'.seen /\ issuer'.seen >= issuer.seen
  BY <1>2, <1>3, Basics
<1>. HIDE DEF r
<1>. QED
  BY <1>1, <1>2, <1>3, <1>4, <1>5, Basics, QueueKeeps

LEMMA BeginReauthKeeps ==
  ASSUME RefreshInv, ~SharedLogin, NEW w \in Workers, BeginReauth(w)
  PROVE  RefreshInv'
<1>. DEFINE r == [IdleWorker EXCEPT !.op = "reauth", !.snap.cred = login]
            s == [NoRow EXCEPT !.cred = login]
<1>1. r = [IdleWorker EXCEPT !.op = "reauth", !.snap = s]
  BY DEF IdleWorker
<1>2. s \in SessionType /\ s.cred = login
  BY EmptyTypes DEF SessionType, RefreshInv, RefreshTypeOK
<1>3. r \in GoroutineType
  <2>1. IdleWorker \in GoroutineType
    BY EmptyTypes
  <2>. HIDE DEF s
  <2>. QED
    BY <1>1, <1>2, <2>1 DEF GoroutineType
<1>4. r.op = "reauth" /\ r.seen = 0 /\ r.snap.cred = login
  BY <1>1, <1>2 DEF IdleWorker
<1>5. /\ worker[w].step = "idle" /\ Queue(w, r) /\ login # NoCred
      /\ \A v \in Workers : worker[v].op # "reauth"
      /\ UNCHANGED <<row, issuer, answered, flight, pending, recent, observing, login>>
  BY DEF BeginReauth
<1>6. flight # w
  BY <1>5, Basics, FlightLed DEF LeadingSteps
<1>. HIDE DEF r
<1>7. r.seen <= issuer'.seen /\ issuer'.seen >= issuer.seen
  BY <1>4, <1>5, Basics
<1>. QED
  BY <1>3, <1>4, <1>5, <1>6, <1>7, Basics, QueueKeeps

\* The greater of two numbers.
LEMMA MaxOfTwo ==
  ASSUME NEW a \in Nat, NEW b \in Nat
  PROVE  Max({a, b}) \in {a, b} /\ Max({a, b}) >= a /\ Max({a, b}) >= b
<1>1. \E x \in {a, b} : \A y \in {a, b} : x >= y
  <2>1. CASE a >= b
    BY <2>1
  <2>2. CASE b >= a
    BY <2>2
  <2>. QED
    BY <2>1, <2>2
<1>2. Max({a, b}) \in {a, b} /\ \A y \in {a, b} : Max({a, b}) >= y
  BY <1>1 DEF Max
<1>. QED
  BY <1>2

LEMMA ObserveKeeps ==
  ASSUME RefreshInv, NEW w \in Workers, NEW t \in 1..MaxSeen, Observe(w, t)
  PROVE  RefreshInv'
<1>. DEFINE r == [IdleWorker EXCEPT !.op = "observe", !.seen = t]
<1>0. t \in Nat
  BY RefreshBounds
<1>1. /\ worker[w].step = "idle" /\ UNCHANGED <<row, answered, flight, pending, recent, login>>
      /\ issuer' = [issuer EXCEPT !.seen = Max({@, t})]
      /\ observing \in [on : BOOLEAN, latest : Nat] /\ observing.latest <= issuer.seen
      /\ issuer \in IssuerType /\ issuer.seen \in Nat
  BY Basics DEF Observe
<1>2. Max({issuer.seen, t}) \in Nat /\ Max({issuer.seen, t}) >= issuer.seen /\ Max({issuer.seen, t}) >= t
  BY <1>0, <1>1, MaxOfTwo
<1>3. /\ issuer' \in IssuerType /\ issuer'.issued = issuer.issued /\ issuer'.spent = issuer.spent
      /\ issuer'.seen \in Nat /\ issuer'.seen >= issuer.seen /\ issuer'.seen >= t
  BY <1>1, <1>2 DEF IssuerType
<1>4. flight # w
  BY <1>1, Basics, FlightLed DEF LeadingSteps
<1>5. CASE observing.on
  <2>1. observing' = [observing EXCEPT !.latest = Max({@, t})] /\ UNCHANGED <<worker, mutex>>
    BY <1>5 DEF Observe
  <2>2. Max({observing.latest, t}) \in {observing.latest, t} /\ observing'.latest = Max({observing.latest, t})
    BY <1>0, <1>1, <2>1, MaxOfTwo
  <2>3. observing' \in [on : BOOLEAN, latest : Nat] /\ observing'.latest <= issuer'.seen
    BY <1>0, <1>1, <1>3, <2>1, <2>2
  <2>4. GoroutineType' = GoroutineType
    BY <1>3, TypesKept
  <2>5. Only(w) /\ worker'[w].step \notin WorkingSteps /\ worker'[w].op # "reauth"
    BY <1>1, <2>1, <2>4, Basics DEF Only, WorkingSteps, RefreshInv, LoginsFresh
  <2>6. LeaseCounted' /\ LeaseExclusive'
    BY <2>1, Basics, SameLease DEF Uses, Owning
  <2>7. CallsLed'
    BY <1>1, <2>1, Basics DEF CallsLed, Caller
  <2>8. worker'[w].seen <= issuer'.seen
    BY <1>1, <1>3, <2>1, Basics
  <2>. QED
    BY <1>1, <1>3, <2>1, <2>3, <2>5, <2>6, <2>7, <2>8, Basics, QuietStep
<1>6. CASE ~observing.on
  <2>1. observing' = [observing EXCEPT !.on = TRUE] /\ Queue(w, r)
    BY <1>6 DEF Observe
  <2>2. r \in GoroutineType
    BY <1>0, EmptyTypes DEF GoroutineType
  <2>3. r.op = "observe" /\ r.seen = t
    BY DEF IdleWorker
  <2>. HIDE DEF r
  <2>4. observing' \in [on : BOOLEAN, latest : Nat] /\ observing'.latest <= issuer'.seen
    <3>1. observing' = [observing EXCEPT !.on = TRUE] /\ observing \in [on : BOOLEAN, latest : Nat]
      BY <1>1, <2>1
    <3>2. observing' \in [on : BOOLEAN, latest : Nat] /\ observing'.latest = observing.latest
      BY <3>1
    <3>. QED
      BY <1>1, <1>3, <3>2
  <2>. QED
    BY <1>1, <1>3, <1>4, <2>1, <2>2, <2>3, <2>4, QueueKeeps
<1>. QED
  BY <1>5, <1>6

\* Closing a call: the leader goes on to erase it, its followers have their answer.
LEMMA CloseCallKeeps ==
  ASSUME RefreshInv, NEW w \in Workers, CloseCall(w)
  PROVE  RefreshInv'
<1>1. /\ worker[w].step = "closing" /\ worker \in [Workers -> GoroutineType] /\ GoroutineType' = GoroutineType
      /\ Stored' = Stored /\ SessionType' = SessionType
      /\ UNCHANGED <<row, issuer, answered, mutex, flight, pending, recent, observing, login>>
  BY Basics, TypesKept DEF CloseCall
<1>2. ASSUME NEW v \in Workers
      PROVE  /\ worker'[v] \in GoroutineType
             /\ worker'[v].op = worker[v].op /\ worker'[v].snap = worker[v].snap
             /\ worker'[v].seen = worker[v].seen /\ worker'[v].lock = worker[v].lock
             /\ worker'[v].call = worker[v].call
             /\ worker'[v].step = (IF v = w THEN "erasing" ELSE worker[v].step)
             /\ v # w => (worker'[v].done <=>
                             worker[v].done \/ (worker[v].step = "following" /\ worker[v].call = w))
  <2>1. worker[v] \in GoroutineType
    BY <1>1
  <2>2. CASE v = w
    <3>1. worker'[v] = [worker[v] EXCEPT !.step = "erasing"]
      BY <2>2 DEF CloseCall
    <3>. QED
      BY <2>1, <2>2, <3>1 DEF GoroutineType, Steps
  <2>3. CASE v # w
    <3>1. worker'[v] = [worker[v] EXCEPT !.done = worker[v].done \/ (worker[v].step = "following" /\ worker[v].call = w)]
      BY <2>3 DEF CloseCall
    <3>. QED
      BY <2>1, <2>3, <3>1 DEF GoroutineType
  <2>. QED
    BY <2>2, <2>3
<1>3. worker' \in [Workers -> GoroutineType']
  <2>1. worker' = [v \in Workers |-> worker'[v]]
    BY DEF CloseCall
  <2>. QED
    BY <1>1, <1>2, <2>1
<1>4. RefreshTypeOK'
  BY <1>1, <1>3 DEF RefreshInv, RefreshTypeOK, Present
<1>5. LeaseCounted' /\ LeaseExclusive'
  <2>1. \A v \in Workers : /\ Uses(v)' <=> Uses(v)
                           /\ Owning(v)' <=> Owning(v)
                           /\ Uses(v) => worker'[v].lock = worker[v].lock
    BY <1>1, <1>2 DEF Uses, Owning
  <2>. QED
    BY <1>1, <2>1, Basics, SameLease
<1>6. OwnersCurrent'
  BY <1>1, <1>2 DEF RefreshInv, OwnersCurrent, Usable, Present
<1>7. PendingSound' /\ AnswerKept'
  BY <1>1 DEF RefreshInv, PendingSound, AnswerKept
<1>8. LoginsFresh'
  BY <1>1, <1>2 DEF RefreshInv, LoginsFresh
<1>9. UsageSeen'
  BY <1>1, <1>2 DEF RefreshInv, UsageSeen
<1>10. CallsLed'
  <2>1. CallsLed
    BY Basics
  <2>2. ASSUME NEW v \in Workers
        PROVE  worker'[v].step \in {"validating", "joining", "following", "closing", "erasing"} => Caller(v)'
    BY <1>1, <1>2, <2>1 DEF CallsLed, Caller
  <2>3. ASSUME NEW v \in Workers, worker'[v].step = "following", ~worker'[v].done
        PROVE  /\ worker'[v].call \in Workers /\ Caller(worker[v].call)'
               /\ worker'[worker'[v].call].step \in LeadingSteps
    <3>1. v # w /\ worker[v].step = "following" /\ ~worker[v].done /\ worker[v].call # w
      BY <1>2, <2>3
    <3>2. /\ worker[v].call \in Workers /\ Caller(worker[v].call)
          /\ worker[worker[v].call].step \in LeadingSteps
      BY <2>1, <3>1 DEF CallsLed
    <3>. QED
      BY <1>2, <3>1, <3>2 DEF Caller
  <2>4. flight' # Nobody => Caller(flight)' /\ worker'[flight'].step \in LeadingSteps \cup {"erasing"}
    <3>1. flight # Nobody => /\ flight \in Workers /\ Caller(flight)
                             /\ worker[flight].step \in LeadingSteps \cup {"erasing"}
      BY <2>1, Basics DEF CallsLed
    <3>. QED
      BY <1>1, <1>2, <3>1 DEF Caller
  <2>. QED
    BY <2>2, <2>3, <2>4 DEF CallsLed
<1>. QED
  BY <1>4, <1>5, <1>6, <1>7, <1>8, <1>9, <1>10 DEF RefreshInv

\* Steps nobody takes for the session: time, and an import that lets go of a call.
LEMMA AmbientKeeps ==
  ASSUME RefreshInv, Invalidate \/ Age \/ PruneRecent
  PROVE  RefreshInv'
<1>1. /\ UNCHANGED <<row, answered, mutex, pending, observing, login, worker>>
      /\ recent' \in {recent, NoCred} /\ flight' \in {flight, Nobody}
      /\ issuer' = issuer \/ issuer' = [issuer EXCEPT !.aged = @ + 1]
  BY DEF Invalidate, Age, PruneRecent
<1>2. /\ issuer' \in IssuerType /\ issuer'.issued = issuer.issued /\ issuer'.spent = issuer.spent
      /\ issuer'.seen = issuer.seen
  <2>1. issuer \in IssuerType
    BY Basics
  <2>. QED
    BY <1>1, <2>1 DEF IssuerType
<1>3. Stored' = Stored /\ SessionType' = SessionType /\ GoroutineType' = GoroutineType
  BY <1>2, TypesKept
<1>4. RefreshTypeOK'
  BY <1>1, <1>2, <1>3, EmptyTypes DEF RefreshInv, RefreshTypeOK, Present, IssuerType
<1>5. LeaseCounted' /\ LeaseExclusive'
  BY <1>1, Basics, SameLease DEF Uses, Owning
<1>6. OwnersCurrent' /\ PendingSound' /\ AnswerKept'
  BY <1>1 DEF RefreshInv, OwnersCurrent, PendingSound, AnswerKept, Usable, Present
<1>7. LoginsFresh' /\ UsageSeen'
  BY <1>1, <1>2 DEF RefreshInv, LoginsFresh, UsageSeen
<1>8. CallsLed'
  BY <1>1 DEF RefreshInv, CallsLed, Caller
<1>. QED
  BY <1>4, <1>5, <1>6, <1>7, <1>8 DEF RefreshInv

-----------------------------------------------------------------------------
(* The steps of the owner of the lease.                                       *)

PendingType == [version : Nat, source : Stored, cred : Stored, usage : Nat]

\* The owner w goes on with the lease.
OwnerMoves(w) ==
  /\ Only(w) /\ Owning(w) /\ Owning(w)' /\ worker'[w].lock = worker[w].lock
  /\ worker'[w].op = (IF worker[w].op = "reauth" THEN "admin" ELSE worker[w].op)
  /\ worker'[w].seen \in {0, worker[w].seen}

\* What the owner's next step promises about the stored session.
Current(w) ==
  /\ worker[w].step \in WorkingSteps => Usable
  /\ worker[w].step \in {"exchanging", "committing"} => worker[w].snap = row
  /\ worker[w].step = "exchanging" => pending = NoPending
  /\ worker[w].step = "committing" => pending # NoPending /\ pending.source = row.cred

\* Whatever the owner does to the session, nobody else is at work on it.
LEMMA OwnerStep ==
  ASSUME RefreshInv, NEW w \in Workers, OwnerMoves(w), UNCHANGED <<mutex, flight, observing>>,
         issuer' \in IssuerType', issuer'.issued >= issuer.issued, issuer'.seen >= issuer.seen,
         row' \in SessionType', row' # NoRow <=> row'.cred # NoCred, row'.usage <= issuer'.seen,
         answered' \subseteq issuer'.spent, pending' \in PendingType', pending'.usage <= issuer'.seen,
         recent' \in Stored', login' \in {login, NoCred},
         Current(w)', PendingSound', AnswerKept',
         login' # NoCred => /\ login.tok \notin issuer'.spent /\ login.tok # row'.cred.tok
                            /\ pending' # NoPending => login.tok # pending'.cred.tok,
         login' = NoCred => \A v \in Workers \ {w} : worker[v].op # "reauth"
  PROVE  RefreshInv'
<1>. USE DEF OwnerMoves
<1>1. /\ LeaseCounted /\ LeaseExclusive /\ CallsLed /\ flight \in Workers \cup {Nobody}
      /\ observing \in [on : BOOLEAN, latest : Nat] /\ observing.latest <= issuer.seen
      /\ issuer.seen \in Nat /\ \A v \in Workers : worker[v].seen \in Nat /\ worker[v].seen <= issuer.seen
  BY Basics
<1>2. issuer.issued \in Nat /\ issuer'.issued \in Nat /\ issuer'.seen \in Nat
  BY Basics, RefreshBounds DEF IssuerType
<1>3. Stored \subseteq Stored' /\ SessionType \subseteq SessionType' /\ GoroutineType \subseteq GoroutineType'
  BY <1>2, TypesGrow
<1>4. RefreshTypeOK'
  BY <1>1, <1>3, Basics, EmptyTypes DEF RefreshTypeOK, Present, Only, PendingType, IssuerType, LockTable, RefreshInv
<1>5. LeaseCounted' /\ LeaseExclusive'
  BY <1>1, LeaseFrame DEF Uses
<1>6. \A v \in Workers \ {w} : ~Owning(v) /\ worker'[v] = worker[v]
  BY <1>1 DEF LeaseExclusive, Only
<1>7. OwnersCurrent'
  <2>1. ASSUME NEW v \in Workers \ {w}
        PROVE  worker'[v].step \notin WorkingSteps
    BY <1>6 DEF Owning, WorkingSteps
  <2>. QED
    BY <2>1 DEF OwnersCurrent, Current, WorkingSteps
<1>8. LoginsFresh'
  <2>1. LoginsFresh
    BY DEF RefreshInv
  <2>2. login' # NoCred => login' = login /\ login.login
    BY <2>1 DEF LoginsFresh
  <2>3. worker'[w].op # "reauth"
    OBVIOUS
  <2>4. \A v \in Workers : worker'[v].op = "reauth" => v # w /\ worker[v].op = "reauth" /\ login' = login
                                                        /\ worker'[v] = worker[v]
    BY <1>6, <2>3
  <2>. QED
    BY <2>1, <2>2, <2>4 DEF LoginsFresh
<1>9. UsageSeen'
  <2>1. \A v \in Workers : worker'[v].seen <= issuer'.seen
    BY <1>1, <1>2, <1>6
  <2>. QED
    BY <1>1, <1>2, <2>1 DEF UsageSeen
<1>10. CallsLed'
  <2>1. worker'[w].step \in LeadingSteps /\ worker[w].step \in LeadingSteps
    BY DEF Owning, LeadingSteps
  <2>2. worker'[w].step \notin {"validating", "joining", "following", "closing", "erasing"}
    BY DEF Owning
  <2>3. flight = w => Caller(w)
    BY <1>1, FlightLed
  <2>4. Caller(w) => Caller(w)'
    BY DEF Caller
  <2>. QED
    BY <1>1, <2>1, <2>2, <2>3, <2>4, CallsFrame
<1>. QED
  BY <1>4, <1>5, <1>7, <1>8, <1>9, <1>10 DEF RefreshInv

\* The owner's work ends.
LEMMA LeaveMoves ==
  ASSUME RefreshInv, NEW w \in Workers, Owning(w), issuer'.issued = issuer.issued,
         NEW failed \in BOOLEAN, Leave(w, failed)
  PROVE  OwnerMoves(w) /\ Current(w)'
<1>1. GoroutineType' = GoroutineType /\ worker \in [Workers -> GoroutineType]
  BY Basics, TypesKept
<1>2. /\ Only(w) /\ worker'[w].step = "releasing" /\ worker'[w].lock = worker[w].lock
      /\ worker'[w].op = (IF worker[w].op = "reauth" THEN "admin" ELSE worker[w].op)
      /\ worker'[w].seen = 0
  BY <1>1, LeaveFields
<1>3. Owning(w)'
  BY <1>2 DEF Owning
<1>. QED
  BY <1>2, <1>3 DEF OwnerMoves, Current, WorkingSteps

\* The owner goes on with the stored session r.
LEMMA ProceedMoves ==
  ASSUME RefreshInv, NEW w \in Workers, Owning(w), worker[w].op # "reauth",
         issuer'.issued = issuer.issued, NEW r \in SessionType, NEW force \in BOOLEAN, Proceed(w, r, force)
  PROVE  /\ OwnerMoves(w) /\ worker'[w].step \in {"releasing", "fetching", "exchanging"}
         /\ worker'[w].step = "exchanging" => worker'[w].snap = r
<1>1. GoroutineType' = GoroutineType /\ worker \in [Workers -> GoroutineType] /\ worker[w] \in GoroutineType
  BY Basics, TypesKept
<1>2. CASE Leave(w, FALSE)
  <2>1. Only(w) /\ worker'[w].step = "releasing"
    BY <1>1, <1>2, LeaveFields
  <2>. QED
    BY <1>2, <2>1, LeaveMoves
<1>3. ASSUME NEW next \in {"fetching", "exchanging"}, NEW q \in SessionType, next = "exchanging" => q = r,
             worker' = [worker EXCEPT ![w].step = next, ![w].snap = q, ![w].force = FALSE]
      PROVE  /\ OwnerMoves(w) /\ worker'[w].step \in {"releasing", "fetching", "exchanging"}
             /\ worker'[w].step = "exchanging" => worker'[w].snap = r
  <2>. DEFINE x == [worker[w] EXCEPT !.step = next, !.snap = q, !.force = FALSE]
  <2>1. worker' = [worker EXCEPT ![w] = x]
    BY <1>1, <1>3
  <2>2. x \in GoroutineType
    BY <1>1 DEF GoroutineType, Steps
  <2>3. x.step = next /\ x.snap = q /\ x.lock = worker[w].lock /\ x.op = worker[w].op /\ x.seen = worker[w].seen
    BY <1>1 DEF GoroutineType
  <2>. HIDE DEF x
  <2>4. Only(w) /\ worker'[w] = x
    BY <1>1, <2>1, <2>2, OneMoves
  <2>5. Owning(w)'
    BY <2>3, <2>4 DEF Owning
  <2>. QED
    BY <1>3, <2>3, <2>4, <2>5 DEF OwnerMoves
<1>. DEFINE n == IF worker[w].op = "admin" THEN "fetching"
                 ELSE IF ~force /\ ~Aged(r.cred) THEN "releasing" ELSE "exchanging"
            p == IF n = "fetching" THEN NoRow ELSE r
<1>4. n # "releasing" => worker' = [worker EXCEPT ![w].step = n, ![w].snap = p, ![w].force = FALSE]
  BY DEF Proceed
<1>5. n = "releasing" => Leave(w, FALSE)
  BY DEF Proceed
<1>6. n # "releasing" => n \in {"fetching", "exchanging"} /\ p \in SessionType /\ (n = "exchanging" => p = r)
  BY EmptyTypes
<1>. HIDE DEF n, p
<1>. QED
  BY <1>2, <1>3, <1>4, <1>5, <1>6

\* The types of what the owner reads.
LEMMA Typed ==
  ASSUME RefreshInv
  PROVE  /\ row \in SessionType /\ row.cred \in Stored /\ row.usage \in Nat /\ row.version \in Nat
         /\ (row # NoRow <=> row.cred # NoCred) /\ row.usage <= issuer.seen
         /\ pending \in PendingType /\ pending.cred \in Stored /\ pending.source \in Stored
         /\ pending.usage \in Nat /\ pending.usage <= issuer.seen
         /\ recent \in Stored /\ login \in Stored /\ answered \subseteq issuer.spent
         /\ issuer \in IssuerType /\ issuer.issued \in 1..MaxIssued /\ issuer.issued \in Nat
         /\ issuer.spent \subseteq 1..issuer.issued /\ issuer.seen \in Nat /\ issuer.aged \in Nat
BY RefreshBounds DEF RefreshInv, RefreshTypeOK, SessionType, PendingType, IssuerType, Present, UsageSeen

\* A write of the row advances its version.
LEMMA AdvancedFields ==
  ASSUME NEW q \in SessionType
  PROVE  /\ Advanced(q) \in SessionType /\ Advanced(q) # NoRow /\ Advanced(q).cred = q.cred
         /\ Advanced(q).status = q.status /\ Advanced(q).usage = q.usage
BY DEF Advanced, SessionType, NoRow

LEMMA StatusEdited ==
  ASSUME NEW q \in SessionType, NEW st \in {"none", "active", "reauth"}
  PROVE  /\ [q EXCEPT !.status = st] \in SessionType /\ [q EXCEPT !.status = st].cred = q.cred
         /\ [q EXCEPT !.status = st].usage = q.usage /\ [q EXCEPT !.status = st].status = st
BY DEF SessionType

LEMMA UsageEdited ==
  ASSUME NEW q \in SessionType, NEW u \in Nat
  PROVE  /\ [q EXCEPT !.usage = u] \in SessionType /\ [q EXCEPT !.usage = u].cred = q.cred
         /\ [q EXCEPT !.usage = u].usage = u /\ [q EXCEPT !.usage = u].status = q.status
BY DEF SessionType

\* The owner writes the row and keeps its credential.
LEMMA RowEdit ==
  ASSUME RefreshInv, NEW w \in Workers, OwnerMoves(w), Current(w)',
         UNCHANGED <<answered, mutex, flight, pending, recent, observing, login>>,
         issuer' \in IssuerType, issuer'.issued = issuer.issued, issuer'.spent = issuer.spent,
         issuer'.seen >= issuer.seen,
         row' \in SessionType, row'.cred = row.cred, row' # NoRow <=> row # NoRow, row'.usage <= issuer'.seen
  PROVE  RefreshInv'
<1>1. Stored' = Stored /\ SessionType' = SessionType /\ PendingType' = PendingType
  BY TypesKept DEF PendingType
<1>2. IssuerType' = IssuerType
  BY DEF IssuerType
<1>3. PendingSound' /\ AnswerKept'
  BY DEF RefreshInv, PendingSound, AnswerKept
<1>4. /\ login # NoCred => /\ login.tok \notin issuer.spent /\ login.tok # row.cred.tok
                           /\ pending # NoPending => login.tok # pending.cred.tok
      /\ login = NoCred => \A v \in Workers : worker[v].op # "reauth"
  BY DEF RefreshInv, LoginsFresh
<1>5. pending.usage <= issuer'.seen /\ issuer'.seen \in Nat
  BY Typed DEF IssuerType
<1>. QED
  BY <1>1, <1>2, <1>3, <1>4, <1>5, Typed, OwnerStep

LEMMA RefreshFailureKeeps ==
  ASSUME RefreshInv, NEW w \in Workers, RefreshFailure(w)
  PROVE  RefreshInv'
<1>1. Owning(w) /\ OwnerMoves(w) /\ Current(w)'
  BY LeaveMoves DEF RefreshFailure, Owning
<1>2. row # NoRow
  BY DEF RefreshFailure, RefreshInv, OwnersCurrent, Usable, Present
<1>3. row' \in SessionType /\ row'.cred = row.cred /\ row' # NoRow /\ row'.usage <= issuer.seen
  <2>1. CASE row' = row
    BY <1>2, <2>1, Typed
  <2>2. CASE row' = Advanced([row EXCEPT !.status = IF worker[w].failed THEN "reauth" ELSE @])
    <3>1. (IF worker[w].failed THEN "reauth" ELSE row.status) \in {"none", "active", "reauth"}
      BY Typed DEF SessionType
    <3>2. row' = Advanced([row EXCEPT !.status = IF worker[w].failed THEN "reauth" ELSE row.status])
      BY <2>2
    <3>. DEFINE q == [row EXCEPT !.status = IF worker[w].failed THEN "reauth" ELSE row.status]
    <3>3. q \in SessionType /\ q.cred = row.cred /\ q.usage = row.usage
      BY <3>1, Typed, StatusEdited
    <3>4. row' = Advanced(q)
      BY <3>2
    <3>. HIDE DEF q
    <3>. QED
      BY <3>3, <3>4, Typed, AdvancedFields
  <2>. QED
    BY <2>1, <2>2 DEF RefreshFailure
<1>. QED
  BY <1>1, <1>2, <1>3, Typed, RowEdit DEF RefreshFailure

LEMMA RenameKeeps ==
  ASSUME RefreshInv, NEW w \in Workers, Rename(w)
  PROVE  RefreshInv'
<1>1. Owning(w) /\ OwnerMoves(w) /\ Current(w)'
  BY LeaveMoves DEF Rename, Owning
<1>2. row' \in SessionType /\ row'.cred = row.cred /\ (row' # NoRow <=> row # NoRow) /\ row'.usage <= issuer.seen
  <2>1. CASE row' = row
    BY <2>1, Typed
  <2>2. CASE row # NoRow /\ row' = Advanced(row)
    BY <2>2, Typed DEF Advanced, SessionType, NoRow
  <2>. QED
    BY <2>1, <2>2 DEF Rename, Present
<1>. QED
  BY <1>1, <1>2, Typed, RowEdit DEF Rename

LEMMA MergeUsageKeeps ==
  ASSUME RefreshInv, NEW w \in Workers, MergeUsage(w)
  PROVE  RefreshInv'
<1>1. Owning(w) /\ OwnerMoves(w) /\ Current(w)'
  BY LeaveMoves DEF MergeUsage, Owning
<1>2. row' \in SessionType /\ row'.cred = row.cred /\ (row' # NoRow <=> row # NoRow) /\ row'.usage <= issuer.seen
  <2>1. CASE row' = row
    BY <2>1, Typed
  <2>2. CASE row # NoRow /\ row' = Advanced([row EXCEPT !.usage = worker[w].seen])
    <3>1. worker[w].seen \in Nat /\ worker[w].seen <= issuer.seen
      BY Basics
    <3>. DEFINE q == [row EXCEPT !.usage = worker[w].seen]
    <3>2. q \in SessionType /\ q.cred = row.cred /\ q.usage = worker[w].seen
      BY <3>1, Typed, UsageEdited
    <3>3. row # NoRow /\ row' = Advanced(q)
      BY <2>2
    <3>. HIDE DEF q
    <3>. QED
      BY <3>1, <3>2, <3>3, AdvancedFields
  <2>. QED
    BY <2>1, <2>2 DEF MergeUsage, Present
<1>. QED
  BY <1>1, <1>2, Typed, RowEdit DEF MergeUsage

LEMMA FetchUsageKeeps ==
  ASSUME RefreshInv, NEW w \in Workers, FetchUsage(w)
  PROVE  RefreshInv'
<1>1. /\ issuer' \in IssuerType /\ issuer'.issued = issuer.issued /\ issuer'.spent = issuer.spent
      /\ issuer'.seen >= issuer.seen
  <2>1. issuer' = issuer \/ issuer' = [issuer EXCEPT !.seen = @ + 1]
    BY DEF FetchUsage
  <2>. QED
    BY <2>1, Typed DEF IssuerType
<1>2. Owning(w) /\ OwnerMoves(w) /\ Current(w)'
  BY <1>1, LeaveMoves DEF FetchUsage, Owning
<1>3. row # NoRow
  BY DEF FetchUsage, RefreshInv, OwnersCurrent, Usable, Present
<1>4. row' \in SessionType /\ row'.cred = row.cred /\ row' # NoRow /\ row'.usage <= issuer'.seen
  <2>1. CASE row' = row /\ issuer' = issuer
    BY <1>3, <2>1, Typed
  <2>2. CASE row' = Advanced([row EXCEPT !.status = "reauth"]) /\ issuer' = issuer
    BY <2>2, Typed, AdvancedFields, StatusEdited
  <2>3. CASE /\ issuer' = [issuer EXCEPT !.seen = @ + 1]
             /\ row' = Advanced([row EXCEPT !.status = "active", !.usage = issuer.seen + 1])
    <3>1. issuer'.seen = issuer.seen + 1
      BY <2>3, Typed DEF IssuerType
    <3>. DEFINE q == [row EXCEPT !.status = "active"]
    <3>2. q \in SessionType /\ q.cred = row.cred
      BY Typed, StatusEdited
    <3>3. row' = Advanced([q EXCEPT !.usage = issuer.seen + 1])
      BY <2>3
    <3>. HIDE DEF q
    <3>. DEFINE p == [q EXCEPT !.usage = issuer.seen + 1]
    <3>4. issuer.seen + 1 \in Nat
      BY Typed
    <3>5. p \in SessionType /\ p.cred = row.cred /\ p.usage = issuer.seen + 1
      BY <3>2, <3>4, UsageEdited
    <3>6. row' = Advanced(p)
      BY <3>3
    <3>. HIDE DEF p
    <3>. QED
      BY <3>1, <3>4, <3>5, <3>6, AdvancedFields
  <2>. QED
    BY <2>1, <2>2, <2>3 DEF FetchUsage
<1>. QED
  BY <1>1, <1>2, <1>3, <1>4, RowEdit DEF FetchUsage

\* The tokens of what is stored were issued.
LEMMA CredFields ==
  ASSUME issuer.issued \in Nat, NEW c \in Stored
  PROVE  /\ c.tok \in 0..issuer.issued /\ c.id \in 0..issuer.issued /\ c.login \in BOOLEAN
         /\ c # NoCred => c \in IssuedBy(issuer.issued) /\ c.tok \in 1..issuer.issued /\ c.id \in 1..issuer.issued
<1>1. CASE c = NoCred
  BY <1>1 DEF NoCred
<1>2. CASE c \in IssuedBy(issuer.issued)
  BY <1>2 DEF IssuedBy
<1>. QED
  BY <1>1, <1>2 DEF Stored

\* What the invariant says of the credentials in play.
LEMMA Credentials ==
  ASSUME RefreshInv
  PROVE  /\ login # NoCred => /\ login.login /\ login.tok \notin issuer.spent /\ login.tok # row.cred.tok
                              /\ pending # NoPending => login.tok # pending.cred.tok
         /\ login = NoCred => \A v \in Workers : worker[v].op # "reauth"
         /\ pending # NoPending => /\ pending.cred # NoCred /\ pending.source # NoCred
                                   /\ pending.cred.from = pending.source.id /\ ~pending.cred.login
                                   /\ pending.cred.tok \notin answered
         /\ row.cred.tok \in answered => pending # NoPending /\ pending.source = row.cred
         /\ NoPending \in PendingType /\ NoPending.usage = 0
<1>1. NoPending \in PendingType /\ NoPending.usage = 0
  BY EmptyTypes DEF PendingType, NoPending
<1>. QED
  BY <1>1 DEF RefreshInv, LoginsFresh, PendingSound, AnswerKept

LEMMA ReloadKeeps ==
  ASSUME RefreshInv, NEW w \in Workers, Reload(w)
  PROVE  RefreshInv'
<1>1. /\ Owning(w) /\ worker[w].op # "reauth" /\ worker[w].step = "owning"
      /\ UNCHANGED <<row, issuer, answered, mutex, flight, observing, login>>
  BY DEF Reload, Owning
<1>2. /\ Stored' = Stored /\ SessionType' = SessionType /\ PendingType' = PendingType
      /\ GoroutineType' = GoroutineType /\ IssuerType' = IssuerType
  BY <1>1, TypesKept DEF PendingType, IssuerType
<1>3. ASSUME OwnerMoves(w), Current(w)', UNCHANGED <<pending, recent>>
      PROVE  RefreshInv'
  BY <1>1, <1>3, Typed, RowEdit
<1>4. CASE Leave(w, TRUE) /\ UNCHANGED <<pending, recent>>
  BY <1>1, <1>3, <1>4, LeaveMoves
<1>5. CASE Usable /\ pending = NoPending /\ Proceed(w, row, worker[w].force) /\ UNCHANGED <<pending, recent>>
  <2>1. worker[w].force \in BOOLEAN
    BY Basics DEF GoroutineType
  <2>2. /\ OwnerMoves(w) /\ worker'[w].step \in {"releasing", "fetching", "exchanging"}
        /\ worker'[w].step = "exchanging" => worker'[w].snap = row
    BY <1>1, <1>5, <2>1, Typed, ProceedMoves
  <2>3. Current(w)'
    BY <1>1, <1>5, <2>2 DEF Current, Usable, Present, WorkingSteps
  <2>. QED
    BY <1>3, <1>5, <2>2, <2>3
<1>6. CASE Usable /\ ~SourceStored(pending) /\ pending' = NoPending /\ recent' = NoCred /\ Proceed(w, row, FALSE)
  <2>1. /\ OwnerMoves(w) /\ worker'[w].step \in {"releasing", "fetching", "exchanging"}
        /\ worker'[w].step = "exchanging" => worker'[w].snap = row
    BY <1>1, <1>6, Typed, ProceedMoves
  <2>2. Current(w)'
    BY <1>1, <1>6, <2>1 DEF Current, Usable, Present, WorkingSteps
  <2>3. PendingSound' /\ AnswerKept'
    BY <1>1, <1>6, Credentials DEF PendingSound, AnswerKept, SourceStored
  <2>4. pending' \in PendingType' /\ pending'.usage <= issuer'.seen /\ recent' \in Stored'
    BY <1>1, <1>2, <1>6, Typed, Credentials, EmptyTypes
  <2>. QED
    BY <1>1, <1>2, <1>6, <2>1, <2>2, <2>3, <2>4, Typed, Credentials, OwnerStep
<1>7. CASE /\ Usable /\ pending # NoPending /\ SourceStored(pending) /\ UNCHANGED <<pending, recent>>
           /\ worker' = [worker EXCEPT ![w].step = "committing", ![w].snap = row,
                                       ![w].direct = FALSE, ![w].force = FALSE]
  <2>. DEFINE x == [worker[w] EXCEPT !.step = "committing", !.snap = row, !.direct = FALSE, !.force = FALSE]
  <2>1. worker[w] \in GoroutineType /\ worker \in [Workers -> GoroutineType] /\ row \in SessionType
    BY Basics, Typed
  <2>2. worker' = [worker EXCEPT ![w] = x]
    BY <1>7, <2>1
  <2>3. x \in GoroutineType
    BY <2>1 DEF GoroutineType, Steps
  <2>4. x.step = "committing" /\ x.snap = row /\ x.lock = worker[w].lock /\ x.op = worker[w].op
        /\ x.seen = worker[w].seen
    BY <2>1 DEF GoroutineType
  <2>. HIDE DEF x
  <2>5. Only(w) /\ worker'[w] = x
    BY <1>2, <2>1, <2>2, <2>3, OneMoves
  <2>6. OwnerMoves(w)
    BY <1>1, <2>4, <2>5 DEF OwnerMoves, Owning
  <2>7. Current(w)'
    BY <1>1, <1>7, <2>4, <2>5 DEF Current, Usable, Present, WorkingSteps, SourceStored
  <2>. QED
    BY <1>3, <1>7, <2>6, <2>7
<1>. QED
  BY <1>4, <1>5, <1>6, <1>7 DEF Reload

\* The row a commit writes.
LEMMA CommittedFields ==
  ASSUME RefreshInv, NEW w \in Workers, worker[w].step = "committing"
  PROVE  /\ Usable /\ worker[w].snap = row /\ pending # NoPending /\ pending.source = row.cred
         /\ CommittedRow(worker[w].snap, pending) \in SessionType
         /\ CommittedRow(worker[w].snap, pending) # NoRow
         /\ CommittedRow(worker[w].snap, pending).cred = pending.cred
         /\ CommittedRow(worker[w].snap, pending).status = "active"
         /\ CommittedRow(worker[w].snap, pending).usage <= issuer.seen
         /\ CommittedRow(worker[w].snap, pending).usage >= row.usage
<1>1. Usable /\ worker[w].snap = row /\ pending # NoPending /\ pending.source = row.cred
  BY DEF RefreshInv, OwnersCurrent
<1>2. /\ CommittedUsage(row.usage, pending.usage) \in Nat
      /\ CommittedUsage(row.usage, pending.usage) <= issuer.seen
      /\ CommittedUsage(row.usage, pending.usage) >= row.usage
  BY Typed DEF CommittedUsage
<1>3. row.version + 1 \in Nat /\ row.version + 1 # 0
  BY Typed
<1>. QED
  BY <1>1, <1>2, <1>3, Typed DEF CommittedRow, SessionType, NoRow

LEMMA CommitKeeps ==
  ASSUME RefreshInv, NEW w \in Workers, Commit(w)
  PROVE  RefreshInv'
<1>. DEFINE r == CommittedRow(worker[w].snap, pending)
<1>1. /\ worker[w].step = "committing" /\ Owning(w) /\ row' = r /\ recent' = pending.cred /\ pending' = NoPending
      /\ UNCHANGED <<issuer, answered, mutex, flight, observing, login>>
      /\ IF worker[w].direct THEN Leave(w, FALSE) ELSE Proceed(w, r, FALSE)
  BY DEF Commit, Owning
<1>2. /\ r \in SessionType /\ r # NoRow /\ r.cred = pending.cred /\ r.status = "active"
      /\ r.usage <= issuer.seen /\ pending # NoPending
  BY <1>1, CommittedFields
<1>. HIDE DEF r
<1>3. /\ Stored' = Stored /\ SessionType' = SessionType /\ PendingType' = PendingType /\ IssuerType' = IssuerType
  BY <1>1, TypesKept DEF PendingType, IssuerType
<1>4. OwnerMoves(w) /\ Current(w)'
  <2>1. CASE Leave(w, FALSE)
    BY <1>1, <2>1, LeaveMoves
  <2>2. CASE Proceed(w, r, FALSE)
    <3>1. worker[w].op # "reauth"
      BY <1>1 DEF RefreshInv, LoginsFresh
    <3>2. /\ OwnerMoves(w) /\ worker'[w].step \in {"releasing", "fetching", "exchanging"}
          /\ worker'[w].step = "exchanging" => worker'[w].snap = r
      BY <1>1, <1>2, <2>2, <3>1, ProceedMoves
    <3>. QED
      BY <1>1, <1>2, <3>2 DEF Current, Usable, Present, WorkingSteps
  <2>. QED
    BY <1>1, <2>1, <2>2
<1>5. PendingSound' /\ AnswerKept'
  BY <1>1, <1>2, Credentials DEF PendingSound, AnswerKept
<1>6. /\ pending' \in PendingType' /\ pending'.usage <= issuer'.seen /\ recent' \in Stored'
      /\ row' \in SessionType' /\ row'.usage <= issuer'.seen
      /\ (row' # NoRow <=> row'.cred # NoCred)
  BY <1>1, <1>2, <1>3, Typed, Credentials
<1>7. login' # NoCred => /\ login.tok \notin issuer'.spent /\ login.tok # row'.cred.tok
                         /\ pending' # NoPending => login.tok # pending'.cred.tok
  BY <1>1, <1>2, Credentials
<1>. QED
  BY <1>1, <1>3, <1>4, <1>5, <1>6, <1>7, Typed, Credentials, OwnerStep

LEMMA CommitErrorKeeps ==
  ASSUME RefreshInv, NEW w \in Workers, CommitError(w)
  PROVE  RefreshInv'
<1>. DEFINE r == CommittedRow(worker[w].snap, pending)
<1>1. /\ worker[w].step = "committing" /\ Owning(w) /\ row' \in {row, r} /\ Leave(w, TRUE)
      /\ UNCHANGED <<issuer, answered, mutex, flight, pending, recent, observing, login>>
  BY DEF CommitError, Owning
<1>2. /\ r \in SessionType /\ r # NoRow /\ r.cred = pending.cred
      /\ r.usage <= issuer.seen /\ pending # NoPending
  BY <1>1, CommittedFields
<1>. HIDE DEF r
<1>3. /\ Stored' = Stored /\ SessionType' = SessionType /\ PendingType' = PendingType /\ IssuerType' = IssuerType
  BY <1>1, TypesKept DEF PendingType, IssuerType
<1>4. OwnerMoves(w) /\ Current(w)'
  BY <1>1, LeaveMoves
<1>5. PendingSound' /\ AnswerKept'
  BY <1>1, <1>2, Credentials DEF PendingSound, AnswerKept
<1>6. /\ row' \in SessionType' /\ row'.usage <= issuer'.seen /\ (row' # NoRow <=> row'.cred # NoCred)
  BY <1>1, <1>2, <1>3, Typed, Credentials
<1>7. login' # NoCred => /\ login.tok \notin issuer'.spent /\ login.tok # row'.cred.tok
                         /\ pending' # NoPending => login.tok # pending'.cred.tok
  BY <1>1, <1>2, Credentials
<1>. QED
  BY <1>1, <1>3, <1>4, <1>5, <1>6, <1>7, Typed, Credentials, OwnerStep

LEMMA DeleteSessionKeeps ==
  ASSUME RefreshInv, NEW w \in Workers, DeleteSession(w)
  PROVE  RefreshInv'
<1>1. /\ Owning(w) /\ row' \in {row, NoRow} /\ Leave(w, FALSE)
      /\ UNCHANGED <<issuer, answered, mutex, flight, pending, recent, observing, login>>
  BY DEF DeleteSession, Owning
<1>2. /\ Stored' = Stored /\ SessionType' = SessionType /\ PendingType' = PendingType /\ IssuerType' = IssuerType
  BY <1>1, TypesKept DEF PendingType, IssuerType
<1>3. OwnerMoves(w) /\ Current(w)'
  BY <1>1, LeaveMoves
<1>4. NoRow.cred = NoCred /\ NoRow.usage = 0 /\ NoCred.tok = 0
  BY DEF NoRow, NoCred
<1>5. NoRow.cred.tok \notin answered
  BY <1>4, Typed
<1>6. PendingSound' /\ AnswerKept'
  BY <1>1, <1>5, Credentials DEF PendingSound, AnswerKept
<1>7. row' \in SessionType' /\ row'.usage <= issuer'.seen /\ (row' # NoRow <=> row'.cred # NoCred)
  BY <1>1, <1>2, <1>4, Typed, EmptyTypes
<1>8. login' # NoCred => /\ login.tok \notin issuer'.spent /\ login.tok # row'.cred.tok
                         /\ pending' # NoPending => login.tok # pending'.cred.tok
  <2>1. login # NoCred => login.tok \in 1..issuer.issued
    BY Typed, CredFields
  <2>2. login # NoCred => login.tok # NoRow.cred.tok
    BY <1>4, <2>1, Typed
  <2>. QED
    BY <1>1, <2>2, Credentials
<1>. QED
  BY <1>1, <1>2, <1>3, <1>6, <1>7, <1>8, Typed, Credentials, OwnerStep

\* The row a login writes.
LEMMA LoginRow ==
  ASSUME RefreshInv, login # NoCred, NEW n \in Nat, NEW u \in 0..issuer.seen
  PROVE  /\ [version |-> n + 1, cred |-> login, status |-> "active", usage |-> u] \in SessionType
         /\ [version |-> n + 1, cred |-> login, status |-> "active", usage |-> u] # NoRow
<1>1. u \in Nat /\ n + 1 \in Nat /\ n + 1 # 0
  BY Typed
<1>. QED
  BY <1>1, Typed DEF SessionType, NoRow

LEMMA ApplyLoginKeeps ==
  ASSUME RefreshInv, NEW w \in Workers, ApplyLogin(w)
  PROVE  RefreshInv'
<1>1. /\ Owning(w) /\ worker[w].op = "reauth" /\ Leave(w, FALSE)
      /\ UNCHANGED <<issuer, answered, mutex, flight, pending, recent, observing>>
  BY DEF ApplyLogin, Owning
<1>2. /\ Stored' = Stored /\ SessionType' = SessionType /\ PendingType' = PendingType /\ IssuerType' = IssuerType
  BY <1>1, TypesKept DEF PendingType, IssuerType
<1>3. OwnerMoves(w) /\ Current(w)'
  BY <1>1, LeaveMoves
<1>4. /\ login # NoCred /\ worker[w].snap.cred = login
      /\ \A v \in Workers \ {w} : worker[v].op # "reauth"
  BY <1>1 DEF RefreshInv, LoginsFresh
<1>5. CASE UNCHANGED <<row, login>>
  BY <1>1, <1>3, <1>5, Typed, RowEdit
<1>6. CASE /\ \E u \in 0..issuer.seen :
                row' = [version |-> row.version + 1, cred |-> login, status |-> "active", usage |-> u]
           /\ login' = NoCred
  <2>1. PICK u \in 0..issuer.seen :
             row' = [version |-> row.version + 1, cred |-> login, status |-> "active", usage |-> u]
    BY <1>6
  <2>2. row' \in SessionType /\ row' # NoRow /\ row'.cred = login /\ row'.usage <= issuer.seen
    BY <1>4, <2>1, Typed, LoginRow
  <2>3. PendingSound' /\ AnswerKept'
    BY <1>1, <1>4, <2>2, Typed, Credentials DEF PendingSound, AnswerKept
  <2>. QED
    BY <1>1, <1>2, <1>3, <1>4, <1>6, <2>2, <2>3, Typed, OwnerStep
<1>. QED
  BY <1>4, <1>5, <1>6 DEF ApplyLogin

LEMMA ExchangeKeeps ==
  ASSUME RefreshInv, NEW w \in Workers, Exchange(w)
  PROVE  RefreshInv'
<1>. DEFINE old == worker[w].snap.cred
            n == issuer.issued + 1
<1>1. /\ Owning(w) /\ worker[w].step = "exchanging" /\ worker[w].op # "reauth" /\ Usable
      /\ worker[w].snap = row /\ old = row.cred /\ pending = NoPending /\ row # NoRow
      /\ worker \in [Workers -> GoroutineType] /\ worker[w] \in GoroutineType
      /\ UNCHANGED <<row, mutex, flight, recent, observing, login>>
  BY Basics DEF Exchange, Owning, RefreshInv, OwnersCurrent, LoginsFresh, Usable, Present
<1>2. old \in Stored /\ old # NoCred /\ old.tok \in 1..issuer.issued /\ old.id \in 1..issuer.issued
  BY <1>1, Typed, CredFields
<1>3. ASSUME issuer' \in IssuerType, issuer'.issued = issuer.issued, issuer'.seen = issuer.seen,
             issuer'.spent \in {issuer.spent, issuer.spent \cup {old.tok}},
             UNCHANGED <<answered, pending>>, NEW terminal \in BOOLEAN,
             worker' = [worker EXCEPT ![w].step = "failing", ![w].snap = NoRow, ![w].failed = terminal]
      PROVE  RefreshInv'
  <2>. DEFINE x == [worker[w] EXCEPT !.step = "failing", !.snap = NoRow, !.failed = terminal]
  <2>1. /\ GoroutineType' = GoroutineType /\ Stored' = Stored /\ SessionType' = SessionType
        /\ PendingType' = PendingType
    BY <1>3, TypesKept DEF PendingType
  <2>2. worker' = [worker EXCEPT ![w] = x]
    BY <1>1, <1>3
  <2>3. x \in GoroutineType
    <3>1. NoRow \in SessionType
      BY EmptyTypes
    <3>. QED
      BY <1>1, <3>1 DEF GoroutineType, Steps
  <2>4. x.step = "failing" /\ x.lock = worker[w].lock /\ x.op = worker[w].op /\ x.seen = worker[w].seen
    BY <1>1 DEF GoroutineType
  <2>. HIDE DEF x
  <2>5. Only(w) /\ worker'[w] = x
    BY <1>1, <2>1, <2>2, <2>3, OneMoves
  <2>6. OwnerMoves(w) /\ Current(w)'
    BY <1>1, <2>4, <2>5 DEF OwnerMoves, Owning, Current, Usable, Present, WorkingSteps
  <2>7. PendingSound' /\ AnswerKept'
    BY <1>1, <1>3, Credentials DEF PendingSound, AnswerKept
  <2>8. issuer' \in IssuerType' /\ answered' \subseteq issuer'.spent
    BY <1>3, Typed DEF IssuerType
  <2>9. login # NoCred => login.tok \notin issuer'.spent
    BY <1>1, <1>3, Credentials
  <2>. QED
    BY <1>1, <1>3, <2>1, <2>6, <2>7, <2>8, <2>9, Typed, Credentials, OwnerStep
<1>4. ASSUME old.tok \notin issuer.spent, issuer.issued < MaxIssued, NEW rotated \in BOOLEAN, NEW c, NEW spent,
             spent = (IF rotated THEN {old.tok} ELSE {}),
             c = [id |-> n, tok |-> IF rotated THEN n ELSE old.tok, from |-> old.id, login |-> FALSE],
             issuer' = [issuer EXCEPT !.issued = n, !.spent = @ \cup spent],
             answered' = answered \cup spent,
             pending' = [version |-> worker[w].snap.version, source |-> old, cred |-> c,
                         usage |-> worker[w].snap.usage],
             worker' = [worker EXCEPT ![w].step = "committing", ![w].direct = TRUE]
      PROVE  RefreshInv'
  <2>. DEFINE x == [worker[w] EXCEPT !.step = "committing", !.direct = TRUE]
  <2>1. /\ n \in Nat /\ n \in 1..MaxIssued /\ issuer'.issued = n /\ issuer'.spent = issuer.spent \cup spent
        /\ issuer'.seen = issuer.seen /\ issuer'.issued >= issuer.issued /\ issuer'.issued \in Nat
    <3>1. issuer.issued \in 1..MaxIssued /\ MaxIssued \in Nat
      BY Typed, RefreshBounds DEF IssuerType
    <3>2. n \in Nat /\ n \in 1..MaxIssued /\ n >= issuer.issued
      BY <1>4, <3>1
    <3>3. issuer \in IssuerType /\ issuer' = [issuer EXCEPT !.issued = n, !.spent = @ \cup spent]
      BY <1>4, Typed
    <3>. HIDE DEF n
    <3>4. issuer'.issued = n /\ issuer'.spent = issuer.spent \cup spent /\ issuer'.seen = issuer.seen
      BY <3>3 DEF IssuerType
    <3>. QED
      BY <3>2, <3>4
  <2>2. issuer' \in IssuerType'
    <3>1. issuer.spent \cup spent \subseteq 1..n
      BY <1>2, <1>4, Typed
    <3>. QED
      BY <1>4, <2>1, <3>1, Typed DEF IssuerType
  <2>3. /\ Stored \subseteq Stored' /\ SessionType \subseteq SessionType' /\ GoroutineType \subseteq GoroutineType'
    BY <2>1, Typed, TypesGrow
  <2>4. /\ c \in Stored' /\ c # NoCred /\ c.from = old.id /\ ~c.login
        /\ c.tok = (IF rotated THEN n ELSE old.tok)
    <3>1. c \in IssuedBy(n)
      BY <1>2, <1>4, <2>1, Typed DEF IssuedBy
    <3>. QED
      BY <1>4, <2>1, <3>1, Typed DEF Stored, NoCred
  <2>5. worker' = [worker EXCEPT ![w] = x]
    BY <1>1, <1>4
  <2>6. x \in GoroutineType
    BY <1>1 DEF GoroutineType, Steps
  <2>7. /\ x.step = "committing" /\ x.lock = worker[w].lock /\ x.op = worker[w].op /\ x.seen = worker[w].seen
        /\ x.snap = worker[w].snap
    BY <1>1 DEF GoroutineType
  <2>. HIDE DEF x
  <2>8. Only(w) /\ worker'[w] = x
    BY <1>1, <2>3, <2>5, <2>6, OneMoves
  <2>9. /\ pending' \in PendingType' /\ pending'.usage = row.usage /\ pending' # NoPending
        /\ pending'.source = row.cred /\ pending'.cred = c
    <3>1. /\ pending'.source = old /\ pending'.cred = c /\ pending'.usage = row.usage
          /\ pending' = [version |-> row.version, source |-> old, cred |-> c, usage |-> row.usage]
      BY <1>1, <1>4
    <3>2. old \in Stored'
      BY <1>2, <2>3
    <3>3. pending' # NoPending
      BY <1>2, <3>1 DEF NoPending
    <3>. QED
      BY <1>1, <2>4, <3>1, <3>2, <3>3, Typed DEF PendingType
  <2>10. OwnerMoves(w) /\ Current(w)'
    BY <1>1, <2>7, <2>8, <2>9 DEF OwnerMoves, Owning, Current, Usable, Present, WorkingSteps
  <2>11. c.tok \notin answered'
    BY <1>2, <1>4, <2>1, <2>4, Typed
  <2>12. PendingSound' /\ AnswerKept'
    BY <1>1, <1>2, <2>4, <2>9, <2>11 DEF PendingSound, AnswerKept
  <2>13. answered' \subseteq issuer'.spent
    BY <1>4, <2>1, Typed
  <2>14. login # NoCred => /\ login.tok \notin issuer'.spent /\ login.tok # row'.cred.tok
                           /\ login.tok # pending'.cred.tok
    <3>1. login # NoCred => login.tok \in 1..issuer.issued
      BY Typed, CredFields
    <3>. QED
      BY <1>1, <1>4, <2>1, <2>4, <2>9, <3>1, Typed, Credentials
  <2>15. row' \in SessionType' /\ recent' \in Stored'
    BY <1>1, <2>3, Typed
  <2>. QED
    BY <1>1, <2>1, <2>2, <2>9, <2>10, <2>12, <2>13, <2>14, <2>15, Typed, Credentials, OwnerStep
<1>5. CASE /\ old.tok \notin issuer.spent /\ issuer.issued < MaxIssued
           /\ \E rotated \in BOOLEAN :
                LET spent == IF rotated THEN {old.tok} ELSE {}
                    c == [id |-> n, tok |-> IF rotated THEN n ELSE old.tok, from |-> old.id, login |-> FALSE]
                IN  /\ issuer' = [issuer EXCEPT !.issued = n, !.spent = @ \cup spent]
                    /\ answered' = answered \cup spent
                    /\ pending' = [version |-> worker[w].snap.version, source |-> old,
                                   cred |-> c, usage |-> worker[w].snap.usage]
           /\ worker' = [worker EXCEPT ![w].step = "committing", ![w].direct = TRUE]
  BY <1>4, <1>5
<1>6. CASE /\ issuer' = [issuer EXCEPT !.spent = @ \cup {old.tok}] /\ UNCHANGED <<answered, pending>>
           /\ worker' = [worker EXCEPT ![w].step = "failing", ![w].snap = NoRow, ![w].failed = FALSE]
  <2>1. /\ issuer' \in IssuerType /\ issuer'.issued = issuer.issued /\ issuer'.seen = issuer.seen
        /\ issuer'.spent = issuer.spent \cup {old.tok}
    BY <1>2, <1>6, Typed DEF IssuerType
  <2>. QED
    BY <1>3, <1>6, <2>1
<1>7. CASE /\ \E terminal \in BOOLEAN :
                worker' = [worker EXCEPT ![w].step = "failing", ![w].snap = NoRow, ![w].failed = terminal]
           /\ UNCHANGED <<issuer, answered, pending>>
  BY <1>3, <1>7, Typed
<1>. QED
  BY <1>5, <1>6, <1>7 DEF Exchange

-----------------------------------------------------------------------------
(* The steps of the administration, and the restart.                          *)

\* The session and the calls, when no goroutine moves and the lock stays.
LEMMA NobodyMoves ==
  ASSUME RefreshInv, UNCHANGED <<mutex, flight, worker>>
  PROVE  LeaseCounted' /\ LeaseExclusive' /\ CallsLed'
<1>1. LeaseCounted' /\ LeaseExclusive'
  BY Basics, SameLease DEF Uses, Owning
<1>2. CallsLed'
  BY DEF RefreshInv, CallsLed, Caller
<1>. QED
  BY <1>1, <1>2

LEMMA CompleteLoginKeeps ==
  ASSUME RefreshInv, CompleteLogin
  PROVE  RefreshInv'
<1>. DEFINE n == issuer.issued + 1
<1>1. /\ UNCHANGED <<row, answered, mutex, flight, pending, recent, observing, worker>>
      /\ login = NoCred /\ issuer.issued < MaxIssued /\ login' = LoginCred(n)
      /\ issuer' = [issuer EXCEPT !.issued = n]
  BY DEF CompleteLogin
<1>2. n \in Nat /\ n \in 1..MaxIssued /\ n > issuer.issued /\ issuer.issued \in Nat
  <2>1. issuer.issued \in 1..MaxIssued /\ MaxIssued \in Nat
    BY Typed, RefreshBounds
  <2>. QED
    BY <1>1, <2>1
<1>3. LoginCred(n) \in IssuedBy(n) /\ LoginCred(n).tok = n /\ LoginCred(n).login
  BY <1>2 DEF LoginCred, IssuedBy
<1>. HIDE DEF n
<1>4. /\ issuer'.issued = n /\ issuer'.spent = issuer.spent /\ issuer'.seen = issuer.seen
      /\ issuer'.aged = issuer.aged
      /\ issuer' = [issued |-> n, spent |-> issuer.spent, aged |-> issuer.aged, seen |-> issuer.seen]
  BY <1>1, Typed DEF IssuerType
<1>5. issuer' \in IssuerType'
  <2>1. issuer.spent \subseteq 1..n
    BY <1>2, Typed
  <2>. QED
    BY <1>2, <1>4, <2>1, Typed DEF IssuerType
<1>6. Stored \subseteq Stored' /\ SessionType \subseteq SessionType' /\ GoroutineType \subseteq GoroutineType'
  BY <1>2, <1>4, TypesGrow
<1>7. login' \in Stored' /\ login'.tok = n /\ login'.login
  BY <1>1, <1>3, <1>4 DEF Stored
<1>8. RefreshTypeOK'
  <2>1. row' \in SessionType' /\ (Present' <=> row'.cred # NoCred)
    BY <1>1, <1>6, Typed DEF Present
  <2>2. pending' \in [version : Nat, source : Stored', cred : Stored', usage : Nat]
    BY <1>1, <1>6, Typed DEF PendingType
  <2>3. worker' \in [Workers -> GoroutineType']
    BY <1>1, <1>6, Basics
  <2>4. /\ mutex' \in [entry : LockIds \cup {0}, locks : [LockIds -> [refs : Nat, permit : BOOLEAN]]]
        /\ flight' \in Workers \cup {Nobody} /\ observing' \in [on : BOOLEAN, latest : Nat]
    BY <1>1, Basics DEF LockTable
  <2>5. recent' \in Stored' /\ answered' \subseteq issuer'.spent
    BY <1>1, <1>4, <1>6, Typed
  <2>. QED
    BY <1>5, <1>7, <2>1, <2>2, <2>3, <2>4, <2>5 DEF RefreshTypeOK, IssuerType
<1>9. OwnersCurrent' /\ PendingSound' /\ AnswerKept' /\ UsageSeen'
  BY <1>1, <1>4 DEF RefreshInv, OwnersCurrent, PendingSound, AnswerKept, UsageSeen, Usable, Present
<1>10. LoginsFresh'
  <2>1. n \notin issuer.spent /\ n # row.cred.tok /\ n # pending.cred.tok
    BY <1>2, Typed, CredFields
  <2>2. \A w \in Workers : worker'[w].op # "reauth"
    BY <1>1, Credentials
  <2>. QED
    BY <1>1, <1>4, <1>7, <2>1, <2>2 DEF LoginsFresh
<1>. QED
  BY <1>1, <1>8, <1>9, <1>10, NobodyMoves DEF RefreshInv

LEMMA CreateSessionKeeps ==
  ASSUME RefreshInv, CreateSession
  PROVE  RefreshInv'
<1>1. /\ UNCHANGED <<issuer, answered, mutex, flight, pending, recent, observing, worker>>
      /\ row = NoRow /\ login # NoCred /\ login' = NoCred /\ \A w \in Workers : worker[w].op # "reauth"
      /\ row' = [version |-> 1, cred |-> login, status |-> "active", usage |-> 0]
  BY DEF CreateSession
<1>2. /\ Stored' = Stored /\ SessionType' = SessionType /\ GoroutineType' = GoroutineType
  BY <1>1, TypesKept
<1>3. row' \in SessionType /\ row' # NoRow /\ row'.cred = login /\ row'.usage = 0
  <2>1. row' = [version |-> 0 + 1, cred |-> login, status |-> "active", usage |-> 0] /\ 0 \in 0..issuer.seen
    BY <1>1, Typed
  <2>. QED
    BY <1>1, <2>1, LoginRow
<1>4. RefreshTypeOK'
  BY <1>1, <1>2, <1>3, EmptyTypes DEF RefreshInv, RefreshTypeOK, Present
<1>5. \A w \in Workers : worker[w].step \notin WorkingSteps
  BY <1>1 DEF RefreshInv, OwnersCurrent, Usable, Present, WorkingSteps
<1>6. OwnersCurrent' /\ PendingSound'
  BY <1>1, <1>5 DEF RefreshInv, OwnersCurrent, PendingSound, WorkingSteps
<1>7. AnswerKept'
  BY <1>1, <1>3, Typed, Credentials DEF AnswerKept
<1>8. LoginsFresh'
  BY <1>1 DEF LoginsFresh
<1>9. UsageSeen'
  BY <1>1, <1>3, Typed DEF RefreshInv, UsageSeen
<1>. QED
  BY <1>1, <1>4, <1>6, <1>7, <1>8, <1>9, NobodyMoves DEF RefreshInv

\* A process that has just started: every goroutine idle, every lock free.
Started ==
  /\ answered = {} /\ mutex = [entry |-> 0, locks |-> [l \in LockIds |-> FreeLock]]
  /\ flight = Nobody /\ pending = NoPending /\ recent = NoCred
  /\ observing = [on |-> FALSE, latest |-> 0] /\ login = NoCred
  /\ worker = [w \in Workers |-> IdleWorker]

\* It has started on a stored session and an issuer.
StartedOn ==
  /\ Started /\ row \in SessionType /\ (row # NoRow <=> row.cred # NoCred) /\ issuer \in IssuerType
  /\ row.usage <= issuer.seen /\ issuer.seen \in Nat

LEMMA StartedHolds == StartedOn => RefreshInv
<1>. SUFFICES ASSUME StartedOn
              PROVE  RefreshInv
  OBVIOUS
<1>. USE DEF Started, StartedOn
<1>1. /\ NoCred \in Stored /\ NoRow \in SessionType /\ IdleWorker \in GoroutineType
      /\ NoPending \in PendingType /\ NoPending.usage = 0
  BY EmptyTypes DEF PendingType, NoPending
<1>2. \A w \in Workers : /\ worker[w] = IdleWorker /\ worker[w].step = "idle" /\ worker[w].op = "none"
                         /\ worker[w].seen = 0
  BY DEF IdleWorker
<1>3. RefreshTypeOK
  <2>1. mutex \in [entry : LockIds \cup {0}, locks : [LockIds -> [refs : Nat, permit : BOOLEAN]]]
    BY DEF FreeLock
  <2>2. worker \in [Workers -> GoroutineType]
    BY <1>1
  <2>3. pending \in [version : Nat, source : Stored, cred : Stored, usage : Nat]
    BY <1>1 DEF PendingType
  <2>. QED
    BY <1>1, <2>1, <2>2, <2>3 DEF RefreshTypeOK, Present, IssuerType
<1>4. Users = {} /\ \A w \in Workers : ~Owning(w)
  BY <1>2 DEF Users, Uses, Owning
<1>5. LeaseCounted /\ LeaseExclusive
  BY <1>4 DEF LeaseCounted, LeaseExclusive
<1>6. OwnersCurrent /\ PendingSound /\ LoginsFresh /\ AnswerKept
  BY <1>2 DEF OwnersCurrent, PendingSound, LoginsFresh, AnswerKept
<1>7. UsageSeen
  BY <1>1, <1>2 DEF UsageSeen
<1>8. CallsLed
  BY <1>2 DEF CallsLed
<1>. QED
  BY <1>3, <1>5, <1>6, <1>7, <1>8 DEF RefreshInv

LEMMA RestartKeeps ==
  ASSUME RefreshInv, Restart
  PROVE  RefreshInv'
<1>1. Started' /\ UNCHANGED <<row, issuer>>
  BY DEF Restart, Started
<1>2. SessionType' = SessionType /\ IssuerType' = IssuerType
  BY <1>1, TypesKept DEF IssuerType
<1>3. /\ row' \in SessionType' /\ (row' # NoRow <=> row'.cred # NoCred) /\ issuer' \in IssuerType'
      /\ row'.usage <= issuer'.seen /\ issuer'.seen \in Nat
  BY <1>1, <1>2, Typed
<1>4. StartedOn'
  BY <1>1, <1>3 DEF StartedOn
<1>. QED
  BY <1>4, StartedHolds, PTL

LEMMA InitHolds == RefreshInit => RefreshInv
<1>. SUFFICES ASSUME RefreshInit
              PROVE  RefreshInv
  OBVIOUS
<1>1. Started /\ row.usage = 0
  BY DEF RefreshInit, Started
<1>2. issuer \in IssuerType /\ issuer.seen = 0 /\ issuer.issued = 1
  BY RefreshBounds DEF RefreshInit, IssuerType
<1>3. LoginCred(1) \in Stored /\ LoginCred(1) # NoCred
  BY <1>2 DEF LoginCred, Stored, IssuedBy, NoCred
<1>4. row \in SessionType /\ row # NoRow /\ row.cred # NoCred
  BY <1>3 DEF RefreshInit, SessionType, NoRow
<1>. QED
  BY <1>1, <1>2, <1>4, StartedHolds DEF StartedOn

-----------------------------------------------------------------------------
(* The invariant.                                                             *)

LEMMA NextKeeps ==
  ASSUME RefreshInv, [RefreshNext]_refreshVars, ~SharedLogin
  PROVE  RefreshInv'
<1>1. ASSUME NEW w \in Workers, Continue(w)
      PROVE  RefreshInv'
  <2>1. CASE TakePermit(w) \/ ReleaseLease(w) \/ Validate(w) \/ JoinRefresh(w)
    BY <2>1, TakePermitKeeps, ReleaseLeaseKeeps, ValidateKeeps, JoinRefreshKeeps
  <2>2. CASE FollowerReturns(w) \/ CloseCall(w) \/ EraseCall(w)
    BY <2>2, FollowerLeavesKeeps, CloseCallKeeps, EraseCallKeeps
  <2>3. CASE Reload(w) \/ Exchange(w) \/ RefreshFailure(w) \/ Commit(w) \/ CommitError(w)
    BY <2>3, ReloadKeeps, ExchangeKeeps, RefreshFailureKeeps, CommitKeeps, CommitErrorKeeps
  <2>4. CASE FetchUsage(w) \/ MergeUsage(w) \/ TakeQueued(w) \/ DropObservations(w)
    BY <2>4, FetchUsageKeeps, MergeUsageKeeps, TakeQueuedKeeps, DropObservationsKeeps
  <2>5. CASE ApplyLogin(w) \/ Rename(w) \/ DeleteSession(w)
    BY <2>5, ApplyLoginKeeps, RenameKeeps, DeleteSessionKeeps
  <2>. QED
    BY <1>1, <2>1, <2>2, <2>3, <2>4, <2>5 DEF Continue
<1>2. ASSUME NEW w \in Workers, AbandonPermit(w) \/ FollowerCanceled(w) \/ BeginAdmin(w) \/ BeginReauth(w)
      PROVE  RefreshInv'
  BY <1>2, AbandonPermitKeeps, FollowerLeavesKeeps, BeginAdminKeeps, BeginReauthKeeps
<1>3. ASSUME NEW w \in Workers, NEW force \in BOOLEAN, ReadSession(w, force)
      PROVE  RefreshInv'
  BY <1>3, ReadSessionKeeps
<1>4. ASSUME NEW w \in Workers, NEW t \in 1..MaxSeen, Observe(w, t)
      PROVE  RefreshInv'
  BY <1>4, ObserveKeeps
<1>5. CASE CompleteLogin \/ CreateSession \/ Invalidate \/ Age \/ PruneRecent \/ Restart
  BY <1>5, CompleteLoginKeeps, CreateSessionKeeps, AmbientKeeps, RestartKeeps
<1>6. CASE UNCHANGED refreshVars
  BY <1>6 DEF refreshVars, RefreshInv, RefreshTypeOK, LeaseCounted, LeaseExclusive, OwnersCurrent,
              PendingSound, LoginsFresh, AnswerKept, UsageSeen, CallsLed, Users, Uses, Owning, Usable,
              Present, Caller, Stored, SessionType, GoroutineType
<1>. QED
  BY <1>1, <1>2, <1>3, <1>4, <1>5, <1>6 DEF RefreshNext

\* The invariant holds in every state of every behaviour in which one admin call at
\* a time submits a login.
LEMMA RefreshInvariant ==
  ASSUME ~SharedLogin
  PROVE  RefreshSpec => []RefreshInv
<1>1. RefreshInv /\ [RefreshNext]_refreshVars => RefreshInv'
  BY NextKeeps
<1>. QED
  BY <1>1, InitHolds, PTL DEF RefreshSpec

-----------------------------------------------------------------------------
(* The theorems.                                                              *)

\* Refreshes of a session are serialized: one goroutine holds the mutation lease
\* (mutationCoordinator's map hands out one lock however entries come and go), an
\* answered exchange is committed or kept, and every follower has a leader that
\* will close its call, whatever commits fail and imports detach.
THEOREM RefreshesAreSerialized ==
  ASSUME ~SharedLogin
  PROVE  RefreshSpec => []RefreshSerialized
<1>1. RefreshInv => RefreshSerialized
  <2>. SUFFICES ASSUME RefreshInv
                PROVE  RefreshSerialized
    OBVIOUS
  <2>1. FollowersHaveLeader
    BY DEF RefreshInv, CallsLed, FollowersHaveLeader, LeadingSteps
  <2>. QED
    BY <2>1 DEF RefreshInv, RefreshSerialized
<1>. QED
  BY <1>1, RefreshInvariant, PTL

\* What a step does to the stored session.
Kept == row' = row
Edited == /\ row'.cred = row.cred /\ row'.usage >= row.usage
          /\ row.status = "reauth" => row'.status # "active"
Rotated == /\ row.cred # NoCred /\ row.status = "active" /\ row'.cred = pending.cred
           /\ pending.source = row.cred /\ pending # NoPending /\ row'.usage >= row.usage
LoggedIn == login # NoCred /\ row'.cred = login
Removed == row' = NoRow

RowStep == Kept \/ Edited \/ Rotated \/ LoggedIn \/ Removed

LEMMA EditSteps ==
  ASSUME RefreshInv, NEW w \in Workers, RefreshFailure(w) \/ FetchUsage(w) \/ MergeUsage(w) \/ Rename(w)
  PROVE  RowStep
<1>. USE DEF RowStep, Kept, Edited
<1>1. row \in SessionType /\ row.usage \in Nat /\ row.usage <= issuer.seen /\ issuer.seen \in Nat
  BY Typed
<1>2. CASE row' = row
  BY <1>2
<1>3. ASSUME NEW st \in {"none", "active", "reauth"}, st = "active" => row.status # "reauth",
             NEW u \in Nat, u >= row.usage, row' = [version |-> row.version + 1, cred |-> row.cred,
                                                    status |-> st, usage |-> u]
      PROVE  RowStep
  BY <1>1, <1>3
<1>4. row = [version |-> row.version, cred |-> row.cred, status |-> row.status, usage |-> row.usage]
  BY <1>1 DEF SessionType
<1>5. \A st \in {"none", "active", "reauth"}, u \in Nat :
        /\ Advanced([row EXCEPT !.status = st]) =
             [version |-> row.version + 1, cred |-> row.cred, status |-> st, usage |-> row.usage]
        /\ Advanced([row EXCEPT !.usage = u]) =
             [version |-> row.version + 1, cred |-> row.cred, status |-> row.status, usage |-> u]
        /\ Advanced([row EXCEPT !.status = st, !.usage = u]) =
             [version |-> row.version + 1, cred |-> row.cred, status |-> st, usage |-> u]
        /\ Advanced(row) =
             [version |-> row.version + 1, cred |-> row.cred, status |-> row.status, usage |-> row.usage]
  <2>. TAKE st \in {"none", "active", "reauth"}, u \in Nat
  <2>1. \A v, c, s, n : Advanced([version |-> v, cred |-> c, status |-> s, usage |-> n]) =
                        [version |-> v + 1, cred |-> c, status |-> s, usage |-> n]
    BY DEF Advanced
  <2>2. [row EXCEPT !.status = st] =
          [version |-> row.version, cred |-> row.cred, status |-> st, usage |-> row.usage]
    BY <1>1 DEF SessionType
  <2>3. [row EXCEPT !.usage = u] =
          [version |-> row.version, cred |-> row.cred, status |-> row.status, usage |-> u]
    BY <1>1 DEF SessionType
  <2>4. [row EXCEPT !.status = st, !.usage = u] =
          [version |-> row.version, cred |-> row.cred, status |-> st, usage |-> u]
    <3>. DEFINE q == [version |-> row.version, cred |-> row.cred, status |-> st, usage |-> row.usage]
    <3>1. [row EXCEPT !.status = st, !.usage = u] = [q EXCEPT !.usage = u]
      BY <2>2
    <3>. QED
      BY <3>1
  <2>5. Advanced(row) =
          [version |-> row.version + 1, cred |-> row.cred, status |-> row.status, usage |-> row.usage]
    BY <1>1 DEF SessionType, Advanced
  <2>6. Advanced([row EXCEPT !.status = st]) =
          [version |-> row.version + 1, cred |-> row.cred, status |-> st, usage |-> row.usage]
    BY <2>1, <2>2
  <2>7. Advanced([row EXCEPT !.usage = u]) =
          [version |-> row.version + 1, cred |-> row.cred, status |-> row.status, usage |-> u]
    BY <2>1, <2>3
  <2>8. Advanced([row EXCEPT !.status = st, !.usage = u]) =
          [version |-> row.version + 1, cred |-> row.cred, status |-> st, usage |-> u]
    BY <2>1, <2>4
  <2>. QED
    BY <2>5, <2>6, <2>7, <2>8
<1>6. row.status \in {"none", "active", "reauth"} /\ row.usage >= row.usage
  BY <1>1 DEF SessionType
<1>7. CASE RefreshFailure(w)
  <2>1. row.status = "active"
    BY <1>7 DEF RefreshFailure, RefreshInv, OwnersCurrent, Usable
  <2>2. \/ row' = row
        \/ row' = Advanced([row EXCEPT !.status = "reauth"])
        \/ row' = Advanced([row EXCEPT !.status = row.status])
    BY <1>7 DEF RefreshFailure
  <2>. QED
    BY <1>1, <1>2, <1>3, <1>5, <1>6, <2>1, <2>2
<1>8. CASE FetchUsage(w)
  <2>1. row.status = "active"
    BY <1>8 DEF FetchUsage, RefreshInv, OwnersCurrent, Usable
  <2>2. issuer.seen + 1 \in Nat /\ issuer.seen + 1 >= row.usage
    BY <1>1
  <2>3. \/ row' = row
        \/ row' = Advanced([row EXCEPT !.status = "reauth"])
        \/ row' = Advanced([row EXCEPT !.status = "active", !.usage = issuer.seen + 1])
    BY <1>8 DEF FetchUsage
  <2>. QED
    BY <1>1, <1>2, <1>3, <1>5, <1>6, <2>1, <2>2, <2>3
<1>9. CASE MergeUsage(w)
  <2>1. worker[w].seen \in Nat
    BY Basics
  <2>2. \/ row' = row
        \/ worker[w].seen > row.usage /\ row' = Advanced([row EXCEPT !.usage = worker[w].seen])
    BY <1>9 DEF MergeUsage
  <2>3. worker[w].seen > row.usage => worker[w].seen >= row.usage
    BY <1>1, <2>1
  <2>4. row.status = row.status /\ (row.status = "reauth" => row.status # "active")
    OBVIOUS
  <2>5. CASE row' = [version |-> row.version + 1, cred |-> row.cred, status |-> row.status,
                     usage |-> worker[w].seen] /\ worker[w].seen >= row.usage
    BY <2>5
  <2>. QED
    BY <1>2, <1>5, <1>6, <2>1, <2>2, <2>3, <2>5
<1>10. CASE Rename(w)
  <2>1. \/ row' = row
        \/ row' = [version |-> row.version + 1, cred |-> row.cred, status |-> row.status, usage |-> row.usage]
    BY <1>5, <1>6, <1>10 DEF Rename
  <2>. QED
    BY <1>2, <1>6, <2>1
<1>. QED
  BY <1>7, <1>8, <1>9, <1>10

LEMMA RowSteps ==
  ASSUME RefreshInv, RefreshNext
  PROVE  RowStep
<1>1. ASSUME UNCHANGED row
      PROVE  RowStep
  BY <1>1 DEF RowStep, Kept
<1>2. ASSUME NEW w \in Workers, Commit(w) \/ CommitError(w)
      PROVE  RowStep
  <2>1. worker[w].step = "committing" /\ row' \in {row, CommittedRow(worker[w].snap, pending)}
    BY <1>2 DEF Commit, CommitError
  <2>. DEFINE r == CommittedRow(worker[w].snap, pending)
  <2>2. /\ Usable /\ pending # NoPending /\ pending.source = row.cred
        /\ r.cred = pending.cred /\ r.usage >= row.usage
    BY <2>1, CommittedFields
  <2>3. row' \in {row, r}
    BY <2>1
  <2>. HIDE DEF r
  <2>. QED
    BY <2>2, <2>3, Typed DEF RowStep, Kept, Rotated, Usable, Present
<1>3. ASSUME NEW w \in Workers, ApplyLogin(w)
      PROVE  RowStep
  <2>1. login # NoCred /\ worker[w].snap.cred = login
    BY <1>3 DEF ApplyLogin, RefreshInv, LoginsFresh
  <2>. QED
    BY <1>3, <2>1 DEF ApplyLogin, RowStep, Kept, LoggedIn
<1>4. ASSUME NEW w \in Workers, DeleteSession(w)
      PROVE  RowStep
  BY <1>4 DEF DeleteSession, RowStep, Kept, Removed
<1>5. ASSUME CreateSession
      PROVE  RowStep
  BY <1>5 DEF CreateSession, RowStep, LoggedIn
<1>6. ASSUME NEW w \in Workers, Continue(w)
      PROVE  RowStep
  <2>1. CASE \/ TakePermit(w) \/ ReleaseLease(w) \/ Validate(w) \/ JoinRefresh(w) \/ FollowerReturns(w)
             \/ CloseCall(w) \/ EraseCall(w) \/ TakeQueued(w) \/ DropObservations(w)
    BY <1>1, <2>1 DEF TakePermit, ReleaseLease, Validate, JoinRefresh, FollowerReturns, CloseCall, EraseCall,
                      TakeQueued, DropObservations
  <2>2. CASE Reload(w) \/ Exchange(w)
    BY <1>1, <2>2 DEF Reload, Exchange
  <2>. QED
    BY <1>2, <1>3, <1>4, <1>6, <2>1, <2>2, EditSteps DEF Continue
<1>7. ASSUME NEW w \in Workers, \/ AbandonPermit(w) \/ FollowerCanceled(w) \/ BeginAdmin(w) \/ BeginReauth(w)
                                \/ \E force \in BOOLEAN : ReadSession(w, force)
                                \/ \E t \in 1..MaxSeen : Observe(w, t)
      PROVE  RowStep
  BY <1>1, <1>7 DEF AbandonPermit, FollowerCanceled, BeginAdmin, BeginReauth, ReadSession, Observe
<1>8. CASE CompleteLogin \/ Invalidate \/ Age \/ PruneRecent \/ Restart
  BY <1>1, <1>8 DEF CompleteLogin, Invalidate, Age, PruneRecent, Restart
<1>. QED
  BY <1>5, <1>6, <1>7, <1>8 DEF RefreshNext

\* Only a login ends a required reauthentication, and only a login replaces the
\* stored usage by an older one: no refresh, usage fetch, observation or commit
\* resumed from a pending answer does (commitChatGPTRefresh keeps the newer quota).
THEOREM SessionsAreNotRolledBack ==
  ASSUME ~SharedLogin
  PROVE  RefreshSpec => SessionNotRolledBack
<1>. DEFINE NotRolledBack ==
       /\ row.status = "reauth" /\ row'.status = "active" => LoginStep
       /\ row.cred.id # 0 /\ row'.cred.id # 0 /\ ~LoginStep => row'.usage >= row.usage
<1>1. ASSUME RefreshInv, RefreshNext
      PROVE  NotRolledBack
  <2>1. /\ row \in SessionType /\ row.usage >= row.usage
        /\ login # NoCred => login.login /\ login # row.cred
    BY <1>1, Typed, Credentials
  <2>2. NoRow.cred.id = 0 /\ NoRow.status = "none"
    BY DEF NoRow, NoCred
  <2>3. CASE Kept \/ Edited
    BY <2>1, <2>3 DEF Kept, Edited
  <2>4. CASE Rotated
    BY <2>4 DEF Rotated
  <2>5. CASE LoggedIn
    BY <2>1, <2>5 DEF LoggedIn, LoginStep
  <2>6. CASE Removed
    BY <2>2, <2>6 DEF Removed
  <2>. QED
    BY <1>1, <2>3, <2>4, <2>5, <2>6, RowSteps DEF RowStep
<1>2. RefreshInv /\ [RefreshNext]_refreshVars => [NotRolledBack]_refreshVars
  BY <1>1
<1>3. []RefreshInv /\ [][RefreshNext]_refreshVars => [][NotRolledBack]_refreshVars
  BY <1>2, PTL
<1>. QED
  BY <1>3, RefreshInvariant, PTL DEF RefreshSpec, SessionNotRolledBack

\* What is stored, or staged, or waiting to be committed was issued.
LEMMA EveryoneIssued ==
  ASSUME RefreshInv, NEW c \in Stored
  PROVE  c \in IssuedBy(MaxIssued) \cup {NoCred}
<1>1. issuer.issued \in 1..MaxIssued /\ MaxIssued \in Nat
  BY Typed, RefreshBounds
<1>2. 1..issuer.issued \subseteq 1..MaxIssued /\ 0..issuer.issued \subseteq 0..MaxIssued
  BY <1>1
<1>. QED
  BY <1>2 DEF Stored, IssuedBy

\* The stored session is a credential cell: whatever interleaves, crashes or fails,
\* its credential is replaced only by a completed login or by the answer to an
\* exchange of exactly the credential stored, and nothing computed from an older
\* credential is written over a newer one.
THEOREM RefreshImplementsCell ==
  ASSUME ~SharedLogin
  PROVE  RefreshSpec => ImplementsCell
<1>1. RefreshInit => Cell!CellInit
  BY RefreshBounds DEF RefreshInit, Cell!CellInit, LoginCred, IssuedBy
<1>2. ASSUME RefreshInv, RefreshNext
      PROVE  [Cell!CellNext]_(row.cred)
  <2>1. CASE Kept \/ Edited
    BY <2>1 DEF Kept, Edited
  <2>2. CASE Rotated
    <3>1. /\ pending.cred # NoCred /\ pending.cred.from = pending.source.id /\ ~pending.cred.login
          /\ pending.cred \in IssuedBy(MaxIssued)
      BY <1>2, <2>2, Typed, Credentials, EveryoneIssued DEF Rotated
    <3>. QED
      BY <2>2, <3>1 DEF Rotated, Cell!CellNext, Cell!Rotate
  <2>3. CASE LoggedIn
    <3>1. login.login /\ login \in IssuedBy(MaxIssued)
      BY <1>2, <2>3, Typed, Credentials, EveryoneIssued DEF LoggedIn
    <3>. QED
      BY <2>3, <3>1 DEF LoggedIn, Cell!CellNext, Cell!Replace
  <2>4. CASE Removed
    BY <2>4 DEF Removed, NoRow, Cell!CellNext, Cell!Remove
  <2>. QED
    BY <1>2, <2>1, <2>2, <2>3, <2>4, RowSteps DEF RowStep
<1>3. RefreshInv /\ [RefreshNext]_refreshVars => [Cell!CellNext]_(row.cred)
  BY <1>2 DEF refreshVars
<1>4. []RefreshInv /\ [][RefreshNext]_refreshVars => [][Cell!CellNext]_(row.cred)
  BY <1>3, PTL
<1>. QED
  BY <1>1, <1>4, RefreshInvariant, PTL DEF RefreshSpec, ImplementsCell, Cell!CellSpec
=============================================================================

------------------------ MODULE ServerLifecycleProofs ------------------------
(* Machine-checked proof that a shutdown saves what was done, for any owners, *)
(* any order of their activation, any requests and any number of rounds.      *)
EXTENDS ServerLifecycle, TLAPS

\* The owners are the components, each at one position.
LEMMA Positions ==
  /\ Len(Components) \in Nat
  /\ \A i \in 1..Len(Components) : Components[i] \in Owners
  /\ \A c \in Owners : \E i \in 1..Len(Components) : c = Components[i]
  /\ \A i, j \in 1..Len(Components) : Components[i] = Components[j] => i = j
<1>1. Len(Components) \in Nat /\ DOMAIN Components = 1..Len(Components)
  BY LifecycleAssumption
<1>2. \A i \in 1..Len(Components) : Components[i] \in Owners
  BY <1>1 DEF Owners, Range
<1>3. \A c \in Owners : \E i \in 1..Len(Components) : c = Components[i]
  BY <1>1 DEF Owners, Range
<1>4. \A i, j \in 1..Len(Components) : Components[i] = Components[j] => i = j
  BY <1>1, LifecycleAssumption DEF IsInjective
<1>. QED
  BY <1>1, <1>2, <1>3, <1>4

\* The owners whose queues and storage the properties are about.
LEMMA Users == /\ Flushing \subseteq Owners /\ StoreUsers \subseteq Owners
               /\ ServerOf \in [Requests -> Servers]
BY LifecycleAssumption

LEMMA InitHolds == LifecycleInit => LifecycleInv
<1>. SUFFICES ASSUME LifecycleInit
              PROVE  LifecycleInv
  OBVIOUS
<1>. USE DEF LifecycleInit
<1>1. LifecycleTypeOK
  <2>1. stage \in [at : {"activate"} \cup Serving \cup Stopping, owner : 0..(Len(Components) + 1)]
    BY Positions
  <2>2. owner \in [Owners -> {"off", "idle", "working", "finishing", "cancelled", "stopped"}]
    OBVIOUS
  <2>. QED
    BY <2>1, <2>2 DEF LifecycleTypeOK
<1>2. StagesOrdered
  BY DEF StagesOrdered, Serving, Stopping
<1>3. OwnersOrdered
  BY Positions DEF OwnersOrdered, Serving, Stopping
<1>4. ServersDrained
  BY Users DEF ServersDrained, PastDrain, Stopping
<1>5. DrainedWorkIsDurable
  BY Users DEF DrainedWorkIsDurable
<1>. QED
  BY <1>1, <1>2, <1>3, <1>4, <1>5 DEF LifecycleInv

-----------------------------------------------------------------------------
(* Steps of runApplication.                                                   *)

\* The owner at position k moves to a state of st, the others stay.
LEMMA OwnerMoves ==
  ASSUME LifecycleTypeOK, NEW k \in 1..Len(Components), NEW st,
         owner' = [owner EXCEPT ![Components[k]] = st]
  PROVE  /\ owner'[Components[k]] = st
         /\ \A i \in 1..Len(Components) : i # k => owner'[Components[i]] = owner[Components[i]]
         /\ \A c \in Owners : c # Components[k] => owner'[c] = owner[c]
         /\ DOMAIN owner' = Owners
BY Positions DEF LifecycleTypeOK

LEMMA ActivateComponentKeeps ==
  ASSUME LifecycleInv, ActivateComponent
  PROVE  LifecycleInv'
<1>. DEFINE k == stage.owner
            c == Components[k]
<1>1. /\ stage.at = "activate" /\ k \in 1..Len(Components)
      /\ UNCHANGED <<listener, inflight, deadline, queued, flushed, abandoned, overdue, opened, rounds>>
      /\ \/ owner' = [owner EXCEPT ![c] = "idle"] /\ stage' = [stage EXCEPT !.owner = k + 1]
         \/ stage' = [at |-> "stop", owner |-> k - 1] /\ owner' = owner
  BY Positions DEF ActivateComponent, At, AfterFailedStart, LifecycleInv, LifecycleTypeOK, StagesOrdered
<1>2. LifecycleTypeOK /\ StagesOrdered /\ OwnersOrdered /\ ServersDrained /\ DrainedWorkIsDurable
  BY DEF LifecycleInv
<1>3. "writer" \in opened
  BY <1>1, <1>2 DEF StagesOrdered, Stopping
<1>4. CASE owner' = [owner EXCEPT ![c] = "idle"] /\ stage' = [stage EXCEPT !.owner = k + 1]
  <2>1. stage'.at = "activate" /\ stage'.owner = k + 1
    BY <1>1, <1>2, <1>4 DEF LifecycleTypeOK
  <2>2. /\ owner'[c] = "idle" /\ DOMAIN owner' = Owners
        /\ \A i \in 1..Len(Components) : i # k => owner'[Components[i]] = owner[Components[i]]
        /\ \A d \in Owners : d # c => owner'[d] = owner[d]
    BY <1>1, <1>2, <1>4, OwnerMoves
  <2>3. LifecycleTypeOK'
    <3>1. k + 1 \in 0..(Len(Components) + 1)
      BY <1>1, Positions
    <3>2. stage' \in [at : {"activate"} \cup Serving \cup Stopping, owner : 0..(Len(Components) + 1)]
      BY <1>2, <1>4, <3>1 DEF LifecycleTypeOK
    <3>3. owner' \in [Owners -> {"off", "idle", "working", "finishing", "cancelled", "stopped"}]
      BY <1>2, <1>4 DEF LifecycleTypeOK
    <3>. QED
      BY <1>1, <1>2, <3>2, <3>3 DEF LifecycleTypeOK
  <2>4. StagesOrdered'
    BY <1>1, <1>2, <1>3, <2>1 DEF StagesOrdered, Serving, Stopping
  <2>5. OwnersOrdered'
    <3>. SUFFICES ASSUME NEW i \in 1..Len(Components)
                  PROVE  owner'[Components[i]] \in (IF i < k + 1 THEN {"idle", "working"} ELSE {"off"})
      BY <2>1 DEF OwnersOrdered, Serving, Stopping
    <3>1. CASE i = k
      BY <1>1, <2>2, <3>1
    <3>2. CASE i # k
      <4>1. i < k + 1 <=> i < k
        BY <1>1, <3>2
      <4>. QED
        BY <1>1, <1>2, <2>2, <3>2, <4>1 DEF OwnersOrdered
    <3>. QED
      BY <3>1, <3>2
  <2>6. ServersDrained'
    BY <1>1, <1>2, <2>1 DEF ServersDrained, PastDrain, Stopping
  <2>7. DrainedWorkIsDurable'
    BY <1>1, <1>2, <2>2, Users DEF DrainedWorkIsDurable
  <2>. QED
    BY <2>3, <2>4, <2>5, <2>6, <2>7 DEF LifecycleInv
<1>5. CASE stage' = [at |-> "stop", owner |-> k - 1] /\ owner' = owner
  <2>1. stage'.at = "stop" /\ stage'.owner = k - 1
    BY <1>5
  <2>2. LifecycleTypeOK'
    BY <1>1, <1>2, <1>5, Positions DEF LifecycleTypeOK, Stopping
  <2>3. StagesOrdered'
    BY <1>1, <1>3, <2>1, Positions DEF StagesOrdered, Serving, Stopping
  <2>4. OwnersOrdered'
    <3>1. \A i \in 1..Len(Components) :
             owner[Components[i]] \in (IF i < k THEN {"idle", "working"} ELSE {"off"})
      BY <1>1, <1>2 DEF OwnersOrdered
    <3>2. \A i \in 1..Len(Components) : /\ i < k - 1 => i < k
                                        /\ i > k - 1 => ~(i < k)
      BY <1>1
    <3>. QED
      BY <1>1, <1>5, <2>1, <3>1, <3>2 DEF OwnersOrdered, Serving
  <2>5. ServersDrained'
    <3>1. \A s \in Servers : listener'[s] = "new"
      BY <1>1, <1>2 DEF ServersDrained
    <3>2. \A r \in Requests : inflight'[r] = "none"
      BY <1>1, <1>2, <3>1, Users DEF ServersDrained
    <3>3. k - 1 < Len(Components)
      BY <1>1, Positions
    <3>. QED
      BY <2>1, <3>1, <3>2, <3>3 DEF ServersDrained, Stopping
  <2>6. DrainedWorkIsDurable'
    BY <1>1, <1>2, <1>5 DEF DrainedWorkIsDurable
  <2>. QED
    BY <2>2, <2>3, <2>4, <2>5, <2>6 DEF LifecycleInv
<1>. QED
  BY <1>1, <1>4, <1>5

\* The main goroutine goes from one stage to a later one and no owner moves.
StageStep ==
  /\ stage' = [stage EXCEPT !.at = stage'.at]
  /\ stage'.at \in Serving \cup Stopping
  /\ stage.at \in Serving \cup Stopping
  /\ stage.at \in Stopping => stage'.at \in Stopping
  /\ \A s \in Servers : PastDrain(s)' => listener[s] = "closed" \/ PastDrain(s)
  /\ \A r \in Requests : PastDrain(ServerOf[r])' =>
        PastDrain(ServerOf[r]) \/ (inflight[r] = "running" => deadline)
  /\ stage'.at \in Stopping /\ stage.at \notin Stopping =>
        \A r \in Requests : inflight[r] \in {"running", "hijacked"} => r \in overdue'
  /\ overdue' \subseteq Requests
  /\ overdue' = overdue \/ stage.at \in Serving
  /\ UNCHANGED <<owner, listener, inflight, deadline, queued, flushed, abandoned, opened, rounds>>

LEMMA StageMoves ==
  ASSUME LifecycleInv, StageStep
  PROVE  LifecycleInv'
<1>. USE DEF StageStep
<1>1. LifecycleTypeOK /\ StagesOrdered /\ OwnersOrdered /\ ServersDrained /\ DrainedWorkIsDurable
  BY DEF LifecycleInv
<1>2. stage'.owner = stage.owner
  BY <1>1 DEF LifecycleTypeOK
<1>3. LifecycleTypeOK'
  BY <1>1 DEF LifecycleTypeOK
<1>4. StagesOrdered'
  BY <1>1, <1>2, Positions DEF StagesOrdered, Serving, Stopping
<1>5. OwnersOrdered'
  <2>1. stage.at \in Serving => \A i \in 1..Len(Components) : ~(i > stage.owner)
    BY <1>1, Positions DEF StagesOrdered
  <2>. QED
    BY <1>1, <1>2, <2>1 DEF OwnersOrdered, Serving, Stopping
<1>6. ServersDrained'
  <2>1. \A s \in Servers : PastDrain(s)' =>
           listener'[s] = "closed" \/ (listener'[s] = "new" /\ stage'.owner < Len(Components))
    BY <1>1, <1>2 DEF ServersDrained
  <2>2. \A r \in Requests :
          /\ listener'[ServerOf[r]] = "new" => inflight'[r] = "none"
          /\ PastDrain(ServerOf[r])' /\ inflight'[r] = "running" => deadline'
          /\ stage'.at \in Stopping /\ inflight'[r] \in {"running", "hijacked"} => r \in overdue'
    <3>1. ASSUME NEW r \in Requests
          PROVE  PastDrain(ServerOf[r])' /\ inflight[r] = "running" => deadline
      BY <1>1, <3>1 DEF ServersDrained
    <3>2. ASSUME NEW r \in Requests, stage'.at \in Stopping, inflight[r] \in {"running", "hijacked"}
          PROVE  r \in overdue'
      BY <1>1, <3>2 DEF ServersDrained, Serving, Stopping
    <3>. QED
      BY <1>1, <3>1, <3>2 DEF ServersDrained
  <2>. QED
    BY <1>2, <2>1, <2>2 DEF ServersDrained, Serving, Stopping
<1>7. DrainedWorkIsDurable'
  <2>1. stage.at \in Serving => \A c \in Flushing : owner[c] # "stopped"
    BY <1>1, Positions, Users DEF OwnersOrdered
  <2>. QED
    BY <1>1, <2>1 DEF DrainedWorkIsDurable
<1>. QED
  BY <1>3, <1>4, <1>5, <1>6, <1>7 DEF LifecycleInv

LEMMA StartServersKeeps ==
  ASSUME LifecycleInv, StartServers
  PROVE  LifecycleInv'
<1>1. LifecycleTypeOK /\ StagesOrdered /\ OwnersOrdered /\ ServersDrained /\ DrainedWorkIsDurable
  BY DEF LifecycleInv
<1>2. /\ stage.at = "activate" /\ stage.owner > Len(Components)
      /\ stage' = [at |-> "serve", owner |-> Len(Components)]
      /\ UNCHANGED <<owner, listener, inflight, deadline, queued, flushed, abandoned, overdue, opened, rounds>>
  BY DEF StartServers, At
<1>3. stage'.at = "serve" /\ stage'.owner = Len(Components)
  BY <1>2
<1>4. LifecycleTypeOK'
  <2>1. stage' \in [at : {"activate"} \cup Serving \cup Stopping, owner : 0..(Len(Components) + 1)]
    BY <1>2, Positions DEF Serving
  <2>. QED
    BY <1>1, <1>2, <2>1 DEF LifecycleTypeOK
<1>5. StagesOrdered'
  BY <1>1, <1>2, <1>3 DEF StagesOrdered, Serving, Stopping
<1>6. OwnersOrdered'
  <2>1. \A i \in 1..Len(Components) : i < stage.owner
    BY <1>1, <1>2, Positions DEF LifecycleTypeOK
  <2>. QED
    BY <1>1, <1>2, <1>3, <2>1 DEF OwnersOrdered, Serving, Stopping
<1>7. ServersDrained'
  BY <1>1, <1>2, <1>3 DEF ServersDrained, PastDrain, Stopping
<1>8. DrainedWorkIsDurable'
  BY <1>1, <1>2 DEF DrainedWorkIsDurable
<1>. QED
  BY <1>4, <1>5, <1>6, <1>7, <1>8 DEF LifecycleInv

\* The stages a server's shutdown leads from and to.
LEMMA DrainKeeps ==
  ASSUME LifecycleInv,
         \/ BeginShutdown \/ ShutdownAuth \/ Exit
         \/ ShutdownServer("proxy", "drain_proxy", "drain_admin")
         \/ ShutdownServer("admin", "drain_admin", "drain_auth")
  PROVE  LifecycleInv'
<1>0. LifecycleTypeOK /\ overdue \subseteq Requests
  BY DEF LifecycleInv, LifecycleTypeOK
<1>1. CASE BeginShutdown
  <2>1. /\ stage.at = "serve" /\ stage'.at = "drain_proxy" /\ stage' = [stage EXCEPT !.at = stage'.at]
        /\ UNCHANGED <<owner, listener, inflight, deadline, queued, flushed, abandoned, overdue, opened, rounds>>
    BY <1>0, <1>1 DEF BeginShutdown, LifecycleTypeOK, At, Moves
  <2>2. stage.at \in Serving \cup Stopping /\ stage'.at \in Serving \cup Stopping
    BY <2>1 DEF Serving, Stopping
  <2>3. \A s : ~PastDrain(s)'
    BY <2>1 DEF PastDrain, Stopping
  <2>4. stage.at \notin Stopping /\ stage'.at \notin Stopping
    BY <2>1 DEF Stopping
  <2>9. StageStep
    BY <1>0, <2>1, <2>2, <2>3, <2>4 DEF StageStep
  <2>. QED
    BY <2>9, StageMoves
<1>2. CASE ShutdownAuth
  <2>1. /\ stage.at = "drain_auth" /\ stage'.at = "stop" /\ stage' = [stage EXCEPT !.at = stage'.at]
        /\ overdue' = {r \in Requests : inflight[r] \in {"running", "hijacked"}}
        /\ UNCHANGED <<owner, listener, inflight, deadline, queued, flushed, abandoned, opened, rounds>>
    BY <1>0, <1>2 DEF ShutdownAuth, LifecycleTypeOK, At, Moves
  <2>2. stage.at \in Serving \cup Stopping /\ stage'.at \in Serving \cup Stopping
    BY <2>1 DEF Serving, Stopping
  <2>3. \A s : PastDrain(s)
    BY <2>1 DEF PastDrain
  <2>4. stage.at \in Serving /\ stage.at \notin Stopping
    BY <2>1 DEF Serving, Stopping
  <2>5. /\ \A r \in Requests : inflight[r] \in {"running", "hijacked"} => r \in overdue'
        /\ overdue' \subseteq Requests
    BY <2>1
  <2>6. UNCHANGED <<owner, listener, inflight, deadline, queued, flushed, abandoned, opened, rounds>>
    BY <2>1
  <2>7. stage' = [stage EXCEPT !.at = stage'.at]
    BY <2>1
  <2>9. StageStep
    BY <2>2, <2>3, <2>4, <2>5, <2>6, <2>7 DEF StageStep
  <2>. QED
    BY <2>9, StageMoves
<1>3. CASE Exit
  <2>1. /\ stage.at = "stop" /\ stage'.at = "exited" /\ stage' = [stage EXCEPT !.at = stage'.at]
        /\ UNCHANGED <<owner, listener, inflight, deadline, queued, flushed, abandoned, overdue, opened, rounds>>
    BY <1>0, <1>3 DEF Exit, LifecycleTypeOK, At, Moves
  <2>2. stage.at \in Serving \cup Stopping /\ stage'.at \in Serving \cup Stopping
    BY <2>1 DEF Serving, Stopping
  <2>3. \A s : PastDrain(s)
    BY <2>1 DEF PastDrain, Stopping
  <2>4. stage.at \in Stopping /\ stage'.at \in Stopping
    BY <2>1 DEF Stopping
  <2>9. StageStep
    BY <1>0, <2>1, <2>2, <2>3, <2>4 DEF StageStep
  <2>. QED
    BY <2>9, StageMoves
<1>4. CASE ShutdownServer("proxy", "drain_proxy", "drain_admin")
  <2>1. /\ stage.at = "drain_proxy" /\ stage'.at = "drain_admin" /\ stage' = [stage EXCEPT !.at = stage'.at]
        /\ listener["proxy"] = "closed"
        /\ \A r \in Requests : ServerOf[r] = "proxy" => (inflight[r] = "running" => deadline)
        /\ UNCHANGED <<owner, listener, inflight, deadline, queued, flushed, abandoned, overdue, opened, rounds>>
    BY <1>0, <1>4 DEF ShutdownServer, Drained, LifecycleTypeOK, At, Moves
  <2>2. stage.at \in Serving \cup Stopping /\ stage'.at \in Serving \cup Stopping
    BY <2>1 DEF Serving, Stopping
  <2>3. \A s \in Servers : PastDrain(s)' => s = "proxy" \/ PastDrain(s)
    BY <2>1 DEF PastDrain, Stopping, Servers
  <2>4. stage.at \notin Stopping /\ stage'.at \notin Stopping
    BY <2>1 DEF Stopping
  <2>5. /\ \A s \in Servers : PastDrain(s)' => listener[s] = "closed" \/ PastDrain(s)
        /\ \A r \in Requests : PastDrain(ServerOf[r])' =>
              PastDrain(ServerOf[r]) \/ (inflight[r] = "running" => deadline)
    BY <2>1, <2>3, Users
  <2>9. StageStep
    BY <1>0, <2>1, <2>2, <2>4, <2>5 DEF StageStep
  <2>. QED
    BY <2>9, StageMoves
<1>5. CASE ShutdownServer("admin", "drain_admin", "drain_auth")
  <2>1. /\ stage.at = "drain_admin" /\ stage'.at = "drain_auth" /\ stage' = [stage EXCEPT !.at = stage'.at]
        /\ listener["admin"] = "closed"
        /\ \A r \in Requests : ServerOf[r] = "admin" => (inflight[r] = "running" => deadline)
        /\ UNCHANGED <<owner, listener, inflight, deadline, queued, flushed, abandoned, overdue, opened, rounds>>
    BY <1>0, <1>5 DEF ShutdownServer, Drained, LifecycleTypeOK, At, Moves
  <2>2. stage.at \in Serving \cup Stopping /\ stage'.at \in Serving \cup Stopping
    BY <2>1 DEF Serving, Stopping
  <2>3. \A s \in Servers : PastDrain(s)' => s = "admin" \/ PastDrain(s)
    BY <2>1 DEF PastDrain, Stopping, Servers
  <2>4. stage.at \notin Stopping /\ stage'.at \notin Stopping
    BY <2>1 DEF Stopping
  <2>5. /\ \A s \in Servers : PastDrain(s)' => listener[s] = "closed" \/ PastDrain(s)
        /\ \A r \in Requests : PastDrain(ServerOf[r])' =>
              PastDrain(ServerOf[r]) \/ (inflight[r] = "running" => deadline)
    BY <2>1, <2>3, Users
  <2>9. StageStep
    BY <1>0, <2>1, <2>2, <2>4, <2>5 DEF StageStep
  <2>. QED
    BY <2>9, StageMoves
<1>. QED
  BY <1>1, <1>2, <1>3, <1>4, <1>5

\* Steps that touch neither the stage nor an owner.
LEMMA SideStep ==
  ASSUME LifecycleInv, UNCHANGED <<stage, owner, abandoned, overdue, opened, flushed>>,
         LifecycleTypeOK', ServersDrained', DrainedWorkIsDurable'
  PROVE  LifecycleInv'
<1>1. StagesOrdered' /\ OwnersOrdered'
  BY DEF LifecycleInv, StagesOrdered, OwnersOrdered
<1>. QED
  BY <1>1 DEF LifecycleInv

LEMMA ListenersKeep ==
  ASSUME LifecycleInv,
         \/ \E s \in Servers : Listen(s)
         \/ CloseListener("proxy", "drain_proxy") \/ CloseListener("admin", "drain_admin")
  PROVE  LifecycleInv'
<1>1. LifecycleTypeOK /\ StagesOrdered /\ ServersDrained /\ DrainedWorkIsDurable
  BY DEF LifecycleInv
<1>2. PICK s \in Servers, new \in {"open", "failed", "closed"} :
           /\ stage.at # "activate" /\ listener' = [listener EXCEPT ![s] = new]
           /\ new = "closed" \/ (stage.owner = Len(Components) /\ listener[s] = "new")
  BY DEF Listen, CloseListener, At, Servers
<1>3. UNCHANGED <<stage, owner, inflight, deadline, queued, flushed, abandoned, overdue, opened, rounds>>
  BY DEF Listen, CloseListener
<1>4. LifecycleTypeOK'
  BY <1>1, <1>2, <1>3 DEF LifecycleTypeOK
<1>5. \A t \in Servers : listener'[t] = IF t = s THEN new ELSE listener[t]
  BY <1>1, <1>2 DEF LifecycleTypeOK
<1>6. ServersDrained'
  <2>1. new = "closed" \/ ~PastDrain(s)
    BY <1>1, <1>2, Positions DEF ServersDrained
  <2>2. \A t \in Servers : PastDrain(t)' <=> PastDrain(t)
    BY <1>3 DEF PastDrain
  <2>3. \A t \in Servers : PastDrain(t)' =>
           listener'[t] = "closed" \/ (listener'[t] = "new" /\ stage'.owner < Len(Components))
    BY <1>1, <1>3, <1>5, <2>1, <2>2 DEF ServersDrained
  <2>4. \A r \in Requests : ServerOf[r] \in Servers
    BY Users
  <2>5. \A r \in Requests :
          /\ listener'[ServerOf[r]] = "new" => inflight'[r] = "none"
          /\ PastDrain(ServerOf[r])' /\ inflight'[r] = "running" => deadline'
          /\ stage'.at \in Stopping /\ inflight'[r] \in {"running", "hijacked"} => r \in overdue'
    BY <1>1, <1>2, <1>3, <1>5, <2>2, <2>4 DEF ServersDrained
  <2>. QED
    BY <1>2, <1>3, <2>3, <2>5 DEF ServersDrained
<1>7. DrainedWorkIsDurable'
  BY <1>1, <1>3 DEF DrainedWorkIsDurable
<1>. QED
  BY <1>3, <1>4, <1>6, <1>7, SideStep

LEMMA DeadlinePassesKeeps ==
  ASSUME LifecycleInv, DeadlinePasses
  PROVE  LifecycleInv'
<1>1. /\ deadline' = TRUE
      /\ UNCHANGED <<stage, owner, listener, inflight, queued, flushed, abandoned, overdue, opened, rounds>>
  BY DEF DeadlinePasses
<1>2. LifecycleTypeOK' /\ ServersDrained' /\ DrainedWorkIsDurable'
  BY <1>1 DEF LifecycleInv, LifecycleTypeOK, ServersDrained, PastDrain, DrainedWorkIsDurable
<1>. QED
  BY <1>1, <1>2, SideStep

\* Requests.
LEMMA RequestsKeep ==
  ASSUME LifecycleInv, NEW r \in Requests, Arrive(r) \/ Hijack(r) \/ Finish(r)
  PROVE  LifecycleInv'
<1>1. LifecycleTypeOK /\ ServersDrained /\ DrainedWorkIsDurable
  BY DEF LifecycleInv
<1>2. PICK new \in {"running", "hijacked", "ended"} :
           /\ inflight' = [inflight EXCEPT ![r] = new]
           /\ new = "running" => listener[ServerOf[r]] = "open" /\ inflight[r] = "none"
           /\ new # "running" => inflight[r] \in {"running", "hijacked"}
  BY DEF Arrive, Hijack, Finish
<1>3. UNCHANGED <<stage, owner, listener, deadline, queued, flushed, abandoned, overdue, opened, rounds>>
  BY DEF Arrive, Hijack, Finish
<1>4. LifecycleTypeOK'
  BY <1>1, <1>2, <1>3 DEF LifecycleTypeOK
<1>5. \A q \in Requests : inflight'[q] = IF q = r THEN new ELSE inflight[q]
  BY <1>1, <1>2 DEF LifecycleTypeOK
<1>6. ServersDrained'
  <2>1. new = "running" => ~PastDrain(ServerOf[r])
    BY <1>1, <1>2, Users DEF ServersDrained
  <2>2. new = "running" => stage.at \notin Stopping
    BY <2>1 DEF PastDrain
  <2>3. \A s : PastDrain(s)' <=> PastDrain(s)
    BY <1>3 DEF PastDrain
  <2>4. \A q \in Requests :
          /\ listener'[ServerOf[q]] = "new" => inflight'[q] = "none"
          /\ PastDrain(ServerOf[q])' /\ inflight'[q] = "running" => deadline'
          /\ stage'.at \in Stopping /\ inflight'[q] \in {"running", "hijacked"} => q \in overdue'
    BY <1>1, <1>2, <1>3, <1>5, <2>1, <2>2, <2>3 DEF ServersDrained
  <2>. QED
    BY <1>1, <1>3, <2>3, <2>4 DEF ServersDrained
<1>7. DrainedWorkIsDurable'
  BY <1>1, <1>3 DEF DrainedWorkIsDurable
<1>. QED
  BY <1>3, <1>4, <1>6, <1>7, SideStep

\* An owner that has begun to stop is not found before the servers are drained.
LEMMA StoppedLate ==
  ASSUME LifecycleInv, NEW c \in Owners, owner[c] \in {"finishing", "cancelled", "stopped"}
  PROVE  stage.at \in Stopping
BY Positions DEF LifecycleInv, LifecycleTypeOK, OwnersOrdered, Serving

LEMMA MutateKeeps ==
  ASSUME LifecycleInv, NEW r \in Requests, NEW c \in Flushing, Mutate(r, c)
  PROVE  LifecycleInv'
<1>1. LifecycleTypeOK /\ ServersDrained /\ DrainedWorkIsDurable
  BY DEF LifecycleInv
<1>2. /\ inflight[r] \in {"running", "hijacked"} /\ queued' = [queued EXCEPT ![c] = @ \cup {r}]
      /\ UNCHANGED <<stage, owner, listener, inflight, deadline, flushed, abandoned, overdue, opened, rounds>>
  BY DEF Mutate
<1>3. LifecycleTypeOK'
  BY <1>1, <1>2 DEF LifecycleTypeOK
<1>4. ServersDrained'
  BY <1>1, <1>2 DEF ServersDrained, PastDrain
<1>5. DrainedWorkIsDurable'
  <2>1. owner[c] = "stopped" => r \in overdue
    BY <1>1, <1>2, Users, StoppedLate DEF ServersDrained
  <2>2. \A d \in Flushing : queued'[d] = IF d = c THEN queued[d] \cup {r} ELSE queued[d]
    BY <1>1, <1>2 DEF LifecycleTypeOK
  <2>. QED
    BY <1>1, <1>2, <2>1, <2>2 DEF DrainedWorkIsDurable
<1>. QED
  BY <1>2, <1>3, <1>4, <1>5, SideStep

-----------------------------------------------------------------------------
(* Steps of the owners.                                                       *)

\* One owner moves to the state st; it begins to stop only when it is its turn.
OwnerStep(c, st) ==
  /\ owner' = [owner EXCEPT ![c] = st]
  /\ \/ owner[c] \in {"idle", "working"} /\ st \in {"idle", "working"}
     \/ /\ owner[c] \in {"idle", "working"} /\ st \in {"finishing", "cancelled"}
        /\ stage.at = "stop" /\ stage.owner \in 1..Len(Components) /\ c = Components[stage.owner]
     \/ owner[c] \in {"finishing", "cancelled"} /\ st \in {"cancelled", "stopped"}
  /\ abandoned \subseteq abandoned'
  /\ queued' \in [Flushing -> SUBSET Requests] /\ flushed' \in [Flushing -> SUBSET Requests]
  /\ rounds' \in Nat
  /\ UNCHANGED <<stage, listener, inflight, deadline, overdue, opened>>

LEMMA OwnerStepKeeps ==
  ASSUME LifecycleInv, NEW c \in Owners, NEW st, OwnerStep(c, st), DrainedWorkIsDurable'
  PROVE  LifecycleInv'
<1>1. LifecycleTypeOK /\ StagesOrdered /\ OwnersOrdered /\ ServersDrained
  BY DEF LifecycleInv
<1>2. PICK k \in 1..Len(Components) : c = Components[k]
  BY Positions
<1>3. /\ owner'[c] = st /\ DOMAIN owner' = Owners
      /\ \A i \in 1..Len(Components) : i # k => owner'[Components[i]] = owner[Components[i]]
  BY <1>1, <1>2, OwnerMoves DEF OwnerStep
<1>4. UNCHANGED <<stage, listener, inflight, deadline, overdue, opened>>
  BY DEF OwnerStep
<1>5. LifecycleTypeOK'
  <2>1. st \in {"idle", "working", "finishing", "cancelled", "stopped"}
    BY DEF OwnerStep
  <2>2. owner' \in [Owners -> {"off", "idle", "working", "finishing", "cancelled", "stopped"}]
    BY <1>1, <2>1 DEF OwnerStep, LifecycleTypeOK
  <2>3. /\ queued' \in [Flushing -> SUBSET Requests] /\ flushed' \in [Flushing -> SUBSET Requests]
        /\ rounds' \in Nat
    BY DEF OwnerStep
  <2>. QED
    BY <1>1, <1>4, <2>2, <2>3 DEF LifecycleTypeOK
<1>6. StagesOrdered'
  BY <1>1, <1>4 DEF StagesOrdered
<1>7. OwnersOrdered'
  <2>1. owner[c] \in {"finishing", "cancelled"} => stage.at \in Stopping
    BY StoppedLate
  <2>2. /\ stage.at = "activate" => owner'[c] \in (IF k < stage.owner THEN {"idle", "working"} ELSE {"off"})
        /\ stage.at \in Serving => owner'[c] \in {"idle", "working"}
        /\ stage.at \in Stopping =>
             /\ k < stage.owner => owner'[c] \in {"idle", "working"}
             /\ k > stage.owner => owner'[c] \in {"off", "stopped"} \/ c \in abandoned'
    <3>1. CASE owner[c] \in {"idle", "working"} /\ st \in {"idle", "working"}
      BY <1>1, <1>2, <1>3, <3>1 DEF OwnerStep, OwnersOrdered
    <3>2. CASE /\ owner[c] \in {"idle", "working"} /\ st \in {"finishing", "cancelled"}
               /\ stage.at = "stop" /\ stage.owner \in 1..Len(Components) /\ c = Components[stage.owner]
      <4>1. k = stage.owner
        BY <1>2, <3>2, Positions
      <4>2. ~(k < stage.owner) /\ ~(k > stage.owner)
        BY <1>2, <4>1, Positions
      <4>. QED
        BY <3>2, <4>2 DEF Serving
    <3>3. CASE owner[c] \in {"finishing", "cancelled"} /\ st \in {"cancelled", "stopped"}
      <4>1. stage.at \in Stopping /\ stage.at # "activate" /\ stage.at \notin Serving
        BY <2>1, <3>3 DEF Serving, Stopping
      <4>2. ~(k < stage.owner)
        BY <1>1, <1>2, <3>3, <4>1 DEF OwnersOrdered
      <4>3. k > stage.owner => c \in abandoned
        BY <1>1, <1>2, <3>3, <4>1 DEF OwnersOrdered
      <4>. QED
        BY <4>1, <4>2, <4>3 DEF OwnerStep
    <3>. QED
      BY <3>1, <3>2, <3>3 DEF OwnerStep
  <2>. SUFFICES ASSUME NEW i \in 1..Len(Components)
                PROVE  /\ stage.at = "activate" =>
                            owner'[Components[i]] \in (IF i < stage.owner THEN {"idle", "working"} ELSE {"off"})
                       /\ stage.at \in Serving => owner'[Components[i]] \in {"idle", "working"}
                       /\ stage.at \in Stopping =>
                            /\ i < stage.owner => owner'[Components[i]] \in {"idle", "working"}
                            /\ i > stage.owner => \/ owner'[Components[i]] \in {"off", "stopped"}
                                                  \/ Components[i] \in abandoned'
    BY <1>4 DEF OwnersOrdered
  <2>3. CASE i = k
    BY <1>2, <2>2, <2>3
  <2>4. CASE i # k
    BY <1>1, <1>3, <2>4 DEF OwnersOrdered, OwnerStep
  <2>. QED
    BY <2>3, <2>4
<1>8. ServersDrained'
  BY <1>1, <1>4 DEF ServersDrained, PastDrain
<1>. QED
  BY <1>5, <1>6, <1>7, <1>8 DEF LifecycleInv

\* What a round writes leaves the queue of its owner and of no other.
LEMMA WrittenShrinks ==
  ASSUME LifecycleTypeOK, NEW c \in Owners, Written(c) \/ UNCHANGED <<flushed, queued>>
  PROVE  /\ queued' \in [Flushing -> SUBSET Requests] /\ flushed' \in [Flushing -> SUBSET Requests]
         /\ \A d \in Flushing : queued'[d] \subseteq queued[d]
         /\ c \in Flushing /\ Written(c) => queued'[c] = {}
BY DEF Written, LifecycleTypeOK

LEMMA RoundsKeep ==
  ASSUME LifecycleInv, NEW c \in Owners, BeginRound(c) \/ EndRound(c)
  PROVE  LifecycleInv'
<1>1. LifecycleTypeOK /\ DrainedWorkIsDurable
  BY DEF LifecycleInv
<1>2. CASE BeginRound(c)
  <2>1. OwnerStep(c, "working")
    BY <1>1, <1>2 DEF BeginRound, OwnerStep, LifecycleTypeOK
  <2>2. DrainedWorkIsDurable'
    BY <1>1, <1>2 DEF BeginRound, DrainedWorkIsDurable, LifecycleTypeOK
  <2>. QED
    BY <2>1, <2>2, OwnerStepKeeps
<1>3. CASE EndRound(c)
  <2>. DEFINE st == IF owner[c] = "working" THEN "idle" ELSE "cancelled"
  <2>1. /\ queued' \in [Flushing -> SUBSET Requests] /\ flushed' \in [Flushing -> SUBSET Requests]
        /\ \A d \in Flushing : queued'[d] \subseteq queued[d]
    BY <1>1, <1>3, WrittenShrinks DEF EndRound
  <2>2. /\ owner' = [owner EXCEPT ![c] = st] /\ owner[c] \in {"working", "finishing"}
        /\ UNCHANGED <<stage, listener, inflight, deadline, abandoned, overdue, opened, rounds>>
    BY <1>3 DEF EndRound
  <2>3. OwnerStep(c, st)
    BY <1>1, <2>1, <2>2 DEF OwnerStep, LifecycleTypeOK
  <2>4. DrainedWorkIsDurable'
    <3>1. \A d \in Owners : owner'[d] = IF d = c THEN st ELSE owner[d]
      BY <1>1, <2>2 DEF LifecycleTypeOK
    <3>. QED
      BY <1>1, <2>1, <2>2, <3>1, Users DEF DrainedWorkIsDurable
  <2>. QED
    BY <2>3, <2>4, OwnerStepKeeps
<1>. QED
  BY <1>2, <1>3

\* The final flush saves what a drained request left, or the owner is known to
\* have failed.
LEMMA StopsItselfKeeps ==
  ASSUME LifecycleInv, NEW c \in Owners, StopsItself(c)
  PROVE  LifecycleInv'
<1>1. LifecycleTypeOK /\ DrainedWorkIsDurable
  BY DEF LifecycleInv
<1>2. /\ owner[c] = "cancelled" /\ owner' = [owner EXCEPT ![c] = "stopped"]
      /\ UNCHANGED <<stage, listener, inflight, deadline, overdue, opened, rounds>>
      /\ \/ Written(c) /\ abandoned' = abandoned
         \/ abandoned' = abandoned \cup {c} /\ UNCHANGED <<flushed, queued>>
  BY DEF StopsItself, FinalFlush
<1>3. /\ queued' \in [Flushing -> SUBSET Requests] /\ flushed' \in [Flushing -> SUBSET Requests]
      /\ \A d \in Flushing : queued'[d] \subseteq queued[d]
      /\ c \in Flushing /\ Written(c) => queued'[c] = {}
  BY <1>1, <1>2, WrittenShrinks
<1>4. OwnerStep(c, "stopped")
  BY <1>1, <1>2, <1>3 DEF OwnerStep, LifecycleTypeOK
<1>5. DrainedWorkIsDurable'
  <2>1. \A d \in Owners : owner'[d] = IF d = c THEN "stopped" ELSE owner[d]
    BY <1>1, <1>2 DEF LifecycleTypeOK
  <2>. SUFFICES ASSUME NEW d \in Flushing, owner'[d] = "stopped", d \notin abandoned'
                PROVE  queued'[d] \subseteq overdue
    BY <1>2 DEF DrainedWorkIsDurable
  <2>2. CASE d = c
    BY <1>2, <1>3, <2>2
  <2>3. CASE d # c
    BY <1>1, <1>2, <1>3, <2>1, <2>3, Users DEF DrainedWorkIsDurable
  <2>. QED
    BY <2>2, <2>3
<1>. QED
  BY <1>4, <1>5, OwnerStepKeeps

LEMMA StopComponentKeeps ==
  ASSUME LifecycleInv, StopComponent
  PROVE  LifecycleInv'
<1>. DEFINE c == Components[stage.owner]
            st == IF owner[c] = "working" THEN "finishing" ELSE "cancelled"
<1>1. LifecycleTypeOK /\ StagesOrdered /\ DrainedWorkIsDurable
  BY DEF LifecycleInv
<1>2. /\ stage.at = "stop" /\ stage.owner > 0 /\ owner[c] \in {"idle", "working"}
      /\ owner' = [owner EXCEPT ![c] = st]
      /\ UNCHANGED <<stage, listener, inflight, deadline, queued, flushed, abandoned, overdue, opened, rounds>>
  BY DEF StopComponent, At
<1>3. stage.owner \in 1..Len(Components) /\ c \in Owners
  BY <1>1, <1>2, Positions DEF LifecycleTypeOK, StagesOrdered, Stopping
<1>4. OwnerStep(c, st)
  BY <1>1, <1>2, <1>3 DEF OwnerStep, LifecycleTypeOK
<1>5. DrainedWorkIsDurable'
  <2>1. \A d \in Owners : owner'[d] = IF d = c THEN st ELSE owner[d]
    BY <1>1, <1>2 DEF LifecycleTypeOK
  <2>. QED
    BY <1>1, <1>2, <2>1, Users DEF DrainedWorkIsDurable
<1>. QED
  BY <1>3, <1>4, <1>5, OwnerStepKeeps

LEMMA JoinComponentKeeps ==
  ASSUME LifecycleInv, JoinComponent
  PROVE  LifecycleInv'
<1>. DEFINE k == stage.owner
            c == Components[k]
<1>1. LifecycleTypeOK /\ StagesOrdered /\ OwnersOrdered /\ ServersDrained /\ DrainedWorkIsDurable
  BY DEF LifecycleInv
<1>2. /\ stage.at = "stop" /\ k > 0 /\ stage' = [stage EXCEPT !.owner = k - 1]
      /\ UNCHANGED <<owner, listener, inflight, deadline, queued, flushed, overdue, opened, rounds>>
      /\ abandoned \subseteq abandoned' /\ (owner[c] = "stopped" \/ c \in abandoned')
  BY DEF JoinComponent, At, Joined
<1>3. k \in 1..Len(Components)
  BY <1>1, <1>2, Positions DEF LifecycleTypeOK, StagesOrdered, Stopping
<1>4. stage'.at = "stop" /\ stage'.owner = k - 1 /\ k - 1 \in 0..(Len(Components) + 1)
  BY <1>1, <1>2, <1>3, Positions DEF LifecycleTypeOK
<1>5. LifecycleTypeOK'
  BY <1>1, <1>2, <1>4 DEF LifecycleTypeOK
<1>6. StagesOrdered'
  BY <1>1, <1>2, <1>3, <1>4, Positions DEF StagesOrdered, Serving, Stopping
<1>7. OwnersOrdered'
  <2>. SUFFICES ASSUME NEW i \in 1..Len(Components)
                PROVE  /\ i < k - 1 => owner[Components[i]] \in {"idle", "working"}
                       /\ i > k - 1 => \/ owner[Components[i]] \in {"off", "stopped"}
                                       \/ Components[i] \in abandoned'
    BY <1>2, <1>4 DEF OwnersOrdered, Serving
  <2>1. /\ i < k => owner[Components[i]] \in {"idle", "working"}
        /\ i > k => owner[Components[i]] \in {"off", "stopped"} \/ Components[i] \in abandoned
    BY <1>1, <1>2 DEF OwnersOrdered, Stopping
  <2>2. /\ i < k - 1 => i < k
        /\ i > k - 1 => i > k \/ i = k
    BY <1>3
  <2>. QED
    BY <1>2, <2>1, <2>2
<1>8. ServersDrained'
  <2>1. \A s : PastDrain(s) /\ PastDrain(s)'
    BY <1>2, <1>4 DEF PastDrain, Stopping
  <2>2. k < Len(Components) => k - 1 < Len(Components)
    BY <1>3, Positions
  <2>3. \A s \in Servers : listener'[s] = "closed" \/ (listener'[s] = "new" /\ k - 1 < Len(Components))
    BY <1>1, <1>2, <2>1, <2>2 DEF ServersDrained
  <2>4. stage.at \in Stopping
    BY <1>2 DEF Stopping
  <2>. QED
    BY <1>1, <1>2, <1>4, <2>1, <2>3, <2>4 DEF ServersDrained
<1>9. DrainedWorkIsDurable'
  BY <1>1, <1>2 DEF DrainedWorkIsDurable
<1>. QED
  BY <1>5, <1>6, <1>7, <1>8, <1>9 DEF LifecycleInv

LEMMA CloseResourcesKeeps ==
  ASSUME LifecycleInv, CloseResources
  PROVE  LifecycleInv'
<1>1. /\ stage.at = "stop" /\ stage.owner = 0 /\ opened' \subseteq opened
      /\ UNCHANGED <<stage, owner, listener, inflight, deadline, queued, flushed, abandoned, overdue, rounds>>
  BY DEF CloseResources, At
<1>2. LifecycleTypeOK'
  BY <1>1 DEF LifecycleInv, LifecycleTypeOK
<1>3. StagesOrdered'
  BY <1>1 DEF LifecycleInv, StagesOrdered, Stopping
<1>4. OwnersOrdered' /\ ServersDrained' /\ DrainedWorkIsDurable'
  BY <1>1 DEF LifecycleInv, OwnersOrdered, ServersDrained, PastDrain, DrainedWorkIsDurable
<1>. QED
  BY <1>2, <1>3, <1>4 DEF LifecycleInv

-----------------------------------------------------------------------------
LEMMA NextKeeps == LifecycleInv /\ [LifecycleNext]_lifecycleVars => LifecycleInv'
<1>. SUFFICES ASSUME LifecycleInv, [LifecycleNext]_lifecycleVars
              PROVE  LifecycleInv'
  OBVIOUS
<1>1. CASE MainStep
  BY <1>1, ActivateComponentKeeps, StartServersKeeps, ListenersKeep, DrainKeeps,
     StopComponentKeeps, JoinComponentKeeps, CloseResourcesKeeps DEF MainStep
<1>2. CASE BeginShutdown
  BY <1>2, DrainKeeps
<1>3. CASE DeadlinePasses
  BY <1>3, DeadlinePassesKeeps
<1>4. CASE \E s \in Servers : Alive /\ Listen(s)
  BY <1>4, ListenersKeep
<1>5. CASE \E r \in Requests :
             Alive /\ (Arrive(r) \/ Hijack(r) \/ Finish(r) \/ \E c \in Flushing : Mutate(r, c))
  BY <1>5, RequestsKeep, MutateKeeps
<1>6. CASE \E c \in Owners : Alive /\ (BeginRound(c) \/ EndRound(c) \/ StopsItself(c))
  BY <1>6, RoundsKeep, StopsItselfKeeps
<1>7. CASE UNCHANGED lifecycleVars
  BY <1>7 DEF lifecycleVars, LifecycleInv, LifecycleTypeOK, StagesOrdered, OwnersOrdered,
     ServersDrained, PastDrain, DrainedWorkIsDurable
<1>. QED
  BY <1>1, <1>2, <1>3, <1>4, <1>5, <1>6, <1>7 DEF LifecycleNext

\* The writer is closed only at the last stage, when no owner is left to stop.
LEMMA InvImpliesWorkIsSaved == LifecycleInv => WorkIsSaved
<1>. SUFFICES ASSUME LifecycleInv
              PROVE  WorkIsSaved
  OBVIOUS
<1>1. LifecycleTypeOK /\ StagesOrdered /\ OwnersOrdered /\ ServersDrained /\ DrainedWorkIsDurable
  BY DEF LifecycleInv
<1>2. StorageOutlivesUsers
  <2>. SUFFICES ASSUME "writer" \notin opened
                PROVE  /\ \A c \in StoreUsers : owner[c] \notin {"off", "stopped"} => c \in abandoned
                       /\ \A r \in Requests : /\ inflight[r] = "hijacked" => r \in overdue
                                              /\ inflight[r] = "running" => deadline
    BY DEF StorageOutlivesUsers
  <2>1. stage.at \in Stopping /\ stage.owner = 0
    BY <1>1 DEF StagesOrdered
  <2>2. \A c \in StoreUsers : owner[c] \notin {"off", "stopped"} => c \in abandoned
    <3>1. \A i \in 1..Len(Components) : i > stage.owner
      BY <2>1, Positions
    <3>2. \A i \in 1..Len(Components) : owner[Components[i]] \in {"off", "stopped"} \/ Components[i] \in abandoned
      BY <1>1, <2>1, <3>1 DEF OwnersOrdered
    <3>. QED
      BY <3>2, Positions, Users
  <2>3. \A s : PastDrain(s)
    BY <2>1 DEF PastDrain
  <2>. QED
    BY <1>1, <2>1, <2>2, <2>3 DEF ServersDrained
<1>. QED
  BY <1>1, <1>2 DEF WorkIsSaved

\* However the process is started, interrupted and stopped, the writer outlives
\* everyone but the owners that failed to stop and the requests that outlived
\* the drain, and what drained requests left in memory is on disk once its owner
\* has stopped (runApplication, stopStartedOwners, finalFlush).
THEOREM WorkSurvivesShutdown == LifecycleSpec => []WorkIsSaved
<1>1. LifecycleSpec => []LifecycleInv
  BY InitHolds, NextKeeps, PTL DEF LifecycleSpec
<1>. QED
  BY <1>1, InvImpliesWorkIsSaved, PTL
=============================================================================

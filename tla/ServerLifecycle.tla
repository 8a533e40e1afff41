--------------------------- MODULE ServerLifecycle ---------------------------
(***************************************************************************)
(* The process around the proxy (cmd/switch-a): runApplication activates   *)
(* the background owners one after another, starts both servers, waits for *)
(* a signal or a failing listener, drains the servers under one deadline,  *)
(* stops the owners in reverse order, and closes captures, the analytics   *)
(* database and the writer.  Requests and owners run concurrently with all *)
(* of it and use the stores until they end.                                *)
(*                                                                         *)
(* A deadline may pass at any moment while something waits on it.  A       *)
(* connection that became a WebSocket session is no longer the server's:   *)
(* net/http neither waits for it nor ends it.                              *)
(***************************************************************************)
EXTENDS Integers, Sequences, FiniteSets, Functions

CONSTANTS
  Components,   \* the owners in activation order
  Starting,     \* the components whose start may return an error
  Requests,     \* requests that may arrive
  ServerOf,     \* [Requests -> {"proxy", "admin"}]
  MaxRounds     \* bound on the periodic rounds of all owners

Servers == {"proxy", "admin"}
Owners == Range(Components)

(* The owners whose rounds use the writer. *)
StoreUsers == {"codex_maintenance", "sticky_cache", "log_cleanup", "rule_statistics"}

(* The owners that stop waiting for their goroutine when their own deadline *)
(* passes, and those that write what is queued in memory before they end.   *)
Bounded == {"codex_maintenance"}
Flushing == {"sticky_cache", "rule_statistics"}

ASSUME LifecycleAssumption ==
  /\ Components \in Seq(Owners) /\ IsInjective(Components)
  /\ StoreUsers \cup Flushing \subseteq Owners
  /\ Starting \subseteq Owners /\ MaxRounds \in Nat
  /\ ServerOf \in [Requests -> Servers]

VARIABLES
  stage,     \* where runApplication stands: [at, owner]
  owner,     \* [Owners -> state of the owner's goroutine]
  listener,  \* [Servers -> state of the listening socket]
  inflight,  \* [Requests -> state of the request]
  deadline,  \* TRUE once the servers' shared shutdown deadline has passed
  queued,    \* [Flushing -> requests whose mutation is only in memory]
  flushed,   \* [Flushing -> requests whose mutation is on disk]
  abandoned, \* owners whose final flush or stop failed
  overdue,   \* requests still running when the servers had been drained
  opened,    \* the resources that are open: captures, analytics, writer
  rounds     \* rounds taken so far

lifecycleVars ==
  <<stage, owner, listener, inflight, deadline, queued, flushed, abandoned, overdue, opened, rounds>>

LifecycleInit ==
  /\ stage = [at |-> "activate", owner |-> 1]
  /\ owner = [c \in Owners |-> "off"]
  /\ listener = [s \in Servers |-> "new"]
  /\ inflight = [r \in Requests |-> "none"]
  /\ deadline = FALSE
  /\ queued = [c \in Flushing |-> {}] /\ flushed = [c \in Flushing |-> {}]
  /\ abandoned = {} /\ overdue = {}
  /\ opened = {"captures", "analytics", "writer"}
  /\ rounds = 0

At(step) == stage.at = step
Moves(step) == stage' = [stage EXCEPT !.at = step]

----------------------------------------------------------------------------
(* Activation. *)

(* A failing start stops every earlier owner before the error returns. *)
AfterFailedStart == [at |-> "stop", owner |-> stage.owner - 1]

ActivateComponent ==
  /\ At("activate") /\ stage.owner <= Len(Components)
  /\ LET c == Components[stage.owner] IN
     \/ /\ owner' = [owner EXCEPT ![c] = "idle"]
        /\ stage' = [stage EXCEPT !.owner = @ + 1]
     \/ /\ c \in Starting
        /\ stage' = AfterFailedStart
        /\ UNCHANGED owner
  /\ UNCHANGED <<listener, inflight, deadline, queued, flushed, abandoned, overdue, opened, rounds>>

StartServers ==
  /\ At("activate") /\ stage.owner > Len(Components)
  /\ stage' = [at |-> "serve", owner |-> Len(Components)]
  /\ UNCHANGED <<owner, listener, inflight, deadline, queued, flushed, abandoned, overdue, opened, rounds>>

(* The goroutine of startServers: Listen may find the port taken, and Serve *)
(* on a server that was shut down returns at once.                          *)
Listen(s) ==
  /\ ~At("activate") /\ stage.owner = Len(Components) /\ listener[s] = "new"
  /\ \E outcome \in {"open", "failed"} : listener' = [listener EXCEPT ![s] = outcome]
  /\ UNCHANGED <<stage, owner, inflight, deadline, queued, flushed, abandoned, overdue, opened, rounds>>

----------------------------------------------------------------------------
(* Requests. *)

Arrive(r) ==
  /\ listener[ServerOf[r]] = "open" /\ inflight[r] = "none"
  /\ inflight' = [inflight EXCEPT ![r] = "running"]
  /\ UNCHANGED <<stage, owner, listener, deadline, queued, flushed, abandoned, overdue, opened, rounds>>

(* Accept of a WebSocket client takes the connection from the server. *)
Hijack(r) ==
  /\ inflight[r] = "running" /\ ServerOf[r] = "proxy"
  /\ inflight' = [inflight EXCEPT ![r] = "hijacked"]
  /\ UNCHANGED <<stage, owner, listener, deadline, queued, flushed, abandoned, overdue, opened, rounds>>

(* A request counts a rule hit or binds its client to a provider. *)
Mutate(r, c) ==
  /\ inflight[r] \in {"running", "hijacked"} /\ ServerOf[r] = "proxy"
  /\ c = "rule_statistics" => inflight[r] = "running"
  /\ r \notin queued[c] \cup flushed[c]
  /\ queued' = [queued EXCEPT ![c] = @ \cup {r}]
  /\ UNCHANGED <<stage, owner, listener, inflight, deadline, flushed, abandoned, overdue, opened, rounds>>

Finish(r) ==
  /\ inflight[r] \in {"running", "hijacked"}
  /\ inflight' = [inflight EXCEPT ![r] = "ended"]
  /\ UNCHANGED <<stage, owner, listener, deadline, queued, flushed, abandoned, overdue, opened, rounds>>

----------------------------------------------------------------------------
(* Owners.  Every loop is: wait for a tick or the stop, do a round. *)

BeginRound(c) ==
  /\ owner[c] = "idle" /\ rounds < MaxRounds
  /\ owner' = [owner EXCEPT ![c] = "working"]
  /\ rounds' = rounds + 1
  /\ UNCHANGED <<stage, listener, inflight, deadline, queued, flushed, abandoned, overdue, opened>>

(* A round writes what is queued, or fails and leaves it queued. *)
Written(c) ==
  IF c \in Flushing
  THEN /\ flushed' = [flushed EXCEPT ![c] = @ \cup queued[c]]
       /\ queued' = [queued EXCEPT ![c] = {}]
  ELSE UNCHANGED <<flushed, queued>>

EndRound(c) ==
  /\ owner[c] \in {"working", "finishing"}
  /\ Written(c) \/ UNCHANGED <<flushed, queued>>
  /\ owner' = [owner EXCEPT ![c] = IF @ = "working" THEN "idle" ELSE "cancelled"]
  /\ UNCHANGED <<stage, listener, inflight, deadline, abandoned, overdue, opened, rounds>>

FinalFlush(c) ==
  \/ Written(c) /\ UNCHANGED abandoned
  \/ c \in Flushing /\ abandoned' = abandoned \cup {c} /\ UNCHANGED <<flushed, queued>>

StopsItself(c) ==
  /\ owner[c] = "cancelled"
  /\ FinalFlush(c)
  /\ owner' = [owner EXCEPT ![c] = "stopped"]
  /\ UNCHANGED <<stage, listener, inflight, deadline, overdue, opened, rounds>>

----------------------------------------------------------------------------
(* Shutdown. *)

(* A signal, or a listener that failed. *)
BeginShutdown ==
  /\ At("serve")
  /\ Moves("drain_proxy")
  /\ UNCHANGED <<owner, listener, inflight, deadline, queued, flushed, abandoned, overdue, opened, rounds>>

(* http.Server.Shutdown closes the listener, then waits for the handlers    *)
(* that still hold their connection, at most until the deadline.            *)
CloseListener(s, step) ==
  /\ At(step) /\ listener[s] # "closed"
  /\ listener' = [listener EXCEPT ![s] = "closed"]
  /\ UNCHANGED <<stage, owner, inflight, deadline, queued, flushed, abandoned, overdue, opened, rounds>>

MutDrained(s) == \A r \in Requests : ServerOf[r] = s => inflight[r] # "running"
Drained(s) == deadline \/ \A r \in Requests : ServerOf[r] = s => inflight[r] # "running"

ShutdownServer(s, step, next) ==
  /\ At(step) /\ listener[s] = "closed" /\ Drained(s)
  /\ Moves(next)
  /\ UNCHANGED <<owner, listener, inflight, deadline, queued, flushed, abandoned, overdue, opened, rounds>>

(* The OAuth callback endpoint is the last of the three. *)
ShutdownAuth ==
  /\ At("drain_auth")
  /\ Moves("stop")
  /\ overdue' = {r \in Requests : inflight[r] \in {"running", "hijacked"}}
  /\ UNCHANGED <<owner, listener, inflight, deadline, queued, flushed, abandoned, opened, rounds>>

DeadlinePasses ==
  /\ stage.at \in {"drain_proxy", "drain_admin", "drain_auth"} /\ ~deadline
  /\ deadline' = TRUE
  /\ UNCHANGED <<stage, owner, listener, inflight, queued, flushed, abandoned, overdue, opened, rounds>>

(* applicationActivation.Shutdown: one owner after the other, last first. *)
StopComponent ==
  /\ At("stop") /\ stage.owner > 0
  /\ LET c == Components[stage.owner] IN
     /\ owner[c] \in {"idle", "working"}
     /\ owner' = [owner EXCEPT ![c] = IF @ = "working" THEN "finishing" ELSE "cancelled"]
  /\ UNCHANGED <<stage, listener, inflight, deadline, queued, flushed, abandoned, overdue, opened, rounds>>

MutJoined(c) == owner[c] \in {"finishing", "cancelled", "stopped"}
Joined(c) == owner[c] = "stopped"

JoinComponent ==
  /\ At("stop") /\ stage.owner > 0
  /\ LET c == Components[stage.owner] IN
     \/ Joined(c) /\ UNCHANGED abandoned
     \/ /\ c \in Bounded /\ owner[c] \in {"finishing", "cancelled"}
        /\ abandoned' = abandoned \cup {c}
  /\ stage' = [stage EXCEPT !.owner = @ - 1]
  /\ UNCHANGED <<owner, listener, inflight, deadline, queued, flushed, overdue, opened, rounds>>

(* The deferred closes run last in, first out. *)
NextClosed == IF "captures" \in opened THEN "captures"
              ELSE IF "analytics" \in opened THEN "analytics" ELSE "writer"

CloseResources ==
  /\ At("stop") /\ stage.owner = 0 /\ opened # {}
  /\ opened' = opened \ {NextClosed}
  /\ UNCHANGED <<stage, owner, listener, inflight, deadline, queued, flushed, abandoned, overdue, rounds>>

Exit ==
  /\ At("stop") /\ stage.owner = 0 /\ opened = {}
  /\ Moves("exited")
  /\ UNCHANGED <<owner, listener, inflight, deadline, queued, flushed, abandoned, overdue, opened, rounds>>

MainStep ==
  \/ ActivateComponent \/ StartServers
  \/ CloseListener("proxy", "drain_proxy") \/ ShutdownServer("proxy", "drain_proxy", "drain_admin")
  \/ CloseListener("admin", "drain_admin") \/ ShutdownServer("admin", "drain_admin", "drain_auth")
  \/ ShutdownAuth \/ StopComponent \/ JoinComponent \/ CloseResources \/ Exit

(* Nothing of the process runs after main returned. *)
Alive == ~At("exited")

LifecycleNext ==
  \/ MainStep
  \/ BeginShutdown
  \/ DeadlinePasses
  \/ \E s \in Servers : Alive /\ Listen(s)
  \/ \E r \in Requests : Alive /\ (Arrive(r) \/ Hijack(r) \/ Finish(r) \/ \E c \in Flushing : Mutate(r, c))
  \/ \E c \in Owners : Alive /\ (BeginRound(c) \/ EndRound(c) \/ StopsItself(c))

(* runApplication keeps going; a storage call returns and a stopped loop is *)
(* scheduled; deadlines pass.  Requests promise nothing.                    *)
LifecycleFairness ==
  /\ WF_lifecycleVars(MainStep) /\ WF_lifecycleVars(DeadlinePasses)
  /\ \A c \in Owners : /\ WF_lifecycleVars(Alive /\ EndRound(c))
                        /\ WF_lifecycleVars(Alive /\ StopsItself(c))

LifecycleSpec == LifecycleInit /\ [][LifecycleNext]_lifecycleVars /\ LifecycleFairness

----------------------------------------------------------------------------
(* The writer closes only under an owner that failed to stop in its time,  *)
(* and under a request that outlived the drain: one that had become a      *)
(* WebSocket session, or one the shutdown deadline overtook.  Holds also   *)
(* when activation failed half-way (main.go:100, startup_owners.go:90).    *)
StorageOutlivesUsers ==
  "writer" \notin opened =>
    /\ \A c \in StoreUsers : owner[c] \notin {"off", "stopped"} => c \in abandoned
    /\ \A r \in Requests : /\ inflight[r] = "hijacked" => r \in overdue
                           /\ inflight[r] = "running" => deadline

(* What a drained request counted or bound is on disk once the owner has   *)
(* stopped, unless that owner's final flush failed (completeServerLifecycle *)
(* stops the statistics worker after the servers).                          *)
DrainedWorkIsDurable ==
  \A c \in Flushing : owner[c] = "stopped" /\ c \notin abandoned => queued[c] \subseteq overdue

(* However long requests hang, a shutdown that began ends the process. *)
ShutdownEnds == ~(stage.at \in {"activate", "serve"}) ~> At("exited")

\* A shutdown keeps the storage open for whoever still writes and saves what the
\* drained requests left in memory (stopStartedOwners, finalFlush).
WorkIsSaved == StorageOutlivesUsers /\ DrainedWorkIsDurable

----------------------------------------------------------------------------
(* The inductive invariant behind the theorem of ServerLifecycleProofs. *)

Serving == {"serve", "drain_proxy", "drain_admin", "drain_auth"}
Stopping == {"stop", "exited"}

LifecycleTypeOK ==
  /\ stage \in [at : {"activate"} \cup Serving \cup Stopping, owner : 0..(Len(Components) + 1)]
  /\ owner \in [Owners -> {"off", "idle", "working", "finishing", "cancelled", "stopped"}]
  /\ listener \in [Servers -> {"new", "open", "failed", "closed"}]
  /\ inflight \in [Requests -> {"none", "running", "hijacked", "ended"}]
  /\ deadline \in BOOLEAN
  /\ queued \in [Flushing -> SUBSET Requests] /\ flushed \in [Flushing -> SUBSET Requests]
  /\ overdue \subseteq Requests /\ opened \subseteq {"captures", "analytics", "writer"} /\ rounds \in Nat

(* Every owner has started before the servers do, and the storage is left  *)
(* when no owner is left to stop.                                           *)
StagesOrdered ==
  /\ stage.at = "activate" => stage.owner >= 1
  /\ stage.at \in Serving => stage.owner = Len(Components)
  /\ stage.at \in Stopping => stage.owner <= Len(Components)
  /\ "writer" \notin opened => stage.at \in Stopping /\ stage.owner = 0

(* The owners on one side of the one being started or stopped have not     *)
(* begun to stop; those on the other never ran, have ended or were given up. *)
OwnersOrdered ==
  \A i \in 1..Len(Components) :
    /\ stage.at = "activate" =>
         owner[Components[i]] \in (IF i < stage.owner THEN {"idle", "working"} ELSE {"off"})
    /\ stage.at \in Serving => owner[Components[i]] \in {"idle", "working"}
    /\ stage.at \in Stopping =>
         /\ i < stage.owner => owner[Components[i]] \in {"idle", "working"}
         /\ i > stage.owner => owner[Components[i]] \in {"off", "stopped"} \/ Components[i] \in abandoned

(* The stages in which server s has been shut down. *)
PastDrain(s) == stage.at \in {"drain_auth"} \cup Stopping \cup (IF s = "proxy" THEN {"drain_admin"} ELSE {})

(* A server that was shut down accepts nothing, a request its handler still *)
(* runs has outlived the deadline, and one that never listened has none.     *)
ServersDrained ==
  /\ stage.at = "activate" => \A s \in Servers : listener[s] = "new"
  /\ \A s \in Servers : PastDrain(s) =>
       listener[s] = "closed" \/ (listener[s] = "new" /\ stage.owner < Len(Components))
  /\ \A r \in Requests :
       /\ listener[ServerOf[r]] = "new" => inflight[r] = "none"
       /\ PastDrain(ServerOf[r]) /\ inflight[r] = "running" => deadline
       /\ stage.at \in Stopping /\ inflight[r] \in {"running", "hijacked"} => r \in overdue

LifecycleInv ==
  LifecycleTypeOK /\ StagesOrdered /\ OwnersOrdered /\ ServersDrained /\ DrainedWorkIsDurable
=============================================================================

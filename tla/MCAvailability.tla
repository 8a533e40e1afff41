--------------------------- MODULE MCAvailability ----------------------------
(* Progress of the callers and administrators at the lifecycle gate, with    *)
(* and without a prepared reservation that holds it, of a route in its       *)
(* cooldown and of a shutdown. The components share no state: `part' picks   *)
(* the one that runs and the others stay in their initial state.             *)
EXTENDS ProviderLeases, ProviderReservation, HealthCircuit, ServerLifecycle, TLC

CONSTANTS c1, c2, u1, t1, s1, s2, v1, w1, w2, r1, r2, q1, q2

TwoWorkers == {w1, w2}
TwoRoutes == {r1, r2}
OwnRoute == (w1 :> r1) @@ (w2 :> r2)

(* The owners that use the stores, in activation order, and one that does not. *)
SomeComponents == <<"codex_maintenance", "sticky_cache", "log_cleanup", "active_registry", "rule_statistics">>
SomeServers == [r \in Requests |-> IF r = q1 THEN "proxy" ELSE "admin"]

VARIABLE part    \* the component that runs

AvailabilityInit ==
  /\ part \in {"leases", "reservation", "health", "lifecycle"}
  /\ Init /\ ReservationInit /\ HealthInit /\ LifecycleInit

OnlyLeases == part = "leases" /\ UNCHANGED <<part, reservationVars, healthVars, lifecycleVars>>
OnlyReservation == part = "reservation" /\ UNCHANGED <<part, vars, healthVars, lifecycleVars>>
OnlyHealth == part = "health" /\ UNCHANGED <<part, vars, reservationVars, lifecycleVars>>
OnlyLifecycle == part = "lifecycle" /\ UNCHANGED <<part, vars, reservationVars, healthVars>>

AvailabilityNext ==
  \/ OnlyLeases /\ Next
  \/ OnlyReservation /\ ReservationNext
  \/ OnlyHealth /\ HealthNext
  \/ OnlyLifecycle /\ LifecycleNext

availabilityVars == <<part, vars, reservationVars, healthVars, lifecycleVars>>

(* Each component's fairness, its n-th conjunct as its Turn(n).  Only one   *)
(* component runs, so weak fairness of the union of the n-th conjuncts is   *)
(* weak fairness of that component's.                                       *)
LeasesTurn(n) ==
  \/ n \in 1..2 /\ CallerStep(<<c1, c2>>[n])
  \/ n \in 3..4 /\ PermitClear(<<c1, c2>>[n - 2])
  \/ n \in 5..6 /\ AdminStep(<<u1, t1>>[n - 4])

ReservationTurn(n) ==
  \/ n \in 1..2 /\ ReservationStep(<<s1, s2>>[n])
  \/ n = 3 /\ \E s \in Sharers : SettleReservation(s)
  \/ n = 4 /\ WriterStep(v1)

HealthTurn(n) ==
  \/ n = 1 /\ Tick
  \/ n \in 2..3 /\ WorkerStep(<<w1, w2>>[n - 1])

LifecycleTurn(n) ==
  \/ n = 1 /\ MainStep
  \/ n = 2 /\ DeadlinePasses
  \/ n \in 3..7 /\ Alive /\ (EndRound(Components[n - 2]) \/ StopsItself(Components[n - 2]))

Turn(n) ==
  \/ part = "leases" /\ LeasesTurn(n) /\ OnlyLeases
  \/ part = "reservation" /\ ReservationTurn(n) /\ OnlyReservation
  \/ part = "health" /\ HealthTurn(n) /\ OnlyHealth
  \/ part = "lifecycle" /\ LifecycleTurn(n) /\ OnlyLifecycle

AvailabilitySpec == AvailabilityInit /\ [][AvailabilityNext]_availabilityVars /\ \A n \in 1..7 : WF_availabilityVars(Turn(n))
=============================================================================

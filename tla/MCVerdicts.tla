----------------------------- MODULE MCVerdicts ------------------------------
(* The circuit breaker and the internal-error rules. The components share no *)
(* state: `part' picks the one that runs and the others stay in one initial  *)
(* state.                                                                    *)
EXTENDS HealthCircuit, ErrorRuleSet, TLC

CONSTANTS x1, x2, r1

TwoWorkers == {x1, x2}
SameRoute == [w \in TwoWorkers |-> r1]

(* Requests and rules are named alike: one permutation serves both.           *)
VerdictsSymmetry == Permutations(TwoWorkers)

VARIABLE part    \* the component that runs

VerdictsInit ==
  /\ part \in {"health", "rules"}
  /\ HealthInit /\ RuleInit

OnlyHealth == part = "health" /\ UNCHANGED <<part, ruleVars>>
OnlyRules == part = "rules" /\ UNCHANGED <<part, healthVars>>

VerdictsNext ==
  \/ OnlyHealth /\ HealthNext
  \/ OnlyRules /\ RuleNext

verdictsVars == <<part, healthVars, ruleVars>>

VerdictsSpec == VerdictsInit /\ [][VerdictsNext]_verdictsVars
=============================================================================

---------------------------- MODULE MCCredentials ----------------------------
(* Credentials: the sessions requests refresh, and the logins and imports    *)
(* staged for them. The components share no state: `part' picks the one that *)
(* runs and the others stay in one initial state.                            *)
EXTENDS CredentialRefresh, LoginStaging, TLC

(* Goroutines and logins are named alike: one permutation serves *)
(* both components.                                                          *)
CredentialsSymmetry == Permutations(Workers)

VARIABLE part    \* the component that runs

CredentialsInit ==
  /\ part \in {"sessions", "staging"}
  /\ RefreshInit /\ StagingInit

OnlySessions == part = "sessions" /\ UNCHANGED <<part, stagingVars>>
OnlyStaging == part = "staging" /\ UNCHANGED <<part, refreshVars>>

CredentialsNext ==
  \/ OnlySessions /\ RefreshNext
  \/ OnlyStaging /\ StagingNext

credentialsVars == <<part, refreshVars, stagingVars>>

CredentialsSpec == CredentialsInit /\ [][CredentialsNext]_credentialsVars
=============================================================================

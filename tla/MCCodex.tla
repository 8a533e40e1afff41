------------------------------- MODULE MCCodex -------------------------------
(* Codex traffic: cookie jars, the ownership of conversations, a WebSocket   *)
(* session over several accounts, and a request with a disguised provider.   *)
(* The components share no state: `part' picks the one that runs and the     *)
(* others stay in one initial state.                                         *)
EXTENDS CookieJars, CodexContinuity, CodexSocket, MCRequestExecution

-----------------------------------------------------------------------------
(* Two accounts, each behind a route target, which conversations enter under  *)
(* different rules.                                                           *)

CONSTANTS t1, t2, a1, a2

MCAccountOf == [t \in {t1, t2} |-> IF t = t2 THEN a2 ELSE a1]
MCOutbound == [t \in {t1, t2} |-> "any"]
MCInbound == [t \in {t1, t2} |-> IF t = t1 THEN "same_identity" ELSE "any"]

-----------------------------------------------------------------------------

(* Requests, clients and scopes are named alike.                              *)
CodexSymmetry == Permutations(Requests) \cup Permutations(Clients) \cup Permutations(Jars)

VARIABLE part    \* the component that runs

CodexInit ==
  /\ part \in {"cookies", "continuity", "socket", "request"}
  /\ CookieInit /\ Init
  /\ ContinuityInit /\ (part # "continuity" => inPlay \subseteq Issued)
  /\ SocketInit /\ (part # "socket" => recovery = "keep" /\ header = Nothing)

OnlyCookies == part = "cookies" /\ UNCHANGED <<part, continuityVars, socketVars, vars>>
OnlyContinuity == part = "continuity" /\ UNCHANGED <<part, cookieVars, socketVars, vars>>
OnlySocket == part = "socket" /\ UNCHANGED <<part, cookieVars, continuityVars, vars>>
OnlyRequest == part = "request" /\ UNCHANGED <<part, cookieVars, continuityVars, socketVars>>

CodexNext ==
  \/ OnlyCookies /\ CookieNext
  \/ OnlyContinuity /\ ContinuityNext
  \/ OnlySocket /\ SocketNext
  \/ OnlyRequest /\ Next

codexVars == <<part, cookieVars, continuityVars, socketVars, vars>>

CodexSpec == CodexInit /\ [][CodexNext]_codexVars
=============================================================================

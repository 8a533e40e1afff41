----------------------------- MODULE MCRequests ------------------------------
(* One HTTP request and one WebSocket session from beginning to end. They    *)
(* share no state: `part' picks the one that runs and the other stays in one *)
(* initial state.                                                            *)
EXTENDS MCRequestExecution, WebSocketSession

VARIABLE part    \* the component that runs

RequestsInit ==
  /\ part \in {"http", "websocket"}
  /\ Init /\ (part # "http" => globalMax = 0)
  /\ SessionInit /\ (part # "websocket" => \A f \in Frames : kind[f] = "plain")

OnlyHttp == part = "http" /\ UNCHANGED <<part, sessionVars>>
OnlyWebSocket == part = "websocket" /\ UNCHANGED <<part, vars>>

RequestsNext ==
  \/ OnlyHttp /\ Next
  \/ OnlyWebSocket /\ SessionNext

requestsVars == <<part, vars, sessionVars>>

(* Each component's fairness, its n-th conjunct as its Turn(n).  Only one   *)
(* component runs, so weak fairness of the union of the n-th conjuncts is   *)
(* weak fairness of that component's.                                       *)
HttpTurn(n) ==
  \/ n = 1 /\ ExecuteProxy
  \/ n = 2 /\ ResponseCancelled

WebSocketTurn(n) == n = 1 /\ Gateway

Turn(n) ==
  \/ part = "http" /\ HttpTurn(n) /\ OnlyHttp
  \/ part = "websocket" /\ WebSocketTurn(n) /\ OnlyWebSocket

RequestsSpec == RequestsInit /\ [][RequestsNext]_requestsVars /\ \A n \in 1..2 : WF_requestsVars(Turn(n))
=============================================================================

------------------------------ MODULE MCTraffic ------------------------------
(* One request's bytes: the upload spool and the pending response. The       *)
(* components share no state: `part' picks the one that runs and the others  *)
(* stay in one initial state.                                                *)
EXTENDS PendingResponse, RequestUpload

-----------------------------------------------------------------------------
(* Small instances of RequestUpload: a whole body sent upstream while it   *)
(* is received, a whole body, one shorter than it declared and one beyond  *)
(* the limit whose facts are needed first.                                 *)

Upload(length, declared, needsFacts) ==
    [length |-> length, declared |-> declared, needsFacts |-> needsFacts]

SomeUploads == {Upload(2, 2, FALSE), Upload(2, -1, TRUE), Upload(1, 2, TRUE), Upload(3, -1, TRUE)}

-----------------------------------------------------------------------------

VARIABLE part    \* the component that runs

TrafficInit ==
  /\ part \in {"response", "upload"}
  /\ ResponseInit /\ (part # "response" => mode = "hold" /\ c.breaks = 1)
  /\ UploadInit /\ (part # "upload" => client.length = 3)

OnlyResponse == part = "response" /\ UNCHANGED <<part, uploadVars>>
OnlyUpload == part = "upload" /\ UNCHANGED <<part, responseVars>>

TrafficNext ==
  \/ OnlyResponse /\ ResponseNext
  \/ OnlyUpload /\ UploadNext

trafficVars == <<part, responseVars, uploadVars>>

TrafficSpec == TrafficInit /\ [][TrafficNext]_trafficVars
=============================================================================

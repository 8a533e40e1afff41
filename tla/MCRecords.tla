------------------------------ MODULE MCRecords ------------------------------
(* A WebSocket session, and what is kept about requests and providers: the   *)
(* capture session, usage accounting and the catalogue of providers. The     *)
(* components share no state: `part' picks the one that runs and the others  *)
(* stay in one initial state.                                                *)
EXTENDS WebSocketSession, CaptureSession, UsageAccounting, AdminCatalog, TLC

-----------------------------------------------------------------------------
(* Instances of UsageAccounting.                                              *)

U(p, c, t, r, rd, cr) ==
    [prompt |-> p, completion |-> c, total |-> t, reasoning |-> r, read |-> rd, creation |-> cr]

(* Every combination of absent, zero and small counters, and an impossible *)
(* one.                                                                    *)
EveryUsage ==
    [Counters -> {Missing, 1, 2}] \cup {U(-1, 1, 0, Missing, Missing, Missing), U(1, 1, 0, 0, 0, 0),
                                    U(0, 0, 0, Missing, 0, 0), U(2, 0, 0, 0, 2, 0)}

SomeSamples ==
    [anthropic |-> {U(1, 0, Missing, Missing, 1, 0), U(Missing, 2, Missing, Missing, Missing, Missing)},
     openai    |-> {U(2, 1, 3, 1, 1, 0), U(5, 2, Missing, Missing, Missing, Missing)}]

BothSides == {-1, 0}

-----------------------------------------------------------------------------
(* Instances of AdminCatalog for TLC.                                      *)

CONSTANTS p1, g1, t1, t2

SomeRows == {[enabled |-> TRUE, group |-> g1, types |-> {t1, t2}],
             [enabled |-> FALSE, group |-> NoOne, types |-> {t1}]}

SomeFiles ==
  {[groups |-> gs, rows |-> rows, policies |-> ps] :
     gs \in {{}, {g1}},
     rows \in {[p \in {} |-> NoOne]}
                \cup {[p \in {p1} |-> row] : row \in SomeRows},
     ps \in {{}, {[key |-> t2, target |-> p1, groups |-> {}]},
             {[key |-> t1, target |-> NoOne, groups |-> {g1}]}}}

CatalogSymmetry == Permutations(Admins)

-----------------------------------------------------------------------------

VARIABLE part    \* the component that runs

RecordsInit ==
  /\ part \in {"websocket", "capture", "usage", "catalog"}
  /\ CaptureInit /\ CatalogInit
  /\ SessionInit /\ (part # "websocket" => \A f \in Frames : kind[f] = "plain")
  /\ UsageInit /\ (part # "usage" => requestLogs = <<>>)

OnlyWebSocket == part = "websocket" /\ UNCHANGED <<part, captureVars, usageVars, catalogVars>>
OnlyCapture == part = "capture" /\ UNCHANGED <<part, sessionVars, usageVars, catalogVars>>
OnlyUsage == part = "usage" /\ UNCHANGED <<part, sessionVars, captureVars, catalogVars>>
OnlyCatalog == part = "catalog" /\ UNCHANGED <<part, sessionVars, captureVars, usageVars>>

RecordsNext ==
  \/ OnlyWebSocket /\ SessionNext
  \/ OnlyCapture /\ CaptureNext
  \/ OnlyUsage /\ UsageNext
  \/ OnlyCatalog /\ CatalogNext

recordsVars == <<part, sessionVars, captureVars, usageVars, catalogVars>>

RecordsSpec == RecordsInit /\ [][RecordsNext]_recordsVars
=============================================================================

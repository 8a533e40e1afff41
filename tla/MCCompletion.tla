---------------------------- MODULE MCCompletion -----------------------------
(* Progress of a pending response and of an export. The components share no  *)
(* state: `part' picks the one that runs and the others stay in one initial  *)
(* state.                                                                    *)
EXTENDS PendingResponse, CaptureExport

CONSTANTS e1, d1, d2

VARIABLE part    \* the component that runs

CompletionInit ==
  /\ part \in {"response", "export"}
  /\ ExportInit
  /\ ResponseInit /\ (part # "response" => mode = "hold" /\ c.breaks = 1)

OnlyResponse == part = "response" /\ UNCHANGED <<part, exportVars>>
OnlyExport == part = "export" /\ UNCHANGED <<part, responseVars>>

CompletionNext ==
  \/ OnlyResponse /\ ResponseNext
  \/ OnlyExport /\ ExportNext

completionVars == <<part, responseVars, exportVars>>

(* Each component's fairness, its n-th conjunct as its Turn(n).  Only one   *)
(* component runs, so weak fairness of the union of the n-th conjuncts is   *)
(* weak fairness of that component's.                                       *)
ResponseTurn(n) ==
  \/ n = 1 /\ RunStarts
  \/ n = 2 /\ TakeCommand
  \/ n = 3 /\ TakeEvent
  \/ n = 4 /\ TakeTimers
  \/ n = 5 /\ TakeCancellation
  \/ n = 6 /\ BodyPumpStep
  \/ n = 7 /\ c.bodyClosed /\ ReadReturns
  \/ n = 8 /\ TimerFires
  \/ n = 9 /\ Enqueue
  \/ n = 10 /\ ExecutorStep
  \/ n = 11 /\ executor = "done" /\ ClientLeaves

ExportTurn(n) ==
  \/ n = 1 /\ Creating(e1) /\ creator[e1].step # "idle"
  \/ n = 2 /\ Expiring(e1)
  \/ n = 3 /\ Releasing(e1)
  \/ n = 4 /\ PassDeadline(e1)
  \/ n = 5 /\ export[e1].due /\ \E epoch \in Epochs : Fire(e1, epoch)
  \/ n \in 6..7 /\ Downloading(<<d1, d2>>[n - 5])
  \/ n = 8 /\ DetachExport(e1)
  \/ n = 9 /\ StopDetachedTimer
  \/ n = 10 /\ TearDown

Turn(n) ==
  \/ part = "response" /\ ResponseTurn(n) /\ OnlyResponse
  \/ part = "export" /\ ExportTurn(n) /\ OnlyExport

CompletionSpec == CompletionInit /\ [][CompletionNext]_completionVars /\ \A n \in 1..11 : WF_completionVars(Turn(n))
=============================================================================

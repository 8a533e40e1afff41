----------------------- MODULE RequestExecutionProofs -----------------------
(***************************************************************************)
(* Proofs about RequestExecution: the slots, budgets, responses and answers *)
(* of a request are accounted for, for any providers, limits and rules.     *)
(***************************************************************************)
EXTENDS RequestExecution, FiniteSetTheorems, TLAPS

-----------------------------------------------------------------------------
(* The inductive invariant: what holds at each place of the loop.             *)

\* Places of the loop: before the failure of an attempt is known, on the way to a
\* retry, a rule retry or an alternate, and outside executeLogicalAttempt.
Fresh == {"prepare", "fetch", "refresh", "refreshPrepare", "refreshActivate", "resolve"}
Retrying == {"backoff", "retryDiscard", "retryActivate"}
RuleRetrying == {"ruleBackoff", "ruleDiscard", "ruleActivate"}
Reserved == {"alternateTarget", "alternateActivate"}
Alternates == Reserved \cup {"alternate", "alternateFailed"}
InAttempt == Fresh \cup Retrying \cup RuleRetrying \cup Alternates
               \cup {"legacy", "switch", "semantic", "commitSemantic"}
Between == {"select", "start", "loop", "settle", "tail", "finalize", "done"}

\* Who owns a slot at which place.
SlotInv ==
    /\ \A p \in Providers : slots[p] = Owns(p)
    /\ reservation # NoOne <=> pc \in Reserved
    /\ reservation # NoOne => reservation \notin excluded \cup {provider}
    /\ entry \in {NoOne, provider}
    /\ pc \in {"select", "start", "done"} => entry = NoOne
    /\ pc = "start" \/ Running => provider \in Providers
    /\ Running => entry = provider \/ Dead

\* A pending response is held only where somebody will settle it.
ResponseInv ==
    /\ pending = "settled" => Dead
    /\ result.kind = "client" => Dead
    /\ result.kind = "noResponse" \/ result.discarded => pending # "held"
    /\ pc \in Between \/ (caller = "circuit" /\ pc \in Alternates) => (pending = "held" => Dead)
    /\ pc \in {"prepare", "fetch", "refreshActivate", "retryActivate", "ruleActivate", "alternateActivate"} =>
         pending = "none"
    /\ pc \in Fresh => result = NoResult

\* What the client has got.
AnswerInv ==
    /\ pc \in InAttempt \cup {"select", "start", "loop"} => answers = 0 /\ ~result.headers
    /\ pc \in {"settle", "tail"} /\ again => answers = 0 /\ ~result.headers
    /\ ~Codex => /\ pc # "done" => answers = IF result.headers THEN 1 ELSE 0
                 /\ pc = "done" => answers = 1
                 /\ result.success => result.headers

\* Who has told the health manager, and why a switch was asked for.
MarkInv ==
    /\ marks <= 1
    /\ pc \in Fresh => marks = 0
    /\ pc \in InAttempt \cup {"settle"} /\ caller # "circuit" /\ Deferred => marks = 0
    /\ pc \in (InAttempt \ Alternates) \cup {"settle"} => caller # "circuit"
    /\ pc \in Alternates /\ caller = "circuit" => Deferred
    /\ pc \in (Alternates \ {"alternateFailed"}) \cup RuleRetrying \cup {"semantic"} =>
         caller = "circuit" \/ result.kind # "noResponse"

\* What a ledger may have charged under global limit g.
RuleCharge(l, p, r) == IF r \in RuleActions THEN l.rule[<<p, r>>] ELSE 0
Charged(l, p) == RuleCharge(l, p, "passthrough") + RuleCharge(l, p, "retry_only") + RuleCharge(l, p, "retry_then_switch")
Bounded(g, l) ==
    /\ g # 0 => l.logical <= g
    /\ \A p \in Providers :
         /\ l.provider[p] <= 1 + l.legacy[p] + Charged(l, p)
         /\ l.legacy[p] <= MaxRetries[p]
         /\ \A r \in RuleActions : l.rule[<<p, r>>] <= RuleRetries
\* Nothing was charged to a provider.
Unused(l, p) == l.provider[p] = 0 /\ l.legacy[p] = 0 /\ \A r \in RuleActions : l.rule[<<p, r>>] = 0
UnusedOutside(l, ps) == \A p \in Providers \ ps : Unused(l, p)

\* The ledger covers what was sent, and every retry under way was decided on it.
BudgetInv ==
    /\ sent <= ledger.logical
    /\ \/ pc \in {"loop", "prepare"} \/ (pc = "fetch" /\ ~refreshed)
       \/ (again /\ pc \in {"settle", "tail"})
       => sent < ledger.logical
    /\ pc \in InAttempt => before.ledger = ledger /\ before.attempt = providerAttempt /\ attemptOf = provider
    /\ pc = "settle" => sent <= before.ledger.logical
    /\ Bounded(globalMax, ledger) /\ Bounded(globalMax, before.ledger)
    /\ pc \in {"select", "start"} =>
         UnusedOutside(ledger, {}) /\ UnusedOutside(before.ledger, {}) /\ providerAttempt = 0
    /\ UnusedOutside(ledger, excluded \cup {provider})
    /\ UnusedOutside(before.ledger, excluded \cup {provider})
    /\ provider \in Providers => ledger.legacy[provider] <= providerAttempt
    /\ pc = "settle" /\ provider = attemptOf => before.ledger.legacy[provider] <= before.attempt
    /\ pc \in Retrying => Remains /\ providerAttempt < MaxRetries[provider]
    /\ pc \in RuleRetrying => Remains /\ rule \in RuleActions /\ RuleRetriesRemain
    /\ pc = "semantic" => rule \in RuleActions
    /\ pc \in Reserved => Remains

\* The inductive invariant.
RequestInv == TypeOK /\ SlotInv /\ ResponseInv /\ AnswerInv /\ MarkInv /\ BudgetInv

\* The type invariant in parts.
ResultOK == result \in Results
LedgersOK == ledger \in Ledgers /\ before.ledger \in Ledgers
FlagsOK == again \in BOOLEAN /\ refreshed \in BOOLEAN /\ permit \in BOOLEAN /\ sourceFailed \in BOOLEAN
PlacesOK ==
    /\ globalMax \in GlobalLimits
    /\ pc \in Labels
    /\ providerAttempt \in Nat /\ before.attempt \in Nat
    /\ {provider, target, attemptOf, entry, reservation} \subseteq Providers \cup {NoOne}
    /\ excluded \subseteq Providers /\ skipped \subseteq Providers
    /\ status \in Statuses \cup {"none"} /\ rule \in RuleActions \cup {"none"}
    /\ caller \in {"none", "legacy", "semantic", "circuit"}
    /\ pending \in {"none", "held", "settled"}
    /\ slots \in [Providers -> Nat]
    /\ cause \in {"none", "client", "source"}
    /\ answers \in Nat /\ sent \in Nat /\ marks \in Nat

-----------------------------------------------------------------------------
(* Results: what each EXCEPT leaves alone, and what the branching actions    *)
(* make of the result.                                                        *)

Verdicts == {"none", "success", "failure", "neutral"}

\* forwardResult{} is a result, and says nothing.
LEMMA NoResultForm ==
    /\ NoResult \in Results /\ NoResult.kind = "none" /\ NoResult.success = FALSE
    /\ NoResult.discarded = FALSE /\ NoResult.headers = FALSE
BY DEF NoResult, Results, Kinds

\* Setting the error kind of a result changes nothing else.
LEMMA KindForm ==
    ASSUME NEW r \in Results, NEW k \in Kinds
    PROVE  /\ [r EXCEPT !.kind = k] \in Results /\ [r EXCEPT !.kind = k].kind = k
           /\ [r EXCEPT !.kind = k].success = r.success /\ [r EXCEPT !.kind = k].discarded = r.discarded
           /\ [r EXCEPT !.kind = k].headers = r.headers
BY DEF Results

\* Setting the verdict of a result changes nothing else.
LEMMA VerdictForm ==
    ASSUME NEW r \in Results, NEW v \in Verdicts
    PROVE  /\ [r EXCEPT !.verdict = v] \in Results /\ [r EXCEPT !.verdict = v].kind = r.kind
           /\ [r EXCEPT !.verdict = v].success = r.success /\ [r EXCEPT !.verdict = v].discarded = r.discarded
           /\ [r EXCEPT !.verdict = v].headers = r.headers
BY DEF Results, Verdicts

\* Setting the success flag of a result changes nothing else.
LEMMA SuccessForm ==
    ASSUME NEW r \in Results, NEW b \in BOOLEAN
    PROVE  /\ [r EXCEPT !.success = b] \in Results /\ [r EXCEPT !.success = b].success = b
           /\ [r EXCEPT !.success = b].kind = r.kind /\ [r EXCEPT !.success = b].discarded = r.discarded
           /\ [r EXCEPT !.success = b].headers = r.headers
BY DEF Results

\* Recording whether the response was discarded changes nothing else.
LEMMA DiscardedForm ==
    ASSUME NEW r \in Results, NEW b \in BOOLEAN
    PROVE  /\ [r EXCEPT !.discarded = b] \in Results /\ [r EXCEPT !.discarded = b].discarded = b
           /\ [r EXCEPT !.discarded = b].kind = r.kind /\ [r EXCEPT !.discarded = b].success = r.success
           /\ [r EXCEPT !.discarded = b].headers = r.headers
BY DEF Results

\* Recording that the head was written changes nothing else.
LEMMA HeadersForm ==
    ASSUME NEW r \in Results
    PROVE  /\ [r EXCEPT !.headers = TRUE] \in Results /\ [r EXCEPT !.headers = TRUE].headers = TRUE
           /\ [r EXCEPT !.headers = TRUE].kind = r.kind /\ [r EXCEPT !.headers = TRUE].success = r.success
           /\ [r EXCEPT !.headers = TRUE].discarded = r.discarded
BY DEF Results

\* A cancelled attempt names the client only when the context ended
\* (classifyClientTermination).
LEMMA CancelledForm ==
    ASSUME NEW r \in Results
    PROVE  /\ Cancelled(r) \in Results
           /\ Cancelled(r).kind \in {"client", "internal"} /\ (Cancelled(r).kind = "client" => Dead)
           /\ Cancelled(r).success = r.success /\ Cancelled(r).discarded = r.discarded
           /\ Cancelled(r).headers = r.headers
BY DEF Cancelled, Results, Kinds, AttemptObserved, Dead

\* The kinds and verdicts the actions write are kinds and verdicts.
LEMMA KindNames ==
    /\ {"none", "client", "internal", "disguise", "preparation", "transport", "noResponse", "status",
        "semantic", "read", "write", "ingress"} \subseteq Kinds
    /\ \A v \in {"success", "failure", "neutral"} : Verdict(v) \in Verdicts
    /\ \A r \in RuleActions : SemanticVerdict(r) \in {"success", "failure", "neutral"}
BY DEF Kinds, Verdicts, Verdict, SemanticVerdict

\* DiscardedForm for a response that was discarded.
LEMMA DroppedForm ==
    ASSUME NEW r \in Results
    PROVE  /\ [r EXCEPT !.discarded = TRUE] \in Results
           /\ [r EXCEPT !.discarded = TRUE].discarded = TRUE
           /\ [r EXCEPT !.discarded = TRUE].kind = r.kind /\ [r EXCEPT !.discarded = TRUE].success = r.success
           /\ [r EXCEPT !.discarded = TRUE].headers = r.headers
BY DEF Results

\* SuccessForm for a result that is no success.
LEMMA FailedForm ==
    ASSUME NEW r \in Results
    PROVE  /\ [r EXCEPT !.success = FALSE] \in Results
           /\ [r EXCEPT !.success = FALSE].success = FALSE
           /\ [r EXCEPT !.success = FALSE].kind = r.kind /\ [r EXCEPT !.success = FALSE].discarded = r.discarded
           /\ [r EXCEPT !.success = FALSE].headers = r.headers
BY DEF Results

\* cancelPendingResponse ends the attempt, and leaves no response held.
LEMMA CancelPendingForm ==
    ASSUME NEW r \in Results, CancelPending(r)
    PROVE  /\ result' \in Results /\ pc' = "settle" /\ again' = FALSE
           /\ result'.kind \in {"client", "internal"} /\ (result'.kind = "client" => Dead)
           /\ result'.success = r.success /\ result'.headers = r.headers
           /\ pending' = "none" \/ (pending = "settled" /\ pending' = "settled")
<1>c. Cancelled(r) \in Results BY CancelledForm
<1>1. CASE DiscardOK /\ Stop([Cancelled(r) EXCEPT !.discarded = pending = "held"])
  <2>1. (pending = "held") \in BOOLEAN OBVIOUS
  <2>2. PICK b \in BOOLEAN : b = (pending = "held") BY <2>1
  <2>3. result' = [Cancelled(r) EXCEPT !.discarded = b] BY <1>1, <2>2 DEF Stop
  <2>4. pc' = "settle" /\ again' = FALSE /\ pending' = "none" BY <1>1 DEF Stop, DiscardOK
  <2> QED BY <1>c, <2>3, <2>4, CancelledForm, DiscardedForm
<1>2. CASE DiscardLost /\ Stop(Cancelled(r))
  BY <1>2, CancelledForm DEF Stop, DiscardLost
<1> QED BY <1>1, <1>2 DEF CancelPending

\* Forwarding a held response ends the attempt.  The client has its answer, or the
\* Codex gate let nothing through of a response that failed.
LEMMA ForwardingForm ==
    ASSUME NEW r \in Results, Forwarding(r)
    PROVE  /\ result' \in Results /\ pc' = "settle" /\ again' = FALSE
           /\ pending = "held" /\ pending' = "none"
           /\ result'.kind = r.kind /\ result'.success = r.success /\ result'.discarded = r.discarded
           /\ \/ answers' = answers + 1 /\ result'.headers = TRUE
              \/ Codex /\ ~r.success /\ answers' = answers /\ result'.headers = r.headers
BY HeadersForm DEF Forwarding, Committed, Stop

\* activateLegacyRetry keeps the result a result.
LEMMA RetryDiscardForm ==
    ASSUME ResultOK, RetryDiscard
    PROVE  ResultOK'
<1>1. CASE result' = [result EXCEPT !.discarded = pending = "held"]
  <2>1. PICK b \in BOOLEAN : b = (pending = "held") OBVIOUS
  <2> QED BY <1>1, <2>1, DiscardedForm DEF ResultOK
<1>2. CASE result' = Cancelled(result)
  BY <1>2, CancelledForm DEF ResultOK
<1> QED BY <1>1, <1>2 DEF RetryDiscard, Stop

\* The discard before a rule retry keeps the result, and the kind when it succeeds.
LEMMA RuleDiscardForm ==
    ASSUME ResultOK, RuleDiscard
    PROVE  /\ ResultOK' /\ pc' \in {"ruleActivate", "settle"}
           /\ pc' = "ruleActivate" => result'.kind = result.kind
BY DroppedForm, CancelledForm DEF RuleDiscard, Stop, ResultOK

\* activatePreparedAlternate keeps the kind when its discard succeeds; no response
\* stays held either way.
LEMMA AlternateDiscardForm ==
    ASSUME ResultOK, AlternateDiscard
    PROVE  /\ ResultOK' /\ pc' \in {"alternateActivate", "alternateFailed"}
           /\ result'.success = result.success /\ result'.headers = result.headers
           /\ result'.kind = result.kind \/ result'.kind = "internal" \/ (result'.kind = "client" /\ Dead)
           /\ pending' = "none" \/ (pending = "settled" /\ pending' = "settled")
           /\ pc' = "alternateActivate" => pending' = "none" /\ result'.kind = result.kind
<1>r. result \in Results BY DEF ResultOK
<1>1. CASE /\ DiscardOK /\ pc' = "alternateActivate"
           /\ result' = [result EXCEPT !.discarded = @ \/ pending = "held"]
  <2>1. PICK b \in BOOLEAN : b = (result.discarded \/ pending = "held") OBVIOUS
  <2>2. result' = [result EXCEPT !.discarded = b] BY <1>1, <2>1
  <2> QED BY <1>1, <2>2, <1>r, DiscardedForm DEF ResultOK, DiscardOK
<1>2. CASE DiscardLost /\ result' = Cancelled(result) /\ pc' = "alternateFailed"
  BY <1>2, <1>r, CancelledForm DEF ResultOK, DiscardLost
<1>3. CASE /\ DiscardClosesBadly /\ pc' = "alternateFailed"
           /\ result' = [Cancelled(result) EXCEPT !.discarded = TRUE]
  <2>1. Cancelled(result) \in Results BY <1>r, CancelledForm
  <2> QED BY <1>3, <2>1, <1>r, CancelledForm, DroppedForm DEF ResultOK, DiscardClosesBadly
<1> QED BY <1>1, <1>2, <1>3 DEF AlternateDiscard

\* commitSemanticResponse ends the attempt; without the Codex gate the client is
\* answered exactly when the result says so.
LEMMA CommitSemanticForm ==
    ASSUME ResultOK, CommitSemantic
    PROVE  /\ ResultOK' /\ pc' = "settle" /\ again' = FALSE
           /\ result'.kind = result.kind \/ result'.kind = "internal"
           /\ result'.discarded = result.discarded
           /\ pending' = "none" \/ (pending = "settled" /\ pending' = "settled")
           /\ ~Codex => \/ answers' = answers + 1 /\ result'.headers = TRUE
                        \/ /\ answers' = answers /\ result'.headers = result.headers
                           /\ result'.success = result.success
<1>r. result \in Results /\ "internal" \in Kinds BY DEF ResultOK, Kinds
<1>1. CASE Forwarding([result EXCEPT !.success = FALSE])
  <2> DEFINE r == [result EXCEPT !.success = FALSE]
  <2>1. /\ r \in Results /\ r.kind = result.kind /\ r.discarded = result.discarded
        /\ r.headers = result.headers
    BY <1>r, FailedForm
  <2>2. Forwarding(r) BY <1>1
  <2> HIDE DEF r
  <2> QED BY <2>1, <2>2, ForwardingForm DEF ResultOK
<1>2. CASE Codex /\ Committed /\ Stop([result EXCEPT !.kind = "internal"])
  BY <1>2, <1>r, KindForm DEF ResultOK, Committed, Stop
<1>3. CASE CommitLost /\ Stop([result EXCEPT !.kind = "internal"]) /\ UNCHANGED answers
  BY <1>3, <1>r, KindForm DEF ResultOK, CommitLost, Stop
<1> QED BY <1>1, <1>2, <1>3 DEF CommitSemantic

\* A failed fetch leaves the response and the client alone.
LEMMA FetchFailsForm ==
    ASSUME NEW kind \in {"transport", "noResponse"}, FetchFails(kind)
    PROVE  /\ ResultOK' /\ pending' = pending /\ answers' = answers
           /\ result'.success = FALSE /\ result'.headers = FALSE /\ result'.discarded = FALSE
           /\ \/ pc' = "settle" /\ again' = FALSE /\ result'.kind = "client" /\ AttemptObserved
              \/ pc' = "legacy" /\ again' = again /\ result'.kind = kind
<1> DEFINE r1(k) == [NoResult EXCEPT !.kind = k]
<1>1. \A k \in Kinds : /\ r1(k) \in Results /\ r1(k).kind = k /\ r1(k).success = FALSE
                        /\ r1(k).discarded = FALSE /\ r1(k).headers = FALSE
  BY NoResultForm, KindForm
<1>2. Verdict("neutral") \in Verdicts /\ Verdict("failure") \in Verdicts
      /\ "client" \in Kinds /\ kind \in Kinds BY KindNames
<1>3. CASE AttemptObserved
  <2>1. result' = [r1("client") EXCEPT !.verdict = Verdict("neutral")] BY <1>3 DEF FetchFails, Stop
  <2>2. pc' = "settle" /\ again' = FALSE /\ pending' = pending /\ answers' = answers
    BY <1>3 DEF FetchFails, Stop
  <2> HIDE DEF r1
  <2> QED BY <1>1, <1>2, <1>3, <2>1, <2>2, VerdictForm DEF ResultOK
<1>4. CASE ~AttemptObserved
  <2>1. result' = [r1(kind) EXCEPT !.verdict = Verdict("failure")] BY <1>4 DEF FetchFails
  <2>2. pc' = "legacy" /\ again' = again /\ pending' = pending /\ answers' = answers
    BY <1>4 DEF FetchFails
  <2> HIDE DEF r1
  <2> QED BY <1>1, <1>2, <1>4, <2>1, <2>2, VerdictForm DEF ResultOK
<1> QED BY <1>3, <1>4

\* A semantic match keeps the result a result.
LEMMA ResolveMatchForm ==
    ASSUME NEW r \in RuleActions, ResolveMatch(r)
    PROVE  ResultOK'
<1>k. Verdict(SemanticVerdict(r)) \in Verdicts /\ "semantic" \in Kinds BY KindNames
<1>1. [NoResult EXCEPT !.kind = "semantic"] \in Results BY <1>k, NoResultForm, KindForm
<1>2. result' = [[NoResult EXCEPT !.kind = "semantic"] EXCEPT !.verdict = Verdict(SemanticVerdict(r))]
  BY <1>k DEF ResolveMatch
<1> QED BY <1>k, <1>1, <1>2, VerdictForm DEF ResultOK

\* The sub-exchange starts with the result untouched, or the attempt ends.
LEMMA RefreshActivateForm ==
    ASSUME ResultOK, RefreshActivate
    PROVE  /\ ResultOK'
           /\ \/ pc' = "fetch" /\ result' = result
              \/ /\ pc' = "settle" /\ again' = FALSE /\ result'.kind \in {"client", "internal"}
                 /\ result'.kind = "client" => Dead
                 /\ result'.success = FALSE /\ result'.headers = FALSE
<1>1. CASE pc' = "fetch" /\ UNCHANGED <<result, again>>
  BY <1>1 DEF ResultOK
<1>2. CASE Stop([Cancelled(NoResult) EXCEPT !.discarded = TRUE])
  <2>1. Cancelled(NoResult) \in Results BY NoResultForm, CancelledForm
  <2> QED BY <1>2, <2>1, NoResultForm, CancelledForm, DroppedForm DEF ResultOK, Stop
<1> QED BY <1>1, <1>2 DEF RefreshActivate

\* finalizeCommittedAttempt: whatever the outcome, the result names no headerless EOF,
\* and the client is answered exactly when the result says so.
LEMMA ResolveForwardedForm ==
    ASSUME ResolveForwarded
    PROVE  /\ ResultOK' /\ pc' = "settle" /\ again' = FALSE /\ pending' = "none"
           /\ result'.kind # "noResponse" /\ (result'.kind = "client" => Dead)
           /\ result'.discarded = FALSE
           /\ \/ answers' = answers + 1 /\ result'.headers = TRUE
              \/ Codex /\ ~result'.success /\ answers' = answers /\ result'.headers = FALSE
<1> DEFINE kind(o) == CASE o = "success" -> "none"
                        [] o = "failure" -> "read"
                        [] OTHER -> IF AttemptObserved THEN "client" ELSE "write"
<1>1. PICK o \in {"success", "failure", "neutral"} :
        Forwarding([NoResult EXCEPT !.verdict = Verdict(o), !.kind = kind(o),
                                    !.success = o = "success" /\ status = "ok"])
  BY DEF ResolveForwarded
<1>2. /\ kind(o) \in Kinds /\ Verdict(o) \in Verdicts
      /\ kind(o) # "noResponse" /\ (kind(o) = "client" => Dead)
  BY KindNames DEF AttemptObserved, Dead
<1> HIDE DEF kind
<1>3. PICK b \in BOOLEAN : b = (o = "success" /\ status = "ok") OBVIOUS
<1> DEFINE r1 == [NoResult EXCEPT !.verdict = Verdict(o)]
           r2 == [r1 EXCEPT !.kind = kind(o)]
           r3 == [r2 EXCEPT !.success = b]
<1>4. Forwarding(r3) BY <1>1, <1>3
<1>5. /\ r1 \in Results /\ r1.discarded = FALSE /\ r1.headers = FALSE
  BY <1>2, NoResultForm, VerdictForm
<1> HIDE DEF r1
<1>6. /\ r2 \in Results /\ r2.discarded = FALSE /\ r2.headers = FALSE /\ r2.kind = kind(o)
  BY <1>2, <1>5, KindForm
<1> HIDE DEF r2
<1>7. /\ r3 \in Results /\ r3.discarded = FALSE /\ r3.headers = FALSE /\ r3.kind = kind(o)
  BY <1>6, SuccessForm
<1> HIDE DEF r3
<1> QED BY <1>2, <1>4, <1>7, ForwardingForm DEF ResultOK

\* What becomes of the held response when there is no alternate, by caller.
LEMMA AlternateFailedForm ==
    ASSUME ResultOK, AlternateFailed
    PROVE  /\ ResultOK'
           /\ result'.kind = result.kind \/ result'.kind = "internal" \/ (result'.kind = "client" /\ Dead)
           /\ pc' \in {"settle", "tail", "commitSemantic"}
           /\ pc' = "commitSemantic" => UNCHANGED <<result, pending, answers>> /\ caller = "semantic"
           /\ pc' = "tail" => UNCHANGED <<result, pending, answers>> /\ caller = "circuit"
           /\ pc' # "commitSemantic" => again' = FALSE
           /\ pc' = "settle" =>
                \/ UNCHANGED <<result, pending, answers>> /\ (pending = "none" \/ result.kind = "client" \/ result.discarded)
                \/ pending' = "none" \/ (pending = "settled" /\ pending' = "settled")
           /\ \/ answers' = answers + 1 /\ result'.headers = TRUE
              \/ /\ answers' = answers /\ result'.headers = result.headers
                 /\ result'.success = result.success \/ ~result'.success
<1>r. result \in Results BY DEF ResultOK
<1>1. CASE Stop(result) /\ UNCHANGED <<pending, answers>>
           /\ (pending = "none" \/ result.kind = "client" \/ result.discarded)
  BY <1>1, <1>r DEF Stop, ResultOK
<1>2. CASE Forwarding([result EXCEPT !.success = FALSE])
  <2>1. [result EXCEPT !.success = FALSE] \in Results BY <1>r, FailedForm
  <2> QED BY <1>2, <1>r, <2>1, FailedForm, ForwardingForm DEF ResultOK
<1>3. CASE CommitLost /\ Stop(Cancelled(result)) /\ UNCHANGED answers
  BY <1>3, <1>r, CancelledForm DEF ResultOK, CommitLost, Stop
<1>4. CASE CancelPending(result) /\ UNCHANGED answers
  BY <1>4, <1>r, CancelPendingForm DEF ResultOK
<1>5. CASE caller = "semantic" /\ pc' = "commitSemantic" /\ UNCHANGED <<result, again, pending, answers>>
  BY <1>5, <1>r DEF ResultOK
<1>6. CASE caller = "circuit" /\ pc' = "tail" /\ again' = FALSE /\ UNCHANGED <<result, pending, answers>>
  BY <1>6, <1>r DEF ResultOK
<1> QED BY <1>1, <1>2, <1>3, <1>4, <1>5, <1>6 DEF AlternateFailed

-----------------------------------------------------------------------------
(* The retry ledger.                                                         *)

\* RetryLedger.start charges one logical attempt and one of its provider.
LEMMA StartForm ==
    ASSUME ledger \in Ledgers, NEW p \in Providers
    PROVE  /\ StartAttempt(p) \in Ledgers
           /\ StartAttempt(p).logical = ledger.logical + 1
           /\ \A q \in Providers :
                StartAttempt(p).provider[q] = IF q = p THEN ledger.provider[q] + 1 ELSE ledger.provider[q]
           /\ StartAttempt(p).legacy = ledger.legacy
           /\ StartAttempt(p).rule = ledger.rule
<1> DEFINE l == [ledger EXCEPT !.logical = @ + 1]
<1>1. /\ l \in Ledgers /\ l.logical = ledger.logical + 1 /\ l.provider = ledger.provider
      /\ l.legacy = ledger.legacy /\ l.rule = ledger.rule
  BY DEF Ledgers
<1>2. StartAttempt(p) = [l EXCEPT !.provider[p] = @ + 1] BY DEF StartAttempt
<1> HIDE DEF l
<1> QED BY <1>1, <1>2 DEF Ledgers

\* A legacy retry charges the provider's retry as well.
LEMMA LegacyForm ==
    ASSUME ledger \in Ledgers, NEW p \in Providers
    PROVE  /\ StartLegacyRetry(p) \in Ledgers
           /\ StartLegacyRetry(p).logical = ledger.logical + 1
           /\ \A q \in Providers :
                /\ StartLegacyRetry(p).provider[q] = IF q = p THEN ledger.provider[q] + 1 ELSE ledger.provider[q]
                /\ StartLegacyRetry(p).legacy[q] = IF q = p THEN ledger.legacy[q] + 1 ELSE ledger.legacy[q]
           /\ StartLegacyRetry(p).rule = ledger.rule
<1> DEFINE l == StartAttempt(p)
<1>1. /\ l \in Ledgers /\ l.logical = ledger.logical + 1
      /\ \A q \in Providers : l.provider[q] = IF q = p THEN ledger.provider[q] + 1 ELSE ledger.provider[q]
      /\ l.legacy = ledger.legacy /\ l.rule = ledger.rule
  BY StartForm
<1>2. StartLegacyRetry(p) = [l EXCEPT !.legacy[p] = @ + 1] BY DEF StartLegacyRetry
<1> HIDE DEF l
<1> QED BY <1>1, <1>2 DEF Ledgers

\* A rule retry charges the rule's retry at that provider as well.
LEMMA RuleForm ==
    ASSUME ledger \in Ledgers, NEW p \in Providers, NEW r \in RuleActions
    PROVE  /\ StartRuleRetry(p, r) \in Ledgers
           /\ StartRuleRetry(p, r).logical = ledger.logical + 1
           /\ \A q \in Providers :
                StartRuleRetry(p, r).provider[q] = IF q = p THEN ledger.provider[q] + 1 ELSE ledger.provider[q]
           /\ StartRuleRetry(p, r).legacy = ledger.legacy
           /\ \A k \in Providers \X RuleActions :
                StartRuleRetry(p, r).rule[k] = IF k = <<p, r>> THEN ledger.rule[k] + 1 ELSE ledger.rule[k]
<1> DEFINE l == StartAttempt(p)
<1>1. /\ l \in Ledgers /\ l.logical = ledger.logical + 1
      /\ \A q \in Providers : l.provider[q] = IF q = p THEN ledger.provider[q] + 1 ELSE ledger.provider[q]
      /\ l.legacy = ledger.legacy /\ l.rule = ledger.rule
  BY StartForm
<1>2. StartRuleRetry(p, r) = [l EXCEPT !.rule[<<p, r>>] = @ + 1] BY DEF StartRuleRetry
<1> HIDE DEF l
<1> DEFINE f == [l.rule EXCEPT ![<<p, r>>] = @ + 1]
<1>4. l.rule \in [Providers \X RuleActions -> Nat] /\ <<p, r>> \in Providers \X RuleActions
  BY <1>1 DEF Ledgers
<1>5. /\ f \in [Providers \X RuleActions -> Nat]
      /\ \A k \in Providers \X RuleActions : f[k] = IF k = <<p, r>> THEN l.rule[k] + 1 ELSE l.rule[k]
  BY <1>4
<1>6. StartRuleRetry(p, r) = [l EXCEPT !.rule = f] BY <1>2
<1> HIDE DEF f
<1> QED BY <1>1, <1>5, <1>6 DEF Ledgers

\* The retries all rules charged to a provider are a number.
LEMMA ChargedNat ==
    ASSUME NEW l \in Ledgers, NEW p \in Providers
    PROVE  Charged(l, p) \in Nat
BY DEF Charged, RuleCharge, Ledgers

\* The first attempt at an unused provider stays within the budgets.
LEMMA BoundedStart ==
    ASSUME ledger \in Ledgers, globalMax \in Nat, Remains, Bounded(globalMax, ledger),
           NEW p \in Providers, Unused(ledger, p)
    PROVE  Bounded(globalMax, StartAttempt(p))
<1> DEFINE l == StartAttempt(p)
<1>1. /\ l \in Ledgers /\ l.logical = ledger.logical + 1
      /\ \A q \in Providers : l.provider[q] = IF q = p THEN ledger.provider[q] + 1 ELSE ledger.provider[q]
      /\ l.legacy = ledger.legacy /\ l.rule = ledger.rule
  BY StartForm
<1> HIDE DEF l
<1>2. \A q \in Providers : Charged(l, q) = Charged(ledger, q) /\ Charged(l, q) \in Nat
  BY <1>1, ChargedNat DEF Charged, RuleCharge
<1>3. globalMax # 0 => l.logical <= globalMax
  BY <1>1 DEF Remains, Ledgers
<1>4. ASSUME NEW q \in Providers
      PROVE  /\ l.provider[q] <= 1 + l.legacy[q] + Charged(l, q)
             /\ l.legacy[q] <= MaxRetries[q]
             /\ \A r \in RuleActions : l.rule[<<q, r>>] <= RuleRetries
  BY <1>1, <1>2, ExecutionAssumption DEF Bounded, Unused, Ledgers
<1> QED BY <1>3, <1>4 DEF Bounded, l

\* A legacy retry below the provider's MaxRetries stays within the budgets.
LEMMA BoundedLegacy ==
    ASSUME ledger \in Ledgers, globalMax \in Nat, Remains, Bounded(globalMax, ledger),
           NEW p \in Providers, ledger.legacy[p] < MaxRetries[p]
    PROVE  Bounded(globalMax, StartLegacyRetry(p))
<1> DEFINE l == StartLegacyRetry(p)
<1>1. /\ l \in Ledgers /\ l.logical = ledger.logical + 1
      /\ \A q \in Providers :
           /\ l.provider[q] = IF q = p THEN ledger.provider[q] + 1 ELSE ledger.provider[q]
           /\ l.legacy[q] = IF q = p THEN ledger.legacy[q] + 1 ELSE ledger.legacy[q]
      /\ l.rule = ledger.rule
  BY LegacyForm
<1> HIDE DEF l
<1>2. \A q \in Providers : Charged(l, q) = Charged(ledger, q) /\ Charged(l, q) \in Nat
  BY <1>1, ChargedNat DEF Charged, RuleCharge
<1>3. globalMax # 0 => l.logical <= globalMax
  BY <1>1 DEF Remains, Ledgers
<1>4. ASSUME NEW q \in Providers
      PROVE  /\ l.provider[q] <= 1 + l.legacy[q] + Charged(l, q)
             /\ l.legacy[q] <= MaxRetries[q]
             /\ \A r \in RuleActions : l.rule[<<q, r>>] <= RuleRetries
  BY <1>1, <1>2, ExecutionAssumption DEF Bounded, Ledgers
<1> QED BY <1>3, <1>4 DEF Bounded, l

\* A rule retry below the rule's max_retries stays within the budgets.
LEMMA BoundedRule ==
    ASSUME ledger \in Ledgers, globalMax \in Nat, Remains, Bounded(globalMax, ledger),
           NEW p \in Providers, NEW r \in RuleActions, ledger.rule[<<p, r>>] < RuleRetries
    PROVE  Bounded(globalMax, StartRuleRetry(p, r))
<1> DEFINE l == StartRuleRetry(p, r)
<1>1. /\ l \in Ledgers /\ l.logical = ledger.logical + 1
      /\ \A q \in Providers : l.provider[q] = IF q = p THEN ledger.provider[q] + 1 ELSE ledger.provider[q]
      /\ l.legacy = ledger.legacy
      /\ \A k \in Providers \X RuleActions :
           l.rule[k] = IF k = <<p, r>> THEN ledger.rule[k] + 1 ELSE ledger.rule[k]
  BY RuleForm
<1> HIDE DEF l
<1>2. \A q \in Providers, a \in RuleActions :
         l.rule[<<q, a>>] = IF q = p /\ a = r THEN ledger.rule[<<q, a>>] + 1 ELSE ledger.rule[<<q, a>>]
  BY <1>1
<1>3. \A q \in Providers, a \in RuleActions : ledger.rule[<<q, a>>] \in Nat
  BY DEF Ledgers
<1>4. \A q \in Providers : Charged(l, q) = IF q = p THEN Charged(ledger, q) + 1 ELSE Charged(ledger, q)
  BY <1>2, <1>3, ExecutionAssumption DEF Charged, RuleCharge
<1>5. \A q \in Providers : Charged(ledger, q) \in Nat BY ChargedNat
<1>6. globalMax # 0 => l.logical <= globalMax
  BY <1>1 DEF Remains, Ledgers
<1>7. ASSUME NEW q \in Providers
      PROVE  /\ l.provider[q] <= 1 + l.legacy[q] + Charged(l, q)
             /\ l.legacy[q] <= MaxRetries[q]
  BY <1>1, <1>4, <1>5, ExecutionAssumption DEF Bounded, Ledgers
<1>8. ASSUME NEW q \in Providers, NEW a \in RuleActions
      PROVE  l.rule[<<q, a>>] <= RuleRetries
  BY <1>2, <1>3, ExecutionAssumption DEF Bounded
<1> QED BY <1>6, <1>7, <1>8 DEF Bounded, l

\* An attempt charges no provider but its own.
LEMMA UnusedStart ==
    ASSUME ledger \in Ledgers, NEW ps, NEW p \in Providers, p \in ps, UnusedOutside(ledger, ps)
    PROVE  UnusedOutside(StartAttempt(p), ps)
BY StartForm DEF UnusedOutside, Unused

\* A legacy retry charges no provider but its own.
LEMMA UnusedLegacy ==
    ASSUME ledger \in Ledgers, NEW ps, NEW p \in Providers, p \in ps, UnusedOutside(ledger, ps)
    PROVE  UnusedOutside(StartLegacyRetry(p), ps)
BY LegacyForm DEF UnusedOutside, Unused

\* A rule retry charges no provider but its own.
LEMMA UnusedRule ==
    ASSUME ledger \in Ledgers, NEW ps, NEW p \in Providers, p \in ps, NEW r \in RuleActions,
           UnusedOutside(ledger, ps)
    PROVE  UnusedOutside(StartRuleRetry(p, r), ps)
BY RuleForm DEF UnusedOutside, Unused

\* Fewer providers to look at, less to show.
LEMMA UnusedMore ==
    ASSUME NEW l, NEW ps, NEW qs, ps \subseteq qs, UnusedOutside(l, ps)
    PROVE  UnusedOutside(l, qs)
BY DEF UnusedOutside

\* The first selection: nothing was charged yet.
LEMMA BudgetSelectInitial ==
    ASSUME TypeOK, BudgetInv, NEW p \in Providers, SelectInitial(p)
    PROVE  BudgetInv'
<1>1. /\ pc = "select" /\ pc' = "start" /\ provider' = p /\ excluded' = excluded
      /\ UNCHANGED <<sent, ledger, before, globalMax, providerAttempt, again, attemptOf, rule, refreshed>>
  BY DEF SelectInitial, budget, attempt, seen
<1>2. /\ UnusedOutside(ledger, {}) /\ UnusedOutside(before.ledger, {}) /\ providerAttempt = 0
      /\ Bounded(globalMax, ledger) /\ Bounded(globalMax, before.ledger) /\ sent <= ledger.logical
  BY <1>1 DEF BudgetInv
<1>3. /\ UnusedOutside(ledger, excluded \cup {p}) /\ UnusedOutside(before.ledger, excluded \cup {p})
  BY <1>2, UnusedMore
<1>4. ledger.legacy[p] <= providerAttempt
  BY <1>2 DEF UnusedOutside, Unused
<1> QED BY <1>1, <1>2, <1>3, <1>4
        DEF BudgetInv, InAttempt, Fresh, Retrying, RuleRetrying, Alternates, Reserved

\* A refused candidate was never charged.
LEMMA BudgetTargetExcluded ==
    ASSUME TypeOK, BudgetInv, TargetExcluded
    PROVE  BudgetInv'
<1>1. /\ pc = "start" /\ pc' = "select" /\ provider' = provider /\ excluded' = excluded \cup {provider}
      /\ UNCHANGED <<sent, ledger, before, globalMax, providerAttempt, again, attemptOf, rule, refreshed>>
  BY DEF TargetExcluded, budget, attempt, seen
<1>2. /\ UnusedOutside(ledger, {}) /\ UnusedOutside(before.ledger, {}) /\ providerAttempt = 0
      /\ Bounded(globalMax, ledger) /\ Bounded(globalMax, before.ledger) /\ sent <= ledger.logical
      /\ provider \in Providers => ledger.legacy[provider] <= providerAttempt
  BY <1>1 DEF BudgetInv
<1>3. UnusedOutside(ledger, excluded' \cup {provider}) /\ UnusedOutside(before.ledger, excluded' \cup {provider})
  BY <1>2, UnusedMore
<1> QED BY <1>1, <1>2, <1>3
        DEF BudgetInv, InAttempt, Fresh, Retrying, RuleRetrying, Alternates, Reserved

\* The first attempt of the request.
LEMMA BudgetStartFirst ==
    ASSUME TypeOK, SlotInv, BudgetInv, StartFirst
    PROVE  BudgetInv'
<1>1. /\ pc = "start" /\ pc' = "loop" /\ Remains /\ ledger' = StartAttempt(provider)
      /\ UNCHANGED <<sent, before, globalMax, providerAttempt, again, attemptOf, rule, refreshed, provider, excluded>>
  BY DEF StartFirst, route, attempt, seen
<1>2. provider \in Providers /\ ledger \in Ledgers /\ globalMax \in Nat /\ sent \in Nat
  BY <1>1, ExecutionAssumption DEF SlotInv, TypeOK
<1>3. /\ UnusedOutside(ledger, {}) /\ UnusedOutside(before.ledger, excluded \cup {provider})
      /\ UnusedOutside(ledger, excluded \cup {provider})
      /\ Bounded(globalMax, ledger) /\ Bounded(globalMax, before.ledger) /\ sent <= ledger.logical
      /\ ledger.legacy[provider] <= providerAttempt
  BY <1>1, <1>2 DEF BudgetInv
<1>4. Unused(ledger, provider) BY <1>2, <1>3 DEF UnusedOutside
<1>5. Bounded(globalMax, ledger') BY <1>1, <1>2, <1>3, <1>4, BoundedStart
<1>6. UnusedOutside(ledger', excluded \cup {provider}) BY <1>1, <1>2, <1>3, UnusedStart
<1>7. sent <= ledger'.logical /\ sent < ledger'.logical /\ ledger'.legacy = ledger.legacy
  BY <1>1, <1>2, <1>3, StartForm DEF Ledgers
<1> QED BY <1>1, <1>2, <1>3, <1>5, <1>6, <1>7
        DEF BudgetInv, InAttempt, Fresh, Retrying, RuleRetrying, Alternates, Reserved

\* The alternate was neither excluded nor current, so nothing was charged to it.
LEMMA BudgetAlternateActivate ==
    ASSUME TypeOK, SlotInv, BudgetInv, AlternateActivate
    PROVE  BudgetInv'
<1>1. /\ pc = "alternateActivate" /\ pc' \in {"settle", "tail"} /\ again' = TRUE
      /\ ledger' = StartAttempt(reservation) /\ providerAttempt' = 0
      /\ provider' = reservation /\ excluded' = excluded \cup {provider}
      /\ UNCHANGED <<sent, before, globalMax, attemptOf, rule, refreshed>>
  BY DEF AlternateActivate, AttemptReturned, attempt, seen
<1>2. /\ reservation \in Providers /\ reservation \notin excluded \cup {provider}
      /\ ledger \in Ledgers /\ globalMax \in Nat /\ sent \in Nat
  BY <1>1, ExecutionAssumption DEF SlotInv, Reserved, TypeOK
<1>3. /\ UnusedOutside(ledger, excluded \cup {provider}) /\ UnusedOutside(before.ledger, excluded \cup {provider})
      /\ Bounded(globalMax, ledger) /\ Bounded(globalMax, before.ledger) /\ sent <= ledger.logical
      /\ before.ledger = ledger /\ attemptOf = provider /\ Remains
  BY <1>1, <1>2 DEF BudgetInv, InAttempt, Alternates, Reserved
<1>4. Unused(ledger, reservation) BY <1>2, <1>3 DEF UnusedOutside
<1>5. Bounded(globalMax, ledger') BY <1>1, <1>2, <1>3, <1>4, BoundedStart
<1>6. /\ UnusedOutside(ledger, excluded' \cup {provider'})
      /\ UnusedOutside(before.ledger, excluded' \cup {provider'})
  BY <1>1, <1>3, UnusedMore
<1>7. UnusedOutside(ledger', excluded' \cup {provider'}) BY <1>1, <1>2, <1>6, UnusedStart
<1>8. sent <= ledger'.logical /\ sent < ledger'.logical /\ ledger'.legacy[reservation] = 0
  BY <1>1, <1>2, <1>3, <1>4, StartForm DEF Ledgers, Unused
<1> QED BY <1>1, <1>2, <1>3, <1>5, <1>6, <1>7, <1>8
        DEF BudgetInv, InAttempt, Fresh, Retrying, RuleRetrying, Alternates, Reserved

\* The retry was decided on the ledger that is charged.
LEMMA BudgetRetryActivate ==
    ASSUME TypeOK, SlotInv, BudgetInv, RetryActivate
    PROVE  BudgetInv'
<1>1. /\ pc = "retryActivate" /\ pc' = "settle"
      /\ UNCHANGED <<sent, before, globalMax, attemptOf, rule, refreshed, provider, excluded>>
  BY DEF RetryActivate, Stop, route, attempt, seen
<1>2. /\ provider \in Providers /\ ledger \in Ledgers /\ globalMax \in Nat /\ sent \in Nat
      /\ providerAttempt \in Nat
  BY <1>1, ExecutionAssumption DEF SlotInv, Running, TypeOK
<1>3. /\ UnusedOutside(ledger, excluded \cup {provider}) /\ UnusedOutside(before.ledger, excluded \cup {provider})
      /\ Bounded(globalMax, ledger) /\ Bounded(globalMax, before.ledger) /\ sent <= ledger.logical
      /\ before.ledger = ledger /\ before.attempt = providerAttempt /\ Remains
      /\ ledger.legacy[provider] <= providerAttempt /\ providerAttempt < MaxRetries[provider]
  BY <1>1, <1>2 DEF BudgetInv, InAttempt, Retrying
<1>4. CASE ledger' = StartLegacyRetry(provider) /\ providerAttempt' = providerAttempt + 1 /\ again' = TRUE
  <2>1. ledger.legacy[provider] < MaxRetries[provider]
    BY <1>2, <1>3, ExecutionAssumption DEF Ledgers
  <2>2. Bounded(globalMax, ledger') BY <1>2, <1>3, <1>4, <2>1, BoundedLegacy
  <2>3. UnusedOutside(ledger', excluded \cup {provider}) BY <1>2, <1>3, <1>4, UnusedLegacy
  <2>4. sent <= ledger'.logical /\ sent < ledger'.logical /\ ledger'.legacy[provider] <= providerAttempt'
    BY <1>2, <1>3, <1>4, LegacyForm DEF Ledgers
  <2> QED BY <1>1, <1>2, <1>3, <1>4, <2>2, <2>3, <2>4
          DEF BudgetInv, InAttempt, Fresh, Retrying, RuleRetrying, Alternates, Reserved
<1>5. CASE UNCHANGED <<ledger, providerAttempt>> /\ again' = FALSE
  BY <1>1, <1>2, <1>3, <1>5
  DEF BudgetInv, InAttempt, Fresh, Retrying, RuleRetrying, Alternates, Reserved
<1> QED BY <1>4, <1>5 DEF RetryActivate, Stop

\* The rule retry was decided on the ledger that is charged.
LEMMA BudgetRuleActivate ==
    ASSUME TypeOK, SlotInv, BudgetInv, RuleActivate
    PROVE  BudgetInv'
<1>1. /\ pc = "ruleActivate" /\ pc' = "settle"
      /\ UNCHANGED <<sent, before, globalMax, attemptOf, rule, refreshed, provider, excluded>>
  BY DEF RuleActivate, Stop, route, attempt, seen
<1>2. /\ provider \in Providers /\ ledger \in Ledgers /\ globalMax \in Nat /\ sent \in Nat
      /\ providerAttempt \in Nat
  BY <1>1, ExecutionAssumption DEF SlotInv, Running, TypeOK
<1>3. /\ UnusedOutside(ledger, excluded \cup {provider}) /\ UnusedOutside(before.ledger, excluded \cup {provider})
      /\ Bounded(globalMax, ledger) /\ Bounded(globalMax, before.ledger) /\ sent <= ledger.logical
      /\ before.ledger = ledger /\ before.attempt = providerAttempt /\ Remains
      /\ ledger.legacy[provider] <= providerAttempt
      /\ rule \in RuleActions /\ ledger.rule[<<provider, rule>>] < RuleRetries
  BY <1>1, <1>2 DEF BudgetInv, InAttempt, RuleRetrying, RuleRetriesRemain
<1>4. CASE ledger' = StartRuleRetry(provider, rule) /\ providerAttempt' = providerAttempt + 1 /\ again' = TRUE
  <2>1. Bounded(globalMax, ledger') BY <1>2, <1>3, <1>4, BoundedRule
  <2>2. UnusedOutside(ledger', excluded \cup {provider}) BY <1>2, <1>3, <1>4, UnusedRule
  <2>3. sent <= ledger'.logical /\ sent < ledger'.logical /\ ledger'.legacy[provider] <= providerAttempt'
    BY <1>2, <1>3, <1>4, RuleForm DEF Ledgers
  <2> QED BY <1>1, <1>2, <1>3, <1>4, <2>1, <2>2, <2>3
          DEF BudgetInv, InAttempt, Fresh, Retrying, RuleRetrying, Alternates, Reserved
<1>5. CASE UNCHANGED <<ledger, providerAttempt>> /\ again' = FALSE
  BY <1>1, <1>2, <1>3, <1>5
  DEF BudgetInv, InAttempt, Fresh, Retrying, RuleRetrying, Alternates, Reserved
<1> QED BY <1>4, <1>5 DEF RuleActivate, Stop

-----------------------------------------------------------------------------
(* Actions that need more than their definition.                             *)

\* A forwarded response is the client's only answer.
LEMMA AnswerResolveForwarded == ASSUME TypeOK, AnswerInv, ResolveForwarded PROVE AnswerInv'
<1>1. answers = 0 /\ pc' = "settle" /\ again' = FALSE
  BY ResolveForwardedForm DEF AnswerInv, InAttempt, Fresh, ResolveForwarded
<1>2. pc' \notin InAttempt \cup {"select", "start", "loop"} 
  BY <1>1 DEF InAttempt, Fresh, Retrying, RuleRetrying, Alternates, Reserved
<1>3. \/ answers' = 1 /\ result'.headers = TRUE
      \/ Codex
  <2>1. answers + 1 = 1 BY <1>1
  <2> QED BY <1>1, <2>1, Zenon, ResolveForwardedForm
<1>4. CASE answers' = 1 /\ result'.headers = TRUE
  BY <1>1, <1>2, <1>4 DEF AnswerInv
<1>5. CASE Codex
  BY <1>1, <1>2, <1>5 DEF AnswerInv
<1> QED BY <1>3, <1>4, <1>5

\* A committed semantic response is the client's only answer.
LEMMA AnswerCommitSemantic == ASSUME TypeOK, AnswerInv, CommitSemantic PROVE AnswerInv'
<1>1. answers = 0 /\ ~result.headers /\ pc' = "settle" /\ again' = FALSE /\ (~Codex => ~result.success)
  BY CommitSemanticForm DEF AnswerInv, InAttempt, CommitSemantic, TypeOK, ResultOK
<1>2. pc' \notin InAttempt \cup {"select", "start", "loop"} 
  BY <1>1 DEF InAttempt, Fresh, Retrying, RuleRetrying, Alternates, Reserved
<1>3. \/ answers' = 1 /\ result'.headers = TRUE
      \/ answers' = 0 /\ ~result'.headers /\ ~result'.success
      \/ Codex
  <2>1. answers + 1 = 1 BY <1>1
  <2> QED BY <1>1, <2>1, Zenon, CommitSemanticForm DEF TypeOK, ResultOK
<1> QED BY <1>1, <1>2, <1>3 DEF AnswerInv

\* The response kept for want of an alternate is the client's only answer.
LEMMA AnswerAlternateFailed == ASSUME TypeOK, AnswerInv, AlternateFailed PROVE AnswerInv'
<1>1. answers = 0 /\ ~result.headers /\ (~Codex => ~result.success)
  BY DEF AnswerInv, InAttempt, Alternates, AlternateFailed
<1>2. /\ pc' \in {"settle", "tail", "commitSemantic"}
      /\ pc' # "commitSemantic" => again' = FALSE
      /\ pc' = "commitSemantic" => answers' = 0 /\ ~result'.headers /\ (~Codex => ~result'.success)
  BY <1>1, AlternateFailedForm DEF TypeOK, ResultOK
<1>3. \/ answers' = 1 /\ result'.headers = TRUE
      \/ answers' = 0 /\ ~result'.headers /\ ~result'.success
      \/ Codex
  <2>1. answers + 1 = 1 BY <1>1
  <2> QED BY <1>1, <2>1, Zenon, AlternateFailedForm DEF TypeOK, ResultOK
<1> QED BY <1>2, <1>3 DEF AnswerInv, InAttempt, Fresh, Retrying, RuleRetrying, Alternates, Reserved

\* The four places that charge the ledger keep it a ledger.
LEMMA LedgerActivations ==
    ASSUME LedgersOK, PlacesOK, SlotInv, BudgetInv
    PROVE  /\ StartFirst => LedgersOK'
           /\ AlternateActivate => LedgersOK'
           /\ RetryActivate => LedgersOK'
           /\ RuleActivate => LedgersOK'
<1>1. ASSUME StartFirst PROVE LedgersOK'
  BY <1>1, StartForm DEF LedgersOK, SlotInv, StartFirst
<1>2. ASSUME AlternateActivate PROVE LedgersOK'
  BY <1>2, StartForm DEF LedgersOK, PlacesOK, SlotInv, AlternateActivate, Reserved
<1>3. ASSUME RetryActivate PROVE LedgersOK'
  BY <1>3, LegacyForm DEF LedgersOK, SlotInv, RetryActivate, Running
<1>4. ASSUME RuleActivate PROVE LedgersOK'
  BY <1>4, RuleForm DEF LedgersOK, SlotInv, BudgetInv, RuleActivate, RuleRetrying, Running
<1> QED BY <1>1, <1>2, <1>3, <1>4

-----------------------------------------------------------------------------
(* The initial state, and what the invariant implies.                        *)

\* There are as many rules as actions that may match.
LEMMA RulesCounted ==
    /\ IsFiniteSet(RuleActions)
    /\ Cardinality(RuleActions) = (IF "passthrough" \in RuleActions THEN 1 ELSE 0)
         + (IF "retry_only" \in RuleActions THEN 1 ELSE 0)
         + (IF "retry_then_switch" \in RuleActions THEN 1 ELSE 0)
<1> DEFINE S1 == RuleActions \cap {"passthrough"}
           S2 == RuleActions \cap {"passthrough", "retry_only"}
<1>1. IsFiniteSet({}) /\ Cardinality({}) = 0 BY FS_EmptySet
<1>2. IsFiniteSet(S1) /\ Cardinality(S1) = IF "passthrough" \in RuleActions THEN 1 ELSE 0
  <2>1. CASE "passthrough" \in RuleActions
    <3>1. S1 = {} \cup {"passthrough"} BY <2>1
    <3> QED BY <1>1, <2>1, <3>1, FS_AddElement
  <2>2. CASE "passthrough" \notin RuleActions
    <3>1. S1 = {} BY <2>2
    <3> QED BY <1>1, <2>2, <3>1
  <2> QED BY <2>1, <2>2
<1>3. IsFiniteSet(S2)
      /\ Cardinality(S2) = Cardinality(S1) + IF "retry_only" \in RuleActions THEN 1 ELSE 0
  <2>1. CASE "retry_only" \in RuleActions
    <3>1. S2 = S1 \cup {"retry_only"} /\ "retry_only" \notin S1 BY <2>1
    <3> QED BY <1>2, <2>1, <3>1, FS_AddElement
  <2>2. CASE "retry_only" \notin RuleActions
    <3>1. S2 = S1 BY <2>2
    <3> QED BY <1>2, <2>2, <3>1
  <2> QED BY <2>1, <2>2
<1>4. IsFiniteSet(RuleActions)
      /\ Cardinality(RuleActions) = Cardinality(S2) + IF "retry_then_switch" \in RuleActions THEN 1 ELSE 0
  <2>1. CASE "retry_then_switch" \in RuleActions
    <3>1. RuleActions = S2 \cup {"retry_then_switch"} /\ "retry_then_switch" \notin S2
      BY <2>1, ExecutionAssumption
    <3> QED BY <1>3, <2>1, <3>1, FS_AddElement
  <2>2. CASE "retry_then_switch" \notin RuleActions
    <3>1. RuleActions = S2 BY <2>2, ExecutionAssumption
    <3>2. Cardinality(S2) \in Nat BY <1>3, FS_CardinalityType
    <3> QED BY <1>3, <2>2, <3>1, <3>2
  <2> QED BY <2>1, <2>2
<1> HIDE DEF S1, S2
<1> QED BY <1>2, <1>3, <1>4

\* All rules together charge a provider at most their number times max_retries.
LEMMA ChargedBound ==
    ASSUME NEW l \in Ledgers, NEW p \in Providers,
           \A r \in RuleActions : l.rule[<<p, r>>] <= RuleRetries
    PROVE  Charged(l, p) <= Cardinality(RuleActions) * RuleRetries
<1> DEFINE n(r) == IF r \in RuleActions THEN 1 ELSE 0
<1>1. RuleRetries \in Nat BY ExecutionAssumption
<1>2. \A r : RuleCharge(l, p, r) \in Nat /\ RuleCharge(l, p, r) <= n(r) * RuleRetries
  <2> SUFFICES ASSUME NEW r PROVE RuleCharge(l, p, r) \in Nat /\ RuleCharge(l, p, r) <= n(r) * RuleRetries
    OBVIOUS
  <2>1. CASE r \in RuleActions
    <3>1. l.rule[<<p, r>>] \in Nat BY <2>1 DEF Ledgers
    <3> QED BY <1>1, <2>1, <3>1 DEF RuleCharge
  <2>2. CASE r \notin RuleActions
    BY <1>1, <2>2 DEF RuleCharge
  <2> QED BY <2>1, <2>2
<1>3. Cardinality(RuleActions) = n("passthrough") + n("retry_only") + n("retry_then_switch")
  BY RulesCounted
<1>4. \A r : n(r) \in {0, 1} OBVIOUS
<1> HIDE DEF n
<1>5. Cardinality(RuleActions) * RuleRetries
        = n("passthrough") * RuleRetries + n("retry_only") * RuleRetries + n("retry_then_switch") * RuleRetries
  <2>1. \A a, b, c \in {0, 1} : (a + b + c) * RuleRetries = a * RuleRetries + b * RuleRetries + c * RuleRetries
    BY <1>1
  <2> QED BY <1>3, <1>4, <2>1
<1>6. \A r : n(r) * RuleRetries \in Nat BY <1>1, <1>4
<1> QED BY <1>2, <1>5, <1>6 DEF Charged

\* What the inductive invariant is for.
LEMMA InvAccounted == RequestInv => RequestAccounted
<1> SUFFICES ASSUME RequestInv PROVE RequestAccounted
  OBVIOUS
<1>1. SlotsOwned
  <2>1. pc = "done" => entry = NoOne /\ reservation = NoOne
    BY DEF RequestInv, SlotInv, Reserved
  <2> QED BY <2>1, ExecutionAssumption DEF RequestInv, SlotInv, SlotsOwned, Owns
<1>2. ASSUME NEW p \in Providers
      PROVE  ledger.provider[p] <= 1 + MaxRetries[p] + Cardinality(RuleActions) * RuleRetries
  <2>1. /\ ledger \in Ledgers /\ ledger.provider[p] \in Nat /\ ledger.legacy[p] \in Nat
        /\ MaxRetries[p] \in Nat
    BY ExecutionAssumption DEF RequestInv, TypeOK, Ledgers
  <2>2. /\ ledger.provider[p] <= 1 + ledger.legacy[p] + Charged(ledger, p)
        /\ ledger.legacy[p] <= MaxRetries[p]
        /\ \A r \in RuleActions : ledger.rule[<<p, r>>] <= RuleRetries
    BY DEF RequestInv, BudgetInv, Bounded
  <2>3. Charged(ledger, p) \in Nat /\ Charged(ledger, p) <= Cardinality(RuleActions) * RuleRetries
    BY <2>1, <2>2, ChargedNat, ChargedBound
  <2>4. Cardinality(RuleActions) * RuleRetries \in Nat
    <3>1. Cardinality(RuleActions) \in Nat BY RulesCounted, FS_CardinalityType
    <3> QED BY <3>1, ExecutionAssumption
  <2> HIDE DEF Charged
  <2> QED BY <2>1, <2>2, <2>3, <2>4
<1>3. BudgetRespected
  BY <1>2 DEF RequestInv, BudgetInv, Bounded, BudgetRespected
<1>4. NoResponseAbandoned
  BY DEF RequestInv, ResponseInv, Between, NoResponseAbandoned
<1>5. ~Codex => AnsweredOnce
  BY DEF RequestInv, AnswerInv, AnsweredOnce
<1> QED BY <1>1, <1>3, <1>4, <1>5 DEF RequestAccounted

\* The type invariant in four parts, which the actions disturb separately.
LEMMA TypeParts == TypeOK <=> ResultOK /\ LedgersOK /\ FlagsOK /\ PlacesOK
BY DEF TypeOK, ResultOK, LedgersOK, FlagsOK, PlacesOK

\* A new ledger has charged nothing.
LEMMA EmptyForm ==
    /\ EmptyLedger \in Ledgers /\ EmptyLedger.logical = 0
    /\ \A p \in Providers : EmptyLedger.provider[p] = 0 /\ EmptyLedger.legacy[p] = 0
    /\ \A p \in Providers, r \in RuleActions : EmptyLedger.rule[<<p, r>>] = 0
BY DEF EmptyLedger, Ledgers

\* A new request satisfies the invariant.
LEMMA InitAccounted == Init => RequestInv
<1> SUFFICES ASSUME Init PROVE RequestInv
  OBVIOUS
<1>1. /\ ledger \in Ledgers /\ before.ledger = ledger /\ before.attempt = 0
      /\ ledger = EmptyLedger
  BY EmptyForm DEF Init
<1>2. TypeOK
  BY <1>1, NoResultForm, ExecutionAssumption DEF Init, TypeOK, Labels, Statuses
<1>3. SlotInv
  BY ExecutionAssumption DEF Init, SlotInv, Owns, Reserved, Running
<1>4. ResponseInv /\ AnswerInv /\ MarkInv
  BY NoResultForm DEF Init, ResponseInv, AnswerInv, MarkInv, InAttempt, Fresh, Retrying, RuleRetrying,
     Alternates, Reserved
<1>5. UnusedOutside(ledger, {}) /\ UnusedOutside(ledger, excluded \cup {provider})
  BY <1>1, EmptyForm DEF UnusedOutside, Unused
<1>6. Bounded(globalMax, ledger)
  <2>1. \A p \in Providers : Charged(ledger, p) \in Nat BY <1>1, ChargedNat
  <2>2. globalMax \in Nat /\ RuleRetries \in Nat /\ \A p \in Providers : MaxRetries[p] \in Nat
    BY ExecutionAssumption DEF Init
  <2> QED BY <1>1, <2>1, <2>2, EmptyForm DEF Bounded
<1>7. BudgetInv
  BY <1>1, <1>5, <1>6, EmptyForm, ExecutionAssumption DEF Init, BudgetInv, InAttempt, Fresh, Retrying,
     RuleRetrying, Alternates, Reserved
<1> QED BY <1>2, <1>3, <1>4, <1>7 DEF RequestInv

-----------------------------------------------------------------------------
(* One lemma per part of the invariant, one step per action or group.        *)

\* Every step keeps each slot with its owner.
LEMMA SlotStep ==
    ASSUME TypeOK, SlotInv, [Next]_vars
    PROVE  SlotInv'
<1> USE ExecutionAssumption
    DEF TypeOK, SlotInv, Labels, Results, Ledgers, Statuses, Owns, Reserved, Running, Dead, Kinds,
      attempt, budget, client, flow, ownership, route, seen, vars
<1>1. CASE Selecting
  BY <1>1 DEF Selecting, SelectInitial, SelectNone, SelectFails, TargetExcluded, TargetFails, StartFirst,
    Release, NoResult, Remains, StartAttempt
<1>2. CASE Attempting
  BY <1>2 DEF Attempting, LoopEnds, BeginAttempt, PrepareRequest, FetchFaults, FetchFails, Responds,
    RefreshDeclined, RefreshPermit, RefreshPrepareFails, RefreshDiscard, RefreshActivate,
    Cancelled, NoResult, Stop, Fetched, AttemptObserved, Verdict, Assess, DiscardOK,
    DiscardLost, DiscardClosesBadly, Deferred, Published
<1>3. CASE Resolving
  <2>1. CASE ResolveStatusFailure
    BY <2>1 DEF ResolveStatusFailure, NoResult, Verdict, Assess, Deferred, Published
  <2>2. CASE ResolveForwarded
    BY <2>2 DEF ResolveForwarded, Forwarding, NoResult, Verdict, AttemptObserved, Assess, Committed, Stop,
      Deferred, Published
  <2>3. CASE ResolveCancelled
    BY <2>3 DEF ResolveCancelled, CommitLost, Stop, NoResult
  <2>4. ASSUME NEW r \in RuleActions, ResolveMatch(r) PROVE SlotInv'
    BY <2>4 DEF ResolveMatch, NoResult, Verdict, SemanticVerdict, Assess, Deferred, Published
  <2>5. CASE LegacySourceFailed
    BY <2>5 DEF LegacySourceFailed, DiscardOK, DiscardLost, Stop, NoResult
  <2>6. CASE LegacyDecide
    BY <2>6 DEF LegacyDecide, CanRetry, Remains
  <2>7. CASE BackoffCancelled
    BY <2>7 DEF BackoffCancelled, CancelPending, AttemptObserved, DiscardOK, Stop, Cancelled, DiscardLost
  <2>8. CASE BackoffRejected
    BY <2>8 DEF BackoffRejected, AttemptObserved
  <2>9. CASE BackoffPermit
    BY <2>9 DEF BackoffPermit, AttemptObserved
  <2>10. CASE RetryDiscard
    BY <2>10 DEF RetryDiscard, DiscardOK, DiscardLost, DiscardClosesBadly, Stop, Cancelled, AttemptObserved
  <2>11. CASE RetryActivate
    BY <2>11 DEF RetryActivate, StartLegacyRetry, Stop, Cancelled, StartAttempt, AttemptObserved
  <2>12. CASE SwitchOrStop
    BY <2>12 DEF SwitchOrStop, Stop
  <2> QED BY <1>3, <2>1, <2>2, <2>3, <2>4, <2>5, <2>6, <2>7, <2>8, <2>9, <2>10, <2>11, <2>12 DEF Resolving
<1>4. CASE Switching
  BY <1>4 DEF Switching, ReserveAlternate, NoAlternate, AlternateRetired, AlternateExcluded, AlternateFaults,
    AlternateDiscard, AlternateActivate, AlternateFailed, Remains, AttemptObserved, GiveBack,
    Cancelled, DiscardOK, DiscardLost, AttemptReturned, DiscardClosesBadly, StartAttempt,
    Release, Stop, Forwarding, CommitLost, CancelPending, Committed
<1>5. CASE Semantic
  BY <1>5 DEF Semantic, SemanticDecide, RuleBackoffCancelled, RuleRejected, RulePermit, RuleDiscard,
    RuleActivate, CommitSemantic, DecideRetry, CancelPending, AttemptObserved, DiscardOK,
    DiscardLost, DiscardClosesBadly, Stop, Cancelled, StartRuleRetry, Forwarding, Committed,
    CommitLost, Remains, RuleRetriesRemain, StartAttempt
<1>6. CASE Ending
  BY <1>6 DEF Ending, SettleFaults, Settle, RelayTail, FinalizeProxy, Deferred, Published, Release
<1>7. CASE Environment
  BY <1>7 DEF Environment, ClientLeaves, SourceFails, ResponseCancelled, CleanupStaleRequests, Release
<1>8. CASE UNCHANGED vars
  BY <1>8
<1> QED BY <1>1, <1>2, <1>3, <1>4, <1>5, <1>6, <1>7, <1>8 DEF Next, ExecuteProxy

\* Every step leaves a held response only where somebody will settle it.
LEMMA ResponseStep ==
    ASSUME TypeOK, ResponseInv, AnswerInv, MarkInv, [Next]_vars
    PROVE  ResponseInv'
<1> USE ExecutionAssumption
    DEF TypeOK, ResponseInv, AnswerInv, MarkInv, Labels, Results, Statuses, Dead, Between, Alternates,
      Fresh, NoResult, InAttempt, Deferred, RuleRetrying, Kinds, Reserved, Retrying, attempt,
      budget, client, flow, ownership, route, seen, vars
<1>1. CASE Selecting
  BY <1>1 DEF Selecting, SelectInitial, SelectNone, SelectFails, TargetExcluded, TargetFails, StartFirst,
    Release, Remains, StartAttempt
<1>2. CASE Attempting
  <2>1. CASE LoopEnds
    BY <2>1 DEF LoopEnds, Cancelled, AttemptObserved
  <2>2. CASE BeginAttempt
    BY <2>2 DEF BeginAttempt
  <2>3. CASE PrepareRequest
    BY <2>3 DEF PrepareRequest, Stop
  <2>4. CASE FetchFaults
    BY <2>4 DEF FetchFaults, Fetched, Stop
  <2>5. ASSUME NEW kind \in {"transport", "noResponse"}, FetchFails(kind) PROVE ResponseInv'
    BY <2>5, FetchFailsForm DEF FetchFails, Fetched, AttemptObserved, Stop, ResultOK
  <2>6. ASSUME NEW s \in Statuses, Responds(s) PROVE ResponseInv'
    BY <2>6 DEF Responds, Fetched
  <2>7. CASE RefreshDeclined
    BY <2>7 DEF RefreshDeclined
  <2>8. CASE RefreshPermit
    BY <2>8 DEF RefreshPermit
  <2>9. CASE RefreshPrepareFails
    BY <2>9 DEF RefreshPrepareFails, DiscardOK, DiscardLost, Stop
  <2>10. CASE RefreshDiscard
    BY <2>10 DEF RefreshDiscard, DiscardOK, DiscardLost, DiscardClosesBadly, Stop, Cancelled, AttemptObserved
  <2>11. CASE RefreshActivate
    BY <2>11, RefreshActivateForm DEF RefreshActivate, Stop, ResultOK
  <2> QED BY <1>2, <2>1, <2>2, <2>3, <2>4, <2>5, <2>6, <2>7, <2>8, <2>9, <2>10, <2>11 DEF Attempting
<1>3. CASE Resolving
  <2>1. CASE ResolveStatusFailure
    BY <2>1 DEF ResolveStatusFailure, Verdict, Assess, Published
  <2>2. CASE ResolveForwarded
    BY <2>2, ResolveForwardedForm DEF ResolveForwarded, AttemptObserved, ResultOK
  <2>3. CASE ResolveCancelled
    BY <2>3 DEF ResolveCancelled, CommitLost, Stop
  <2>4. ASSUME NEW r \in RuleActions, ResolveMatch(r) PROVE ResponseInv'
    BY <2>4 DEF ResolveMatch, Verdict, SemanticVerdict, Assess, Published
  <2>5. CASE LegacySourceFailed
    BY <2>5 DEF LegacySourceFailed, DiscardOK, DiscardLost, Stop
  <2>6. CASE LegacyDecide
    BY <2>6 DEF LegacyDecide, CanRetry, Remains
  <2>7. CASE BackoffCancelled
    BY <2>7 DEF BackoffCancelled, CancelPending, AttemptObserved, DiscardOK, Stop, Cancelled, DiscardLost
  <2>8. CASE BackoffRejected
    BY <2>8 DEF BackoffRejected, AttemptObserved
  <2>9. CASE BackoffPermit
    BY <2>9 DEF BackoffPermit, AttemptObserved
  <2>10. CASE RetryDiscard
    BY <2>10 DEF RetryDiscard, DiscardOK, DiscardLost, DiscardClosesBadly, Stop, Cancelled, AttemptObserved
  <2>11. CASE RetryActivate
    BY <2>11 DEF RetryActivate, StartLegacyRetry, Stop, Cancelled, StartAttempt, AttemptObserved
  <2>12. CASE SwitchOrStop
    BY <2>12 DEF SwitchOrStop, Stop
  <2> QED BY <1>3, <2>1, <2>2, <2>3, <2>4, <2>5, <2>6, <2>7, <2>8, <2>9, <2>10, <2>11, <2>12 DEF Resolving
<1>4. CASE Switching
  <2>1. ASSUME NEW p \in Providers, ReserveAlternate(p) PROVE ResponseInv'
    BY <2>1 DEF ReserveAlternate, Remains
  <2>2. CASE NoAlternate
    BY <2>2 DEF NoAlternate, Remains, AttemptObserved
  <2>3. CASE AlternateRetired
    BY <2>3 DEF AlternateRetired, GiveBack, Cancelled, Release, AttemptObserved
  <2>4. CASE AlternateExcluded
    BY <2>4 DEF AlternateExcluded, GiveBack, Release
  <2>5. CASE AlternateFaults
    BY <2>5 DEF AlternateFaults, GiveBack, DiscardOK, DiscardLost, AttemptReturned, Release
  <2>6. CASE AlternateDiscard
    BY <2>6, AlternateDiscardForm DEF AlternateDiscard, DiscardOK, DiscardLost, GiveBack, DiscardClosesBadly, Release, ResultOK
  <2>7. CASE AlternateActivate
    BY <2>7 DEF AlternateActivate, StartAttempt, Release, AttemptReturned
  <2>8. CASE AlternateFailed
    BY <2>8, AlternateFailedForm DEF AlternateFailed, Stop, CommitLost, ResultOK
  <2> QED BY <1>4, <2>1, <2>2, <2>3, <2>4, <2>5, <2>6, <2>7, <2>8 DEF Switching
<1>5. CASE Semantic
  <2>1. CASE SemanticDecide
    BY <2>1 DEF SemanticDecide, DecideRetry, Remains, RuleRetriesRemain
  <2>2. CASE RuleBackoffCancelled
    BY <2>2 DEF RuleBackoffCancelled, CancelPending, DiscardOK, Stop, Cancelled, DiscardLost, AttemptObserved
  <2>3. CASE RuleRejected
    BY <2>3 DEF RuleRejected, AttemptObserved
  <2>4. CASE RulePermit
    BY <2>4 DEF RulePermit
  <2>5. CASE RuleDiscard
    BY <2>5 DEF RuleDiscard, DiscardOK, DiscardLost, DiscardClosesBadly, Stop, Cancelled, AttemptObserved
  <2>6. CASE RuleActivate
    BY <2>6 DEF RuleActivate, StartRuleRetry, Stop, StartAttempt
  <2>7. CASE CommitSemantic
    BY <2>7, CommitSemanticForm DEF CommitSemantic, Committed, Stop, CommitLost, ResultOK
  <2> QED BY <1>5, <2>1, <2>2, <2>3, <2>4, <2>5, <2>6, <2>7 DEF Semantic
<1>6. CASE Ending
  BY <1>6 DEF Ending, SettleFaults, Settle, RelayTail, FinalizeProxy, Published, Release
<1>7. CASE Environment
  BY <1>7 DEF Environment, ClientLeaves, SourceFails, ResponseCancelled, CleanupStaleRequests, Release
<1>8. CASE UNCHANGED vars
  BY <1>8
<1> QED BY <1>1, <1>2, <1>3, <1>4, <1>5, <1>6, <1>7, <1>8 DEF Next, ExecuteProxy

\* Every step keeps the answers and the result in agreement.
LEMMA AnswerStep ==
    ASSUME TypeOK, ResponseInv, AnswerInv, [Next]_vars
    PROVE  AnswerInv'
<1> USE ExecutionAssumption
    DEF TypeOK, ResponseInv, AnswerInv, Labels, Results, Statuses, Dead, Between, Alternates, Fresh,
      NoResult, InAttempt, Kinds, Reserved, Retrying, RuleRetrying, attempt, budget, client,
      flow, ownership, route, seen, vars
<1>1. CASE Selecting
  BY <1>1 DEF Selecting, SelectInitial, SelectNone, SelectFails, TargetExcluded, TargetFails, StartFirst,
    Release, Remains, StartAttempt
<1>2. CASE Attempting
  <2>1. CASE LoopEnds
    BY <2>1 DEF LoopEnds, Cancelled, AttemptObserved
  <2>2. CASE BeginAttempt
    BY <2>2 DEF BeginAttempt
  <2>3. CASE PrepareRequest
    BY <2>3 DEF PrepareRequest, Stop
  <2>4. CASE FetchFaults
    BY <2>4 DEF FetchFaults, Fetched, Stop
  <2>5. ASSUME NEW kind \in {"transport", "noResponse"}, FetchFails(kind) PROVE AnswerInv'
    BY <2>5, FetchFailsForm DEF FetchFails, Fetched, AttemptObserved, Stop, ResultOK
  <2>6. ASSUME NEW s \in Statuses, Responds(s) PROVE AnswerInv'
    BY <2>6 DEF Responds, Fetched
  <2>7. CASE RefreshDeclined
    BY <2>7 DEF RefreshDeclined
  <2>8. CASE RefreshPermit
    BY <2>8 DEF RefreshPermit
  <2>9. CASE RefreshPrepareFails
    BY <2>9 DEF RefreshPrepareFails, DiscardOK, DiscardLost, Stop
  <2>10. CASE RefreshDiscard
    BY <2>10 DEF RefreshDiscard, DiscardOK, DiscardLost, DiscardClosesBadly, Stop, Cancelled, AttemptObserved
  <2>11. CASE RefreshActivate
    BY <2>11, RefreshActivateForm DEF RefreshActivate, Stop, ResultOK
  <2> QED BY <1>2, <2>1, <2>2, <2>3, <2>4, <2>5, <2>6, <2>7, <2>8, <2>9, <2>10, <2>11 DEF Attempting
<1>3. CASE Resolving
  <2>1. CASE ResolveStatusFailure
    BY <2>1 DEF ResolveStatusFailure, Verdict, Assess, Deferred, Published
  <2>2. CASE ResolveForwarded
    BY <2>2, AnswerResolveForwarded
  <2>3. CASE ResolveCancelled
    BY <2>3 DEF ResolveCancelled, CommitLost, Stop
  <2>4. ASSUME NEW r \in RuleActions, ResolveMatch(r) PROVE AnswerInv'
    BY <2>4 DEF ResolveMatch, Verdict, SemanticVerdict, Assess, Deferred, Published
  <2>5. CASE LegacySourceFailed
    BY <2>5 DEF LegacySourceFailed, DiscardOK, DiscardLost, Stop
  <2>6. CASE LegacyDecide
    BY <2>6 DEF LegacyDecide, CanRetry, Remains
  <2>7. CASE BackoffCancelled
    BY <2>7, CancelPendingForm DEF BackoffCancelled, AttemptObserved, ResultOK
  <2>8. CASE BackoffRejected
    BY <2>8 DEF BackoffRejected, AttemptObserved
  <2>9. CASE BackoffPermit
    BY <2>9 DEF BackoffPermit, AttemptObserved
  <2>10. CASE RetryDiscard
    BY <2>10 DEF RetryDiscard, DiscardOK, DiscardLost, DiscardClosesBadly, Stop, Cancelled, AttemptObserved
  <2>11. CASE RetryActivate
    BY <2>11 DEF RetryActivate, StartLegacyRetry, Stop, Cancelled, StartAttempt, AttemptObserved
  <2>12. CASE SwitchOrStop
    BY <2>12 DEF SwitchOrStop, Stop
  <2> QED BY <1>3, <2>1, <2>2, <2>3, <2>4, <2>5, <2>6, <2>7, <2>8, <2>9, <2>10, <2>11, <2>12 DEF Resolving
<1>4. CASE Switching
  <2>1. ASSUME NEW p \in Providers, ReserveAlternate(p) PROVE AnswerInv'
    BY <2>1 DEF ReserveAlternate, Remains
  <2>2. CASE NoAlternate
    BY <2>2 DEF NoAlternate, Remains, AttemptObserved
  <2>3. CASE AlternateRetired
    BY <2>3 DEF AlternateRetired, GiveBack, Cancelled, Release, AttemptObserved
  <2>4. CASE AlternateExcluded
    BY <2>4 DEF AlternateExcluded, GiveBack, Release
  <2>5. CASE AlternateFaults
    BY <2>5 DEF AlternateFaults, GiveBack, DiscardOK, DiscardLost, AttemptReturned, Release
  <2>6. CASE AlternateDiscard
    BY <2>6, AlternateDiscardForm DEF AlternateDiscard, DiscardOK, DiscardLost, GiveBack, DiscardClosesBadly, Release, ResultOK
  <2>7. CASE AlternateActivate
    BY <2>7 DEF AlternateActivate, StartAttempt, Release, AttemptReturned
  <2>8. CASE AlternateFailed
    BY <2>8, AnswerAlternateFailed
  <2> QED BY <1>4, <2>1, <2>2, <2>3, <2>4, <2>5, <2>6, <2>7, <2>8 DEF Switching
<1>5. CASE Semantic
  <2>1. CASE SemanticDecide
    BY <2>1 DEF SemanticDecide, DecideRetry, Remains, RuleRetriesRemain
  <2>2. CASE RuleBackoffCancelled
    BY <2>2, CancelPendingForm DEF RuleBackoffCancelled, ResultOK
  <2>3. CASE RuleRejected
    BY <2>3 DEF RuleRejected, AttemptObserved
  <2>4. CASE RulePermit
    BY <2>4 DEF RulePermit
  <2>5. CASE RuleDiscard
    BY <2>5 DEF RuleDiscard, DiscardOK, DiscardLost, DiscardClosesBadly, Stop, Cancelled, AttemptObserved
  <2>6. CASE RuleActivate
    BY <2>6 DEF RuleActivate, StartRuleRetry, Stop, StartAttempt
  <2>7. CASE CommitSemantic
    BY <2>7, AnswerCommitSemantic
  <2> QED BY <1>5, <2>1, <2>2, <2>3, <2>4, <2>5, <2>6, <2>7 DEF Semantic
<1>6. CASE Ending
  <2>1. CASE SettleFaults
    BY <2>1 DEF SettleFaults
  <2>2. CASE Settle
    BY <2>2 DEF Settle, Deferred, Published
  <2>3. CASE RelayTail
    BY <2>3 DEF RelayTail
  <2>4. CASE FinalizeProxy
    BY <2>4 DEF FinalizeProxy, Release
  <2> QED BY <1>6, <2>1, <2>2, <2>3, <2>4 DEF Ending
<1>7. CASE Environment
  BY <1>7 DEF Environment, ClientLeaves, SourceFails, ResponseCancelled, CleanupStaleRequests, Release
<1>8. CASE UNCHANGED vars
  BY <1>8
<1> QED BY <1>1, <1>2, <1>3, <1>4, <1>5, <1>6, <1>7, <1>8 DEF Next, ExecuteProxy

\* Every step keeps the verdicts of one attempt to one.
LEMMA MarkStep ==
    ASSUME TypeOK, ResponseInv, AnswerInv, MarkInv, [Next]_vars
    PROVE  MarkInv'
<1> USE ExecutionAssumption
    DEF TypeOK, ResponseInv, AnswerInv, MarkInv, Labels, Statuses, Dead, Between, Alternates, Fresh,
      NoResult, InAttempt, Deferred, RuleRetrying, Reserved, Retrying, attempt, budget, client,
      flow, ownership, route, seen, vars
<1>1. CASE Selecting
  BY <1>1 DEF Selecting, SelectInitial, SelectNone, SelectFails, TargetExcluded, TargetFails, StartFirst,
    Release, Remains, StartAttempt
<1>2. CASE Attempting
  BY <1>2 DEF Attempting, LoopEnds, BeginAttempt, PrepareRequest, FetchFaults, FetchFails, Responds,
    RefreshDeclined, RefreshPermit, RefreshPrepareFails, RefreshDiscard, RefreshActivate,
    Cancelled, Stop, Fetched, AttemptObserved, Verdict, Assess, DiscardOK, DiscardLost,
    DiscardClosesBadly, Published
<1>3. CASE Resolving
  <2>1. CASE ResolveStatusFailure
    BY <2>1 DEF ResolveStatusFailure, Verdict, Assess, Published
  <2>2. CASE ResolveForwarded
    BY <2>2 DEF ResolveForwarded, Forwarding, Verdict, AttemptObserved, Assess, Committed, Stop, Published
  <2>3. CASE ResolveCancelled
    BY <2>3 DEF ResolveCancelled, CommitLost, Stop
  <2>4. ASSUME NEW r \in RuleActions, ResolveMatch(r) PROVE MarkInv'
    BY <2>4 DEF ResolveMatch, Verdict, SemanticVerdict, Assess, Published
  <2>5. CASE LegacySourceFailed
    BY <2>5 DEF LegacySourceFailed, DiscardOK, DiscardLost, Stop
  <2>6. CASE LegacyDecide
    BY <2>6 DEF LegacyDecide, CanRetry, Remains
  <2>7. CASE BackoffCancelled
    BY <2>7 DEF BackoffCancelled, CancelPending, AttemptObserved, DiscardOK, Stop, Cancelled, DiscardLost
  <2>8. CASE BackoffRejected
    BY <2>8 DEF BackoffRejected, AttemptObserved
  <2>9. CASE BackoffPermit
    BY <2>9 DEF BackoffPermit, AttemptObserved
  <2>10. CASE RetryDiscard
    BY <2>10 DEF RetryDiscard, DiscardOK, DiscardLost, DiscardClosesBadly, Stop, Cancelled, AttemptObserved
  <2>11. CASE RetryActivate
    BY <2>11 DEF RetryActivate, StartLegacyRetry, Stop, Cancelled, StartAttempt, AttemptObserved
  <2>12. CASE SwitchOrStop
    BY <2>12 DEF SwitchOrStop, Stop
  <2> QED BY <1>3, <2>1, <2>2, <2>3, <2>4, <2>5, <2>6, <2>7, <2>8, <2>9, <2>10, <2>11, <2>12 DEF Resolving
<1>4. CASE Switching
  <2>1. ASSUME NEW p \in Providers, ReserveAlternate(p) PROVE MarkInv'
    BY <2>1 DEF ReserveAlternate, Remains
  <2>2. CASE NoAlternate
    BY <2>2 DEF NoAlternate, Remains, AttemptObserved
  <2>3. CASE AlternateRetired
    BY <2>3 DEF AlternateRetired, GiveBack, Cancelled, Release, AttemptObserved
  <2>4. CASE AlternateExcluded
    BY <2>4 DEF AlternateExcluded, GiveBack, Release
  <2>5. CASE AlternateFaults
    BY <2>5 DEF AlternateFaults, GiveBack, DiscardOK, DiscardLost, AttemptReturned, Release
  <2>6. CASE AlternateDiscard
    BY <2>6, AlternateDiscardForm DEF AlternateDiscard, DiscardOK, DiscardLost, GiveBack, DiscardClosesBadly, Release, ResultOK
  <2>7. CASE AlternateActivate
    BY <2>7 DEF AlternateActivate, StartAttempt, Release, AttemptReturned
  <2>8. CASE AlternateFailed
    BY <2>8 DEF AlternateFailed, Stop, Forwarding, CommitLost, Cancelled, CancelPending, Committed,
      AttemptObserved, DiscardOK, DiscardLost
  <2> QED BY <1>4, <2>1, <2>2, <2>3, <2>4, <2>5, <2>6, <2>7, <2>8 DEF Switching
<1>5. CASE Semantic
  <2>1. CASE SemanticDecide
    BY <2>1 DEF SemanticDecide, DecideRetry, Remains, RuleRetriesRemain
  <2>2. CASE RuleBackoffCancelled
    BY <2>2 DEF RuleBackoffCancelled, CancelPending, DiscardOK, Stop, Cancelled, DiscardLost, AttemptObserved
  <2>3. CASE RuleRejected
    BY <2>3 DEF RuleRejected, AttemptObserved
  <2>4. CASE RulePermit
    BY <2>4 DEF RulePermit
  <2>5. CASE RuleDiscard
    BY <2>5, RuleDiscardForm DEF RuleDiscard, DiscardOK, DiscardLost, DiscardClosesBadly, Stop, ResultOK
  <2>6. CASE RuleActivate
    BY <2>6 DEF RuleActivate, StartRuleRetry, Stop, StartAttempt
  <2>7. CASE CommitSemantic
    BY <2>7 DEF CommitSemantic, Forwarding, Committed, Stop, CommitLost
  <2> QED BY <1>5, <2>1, <2>2, <2>3, <2>4, <2>5, <2>6, <2>7 DEF Semantic
<1>6. CASE Ending
  BY <1>6 DEF Ending, SettleFaults, Settle, RelayTail, FinalizeProxy, Published, Release
<1>7. CASE Environment
  BY <1>7 DEF Environment, ClientLeaves, SourceFails, ResponseCancelled, CleanupStaleRequests, Release
<1>8. CASE UNCHANGED vars
  BY <1>8
<1> QED BY <1>1, <1>2, <1>3, <1>4, <1>5, <1>6, <1>7, <1>8 DEF Next, ExecuteProxy

\* Every step stays within what was charged, and charges within the budgets.
LEMMA BudgetStep ==
    ASSUME TypeOK, SlotInv, MarkInv, BudgetInv, [Next]_vars
    PROVE  BudgetInv'
<1> USE ExecutionAssumption
    DEF TypeOK, SlotInv, MarkInv, BudgetInv, Labels, Results, Ledgers, Statuses, Owns, Reserved,
      Running, Dead, Fresh, InAttempt, Deferred, Alternates, RuleRetrying, Retrying, Remains,
      RuleRetriesRemain, Kinds, attempt, budget, client, flow, ownership, route, seen, vars
<1>1. CASE Selecting
  <2>1. ASSUME NEW p \in Providers, SelectInitial(p) PROVE BudgetInv'
    BY <2>1, BudgetSelectInitial
  <2>2. CASE SelectNone
    BY <2>2 DEF SelectNone
  <2>3. CASE SelectFails
    BY <2>3 DEF SelectFails
  <2>4. CASE TargetExcluded
    BY <2>4, BudgetTargetExcluded
  <2>5. CASE TargetFails
    BY <2>5 DEF TargetFails, Release, NoResult
  <2>6. CASE StartFirst
    BY <2>6, BudgetStartFirst
  <2> QED BY <1>1, <2>1, <2>2, <2>3, <2>4, <2>5, <2>6 DEF Selecting
<1>2. CASE Attempting
  <2>1. CASE LoopEnds
    BY <2>1 DEF LoopEnds, Cancelled, AttemptObserved
  <2>2. CASE BeginAttempt
    BY <2>2 DEF BeginAttempt, NoResult
  <2>3. CASE PrepareRequest
    BY <2>3 DEF PrepareRequest, NoResult, Stop
  <2>4. CASE FetchFaults
    BY <2>4 DEF FetchFaults, Fetched, Stop, NoResult
  <2>5. ASSUME NEW kind \in {"transport", "noResponse"}, FetchFails(kind) PROVE BudgetInv'
    BY <2>5 DEF FetchFails, Fetched, AttemptObserved, Stop, NoResult, Verdict, Assess, Published
  <2>6. ASSUME NEW s \in Statuses, Responds(s) PROVE BudgetInv'
    BY <2>6 DEF Responds, Fetched
  <2>7. CASE RefreshDeclined
    BY <2>7 DEF RefreshDeclined
  <2>8. CASE RefreshPermit
    BY <2>8 DEF RefreshPermit
  <2>9. CASE RefreshPrepareFails
    BY <2>9 DEF RefreshPrepareFails, DiscardOK, DiscardLost, Stop, NoResult
  <2>10. CASE RefreshDiscard
    BY <2>10 DEF RefreshDiscard, DiscardOK, DiscardLost, DiscardClosesBadly, Stop, Cancelled, NoResult,
      AttemptObserved
  <2>11. CASE RefreshActivate
    BY <2>11 DEF RefreshActivate, Stop, Cancelled, NoResult, AttemptObserved
  <2> QED BY <1>2, <2>1, <2>2, <2>3, <2>4, <2>5, <2>6, <2>7, <2>8, <2>9, <2>10, <2>11 DEF Attempting
<1>3. CASE Resolving
  <2>1. CASE ResolveStatusFailure
    BY <2>1 DEF ResolveStatusFailure, NoResult, Verdict, Assess, Published
  <2>2. CASE ResolveForwarded
    BY <2>2 DEF ResolveForwarded, Forwarding, NoResult, Verdict, AttemptObserved, Assess, Committed, Stop,
      Published
  <2>3. CASE ResolveCancelled
    BY <2>3 DEF ResolveCancelled, CommitLost, Stop, NoResult
  <2>4. ASSUME NEW r \in RuleActions, ResolveMatch(r) PROVE BudgetInv'
    BY <2>4 DEF ResolveMatch, NoResult, Verdict, SemanticVerdict, Assess, Published
  <2>5. CASE LegacySourceFailed
    BY <2>5 DEF LegacySourceFailed, DiscardOK, DiscardLost, Stop, NoResult
  <2>6. CASE LegacyDecide
    BY <2>6 DEF LegacyDecide, CanRetry
  <2>7. CASE BackoffCancelled
    BY <2>7 DEF BackoffCancelled, CancelPending, AttemptObserved, DiscardOK, Stop, Cancelled, DiscardLost
  <2>8. CASE BackoffRejected
    BY <2>8 DEF BackoffRejected, AttemptObserved
  <2>9. CASE BackoffPermit
    BY <2>9 DEF BackoffPermit, AttemptObserved
  <2>10. CASE RetryDiscard
    BY <2>10 DEF RetryDiscard, DiscardOK, DiscardLost, DiscardClosesBadly, Stop, Cancelled, AttemptObserved
  <2>11. CASE RetryActivate
    BY <2>11, BudgetRetryActivate
  <2>12. CASE SwitchOrStop
    BY <2>12 DEF SwitchOrStop, Stop
  <2> QED BY <1>3, <2>1, <2>2, <2>3, <2>4, <2>5, <2>6, <2>7, <2>8, <2>9, <2>10, <2>11, <2>12 DEF Resolving
<1>4. CASE Switching
  <2>1. ASSUME NEW p \in Providers, ReserveAlternate(p) PROVE BudgetInv'
    BY <2>1 DEF ReserveAlternate
  <2>2. CASE NoAlternate
    BY <2>2 DEF NoAlternate, AttemptObserved
  <2>3. CASE AlternateRetired
    BY <2>3 DEF AlternateRetired, GiveBack, Cancelled, Release, AttemptObserved
  <2>4. CASE AlternateExcluded
    BY <2>4 DEF AlternateExcluded, GiveBack, Release
  <2>5. CASE AlternateFaults
    BY <2>5 DEF AlternateFaults, GiveBack, DiscardOK, DiscardLost, AttemptReturned, Release
  <2>6. CASE AlternateDiscard
    BY <2>6 DEF AlternateDiscard, DiscardOK, DiscardLost, GiveBack, Cancelled, DiscardClosesBadly, Release,
      AttemptObserved
  <2>7. CASE AlternateActivate
    BY <2>7, BudgetAlternateActivate
  <2>8. CASE AlternateFailed
    BY <2>8 DEF AlternateFailed, Stop, Forwarding, CommitLost, Cancelled, CancelPending, Committed,
      AttemptObserved, DiscardOK, DiscardLost
  <2> QED BY <1>4, <2>1, <2>2, <2>3, <2>4, <2>5, <2>6, <2>7, <2>8 DEF Switching
<1>5. CASE Semantic
  <2>1. CASE SemanticDecide
    BY <2>1 DEF SemanticDecide, DecideRetry
  <2>2. CASE RuleBackoffCancelled
    BY <2>2 DEF RuleBackoffCancelled, CancelPending, DiscardOK, Stop, Cancelled, DiscardLost, AttemptObserved
  <2>3. CASE RuleRejected
    BY <2>3 DEF RuleRejected, AttemptObserved
  <2>4. CASE RulePermit
    BY <2>4 DEF RulePermit
  <2>5. CASE RuleDiscard
    BY <2>5 DEF RuleDiscard, DiscardOK, DiscardLost, DiscardClosesBadly, Stop, Cancelled, AttemptObserved
  <2>6. CASE RuleActivate
    BY <2>6, BudgetRuleActivate
  <2>7. CASE CommitSemantic
    BY <2>7 DEF CommitSemantic, Forwarding, Committed, Stop, CommitLost
  <2> QED BY <1>5, <2>1, <2>2, <2>3, <2>4, <2>5, <2>6, <2>7 DEF Semantic
<1>6. CASE Ending
  <2>1. CASE SettleFaults
    BY <2>1 DEF SettleFaults
  <2>2. CASE Settle
    BY <2>2 DEF Settle, Published
  <2>3. CASE RelayTail
    BY <2>3 DEF RelayTail
  <2>4. CASE FinalizeProxy
    BY <2>4 DEF FinalizeProxy, Release
  <2> QED BY <1>6, <2>1, <2>2, <2>3, <2>4 DEF Ending
<1>7. CASE Environment
  <2>1. CASE ClientLeaves
    BY <2>1 DEF ClientLeaves
  <2>2. CASE SourceFails
    BY <2>2 DEF SourceFails
  <2>3. CASE ResponseCancelled
    BY <2>3 DEF ResponseCancelled
  <2>4. CASE CleanupStaleRequests
    BY <2>4 DEF CleanupStaleRequests, Release
  <2> QED BY <1>7, <2>1, <2>2, <2>3, <2>4 DEF Environment
<1>8. CASE UNCHANGED vars
  BY <1>8
<1> QED BY <1>1, <1>2, <1>3, <1>4, <1>5, <1>6, <1>7, <1>8 DEF Next, ExecuteProxy

\* Every step keeps the result's type.
LEMMA ResultStep ==
    ASSUME ResultOK, [Next]_vars
    PROVE  ResultOK'
<1> USE ExecutionAssumption
    DEF ResultOK, attempt, budget, client, flow, ownership, route, seen, vars
<1>1. CASE Selecting
  BY <1>1, NoResultForm, KindForm, VerdictForm, SuccessForm, DiscardedForm, HeadersForm, CancelledForm, KindNames DEF Selecting, SelectInitial, SelectNone, SelectFails, TargetExcluded, TargetFails, StartFirst,
    Release, Remains, StartAttempt
<1>2. CASE Attempting
  <2>1. CASE LoopEnds
    BY <2>1, NoResultForm, KindForm, VerdictForm, SuccessForm, DiscardedForm, HeadersForm, CancelledForm, KindNames DEF LoopEnds, Dead
  <2>2. CASE BeginAttempt
    BY <2>2, NoResultForm, KindForm, VerdictForm, SuccessForm, DiscardedForm, HeadersForm, CancelledForm, KindNames DEF BeginAttempt, Dead
  <2>3. CASE PrepareRequest
    BY <2>3, NoResultForm, KindForm, VerdictForm, SuccessForm, DiscardedForm, HeadersForm, CancelledForm, KindNames DEF PrepareRequest, Stop
  <2>4. CASE FetchFaults
    BY <2>4, NoResultForm, KindForm, VerdictForm, SuccessForm, DiscardedForm, HeadersForm, CancelledForm, KindNames DEF FetchFaults, Fetched, Stop
  <2>5. ASSUME NEW kind \in {"transport", "noResponse"}, FetchFails(kind) PROVE ResultOK'
    BY <2>5, FetchFailsForm DEF FetchFails, Fetched, AttemptObserved, Stop
  <2>6. ASSUME NEW s \in Statuses, Responds(s) PROVE ResultOK'
    BY <2>6, NoResultForm, KindForm, VerdictForm, SuccessForm, DiscardedForm, HeadersForm, CancelledForm, KindNames DEF Responds, Fetched
  <2>7. CASE RefreshDeclined
    BY <2>7, NoResultForm, KindForm, VerdictForm, SuccessForm, DiscardedForm, HeadersForm, CancelledForm, KindNames DEF RefreshDeclined
  <2>8. CASE RefreshPermit
    BY <2>8, NoResultForm, KindForm, VerdictForm, SuccessForm, DiscardedForm, HeadersForm, CancelledForm, KindNames DEF RefreshPermit
  <2>9. CASE RefreshPrepareFails
    BY <2>9, NoResultForm, KindForm, VerdictForm, SuccessForm, DiscardedForm, HeadersForm, CancelledForm, KindNames DEF RefreshPrepareFails, DiscardOK, DiscardLost, Stop
  <2>10. CASE RefreshDiscard
    BY <2>10, NoResultForm, KindForm, VerdictForm, SuccessForm, DiscardedForm, HeadersForm, CancelledForm, KindNames DEF RefreshDiscard, DiscardOK, DiscardLost, DiscardClosesBadly, Stop
  <2>11. CASE RefreshActivate
    BY <2>11, RefreshActivateForm DEF RefreshActivate, Stop
  <2> QED BY <1>2, <2>1, <2>2, <2>3, <2>4, <2>5, <2>6, <2>7, <2>8, <2>9, <2>10, <2>11 DEF Attempting
<1>3. CASE Resolving
  <2>1. CASE ResolveStatusFailure
    BY <2>1, NoResultForm, KindForm, VerdictForm, SuccessForm, DiscardedForm, HeadersForm, CancelledForm, KindNames DEF ResolveStatusFailure, Assess, Deferred, Published
  <2>2. CASE ResolveForwarded
    BY <2>2, ResolveForwardedForm DEF ResolveForwarded, AttemptObserved
  <2>3. CASE ResolveCancelled
    BY <2>3, NoResultForm, KindForm, VerdictForm, SuccessForm, DiscardedForm, HeadersForm, CancelledForm, KindNames DEF ResolveCancelled, CommitLost, Stop
  <2>4. ASSUME NEW r \in RuleActions, ResolveMatch(r) PROVE ResultOK'
    BY <2>4, ResolveMatchForm DEF ResolveMatch
  <2>5. CASE LegacySourceFailed
    BY <2>5, NoResultForm, KindForm, VerdictForm, SuccessForm, DiscardedForm, HeadersForm, CancelledForm, KindNames DEF LegacySourceFailed, DiscardOK, DiscardLost, Stop
  <2>6. CASE LegacyDecide
    BY <2>6, NoResultForm, KindForm, VerdictForm, SuccessForm, DiscardedForm, HeadersForm, CancelledForm, KindNames DEF LegacyDecide, CanRetry, Remains
  <2>7. CASE BackoffCancelled
    BY <2>7, CancelPendingForm DEF BackoffCancelled, Dead, AttemptObserved
  <2>8. CASE BackoffRejected
    BY <2>8, NoResultForm, KindForm, VerdictForm, SuccessForm, DiscardedForm, HeadersForm, CancelledForm, KindNames DEF BackoffRejected, AttemptObserved
  <2>9. CASE BackoffPermit
    BY <2>9, NoResultForm, KindForm, VerdictForm, SuccessForm, DiscardedForm, HeadersForm, CancelledForm, KindNames DEF BackoffPermit, AttemptObserved
  <2>10. CASE RetryDiscard
    BY <2>10, RetryDiscardForm DEF RetryDiscard, DiscardOK, DiscardLost, DiscardClosesBadly, Stop
  <2>11. CASE RetryActivate
    BY <2>11, NoResultForm, KindForm, VerdictForm, SuccessForm, DiscardedForm, HeadersForm, CancelledForm, KindNames DEF RetryActivate, StartLegacyRetry, Stop, StartAttempt
  <2>12. CASE SwitchOrStop
    BY <2>12, NoResultForm, KindForm, VerdictForm, SuccessForm, DiscardedForm, HeadersForm, CancelledForm, KindNames DEF SwitchOrStop, Stop
  <2> QED BY <1>3, <2>1, <2>2, <2>3, <2>4, <2>5, <2>6, <2>7, <2>8, <2>9, <2>10, <2>11, <2>12 DEF Resolving
<1>4. CASE Switching
  <2>1. ASSUME NEW p \in Providers, ReserveAlternate(p) PROVE ResultOK'
    BY <2>1, NoResultForm, KindForm, VerdictForm, SuccessForm, DiscardedForm, HeadersForm, CancelledForm, KindNames DEF ReserveAlternate, Remains
  <2>2. CASE NoAlternate
    BY <2>2, NoResultForm, KindForm, VerdictForm, SuccessForm, DiscardedForm, HeadersForm, CancelledForm, KindNames DEF NoAlternate, Remains, AttemptObserved
  <2>3. CASE AlternateRetired
    BY <2>3, NoResultForm, KindForm, VerdictForm, SuccessForm, DiscardedForm, HeadersForm, CancelledForm, KindNames DEF AlternateRetired, GiveBack, Release
  <2>4. CASE AlternateExcluded
    BY <2>4, NoResultForm, KindForm, VerdictForm, SuccessForm, DiscardedForm, HeadersForm, CancelledForm, KindNames DEF AlternateExcluded, GiveBack, Release
  <2>5. CASE AlternateFaults
    BY <2>5, NoResultForm, KindForm, VerdictForm, SuccessForm, DiscardedForm, HeadersForm, CancelledForm, KindNames DEF AlternateFaults, GiveBack, DiscardOK, DiscardLost, AttemptReturned, Release
  <2>6. CASE AlternateDiscard
    BY <2>6, AlternateDiscardForm DEF AlternateDiscard, DiscardOK, DiscardLost, GiveBack, DiscardClosesBadly, Release
  <2>7. CASE AlternateActivate
    BY <2>7, NoResultForm, KindForm, VerdictForm, SuccessForm, DiscardedForm, HeadersForm, CancelledForm, KindNames DEF AlternateActivate, StartAttempt, Release, AttemptReturned
  <2>8. CASE AlternateFailed
    BY <2>8, AlternateFailedForm DEF AlternateFailed, Stop, CommitLost
  <2> QED BY <1>4, <2>1, <2>2, <2>3, <2>4, <2>5, <2>6, <2>7, <2>8 DEF Switching
<1>5. CASE Semantic
  <2>1. CASE SemanticDecide
    BY <2>1, NoResultForm, KindForm, VerdictForm, SuccessForm, DiscardedForm, HeadersForm, CancelledForm, KindNames DEF SemanticDecide, DecideRetry, Remains, RuleRetriesRemain
  <2>2. CASE RuleBackoffCancelled
    BY <2>2, CancelPendingForm DEF RuleBackoffCancelled, Dead
  <2>3. CASE RuleRejected
    BY <2>3, NoResultForm, KindForm, VerdictForm, SuccessForm, DiscardedForm, HeadersForm, CancelledForm, KindNames DEF RuleRejected, AttemptObserved
  <2>4. CASE RulePermit
    BY <2>4, NoResultForm, KindForm, VerdictForm, SuccessForm, DiscardedForm, HeadersForm, CancelledForm, KindNames DEF RulePermit
  <2>5. CASE RuleDiscard
    BY <2>5, RuleDiscardForm DEF RuleDiscard, DiscardOK, DiscardLost, DiscardClosesBadly, Stop
  <2>6. CASE RuleActivate
    BY <2>6, NoResultForm, KindForm, VerdictForm, SuccessForm, DiscardedForm, HeadersForm, CancelledForm, KindNames DEF RuleActivate, StartRuleRetry, Stop, StartAttempt
  <2>7. CASE CommitSemantic
    BY <2>7, CommitSemanticForm DEF CommitSemantic, Committed, Stop, CommitLost
  <2> QED BY <1>5, <2>1, <2>2, <2>3, <2>4, <2>5, <2>6, <2>7 DEF Semantic
<1>6. CASE Ending
  <2>1. CASE SettleFaults
    BY <2>1, NoResultForm, KindForm, VerdictForm, SuccessForm, DiscardedForm, HeadersForm, CancelledForm, KindNames DEF SettleFaults
  <2>2. CASE Settle
    BY <2>2, NoResultForm, KindForm, VerdictForm, SuccessForm, DiscardedForm, HeadersForm, CancelledForm, KindNames DEF Settle, Deferred, Published
  <2>3. CASE RelayTail
    BY <2>3, NoResultForm, KindForm, VerdictForm, SuccessForm, DiscardedForm, HeadersForm, CancelledForm, KindNames DEF RelayTail
  <2>4. CASE FinalizeProxy
    BY <2>4, NoResultForm, KindForm, VerdictForm, SuccessForm, DiscardedForm, HeadersForm, CancelledForm, KindNames DEF FinalizeProxy, Release
  <2> QED BY <1>6, <2>1, <2>2, <2>3, <2>4 DEF Ending
<1>7. CASE Environment
  BY <1>7, NoResultForm, KindForm, VerdictForm, SuccessForm, DiscardedForm, HeadersForm, CancelledForm, KindNames DEF Environment, ClientLeaves, SourceFails, ResponseCancelled, CleanupStaleRequests, Dead, Release
<1>8. CASE UNCHANGED vars
  BY <1>8
<1> QED BY <1>1, <1>2, <1>3, <1>4, <1>5, <1>6, <1>7, <1>8 DEF Next, ExecuteProxy

\* Every step keeps the ledgers' types.
LEMMA LedgerStep ==
    ASSUME LedgersOK, PlacesOK, SlotInv, BudgetInv, [Next]_vars
    PROVE  LedgersOK'
<1> USE ExecutionAssumption
    DEF LedgersOK, PlacesOK, SlotInv, BudgetInv, Labels, Statuses, Owns, Reserved, Running, Dead,
      InAttempt, Retrying, Remains, RuleRetrying, RuleRetriesRemain, Fresh, Alternates, attempt,
      budget, client, flow, ownership, route, seen, vars
<1>1. CASE Selecting
  <2>1. ASSUME NEW p \in Providers, SelectInitial(p) PROVE LedgersOK'
    BY <2>1 DEF SelectInitial
  <2>2. CASE SelectNone
    BY <2>2 DEF SelectNone
  <2>3. CASE SelectFails
    BY <2>3 DEF SelectFails
  <2>4. CASE TargetExcluded
    BY <2>4 DEF TargetExcluded, Release
  <2>5. CASE TargetFails
    BY <2>5 DEF TargetFails, Release, NoResult
  <2>6. CASE StartFirst
    BY <2>6, LedgerActivations
  <2> QED BY <1>1, <2>1, <2>2, <2>3, <2>4, <2>5, <2>6 DEF Selecting
<1>2. CASE Attempting
  BY <1>2 DEF Attempting, LoopEnds, BeginAttempt, PrepareRequest, FetchFaults, FetchFails, Responds,
    RefreshDeclined, RefreshPermit, RefreshPrepareFails, RefreshDiscard, RefreshActivate,
    Cancelled, NoResult, Stop, Fetched, AttemptObserved, Verdict, Assess, DiscardOK,
    DiscardLost, DiscardClosesBadly, Deferred, Published
<1>3. CASE Resolving
  <2>1. CASE ResolveStatusFailure
    BY <2>1 DEF ResolveStatusFailure, NoResult, Verdict, Assess, Deferred, Published
  <2>2. CASE ResolveForwarded
    BY <2>2 DEF ResolveForwarded, Forwarding, NoResult, Verdict, AttemptObserved, Assess, Committed, Stop,
      Deferred, Published
  <2>3. CASE ResolveCancelled
    BY <2>3 DEF ResolveCancelled, CommitLost, Stop, NoResult
  <2>4. ASSUME NEW r \in RuleActions, ResolveMatch(r) PROVE LedgersOK'
    BY <2>4 DEF ResolveMatch, NoResult, Verdict, SemanticVerdict, Assess, Deferred, Published
  <2>5. CASE LegacySourceFailed
    BY <2>5 DEF LegacySourceFailed, DiscardOK, DiscardLost, Stop, NoResult
  <2>6. CASE LegacyDecide
    BY <2>6 DEF LegacyDecide, CanRetry
  <2>7. CASE BackoffCancelled
    BY <2>7 DEF BackoffCancelled, CancelPending, AttemptObserved, DiscardOK, Stop, Cancelled, DiscardLost
  <2>8. CASE BackoffRejected
    BY <2>8 DEF BackoffRejected, AttemptObserved
  <2>9. CASE BackoffPermit
    BY <2>9 DEF BackoffPermit, AttemptObserved
  <2>10. CASE RetryDiscard
    BY <2>10 DEF RetryDiscard, DiscardOK, DiscardLost, DiscardClosesBadly, Stop, Cancelled, AttemptObserved
  <2>11. CASE RetryActivate
    BY <2>11, LedgerActivations
  <2>12. CASE SwitchOrStop
    BY <2>12 DEF SwitchOrStop, Stop
  <2> QED BY <1>3, <2>1, <2>2, <2>3, <2>4, <2>5, <2>6, <2>7, <2>8, <2>9, <2>10, <2>11, <2>12 DEF Resolving
<1>4. CASE Switching
  <2>1. ASSUME NEW p \in Providers, ReserveAlternate(p) PROVE LedgersOK'
    BY <2>1 DEF ReserveAlternate
  <2>2. CASE NoAlternate
    BY <2>2 DEF NoAlternate, AttemptObserved
  <2>3. CASE AlternateRetired
    BY <2>3 DEF AlternateRetired, GiveBack, Cancelled, Release, AttemptObserved
  <2>4. CASE AlternateExcluded
    BY <2>4 DEF AlternateExcluded, GiveBack, Release
  <2>5. CASE AlternateFaults
    BY <2>5 DEF AlternateFaults, GiveBack, DiscardOK, DiscardLost, AttemptReturned, Release
  <2>6. CASE AlternateDiscard
    BY <2>6 DEF AlternateDiscard, DiscardOK, DiscardLost, GiveBack, Cancelled, DiscardClosesBadly, Release,
      AttemptObserved
  <2>7. CASE AlternateActivate
    BY <2>7, LedgerActivations
  <2>8. CASE AlternateFailed
    BY <2>8 DEF AlternateFailed, Stop, Forwarding, CommitLost, Cancelled, CancelPending, Committed,
      AttemptObserved, DiscardOK, DiscardLost
  <2> QED BY <1>4, <2>1, <2>2, <2>3, <2>4, <2>5, <2>6, <2>7, <2>8 DEF Switching
<1>5. CASE Semantic
  <2>1. CASE SemanticDecide
    BY <2>1 DEF SemanticDecide, DecideRetry
  <2>2. CASE RuleBackoffCancelled
    BY <2>2 DEF RuleBackoffCancelled, CancelPending, DiscardOK, Stop, Cancelled, DiscardLost, AttemptObserved
  <2>3. CASE RuleRejected
    BY <2>3 DEF RuleRejected, AttemptObserved
  <2>4. CASE RulePermit
    BY <2>4 DEF RulePermit
  <2>5. CASE RuleDiscard
    BY <2>5 DEF RuleDiscard, DiscardOK, DiscardLost, DiscardClosesBadly, Stop, Cancelled, AttemptObserved
  <2>6. CASE RuleActivate
    BY <2>6, LedgerActivations
  <2>7. CASE CommitSemantic
    BY <2>7 DEF CommitSemantic, Forwarding, Committed, Stop, CommitLost
  <2> QED BY <1>5, <2>1, <2>2, <2>3, <2>4, <2>5, <2>6, <2>7 DEF Semantic
<1>6. CASE Ending
  BY <1>6 DEF Ending, SettleFaults, Settle, RelayTail, FinalizeProxy, Deferred, Published, Release
<1>7. CASE Environment
  BY <1>7 DEF Environment, ClientLeaves, SourceFails, ResponseCancelled, CleanupStaleRequests, Release
<1>8. CASE UNCHANGED vars
  BY <1>8
<1> QED BY <1>1, <1>2, <1>3, <1>4, <1>5, <1>6, <1>7, <1>8 DEF Next, ExecuteProxy

\* Every step keeps the flags' types.
LEMMA FlagsStep ==
    ASSUME FlagsOK, [Next]_vars
    PROVE  FlagsOK'
<1> USE ExecutionAssumption
    DEF FlagsOK, attempt, budget, client, flow, ownership, route, seen, vars
<1>1. CASE Selecting
  BY <1>1 DEF Selecting, SelectInitial, SelectNone, SelectFails, TargetExcluded, TargetFails, StartFirst,
    Release, NoResult, Remains, StartAttempt
<1>2. CASE Attempting
  BY <1>2 DEF Attempting, LoopEnds, BeginAttempt, PrepareRequest, FetchFaults, FetchFails, Statuses, Responds,
    RefreshDeclined, RefreshPermit, RefreshPrepareFails, RefreshDiscard, RefreshActivate, Dead,
    Cancelled, NoResult, Stop, Fetched, AttemptObserved, Verdict, Assess, DiscardOK,
    DiscardLost, DiscardClosesBadly, Deferred, Published
<1>3. CASE Resolving
  BY <1>3 DEF Resolving, ResolveStatusFailure, ResolveForwarded, ResolveCancelled, ResolveMatch,
    LegacySourceFailed, LegacyDecide, BackoffCancelled, BackoffRejected, BackoffPermit,
    RetryDiscard, RetryActivate, SwitchOrStop, NoResult, Verdict, Assess, Forwarding,
    AttemptObserved, CommitLost, Stop, SemanticVerdict, DiscardOK, DiscardLost, CanRetry, Dead,
    CancelPending, DiscardClosesBadly, Cancelled, StartLegacyRetry, Deferred, Published,
    Committed, Remains, StartAttempt
<1>4. CASE Switching
  BY <1>4 DEF Switching, ReserveAlternate, NoAlternate, AlternateRetired, AlternateExcluded, AlternateFaults,
    AlternateDiscard, AlternateActivate, AlternateFailed, Remains, AttemptObserved, GiveBack,
    Cancelled, DiscardOK, DiscardLost, AttemptReturned, DiscardClosesBadly, StartAttempt,
    Release, Stop, Forwarding, CommitLost, CancelPending, Committed
<1>5. CASE Semantic
  BY <1>5 DEF Semantic, SemanticDecide, RuleBackoffCancelled, RuleRejected, RulePermit, RuleDiscard,
    RuleActivate, CommitSemantic, DecideRetry, Dead, CancelPending, AttemptObserved, DiscardOK,
    DiscardLost, DiscardClosesBadly, Stop, Cancelled, StartRuleRetry, Forwarding, Committed,
    CommitLost, Remains, RuleRetriesRemain, StartAttempt
<1>6. CASE Ending
  BY <1>6 DEF Ending, SettleFaults, Settle, RelayTail, FinalizeProxy, Deferred, Published, Release
<1>7. CASE Environment
  BY <1>7 DEF Environment, ClientLeaves, SourceFails, ResponseCancelled, CleanupStaleRequests, Dead, Release
<1>8. CASE UNCHANGED vars
  BY <1>8
<1> QED BY <1>1, <1>2, <1>3, <1>4, <1>5, <1>6, <1>7, <1>8 DEF Next, ExecuteProxy

\* Every step keeps the types of the rest.
LEMMA PlacesStep ==
    ASSUME PlacesOK, SlotInv, [Next]_vars
    PROVE  PlacesOK'
<1> USE ExecutionAssumption
    DEF PlacesOK, SlotInv, Labels, Statuses, Owns, Reserved, Running, Dead, attempt, budget, client,
      flow, ownership, route, seen, vars
<1>1. CASE Selecting
  BY <1>1 DEF Selecting, SelectInitial, SelectNone, SelectFails, TargetExcluded, TargetFails, StartFirst,
    Release, NoResult, Remains, StartAttempt
<1>2. CASE Attempting
  BY <1>2 DEF Attempting, LoopEnds, BeginAttempt, PrepareRequest, FetchFaults, FetchFails, Responds,
    RefreshDeclined, RefreshPermit, RefreshPrepareFails, RefreshDiscard, RefreshActivate,
    Cancelled, NoResult, Stop, Fetched, AttemptObserved, Verdict, Assess, DiscardOK,
    DiscardLost, DiscardClosesBadly, Deferred, Published
<1>3. CASE Resolving
  <2>1. CASE ResolveStatusFailure
    BY <2>1 DEF ResolveStatusFailure, NoResult, Verdict, Assess, Deferred, Published
  <2>2. CASE ResolveForwarded
    BY <2>2 DEF ResolveForwarded, Forwarding, NoResult, Verdict, AttemptObserved, Assess, Committed, Stop,
      Deferred, Published
  <2>3. CASE ResolveCancelled
    BY <2>3 DEF ResolveCancelled, CommitLost, Stop, NoResult
  <2>4. ASSUME NEW r \in RuleActions, ResolveMatch(r) PROVE PlacesOK'
    BY <2>4 DEF ResolveMatch, NoResult, Verdict, SemanticVerdict, Assess, Deferred, Published
  <2>5. CASE LegacySourceFailed
    BY <2>5 DEF LegacySourceFailed, DiscardOK, DiscardLost, Stop, NoResult
  <2>6. CASE LegacyDecide
    BY <2>6 DEF LegacyDecide, CanRetry, Remains
  <2>7. CASE BackoffCancelled
    BY <2>7 DEF BackoffCancelled, CancelPending, AttemptObserved, DiscardOK, Stop, Cancelled, DiscardLost
  <2>8. CASE BackoffRejected
    BY <2>8 DEF BackoffRejected, AttemptObserved
  <2>9. CASE BackoffPermit
    BY <2>9 DEF BackoffPermit, AttemptObserved
  <2>10. CASE RetryDiscard
    BY <2>10 DEF RetryDiscard, DiscardOK, DiscardLost, DiscardClosesBadly, Stop, Cancelled, AttemptObserved
  <2>11. CASE RetryActivate
    BY <2>11 DEF RetryActivate, StartLegacyRetry, Stop, Cancelled, StartAttempt, AttemptObserved
  <2>12. CASE SwitchOrStop
    BY <2>12 DEF SwitchOrStop, Stop
  <2> QED BY <1>3, <2>1, <2>2, <2>3, <2>4, <2>5, <2>6, <2>7, <2>8, <2>9, <2>10, <2>11, <2>12 DEF Resolving
<1>4. CASE Switching
  BY <1>4 DEF Switching, ReserveAlternate, NoAlternate, AlternateRetired, AlternateExcluded, AlternateFaults,
    AlternateDiscard, AlternateActivate, AlternateFailed, Remains, AttemptObserved, GiveBack,
    Cancelled, DiscardOK, DiscardLost, AttemptReturned, DiscardClosesBadly, StartAttempt,
    Release, Stop, Forwarding, CommitLost, CancelPending, Committed
<1>5. CASE Semantic
  BY <1>5 DEF Semantic, SemanticDecide, RuleBackoffCancelled, RuleRejected, RulePermit, RuleDiscard,
    RuleActivate, CommitSemantic, DecideRetry, CancelPending, AttemptObserved, DiscardOK,
    DiscardLost, DiscardClosesBadly, Stop, Cancelled, StartRuleRetry, Forwarding, Committed,
    CommitLost, Remains, RuleRetriesRemain, StartAttempt
<1>6. CASE Ending
  BY <1>6 DEF Ending, SettleFaults, Settle, RelayTail, FinalizeProxy, Deferred, Published, Release
<1>7. CASE Environment
  BY <1>7 DEF Environment, ClientLeaves, SourceFails, ResponseCancelled, CleanupStaleRequests, Release
<1>8. CASE UNCHANGED vars
  BY <1>8
<1> QED BY <1>1, <1>2, <1>3, <1>4, <1>5, <1>6, <1>7, <1>8 DEF Next, ExecuteProxy

-----------------------------------------------------------------------------
(* The theorems.                                                             *)

\* The invariant is inductive.
LEMMA NextAccounted == RequestInv /\ [Next]_vars => RequestInv'
<1> SUFFICES ASSUME RequestInv, [Next]_vars PROVE RequestInv'
  OBVIOUS
<1>1. /\ TypeOK /\ SlotInv /\ ResponseInv /\ AnswerInv /\ MarkInv /\ BudgetInv
      /\ ResultOK /\ LedgersOK /\ FlagsOK /\ PlacesOK
  BY TypeParts DEF RequestInv
<1>2. ResultOK' /\ LedgersOK' /\ FlagsOK' /\ PlacesOK'
  BY <1>1, ResultStep, LedgerStep, FlagsStep, PlacesStep
<1>3. TypeOK'
  BY <1>2 DEF TypeOK, ResultOK, LedgersOK, FlagsOK, PlacesOK
<1>4. SlotInv' /\ BudgetInv'
  BY <1>1, SlotStep, BudgetStep
<1>5. ResponseInv' /\ AnswerInv' /\ MarkInv'
  BY <1>1, ResponseStep, AnswerStep, MarkStep
<1> QED BY <1>3, <1>4, <1>5 DEF RequestInv

\* For any providers, limits, retries and rules, every variable of executeProxy keeps
\* its type; no slot count goes below zero (Release, CleanupStale, Unregister).
THEOREM RequestIsTyped == Spec => []TypeOK
<1>1. Init => RequestInv BY InitAccounted
<1>2. RequestInv /\ [Next]_vars => RequestInv' BY NextAccounted
<1>3. RequestInv => TypeOK BY DEF RequestInv
<1> QED BY <1>1, <1>2, <1>3, PTL DEF Spec

\* For any providers, limits, retries and rules: a request owns every slot it occupies
\* and gives all of them back, stays within its global, provider and rule budgets,
\* leaves no response open, and answers its client exactly once unless the Codex gate
\* can answer on its own (executeProxy, RetryLedger, activateAlternate, finalizeProxy).
THEOREM RequestIsAccounted == Spec => []RequestAccounted
<1>1. Init => RequestInv BY InitAccounted
<1>2. RequestInv /\ [Next]_vars => RequestInv' BY NextAccounted
<1>3. RequestInv => RequestAccounted BY InvAccounted
<1> QED BY <1>1, <1>2, <1>3, PTL DEF Spec

\* Only a fetch sends anything.
LEMMA SentOnlyAtFetch ==
    ASSUME [Next]_vars, sent' # sent
    PROVE  pc = "fetch"
<1> USE DEF seen, vars
<1>1. CASE Selecting BY <1>1 DEF Selecting, SelectInitial, SelectNone, SelectFails, TargetExcluded, TargetFails, StartFirst
<1>2. CASE Attempting
  BY <1>2 DEF Attempting, LoopEnds, BeginAttempt, PrepareRequest, FetchFaults, FetchFails, Responds,
     RefreshDeclined, RefreshPermit, RefreshPrepareFails, RefreshDiscard, RefreshActivate
<1>3. CASE Resolving
  BY <1>3 DEF Resolving, ResolveStatusFailure, ResolveForwarded, ResolveCancelled, ResolveMatch,
     LegacySourceFailed, LegacyDecide, BackoffCancelled, BackoffRejected, BackoffPermit,
     RetryDiscard, RetryActivate, SwitchOrStop
<1>4. CASE Switching
  BY <1>4 DEF Switching, ReserveAlternate, NoAlternate, AlternateRetired, AlternateExcluded, AlternateFaults,
     AlternateDiscard, AlternateActivate, AlternateFailed
<1>5. CASE Semantic
  BY <1>5 DEF Semantic, SemanticDecide, RuleBackoffCancelled, RuleRejected, RulePermit, RuleDiscard, RuleActivate,
     CommitSemantic
<1>6. CASE Ending
  BY <1>6 DEF Ending, SettleFaults, Settle, RelayTail, FinalizeProxy
<1>7. CASE Environment
  BY <1>7 DEF Environment, ClientLeaves, SourceFails, ResponseCancelled, CleanupStaleRequests
<1>8. CASE UNCHANGED vars BY <1>8
<1> QED BY <1>1, <1>2, <1>3, <1>4, <1>5, <1>6, <1>7, <1>8 DEF Next, ExecuteProxy

\* For any providers, limits, retries and rules: nothing is fetched after an answer or
\* beside an open response or reservation, an attempt publishes one health verdict, and
\* no switch follows a headerless EOF of a provider whose health is published at once
\* (executeLogicalAttempt, assessAndApplyHealth, resolveLegacyFailure).
THEOREM AttemptsAreOrdered == Spec => AttemptsInOrder
<1>1. Init => RequestInv BY InitAccounted
<1>2. RequestInv /\ [Next]_vars => RequestInv' BY NextAccounted
<1>3. RequestInv /\ RequestInv' /\ [Next]_vars =>
        [/\ sent' # sent => answers = 0 /\ pending = "none" /\ reservation = NoOne
         /\ HealthMarkedOnce'
         /\ result.kind = "noResponse" /\ ~Deferred => ~AlternateActivate]_vars
  <2> SUFFICES ASSUME RequestInv, RequestInv', [Next]_vars
               PROVE  /\ sent' # sent => answers = 0 /\ pending = "none" /\ reservation = NoOne
                      /\ HealthMarkedOnce'
                      /\ result.kind = "noResponse" /\ ~Deferred => ~AlternateActivate
    OBVIOUS
  <2>1. ASSUME sent' # sent PROVE answers = 0 /\ pending = "none" /\ reservation = NoOne
    <3>1. pc = "fetch" BY <2>1, SentOnlyAtFetch
    <3> QED BY <3>1 DEF RequestInv, SlotInv, ResponseInv, AnswerInv, InAttempt, Fresh, Reserved
  <2>2. HealthMarkedOnce'
    BY DEF RequestInv, MarkInv, HealthMarkedOnce
  <2>3. ASSUME result.kind = "noResponse", ~Deferred, AlternateActivate PROVE FALSE
    <3>1. pc = "alternateActivate" BY <2>3 DEF AlternateActivate
    <3> QED BY <2>3, <3>1 DEF RequestInv, MarkInv, Alternates, Reserved
  <2> QED BY <2>1, <2>2, <2>3
<1> QED BY <1>1, <1>2, <1>3, PTL DEF Spec, AttemptsInOrder
=============================================================================

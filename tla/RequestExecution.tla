-------------------------- MODULE RequestExecution --------------------------
(***************************************************************************)
(* One HTTP request through the proxy's retry loop (executeProxy): select  *)
(* a provider, fetch, refresh a 401, retry the same provider, switch to an *)
(* alternate, and answer the client.                                       *)
(*                                                                         *)
(* The loop runs on one goroutine.  Around it the client may leave, its    *)
(* upload may fail, the registry's janitor may reclaim an ended request's  *)
(* lease, the response coordinator may settle a held response by itself,   *)
(* and every answer of the selector, the health manager, the credential    *)
(* service and the upstream may go either way.                             *)
(***************************************************************************)
EXTENDS Integers, FiniteSets

CONSTANTS
    Providers,      \* provider ids
    MaxRetries,     \* Provider.MaxRetries, by provider
    GlobalLimits,   \* values of cfg.globalMaxAttempts; 0 is unlimited
    RuleRetries,    \* max_retries of the matching internal-error rules
    RuleActions,    \* actions of the rules that may match; a rule is its action
    Codex,          \* Codex request: its responses pass the visibility gate
    Disguised,      \* providers whose frozen disguise policy is enabled
    NoOne

ASSUME ExecutionAssumption ==
    /\ MaxRetries \in [Providers -> Nat]
    /\ GlobalLimits \subseteq Nat /\ RuleRetries \in Nat
    /\ RuleActions \subseteq {"passthrough", "retry_only", "retry_then_switch"}
    /\ Codex \in BOOLEAN /\ Disguised \subseteq Providers
    /\ Disguised # {} => Codex
    /\ NoOne \notin Providers

VARIABLES
    globalMax,        \* cfg.globalMaxAttempts of this request
    pc,               \* where executeProxy is
    ledger,           \* state.ledger
    before,           \* ledgerBefore and attempt.providerAttemptIndex of this attempt
    provider,         \* state.currentProvider
    providerAttempt,  \* state.providerAttempt
    excluded,         \* state.excludedProviders
    skipped,          \* candidates activateAlternate excluded by disguise
    target,           \* provider of pctx.disguise.target
    attemptOf,        \* attempt.provider
    refreshed,        \* the fetch is the 401 sub-exchange
    status,           \* class of the pending response's status
    rule,             \* winning rule of a semantic match
    pending,          \* the attempt's response: "none", "held", "settled"
    result,           \* forwardResult
    again,            \* continueExecution
    caller,           \* who asked for an alternate
    slots,            \* concurrency slots this request occupies, by provider
    entry,            \* provider of the registry entry, which owns the lease
    permit,           \* a same-provider dispatch permit is outstanding
    reservation,      \* alternate reservation
    cause,            \* context.Cause: "none", "client" or "source"
    sourceFailed,     \* pctx.ingressFailure() /= nil
    answers,          \* responses written to the client
    sent,             \* logical attempts whose request was fetched
    marks             \* health verdicts published for this attempt

flow      == <<pc, result, again>>
budget    == <<globalMax, ledger, before, providerAttempt>>
route     == <<provider, excluded, skipped, target>>
attempt   == <<attemptOf, refreshed, status, rule, caller>>
ownership == <<slots, entry, permit, reservation>>
client    == <<cause, sourceFailed>>
seen      == <<answers, sent, marks>>
vars == <<flow, budget, route, attempt, pending, ownership, client, seen>>

-----------------------------------------------------------------------------
NoResult == [kind |-> "none", success |-> FALSE, discarded |-> FALSE,
             headers |-> FALSE, verdict |-> "none"]

EmptyLedger ==
    [logical |-> 0, provider |-> [p \in Providers |-> 0],
     legacy |-> [p \in Providers |-> 0],
     rule |-> [k \in Providers \X RuleActions |-> 0]]

Init ==
    /\ globalMax \in GlobalLimits
    /\ pc = "select" /\ result = NoResult /\ again = FALSE
    /\ ledger = EmptyLedger /\ before = [ledger |-> EmptyLedger, attempt |-> 0]
    /\ providerAttempt = 0
    /\ provider = NoOne /\ excluded = {} /\ skipped = {} /\ target = NoOne
    /\ attemptOf = NoOne /\ refreshed = FALSE /\ status = "none" /\ rule = "none"
    /\ caller = "none" /\ pending = "none"
    /\ slots = [p \in Providers |-> 0] /\ entry = NoOne
    /\ permit = FALSE /\ reservation = NoOne
    /\ cause = "none" /\ sourceFailed = FALSE
    /\ answers = 0 /\ sent = 0 /\ marks = 0

AttemptObserved == cause = "client"            \* classifyClientTermination(ctx).observed()
Dead == cause # "none"                  \* ctx.Err() /= nil
Cancelled(r) == [r EXCEPT !.kind = IF AttemptObserved THEN "client" ELSE "internal"]

\* GlobalRemaining > 0 or unlimited.
Remains == globalMax = 0 \/ ledger.logical < globalMax

\* RetryLedger.start: copy, charge the attempt, and the retry when it is one.
StartAttempt(p) == [ledger EXCEPT !.logical = @ + 1, !.provider[p] = @ + 1]
StartLegacyRetry(p) == [StartAttempt(p) EXCEPT !.legacy[p] = @ + 1]
StartRuleRetry(p, r) == [StartAttempt(p) EXCEPT !.rule[<<p, r>>] = @ + 1]

\* Health is published at once, or after conversion settles when the attempt's
\* target is disguised; a failed upload says nothing of the provider.
Deferred == target \in Disguised
Verdict(v) == IF sourceFailed THEN "neutral" ELSE v
Published(v) == IF v \in {"success", "failure"} THEN 1 ELSE 0

\* Mutant: health is published before the conversion settles as well.
MutAssess(v) == marks' = marks + Published(Verdict(v))

Assess(v) == marks' = marks + (IF Deferred THEN 0 ELSE Published(Verdict(v)))

\* End of executeLogicalAttempt without another attempt.
Stop(r) == pc' = "settle" /\ again' = FALSE /\ result' = r
Release(p) == [slots EXCEPT ![p] = @ - 1]

-----------------------------------------------------------------------------
(* startInitialSelection.                                                  *)

SelectInitial(p) ==
    /\ pc = "select" /\ p \notin excluded
    /\ provider' = p /\ slots' = [slots EXCEPT ![p] = @ + 1]
    /\ pc' = "start"
    /\ UNCHANGED <<result, again, budget, excluded, skipped, target, attempt,
                   pending, entry, permit, reservation, client, seen>>

\* ErrNoProvider: handleNoProvider answers by itself.
SelectNone ==
    /\ pc = "select"
    /\ answers' = answers + 1 /\ pc' = "done"
    /\ UNCHANGED <<result, again, budget, route, attempt, pending, ownership,
                   client, sent, marks>>

\* Any other selection error goes through finalizeProxy.
SelectFails ==
    /\ pc = "select"
    /\ pc' = "finalize"
    /\ UNCHANGED <<result, again, budget, route, attempt, pending, ownership,
                   client, seen>>

\* The disguise operation refuses the candidate: give the slot back and look on.
TargetExcluded ==
    /\ pc = "start" /\ Codex
    /\ slots' = Release(provider)
    /\ excluded' = excluded \cup {provider}
    /\ pc' = "select"
    /\ UNCHANGED <<result, again, budget, provider, skipped, target, attempt,
                   pending, entry, permit, reservation, client, seen>>

TargetFails ==
    /\ pc = "start" /\ Codex
    /\ slots' = Release(provider)
    /\ result' = [NoResult EXCEPT !.kind = "disguise"]
    /\ pc' = "finalize"
    /\ UNCHANGED <<again, budget, route, attempt, pending, entry, permit,
                   reservation, client, seen>>

StartFirst ==
    /\ pc = "start" /\ Remains
    /\ ledger' = StartAttempt(provider)
    /\ entry' = provider
    /\ pc' = "loop"
    /\ UNCHANGED <<result, again, globalMax, before, providerAttempt, route, attempt,
                   pending, slots, permit, reservation, client, seen>>

-----------------------------------------------------------------------------
(* The top of the loop and the fetch of a logical attempt.                 *)

LoopEnds ==
    /\ pc = "loop" /\ Dead
    /\ result' = [Cancelled(result) EXCEPT !.success = FALSE]
    /\ pc' = "finalize"
    /\ UNCHANGED <<again, budget, route, attempt, pending, ownership, client,
                   seen>>

BeginAttempt ==
    /\ pc = "loop" /\ ~Dead
    /\ before' = [ledger |-> ledger, attempt |-> providerAttempt]
    /\ attemptOf' = provider /\ refreshed' = FALSE /\ marks' = 0
    /\ status' = "none" /\ rule' = "none" /\ caller' = "none"
    /\ skipped' = {} /\ result' = NoResult
    /\ pc' = "prepare"
    /\ UNCHANGED <<again, globalMax, ledger, providerAttempt, provider, excluded, target,
                   pending, ownership, client, answers, sent>>

\* prepareForwardRequest sets the disguise target on its way.
PrepareRequest ==
    /\ pc = "prepare"
    /\ \/ /\ target' = provider
          /\ pc' = "fetch" /\ UNCHANGED <<result, again>>
       \/ /\ target' \in {target, provider}
          /\ result' = [NoResult EXCEPT !.kind = "preparation"]
          /\ pc' = "legacy" /\ UNCHANGED again
       \/ /\ Codex /\ target' = provider
          /\ Stop([NoResult EXCEPT !.kind = "disguise"])
    /\ UNCHANGED <<budget, provider, excluded, skipped, attempt, pending,
                   ownership, client, seen>>

Fetched == sent' = sent + (IF refreshed THEN 0 ELSE 1)

FetchFails(kind) ==
    /\ pc = "fetch" /\ Fetched
    /\ IF AttemptObserved
       THEN Stop([NoResult EXCEPT !.kind = "client", !.verdict = Verdict("neutral")])
            /\ Assess("neutral")
       ELSE /\ result' = [NoResult EXCEPT !.kind = kind, !.verdict = Verdict("failure")]
            /\ Assess("failure")
            /\ pc' = "legacy" /\ UNCHANGED again
    /\ UNCHANGED <<budget, route, attempt, pending, ownership, client, answers>>

FetchFaults ==
    /\ pc = "fetch" /\ Codex /\ Fetched
    /\ Stop([NoResult EXCEPT !.kind = "disguise"])
    /\ UNCHANGED <<budget, route, attempt, pending, ownership, client, answers,
                   marks>>

\* "forced" is a 402 or 403 or a usage limit, "retryable" a 429 or 5xx, "final"
\* a status handed to the client as it is.
Statuses == {"ok", "final", "unauthorized", "forced", "retryable"}

Responds(s) ==
    /\ pc = "fetch" /\ Fetched
    /\ status' = s /\ pending' = "held"
    /\ pc' = IF s = "unauthorized" /\ ~refreshed THEN "refresh" ELSE "resolve"
    /\ UNCHANGED <<result, again, budget, route, attemptOf, refreshed, rule,
                   caller, ownership, client, answers, marks>>

-----------------------------------------------------------------------------
(* Settling the pending response.  The coordinator may have settled it by  *)
(* itself, after a cancellation: commands then fail with AlreadyResolved.  *)
(* A discard of a live response may also report the body's close error.    *)

DiscardOK == pending \in {"none", "held"} /\ pending' = "none"
DiscardLost == pending = "settled" /\ pending' = "settled"
DiscardClosesBadly == pending = "held" /\ pending' = "none"

\* commit reports an error only before the coordinator forwards (settled) or
\* when writing the held prefix of a semantic match fails at the client gate.
CommitLost == pending = "settled" /\ pending' = "settled"
Committed == pending = "held" /\ pending' = "none"

\* cancelPendingResponse.
CancelPending(r) ==
    \/ /\ DiscardOK
       /\ Stop([Cancelled(r) EXCEPT !.discarded = pending = "held"])
    \/ DiscardLost /\ Stop(Cancelled(r))

\* The coordinator writes the head and forwards to the end, or as far as the
\* client, the upstream or the gate allow.  The gate's own answer counts as the
\* response's.  A Codex stream keeps its head back until the first whole event,
\* so one that fails before it reaches nobody.
Forwarding(r) ==
    /\ Committed
    /\ \/ answers' = answers + 1 /\ Stop([r EXCEPT !.headers = TRUE])
       \/ Codex /\ ~r.success /\ Stop(r) /\ UNCHANGED answers

-----------------------------------------------------------------------------
(* refreshUnauthorizedSubexchange.                                         *)

RefreshDeclined ==
    /\ pc = "refresh"
    /\ pc' = "resolve"
    /\ UNCHANGED <<result, again, budget, route, attempt, pending, ownership,
                   client, seen>>

RefreshPermit ==
    /\ pc = "refresh" /\ entry = provider
    /\ permit' = TRUE /\ pc' = "refreshPrepare"
    /\ UNCHANGED <<result, again, budget, route, attempt, pending, slots, entry,
                   reservation, client, seen>>

RefreshPrepareFails ==
    /\ pc = "refreshPrepare"
    /\ permit' = FALSE
    /\ \/ pc' = "resolve" /\ UNCHANGED <<result, again, pending>>
       \/ /\ Codex
          /\ \/ DiscardOK \/ DiscardLost
          /\ Stop([NoResult EXCEPT !.kind = "disguise"])
    /\ UNCHANGED <<budget, route, attempt, slots, entry, reservation, client,
                   seen>>

RefreshDiscard ==
    /\ pc = "refreshPrepare"
    /\ \/ /\ DiscardOK
          /\ pc' = "refreshActivate" /\ UNCHANGED <<result, again, permit>>
       \/ /\ DiscardLost \/ DiscardClosesBadly
          /\ permit' = FALSE
          /\ Stop(Cancelled(NoResult))
    /\ UNCHANGED <<budget, route, attempt, slots, entry, reservation, client,
                   seen>>

RefreshActivate ==
    /\ pc = "refreshActivate"
    /\ permit' = FALSE
    /\ \/ /\ entry = provider
          /\ refreshed' = TRUE /\ pc' = "fetch" /\ UNCHANGED <<result, again>>
       \/ /\ Stop([Cancelled(NoResult) EXCEPT !.discarded = TRUE])
          /\ UNCHANGED refreshed
    /\ UNCHANGED <<budget, route, attemptOf, status, rule, caller, pending,
                   slots, entry, reservation, client, seen>>

-----------------------------------------------------------------------------
(* resolvePendingResponse.                                                 *)

ResolveStatusFailure ==
    /\ pc = "resolve" /\ status \in {"unauthorized", "forced", "retryable"}
    /\ result' = [NoResult EXCEPT !.kind = "status", !.verdict = Verdict("failure")]
    /\ Assess("failure")
    /\ pc' = "legacy"
    /\ UNCHANGED <<again, budget, route, attempt, pending, ownership, client,
                   answers, sent>>

\* A final status, or a 2xx the probe let through: finalizeCommittedAttempt.
ResolveForwarded ==
    /\ pc = "resolve" /\ status \in {"ok", "final"}
    /\ \E outcome \in {"success", "failure", "neutral"} :
          /\ Forwarding([NoResult EXCEPT !.verdict = Verdict(outcome),
                            !.kind = CASE outcome = "success" -> "none"
                                       [] outcome = "failure" -> "read"
                                       [] OTHER -> IF AttemptObserved THEN "client" ELSE "write",
                            !.success = outcome = "success" /\ status = "ok"])
          /\ Assess(outcome)
    /\ UNCHANGED <<budget, route, attempt, ownership, client, sent>>

\* The probe was cancelled before it granted forwarding, or the commit came late.
ResolveCancelled ==
    /\ pc = "resolve" /\ status \in {"ok", "final"}
    /\ CommitLost
    /\ Stop([NoResult EXCEPT !.kind = IF status = "ok" THEN "client" ELSE "internal"])
    /\ UNCHANGED <<budget, route, attempt, ownership, client, seen>>

SemanticVerdict(r) == IF r = "retry_then_switch" THEN "failure" ELSE "neutral"

ResolveMatch(r) ==
    /\ pc = "resolve" /\ status = "ok" /\ pending = "held"
    /\ rule' = r
    /\ result' = [NoResult EXCEPT !.kind = "semantic",
                                  !.verdict = Verdict(SemanticVerdict(r))]
    /\ Assess(SemanticVerdict(r))
    /\ pc' = "semantic"
    /\ UNCHANGED <<again, budget, route, attemptOf, refreshed, status, caller,
                   pending, ownership, client, answers, sent>>

-----------------------------------------------------------------------------
(* resolveLegacyFailure: retry the same provider, else switch, else answer. *)

LegacySourceFailed ==
    /\ pc = "legacy" /\ sourceFailed
    /\ DiscardOK \/ DiscardLost
    /\ Stop([NoResult EXCEPT !.kind = "internal"])
    /\ UNCHANGED <<budget, route, attempt, ownership, client, seen>>

\* canAttemptLegacyRetry; the health manager's answer is the environment's.
CanRetry == /\ providerAttempt < MaxRetries[provider]
            /\ status \notin {"unauthorized", "forced"}
            /\ Remains

LegacyDecide ==
    /\ pc = "legacy" /\ ~sourceFailed
    /\ \/ CanRetry /\ pc' = "backoff"
       \/ pc' = "switch"
    /\ UNCHANGED <<result, again, budget, route, attempt, pending, ownership,
                   client, seen>>

\* attemptLegacyRetry: the wait, the health recheck and the permit.  A permit
\* won just as the client left is never released; its lease ends with the request.
BackoffCancelled ==
    /\ pc = "backoff" /\ Dead
    /\ CancelPending(result)
    /\ permit' \in {FALSE, AttemptObserved /\ entry = provider}
    /\ UNCHANGED <<budget, route, attempt, slots, entry, reservation, client, seen>>

\* Mutant: a rejected retry is decided again.
MutBackoffRejected ==
    /\ pc = "backoff" /\ ~AttemptObserved
    /\ pc' = "legacy"
    /\ UNCHANGED <<result, again, budget, route, attempt, pending, ownership,
                   client, seen>>

BackoffRejected ==
    /\ pc = "backoff" /\ ~AttemptObserved
    /\ pc' = "switch"
    /\ UNCHANGED <<result, again, budget, route, attempt, pending, ownership,
                   client, seen>>

BackoffPermit ==
    /\ pc = "backoff" /\ ~AttemptObserved /\ entry = provider
    /\ permit' = TRUE /\ pc' = "retryDiscard"
    /\ UNCHANGED <<result, again, budget, route, attempt, pending, slots, entry,
                   reservation, client, seen>>

\* activateLegacyRetry: discard the old response before the permit is activated;
\* the ledger is charged only once it is.
RetryDiscard ==
    /\ pc = "retryDiscard"
    /\ \/ /\ DiscardOK
          /\ result' = [result EXCEPT !.discarded = pending = "held"]
          /\ pc' = "retryActivate" /\ UNCHANGED <<again, permit>>
       \/ /\ DiscardLost \/ DiscardClosesBadly
          /\ permit' = FALSE /\ Stop(Cancelled(result))
    /\ UNCHANGED <<budget, route, attempt, slots, entry, reservation, client,
                   seen>>

RetryActivate ==
    /\ pc = "retryActivate"
    /\ permit' = FALSE
    /\ \/ /\ entry = provider
          /\ ledger' = StartLegacyRetry(provider)
          /\ providerAttempt' = providerAttempt + 1
          /\ again' = TRUE /\ pc' = "settle" /\ UNCHANGED result
       \/ Stop(Cancelled(result)) /\ UNCHANGED <<ledger, providerAttempt>>
    /\ UNCHANGED <<globalMax, before, route, attempt, pending, slots, entry, reservation,
                   client, seen>>

\* A headerless EOF stays with its provider; everything else may switch.
SwitchOrStop ==
    /\ pc = "switch"
    /\ IF result.kind = "noResponse"
       THEN Stop(result) /\ UNCHANGED caller
       ELSE caller' = "legacy" /\ pc' = "alternate" /\ UNCHANGED <<result, again>>
    /\ UNCHANGED <<budget, route, attemptOf, refreshed, status, rule, pending,
                   ownership, client, seen>>

-----------------------------------------------------------------------------
(* activateAlternate.                                                      *)

ReserveAlternate(p) ==
    /\ pc = "alternate" /\ Remains
    /\ p \notin excluded \cup skipped \cup {provider}
    /\ reservation' = p /\ slots' = [slots EXCEPT ![p] = @ + 1]
    /\ pc' = "alternateTarget"
    /\ UNCHANGED <<result, again, budget, route, attempt, pending, entry,
                   permit, client, seen>>

NoAlternate ==
    /\ pc = "alternate"
    /\ result' = IF Remains /\ AttemptObserved THEN [result EXCEPT !.kind = "client"] ELSE result
    /\ pc' = "alternateFailed"
    /\ UNCHANGED <<again, budget, route, attempt, pending, ownership, client,
                   seen>>

\* Mutant: the deferred release of the reservation is missing.
MutGiveBack == reservation' = NoOne /\ UNCHANGED slots

GiveBack == reservation' = NoOne /\ slots' = Release(reservation)

\* PrepareActivation fails: the provider was retired or became unavailable.
AlternateRetired ==
    /\ pc = "alternateTarget"
    /\ GiveBack
    /\ result' = Cancelled(result) /\ pc' = "alternateFailed"
    /\ UNCHANGED <<again, budget, route, attempt, pending, entry, permit, client,
                   seen>>

AlternateExcluded ==
    /\ pc = "alternateTarget" /\ Codex
    /\ GiveBack
    /\ skipped' = skipped \cup {reservation}
    /\ pc' = "alternate"
    /\ UNCHANGED <<result, again, budget, provider, excluded, target, attempt,
                   pending, entry, permit, client, seen>>

\* The pc after activateAlternate has decided whether execution continues.
AttemptReturned == IF caller = "circuit" THEN "tail" ELSE "settle"

AlternateFaults ==
    /\ pc = "alternateTarget" /\ Codex
    /\ GiveBack
    /\ \/ DiscardOK \/ DiscardLost
    /\ result' = [result EXCEPT !.kind = "disguise", !.success = FALSE]
    /\ again' = FALSE /\ pc' = AttemptReturned
    /\ UNCHANGED <<budget, route, attempt, entry, permit, client, seen>>

\* activatePreparedAlternate: discard the old response, then activate.
AlternateDiscard ==
    /\ pc = "alternateTarget"
    /\ \/ /\ DiscardOK
          /\ result' = [result EXCEPT !.discarded = @ \/ pending = "held"]
          /\ pc' = "alternateActivate" /\ UNCHANGED <<reservation, slots>>
       \/ /\ DiscardLost /\ GiveBack
          /\ result' = Cancelled(result) /\ pc' = "alternateFailed"
       \/ /\ DiscardClosesBadly /\ GiveBack
          /\ result' = [Cancelled(result) EXCEPT !.discarded = TRUE]
          /\ pc' = "alternateFailed"
    /\ UNCHANGED <<again, budget, route, attempt, entry, permit, client, seen>>

\* Registering the request again hands the old provider's slot back, unless the
\* janitor already did.
AlternateActivate ==
    /\ pc = "alternateActivate"
    /\ ledger' = StartAttempt(reservation)
    /\ excluded' = excluded \cup {provider}
    /\ provider' = reservation /\ providerAttempt' = 0
    /\ entry' = reservation /\ reservation' = NoOne
    /\ slots' = IF entry = NoOne THEN slots ELSE Release(entry)
    /\ again' = TRUE /\ pc' = AttemptReturned
    /\ UNCHANGED <<result, globalMax, before, skipped, target, attempt, pending, permit,
                   client, seen>>

\* Without an alternate the held response is what the client gets.
AlternateFailed ==
    /\ pc = "alternateFailed"
    /\ \/ /\ caller = "legacy"
          /\ \/ /\ pending = "none" \/ result.kind = "client" \/ result.discarded
                /\ Stop(result) /\ UNCHANGED <<pending, answers>>
             \/ /\ pending # "none" /\ result.kind # "client" /\ ~result.discarded
                /\ \/ Forwarding([result EXCEPT !.success = FALSE])
                   \/ CommitLost /\ Stop(Cancelled(result)) /\ UNCHANGED answers
       \/ /\ caller = "semantic"
          /\ \/ /\ result.discarded
                /\ Stop(result) /\ UNCHANGED <<pending, answers>>
             \/ /\ ~result.discarded /\ result.kind = "client"
                /\ CancelPending(result) /\ UNCHANGED answers
             \/ /\ ~result.discarded /\ result.kind # "client"
                /\ pc' = "commitSemantic" /\ UNCHANGED <<result, again, pending, answers>>
       \/ /\ caller = "circuit"
          /\ pc' = "tail" /\ again' = FALSE
          /\ UNCHANGED <<result, pending, answers>>
    /\ UNCHANGED <<budget, route, attempt, ownership, client, sent, marks>>

-----------------------------------------------------------------------------
(* resolveSemanticMatch: an internal-error rule matched a held 2xx.        *)

RuleRetriesRemain == ledger.rule[<<provider, rule>>] < RuleRetries

\* errorrule.DecideRetry for an eligible provider.  The last attempt of a limited
\* budget is kept for a switch; an unlimited one (0) has no last attempt.
DecideRetry ==
    IF rule = "passthrough" \/ ~Remains THEN "commitSemantic"
    ELSE IF rule = "retry_only" THEN IF RuleRetriesRemain THEN "ruleBackoff" ELSE "commitSemantic"
    ELSE IF ledger.logical + 1 # globalMax /\ RuleRetriesRemain THEN "ruleBackoff" ELSE "alternate"

SemanticDecide ==
    /\ pc = "semantic"
    /\ pc' = DecideRetry /\ caller' = "semantic"
    /\ UNCHANGED <<result, again, budget, route, attemptOf, refreshed, status,
                   rule, pending, ownership, client, seen>>

RuleBackoffCancelled ==
    /\ pc = "ruleBackoff" /\ Dead
    /\ CancelPending(result)
    /\ UNCHANGED <<budget, route, attempt, ownership, client, seen>>

\* DecideRetry again, for an ineligible provider.
RuleRejected ==
    /\ pc = "ruleBackoff" /\ ~AttemptObserved
    /\ pc' = IF rule = "retry_then_switch" THEN "alternate" ELSE "commitSemantic"
    /\ UNCHANGED <<result, again, budget, route, attempt, pending, ownership,
                   client, seen>>

RulePermit ==
    /\ pc = "ruleBackoff" /\ entry = provider
    /\ permit' = TRUE /\ pc' = "ruleDiscard"
    /\ UNCHANGED <<result, again, budget, route, attempt, pending, slots, entry,
                   reservation, client, seen>>

RuleDiscard ==
    /\ pc = "ruleDiscard"
    /\ \/ /\ DiscardOK
          /\ result' = [result EXCEPT !.discarded = TRUE]
          /\ pc' = "ruleActivate" /\ UNCHANGED <<again, permit>>
       \/ /\ DiscardLost \/ DiscardClosesBadly
          /\ permit' = FALSE /\ Stop(Cancelled(result))
    /\ UNCHANGED <<budget, route, attempt, slots, entry, reservation, client,
                   seen>>

RuleActivate ==
    /\ pc = "ruleActivate"
    /\ permit' = FALSE
    /\ \/ /\ entry = provider
          /\ ledger' = StartRuleRetry(provider, rule)
          /\ providerAttempt' = providerAttempt + 1
          /\ again' = TRUE /\ pc' = "settle" /\ UNCHANGED result
       \/ Stop([result EXCEPT !.kind = "internal"]) /\ UNCHANGED <<ledger, providerAttempt>>
    /\ UNCHANGED <<globalMax, before, route, attempt, pending, slots, entry, reservation,
                   client, seen>>

\* commitSemanticResponse.  When the Codex gate refuses the held prefix it has
\* already answered the client, but commit reports a plain internal failure.
CommitSemantic ==
    /\ pc = "commitSemantic"
    /\ \/ Forwarding([result EXCEPT !.success = FALSE])
       \/ /\ Codex /\ Committed
          /\ answers' = answers + 1
          /\ Stop([result EXCEPT !.kind = "internal"])
       \/ CommitLost /\ Stop([result EXCEPT !.kind = "internal"]) /\ UNCHANGED answers
    /\ UNCHANGED <<budget, route, attempt, ownership, client, sent, marks>>

-----------------------------------------------------------------------------
(* The rest of executeProxy's loop body and finalizeProxy.                 *)

\* A conversion fault found after the attempt ends the request.
SettleFaults ==
    /\ pc = "settle" /\ target \in Disguised
    /\ result' = [result EXCEPT !.kind = "disguise", !.success = FALSE]
    /\ again' = FALSE /\ pc' = "tail"
    /\ UNCHANGED <<budget, route, attempt, pending, ownership, client, seen>>

\* Deferred health.  A circuit this opens takes back a same-provider retry that
\* was already activated, and looks for an alternate instead.
Settle ==
    /\ pc = "settle"
    /\ LET publish == Deferred /\ result.kind # "disguise" /\ ~sourceFailed IN
       /\ marks' = marks + (IF publish THEN Published(result.verdict) ELSE 0)
       /\ \/ pc' = "tail" /\ UNCHANGED <<ledger, providerAttempt, caller>>
          \/ /\ publish /\ result.verdict = "failure"
             /\ again /\ provider = attemptOf
             /\ ledger' = before.ledger /\ providerAttempt' = before.attempt
             /\ caller' = "circuit" /\ pc' = "alternate"
    /\ UNCHANGED <<result, again, globalMax, before, route, attemptOf, refreshed, status,
                   rule, pending, ownership, client, answers, sent>>

RelayTail ==
    /\ pc = "tail"
    /\ LET failed == sourceFailed /\ result.kind # "disguise"
           r == IF failed THEN [result EXCEPT !.kind = "ingress", !.success = FALSE]
                          ELSE result IN
       /\ result' = r
       /\ pc' = IF again /\ ~failed THEN "loop" ELSE "finalize"
    /\ UNCHANGED <<again, budget, route, attempt, pending, ownership, client,
                   seen>>

\* Unregister releases the lease the registry still owns; a failure nobody wrote
\* to the client becomes a gateway error.
FinalizeProxy ==
    /\ pc = "finalize"
    /\ entry' = NoOne
    /\ slots' = IF entry = NoOne THEN slots ELSE Release(entry)
    /\ answers' = answers + (IF (~result.success \/ sourceFailed) /\ ~result.headers
                             THEN 1 ELSE 0)
    /\ pc' = "done"
    /\ UNCHANGED <<result, again, budget, route, attempt, pending, permit,
                   reservation, client, sent, marks>>

-----------------------------------------------------------------------------
(* The environment.                                                        *)

ClientLeaves ==
    /\ cause = "none" /\ pc # "done"
    /\ cause' = "client"
    /\ UNCHANGED <<flow, budget, route, attempt, pending, ownership,
                   sourceFailed, seen>>

\* The upload fails: the operation's context is cancelled with that cause.
SourceFails ==
    /\ ~sourceFailed /\ pc # "done"
    /\ sourceFailed' = TRUE
    /\ cause' = IF cause = "none" THEN "source" ELSE cause
    /\ UNCHANGED <<flow, budget, route, attempt, pending, ownership, seen>>

\* The coordinator discards a held response once the context ended.
ResponseCancelled ==
    /\ pending = "held" /\ Dead
    /\ pending' = "settled"
    /\ UNCHANGED <<flow, budget, route, attempt, ownership, client, seen>>

\* CleanupStale: the request's context ended, so its entry is orphaned.
CleanupStaleRequests ==
    /\ entry # NoOne /\ Dead
    /\ entry' = NoOne /\ slots' = Release(entry)
    /\ UNCHANGED <<flow, budget, route, attempt, pending, permit, reservation,
                   client, seen>>

-----------------------------------------------------------------------------
Selecting == \/ \E p \in Providers : SelectInitial(p)
             \/ SelectNone \/ SelectFails \/ TargetExcluded \/ TargetFails
             \/ StartFirst

Attempting == \/ LoopEnds \/ BeginAttempt \/ PrepareRequest \/ FetchFaults
              \/ \E kind \in {"transport", "noResponse"} : FetchFails(kind)
              \/ \E s \in Statuses : Responds(s)
              \/ RefreshDeclined \/ RefreshPermit \/ RefreshPrepareFails
              \/ RefreshDiscard \/ RefreshActivate

Resolving == \/ ResolveStatusFailure \/ ResolveForwarded \/ ResolveCancelled
             \/ \E r \in RuleActions : ResolveMatch(r)
             \/ LegacySourceFailed \/ LegacyDecide \/ BackoffCancelled
             \/ BackoffRejected \/ BackoffPermit \/ RetryDiscard \/ RetryActivate
             \/ SwitchOrStop

Switching == \/ \E p \in Providers : ReserveAlternate(p)
             \/ NoAlternate \/ AlternateRetired \/ AlternateExcluded
             \/ AlternateFaults \/ AlternateDiscard \/ AlternateActivate
             \/ AlternateFailed

Semantic == \/ SemanticDecide \/ RuleBackoffCancelled \/ RuleRejected
            \/ RulePermit \/ RuleDiscard \/ RuleActivate \/ CommitSemantic

Ending == SettleFaults \/ Settle \/ RelayTail \/ FinalizeProxy

ExecuteProxy == Selecting \/ Attempting \/ Resolving \/ Switching \/ Semantic \/ Ending
Environment == ClientLeaves \/ SourceFails \/ ResponseCancelled \/ CleanupStaleRequests
Next == ExecuteProxy \/ Environment

Spec == Init /\ [][Next]_vars
FairSpec == Spec /\ WF_vars(ExecuteProxy) /\ WF_vars(ResponseCancelled)

-----------------------------------------------------------------------------
(* Properties.                                                             *)

Labels == {"select", "start", "loop", "prepare", "fetch", "refresh",
           "refreshPrepare", "refreshActivate", "resolve", "legacy", "backoff",
           "retryDiscard", "retryActivate", "switch", "alternate",
           "alternateTarget", "alternateActivate", "alternateFailed",
           "semantic", "ruleBackoff", "ruleDiscard", "ruleActivate",
           "commitSemantic", "settle", "tail", "finalize", "done"}
Kinds == {"none", "client", "internal", "disguise", "preparation", "transport",
          "noResponse", "status", "semantic", "read", "write", "ingress"}
Results == [kind : Kinds, success : BOOLEAN, discarded : BOOLEAN,
            headers : BOOLEAN, verdict : {"none", "success", "failure", "neutral"}]
Ledgers == [logical : Nat, provider : [Providers -> Nat],
            legacy : [Providers -> Nat], rule : [Providers \X RuleActions -> Nat]]

\* Every variable of the loop keeps its type; no slot count goes below zero
\* (executeProxy, ledger.go, active.go).
TypeOK ==
    /\ globalMax \in GlobalLimits
    /\ pc \in Labels /\ result \in Results /\ again \in BOOLEAN
    /\ ledger \in Ledgers /\ providerAttempt \in Nat
    /\ before.ledger \in Ledgers /\ before.attempt \in Nat
    /\ {provider, target, attemptOf, entry, reservation} \subseteq Providers \cup {NoOne}
    /\ excluded \subseteq Providers /\ skipped \subseteq Providers
    /\ refreshed \in BOOLEAN /\ permit \in BOOLEAN /\ sourceFailed \in BOOLEAN
    /\ status \in Statuses \cup {"none"} /\ rule \in RuleActions \cup {"none"}
    /\ caller \in {"none", "legacy", "semantic", "circuit"}
    /\ pending \in {"none", "held", "settled"}
    /\ slots \in [Providers -> Nat]
    /\ cause \in {"none", "client", "source"}
    /\ answers \in Nat /\ sent \in Nat /\ marks \in Nat

Running == pc \notin {"select", "start", "finalize", "done"}
Owns(p) == (IF entry = p THEN 1 ELSE 0) + (IF reservation = p THEN 1 ELSE 0)
             + (IF pc = "start" /\ provider = p THEN 1 ELSE 0)

\* Every slot the request occupies has one owner that will give it back: the
\* registry entry, the reservation, or the selection not yet registered.  The
\* loop never runs without the current provider's slot unless the context ended,
\* and a request that is over occupies nothing (startInitialSelection,
\* activateAlternate's deferred Release, RegisterWithDone, Unregister,
\* CleanupStale).
SlotsOwned ==
    /\ \A p \in Providers : slots[p] = Owns(p)
    /\ Running => entry = provider \/ Dead
    /\ pc = "done" => \A p \in Providers : slots[p] = 0

\* The client is answered exactly once: a response that was committed is not
\* followed by a gateway error, and no path ends silently (finalizeProxy,
\* headersWritten).
AnsweredOnce == answers <= 1 /\ (pc = "done" => answers = 1)

\* No response is left open behind the request, whatever path ended it: it was
\* forwarded or discarded, unless the context ended, which makes its coordinator
\* discard it (discard, commit, commitLegacyFailure, cancelPendingResponse).
NoResponseAbandoned == pc = "done" /\ pending = "held" => Dead

\* Requests reach upstreams only as charged: no more fetches than logical
\* attempts, no more of those than globalMaxAttempts, although a retry may be
\* charged, prepared and then taken back; and what one provider is sent is bounded
\* by its own retries and its rules', even when globalMaxAttempts is unlimited
\* (RetryLedger, resolveLegacyFailure, DecideRetry, activatePreparedAlternate).
BudgetRespected ==
    /\ sent <= ledger.logical
    /\ globalMax # 0 => ledger.logical <= globalMax
    /\ \A p \in Providers :
          ledger.provider[p] <= 1 + MaxRetries[p] + Cardinality(RuleActions) * RuleRetries

\* One attempt gives the health manager at most one verdict, at once or after
\* the conversion settles (assessAndApplyHealth, executeProxy).
HealthMarkedOnce == marks <= 1

\* Attempts follow one another in order.  Nothing is fetched once the client has
\* been answered, nor while an earlier response or reservation is still open
\* (executeLogicalAttempt); an attempt gives the health manager at most one
\* verdict, at once or after the conversion settled (assessAndApplyHealth,
\* executeProxy); and no switch follows a headerless EOF: "After its local retry
\* budget is exhausted, changing providers would hide that ambiguity behind a
\* new route" (resolveLegacyFailure).  A disguised provider is the exception: the
\* breaker its deferred verdict opens undoes the retry already taken, and that
\* switch asks nothing about the failure (executeProxy).
AttemptsInOrder ==
    [][/\ sent' # sent => answers = 0 /\ pending = "none" /\ reservation = NoOne
       /\ HealthMarkedOnce'
       /\ result.kind = "noResponse" /\ ~Deferred => ~AlternateActivate]_vars

\* Every request whose first selection was made ends, with or without a global
\* limit (executeProxy's loop).
RequestFinishes == pc # "select" ~> pc = "done"

\* One request, however it ends, owns its slots, stays within its budgets, leaves
\* no response open and answers its client once.  A Codex response whose gate
\* fails is answered twice (AnsweredOnce alone says so).
RequestAccounted ==
    SlotsOwned /\ BudgetRespected /\ NoResponseAbandoned /\ (~Codex => AnsweredOnce)
=============================================================================

---------------------------- MODULE ErrorRuleSet ----------------------------
(* The internal-error rules: their repository with the published snapshot     *)
(* (internal/errorrule/sqlite), the admin service that edits them             *)
(* (internal/admin/errorruleapi), matching (internal/errorrule/match.go) and  *)
(* the statistics that requests accumulate in memory, that a worker flushes   *)
(* and that the admin API overlays (internal/errorrule/statistics).           *)
(* A rule's handle is its identifier and its generation. A counter that was   *)
(* taken out of the map may still be referenced: references say whether they  *)
(* are attached. A database transaction is one action.                        *)
EXTENDS Integers, Sequences, FiniteSets, FiniteSetsExt, SequencesExt

CONSTANTS
    RuleIds,       \* identifiers of rules
    RuleProviders, \* providers a rule may be scoped to
    MaxRevision,   \* revisions explored
    MaxHits,       \* hits recorded
    MaxTries       \* maxStatsSnapshotReadAttempts

ASSUME RuleBounds == MaxRevision \in Nat /\ MaxHits \in Nat /\ MaxTries \in Nat \ {0}

VARIABLES
    catalog,    \* database: [providers, revision, rules, hits, generations, used]
    published,  \* the snapshot pointer: [revision, rules]
    mutation,   \* the mutation mutex and what its holder has still to do
    edit,       \* an admin request that has made its checks and not committed
    request,    \* one request: the snapshot it pinned, the hit it records
    counter,    \* the accumulator's map: handle -> pending hits, or Absent
    flusher,    \* the statistics worker
    reader,     \* one GET of the statistics
    made        \* hits recorded for each handle by this process or stored

ruleVars == <<catalog, published, mutation, edit, request, counter, flusher, reader, made>>

Absent == -1
Generations == 1..(MaxRevision * Cardinality(RuleIds))
Handles == RuleIds \X Generations
NoBatch == [h \in {} |-> 0]
NoEdit == [op |-> "none", expected |-> 0, ids |-> <<>>, target |-> "all"]
Unlocked == [step |-> "free", retired |-> {}]
IdleRequest == [step |-> "idle", rules |-> <<>>, handle |-> <<>>, attached |-> FALSE]
IdleFlusher == [step |-> "idle", batch |-> NoBatch, attached |-> {}, missing |-> {}]
IdleReader == [step |-> "idle", tries |-> 0, pinned |-> [revision |-> 0, rules |-> <<>>],
               revision |-> 0, stored |-> NoBatch, answer |-> NoBatch]
Targets == {"all"} \cup RuleProviders

RuleInit ==
    /\ catalog = [providers |-> RuleProviders, revision |-> 0, rules |-> <<>>, hits |-> NoBatch,
                  generations |-> 0, used |-> {}]
    /\ published = [revision |-> 0, rules |-> <<>>]
    /\ mutation = Unlocked
    /\ edit = NoEdit
    /\ request = IdleRequest
    /\ counter = [h \in Handles |-> Absent]
    /\ flusher = IdleFlusher
    /\ reader = IdleReader
    /\ made = [h \in Handles |-> 0]

Handle(r) == <<r.id, r.generation>>
RuleHandles(rules) == {Handle(rules[k]) : k \in DOMAIN rules}
IdsOf(rules) == {rules[k].id : k \in DOMAIN rules}
Scoped(r) == r.target # "all"

-----------------------------------------------------------------------------
(* Editing: the service checks the snapshot and the target, then Coordinate   *)
(* commits under the mutation mutex, publishes, and retires generations.      *)

\* createRule and updateRule of errorruleapi look at the snapshot and, for a rule
\* of one provider, at the provider before they commit. A created identifier is
\* new; an unknown rule is refused at the commit and not explored.
BeginEdit(op, id, target) ==
    /\ edit = NoEdit /\ catalog.revision < MaxRevision
    /\ target \in catalog.providers
    /\ IF op = "create" THEN id \notin catalog.used ELSE id \in IdsOf(published.rules)
    /\ edit' = [op |-> op, expected |-> published.revision, ids |-> <<id>>, target |-> target]
    /\ UNCHANGED <<catalog, published, mutation, request, counter, flusher, reader, made>>

NewRule(id, target) == [id |-> id, generation |-> 0, target |-> target]

Created(rules, id, target) == Append(rules, NewRule(id, target))
Updated(rules, id, target) ==
    [k \in DOMAIN rules |-> IF rules[k].id = id THEN NewRule(id, target) ELSE rules[k]]
Deleted(rules, id) == SelectSeq(rules, LAMBDA r : r.id # id)

\* ReorderRules is refused unless every rule is named once.
IsReorder(rules, ids) == Len(ids) = Len(rules) /\ ToSet(ids) = IdsOf(rules)
Reordered(rules, ids) ==
    IF IsReorder(rules, ids)
    THEN [k \in DOMAIN ids |-> rules[CHOOSE j \in DOMAIN rules : rules[j].id = ids[k]]] ELSE rules

\* BuildImportCandidate: everything is replaced, or the rules of one provider,
\* which must not take the identifier of a rule that stays.
RemoveProviderRules(rules, p) == SelectSeq(rules, LAMBDA r : r.target # p)
Imported(ids, target) == [k \in DOMAIN ids |-> NewRule(ids[k], target)]
Collides(rules, ids, p) == ToSet(ids) \cap IdsOf(RemoveProviderRules(rules, p)) # {}

\* The callback's own errors.
Refused(x, rules) ==
    \/ x.op = "reorder" /\ ~IsReorder(rules, x.ids)
    \/ x.op \in {"update", "delete"} /\ x.ids[1] \notin IdsOf(rules)
    \/ x.op = "select" /\ Collides(rules, x.ids, x.target)

\* What the callback of Coordinate returns over the stored rules, generations
\* still to be filled in.
Candidate(x, rules) ==
    CASE x.op = "create"  -> Created(rules, x.ids[1], x.target)
      [] x.op = "update"  -> Updated(rules, x.ids[1], x.target)
      [] x.op = "delete"  -> Deleted(rules, x.ids[1])
      [] x.op = "reorder" -> Reordered(rules, x.ids)
      [] x.op = "import"  -> Imported(x.ids, x.target)
      [] x.op = "select"  -> RemoveProviderRules(rules, x.target) \o Imported(x.ids, x.target)
      [] x.op = "drop"    -> RemoveProviderRules(rules, x.target)

\* prepareCandidate: a rule that is already stored keeps its generation.
Prepared(rules, candidate, last) ==
    LET old(id) == {k \in DOMAIN rules : rules[k].id = id}
        fresh(n) == Cardinality({k \in 1..n : old(candidate[k].id) = {}})
    IN  [k \in DOMAIN candidate |->
            [candidate[k] EXCEPT !.generation =
                IF old(candidate[k].id) # {} THEN rules[CHOOSE j \in old(candidate[k].id) : TRUE].generation
                ELSE last + fresh(k)]]

\* validateProviderReferences, in the transaction
ReferencesHold(rules, providers) == \A k \in DOMAIN rules : Scoped(rules[k]) => rules[k].target \in providers

\* persistRuleSet: statistics rows of rules that go are deleted, new ones start
\* at zero, the others are kept.
PersistedHits(rules) ==
    [h \in RuleHandles(rules) |-> IF h \in DOMAIN catalog.hits THEN catalog.hits[h] ELSE 0]

\* semanticRuleSetsEqual
SemanticEqual(rules, new) == rules = new

\* Coordinate for the edit x: the mutex, then one transaction that fails or
\* commits. A provider's deletion goes with the rules at any revision.
Coordinate(x) ==
    LET providers == IF x.op = "drop" THEN catalog.providers \ {x.target} ELSE catalog.providers
        new == Prepared(catalog.rules, Candidate(x, catalog.rules), catalog.generations)
        refused == \/ x.op # "drop" /\ x.expected # catalog.revision
                   \/ x.op = "drop" /\ x.target \notin catalog.providers
                   \/ Refused(x, catalog.rules)
    IN  /\ mutation = Unlocked
        /\ IF refused \/ ~ReferencesHold(new, providers)
           THEN UNCHANGED <<catalog, mutation>>
           ELSE IF SemanticEqual(catalog.rules, new)
           THEN catalog' = [catalog EXCEPT !.providers = providers] /\ UNCHANGED mutation
           ELSE /\ catalog' = [providers |-> providers, revision |-> catalog.revision + 1, rules |-> new,
                               hits |-> PersistedHits(new), used |-> catalog.used \cup IdsOf(new),
                               generations |-> catalog.generations +
                                    Cardinality(IdsOf(new) \ IdsOf(catalog.rules))]
                /\ mutation' = [step |-> "committed",
                                 retired |-> {h \in RuleHandles(catalog.rules) : h[1] \notin IdsOf(new)}]
        /\ UNCHANGED <<published, request, counter, flusher, reader, made>>

CommitEdit == edit # NoEdit /\ Coordinate(edit) /\ edit' = NoEdit

\* The other edits read nothing before they coordinate but the revision the
\* client was shown (If-Match): edits of rules for all providers, deletes and
\* reorders, imports of a whole configuration or of a provider's part, and the
\* deletion of a provider.
CommitDirect(op, expected, ids, target) ==
    /\ catalog.revision < MaxRevision
    /\ Coordinate([op |-> op, expected |-> expected, ids |-> ids, target |-> target])
    /\ UNCHANGED edit

\* PublishRuleSet
PublishRuleSet ==
    /\ mutation.step = "committed"
    /\ published' = [revision |-> catalog.revision, rules |-> catalog.rules]
    /\ mutation' = [mutation EXCEPT !.step = "retiring"]
    /\ UNCHANGED <<catalog, edit, request, counter, flusher, reader, made>>

\* Retire(h): the counter leaves the map; who holds it keeps a detached one.
Retired(gone) ==
    /\ counter' = [h \in Handles |-> IF h \in gone THEN Absent ELSE counter[h]]
    /\ request' = [request EXCEPT !.attached = @ /\ request.handle \notin gone]

RetireGenerations ==
    /\ mutation.step = "retiring"
    /\ Retired(mutation.retired)
    /\ flusher' = [flusher EXCEPT !.attached = @ \ mutation.retired]
    /\ mutation' = Unlocked
    /\ UNCHANGED <<catalog, published, edit, reader, made>>

\* CreateProvider of another handler
AddProvider(p) ==
    /\ p \notin catalog.providers
    /\ catalog' = [catalog EXCEPT !.providers = @ \cup {p}]
    /\ UNCHANGED <<published, mutation, edit, request, counter, flusher, reader, made>>

-----------------------------------------------------------------------------
(* A request: it pins the snapshot, its response matches, the winner is hit.  *)

PinRuleSet ==
    /\ request.step = "idle" /\ published.rules # <<>>
    /\ request' = [IdleRequest EXCEPT !.step = "pinned", !.rules = published.rules]
    /\ UNCHANGED <<catalog, published, mutation, edit, counter, flusher, reader, made>>

\* comparePrecedence: a provider's own rules first, then by position.
Precedes(rules, j, k) ==
    IF Scoped(rules[j]) # Scoped(rules[k]) THEN Scoped(rules[j]) ELSE j < k

\* Match for provider p: the first of the candidates whose keywords are found.
Winner(rules, p, found) ==
    LET candidates == {k \in found : rules[k].target \in {"all", p}}
    IN  CHOOSE k \in candidates : \A j \in candidates \ {k} : Precedes(rules, k, j)

\* counterFor: the counter of the winner's generation, created when missing.
FindCounter(p, found) ==
    LET h == Handle(request.rules[Winner(request.rules, p, found)])
    IN  /\ request.step = "pinned"
        /\ found \subseteq DOMAIN request.rules
        /\ \E k \in found : request.rules[k].target \in {"all", p}
        /\ MapThenSumSet(LAMBDA x : made[x], Handles) < MaxHits
        /\ counter' = [counter EXCEPT ![h] = IF @ = Absent THEN 0 ELSE @]
        /\ request' = [IdleRequest EXCEPT !.step = "hitting", !.handle = h, !.attached = TRUE]
        /\ UNCHANGED <<catalog, published, mutation, edit, flusher, reader, made>>

NoMatch ==
    /\ request.step = "pinned"
    /\ request' = IdleRequest
    /\ UNCHANGED <<catalog, published, mutation, edit, counter, flusher, reader, made>>

\* counter.add
AddHit ==
    LET h == request.handle IN
    /\ request.step = "hitting"
    /\ counter' = IF request.attached THEN [counter EXCEPT ![h] = @ + 1] ELSE counter
    /\ made' = [made EXCEPT ![h] = @ + 1]
    /\ request' = IdleRequest
    /\ UNCHANGED <<catalog, published, mutation, edit, flusher, reader>>

-----------------------------------------------------------------------------
(* The flush: drain, apply in one transaction, restore or evict.              *)

Drain ==
    LET some == {h \in Handles : counter[h] > 0}
    IN  /\ flusher.step = "idle" /\ some # {}
        /\ flusher' = [step |-> "drained", batch |-> [h \in some |-> counter[h]], attached |-> some, missing |-> {}]
        /\ counter' = [h \in Handles |-> IF h \in some THEN 0 ELSE counter[h]]
        /\ UNCHANGED <<catalog, published, mutation, edit, request, reader, made>>

\* ApplyRuleStatDeltas updates the rows it finds and names the others.
ApplyDeltas ==
    LET batch == flusher.batch IN
    /\ flusher.step = "drained"
    /\ catalog' = [catalog EXCEPT !.hits =
                        [h \in DOMAIN @ |-> @[h] + (IF h \in DOMAIN batch THEN batch[h] ELSE 0)]]
    /\ flusher' = [IdleFlusher EXCEPT !.step = "applied", !.missing = DOMAIN batch \ DOMAIN catalog.hits]
    /\ UNCHANGED <<published, mutation, edit, request, counter, reader, made>>

\* Mutant: what was drained is only put back into counters nobody hit since.
MutRestored(h) == IF counter[h] = 0 THEN flusher.batch[h] ELSE counter[h]
\* restore adds what was drained to the same counter.
Restored(h) == counter[h] + flusher.batch[h]

\* The transaction failed: the deltas go back where they came from.
FlushFails ==
    /\ flusher.step = "drained"
    /\ counter' = [h \in Handles |-> IF h \in flusher.attached THEN Restored(h) ELSE counter[h]]
    /\ flusher' = IdleFlusher
    /\ UNCHANGED <<catalog, published, mutation, edit, request, reader, made>>

\* Counters of generations that have no row are evicted.
EvictMissing ==
    /\ flusher.step = "applied"
    /\ Retired(flusher.missing)
    /\ flusher' = IdleFlusher
    /\ UNCHANGED <<catalog, published, mutation, edit, reader, made>>

-----------------------------------------------------------------------------
(* listStats: pin, read the rows, check that both are of one revision, and    *)
(* only then overlay what is pending; a few tries.                            *)

StatsPin ==
    /\ reader.step = "idle" /\ reader.tries < MaxTries
    /\ reader' = [IdleReader EXCEPT !.step = "pinned", !.tries = reader.tries + 1, !.pinned = published]
    /\ UNCHANGED <<catalog, published, mutation, edit, request, counter, flusher, made>>

StatsRead ==
    /\ reader.step = "pinned"
    /\ reader' = [reader EXCEPT !.step = "read", !.revision = catalog.revision, !.stored = catalog.hits]
    /\ UNCHANGED <<catalog, published, mutation, edit, request, counter, flusher, made>>

Converged == reader.revision = reader.pinned.revision /\ published = reader.pinned

\* Overlay reads the pending hits of the pinned rules.
Overlay ==
    [h \in RuleHandles(reader.pinned.rules) |->
        (IF h \in DOMAIN reader.stored THEN reader.stored[h] ELSE 0)
            + (IF counter[h] = Absent THEN 0 ELSE counter[h])]

StatsAnswer ==
    /\ reader.step = "read"
    /\ reader' = IF ~Converged THEN [reader EXCEPT !.step = "idle"]
                 ELSE [IdleReader EXCEPT !.step = "answered", !.stored = reader.stored, !.answer = Overlay]
    /\ UNCHANGED <<catalog, published, mutation, edit, request, counter, flusher, made>>

StatsReturn ==
    /\ reader.step = "answered" \/ (reader.step = "idle" /\ reader.tries = MaxTries)
    /\ reader' = IdleReader
    /\ UNCHANGED <<catalog, published, mutation, edit, request, counter, flusher, made>>

-----------------------------------------------------------------------------
\* The process ends at any moment; Open loads, validates and publishes what is
\* stored. Hits that were not flushed are gone.
Reopen ==
    /\ published' = [revision |-> catalog.revision, rules |-> catalog.rules]
    /\ mutation' = Unlocked
    /\ edit' = NoEdit
    /\ request' = IdleRequest
    /\ counter' = [h \in Handles |-> Absent]
    /\ flusher' = IdleFlusher
    /\ reader' = IdleReader
    /\ made' = [h \in Handles |-> IF h \in DOMAIN catalog.hits THEN catalog.hits[h] ELSE 0]
    /\ UNCHANGED catalog

\* What edits name: at most two distinct identifiers. A whole import carries
\* rules for all providers here, a selection at most one rule of its provider.
IdSeqs == {s \in UNION {[1..n -> RuleIds] : n \in 0..2} : IsInjective(s)}
Fits(op, ids, target) ==
    /\ op \in {"create", "update", "delete"} => Len(ids) = 1
    /\ op \in {"create", "update", "delete", "reorder", "import"} => target = "all"
    /\ op = "create" => ToSet(ids) \cap catalog.used = {}
    /\ op = "select" => Len(ids) <= 1
    /\ op \in {"select", "drop"} => target # "all"
    /\ op = "drop" => ids = <<>>

RuleNext ==
    \/ \E op \in {"create", "update"}, id \in RuleIds, t \in RuleProviders : BeginEdit(op, id, t)
    \/ \E op \in {"create", "update", "delete", "reorder", "import", "select", "drop"}, ids \in IdSeqs, t \in Targets,
          n \in 0..published.revision : Fits(op, ids, t) /\ CommitDirect(op, n, ids, t)
    \/ CommitEdit \/ PublishRuleSet \/ RetireGenerations
    \/ \E p \in RuleProviders : AddProvider(p)
    \/ PinRuleSet \/ NoMatch \/ AddHit
    \/ \E p \in RuleProviders, found \in SUBSET DOMAIN request.rules : FindCounter(p, found)
    \/ Drain \/ ApplyDeltas \/ FlushFails \/ EvictMissing
    \/ StatsPin \/ StatsRead \/ StatsAnswer \/ StatsReturn
    \/ Reopen

RuleSpec == RuleInit /\ [][RuleNext]_ruleVars

-----------------------------------------------------------------------------
(* Properties.                                                                *)

\* Every hit of a rule that still exists is stored, pending or in the batch
\* being flushed, exactly once, whatever flushes failed and whatever rules were
\* deleted, imported again or reordered meanwhile.
HitsConserved ==
    \A h \in DOMAIN catalog.hits :
        made[h] = catalog.hits[h] + (IF counter[h] = Absent THEN 0 ELSE counter[h])
                    + (IF flusher.step = "drained" /\ h \in DOMAIN flusher.batch THEN flusher.batch[h] ELSE 0)

\* The statistics shown are those of one published revision and never more than
\* the hits that were recorded, though the rows, the snapshot and the pending
\* counters are read at three different moments.
StatsConsistent ==
    reader.step = "answered" =>
        /\ DOMAIN reader.answer = DOMAIN reader.stored
        /\ \A h \in DOMAIN reader.answer : reader.answer[h] <= made[h]

\* No stored rule is scoped to a provider that does not exist, although the
\* provider may be deleted between the check of the request and its commit.
RulesHaveProviders ==
    \A k \in DOMAIN catalog.rules : catalog.rules[k].target \in {"all"} \cup catalog.providers

\* Statistics are never lost, counted twice or shown against rules of another
\* revision, and no rule outlives its provider.
StatisticsTrue == HitsConserved /\ StatsConsistent /\ RulesHaveProviders
=============================================================================

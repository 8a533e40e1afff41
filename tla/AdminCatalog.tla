---------------------------- MODULE AdminCatalog ----------------------------
(***************************************************************************)
(* The routing catalogue the administration API edits: providers, groups,  *)
(* routing policies and the manual half of the health rows, in one SQLite  *)
(* database.  A handler reads and validates without a lock, then writes in *)
(* one transaction that repeats only some of the checks, and the handlers  *)
(* that change a provider's enabled flag bring the health row in line      *)
(* afterwards.  Handlers of different requests interleave freely.          *)
(*                                                                         *)
(* A policy's natural key is its API type (the model match is left out);   *)
(* vendors, weights and credential bindings are left out; a group is its   *)
(* identity.                                                               *)
(***************************************************************************)
EXTENDS Naturals, FiniteSets

CONSTANTS Admins,       \* requests the API serves at once
          Providers, Groups, ApiTypes, PolicyIds,
          NoOne,        \* no row, no group, no target
          RequestRows,  \* provider rows a request or a file may carry
          Files,        \* import files
          MaxHandlers   \* bound on the handlers begun

ProviderRows == [enabled: BOOLEAN, group: Groups \cup {NoOne},
                 types: SUBSET ApiTypes \ {{}}]

PolicyRows == [key: ApiTypes, target: Providers, groups: {{}}]
                \cup [key: ApiTypes, target: {NoOne}, groups: SUBSET Groups \ {{}}]

ASSUME CatalogAssumption ==
  /\ MaxHandlers \in Nat
  /\ NoOne \notin Providers \cup Groups \cup ApiTypes
  /\ NoOne \notin ProviderRows /\ NoOne \notin PolicyRows
  /\ Cardinality(PolicyIds) >= Cardinality(ApiTypes)
  /\ RequestRows \subseteq ProviderRows
  /\ \A file \in Files :
       /\ file.groups \subseteq Groups /\ file.policies \subseteq PolicyRows
       /\ \E S \in SUBSET Providers : file.rows \in [S -> ProviderRows]

VARIABLES db,      \* what the transactions have committed
          op,      \* the handler each request is in
          begun,   \* handlers begun
          excuse   \* ghost: handlers overlapped, or a flag was written
                   \* without its health row

catalogVars == <<db, op, begun, excuse>>

Idle == [kind |-> "idle"]

CatalogInit ==
  /\ db = [providers |-> [p \in Providers |-> NoOne], groups |-> {},
           policies |-> [i \in PolicyIds |-> NoOne],
           health |-> [p \in Providers |-> "none"]]
  /\ op = [a \in Admins |-> Idle]
  /\ begun = 0
  /\ excuse = {}

LivePolicies(d) == {d.policies[i] : i \in PolicyIds} \ {NoOne}

-----------------------------------------------------------------------------
(* The transactions.  Each gives the databases it may commit, or none.     *)

\* providers.group_id is a foreign key
GroupLinked(d, row) == row.group = NoOne \/ row.group \in d.groups

CreateProviderInTransaction(d, id, row) ==
  IF d.providers[id] = NoOne /\ GroupLinked(d, row)
    THEN {[d EXCEPT !.providers[id] = row]} ELSE {}

ValidateProviderAPITypeUpdate(d, id, row) ==
  \A policy \in LivePolicies(d) : policy.target = id => policy.key \in row.types

\* Save inserts the row again when it is gone
UpdateProviderInTransaction(d, id, row) ==
  IF ValidateProviderAPITypeUpdate(d, id, row) /\ GroupLinked(d, row)
    THEN {[d EXCEPT !.providers[id] = row]} ELSE {}

Targeted(d, id) == \E policy \in LivePolicies(d) : policy.target = id

DeleteProviderInTransaction(d, id) ==
  IF Targeted(d, id) \/ d.providers[id] = NoOne THEN {}
  ELSE {[d EXCEPT !.providers[id] = NoOne, !.health[id] = "none"]}

CreateGroupInTransaction(d, g) ==
  IF g \in d.groups THEN {} ELSE {[d EXCEPT !.groups = @ \cup {g}]}

UpdateGroupInTransaction(d, g) == {[d EXCEPT !.groups = @ \cup {g}]}

UnlinkedFrom(g, row) ==
  IF row # NoOne /\ row.group = g THEN [row EXCEPT !.group = NoOne] ELSE row

DeleteGroupInTransaction(d, g) ==
  IF \E policy \in LivePolicies(d) : g \in policy.groups THEN {}
  ELSE {[d EXCEPT !.groups = @ \ {g},
                  !.providers = [p \in Providers |-> UnlinkedFrom(g, @[p])]]}

EnsureRoutingPolicyUnique(d, id, policy) ==
  \A other \in PolicyIds \ {id} :
    d.policies[other] # NoOne => d.policies[other].key # policy.key

CreatePolicyInTransaction(d, policy) ==
  {[d EXCEPT !.policies[id] = policy] :
     id \in {i \in PolicyIds : d.policies[i] = NoOne
                                 /\ EnsureRoutingPolicyUnique(d, i, policy)}}

UpdatePolicyInTransaction(d, id, policy) ==
  IF d.policies[id] # NoOne /\ EnsureRoutingPolicyUnique(d, id, policy)
    THEN {[d EXCEPT !.policies[id] = policy]} ELSE {}

DeletePolicyInTransaction(d, id) ==
  IF d.policies[id] # NoOne THEN {[d EXCEPT !.policies[id] = NoOne]} ELSE {}

\* a policy of the file keeps the id of the one with its natural key
ReplacedPolicies(d, wanted) ==
  {m \in [PolicyIds -> wanted \cup {NoOne}] :
     /\ \A policy \in wanted : \E i \in PolicyIds : m[i] = policy
     /\ \A i, j \in PolicyIds : m[i] # NoOne /\ m[i] = m[j] => i = j
     /\ \A i \in PolicyIds, policy \in wanted :
          d.policies[i] # NoOne /\ d.policies[i].key = policy.key => m[i] = policy}

ProviderUpserted(d, id, row) ==
  IF d.providers[id] = NoOne THEN CreateProviderInTransaction(d, id, row)
  ELSE UpdateProviderInTransaction(d, id, row)

\* groups, then policies, then providers: a provider's row is checked
\* against the policies the import leaves
ApplyConfigImport(d, bundle) ==
  {[mid EXCEPT !.providers =
      [p \in Providers |->
         IF p \in DOMAIN bundle.rows THEN bundle.rows[p] ELSE @[p]]] :
     mid \in {m \in {[d EXCEPT !.groups = @ \cup bundle.groups, !.policies = after] :
                       after \in IF bundle.replace
                                   THEN ReplacedPolicies(d, bundle.policies)
                                   ELSE {d.policies}} :
                \A p \in DOMAIN bundle.rows :
                  ProviderUpserted(m, p, bundle.rows[p]) # {}}}

-----------------------------------------------------------------------------
(* The handlers up to their transaction: what they read and refuse.        *)

Begin(a, o) ==
  /\ op[a] = Idle
  /\ begun < MaxHandlers
  /\ op' = [op EXCEPT ![a] = o]
  /\ begun' = begun + 1
  /\ excuse' = IF \E b \in Admins : op[b] # Idle
                 THEN excuse \cup {"overlap"} ELSE excuse
  /\ UNCHANGED db

ValidateAndResolveGroupID(g) == g = NoOne \/ g \in db.groups

CreateProvider(a) ==
  \E p \in Providers, row \in RequestRows :
    /\ db.providers[p] = NoOne
    /\ ValidateAndResolveGroupID(row.group)
    /\ Begin(a, [kind |-> "createProvider", id |-> p, row |-> row])

\* the fields a request carries replace those of the row it read
ApplyTo(row, request, fields) ==
  [enabled |-> IF "enabled" \in fields THEN request.enabled ELSE row.enabled,
   group |-> IF "group" \in fields THEN request.group ELSE row.group,
   types |-> IF "types" \in fields THEN request.types ELSE row.types]

\* the update brings health in line only when it changed the flag
SyncAfterUpdate(old, row) == row.enabled # old.enabled

UpdateProvider(a) ==
  \E p \in Providers, request \in RequestRows,
     fields \in SUBSET {"enabled", "group", "types"} :
    /\ db.providers[p] # NoOne
    /\ "group" \in fields => ValidateAndResolveGroupID(request.group)
    /\ LET row == ApplyTo(db.providers[p], request, fields)
       IN Begin(a, [kind |-> "updateProvider", id |-> p, row |-> row,
                    sync |-> SyncAfterUpdate(db.providers[p], row)])

\* enable, disable and their batch forms write the whole row they read
SetProviderEnabled(a) ==
  \E p \in Providers, enabled \in BOOLEAN :
    /\ db.providers[p] # NoOne
    /\ Begin(a, [kind |-> "updateProvider", id |-> p, sync |-> TRUE,
                 row |-> [db.providers[p] EXCEPT !.enabled = enabled]])

ResetProvider(a) ==
  \E p \in Providers :
    /\ db.providers[p] # NoOne
    /\ Begin(a, [kind |-> "sync", id |-> p, enabled |-> TRUE])

DeleteProvider(a) ==
  \E p \in Providers :
    /\ db.providers[p] # NoOne
    /\ Begin(a, [kind |-> "deleteProvider", id |-> p])

CreateGroup(a) ==
  \E g \in Groups :
    /\ g \notin db.groups
    /\ Begin(a, [kind |-> "createGroup", id |-> g])

UpdateOrToggleGroup(a) ==
  \E g \in db.groups : Begin(a, [kind |-> "updateGroup", id |-> g])

DeleteGroup(a) ==
  \E g \in db.groups : Begin(a, [kind |-> "deleteGroup", id |-> g])

BuildExactProviderRoutingPolicy(policy, rows) ==
  /\ policy.target # NoOne
  /\ rows[policy.target] # NoOne
  /\ policy.key \in rows[policy.target].types

BuildFilterRoutingPolicy(policy, groups) ==
  policy.target = NoOne /\ policy.groups \subseteq groups

BuildRoutingPolicyFromCatalog(policy, rows, groups) ==
  \/ BuildExactProviderRoutingPolicy(policy, rows)
  \/ BuildFilterRoutingPolicy(policy, groups)

CreateRoutingPolicy(a) ==
  \E policy \in PolicyRows :
    /\ BuildRoutingPolicyFromCatalog(policy, db.providers, db.groups)
    /\ Begin(a, [kind |-> "createPolicy", policy |-> policy])

UpdateRoutingPolicy(a) ==
  \E id \in PolicyIds, policy \in PolicyRows :
    /\ db.policies[id] # NoOne
    /\ BuildRoutingPolicyFromCatalog(policy, db.providers, db.groups)
    /\ Begin(a, [kind |-> "updatePolicy", id |-> id, policy |-> policy])

DeleteRoutingPolicy(a) ==
  \E id \in PolicyIds : Begin(a, [kind |-> "deletePolicy", id |-> id])

-----------------------------------------------------------------------------
(* Importing a configuration: the file is narrowed to the scope, staged    *)
(* over a snapshot of the catalogue and refused on the first warning.      *)

\* a selected provider brings its group, a selected group its providers
ResolveSelected(file, chosenRows, chosenGroups) ==
  LET rows == {p \in DOMAIN file.rows :
                 p \in chosenRows \/ file.rows[p].group \in chosenGroups}
      parents == {file.rows[p].group : p \in chosenRows} \ {NoOne}
  IN [groups |-> (chosenGroups \cup parents) \cap file.groups,
      rows |-> [p \in rows |-> file.rows[p]],
      policies |-> {}, replace |-> FALSE]

ResolveFull(file) ==
  [groups |-> file.groups, rows |-> file.rows,
   policies |-> file.policies, replace |-> TRUE]

ResolvedImports(file) ==
  {ResolveFull(file)} \cup
  {ResolveSelected(file, rows, groups) :
     rows \in {r \in SUBSET DOMAIN file.rows :
                 \A p \in r : file.rows[p].group \in file.groups \cup {NoOne}},
     groups \in SUBSET file.groups}

FinalProviders(r) ==
  [p \in Providers |-> IF p \in DOMAIN r.rows THEN r.rows[p] ELSE db.providers[p]]

FinalGroups(r) == db.groups \cup r.groups

ValidateProviderGroupRefs(r) ==
  \A p \in DOMAIN r.rows : r.rows[p].group \in FinalGroups(r) \cup {NoOne}

ValidateStagedExactProviderPolicies(r) ==
  \A policy \in LivePolicies(db) :
    policy.target # NoOne => BuildExactProviderRoutingPolicy(policy, FinalProviders(r))

MutStageImportedRoutingPolicies(r) ==
  r.replace \/ ValidateStagedExactProviderPolicies(r)

\* a full import builds its policies over the staged catalogue; the others
\* keep the policies there are and check their targets against it
StageImportedRoutingPolicies(r) ==
  IF r.replace
    THEN \A policy \in r.policies :
           BuildRoutingPolicyFromCatalog(policy, FinalProviders(r), FinalGroups(r))
    ELSE ValidateStagedExactProviderPolicies(r)

\* only rows that are new or differ are written
StagedRows(r) == {p \in DOMAIN r.rows : r.rows[p] # db.providers[p]}

ImportConfig(a) ==
  \E file \in Files :
    \E r \in ResolvedImports(file), changed \in SUBSET db.groups :
      /\ ValidateProviderGroupRefs(r)
      /\ StageImportedRoutingPolicies(r)
      /\ Begin(a, [kind |-> "import",
                   groups |-> (r.groups \ db.groups) \cup (r.groups \cap changed),
                   rows |-> [p \in StagedRows(r) |-> r.rows[p]],
                   policies |-> r.policies, replace |-> r.replace])

-----------------------------------------------------------------------------
(* The transaction of the handler, and what follows it.                    *)

Committed(o) ==
  CASE o.kind = "createProvider" -> CreateProviderInTransaction(db, o.id, o.row)
    [] o.kind = "updateProvider" -> UpdateProviderInTransaction(db, o.id, o.row)
    [] o.kind = "deleteProvider" -> DeleteProviderInTransaction(db, o.id)
    [] o.kind = "createGroup" -> CreateGroupInTransaction(db, o.id)
    [] o.kind = "updateGroup" -> UpdateGroupInTransaction(db, o.id)
    [] o.kind = "deleteGroup" -> DeleteGroupInTransaction(db, o.id)
    [] o.kind = "createPolicy" -> CreatePolicyInTransaction(db, o.policy)
    [] o.kind = "updatePolicy" -> UpdatePolicyInTransaction(db, o.id, o.policy)
    [] o.kind = "deletePolicy" -> DeletePolicyInTransaction(db, o.id)
    [] o.kind = "import" -> ApplyConfigImport(db, o)
    [] OTHER -> {}

AfterCommit(o) ==
  IF o.kind = "updateProvider" /\ o.sync
    THEN [kind |-> "sync", id |-> o.id, enabled |-> o.row.enabled] ELSE Idle

\* an import writes enabled flags and leaves the health rows as they are
WritesFlagOnly(o) == o.kind = "import" /\ DOMAIN o.rows # {}

CommitHandler(a) ==
  /\ \E after \in Committed(op[a]) : db' = after
  /\ op' = [op EXCEPT ![a] = AfterCommit(op[a])]
  /\ excuse' = IF WritesFlagOnly(op[a]) THEN excuse \cup {"unsynced"} ELSE excuse
  /\ UNCHANGED begun

\* refused by a check of the transaction, or the storage failed
Refuse(a) ==
  /\ op[a].kind \notin {"idle", "sync"}
  /\ op' = [op EXCEPT ![a] = Idle]
  /\ UNCHANGED <<db, begun, excuse>>

HealthSynced(o) == IF o.enabled THEN "available" ELSE "manual"

\* ManualEnable or ManualDisable; the health row needs its provider
SyncHealthManagerState(a) ==
  /\ op[a].kind = "sync"
  /\ db.providers[op[a].id] # NoOne
  /\ db' = [db EXCEPT !.health[op[a].id] = HealthSynced(op[a])]
  /\ op' = [op EXCEPT ![a] = Idle]
  /\ UNCHANGED <<begun, excuse>>

\* a failed health write is logged and the request answered as a success
SyncFails(a) ==
  /\ op[a].kind = "sync"
  /\ op' = [op EXCEPT ![a] = Idle]
  /\ excuse' = excuse \cup {"unsynced"}
  /\ UNCHANGED <<db, begun>>

CatalogNext ==
  \E a \in Admins :
    \/ CreateProvider(a) \/ UpdateProvider(a) \/ SetProviderEnabled(a)
    \/ ResetProvider(a) \/ DeleteProvider(a)
    \/ CreateGroup(a) \/ UpdateOrToggleGroup(a) \/ DeleteGroup(a)
    \/ CreateRoutingPolicy(a) \/ UpdateRoutingPolicy(a) \/ DeleteRoutingPolicy(a)
    \/ ImportConfig(a)
    \/ CommitHandler(a) \/ Refuse(a) \/ SyncHealthManagerState(a) \/ SyncFails(a)

CatalogSpec == CatalogInit /\ [][CatalogNext]_catalogVars

-----------------------------------------------------------------------------
PolicyHolds(d, policy) ==
  /\ policy.target # NoOne =>
       d.providers[policy.target] # NoOne
         /\ policy.key \in d.providers[policy.target].types
  /\ policy.groups \subseteq d.groups

(* Every stored policy names a provider that exists and serves its API     *)
(* type, or groups that exist.                                             *)
Resolves(d) == \A policy \in LivePolicies(d) : PolicyHolds(d, policy)
PoliciesResolve == Resolves(db)

(* As long as no two requests overlapped, every stored policy resolves:    *)
(* whatever sequence of edits and imports the API accepted, no provider,   *)
(* group or API type a policy needs went away (the reference checks of     *)
(* DeleteProvider, DeleteGroup, updateProviderInTransaction and            *)
(* stageConfigImport together leave no gap).                               *)
SerialPoliciesResolve == "overlap" \notin excuse => PoliciesResolve

(* A provider that is enabled and that no request is changing is not       *)
(* disabled by hand in its health row, unless requests overlapped, the     *)
(* health write failed or an import wrote the flag: toggles, updates and   *)
(* delete-and-create never leave an enabled provider out of routing.       *)
EnabledInSync ==
  excuse = {} =>
    \A p \in Providers :
      /\ db.providers[p] # NoOne /\ db.providers[p].enabled
      /\ \A a \in Admins : op[a].kind # "sync"
      => db.health[p] # "manual"

\* While handlers do not overlap, policies name what exists and a provider's
\* health row agrees with its enabled flag.
CatalogConsistent == SerialPoliciesResolve /\ EnabledInSync
-----------------------------------------------------------------------------
(* The inductive invariant.                                                *)

Catalogs ==
  [providers: [Providers -> ProviderRows \cup {NoOne}], groups: SUBSET Groups,
   policies: [PolicyIds -> PolicyRows \cup {NoOne}],
   health: [Providers -> {"none", "available", "manual"}]]

ImportedRows == UNION {[S -> ProviderRows] : S \in SUBSET Providers}

Handlers ==
  [kind: {"idle"}]
    \cup [kind: {"createProvider"}, id: Providers, row: ProviderRows]
    \cup [kind: {"updateProvider"}, id: Providers, row: ProviderRows, sync: BOOLEAN]
    \cup [kind: {"deleteProvider"}, id: Providers]
    \cup [kind: {"sync"}, id: Providers, enabled: BOOLEAN]
    \cup [kind: {"createGroup", "updateGroup", "deleteGroup"}, id: Groups]
    \cup [kind: {"createPolicy"}, policy: PolicyRows]
    \cup [kind: {"updatePolicy"}, id: PolicyIds, policy: PolicyRows]
    \cup [kind: {"deletePolicy"}, id: PolicyIds]
    \cup [kind: {"import"}, groups: SUBSET Groups, rows: ImportedRows,
          policies: SUBSET PolicyRows, replace: BOOLEAN]

\* The rows of the tables and what a handler carries to its transaction.
CatalogTypeOK ==
  /\ db \in Catalogs
  /\ op \in [Admins -> Handlers]
  /\ begun \in Nat
  /\ excuse \subseteq {"overlap", "unsynced"}

\* What a handler validated before its transaction is still so.
ChecksHold(o) ==
  /\ o.kind \in {"createPolicy", "updatePolicy"} =>
       BuildRoutingPolicyFromCatalog(o.policy, db.providers, db.groups)
  /\ o.kind = "import" => StageImportedRoutingPolicies(o)
  /\ o.kind = "updateProvider" =>
       /\ db.providers[o.id] # NoOne
       /\ o.sync \/ o.row.enabled = db.providers[o.id].enabled
  /\ o.kind = "sync" =>
       /\ db.providers[o.id] # NoOne
       /\ o.enabled \/ ~db.providers[o.id].enabled

\* As long as nothing overlapped one handler runs, on the catalogue it checked.
HandlersSerial ==
  "overlap" \notin excuse =>
    /\ \A a, b \in Admins : op[a] # Idle /\ op[b] # Idle => a = b
    /\ \A a \in Admins : ChecksHold(op[a])

\* A health row disabled by hand has its provider, and that provider is disabled
\* or the handler that enabled it is about to write the row.
HealthFollows ==
  excuse = {} =>
    \A p \in Providers : db.health[p] = "manual" =>
      /\ db.providers[p] # NoOne
      /\ db.providers[p].enabled =>
           \E a \in Admins : op[a].kind = "sync" /\ op[a].id = p /\ op[a].enabled

CatalogInv ==
  CatalogTypeOK /\ HandlersSerial /\ SerialPoliciesResolve /\ HealthFollows
=============================================================================

---------------------------- MODULE StoreProofs ----------------------------
(***************************************************************************)
(* Machine-checked proofs about what the gateway stores and reads back:    *)
(* the cached configuration (ConfigCache), for any sets of readers,        *)
(* writers and keys and any number of writes, the routing catalogue        *)
(* (AdminCatalog), for any requests, providers, groups, policies and       *)
(* import files, and the sticky bindings (StickyCache), for any keys,      *)
(* providers, times to live and numbers of operations, failing flushes     *)
(* and restarts.                                                           *)
(***************************************************************************)
EXTENDS ConfigCache, AdminCatalog, StickyCache, FiniteSetTheorems, TLAPS

-----------------------------------------------------------------------------
(* The cached configuration.                                               *)

\* The cache starts empty over the initial settings, so the invariant holds.
LEMMA ConfigStarts == ConfigInit => ConfigInv
<1>. SUFFICES ASSUME ConfigInit PROVE ConfigInv
  OBVIOUS
<1>1. ConfigTypeOK
  BY DEF ConfigInit, ConfigTypeOK, ReaderType, WriterType, Resting
<1>. QED
  BY <1>1 DEF ConfigInit, ConfigInv, ConfirmedIsStored, CachedIsConfirmed, WritersAreStored,
     MissesAreFresh, FillsAreFresh, ReadsAreFresh, Resting

\* What the type says of a reader in each of its states.
LEMMA ReaderFields ==
  ASSUME ConfigTypeOK, NEW r \in Readers
  PROVE  /\ reader[r].at = "missed" =>
              reader[r].key \in ConfigKeys /\ reader[r].generation \in Nat /\ reader[r].floor \in Nat
         /\ reader[r].at = "read" =>
              /\ reader[r].key \in ConfigKeys /\ reader[r].generation \in Nat
              /\ reader[r].value \in Nat /\ reader[r].floor \in Nat
         /\ reader[r].at = "answered" => reader[r].value \in Nat /\ reader[r].floor \in Nat
BY DEF ConfigTypeOK, ReaderType

\* What the type says of a writer in each of its states.
LEMMA WriterFields ==
  ASSUME ConfigTypeOK, NEW w \in Writers
  PROVE  /\ writer[w].at \in {"begun", "stored"} =>
              writer[w].keys \in SUBSET ConfigKeys /\ writer[w].serial \in BOOLEAN
         /\ writer[w].at = "stored" => writer[w].value \in Nat
BY DEF ConfigTypeOK, WriterType

\* The steps of one reader keep the invariant: they change at most the entry
\* of one key, and only by a value whose noted generation is still the cache's.
LEMMA ReadersKeep ==
  ASSUME ConfigInv, NEW r \in Readers, NEW k \in ConfigKeys,
         \/ ReadHit(r, k) \/ ReadMiss(r, k) \/ ReadStored(r) \/ ReadFails(r) \/ ReadKept(r)
  PROVE  ConfigInv'
<1>. USE DEF ConfigInv
<1>1. CASE ReadHit(r, k)
  <2>1. cached[k] \in Nat /\ confirmed[k] \in Nat /\ cached[k] >= confirmed[k]
    BY <1>1 DEF ReadHit, ConfigTypeOK, CachedIsConfirmed
  <2>2. ConfigTypeOK'
    BY <1>1, <2>1 DEF ReadHit, Answered, ConfigTypeOK, ReaderType
  <2>3. MissesAreFresh' /\ FillsAreFresh' /\ ReadsAreFresh'
    BY <1>1, <2>1 DEF ReadHit, Answered, MissesAreFresh, FillsAreFresh, ReadsAreFresh, ConfigTypeOK
  <2>. QED
    BY <1>1, <2>2, <2>3 DEF ReadHit, ConfirmedIsStored, CachedIsConfirmed, WritersAreStored
<1>2. CASE ReadMiss(r, k)
  <2>1. ConfigTypeOK'
    BY <1>2 DEF ReadMiss, ConfigTypeOK, ReaderType
  <2>2. MissesAreFresh' /\ FillsAreFresh' /\ ReadsAreFresh'
    BY <1>2 DEF ReadMiss, MissesAreFresh, FillsAreFresh, ReadsAreFresh, ConfigTypeOK
  <2>. QED
    BY <1>2, <2>1, <2>2 DEF ReadMiss, ConfirmedIsStored, CachedIsConfirmed, WritersAreStored
<1>3. CASE ReadStored(r)
  <2>1. /\ reader[r].key \in ConfigKeys /\ reader[r].generation \in Nat /\ reader[r].floor \in Nat
        /\ stored[reader[r].key] \in Nat /\ confirmed[reader[r].key] \in Nat
        /\ confirmed[reader[r].key] <= stored[reader[r].key]
        /\ reader[r].floor <= confirmed[reader[r].key] /\ reader[r].generation <= generation
    BY <1>3, ReaderFields DEF ReadStored, ConfigTypeOK, ConfirmedIsStored, MissesAreFresh
  <2>2. ConfigTypeOK'
    BY <1>3, <2>1 DEF ReadStored, ConfigTypeOK, ReaderType
  <2>3. MissesAreFresh' /\ FillsAreFresh' /\ ReadsAreFresh'
    BY <1>3, <2>1 DEF ReadStored, MissesAreFresh, FillsAreFresh, ReadsAreFresh, ConfigTypeOK
  <2>. QED
    BY <1>3, <2>2, <2>3 DEF ReadStored, ConfirmedIsStored, CachedIsConfirmed, WritersAreStored
<1>4. CASE ReadFails(r)
  <2>1. ConfigTypeOK'
    BY <1>4 DEF ReadFails, ConfigTypeOK, ReaderType, Resting
  <2>2. MissesAreFresh' /\ FillsAreFresh' /\ ReadsAreFresh'
    BY <1>4 DEF ReadFails, MissesAreFresh, FillsAreFresh, ReadsAreFresh, ConfigTypeOK, Resting
  <2>. QED
    BY <1>4, <2>1, <2>2 DEF ReadFails, ConfirmedIsStored, CachedIsConfirmed, WritersAreStored
<1>5. CASE ReadKept(r)
  <2>1. /\ reader[r].key \in ConfigKeys /\ reader[r].generation \in Nat
        /\ reader[r].value \in Nat /\ reader[r].floor \in Nat
        /\ reader[r].floor <= reader[r].value
        /\ reader[r].generation = generation => confirmed[reader[r].key] <= reader[r].value
    BY <1>5, ReaderFields DEF ReadKept, FillsAreFresh
  <2>2. ConfigTypeOK'
    BY <1>5, <2>1 DEF ReadKept, Answered, ConfigTypeOK, ReaderType
  <2>3. MissesAreFresh' /\ FillsAreFresh' /\ ReadsAreFresh'
    BY <1>5, <2>1 DEF ReadKept, Answered, MissesAreFresh, FillsAreFresh, ReadsAreFresh, ConfigTypeOK
  <2>4. CachedIsConfirmed'
    BY <1>5, <2>1 DEF ReadKept, MayKeep, CachedIsConfirmed, ConfigTypeOK
  <2>. QED
    BY <1>5, <2>2, <2>3, <2>4 DEF ReadKept, ConfirmedIsStored, WritersAreStored
<1>. QED
  BY <1>1, <1>2, <1>3, <1>4, <1>5

\* A write that begins or fails touches neither the settings nor the cache.
LEMMA WritersBegin ==
  ASSUME ConfigInv, NEW w \in Writers, NEW keys \in SUBSET ConfigKeys, NEW serial \in BOOLEAN,
         WriteBegins(w, keys, serial) \/ WriteFails(w)
  PROVE  ConfigInv'
<1>. USE DEF ConfigInv
<1>1. ConfigTypeOK' /\ WritersAreStored'
  BY DEF WriteBegins, WriteFails, ConfigTypeOK, WriterType, WritersAreStored, Resting
<1>. QED
  BY <1>1 DEF WriteBegins, WriteFails, ConfirmedIsStored, CachedIsConfirmed, MissesAreFresh,
     FillsAreFresh, ReadsAreFresh

\* A commit stores a value above every confirmed one.
LEMMA WritersStore ==
  ASSUME ConfigInv, NEW w \in Writers, WriteStored(w)
  PROVE  ConfigInv'
<1>. USE DEF ConfigInv
<1>1. writer[w].keys \in SUBSET ConfigKeys /\ writer[w].serial \in BOOLEAN
  BY WriterFields DEF WriteStored
<1>2. ConfigTypeOK'
  BY <1>1 DEF WriteStored, ConfigTypeOK, WriterType
<1>3. \A k \in ConfigKeys : stored[k] <= stored'[k] /\ stored'[k] <= commits'
  BY DEF WriteStored, ConfigTypeOK, ConfirmedIsStored
<1>4. ConfirmedIsStored'
  BY <1>3 DEF WriteStored, ConfirmedIsStored, ConfigTypeOK
<1>5. WritersAreStored'
  <2>. SUFFICES ASSUME NEW v \in Writers, writer'[v].at = "stored", NEW k \in writer'[v].keys
                PROVE  writer'[v].value <= stored'[k]
    BY DEF WritersAreStored
  <2>1. CASE v = w
    BY <1>1, <2>1 DEF WriteStored, ConfigTypeOK
  <2>2. CASE v # w
    <3>1. writer[v].at = "stored" /\ k \in writer[v].keys /\ writer'[v].value = writer[v].value
      BY <2>2 DEF WriteStored, ConfigTypeOK
    <3>2. k \in ConfigKeys /\ writer[v].value \in Nat /\ writer[v].value <= stored[k]
      BY <3>1, WriterFields DEF WritersAreStored
    <3>. QED
      BY <1>2, <1>3, <3>1, <3>2 DEF ConfigTypeOK
  <2>. QED
    BY <2>1, <2>2
<1>. QED
  BY <1>2, <1>4, <1>5 DEF WriteStored, CachedIsConfirmed, MissesAreFresh, FillsAreFresh, ReadsAreFresh

\* A write that returns confirms its value and drops the keys it wrote under a
\* new generation, so no value read before can be put back.
LEMMA WritersReturn ==
  ASSUME ConfigInv, NEW w \in Writers, NEW dropped, WriteReturns(w, dropped)
  PROVE  ConfigInv'
<1>. USE DEF ConfigInv
<1>1. writer[w].keys \in SUBSET ConfigKeys /\ writer[w].value \in Nat /\ writer[w].keys \subseteq dropped
  BY WriterFields DEF WriteReturns
<1>2. ConfigTypeOK'
  BY <1>1, ConfigAssumption DEF WriteReturns, InvalidateConfig, ConfigTypeOK, WriterType, Resting
<1>3. \A k \in ConfigKeys : confirmed[k] <= confirmed'[k]
  BY <1>1 DEF WriteReturns, ConfigTypeOK
<1>4. ConfirmedIsStored'
  BY <1>1 DEF WriteReturns, ConfigTypeOK, ConfirmedIsStored, WritersAreStored
<1>5. CachedIsConfirmed'
  BY <1>1 DEF WriteReturns, InvalidateConfig, ConfigTypeOK, CachedIsConfirmed
<1>6. WritersAreStored'
  BY DEF WriteReturns, ConfigTypeOK, WritersAreStored, Resting
<1>7. MissesAreFresh'
  <2>. SUFFICES ASSUME NEW r \in Readers, reader[r].at = "missed"
                PROVE  reader[r].floor <= confirmed'[reader[r].key] /\ reader[r].generation <= generation'
    BY DEF MissesAreFresh, WriteReturns
  <2>. QED
    BY <1>2, <1>3, ReaderFields DEF MissesAreFresh, WriteReturns, InvalidateConfig, ConfigTypeOK
<1>8. FillsAreFresh'
  <2>. SUFFICES ASSUME NEW r \in Readers, reader[r].at = "read"
                PROVE  /\ reader[r].floor <= reader[r].value /\ reader[r].generation <= generation'
                       /\ reader[r].generation # generation'
    BY DEF FillsAreFresh, WriteReturns
  <2>. QED
    BY ReaderFields DEF FillsAreFresh, WriteReturns, InvalidateConfig, ConfigTypeOK
<1>. QED
  BY <1>2, <1>4, <1>5, <1>6, <1>7, <1>8 DEF WriteReturns, ReadsAreFresh

\* Every step of readers and writers, and stuttering, keeps the invariant.
LEMMA ConfigSteps == ConfigInv /\ [ConfigNext]_configVars => ConfigInv'
<1>. SUFFICES ASSUME ConfigInv, [ConfigNext]_configVars PROVE ConfigInv'
  OBVIOUS
<1>1. CASE UNCHANGED configVars
  BY <1>1 DEF configVars, ConfigInv, ConfigTypeOK, ConfirmedIsStored, CachedIsConfirmed,
     WritersAreStored, MissesAreFresh, FillsAreFresh, ReadsAreFresh
<1>2. CASE \E r \in Readers, k \in ConfigKeys : ReadHit(r, k) \/ ReadMiss(r, k)
  BY <1>2, ReadersKeep
<1>3. CASE \E r \in Readers : ReadStored(r) \/ ReadFails(r) \/ ReadKept(r)
  <2>. PICK r \in Readers : ReadStored(r) \/ ReadFails(r) \/ ReadKept(r)
    BY <1>3
  <2>1. reader[r].key \in ConfigKeys
    BY ReaderFields DEF ReadStored, ReadFails, ReadKept, ConfigInv
  <2>. QED
    BY <2>1, ReadersKeep
<1>4. CASE \E w \in Writers, keys \in SUBSET ConfigKeys \ {{}}, serial \in BOOLEAN :
             WriteBegins(w, keys, serial)
  BY <1>4, WritersBegin
<1>5. CASE \E w \in Writers : WriteStored(w) \/ WriteFails(w)
  BY <1>5, WritersStore, WritersBegin
<1>6. CASE \E w \in Writers, dropped \in SUBSET ConfigKeys : WriteReturns(w, dropped)
  BY <1>6, WritersReturn
<1>. QED
  BY <1>1, <1>2, <1>3, <1>4, <1>5, <1>6 DEF ConfigNext

\* A configuration read that began after a write of its key returned never gives
\* an older value, whether the cache or the database answers it and whatever reads
\* and writes overlap (CachedStore.GetConfig, SetConfig, InvalidateConfig).
THEOREM SettingsAreFresh == ConfigSpec => []ReadsAreFresh
<1>1. ConfigInv => ReadsAreFresh
  BY DEF ConfigInv
<1>. QED
  BY <1>1, ConfigStarts, ConfigSteps, PTL DEF ConfigSpec

-----------------------------------------------------------------------------
(* The routing catalogue.                                                   *)

\* A policy that is stored is one of the rows.
LEMMA LivePolicyRows ==
  ASSUME NEW d
  PROVE  /\ \A i \in PolicyIds : d.policies[i] # NoOne => d.policies[i] \in LivePolicies(d)
         /\ \A policy \in LivePolicies(d) :
              \E i \in PolicyIds : policy = d.policies[i] /\ policy # NoOne
BY DEF LivePolicies

\* A policy that was built over a catalogue holds in it.
LEMMA BuiltHolds ==
  ASSUME NEW policy \in PolicyRows, NEW d,
         BuildRoutingPolicyFromCatalog(policy, d.providers, d.groups)
  PROVE  PolicyHolds(d, policy)
BY CatalogAssumption DEF BuildRoutingPolicyFromCatalog, BuildExactProviderRoutingPolicy,
   BuildFilterRoutingPolicy, PolicyHolds, PolicyRows

-----------------------------------------------------------------------------
(* The transactions keep the policies resolved.                             *)

\* A created provider changes no row that a policy names.
LEMMA CreateProviderKeeps ==
  ASSUME NEW d \in Catalogs, NEW id \in Providers, NEW row \in ProviderRows,
         NEW e \in CreateProviderInTransaction(d, id, row)
  PROVE  /\ e \in Catalogs
         /\ Resolves(d) => Resolves(e)
         /\ d.providers[id] = NoOne /\ e.health = d.health
         /\ \A p \in Providers : e.providers[p] = IF p = id THEN row ELSE d.providers[p]
<1>1. d.providers[id] = NoOne /\ e = [d EXCEPT !.providers = [@ EXCEPT ![id] = row]]
  BY DEF CreateProviderInTransaction
<1>2. /\ e \in Catalogs /\ e.policies = d.policies /\ e.groups = d.groups /\ e.health = d.health
      /\ \A p \in Providers : e.providers[p] = IF p = id THEN row ELSE d.providers[p]
  BY <1>1 DEF Catalogs
<1>3. ASSUME Resolves(d) PROVE Resolves(e)
  <2>1. LivePolicies(e) = LivePolicies(d)
    BY <1>2 DEF LivePolicies
  <2>2. ASSUME NEW policy \in LivePolicies(d) PROVE PolicyHolds(e, policy)
    <3>1. PolicyHolds(d, policy) /\ policy \in PolicyRows
      BY <1>3 DEF Resolves, LivePolicies, Catalogs
    <3>. QED BY <1>1, <1>2, <3>1, CatalogAssumption DEF PolicyHolds, PolicyRows
  <2>. QED BY <2>1, <2>2 DEF Resolves
<1>. QED BY <1>1, <1>2, <1>3

\* An updated provider still serves the API types of the policies on it.
LEMMA UpdateProviderKeeps ==
  ASSUME NEW d \in Catalogs, NEW id \in Providers, NEW row \in ProviderRows,
         NEW e \in UpdateProviderInTransaction(d, id, row)
  PROVE  /\ e \in Catalogs
         /\ Resolves(d) => Resolves(e)
         /\ e.health = d.health
         /\ \A p \in Providers : e.providers[p] = IF p = id THEN row ELSE d.providers[p]
<1>1. ValidateProviderAPITypeUpdate(d, id, row) /\ e = [d EXCEPT !.providers = [@ EXCEPT ![id] = row]]
  BY DEF UpdateProviderInTransaction
<1>2. /\ e \in Catalogs /\ e.policies = d.policies /\ e.groups = d.groups /\ e.health = d.health
      /\ \A p \in Providers : e.providers[p] = IF p = id THEN row ELSE d.providers[p]
  BY <1>1 DEF Catalogs
<1>3. ASSUME Resolves(d) PROVE Resolves(e)
  <2>1. LivePolicies(e) = LivePolicies(d)
    BY <1>2 DEF LivePolicies
  <2>2. ASSUME NEW policy \in LivePolicies(d) PROVE PolicyHolds(e, policy)
    <3>1. PolicyHolds(d, policy) /\ policy \in PolicyRows
      BY <1>3 DEF Resolves, LivePolicies, Catalogs
    <3>2. policy.target = id => policy.key \in row.types
      BY <1>1 DEF ValidateProviderAPITypeUpdate
    <3>. QED BY <1>2, <3>1, <3>2, CatalogAssumption DEF PolicyHolds, PolicyRows
  <2>. QED BY <2>1, <2>2 DEF Resolves
<1>. QED BY <1>1, <1>2, <1>3

\* A provider that a policy names is not deleted.
LEMMA DeleteProviderKeeps ==
  ASSUME NEW d \in Catalogs, NEW id \in Providers, NEW e \in DeleteProviderInTransaction(d, id)
  PROVE  /\ e \in Catalogs
         /\ Resolves(d) => Resolves(e)
         /\ \A p \in Providers : e.providers[p] = IF p = id THEN NoOne ELSE d.providers[p]
         /\ \A p \in Providers : e.health[p] = IF p = id THEN "none" ELSE d.health[p]
<1>1. /\ ~Targeted(d, id)
      /\ e = [d EXCEPT !.providers = [@ EXCEPT ![id] = NoOne], !.health = [@ EXCEPT ![id] = "none"]]
  BY DEF DeleteProviderInTransaction
<1>2. /\ e \in Catalogs /\ e.policies = d.policies /\ e.groups = d.groups
      /\ \A p \in Providers : e.providers[p] = IF p = id THEN NoOne ELSE d.providers[p]
      /\ \A p \in Providers : e.health[p] = IF p = id THEN "none" ELSE d.health[p]
  BY <1>1 DEF Catalogs
<1>3. ASSUME Resolves(d) PROVE Resolves(e)
  <2>1. LivePolicies(e) = LivePolicies(d)
    BY <1>2 DEF LivePolicies
  <2>2. ASSUME NEW policy \in LivePolicies(d) PROVE PolicyHolds(e, policy)
    <3>1. PolicyHolds(d, policy) /\ policy \in PolicyRows
      BY <1>3 DEF Resolves, LivePolicies, Catalogs
    <3>2. policy.target # id
      BY <1>1 DEF Targeted
    <3>. QED BY <1>2, <3>1, <3>2, CatalogAssumption DEF PolicyHolds, PolicyRows
  <2>. QED BY <2>1, <2>2 DEF Resolves
<1>. QED BY <1>2, <1>3

\* Groups that are added take nothing away.
LEMMA AddGroupsKeeps ==
  ASSUME NEW d \in Catalogs, NEW gs \in SUBSET Groups, NEW e, e = [d EXCEPT !.groups = @ \cup gs]
  PROVE  /\ e \in Catalogs
         /\ Resolves(d) => Resolves(e)
         /\ e.providers = d.providers /\ e.health = d.health
<1>1. /\ e \in Catalogs /\ e.policies = d.policies /\ e.groups = d.groups \cup gs
      /\ e.providers = d.providers /\ e.health = d.health
  BY DEF Catalogs
<1>. QED BY <1>1 DEF Resolves, LivePolicies, PolicyHolds

\* A group that a policy names is not deleted, and the providers that leave it
\* keep their types and their flags.
LEMMA DeleteGroupKeeps ==
  ASSUME NEW d \in Catalogs, NEW g \in Groups, NEW e \in DeleteGroupInTransaction(d, g)
  PROVE  /\ e \in Catalogs
         /\ Resolves(d) => Resolves(e)
         /\ e.health = d.health
         /\ \A p \in Providers :
              /\ e.providers[p] # NoOne <=> d.providers[p] # NoOne
              /\ d.providers[p] # NoOne => e.providers[p].enabled = d.providers[p].enabled
<1>. DEFINE rows == [p \in Providers |-> UnlinkedFrom(g, d.providers[p])]
<1>1. /\ \A policy \in LivePolicies(d) : g \notin policy.groups
      /\ e = [d EXCEPT !.groups = @ \ {g}, !.providers = rows]
  BY DEF DeleteGroupInTransaction
<1>2. ASSUME NEW p \in Providers
      PROVE  /\ rows[p] \in ProviderRows \cup {NoOne}
             /\ rows[p] # NoOne <=> d.providers[p] # NoOne
             /\ d.providers[p] # NoOne =>
                  rows[p].enabled = d.providers[p].enabled /\ rows[p].types = d.providers[p].types
  <2>1. d.providers[p] \in ProviderRows \cup {NoOne}
    BY DEF Catalogs
  <2>2. CASE d.providers[p] = NoOne
    BY <2>2 DEF UnlinkedFrom
  <2>3. CASE d.providers[p] # NoOne
    <3>1. /\ UnlinkedFrom(g, d.providers[p]) \in ProviderRows
          /\ UnlinkedFrom(g, d.providers[p]).enabled = d.providers[p].enabled
          /\ UnlinkedFrom(g, d.providers[p]).types = d.providers[p].types
      BY <2>1, <2>3 DEF UnlinkedFrom, ProviderRows
    <3>. QED BY <2>3, <3>1, CatalogAssumption
  <2>. QED BY <2>2, <2>3
<1>3. rows \in [Providers -> ProviderRows \cup {NoOne}]
  BY <1>2
<1>. HIDE DEF rows
<1>4. /\ e \in Catalogs /\ e.policies = d.policies /\ e.groups = d.groups \ {g}
      /\ e.providers = rows /\ e.health = d.health
  BY <1>1, <1>3 DEF Catalogs
<1>5. ASSUME Resolves(d) PROVE Resolves(e)
  <2>1. LivePolicies(e) = LivePolicies(d)
    BY <1>4 DEF LivePolicies
  <2>2. ASSUME NEW policy \in LivePolicies(d) PROVE PolicyHolds(e, policy)
    <3>1. PolicyHolds(d, policy) /\ policy \in PolicyRows
      BY <1>5 DEF Resolves, LivePolicies, Catalogs
    <3>2. policy.groups \subseteq e.groups
      BY <1>1, <1>4, <3>1 DEF PolicyHolds
    <3>3. policy.target # NoOne => policy.target \in Providers
      BY <3>1 DEF PolicyRows
    <3>. QED BY <1>2, <1>4, <3>1, <3>2, <3>3 DEF PolicyHolds
  <2>. QED BY <2>1, <2>2 DEF Resolves
<1>. QED BY <1>2, <1>4, <1>5

\* A policy that holds is stored; the others stay.
LEMMA StorePolicyKeeps ==
  ASSUME NEW d \in Catalogs, NEW id \in PolicyIds, NEW policy \in PolicyRows \cup {NoOne},
         NEW e, e = [d EXCEPT !.policies[id] = policy]
  PROVE  /\ e \in Catalogs
         /\ Resolves(d) /\ (policy = NoOne \/ PolicyHolds(d, policy)) => Resolves(e)
         /\ e.providers = d.providers /\ e.health = d.health
<1>1. /\ e \in Catalogs /\ e.groups = d.groups /\ e.providers = d.providers /\ e.health = d.health
      /\ \A i \in PolicyIds : e.policies[i] = IF i = id THEN policy ELSE d.policies[i]
  BY DEF Catalogs
<1>2. ASSUME Resolves(d), policy = NoOne \/ PolicyHolds(d, policy) PROVE Resolves(e)
  <2>1. ASSUME NEW q \in LivePolicies(e) PROVE PolicyHolds(d, q)
    <3>1. PICK i \in PolicyIds : q = e.policies[i] /\ q # NoOne
      BY LivePolicyRows
    <3>. QED BY <1>1, <1>2, <3>1, LivePolicyRows DEF Resolves
  <2>. QED BY <1>1, <2>1 DEF Resolves, PolicyHolds
<1>. QED BY <1>1, <1>2

\* An import leaves the policies it staged, over the rows it staged.
LEMMA ImportKeeps ==
  ASSUME CatalogTypeOK, NEW o, o.groups \in SUBSET Groups, o.rows \in ImportedRows,
         o.policies \in SUBSET PolicyRows, o.replace \in BOOLEAN,
         NEW e \in ApplyConfigImport(db, o)
  PROVE  /\ e \in Catalogs
         /\ Resolves(db) /\ StageImportedRoutingPolicies(o) => Resolves(e)
         /\ e.health = db.health
         /\ DOMAIN o.rows = {} => e.providers = db.providers
<1>. DEFINE rows == [p \in Providers |-> IF p \in DOMAIN o.rows THEN o.rows[p] ELSE db.providers[p]]
            afters == IF o.replace THEN ReplacedPolicies(db, o.policies) ELSE {db.policies}
<1>1. PICK mid \in {[db EXCEPT !.groups = @ \cup o.groups, !.policies = after] : after \in afters} :
        e = [mid EXCEPT !.providers =
               [p \in Providers |-> IF p \in DOMAIN o.rows THEN o.rows[p] ELSE mid.providers[p]]]
  BY DEF ApplyConfigImport
<1>11. PICK after \in afters : mid = [db EXCEPT !.groups = @ \cup o.groups, !.policies = after]
  OBVIOUS
<1>2. db \in Catalogs
  BY DEF CatalogTypeOK
<1>3. after \in [PolicyIds -> PolicyRows \cup {NoOne}]
  BY <1>11, <1>2 DEF ReplacedPolicies, Catalogs
<1>4. PICK S \in SUBSET Providers : o.rows \in [S -> ProviderRows]
  BY DEF ImportedRows
<1>5. rows \in [Providers -> ProviderRows \cup {NoOne}]
  BY <1>2, <1>4 DEF Catalogs
<1>6. e = [db EXCEPT !.groups = @ \cup o.groups, !.policies = after, !.providers = rows]
  <2>1. mid.providers = db.providers
    BY <1>2, <1>11 DEF Catalogs
  <2>2. e = [mid EXCEPT !.providers = rows]
    BY <1>1, <2>1
  <2>. HIDE DEF rows
  <2>. QED BY <1>2, <1>11, <2>2 DEF Catalogs
<1>7. rows = FinalProviders(o)
  BY DEF FinalProviders
<1>8. DOMAIN o.rows = {} => rows = db.providers
  BY <1>2 DEF Catalogs
<1>. HIDE DEF rows
<1>9. /\ e \in Catalogs /\ e.groups = FinalGroups(o) /\ e.policies = after /\ e.providers = rows
      /\ e.health = db.health
  BY <1>2, <1>3, <1>5, <1>6 DEF Catalogs, FinalGroups
<1>10. ASSUME Resolves(db), StageImportedRoutingPolicies(o) PROVE Resolves(e)
  <2>1. ASSUME NEW policy \in LivePolicies(e) PROVE PolicyHolds(e, policy)
    <3>1. PICK i \in PolicyIds : policy = after[i] /\ policy # NoOne
      BY <1>9, LivePolicyRows
    <3>2. policy \in PolicyRows
      BY <1>3, <3>1
    <3>3. CASE o.replace
      <4>1. policy \in o.policies
        BY <1>11, <3>1, <3>3 DEF ReplacedPolicies
      <4>2. BuildRoutingPolicyFromCatalog(policy, e.providers, e.groups)
        BY <1>7, <1>9, <1>10, <3>3, <4>1 DEF StageImportedRoutingPolicies
      <4>. QED BY <3>2, <4>2, BuiltHolds
    <3>4. CASE ~o.replace
      <4>1. policy \in LivePolicies(db)
        BY <1>11, <3>1, <3>4, LivePolicyRows
      <4>2. policy.groups \subseteq e.groups
        BY <1>9, <1>10, <4>1 DEF Resolves, PolicyHolds, FinalGroups
      <4>3. policy.target # NoOne => BuildExactProviderRoutingPolicy(policy, e.providers)
        BY <1>7, <1>9, <1>10, <3>4, <4>1
           DEF StageImportedRoutingPolicies, ValidateStagedExactProviderPolicies
      <4>. QED BY <4>2, <4>3 DEF PolicyHolds, BuildExactProviderRoutingPolicy
    <3>. QED BY <3>3, <3>4
  <2>. QED BY <2>1 DEF Resolves
<1>. QED BY <1>8, <1>9, <1>10

-----------------------------------------------------------------------------
(* What a handler carries, by its kind.                                     *)

\* The fields of a handler.
LEMMA HandlerFields ==
  ASSUME NEW o \in Handlers
  PROVE  /\ o.kind = "createProvider" => o.id \in Providers /\ o.row \in ProviderRows
         /\ o.kind = "updateProvider" =>
              o.id \in Providers /\ o.row \in ProviderRows /\ o.sync \in BOOLEAN
         /\ o.kind = "deleteProvider" => o.id \in Providers
         /\ o.kind = "sync" => o.id \in Providers /\ o.enabled \in BOOLEAN
         /\ o.kind \in {"createGroup", "updateGroup", "deleteGroup"} => o.id \in Groups
         /\ o.kind = "createPolicy" => o.policy \in PolicyRows
         /\ o.kind = "updatePolicy" => o.id \in PolicyIds /\ o.policy \in PolicyRows
         /\ o.kind = "deletePolicy" => o.id \in PolicyIds
         /\ o.kind = "import" =>
              /\ o.groups \in SUBSET Groups /\ o.rows \in ImportedRows
              /\ o.policies \in SUBSET PolicyRows /\ o.replace \in BOOLEAN
         /\ o.kind = "idle" => o = Idle
BY DEF Handlers, Idle

\* What a transaction does to the policies, the flags and the health rows.
LEMMA CommitEffect ==
  ASSUME CatalogTypeOK, NEW o \in Handlers, NEW e \in Committed(o)
  PROVE  /\ e \in Catalogs
         /\ Resolves(db) /\ ChecksHold(o) => Resolves(e)
         /\ ~WritesFlagOnly(o) /\ ChecksHold(o) =>
              \A p \in Providers : e.health[p] = "manual" =>
                /\ db.health[p] = "manual"
                /\ db.providers[p] # NoOne => e.providers[p] # NoOne
                /\ db.providers[p] # NoOne /\ e.providers[p].enabled /\ ~db.providers[p].enabled =>
                     o.kind = "updateProvider" /\ o.sync /\ o.id = p /\ o.row.enabled
         /\ o.kind = "updateProvider" => e.providers[o.id] = o.row
         /\ o.kind \notin {"idle", "sync"}
<1>. USE HandlerFields
<1>0. db \in Catalogs
  BY DEF CatalogTypeOK
<1>1. CASE o.kind = "createProvider"
  <2>1. o.id \in Providers /\ o.row \in ProviderRows /\ e \in CreateProviderInTransaction(db, o.id, o.row)
    BY <1>1 DEF Committed
  <2>2. /\ e \in Catalogs
        /\ Resolves(db) => Resolves(e)
        /\ db.providers[o.id] = NoOne /\ e.health = db.health
        /\ \A p \in Providers : e.providers[p] = IF p = o.id THEN o.row ELSE db.providers[p]
    BY <1>0, <2>1, CreateProviderKeeps
  <2>. QED BY <1>1, <2>2
<1>2. CASE o.kind = "updateProvider"
  <2>1. /\ o.id \in Providers /\ o.row \in ProviderRows /\ o.sync \in BOOLEAN
        /\ e \in UpdateProviderInTransaction(db, o.id, o.row)
    BY <1>2 DEF Committed
  <2>2. /\ e \in Catalogs
        /\ Resolves(db) => Resolves(e)
        /\ e.health = db.health
        /\ \A p \in Providers : e.providers[p] = IF p = o.id THEN o.row ELSE db.providers[p]
    BY <1>0, <2>1, UpdateProviderKeeps
  <2>3. ChecksHold(o) => o.sync \/ o.row.enabled = db.providers[o.id].enabled
    BY <1>2 DEF ChecksHold
  <2>4. o.row # NoOne
    BY <2>1, CatalogAssumption
  <2>. QED BY <1>2, <2>1, <2>2, <2>3, <2>4
<1>3. CASE o.kind = "deleteProvider"
  <2>1. o.id \in Providers /\ e \in DeleteProviderInTransaction(db, o.id)
    BY <1>3 DEF Committed
  <2>2. /\ e \in Catalogs
        /\ Resolves(db) => Resolves(e)
        /\ \A p \in Providers : e.providers[p] = IF p = o.id THEN NoOne ELSE db.providers[p]
        /\ \A p \in Providers : e.health[p] = IF p = o.id THEN "none" ELSE db.health[p]
    BY <1>0, <2>1, DeleteProviderKeeps
  <2>. QED BY <1>3, <2>2
<1>4. CASE o.kind \in {"createGroup", "updateGroup"}
  <2>0. e = [db EXCEPT !.groups = @ \cup {o.id}]
    BY <1>4 DEF Committed, CreateGroupInTransaction, UpdateGroupInTransaction
  <2>1. PICK gs \in SUBSET Groups : e = [db EXCEPT !.groups = @ \cup gs]
    BY <1>4, <2>0
  <2>2. e \in Catalogs /\ (Resolves(db) => Resolves(e))
          /\ e.providers = db.providers /\ e.health = db.health
    BY <1>0, <2>1, AddGroupsKeeps
  <2>. QED BY <1>4, <2>2
<1>5. CASE o.kind = "deleteGroup"
  <2>1. o.id \in Groups /\ e \in DeleteGroupInTransaction(db, o.id)
    BY <1>5 DEF Committed
  <2>2. /\ e \in Catalogs
        /\ Resolves(db) => Resolves(e)
        /\ e.health = db.health
        /\ \A p \in Providers :
             /\ e.providers[p] # NoOne <=> db.providers[p] # NoOne
             /\ db.providers[p] # NoOne => e.providers[p].enabled = db.providers[p].enabled
    BY <1>0, <2>1, DeleteGroupKeeps
  <2>. QED BY <1>5, <2>2
<1>6. CASE o.kind \in {"createPolicy", "updatePolicy"}
  <2>1. PICK id \in PolicyIds : e = [db EXCEPT !.policies[id] = o.policy]
    BY <1>6 DEF Committed, CreatePolicyInTransaction, UpdatePolicyInTransaction
  <2>2. o.policy \in PolicyRows
    BY <1>6
  <2>3. /\ e \in Catalogs
        /\ Resolves(db) /\ (o.policy = NoOne \/ PolicyHolds(db, o.policy)) => Resolves(e)
        /\ e.providers = db.providers /\ e.health = db.health
    BY <1>0, <2>1, <2>2, StorePolicyKeeps
  <2>4. ChecksHold(o) => PolicyHolds(db, o.policy)
    BY <1>6, <2>2, BuiltHolds DEF ChecksHold
  <2>. QED BY <1>6, <2>3, <2>4
<1>7. CASE o.kind = "deletePolicy"
  <2>1. o.id \in PolicyIds /\ e = [db EXCEPT !.policies[o.id] = NoOne]
    BY <1>7 DEF Committed, DeletePolicyInTransaction
  <2>2. /\ e \in Catalogs
        /\ Resolves(db) /\ (NoOne = NoOne \/ PolicyHolds(db, NoOne)) => Resolves(e)
        /\ e.providers = db.providers /\ e.health = db.health
    BY <1>0, <2>1, StorePolicyKeeps
  <2>. QED BY <1>7, <2>2
<1>8. CASE o.kind = "import"
  <2>1. /\ o.groups \in SUBSET Groups /\ o.rows \in ImportedRows
        /\ o.policies \in SUBSET PolicyRows /\ o.replace \in BOOLEAN
        /\ e \in ApplyConfigImport(db, o)
    BY <1>8 DEF Committed
  <2>2. /\ e \in Catalogs
        /\ Resolves(db) /\ StageImportedRoutingPolicies(o) => Resolves(e)
        /\ e.health = db.health
        /\ DOMAIN o.rows = {} => e.providers = db.providers
    BY <2>1, ImportKeeps
  <2>3. /\ ChecksHold(o) => StageImportedRoutingPolicies(o)
        /\ ~WritesFlagOnly(o) => DOMAIN o.rows = {}
    BY <1>8 DEF ChecksHold, WritesFlagOnly
  <2>. QED BY <1>8, <2>2, <2>3
<1>9. o.kind \in {"createProvider", "updateProvider", "deleteProvider", "createGroup", "updateGroup",
                  "deleteGroup", "createPolicy", "updatePolicy", "deletePolicy", "import"}
  BY DEF Committed
<1>. QED BY <1>1, <1>2, <1>3, <1>4, <1>5, <1>6, <1>7, <1>8, <1>9

-----------------------------------------------------------------------------
(* A handler begins.                                                        *)

\* A handler that is idle has nothing to check.
LEMMA IdleChecks == ChecksHold(Idle)
BY DEF ChecksHold, Idle

\* A handler that begins on the catalogue it validated keeps the invariant: when
\* another is underway the overlap is recorded.
LEMMA BeginKeeps ==
  ASSUME CatalogInv, NEW a \in Admins, NEW o \in Handlers, ChecksHold(o), Begin(a, o)
  PROVE  CatalogInv'
<1>. USE DEF CatalogInv
<1>1. /\ op[a] = Idle /\ op' = [op EXCEPT ![a] = o] /\ db' = db /\ begun' = begun + 1
      /\ excuse' = excuse \/ excuse' = excuse \cup {"overlap"}
      /\ "overlap" \notin excuse' => "overlap" \notin excuse /\ \A b \in Admins : op[b] = Idle
  BY DEF Begin
<1>2. CatalogTypeOK'
  <2>1. (db \in Catalogs)'
    BY <1>1 DEF CatalogTypeOK, Catalogs
  <2>2. op' \in [Admins -> Handlers]
    BY <1>1 DEF CatalogTypeOK
  <2>3. begun' \in Nat
    BY <1>1 DEF CatalogTypeOK
  <2>4. excuse' \subseteq {"overlap", "unsynced"}
    BY <1>1 DEF CatalogTypeOK
  <2>. QED BY <2>1, <2>2, <2>3, <2>4 DEF CatalogTypeOK, Handlers
<1>3. SerialPoliciesResolve'
  <2>1. ASSUME "overlap" \notin excuse' PROVE Resolves(db)
    BY <1>1, <2>1 DEF SerialPoliciesResolve, PoliciesResolve
  <2>. QED BY <1>1, <2>1 DEF SerialPoliciesResolve, PoliciesResolve, Resolves, LivePolicies, PolicyHolds
<1>4. \A b \in Admins : op'[b] = IF b = a THEN o ELSE op[b]
  BY <1>1 DEF CatalogTypeOK
<1>5. HandlersSerial'
  <2>1. ASSUME "overlap" \notin excuse', NEW b \in Admins PROVE ChecksHold(op[b])'
    <3>1. PICK h : h = op'[b]
      OBVIOUS
    <3>2. ChecksHold(h)
      BY <1>1, <1>4, <2>1, <3>1, IdleChecks
    <3>. QED BY <1>1, <3>1, <3>2
         DEF ChecksHold, BuildRoutingPolicyFromCatalog, BuildExactProviderRoutingPolicy,
             BuildFilterRoutingPolicy, StageImportedRoutingPolicies, FinalProviders, FinalGroups,
             ValidateStagedExactProviderPolicies, LivePolicies
  <2>2. ASSUME "overlap" \notin excuse', NEW b \in Admins, NEW c \in Admins,
               op'[b] # Idle, op'[c] # Idle
        PROVE  b = c
    BY <1>1, <1>4, <2>2
  <2>. QED BY <2>1, <2>2 DEF HandlersSerial
<1>6. HealthFollows'
  <2>1. ASSUME excuse' = {}, NEW p \in Providers, db.health[p] = "manual"
        PROVE  db.providers[p] # NoOne /\ ~db.providers[p].enabled
    BY <1>1, <2>1 DEF HealthFollows, Idle
  <2>. QED BY <1>1, <2>1 DEF HealthFollows
<1>. QED BY <1>2, <1>3, <1>5, <1>6

\* Creating a provider.
LEMMA CreateProviderStep ==
  ASSUME CatalogInv, NEW a \in Admins, CreateProvider(a)
  PROVE  CatalogInv'
<1>1. PICK p \in Providers, row \in RequestRows :
        Begin(a, [kind |-> "createProvider", id |-> p, row |-> row])
  BY DEF CreateProvider
<1>2. PICK o : o = [kind |-> "createProvider", id |-> p, row |-> row]
  OBVIOUS
<1>3. o \in Handlers /\ ChecksHold(o)
  BY <1>2, CatalogAssumption DEF Handlers, ChecksHold
<1>. QED BY <1>1, <1>2, <1>3, BeginKeeps

\* A row with some fields of a request is a row.
LEMMA ApplyToTypes ==
  ASSUME NEW row \in ProviderRows, NEW asked \in ProviderRows, NEW fields
  PROVE  ApplyTo(row, asked, fields) \in ProviderRows
BY DEF ApplyTo, ProviderRows

\* Updating a provider: without a health write the flag is the one that is stored.
LEMMA UpdateProviderStep ==
  ASSUME CatalogInv, NEW a \in Admins, UpdateProvider(a)
  PROVE  CatalogInv'
<1>1. PICK p \in Providers, asked \in RequestRows, fields \in SUBSET {"enabled", "group", "types"} :
        /\ db.providers[p] # NoOne
        /\ LET row == ApplyTo(db.providers[p], asked, fields)
           IN Begin(a, [kind |-> "updateProvider", id |-> p, row |-> row,
                        sync |-> SyncAfterUpdate(db.providers[p], row)])
  BY DEF UpdateProvider
<1>2. db.providers[p] \in ProviderRows /\ asked \in ProviderRows
  BY <1>1, CatalogAssumption DEF CatalogInv, CatalogTypeOK, Catalogs
<1>3. PICK row \in ProviderRows : row = ApplyTo(db.providers[p], asked, fields)
  BY <1>2, ApplyToTypes
<1>4. PICK sync \in BOOLEAN : sync = SyncAfterUpdate(db.providers[p], row)
  BY DEF SyncAfterUpdate
<1>5. PICK o : o = [kind |-> "updateProvider", id |-> p, row |-> row, sync |-> sync]
  OBVIOUS
<1>6. o \in Handlers
  BY <1>5 DEF Handlers
<1>7. ChecksHold(o)
  BY <1>1, <1>4, <1>5 DEF ChecksHold, SyncAfterUpdate
<1>8. Begin(a, o)
  BY <1>1, <1>3, <1>4, <1>5
<1>. QED BY <1>6, <1>7, <1>8, BeginKeeps

\* Enabling or disabling a provider.
LEMMA SetProviderEnabledStep ==
  ASSUME CatalogInv, NEW a \in Admins, SetProviderEnabled(a)
  PROVE  CatalogInv'
<1>1. PICK p \in Providers, enabled \in BOOLEAN :
        /\ db.providers[p] # NoOne
        /\ Begin(a, [kind |-> "updateProvider", id |-> p, sync |-> TRUE,
                     row |-> [db.providers[p] EXCEPT !.enabled = enabled]])
  BY DEF SetProviderEnabled
<1>2. db.providers[p] \in ProviderRows
  BY <1>1 DEF CatalogInv, CatalogTypeOK, Catalogs
<1>3. PICK row \in ProviderRows : row = [db.providers[p] EXCEPT !.enabled = enabled]
  BY <1>2 DEF ProviderRows
<1>4. PICK o : o = [kind |-> "updateProvider", id |-> p, sync |-> TRUE, row |-> row]
  OBVIOUS
<1>5. o \in Handlers /\ ChecksHold(o)
  BY <1>1, <1>4 DEF Handlers, ChecksHold
<1>. QED BY <1>1, <1>3, <1>4, <1>5, BeginKeeps

\* Resetting a provider.
LEMMA ResetProviderStep ==
  ASSUME CatalogInv, NEW a \in Admins, ResetProvider(a)
  PROVE  CatalogInv'
<1>1. PICK p \in Providers :
        db.providers[p] # NoOne /\ Begin(a, [kind |-> "sync", id |-> p, enabled |-> TRUE])
  BY DEF ResetProvider
<1>2. PICK o : o = [kind |-> "sync", id |-> p, enabled |-> TRUE]
  OBVIOUS
<1>3. o \in Handlers /\ ChecksHold(o)
  BY <1>1, <1>2 DEF Handlers, ChecksHold
<1>. QED BY <1>1, <1>2, <1>3, BeginKeeps

\* Deleting a provider, creating, updating and deleting a group, and deleting a
\* policy carry an identity and have nothing else to check.
LEMMA IdentityStep ==
  ASSUME CatalogInv, NEW a \in Admins,
         DeleteProvider(a) \/ CreateGroup(a) \/ UpdateOrToggleGroup(a) \/ DeleteGroup(a)
           \/ DeleteRoutingPolicy(a)
  PROVE  CatalogInv'
<1>1. db.groups \subseteq Groups
  BY DEF CatalogInv, CatalogTypeOK, Catalogs
<1>2. CASE DeleteProvider(a)
  <2>1. PICK p \in Providers : Begin(a, [kind |-> "deleteProvider", id |-> p])
    BY <1>2 DEF DeleteProvider
  <2>2. PICK o : o = [kind |-> "deleteProvider", id |-> p]
    OBVIOUS
  <2>3. o \in Handlers /\ ChecksHold(o)
    BY <2>2 DEF Handlers, ChecksHold
  <2>. QED BY <2>1, <2>2, <2>3, BeginKeeps
<1>3. CASE CreateGroup(a) \/ UpdateOrToggleGroup(a) \/ DeleteGroup(a)
  <2>1. PICK g \in Groups, kind \in {"createGroup", "updateGroup", "deleteGroup"} :
          Begin(a, [kind |-> kind, id |-> g])
    <3>1. CASE CreateGroup(a)
      BY <3>1 DEF CreateGroup
    <3>2. CASE UpdateOrToggleGroup(a)
      BY <1>1, <3>2 DEF UpdateOrToggleGroup
    <3>3. CASE DeleteGroup(a)
      BY <1>1, <3>3 DEF DeleteGroup
    <3>. QED BY <1>3, <3>1, <3>2, <3>3
  <2>2. PICK o : o = [kind |-> kind, id |-> g]
    OBVIOUS
  <2>3. o \in Handlers /\ ChecksHold(o)
    BY <2>2 DEF Handlers, ChecksHold
  <2>. QED BY <2>1, <2>2, <2>3, BeginKeeps
<1>4. CASE DeleteRoutingPolicy(a)
  <2>1. PICK id \in PolicyIds : Begin(a, [kind |-> "deletePolicy", id |-> id])
    BY <1>4 DEF DeleteRoutingPolicy
  <2>2. PICK o : o = [kind |-> "deletePolicy", id |-> id]
    OBVIOUS
  <2>3. o \in Handlers /\ ChecksHold(o)
    BY <2>2 DEF Handlers, ChecksHold
  <2>. QED BY <2>1, <2>2, <2>3, BeginKeeps
<1>. QED BY <1>2, <1>3, <1>4

\* A policy is created or updated over the catalogue it was built from.
LEMMA PolicyStep ==
  ASSUME CatalogInv, NEW a \in Admins, CreateRoutingPolicy(a) \/ UpdateRoutingPolicy(a)
  PROVE  CatalogInv'
<1>1. CASE CreateRoutingPolicy(a)
  <2>1. PICK policy \in PolicyRows :
          /\ BuildRoutingPolicyFromCatalog(policy, db.providers, db.groups)
          /\ Begin(a, [kind |-> "createPolicy", policy |-> policy])
    BY <1>1 DEF CreateRoutingPolicy
  <2>2. PICK o : o = [kind |-> "createPolicy", policy |-> policy]
    OBVIOUS
  <2>3. o \in Handlers /\ ChecksHold(o)
    BY <2>1, <2>2 DEF Handlers, ChecksHold
  <2>. QED BY <2>1, <2>2, <2>3, BeginKeeps
<1>2. CASE UpdateRoutingPolicy(a)
  <2>1. PICK id \in PolicyIds, policy \in PolicyRows :
          /\ BuildRoutingPolicyFromCatalog(policy, db.providers, db.groups)
          /\ Begin(a, [kind |-> "updatePolicy", id |-> id, policy |-> policy])
    BY <1>2 DEF UpdateRoutingPolicy
  <2>2. PICK o : o = [kind |-> "updatePolicy", id |-> id, policy |-> policy]
    OBVIOUS
  <2>3. o \in Handlers /\ ChecksHold(o)
    BY <2>1, <2>2 DEF Handlers, ChecksHold
  <2>. QED BY <2>1, <2>2, <2>3, BeginKeeps
<1>. QED BY <1>1, <1>2

\* What an import resolves to, from a file.
LEMMA ResolvedTypes ==
  ASSUME NEW file \in Files, NEW r \in ResolvedImports(file)
  PROVE  /\ r.groups \subseteq Groups /\ r.policies \subseteq PolicyRows /\ r.replace \in BOOLEAN
         /\ DOMAIN r.rows \subseteq Providers
         /\ \A p \in DOMAIN r.rows : r.rows[p] \in ProviderRows
<1>1. PICK S \in SUBSET Providers : file.rows \in [S -> ProviderRows]
  BY CatalogAssumption
<1>2. file.groups \subseteq Groups /\ file.policies \subseteq PolicyRows
  BY CatalogAssumption
<1>3. CASE r = ResolveFull(file)
  BY <1>1, <1>2, <1>3 DEF ResolveFull
<1>4. CASE r # ResolveFull(file)
  <2>1. PICK rows, groups : r = ResolveSelected(file, rows, groups)
    BY <1>4 DEF ResolvedImports
  <2>. QED BY <1>1, <1>2, <2>1 DEF ResolveSelected
<1>. QED BY <1>3, <1>4

\* The import that is staged, with only the rows that differ and the groups that
\* are new or changed, leads to the catalogue its policies were checked over.
LEMMA ImportStep ==
  ASSUME CatalogInv, NEW a \in Admins, ImportConfig(a)
  PROVE  CatalogInv'
<1>1. PICK file \in Files : \E r \in ResolvedImports(file), changed \in SUBSET db.groups :
        /\ StageImportedRoutingPolicies(r)
        /\ Begin(a, [kind |-> "import",
                     groups |-> (r.groups \ db.groups) \cup (r.groups \cap changed),
                     rows |-> [p \in StagedRows(r) |-> r.rows[p]],
                     policies |-> r.policies, replace |-> r.replace])
  BY DEF ImportConfig
<1>2. PICK r \in ResolvedImports(file), changed \in SUBSET db.groups :
        /\ StageImportedRoutingPolicies(r)
        /\ Begin(a, [kind |-> "import",
                     groups |-> (r.groups \ db.groups) \cup (r.groups \cap changed),
                     rows |-> [p \in StagedRows(r) |-> r.rows[p]],
                     policies |-> r.policies, replace |-> r.replace])
  BY <1>1
<1>3. /\ r.groups \subseteq Groups /\ r.policies \subseteq PolicyRows /\ r.replace \in BOOLEAN
      /\ DOMAIN r.rows \subseteq Providers
      /\ \A p \in DOMAIN r.rows : r.rows[p] \in ProviderRows
  BY ResolvedTypes
<1>4. PICK gs : gs = (r.groups \ db.groups) \cup (r.groups \cap changed)
  OBVIOUS
<1>5. PICK S : S = StagedRows(r)
  OBVIOUS
<1>6. PICK rows : rows = [p \in S |-> r.rows[p]]
  OBVIOUS
<1>7. PICK o : o = [kind |-> "import", groups |-> gs, rows |-> rows,
                    policies |-> r.policies, replace |-> r.replace]
  OBVIOUS
<1>8. Begin(a, o)
  BY <1>2, <1>4, <1>5, <1>6, <1>7
<1>9. S \subseteq DOMAIN r.rows /\ \A p \in DOMAIN r.rows \ S : r.rows[p] = db.providers[p]
  BY <1>5 DEF StagedRows
<1>10. o \in Handlers
  <2>1. rows \in [S -> ProviderRows] /\ S \in SUBSET Providers
    BY <1>3, <1>6, <1>9
  <2>2. rows \in ImportedRows
    BY <2>1 DEF ImportedRows
  <2>. QED BY <1>3, <1>4, <1>7, <2>2 DEF Handlers
<1>11. FinalProviders(o) = FinalProviders(r)
  <2>1. o.rows = rows /\ DOMAIN rows = S
    BY <1>6, <1>7
  <2>2. ASSUME NEW p \in Providers
        PROVE  (IF p \in DOMAIN o.rows THEN o.rows[p] ELSE db.providers[p])
                 = (IF p \in DOMAIN r.rows THEN r.rows[p] ELSE db.providers[p])
    BY <1>6, <1>9, <2>1
  <2>. QED BY <2>2 DEF FinalProviders
<1>12. FinalGroups(o) = FinalGroups(r)
  BY <1>2, <1>4, <1>7 DEF FinalGroups
<1>13. o.replace = r.replace /\ o.policies = r.policies /\ o.kind = "import"
  BY <1>7
<1>14. StageImportedRoutingPolicies(o)
  BY <1>2, <1>11, <1>12, <1>13
     DEF StageImportedRoutingPolicies, ValidateStagedExactProviderPolicies
<1>15. ChecksHold(o)
  BY <1>13, <1>14 DEF ChecksHold
<1>. QED BY <1>8, <1>10, <1>15, BeginKeeps

-----------------------------------------------------------------------------
(* A handler ends.                                                          *)

\* A health write that was decided on the catalogue as it is checks out.
LEMMA SyncChecks ==
  ASSUME NEW o, o.kind = "sync", db'.providers[o.id] # NoOne,
         o.enabled \/ ~db'.providers[o.id].enabled
  PROVE  ChecksHold(o)'
BY DEF ChecksHold

\* A transaction: when nothing overlapped, the catalogue is the one the handler
\* checked, so what it commits resolves.
LEMMA CommitStep ==
  ASSUME CatalogInv, NEW a \in Admins, CommitHandler(a)
  PROVE  CatalogInv'
<1>. USE DEF CatalogInv
<1>1. PICK o \in Handlers : o = op[a]
  BY DEF CatalogTypeOK
<1>2. PICK e \in Committed(o) : db' = e
  BY <1>1 DEF CommitHandler
<1>3. /\ e \in Catalogs
      /\ Resolves(db) /\ ChecksHold(o) => Resolves(e)
      /\ ~WritesFlagOnly(o) /\ ChecksHold(o) =>
           \A p \in Providers : e.health[p] = "manual" =>
             /\ db.health[p] = "manual"
             /\ db.providers[p] # NoOne => e.providers[p] # NoOne
             /\ db.providers[p] # NoOne /\ e.providers[p].enabled /\ ~db.providers[p].enabled =>
                  o.kind = "updateProvider" /\ o.sync /\ o.id = p /\ o.row.enabled
      /\ o.kind = "updateProvider" => e.providers[o.id] = o.row
      /\ o.kind \notin {"idle", "sync"}
  BY CommitEffect
<1>4. PICK next : next = AfterCommit(o)
  OBVIOUS
<1>5. next \in Handlers
  BY <1>4, HandlerFields DEF AfterCommit, Handlers, Idle, ProviderRows
<1>6. /\ op' = [op EXCEPT ![a] = next] /\ begun' = begun
      /\ excuse' = IF WritesFlagOnly(o) THEN excuse \cup {"unsynced"} ELSE excuse
  BY <1>1, <1>4 DEF CommitHandler
<1>7. \A b \in Admins : op'[b] = IF b = a THEN next ELSE op[b]
  BY <1>6 DEF CatalogTypeOK
<1>8. "overlap" \notin excuse' => "overlap" \notin excuse
  BY <1>6
<1>9. CatalogTypeOK'
  <2>1. (db \in Catalogs)'
    BY <1>2, <1>3 DEF Catalogs
  <2>2. op' \in [Admins -> Handlers] /\ begun' \in Nat /\ excuse' \subseteq {"overlap", "unsynced"}
    BY <1>5, <1>6 DEF CatalogTypeOK
  <2>. QED BY <2>1, <2>2 DEF CatalogTypeOK, Handlers
<1>10. ASSUME "overlap" \notin excuse
       PROVE  ChecksHold(o) /\ \A b \in Admins \ {a} : op[b] = Idle
  <2>1. o # Idle
    BY <1>3 DEF Idle
  <2>2. \A b, c \in Admins : op[b] # Idle /\ op[c] # Idle => b = c
    BY <1>10 DEF HandlersSerial
  <2>3. ChecksHold(o)
    BY <1>1, <1>10 DEF HandlersSerial
  <2>. QED BY <1>1, <2>1, <2>2, <2>3
<1>11. SerialPoliciesResolve'
  <2>1. ASSUME "overlap" \notin excuse' PROVE Resolves(e)
    BY <1>3, <1>8, <1>10, <2>1 DEF SerialPoliciesResolve, PoliciesResolve
  <2>. QED BY <1>2, <2>1 DEF SerialPoliciesResolve, PoliciesResolve, Resolves, LivePolicies, PolicyHolds
<1>12. HandlersSerial'
  <2>1. ChecksHold(Idle)'
    BY DEF ChecksHold, Idle
  <2>2. ChecksHold(next)'
    <3>1. CASE next = Idle
      BY <2>1, <3>1 DEF ChecksHold, Idle
    <3>2. CASE next # Idle
      <4>1. /\ o.kind = "updateProvider" /\ next.kind = "sync" /\ next.id = o.id
            /\ next.enabled = o.row.enabled
        BY <1>4, <3>2 DEF AfterCommit
      <4>2. db'.providers[next.id] = o.row /\ o.row \in ProviderRows
        BY <1>2, <1>3, <4>1, HandlerFields
      <4>. QED BY <4>1, <4>2, CatalogAssumption, SyncChecks DEF ProviderRows
    <3>. QED BY <3>1, <3>2
  <2>3. ASSUME "overlap" \notin excuse', NEW b \in Admins PROVE ChecksHold(op[b])'
    <3>1. op'[b] = next \/ op'[b] = Idle
      BY <1>7, <1>8, <1>10, <2>3
    <3>2. CASE op'[b] = next
      BY <2>2, <3>2
         DEF ChecksHold, BuildRoutingPolicyFromCatalog, BuildExactProviderRoutingPolicy,
             BuildFilterRoutingPolicy, StageImportedRoutingPolicies, FinalProviders, FinalGroups,
             ValidateStagedExactProviderPolicies, LivePolicies
    <3>3. CASE op'[b] = Idle
      BY <3>3 DEF ChecksHold, Idle
    <3>. QED BY <3>1, <3>2, <3>3
  <2>4. ASSUME "overlap" \notin excuse', NEW b \in Admins, NEW c \in Admins,
               op'[b] # Idle, op'[c] # Idle
        PROVE  b = c
    BY <1>7, <1>8, <1>10, <2>4
  <2>. QED BY <2>3, <2>4 DEF HandlersSerial
<1>13. HealthFollows'
  <2>1. ASSUME excuse' = {}, NEW p \in Providers, e.health[p] = "manual"
        PROVE  /\ e.providers[p] # NoOne
               /\ e.providers[p].enabled =>
                    next.kind = "sync" /\ next.id = p /\ next.enabled
    <3>1. excuse = {} /\ ~WritesFlagOnly(o) /\ "overlap" \notin excuse
      BY <1>6, <2>1
    <3>2. ChecksHold(o) /\ \A b \in Admins \ {a} : op[b] = Idle
      BY <1>10, <3>1
    <3>3. db.providers[p] # NoOne /\ ~db.providers[p].enabled
      <4>1. db.health[p] = "manual"
        BY <1>3, <2>1, <3>1, <3>2
      <4>2. \A b \in Admins : op[b].kind # "sync"
        BY <1>1, <1>3, <3>2 DEF Idle
      <4>. QED BY <3>1, <4>1, <4>2 DEF HealthFollows
    <3>4. e.providers[p].enabled => o.kind = "updateProvider" /\ o.sync /\ o.id = p /\ o.row.enabled
      BY <1>3, <2>1, <3>1, <3>2, <3>3
    <3>5. e.providers[p] # NoOne
      BY <1>3, <2>1, <3>1, <3>2, <3>3
    <3>. QED BY <1>4, <3>4, <3>5 DEF AfterCommit
  <2>. QED BY <1>2, <1>7, <2>1 DEF HealthFollows
<1>. QED BY <1>9, <1>11, <1>12, <1>13

\* A refused handler leaves the catalogue; a failed health write is excused.
LEMMA LeaveStep ==
  ASSUME CatalogInv, NEW a \in Admins, Refuse(a) \/ SyncFails(a)
  PROVE  CatalogInv'
<1>. USE DEF CatalogInv
<1>1. /\ op' = [op EXCEPT ![a] = Idle] /\ db' = db /\ begun' = begun
      /\ excuse' = excuse \/ excuse' = excuse \cup {"unsynced"}
      /\ excuse' = {} => excuse = {} /\ op[a].kind # "sync"
  BY DEF Refuse, SyncFails
<1>2. \A b \in Admins : op'[b] = IF b = a THEN Idle ELSE op[b]
  BY <1>1 DEF CatalogTypeOK
<1>3. CatalogTypeOK'
  <2>1. (db \in Catalogs)'
    BY <1>1 DEF CatalogTypeOK, Catalogs
  <2>2. Idle \in Handlers
    BY DEF Idle, Handlers
  <2>3. op' \in [Admins -> Handlers]
    BY <1>1, <2>2 DEF CatalogTypeOK
  <2>4. begun' \in Nat /\ excuse' \subseteq {"overlap", "unsynced"}
    BY <1>1 DEF CatalogTypeOK
  <2>. QED BY <2>1, <2>3, <2>4 DEF CatalogTypeOK, Handlers
<1>4. SerialPoliciesResolve'
  BY <1>1 DEF SerialPoliciesResolve, PoliciesResolve, Resolves, LivePolicies, PolicyHolds
<1>5. HandlersSerial'
  <2>1. ASSUME "overlap" \notin excuse', NEW b \in Admins PROVE ChecksHold(op[b])'
    <3>1. PICK h : h = op'[b]
      OBVIOUS
    <3>2. ChecksHold(h)
      BY <1>1, <1>2, <2>1, <3>1, IdleChecks DEF HandlersSerial
    <3>. QED BY <1>1, <3>1, <3>2
         DEF ChecksHold, BuildRoutingPolicyFromCatalog, BuildExactProviderRoutingPolicy,
             BuildFilterRoutingPolicy, StageImportedRoutingPolicies, FinalProviders, FinalGroups,
             ValidateStagedExactProviderPolicies, LivePolicies
  <2>2. ASSUME "overlap" \notin excuse', NEW b \in Admins, NEW c \in Admins,
               op'[b] # Idle, op'[c] # Idle
        PROVE  b = c
    BY <1>1, <1>2, <2>2 DEF HandlersSerial
  <2>. QED BY <2>1, <2>2 DEF HandlersSerial
<1>6. HealthFollows'
  <2>1. ASSUME excuse' = {}, NEW p \in Providers, db.health[p] = "manual", db.providers[p].enabled,
               NEW b \in Admins, op[b].kind = "sync" /\ op[b].id = p /\ op[b].enabled
        PROVE  op'[b] = op[b]
    BY <1>1, <1>2, <2>1
  <2>. QED BY <1>1, <2>1 DEF HealthFollows
<1>. QED BY <1>3, <1>4, <1>5, <1>6

\* The health row is written: by hand only on a provider that is disabled.
LEMMA SyncStep ==
  ASSUME CatalogInv, NEW a \in Admins, SyncHealthManagerState(a)
  PROVE  CatalogInv'
<1>. USE DEF CatalogInv
<1>1. PICK o \in Handlers : o = op[a]
  BY DEF CatalogTypeOK
<1>2. PICK h \in {"available", "manual"} : h = HealthSynced(o)
  BY DEF HealthSynced
<1>3. /\ o.kind = "sync" /\ db.providers[o.id] # NoOne
      /\ db' = [db EXCEPT !.health = [@ EXCEPT ![o.id] = h]]
      /\ op' = [op EXCEPT ![a] = Idle] /\ begun' = begun /\ excuse' = excuse
  BY <1>1, <1>2 DEF SyncHealthManagerState
<1>4. o.id \in Providers /\ o.enabled \in BOOLEAN
  BY <1>3, HandlerFields
<1>5. db \in Catalogs
  BY DEF CatalogTypeOK
<1>6. /\ db' \in Catalogs /\ db'.providers = db.providers /\ db'.groups = db.groups
      /\ db'.policies = db.policies
      /\ \A p \in Providers : db'.health[p] = IF p = o.id THEN h ELSE db.health[p]
  BY <1>3, <1>4, <1>5 DEF Catalogs
<1>7. \A b \in Admins : op'[b] = IF b = a THEN Idle ELSE op[b]
  BY <1>3 DEF CatalogTypeOK
<1>8. CatalogTypeOK'
  <2>1. (db \in Catalogs)'
    BY <1>6 DEF Catalogs
  <2>2. Idle \in Handlers
    BY DEF Idle, Handlers
  <2>3. op' \in [Admins -> Handlers]
    BY <1>3, <2>2 DEF CatalogTypeOK
  <2>4. begun' \in Nat /\ excuse' \subseteq {"overlap", "unsynced"}
    BY <1>3 DEF CatalogTypeOK
  <2>. QED BY <2>1, <2>3, <2>4 DEF CatalogTypeOK, Handlers
<1>9. SerialPoliciesResolve'
  BY <1>3, <1>6 DEF SerialPoliciesResolve, PoliciesResolve, Resolves, LivePolicies, PolicyHolds
<1>10. ASSUME "overlap" \notin excuse
       PROVE  (o.enabled \/ ~db.providers[o.id].enabled) /\ \A b \in Admins \ {a} : op[b] = Idle
  <2>1. o # Idle
    BY <1>3 DEF Idle
  <2>2. \A b, c \in Admins : op[b] # Idle /\ op[c] # Idle => b = c
    BY <1>10 DEF HandlersSerial
  <2>3. ChecksHold(o)
    BY <1>1, <1>10 DEF HandlersSerial
  <2>4. o.enabled \/ ~db.providers[o.id].enabled
    BY <1>3, <2>3 DEF ChecksHold
  <2>. QED BY <1>1, <2>1, <2>2, <2>4
<1>11. HandlersSerial'
  <2>1. ASSUME "overlap" \notin excuse', NEW b \in Admins PROVE op'[b] = Idle
    BY <1>3, <1>7, <1>10, <2>1
  <2>2. ASSUME "overlap" \notin excuse', NEW b \in Admins PROVE ChecksHold(op[b])'
    BY <2>1, <2>2 DEF ChecksHold, Idle
  <2>. QED BY <2>1, <2>2 DEF HandlersSerial
<1>12. HealthFollows'
  <2>1. ASSUME excuse' = {}, NEW p \in Providers, db'.health[p] = "manual"
        PROVE  db.providers[p] # NoOne /\ ~db.providers[p].enabled
    <3>1. excuse = {} /\ "overlap" \notin excuse
      BY <1>3, <2>1
    <3>2. CASE p = o.id
      <4>1. ~o.enabled
        BY <1>2, <1>4, <1>6, <2>1, <3>2 DEF HealthSynced
      <4>. QED BY <1>3, <1>10, <3>1, <3>2, <4>1
    <3>3. CASE p # o.id
      <4>1. \A b \in Admins : op[b].kind = "sync" => op[b].id # p
        BY <1>1, <1>10, <3>1, <3>3 DEF Idle
      <4>2. db.health[p] = "manual"
        BY <1>6, <2>1, <3>3
      <4>. QED BY <3>1, <4>1, <4>2 DEF HealthFollows
    <3>. QED BY <3>2, <3>3
  <2>. QED BY <1>6, <2>1 DEF HealthFollows
<1>. QED BY <1>8, <1>9, <1>11, <1>12

-----------------------------------------------------------------------------
\* The catalogue invariant is inductive.
LEMMA CatalogInductive ==
  ASSUME CatalogInv, [CatalogNext]_catalogVars
  PROVE  CatalogInv'
<1>1. CASE CatalogNext
  <2>1. PICK a \in Admins :
          \/ CreateProvider(a) \/ UpdateProvider(a) \/ SetProviderEnabled(a)
          \/ ResetProvider(a) \/ DeleteProvider(a)
          \/ CreateGroup(a) \/ UpdateOrToggleGroup(a) \/ DeleteGroup(a)
          \/ CreateRoutingPolicy(a) \/ UpdateRoutingPolicy(a) \/ DeleteRoutingPolicy(a)
          \/ ImportConfig(a)
          \/ CommitHandler(a) \/ Refuse(a) \/ SyncHealthManagerState(a) \/ SyncFails(a)
    BY <1>1 DEF CatalogNext
  <2>. QED BY <2>1, CreateProviderStep, UpdateProviderStep, SetProviderEnabledStep, ResetProviderStep,
              IdentityStep, PolicyStep, ImportStep, CommitStep, LeaveStep, SyncStep
<1>2. CASE UNCHANGED catalogVars
  <2>1. db' = db /\ op' = op /\ begun' = begun /\ excuse' = excuse
    BY <1>2 DEF catalogVars
  <2>2. CatalogTypeOK'
    BY <2>1 DEF CatalogInv, CatalogTypeOK, Catalogs, Handlers
  <2>3. HandlersSerial'
    <3>1. ASSUME "overlap" \notin excuse', NEW b \in Admins PROVE ChecksHold(op[b])'
      <4>1. PICK h : h = op[b]
        OBVIOUS
      <4>2. ChecksHold(h)
        BY <2>1, <3>1, <4>1 DEF CatalogInv, HandlersSerial
      <4>. QED BY <2>1, <4>1, <4>2
           DEF ChecksHold, BuildRoutingPolicyFromCatalog, BuildExactProviderRoutingPolicy,
               BuildFilterRoutingPolicy, StageImportedRoutingPolicies, FinalProviders, FinalGroups,
               ValidateStagedExactProviderPolicies, LivePolicies
    <3>2. ASSUME "overlap" \notin excuse', NEW b \in Admins, NEW c \in Admins,
                 op'[b] # Idle, op'[c] # Idle
          PROVE  b = c
      BY <2>1, <3>2 DEF CatalogInv, HandlersSerial
    <3>. QED BY <3>1, <3>2 DEF HandlersSerial
  <2>4. SerialPoliciesResolve'
    BY <2>1 DEF CatalogInv, SerialPoliciesResolve, PoliciesResolve, Resolves, LivePolicies, PolicyHolds
  <2>5. HealthFollows'
    BY <2>1 DEF CatalogInv, HealthFollows
  <2>. QED BY <2>2, <2>3, <2>4, <2>5 DEF CatalogInv
<1>. QED BY <1>1, <1>2

\* While the handlers of the administration API do not overlap, every stored
\* policy names a provider that serves its API type or groups that exist, and an
\* enabled provider is not disabled by hand in its health row: in every sequence
\* of edits and imports, over any catalogue.
THEOREM CatalogIsConsistent == CatalogSpec => []CatalogConsistent
<1>1. CatalogInit => CatalogInv
  <2>. SUFFICES ASSUME CatalogInit PROVE CatalogInv
    OBVIOUS
  <2>1. /\ \A p \in Providers : db.health[p] = "none"
        /\ \A i \in PolicyIds : db.policies[i] = NoOne
        /\ \A a \in Admins : op[a] = Idle
    BY DEF CatalogInit
  <2>2. CatalogTypeOK
    <3>1. db \in Catalogs
      BY DEF CatalogInit, Catalogs
    <3>2. op \in [Admins -> Handlers]
      BY DEF CatalogInit, Handlers, Idle
    <3>. QED BY <3>1, <3>2 DEF CatalogTypeOK, CatalogInit
  <2>3. HandlersSerial
    BY <2>1, IdleChecks DEF HandlersSerial
  <2>4. SerialPoliciesResolve
    <3>1. LivePolicies(db) = {}
      BY <2>1, LivePolicyRows
    <3>. QED BY <3>1 DEF SerialPoliciesResolve, PoliciesResolve, Resolves
  <2>5. HealthFollows
    BY <2>1 DEF HealthFollows
  <2>. QED BY <2>2, <2>3, <2>4, <2>5 DEF CatalogInv
<1>2. CatalogInv => CatalogConsistent
  BY DEF CatalogInv, HealthFollows, CatalogConsistent, EnabledInSync
<1>3. CatalogInv /\ [CatalogNext]_catalogVars => CatalogInv'
  BY CatalogInductive
<1>. QED BY <1>1, <1>2, <1>3, PTL DEF CatalogSpec

-----------------------------------------------------------------------------
(* The sticky bindings.                                                    *)

\* What the type of a batch of mutations says of its fields.
LEMMA MutationFields ==
  ASSUME NEW m \in Mutations
  PROVE  /\ m.upserts \in Table /\ m.deletes \in SUBSET Keys
         /\ m.evictions \in SUBSET StickyProviders /\ m.cleanupBefore \in Nat
         /\ m = [upserts |-> m.upserts, deletes |-> m.deletes,
                 evictions |-> m.evictions, cleanupBefore |-> m.cleanupBefore]
BY DEF Mutations

\* What the type of a table says of a row in it.
LEMMA EntryFields ==
  ASSUME NEW table \in Table, NEW k \in Keys, table[k] /= None
  PROVE  /\ table[k] \in Entry /\ table[k].provider \in StickyProviders
         /\ table[k].expires \in Nat
BY DEF Table, Entry

\* Nothing but a row has the type of a row.
LEMMA FreshEntries ==
  ASSUME NEW p \in StickyProviders, NEW n \in Nat
  PROVE  [provider |-> p, expires |-> n] \in Entry /\ [provider |-> p, expires |-> n] /= None
BY NoneAssumption DEF Entry

\* The empty queue and the empty table.
LEMMA EmptyMutations ==
  /\ newStickyPendingMutations \in Mutations
  /\ newStickyPendingMutations.upserts = NoEntries
  /\ newStickyPendingMutations.deletes = {}
  /\ newStickyPendingMutations.evictions = {}
  /\ newStickyPendingMutations.cleanupBefore = 0
  /\ NoEntries \in Table
  /\ \A k \in Keys : NoEntries[k] = None
BY DEF newStickyPendingMutations, Mutations, Table, NoEntries

\* Sweeping, evicting from and assigning to a table leave a table.
LEMMA TablesStay ==
  ASSUME NEW table \in Table
  PROVE  /\ \A t \in Nat : Sweep(table, t) \in Table
         /\ \A p : Without(table, p) \in Table
         /\ \A k \in Keys, e \in Entry \cup {None} : [table EXCEPT ![k] = e] \in Table
         /\ IndexOf(table) \in [StickyProviders -> SUBSET Keys]
         /\ \A ps : Dropped(table, ps) \subseteq Keys
BY DEF Table, Sweep, Without, IndexOf, Dropped

\* What requeue makes of a failed batch and what was queued meanwhile.
LEMMA RequeuedFields ==
  ASSUME StickyTypeOK
  PROVE  /\ Requeued \in Mutations
         /\ Requeued.evictions = pending.evictions \cup batch.evictions
         /\ Requeued.deletes = pending.deletes \cup {k \in batch.deletes : pending.upserts[k] = None}
         /\ Requeued.cleanupBefore = IF batch.cleanupBefore > pending.cleanupBefore
                                     THEN batch.cleanupBefore ELSE pending.cleanupBefore
         /\ \A k \in Keys :
              Requeued.upserts[k] =
                IF /\ batch.upserts[k] /= None
                   /\ pending.upserts[k] = None /\ k \notin Requeued.deletes
                   /\ batch.upserts[k].provider \notin Requeued.evictions
                THEN batch.upserts[k] ELSE pending.upserts[k]
<1>1. pending \in Mutations /\ batch \in Mutations
  BY DEF StickyTypeOK
<1>2. /\ pending.upserts \in Table /\ batch.upserts \in Table
      /\ pending.deletes \subseteq Keys /\ batch.deletes \subseteq Keys
      /\ pending.evictions \subseteq StickyProviders /\ batch.evictions \subseteq StickyProviders
      /\ pending.cleanupBefore \in Nat /\ batch.cleanupBefore \in Nat
  BY <1>1, MutationFields
<1>3. /\ Requeued.evictions = pending.evictions \cup batch.evictions
      /\ Requeued.deletes = pending.deletes \cup {k \in batch.deletes : pending.upserts[k] = None}
      /\ Requeued.cleanupBefore = IF batch.cleanupBefore > pending.cleanupBefore
                                     THEN batch.cleanupBefore ELSE pending.cleanupBefore
  BY DEF Requeued
<1>4. \A k \in Keys :
              Requeued.upserts[k] =
                IF /\ batch.upserts[k] /= None
                   /\ pending.upserts[k] = None /\ k \notin Requeued.deletes
                   /\ batch.upserts[k].provider \notin Requeued.evictions
                THEN batch.upserts[k] ELSE pending.upserts[k]
  BY <1>3 DEF Requeued
<1>5. Requeued.upserts \in Table
  <2>1. \A k \in Keys : Requeued.upserts[k] \in Entry \cup {None}
    BY <1>2, <1>4 DEF Table
  <2>2. Requeued.upserts = [k \in Keys |-> Requeued.upserts[k]]
    BY DEF Requeued
  <2>. QED  BY <2>1, <2>2 DEF Table
<1>6. Requeued = [upserts |-> Requeued.upserts, deletes |-> Requeued.deletes,
                  evictions |-> Requeued.evictions, cleanupBefore |-> Requeued.cleanupBefore]
  BY DEF Requeued
<1>. QED
  BY <1>2, <1>3, <1>4, <1>5, <1>6 DEF Mutations

\* What a mutation leaves in the queue.
LEMMA QueuedBySet ==
  ASSUME StickyTypeOK, NEW k \in Keys, NEW p \in StickyProviders, NEW ttl \in Ttls, Set(k, p, ttl)
  PROVE  pending' = [upserts |-> [pending.upserts EXCEPT ![k] = [provider |-> p, expires |-> now + ttl]],
                     deletes |-> pending.deletes \ {k}, evictions |-> pending.evictions,
                     cleanupBefore |-> pending.cleanupBefore]
BY DEF Set, Mutations, StickyTypeOK

\* Delete drops a queued upsert and queues the delete.
LEMMA QueuedByDelete ==
  ASSUME StickyTypeOK, NEW k \in Keys, Delete(k)
  PROVE  pending' = [upserts |-> [pending.upserts EXCEPT ![k] = None],
                     deletes |-> pending.deletes \cup {k}, evictions |-> pending.evictions,
                     cleanupBefore |-> pending.cleanupBefore]
BY DEF Delete, Mutations, StickyTypeOK

\* EvictProvider drops the queued upserts of the provider.
LEMMA QueuedByEviction ==
  ASSUME StickyTypeOK, NEW p \in Evictable, EvictProvider(p)
  PROVE  pending' = [upserts |-> Without(pending.upserts, p), deletes |-> pending.deletes,
                     evictions |-> pending.evictions \cup {p}, cleanupBefore |-> pending.cleanupBefore]
BY DEF EvictProvider, Mutations, StickyTypeOK

\* Cleanup drops the queued upserts that have expired.
LEMMA QueuedByCleanup ==
  ASSUME StickyTypeOK, Cleanup
  PROVE  pending' = [upserts |-> Sweep(pending.upserts, now), deletes |-> pending.deletes,
                     evictions |-> pending.evictions, cleanupBefore |-> now + 1]
BY DEF Cleanup, Mutations, StickyTypeOK

-----------------------------------------------------------------------------
\* The types hold at the start.
LEMMA StickyTypeStarts == StickyInit => StickyTypeOK
<1>. SUFFICES ASSUME StickyInit PROVE StickyTypeOK
  OBVIOUS
<1>. QED
  BY EmptyMutations DEF StickyInit, StickyTypeOK

\* Every step keeps the types.
LEMMA StickyTypeKept ==
  ASSUME StickyTypeOK, [StickyNext]_stickyVars
  PROVE  StickyTypeOK'
<1>. USE DEF StickyTypeOK
<1>0. /\ pending.upserts \in Table /\ batch.upserts \in Table /\ todo.upserts \in Table
      /\ pending.deletes \subseteq Keys /\ todo.deletes \subseteq Keys
      /\ pending.evictions \subseteq StickyProviders /\ todo.evictions \subseteq StickyProviders
      /\ todo.cleanupBefore \in Nat
  BY MutationFields
<1>1. ASSUME NEW k \in Keys, NEW p \in StickyProviders, NEW ttl \in Ttls, Set(k, p, ttl)
      PROVE  StickyTypeOK'
  <2>. DEFINE e == [provider |-> p, expires |-> now + ttl]
  <2>1. e \in Entry /\ e.provider = p
    BY TtlAssumption, FreshEntries
  <2>2. [pending.upserts EXCEPT ![k] = e] \in Table
    BY <2>1, <1>0, TablesStay
  <2>3. pending' \in Mutations
    BY <1>1, <1>0, <2>2, QueuedBySet, MutationFields DEF Mutations
  <2>4. entries' \in Table
    BY <1>1, <2>1, TablesStay DEF Set, setLocked
  <2>5. providerKeys' \in [StickyProviders -> SUBSET Keys]
    BY <1>1 DEF Set, setLocked
  <2>6. rebound' \in [StickyProviders -> SUBSET Keys] /\ astray' \subseteq Keys
    BY <1>1 DEF Set
  <2>7. {now', ops', failures', restarts'} \subseteq Nat
    BY <1>1 DEF Set, Operation
  <2>. QED
    BY <1>1, <2>3, <2>4, <2>5, <2>6, <2>7 DEF Set, workerVars
<1>2. ASSUME NEW k \in Keys, Delete(k)
      PROVE  StickyTypeOK'
  <2>2. [pending.upserts EXCEPT ![k] = None] \in Table
    BY <1>0, TablesStay
  <2>3. pending' \in Mutations
    BY <1>2, <1>0, <2>2, QueuedByDelete, MutationFields DEF Mutations
  <2>4. entries' \in Table
    BY <1>2, TablesStay DEF Delete, deleteEntryLocked
  <2>5. providerKeys' \in [StickyProviders -> SUBSET Keys]
    BY <1>2 DEF Delete, deleteEntryLocked
  <2>. QED
    BY <1>2, <2>3, <2>4, <2>5 DEF Delete, Operation, workerVars
<1>3. ASSUME NEW p \in Evictable, EvictProvider(p)
      PROVE  StickyTypeOK'
  <2>1. p \in StickyProviders
    BY ScopeAssumption
  <2>2. Without(pending.upserts, p) \in Table /\ Dropped(pending.upserts, {p}) \subseteq Keys
    BY <1>0, TablesStay
  <2>3. pending' \in Mutations
    BY <1>3, <1>0, <2>1, <2>2, QueuedByEviction, MutationFields DEF Mutations
  <2>4. entries' \in Table
    BY <1>3 DEF EvictProvider, evictLocked, Table
  <2>5. providerKeys' \in [StickyProviders -> SUBSET Keys]
    BY <1>3 DEF EvictProvider, evictLocked
  <2>6. rebound' \in [StickyProviders -> SUBSET Keys] /\ astray' \subseteq Keys
    BY <1>3, <2>2 DEF EvictProvider
  <2>7. {now', ops', failures', restarts'} \subseteq Nat
    BY <1>3 DEF EvictProvider, Operation
  <2>. QED
    BY <1>3, <2>3, <2>4, <2>5, <2>6, <2>7 DEF EvictProvider, workerVars
<1>4. CASE Cleanup
  <2>2. Sweep(pending.upserts, now) \in Table /\ Dropped(pending.upserts, StickyProviders) \subseteq Keys
    BY <1>0, TablesStay
  <2>3. pending' \in Mutations
    BY <1>4, <1>0, <2>2, QueuedByCleanup, MutationFields DEF Mutations
  <2>4. entries' \in Table
    BY <1>4, TablesStay DEF Cleanup
  <2>5. providerKeys' \in [StickyProviders -> SUBSET Keys]
    BY <1>4 DEF Cleanup
  <2>. QED
    BY <1>4, <2>2, <2>3, <2>4, <2>5 DEF Cleanup, Operation, workerVars
<1>5. CASE FlushBegin
  BY <1>5, EmptyMutations DEF FlushBegin, Swap, clockVars, memoryVars, history
<1>6. CASE Apply
  <2>1. durable' \in Table /\ todo' \in Mutations
    <3>1. ASSUME NEW p \in todo.evictions, durable' = Without(durable, p),
                 todo' = [todo EXCEPT !.evictions = @ \ {p}]
          PROVE  durable' \in Table /\ todo' \in Mutations
      BY <3>1, <1>0, TablesStay DEF Mutations
    <3>2. ASSUME NEW k \in todo.deletes, durable' = [durable EXCEPT ![k] = None],
                 todo' = [todo EXCEPT !.deletes = @ \ {k}]
          PROVE  durable' \in Table /\ todo' \in Mutations
      BY <3>2, <1>0, TablesStay DEF Mutations
    <3>3. ASSUME NEW k \in Keys, durable' = [durable EXCEPT ![k] = todo.upserts[k]],
                 todo' = [todo EXCEPT !.upserts[k] = None]
          PROVE  durable' \in Table /\ todo' \in Mutations
      <4>1. todo.upserts[k] \in Entry \cup {None}
        BY <1>0 DEF Table
      <4>2. [todo.upserts EXCEPT ![k] = None] \in Table
        BY <1>0, TablesStay
      <4>. QED  BY <3>3, <1>0, <4>1, <4>2, TablesStay DEF Mutations
    <3>4. ASSUME todo.cleanupBefore /= 0, durable' = Sweep(durable, todo.cleanupBefore - 1),
                 todo' = [todo EXCEPT !.cleanupBefore = 0]
          PROVE  durable' \in Table /\ todo' \in Mutations
      <4>1. todo.cleanupBefore - 1 \in Nat
        BY <1>0, <3>4
      <4>. QED  BY <3>4, <1>0, <4>1, TablesStay DEF Mutations
    <3>. QED  BY <1>6, <3>1, <3>2, <3>3, <3>4 DEF Apply
  <2>. QED
    BY <1>6, <2>1 DEF Apply, clockVars, memoryVars, history
<1>7. CASE FlushEnd
  BY <1>7, EmptyMutations DEF FlushEnd, clockVars, memoryVars, history
<1>8. CASE FlushFails
  <2>1. RequeueDrops \subseteq Keys
    BY DEF RequeueDrops, Dropped
  <2>. QED
    BY <1>8, <2>1, EmptyMutations, RequeuedFields DEF FlushFails, memoryVars
<1>9. CASE Close
  BY <1>9, EmptyMutations DEF Close, Swap, clockVars, memoryVars, history
<1>10. ASSUME NEW k \in Importable, NEW p \in StickyProviders, NEW ttl \in Ttls, ImportCommit(k, p, ttl)
       PROVE  StickyTypeOK'
  <2>0. k \in Keys
    BY ScopeAssumption
  <2>. DEFINE e == [provider |-> p, expires |-> now + ttl]
  <2>. DEFINE winner == IF Live(durable[k]) THEN durable[k] ELSE e
  <2>1. e \in Entry
    BY TtlAssumption, FreshEntries
  <2>2. winner \in Entry \cup {None}
    BY <2>0, <2>1 DEF Table
  <2>3. durable' \in Table /\ restored' \in Table
    <3>. HIDE DEF e
    <3>1. durable' = [durable EXCEPT ![k] = winner] /\ restored' = [restored EXCEPT ![k] = winner]
      BY <1>10 DEF ImportCommit, e
    <3>. HIDE DEF winner
    <3>. QED  BY <3>1, <2>0, <2>2, TablesStay
  <2>4. rebound' \in [StickyProviders -> SUBSET Keys]
    BY <1>10, <2>0 DEF ImportCommit
  <2>. QED
    BY <1>10, <2>3, <2>4 DEF ImportCommit, Operation, workerVars, memoryVars
<1>11. ASSUME NEW k \in Keys, MergeRestoredEntries(k)
       PROVE  StickyTypeOK'
  <2>1. restored' \in Table
    BY <1>11, TablesStay DEF MergeRestoredEntries
  <2>2. entries' \in Table
    BY <1>11, TablesStay DEF MergeRestoredEntries, setLocked, memoryVars, Table
  <2>3. providerKeys' \in [StickyProviders -> SUBSET Keys]
    BY <1>11 DEF MergeRestoredEntries, setLocked, memoryVars
  <2>4. astray' \subseteq Keys
    BY <1>11 DEF MergeRestoredEntries
  <2>. QED
    BY <1>11, <2>1, <2>2, <2>3, <2>4 DEF MergeRestoredEntries, clockVars, workerVars
<1>12. CASE Restart
  <2>1. entries' \in Table
    BY <1>12, EmptyMutations DEF Restart, Table
  <2>2. providerKeys' \in [StickyProviders -> SUBSET Keys] /\ rebound' \in [StickyProviders -> SUBSET Keys]
    BY <1>12, <2>1, TablesStay DEF Restart
  <2>3. astray' \subseteq Keys
    BY <1>12, TablesStay DEF Restart
  <2>4. pending' \in Mutations /\ batch' \in Mutations /\ todo' \in Mutations /\ restored' \in Table
    BY <1>12, EmptyMutations DEF Restart
  <2>5. {now', ops', failures', restarts'} \subseteq Nat
    BY <1>12 DEF Restart
  <2>. QED
    BY <1>12, <2>1, <2>2, <2>3, <2>4, <2>5 DEF Restart
<1>13. CASE StickyTick
  BY <1>13 DEF StickyTick, memoryVars, workerVars, history
<1>14. CASE UNCHANGED stickyVars
  BY <1>14 DEF stickyVars, clockVars, memoryVars, workerVars, history
<1>. QED
  BY <1>1, <1>2, <1>3, <1>4, <1>5, <1>6, <1>7, <1>8, <1>9, <1>10, <1>11, <1>12, <1>13, <1>14
     DEF StickyNext, WorkerStep

-----------------------------------------------------------------------------
\* The reverse index.
LEMMA SetLockedIndexes ==
  ASSUME entries \in Table, ProviderKeysExact, NEW k \in Keys, NEW e \in Entry, setLocked(k, e)
  PROVE  ProviderKeysExact'
<1>0. e /= None
  BY NoneAssumption DEF Entry
<1>1. \A j \in Keys : entries'[j] = IF j = k THEN e ELSE entries[j]
  BY DEF setLocked, Table
<1>2. \A p \in StickyProviders : providerKeys'[p] = IndexOf(entries')[p]
  BY <1>0, <1>1 DEF setLocked, ProviderKeysExact, IndexOf
<1>. QED
  BY <1>2 DEF ProviderKeysExact, IndexOf, setLocked

\* Every step keeps the reverse index exact.
LEMMA IndexKept ==
  ASSUME StickyTypeOK, ProviderKeysExact, [StickyNext]_stickyVars
  PROVE  ProviderKeysExact'
<1>. USE DEF StickyTypeOK
<1>1. ASSUME NEW k \in Keys, NEW p \in StickyProviders, NEW ttl \in Ttls, Set(k, p, ttl)
      PROVE  ProviderKeysExact'
  <2>. DEFINE e == [provider |-> p, expires |-> now + ttl]
  <2>1. e \in Entry
    BY TtlAssumption, FreshEntries
  <2>2. setLocked(k, e)
    BY <1>1 DEF Set
  <2>. HIDE DEF e
  <2>. QED
    BY <2>1, <2>2, SetLockedIndexes
<1>2. ASSUME NEW k \in Keys, Delete(k)
      PROVE  ProviderKeysExact'
  <2>1. \A j \in Keys : entries'[j] = IF j = k THEN None ELSE entries[j]
    BY <1>2 DEF Delete, deleteEntryLocked, Table
  <2>2. \A p \in StickyProviders : providerKeys'[p] = IndexOf(entries')[p]
    BY <1>2, <2>1 DEF Delete, deleteEntryLocked, ProviderKeysExact, IndexOf
  <2>. QED
    BY <1>2, <2>2 DEF ProviderKeysExact, IndexOf, Delete, deleteEntryLocked
<1>3. ASSUME NEW p \in Evictable, EvictProvider(p)
      PROVE  ProviderKeysExact'
  <2>0. p \in StickyProviders
    BY ScopeAssumption
  <2>1. \A j \in Keys : entries'[j] = IF j \in providerKeys[p] THEN None ELSE entries[j]
    BY <1>3 DEF EvictProvider, evictLocked
  <2>2. \A q \in StickyProviders : providerKeys'[q] = IndexOf(entries')[q]
    BY <1>3, <2>0, <2>1 DEF EvictProvider, evictLocked, ProviderKeysExact, IndexOf
  <2>. QED
    BY <1>3, <2>2 DEF ProviderKeysExact, IndexOf, EvictProvider, evictLocked
<1>4. CASE Cleanup
  <2>1. \A j \in Keys : entries'[j] = IF entries[j] /= None /\ entries[j].expires <= now
                                       THEN None ELSE entries[j]
    BY <1>4 DEF Cleanup, Sweep
  <2>2. \A j \in Keys : entries[j] /= None => entries[j].expires \in Nat
    BY EntryFields
  <2>3. \A q \in StickyProviders : providerKeys'[q] = IndexOf(entries')[q]
    BY <1>4, <2>1, <2>2 DEF Cleanup, ProviderKeysExact, IndexOf, Live
  <2>. QED
    BY <1>4, <2>3 DEF ProviderKeysExact, IndexOf, Cleanup
<1>5. ASSUME NEW k \in Keys, MergeRestoredEntries(k)
      PROVE  ProviderKeysExact'
  <2>1. restored[k] \in Entry
    BY <1>5, EntryFields DEF MergeRestoredEntries
  <2>2. CASE UNCHANGED memoryVars
    BY <2>2 DEF memoryVars, ProviderKeysExact
  <2>3. CASE setLocked(k, restored[k])
    BY <2>1, <2>3, SetLockedIndexes
  <2>. QED
    BY <1>5, <2>2, <2>3 DEF MergeRestoredEntries
<1>6. CASE Restart
  BY <1>6 DEF Restart, ProviderKeysExact
<1>7. ASSUME UNCHANGED memoryVars
      PROVE  ProviderKeysExact'
  BY <1>7 DEF memoryVars, ProviderKeysExact
<1>8. ASSUME WorkerStep \/ FlushFails \/ Close \/ StickyTick \/ UNCHANGED stickyVars
      PROVE  UNCHANGED memoryVars
  BY <1>8 DEF WorkerStep, FlushBegin, Apply, FlushEnd, FlushFails, Close, StickyTick, stickyVars
<1>9. ASSUME NEW k \in Importable, NEW p \in StickyProviders, NEW ttl \in Ttls, ImportCommit(k, p, ttl)
      PROVE  UNCHANGED memoryVars
  BY <1>9 DEF ImportCommit
<1>. QED
  BY <1>1, <1>2, <1>3, <1>4, <1>5, <1>6, <1>7, <1>8, <1>9 DEF StickyNext

-----------------------------------------------------------------------------
\* The fields of the three sets of mutations.
LEMMA QueueFields ==
  ASSUME StickyTypeOK
  PROVE  /\ pending.upserts \in Table /\ batch.upserts \in Table /\ todo.upserts \in Table
         /\ durable \in Table /\ entries \in Table /\ restored \in Table
         /\ pending.deletes \subseteq Keys /\ batch.deletes \subseteq Keys /\ todo.deletes \subseteq Keys
         /\ pending.evictions \subseteq StickyProviders /\ batch.evictions \subseteq StickyProviders
         /\ todo.evictions \subseteq StickyProviders
         /\ pending.cleanupBefore \in Nat /\ batch.cleanupBefore \in Nat /\ todo.cleanupBefore \in Nat
         /\ now \in Nat
BY MutationFields DEF StickyTypeOK

\* Swapping the queue for an empty one.
LEMMA SwapShapes ==
  ASSUME StickyTypeOK, WorkerShaped, Swap, now' = now
  PROVE  WorkerShaped'
BY EmptyMutations, QueueFields DEF Swap, WorkerShaped

\* One store call: what it does to the rows and what it leaves to do.
LEMMA ApplyCases ==
  ASSUME StickyTypeOK, Apply
  PROVE  \/ \E p \in todo.evictions :
              /\ \A k \in Keys : durable'[k] = IF durable[k] /= None /\ durable[k].provider = p
                                                 THEN None ELSE durable[k]
              /\ todo'.evictions = todo.evictions \ {p} /\ todo'.deletes = todo.deletes
              /\ todo'.upserts = todo.upserts /\ todo'.cleanupBefore = todo.cleanupBefore
         \/ /\ todo.evictions = {}
            /\ \E k \in todo.deletes :
                 /\ \A j \in Keys : durable'[j] = IF j = k THEN None ELSE durable[j]
                 /\ todo'.evictions = {} /\ todo'.deletes = todo.deletes \ {k}
                 /\ todo'.upserts = todo.upserts /\ todo'.cleanupBefore = todo.cleanupBefore
         \/ /\ todo.evictions = {} /\ todo.deletes = {}
            /\ \E k \in Keys :
                 /\ todo.upserts[k] /= None
                 /\ \A j \in Keys : durable'[j] = IF j = k THEN todo.upserts[k] ELSE durable[j]
                 /\ \A j \in Keys : todo'.upserts[j] = IF j = k THEN None ELSE todo.upserts[j]
                 /\ todo'.evictions = {} /\ todo'.deletes = {}
                 /\ todo'.cleanupBefore = todo.cleanupBefore
         \/ /\ todo.evictions = {} /\ todo.deletes = {} /\ todo.upserts = NoEntries
            /\ todo.cleanupBefore /= 0
            /\ \A j \in Keys : durable'[j] =
                 IF durable[j] /= None /\ durable[j].expires <= todo.cleanupBefore - 1
                 THEN None ELSE durable[j]
            /\ todo'.evictions = {} /\ todo'.deletes = {} /\ todo'.upserts = NoEntries
            /\ todo'.cleanupBefore = 0
<1>0. /\ todo.upserts \in Table /\ todo.deletes \subseteq Keys /\ durable \in Table /\ todo \in Mutations
  BY QueueFields DEF StickyTypeOK
<1>1. ASSUME NEW p \in todo.evictions, durable' = Without(durable, p),
             todo' = [todo EXCEPT !.evictions = @ \ {p}]
      PROVE  /\ \A k \in Keys : durable'[k] = IF durable[k] /= None /\ durable[k].provider = p
                                                THEN None ELSE durable[k]
             /\ todo'.evictions = todo.evictions \ {p} /\ todo'.deletes = todo.deletes
             /\ todo'.upserts = todo.upserts /\ todo'.cleanupBefore = todo.cleanupBefore
  BY <1>0, <1>1 DEF Without, Mutations
<1>2. ASSUME todo.evictions = {}, NEW k \in todo.deletes, durable' = [durable EXCEPT ![k] = None],
             todo' = [todo EXCEPT !.deletes = @ \ {k}]
      PROVE  /\ \A j \in Keys : durable'[j] = IF j = k THEN None ELSE durable[j]
             /\ todo'.evictions = {} /\ todo'.deletes = todo.deletes \ {k}
             /\ todo'.upserts = todo.upserts /\ todo'.cleanupBefore = todo.cleanupBefore
  BY <1>0, <1>2 DEF Table, Mutations
<1>3. ASSUME todo.evictions = {}, todo.deletes = {}, NEW k \in Keys,
             durable' = [durable EXCEPT ![k] = todo.upserts[k]],
             todo' = [todo EXCEPT !.upserts[k] = None]
      PROVE  /\ \A j \in Keys : durable'[j] = IF j = k THEN todo.upserts[k] ELSE durable[j]
             /\ \A j \in Keys : todo'.upserts[j] = IF j = k THEN None ELSE todo.upserts[j]
             /\ todo'.evictions = {} /\ todo'.deletes = {}
             /\ todo'.cleanupBefore = todo.cleanupBefore
  BY <1>0, <1>3 DEF Table, Mutations
<1>4. ASSUME todo.evictions = {}, todo.deletes = {}, todo.upserts = NoEntries,
             durable' = Sweep(durable, todo.cleanupBefore - 1),
             todo' = [todo EXCEPT !.cleanupBefore = 0]
      PROVE  /\ \A j \in Keys : durable'[j] =
                   IF durable[j] /= None /\ durable[j].expires <= todo.cleanupBefore - 1
                   THEN None ELSE durable[j]
             /\ todo'.evictions = {} /\ todo'.deletes = {} /\ todo'.upserts = NoEntries
             /\ todo'.cleanupBefore = 0
  BY <1>0, <1>4 DEF Sweep, Mutations
<1>. QED
  BY <1>1, <1>2, <1>3, <1>4 DEF Apply

\* Every step keeps the shape of what is queued and in flight.
LEMMA WorkerKept ==
  ASSUME StickyTypeOK, StickyTypeOK', WorkerShaped, [StickyNext]_stickyVars
  PROVE  WorkerShaped'
<1>. USE QueueFields DEF WorkerShaped
<1>1. ASSUME NEW k \in Keys, NEW p \in StickyProviders, NEW ttl \in Ttls, Set(k, p, ttl)
      PROVE  WorkerShaped'
  <2>1. \A j \in Keys : j /= k => pending'.upserts[j] = pending.upserts[j]
    BY <1>1, QueuedBySet DEF Table
  <2>2. pending'.deletes = pending.deletes \ {k} /\ pending'.cleanupBefore = pending.cleanupBefore
    BY <1>1, QueuedBySet
  <2>. QED
    BY <1>1, <2>1, <2>2 DEF Set, Operation, workerVars
<1>2. ASSUME NEW k \in Keys, Delete(k)
      PROVE  WorkerShaped'
  <2>1. \A j \in Keys : pending'.upserts[j] = IF j = k THEN None ELSE pending.upserts[j]
    BY <1>2, QueuedByDelete DEF Table
  <2>2. pending'.deletes = pending.deletes \cup {k} /\ pending'.cleanupBefore = pending.cleanupBefore
    BY <1>2, QueuedByDelete
  <2>. QED
    BY <1>2, <2>1, <2>2 DEF Delete, Operation, workerVars
<1>3. ASSUME NEW p \in Evictable, EvictProvider(p)
      PROVE  WorkerShaped'
  <2>1. \A j \in Keys : pending'.upserts[j] \in {None, pending.upserts[j]}
    BY <1>3, QueuedByEviction DEF Without
  <2>2. pending'.deletes = pending.deletes /\ pending'.cleanupBefore = pending.cleanupBefore
    BY <1>3, QueuedByEviction
  <2>. QED
    BY <1>3, <2>1, <2>2 DEF EvictProvider, Operation, workerVars
<1>4. CASE Cleanup
  <2>1. \A j \in Keys : pending'.upserts[j] \in {None, pending.upserts[j]}
    BY <1>4, QueuedByCleanup DEF Sweep
  <2>2. pending'.deletes = pending.deletes /\ pending'.cleanupBefore = now + 1
    BY <1>4, QueuedByCleanup
  <2>. QED
    BY <1>4, <2>1, <2>2 DEF Cleanup, Operation, workerVars
<1>5. CASE FlushBegin
  BY <1>5, SwapShapes DEF FlushBegin, clockVars
<1>6. CASE Apply
  <2>1. worker' = "apply" /\ batch' = batch /\ pending' = pending /\ now' = now
    BY <1>6 DEF Apply, clockVars
  <2>2. /\ todo'.evictions \subseteq todo.evictions /\ todo'.deletes \subseteq todo.deletes
        /\ \A k \in Keys : todo'.upserts[k] \in {None, todo.upserts[k]}
        /\ todo'.cleanupBefore <= todo.cleanupBefore
    BY <1>6, ApplyCases, EmptyMutations
  <2>3. todo'.cleanupBefore \in Nat
    BY DEF StickyTypeOK, Mutations
  <2>. QED
    BY <2>1, <2>2, <2>3
<1>7. CASE FlushEnd
  BY <1>7, EmptyMutations DEF FlushEnd, clockVars
<1>8. CASE FlushFails
  <2>1. \A k \in Keys : Requeued.upserts[k] /= None => k \notin Requeued.deletes
    BY RequeuedFields
  <2>2. Requeued.cleanupBefore <= now + 1
    BY RequeuedFields
  <2>. QED
    BY <1>8, <2>1, <2>2, EmptyMutations DEF FlushFails
<1>9. CASE Close
  <2>1. CASE Swap
    BY <1>9, <2>1, SwapShapes DEF Close, clockVars
  <2>2. CASE UNCHANGED <<pending, worker, batch, todo>>
    BY <1>9, <2>2 DEF Close, clockVars
  <2>. QED
    BY <1>9, <2>1, <2>2 DEF Close
<1>10. ASSUME UNCHANGED <<pending, worker, batch, todo>>, now' \in Nat, now' >= now
       PROVE  WorkerShaped'
  BY <1>10
<1>11. ASSUME NEW k \in Importable, NEW p \in StickyProviders, NEW ttl \in Ttls, ImportCommit(k, p, ttl)
       PROVE  WorkerShaped'
  BY <1>10, <1>11 DEF ImportCommit, Operation, workerVars
<1>12. ASSUME NEW k \in Keys, MergeRestoredEntries(k)
       PROVE  WorkerShaped'
  BY <1>10, <1>12 DEF MergeRestoredEntries, clockVars, workerVars
<1>13. CASE Restart
  BY <1>13, EmptyMutations DEF Restart
<1>14. CASE StickyTick
  BY <1>10, <1>14 DEF StickyTick, workerVars
<1>15. CASE UNCHANGED stickyVars
  BY <1>10, <1>15 DEF stickyVars, clockVars, workerVars
<1>. QED
  BY <1>1, <1>2, <1>3, <1>4, <1>5, <1>6, <1>7, <1>8, <1>9, <1>11, <1>12, <1>13, <1>14, <1>15
     DEF StickyNext, WorkerStep

-----------------------------------------------------------------------------
\* Evictions.
LEMMA SwapKeepsEvictions ==
  ASSUME StickyTypeOK, WorkerShaped, EvictionsAhead, Swap, UNCHANGED <<durable, rebound>>
  PROVE  EvictionsAhead'
BY EmptyMutations DEF Swap, WorkerShaped, EvictionsAhead

\* A binding older than an eviction keeps having it ahead, through a requeue too.
LEMMA EvictionsKept ==
  ASSUME StickyTypeOK, StickyTypeOK', WorkerShaped, EvictionsAhead, [StickyNext]_stickyVars
  PROVE  EvictionsAhead'
<1>. USE QueueFields DEF EvictionsAhead
<1>1. ASSUME NEW k \in Keys, NEW p \in StickyProviders, NEW ttl \in Ttls, Set(k, p, ttl)
      PROVE  EvictionsAhead'
  <2>1. \A j \in Keys : j /= k => pending'.upserts[j] = pending.upserts[j]
    BY <1>1, QueuedBySet DEF Table
  <2>2. pending'.upserts[k].provider = p /\ pending'.evictions = pending.evictions
    BY <1>1, QueuedBySet DEF Table
  <2>3. \A q \in StickyProviders : rebound[q] \subseteq rebound'[q]
    BY <1>1 DEF Set, StickyTypeOK
  <2>4. k \in rebound'[p]
    BY <1>1 DEF Set, StickyTypeOK
  <2>5. UNCHANGED <<batch, todo, durable>>
    BY <1>1 DEF Set, workerVars
  <2>. QED
    BY <2>1, <2>2, <2>3, <2>4, <2>5, EntryFields
<1>2. ASSUME NEW k \in Keys, Delete(k)
      PROVE  EvictionsAhead'
  <2>1. \A j \in Keys : pending'.upserts[j] = IF j = k THEN None ELSE pending.upserts[j]
    BY <1>2, QueuedByDelete DEF Table
  <2>2. pending'.evictions = pending.evictions
    BY <1>2, QueuedByDelete
  <2>. QED
    BY <1>2, <2>1, <2>2 DEF Delete, workerVars
<1>3. ASSUME NEW p \in Evictable, EvictProvider(p)
      PROVE  EvictionsAhead'
  <2>1. \A j \in Keys : pending'.upserts[j] /= None =>
          pending'.upserts[j] = pending.upserts[j] /\ pending.upserts[j].provider /= p
    BY <1>3, QueuedByEviction DEF Without
  <2>2. pending'.evictions = pending.evictions \cup {p}
    BY <1>3, QueuedByEviction
  <2>3. \A q \in StickyProviders : q /= p => rebound'[q] = rebound[q]
    BY <1>3 DEF EvictProvider, StickyTypeOK
  <2>4. UNCHANGED <<batch, todo, durable>>
    BY <1>3 DEF EvictProvider, workerVars
  <2>. QED
    BY <2>1, <2>2, <2>3, <2>4, EntryFields
<1>4. CASE Cleanup
  <2>1. \A j \in Keys : pending'.upserts[j] \in {None, pending.upserts[j]}
    BY <1>4, QueuedByCleanup DEF Sweep
  <2>2. pending'.evictions = pending.evictions
    BY <1>4, QueuedByCleanup
  <2>. QED
    BY <1>4, <2>1, <2>2 DEF Cleanup, workerVars
<1>5. CASE FlushBegin
  BY <1>5, SwapKeepsEvictions DEF FlushBegin, history
<1>6. CASE Apply
  <2>1. UNCHANGED <<pending, batch, rebound>>
    BY <1>6 DEF Apply, history
  <2>2. ASSUME NEW j \in Keys, durable'[j] /= None
        PROVE  \/ j \in rebound[durable'[j].provider]
               \/ durable'[j].provider \in pending.evictions \cup todo'.evictions
    BY <1>6, <2>2, ApplyCases, EntryFields DEF WorkerShaped
  <2>. QED
    BY <2>1, <2>2
<1>7. CASE FlushEnd
  BY <1>7, EmptyMutations DEF FlushEnd, history
<1>8. CASE FlushFails
  <2>1. pending' = Requeued /\ UNCHANGED <<durable, rebound>>
    BY <1>8 DEF FlushFails
  <2>2. batch' = newStickyPendingMutations /\ todo' = newStickyPendingMutations
    BY <1>8 DEF FlushFails
  <2>3. ASSUME NEW j \in Keys, Requeued.upserts[j] /= None
        PROVE  j \in rebound[Requeued.upserts[j].provider]
    BY <2>3, RequeuedFields
  <2>4. pending.evictions \cup todo.evictions \subseteq Requeued.evictions
    BY RequeuedFields DEF WorkerShaped
  <2>. QED
    BY <2>1, <2>2, <2>3, <2>4, EmptyMutations
<1>9. CASE Close
  <2>1. CASE Swap
    BY <1>9, <2>1, SwapKeepsEvictions DEF Close, history
  <2>2. CASE UNCHANGED <<pending, worker, batch, todo>>
    BY <1>9, <2>2 DEF Close, history
  <2>. QED
    BY <1>9, <2>1, <2>2 DEF Close
<1>10. ASSUME NEW k \in Importable, NEW p \in StickyProviders, NEW ttl \in Ttls, ImportCommit(k, p, ttl)
       PROVE  EvictionsAhead'
  <2>0. k \in Keys
    BY ScopeAssumption
  <2>1. \A j \in Keys : j /= k => durable'[j] = durable[j]
    BY <1>10, <2>0 DEF ImportCommit, Table
  <2>2. \A q \in StickyProviders : rebound[q] \subseteq rebound'[q]
    BY <1>10 DEF ImportCommit, StickyTypeOK
  <2>3. UNCHANGED <<pending, batch, todo>>
    BY <1>10 DEF ImportCommit, workerVars
  <2>4. durable'[k] = durable[k] \/ (durable'[k].provider = p /\ k \in rebound'[p])
    BY <1>10, <2>0 DEF ImportCommit, Table, StickyTypeOK
  <2>. QED
    BY <2>0, <2>1, <2>2, <2>3, <2>4, EntryFields
<1>11. ASSUME NEW k \in Keys, MergeRestoredEntries(k)
       PROVE  EvictionsAhead'
  BY <1>11 DEF MergeRestoredEntries, workerVars
<1>12. CASE Restart
  <2>1. \A j \in Keys : durable[j] /= None => j \in IndexOf(durable)[durable[j].provider]
    BY EntryFields DEF IndexOf
  <2>. QED
    BY <1>12, <2>1, EmptyMutations DEF Restart
<1>13. CASE StickyTick
  BY <1>13 DEF StickyTick, workerVars, history
<1>14. CASE UNCHANGED stickyVars
  BY <1>14 DEF stickyVars, workerVars, history
<1>. QED
  BY <1>1, <1>2, <1>3, <1>4, <1>5, <1>6, <1>7, <1>8, <1>9, <1>10, <1>11, <1>12, <1>13, <1>14
     DEF StickyNext, WorkerStep

-----------------------------------------------------------------------------
\* Where the row of a key is heading, and what a requeue drops, spelt out.
HeadingSpelt(k) ==
  Heading(k) =
    IF pending.upserts[k] /= None THEN pending.upserts[k]
    ELSE IF k \in pending.deletes THEN None
    ELSE LET row == IF todo.upserts[k] /= None THEN todo.upserts[k]
                    ELSE IF k \in todo.deletes THEN None
                    ELSE IF durable[k] /= None /\ durable[k].provider \in todo.evictions
                    THEN None ELSE durable[k]
         IN  IF row /= None /\ row.provider \in pending.evictions THEN None ELSE row

FailureSpelt(k) ==
  HeadingIfFailed(k) =
    IF pending.upserts[k] /= None THEN pending.upserts[k]
    ELSE IF k \in pending.deletes \cup batch.deletes THEN None
    ELSE IF /\ batch.upserts[k] /= None
            /\ batch.upserts[k].provider \notin pending.evictions \cup batch.evictions
    THEN batch.upserts[k]
    ELSE IF durable[k] /= None /\ durable[k].provider \in pending.evictions \cup batch.evictions
    THEN None ELSE durable[k]

DropSpelt(k) ==
  k \in RequeueDrops <=>
    /\ batch.upserts[k] /= None
    /\ batch.upserts[k].provider \in pending.evictions \cup batch.evictions
    /\ k \notin pending.deletes /\ pending.upserts[k] = None

\* The two destinations of a row follow the order in which mutations are applied.
LEMMA Headings ==
  StickyTypeOK => \A k \in Keys : HeadingSpelt(k) /\ FailureSpelt(k) /\ DropSpelt(k)
BY RequeuedFields, QueueFields DEF Heading, HeadingIfFailed, Applied, RequeueDrops, Dropped,
   HeadingSpelt, FailureSpelt, DropSpelt

\* The same in the next state.
LEMMA HeadingsNext ==
  StickyTypeOK' => (\A k \in Keys : HeadingSpelt(k) /\ FailureSpelt(k) /\ DropSpelt(k))'
BY Headings, PTL

\* A sweep spares what is still live, and what is live now was live before.
LEMMA LiveIsOlder ==
  ASSUME now \in Nat, now' \in Nat, now <= now', NEW e \in Entry \cup {None}
  PROVE  /\ (e /= None /\ e.expires > now') => Live(e)
         /\ e /= None => e.expires \in Nat
BY DEF Live, Entry

\* A key whose queues and row stay as they are, while memory and the merge do not
\* change either, keeps converging as time passes.
LEMMA StillConverging ==
  ASSUME StickyTypeOK, StickyTypeOK', NEW j \in Keys, Converging(j), now <= now',
         UNCHANGED <<pending, batch, todo>>,
         durable'[j] = durable[j], entries'[j] = entries[j], restored'[j] = restored[j]
  PROVE  Converging(j)'
<1>1. /\ Heading(j)' = Heading(j) /\ HeadingIfFailed(j)' = HeadingIfFailed(j)
      /\ j \in RequeueDrops' <=> j \in RequeueDrops
  BY Headings, HeadingsNext DEF HeadingSpelt, FailureSpelt, DropSpelt
<1>2. /\ Heading(j) \in Entry \cup {None} /\ HeadingIfFailed(j) \in Entry \cup {None}
      /\ entries[j] \in Entry \cup {None} /\ pending.upserts[j] \in Entry \cup {None}
      /\ batch.upserts[j] \in Entry \cup {None}
  BY Headings, QueueFields DEF Table, HeadingSpelt, FailureSpelt
<1>3. now \in Nat /\ now' \in Nat
  BY DEF StickyTypeOK
<1>4. \A e \in Entry \cup {None} : (e /= None /\ e.expires > now') => Live(e)
  BY <1>3, LiveIsOlder
<1>5. QueueIsMemory(j)'
  BY <1>2, <1>4 DEF Converging, QueueIsMemory, Live
<1>6. Agrees(Heading(j), j)'
  BY <1>1, <1>2, <1>4 DEF Converging, Agrees, Live
<1>7. j \notin RequeueDrops' => Agrees(HeadingIfFailed(j), j)'
  BY <1>1, <1>2, <1>4 DEF Converging, Agrees, Live
<1>. QED
  BY <1>5, <1>6, <1>7 DEF Converging

\* Set binds memory and the queue to one entry.
LEMMA SetConverges ==
  ASSUME StickyInv, StickyTypeOK', NEW k \in Keys, NEW p \in StickyProviders, NEW ttl \in Ttls,
         Set(k, p, ttl), NEW j \in Keys \ astray'
  PROVE  Converging(j)'
<1>. DEFINE e == [provider |-> p, expires |-> now + ttl]
<1>0. StickyTypeOK
  BY DEF StickyInv
<1>1. e \in Entry /\ e /= None
  BY <1>0, TtlAssumption, FreshEntries DEF StickyTypeOK
<1>2. /\ \A i \in Keys : entries'[i] = IF i = k THEN e ELSE entries[i]
      /\ \A i \in Keys : pending'.upserts[i] = IF i = k THEN e ELSE pending.upserts[i]
      /\ pending'.deletes = pending.deletes \ {k} /\ pending'.evictions = pending.evictions
  <2>1. \A i \in Keys : entries'[i] = IF i = k THEN e ELSE entries[i]
    BY <1>0, QueueFields DEF Set, setLocked, Table
  <2>. QED
    BY <1>0, <2>1, QueuedBySet, QueueFields DEF Table
<1>3. UNCHANGED <<batch, todo, durable, restored, now>>
  BY DEF Set, Operation, workerVars
<1>. HIDE DEF e
<1>4. CASE j = k
  <2>1. Heading(j)' = e /\ HeadingIfFailed(j)' = e
    BY <1>1, <1>2, <1>4, HeadingsNext DEF HeadingSpelt, FailureSpelt
  <2>. QED
    BY <1>1, <1>2, <1>4, <2>1 DEF Converging, QueueIsMemory, Agrees, Live
<1>5. CASE j /= k
  <2>1. Converging(j)
    BY <1>5 DEF StickyInv, Set
  <2>2. /\ Heading(j)' = Heading(j) /\ HeadingIfFailed(j)' = HeadingIfFailed(j)
        /\ j \in RequeueDrops' <=> j \in RequeueDrops
    BY <1>0, <1>2, <1>3, <1>5, Headings, HeadingsNext DEF HeadingSpelt, FailureSpelt, DropSpelt
  <2>. QED
    BY <1>2, <1>3, <1>5, <2>1, <2>2 DEF Converging, QueueIsMemory, Agrees, Live
<1>. QED
  BY <1>4, <1>5

\* Delete removes the binding from memory and heads the row to nothing.
LEMMA DeleteConverges ==
  ASSUME StickyInv, StickyTypeOK', NEW k \in Keys, Delete(k), NEW j \in Keys \ astray'
  PROVE  Converging(j)'
<1>0. StickyTypeOK
  BY DEF StickyInv
<1>2. /\ \A i \in Keys : entries'[i] = IF i = k THEN None ELSE entries[i]
      /\ \A i \in Keys : pending'.upserts[i] = IF i = k THEN None ELSE pending.upserts[i]
      /\ pending'.deletes = pending.deletes \cup {k} /\ pending'.evictions = pending.evictions
  <2>1. \A i \in Keys : entries'[i] = IF i = k THEN None ELSE entries[i]
    BY <1>0, QueueFields DEF Delete, deleteEntryLocked, Table
  <2>. QED
    BY <1>0, <2>1, QueuedByDelete, QueueFields DEF Table
<1>3. UNCHANGED <<batch, todo, durable, restored, now>>
  BY DEF Delete, Operation, workerVars
<1>4. CASE j = k
  <2>1. Heading(j)' = None /\ HeadingIfFailed(j)' = None
    BY <1>2, <1>4, HeadingsNext DEF HeadingSpelt, FailureSpelt
  <2>. QED
    BY <1>2, <1>4, <2>1 DEF Converging, QueueIsMemory, Agrees, Live
<1>5. CASE j /= k
  <2>1. Converging(j)
    BY <1>5 DEF StickyInv, Delete
  <2>2. /\ Heading(j)' = Heading(j) /\ HeadingIfFailed(j)' = HeadingIfFailed(j)
        /\ j \in RequeueDrops' <=> j \in RequeueDrops
    BY <1>0, <1>2, <1>3, <1>5, Headings, HeadingsNext DEF HeadingSpelt, FailureSpelt, DropSpelt
  <2>. QED
    BY <1>2, <1>3, <1>5, <2>1, <2>2 DEF Converging, QueueIsMemory, Agrees, Live
<1>. QED
  BY <1>4, <1>5

\* An eviction removes from memory exactly what it removes from a row's destination.
LEMMA EvictionConverges ==
  ASSUME StickyInv, StickyTypeOK', NEW p \in Evictable, EvictProvider(p), NEW j \in Keys \ astray'
  PROVE  Converging(j)'
<1>0. StickyTypeOK /\ p \in StickyProviders
  BY ScopeAssumption DEF StickyInv
<1>1. Converging(j)
  BY DEF StickyInv, EvictProvider
<1>2. entries'[j] = IF entries[j] /= None /\ entries[j].provider = p THEN None ELSE entries[j]
  <2>1. j \in providerKeys[p] <=> entries[j] /= None /\ entries[j].provider = p
    BY <1>0 DEF StickyInv, ProviderKeysExact, IndexOf
  <2>. QED  BY <2>1 DEF EvictProvider, evictLocked
<1>3. /\ pending'.upserts[j] = pending.upserts[j]
      /\ pending.upserts[j] /= None => pending.upserts[j].provider /= p
  BY <1>0, QueuedByEviction DEF EvictProvider, Dropped, Without
<1>4. pending'.deletes = pending.deletes /\ pending'.evictions = pending.evictions \cup {p}
  BY <1>0, QueuedByEviction
<1>5. UNCHANGED <<batch, todo, durable, restored, now>>
  BY DEF EvictProvider, Operation, workerVars
<1>6. Heading(j)' = IF Heading(j) /= None /\ Heading(j).provider = p THEN None ELSE Heading(j)
  BY <1>0, <1>3, <1>4, <1>5, Headings, HeadingsNext DEF HeadingSpelt
<1>7. j \notin RequeueDrops' =>
        /\ j \notin RequeueDrops
        /\ HeadingIfFailed(j)' = IF HeadingIfFailed(j) /= None /\ HeadingIfFailed(j).provider = p
                                 THEN None ELSE HeadingIfFailed(j)
  BY <1>0, <1>3, <1>4, <1>5, Headings, HeadingsNext DEF FailureSpelt, DropSpelt
<1>8. QueueIsMemory(j)'
  BY <1>1, <1>2, <1>3, <1>4, <1>5 DEF Converging, QueueIsMemory, Live
<1>9. Agrees(Heading(j), j)'
  BY <1>1, <1>2, <1>5, <1>6 DEF Converging, Agrees, Live
<1>10. j \notin RequeueDrops' => Agrees(HeadingIfFailed(j), j)'
  BY <1>1, <1>2, <1>5, <1>7 DEF Converging, Agrees, Live
<1>. QED
  BY <1>8, <1>9, <1>10 DEF Converging

\* A sweep only drops what is dead; a queued upsert that hid a longer-lived row is astray.
LEMMA CleanupConverges ==
  ASSUME StickyInv, StickyTypeOK', Cleanup, NEW j \in Keys \ astray'
  PROVE  Converging(j)'
<1>0. StickyTypeOK /\ WorkerShaped
  BY DEF StickyInv
<1>1. Converging(j)
  BY DEF StickyInv, Cleanup
<1>2. entries'[j] = IF entries[j] /= None /\ entries[j].expires <= now THEN None ELSE entries[j]
  BY DEF Cleanup, Sweep
<1>3. pending'.upserts[j] = IF pending.upserts[j] /= None /\ pending.upserts[j].expires <= now
                            THEN None ELSE pending.upserts[j]
  BY <1>0, QueuedByCleanup DEF Sweep
<1>4. pending'.deletes = pending.deletes /\ pending'.evictions = pending.evictions
  BY <1>0, QueuedByCleanup
<1>5. UNCHANGED <<batch, todo, durable, restored, now>>
  BY DEF Cleanup, Operation, workerVars
<1>6. /\ entries[j] /= None => entries[j].expires \in Nat
      /\ pending.upserts[j] /= None => pending.upserts[j].expires \in Nat
                                      /\ pending.upserts[j].provider \in StickyProviders
      /\ now \in Nat
  BY <1>0, QueueFields, EntryFields
<1>7. CASE pending'.upserts[j] = pending.upserts[j]
  <2>1. /\ Heading(j)' = Heading(j) /\ HeadingIfFailed(j)' = HeadingIfFailed(j)
        /\ j \in RequeueDrops' <=> j \in RequeueDrops
    BY <1>0, <1>4, <1>5, <1>7, Headings, HeadingsNext DEF HeadingSpelt, FailureSpelt, DropSpelt
  <2>. QED
    BY <1>1, <1>2, <1>4, <1>5, <1>6, <1>7, <2>1 DEF Converging, QueueIsMemory, Agrees, Live
<1>8. CASE pending'.upserts[j] /= pending.upserts[j]
  <2>1. pending.upserts[j] /= None /\ ~Live(pending.upserts[j]) /\ pending'.upserts[j] = None
    BY <1>3, <1>6, <1>8 DEF Live
  <2>2. ~Live(durable[j]) /\ ~Live(batch.upserts[j])
    BY <1>6, <2>1 DEF Cleanup, Dropped
  <2>3. ~Live(entries[j])
    BY <1>0, <1>1, <2>1, Headings DEF Converging, Agrees, HeadingSpelt
  <2>4. ~Live(Heading(j))' /\ ~Live(HeadingIfFailed(j))'
    BY <1>0, <1>4, <1>5, <2>1, <2>2, HeadingsNext
       DEF HeadingSpelt, FailureSpelt, WorkerShaped, Live
  <2>. QED
    BY <1>2, <1>5, <2>1, <2>2, <2>3, <2>4 DEF Converging, QueueIsMemory, Agrees, Live
<1>. QED
  BY <1>7, <1>8

\* Swapping the queue: the batch is what was queued, the queue is empty.
LEMMA SwapConverges ==
  ASSUME StickyInv, StickyTypeOK', Swap, UNCHANGED <<durable, entries, restored, now>>,
         NEW j \in Keys \ astray
  PROVE  Converging(j)'
<1>0. StickyTypeOK /\ WorkerShaped /\ Converging(j)
  BY DEF StickyInv
<1>1. /\ batch.upserts[j] = None /\ batch.deletes = {} /\ batch.evictions = {}
      /\ todo.upserts[j] = None /\ todo.deletes = {} /\ todo.evictions = {}
  BY <1>0, EmptyMutations DEF Swap, WorkerShaped
<1>2. /\ pending'.upserts[j] = None /\ pending'.deletes = {} /\ pending'.evictions = {}
      /\ batch' = pending /\ todo' = pending
  BY EmptyMutations DEF Swap
<1>3. Heading(j)' = Heading(j)
  BY <1>0, <1>1, <1>2, Headings, HeadingsNext DEF HeadingSpelt
<1>4. j \notin RequeueDrops' => HeadingIfFailed(j)' = Heading(j)
  BY <1>0, <1>1, <1>2, Headings, HeadingsNext DEF HeadingSpelt, FailureSpelt, DropSpelt, WorkerShaped
<1>5. QueueIsMemory(j)'
  BY <1>0, <1>2 DEF Converging, QueueIsMemory, Live
<1>. QED
  BY <1>0, <1>3, <1>4, <1>5 DEF Converging, Agrees, Live

\* A store call moves a row along its way without changing where it is heading.
LEMMA ApplyConverges ==
  ASSUME StickyInv, StickyTypeOK', Apply, NEW j \in Keys \ astray'
  PROVE  Converging(j)'
<1>0. StickyTypeOK /\ WorkerShaped
  BY DEF StickyInv
<1>1. Converging(j)
  BY DEF StickyInv, Apply, history
<1>2. UNCHANGED <<pending, batch, entries, restored, now>>
  BY DEF Apply, clockVars, memoryVars
<1>3. j \in RequeueDrops' <=> j \in RequeueDrops
  BY <1>0, <1>2, Headings, HeadingsNext DEF DropSpelt
<1>4. QueueIsMemory(j)'
  BY <1>1, <1>2 DEF Converging, QueueIsMemory, Live
<1>5. ASSUME Heading(j)' = Heading(j),
             j \notin RequeueDrops => HeadingIfFailed(j)' = HeadingIfFailed(j)
      PROVE  Converging(j)'
  BY <1>1, <1>2, <1>3, <1>4, <1>5 DEF Converging, Agrees, Live
<1>6. ASSUME NEW p \in todo.evictions,
             \A k \in Keys : durable'[k] = IF durable[k] /= None /\ durable[k].provider = p
                                            THEN None ELSE durable[k],
             todo'.evictions = todo.evictions \ {p}, todo'.deletes = todo.deletes,
             todo'.upserts = todo.upserts
      PROVE  Converging(j)'
  <2>1. Heading(j)' = Heading(j)
    BY <1>0, <1>2, <1>6, Headings, HeadingsNext DEF HeadingSpelt
  <2>2. HeadingIfFailed(j)' = HeadingIfFailed(j)
    BY <1>0, <1>2, <1>6, Headings, HeadingsNext DEF FailureSpelt, WorkerShaped
  <2>. QED  BY <1>5, <2>1, <2>2
<1>7. ASSUME NEW k \in todo.deletes,
             \A i \in Keys : durable'[i] = IF i = k THEN None ELSE durable[i],
             todo.evictions = {}, todo'.evictions = {}, todo'.deletes = todo.deletes \ {k},
             todo'.upserts = todo.upserts
      PROVE  Converging(j)'
  <2>0. k \in Keys /\ k \in batch.deletes /\ todo.upserts[k] = None /\ batch.upserts[k] = None
    BY <1>0, <1>7, QueueFields DEF WorkerShaped
  <2>1. Heading(j)' = Heading(j)
    BY <1>0, <1>2, <1>7, <2>0, Headings, HeadingsNext DEF HeadingSpelt
  <2>2. HeadingIfFailed(j)' = HeadingIfFailed(j)
    BY <1>0, <1>2, <1>7, <2>0, Headings, HeadingsNext DEF FailureSpelt
  <2>. QED  BY <1>5, <2>1, <2>2
<1>8. ASSUME NEW k \in Keys, todo.upserts[k] /= None, todo.evictions = {}, todo.deletes = {},
             \A i \in Keys : durable'[i] = IF i = k THEN todo.upserts[k] ELSE durable[i],
             \A i \in Keys : todo'.upserts[i] = IF i = k THEN None ELSE todo.upserts[i],
             todo'.evictions = {}, todo'.deletes = {}
      PROVE  Converging(j)'
  <2>0. todo.upserts[k] = batch.upserts[k] /\ k \notin batch.deletes
    BY <1>0, <1>8 DEF WorkerShaped
  <2>1. Heading(j)' = Heading(j)
    BY <1>0, <1>2, <1>8, <2>0, Headings, HeadingsNext DEF HeadingSpelt
  <2>2. j \notin RequeueDrops => HeadingIfFailed(j)' = HeadingIfFailed(j)
    BY <1>0, <1>2, <1>8, <2>0, Headings, HeadingsNext DEF FailureSpelt, DropSpelt
  <2>. QED  BY <1>5, <2>1, <2>2
<1>9. ASSUME todo.evictions = {}, todo.deletes = {}, todo.upserts = NoEntries,
             \A i \in Keys : durable'[i] =
                 IF durable[i] /= None /\ durable[i].expires <= todo.cleanupBefore - 1
                 THEN None ELSE durable[i],
             todo'.evictions = {}, todo'.deletes = {}, todo'.upserts = NoEntries
      PROVE  Converging(j)'
  <2>1. CASE durable'[j] = durable[j]
    <3>1. Heading(j)' = Heading(j)
      BY <1>0, <1>2, <1>9, <2>1, Headings, HeadingsNext DEF HeadingSpelt
    <3>2. HeadingIfFailed(j)' = HeadingIfFailed(j)
      BY <1>0, <1>2, <1>9, <2>1, Headings, HeadingsNext DEF FailureSpelt
    <3>. QED  BY <1>5, <3>1, <3>2
  <2>2. CASE durable'[j] /= durable[j]
    <3>1. durable'[j] = None /\ ~Live(durable[j])
      <4>1. durable'[j] = None /\ durable[j] /= None /\ durable[j].expires <= todo.cleanupBefore - 1
        BY <1>9, <2>2
      <4>2. durable[j].expires \in Nat /\ todo.cleanupBefore \in Nat /\ now \in Nat
        BY <1>0, <4>1, QueueFields, EntryFields
      <4>. QED  BY <1>0, <4>1, <4>2 DEF WorkerShaped, Live
    <3>2. \/ Heading(j)' = Heading(j)
          \/ Heading(j)' = None /\ ~Live(Heading(j))
      BY <1>0, <1>2, <1>9, <3>1, EmptyMutations, Headings, HeadingsNext DEF HeadingSpelt
    <3>3. \/ HeadingIfFailed(j)' = HeadingIfFailed(j)
          \/ HeadingIfFailed(j)' = None /\ ~Live(HeadingIfFailed(j))
      BY <1>0, <1>2, <1>9, <3>1, Headings, HeadingsNext DEF FailureSpelt
    <3>. QED
      BY <1>1, <1>2, <1>3, <1>4, <3>2, <3>3 DEF Converging, Agrees, Live
  <2>. QED  BY <2>1, <2>2
<1>. QED
  BY <1>0, <1>6, <1>7, <1>8, <1>9, ApplyCases

\* The batch ends: nothing was left of it.
LEMMA FlushEndConverges ==
  ASSUME StickyInv, StickyTypeOK', FlushEnd, NEW j \in Keys \ astray'
  PROVE  Converging(j)'
<1>0. StickyTypeOK /\ Converging(j)
  BY DEF StickyInv, FlushEnd, history
<1>1. /\ UNCHANGED <<pending, todo, durable, entries, restored, now>>
      /\ todo.upserts[j] = None /\ todo.deletes = {} /\ todo.evictions = {}
      /\ batch'.upserts[j] = None /\ batch'.deletes = {} /\ batch'.evictions = {}
  BY EmptyMutations DEF FlushEnd, clockVars, memoryVars
<1>2. Heading(j)' = Heading(j) /\ HeadingIfFailed(j)' = Heading(j)
  BY <1>0, <1>1, Headings, HeadingsNext DEF HeadingSpelt, FailureSpelt
<1>3. QueueIsMemory(j)'
  BY <1>0, <1>1 DEF Converging, QueueIsMemory, Live
<1>. QED
  BY <1>0, <1>1, <1>2, <1>3 DEF Converging, Agrees, Live

\* The batch fails: a row now heads where it headed in that case.
LEMMA FlushFailsConverges ==
  ASSUME StickyInv, StickyTypeOK', FlushFails, NEW j \in Keys \ astray'
  PROVE  Converging(j)'
<1>0. StickyTypeOK /\ Converging(j) /\ j \notin RequeueDrops
  BY DEF StickyInv, FlushFails
<1>1. /\ UNCHANGED <<durable, entries, restored, now>> /\ pending' = Requeued
      /\ batch' = newStickyPendingMutations /\ todo' = newStickyPendingMutations
  BY DEF FlushFails, memoryVars
<1>2. Heading(j)' = HeadingIfFailed(j) /\ HeadingIfFailed(j)' = HeadingIfFailed(j)
  BY <1>0, <1>1, EmptyMutations, HeadingsNext DEF HeadingSpelt, FailureSpelt, HeadingIfFailed, Applied
<1>3. QueueIsMemory(j)'
  <2>1. Requeued.upserts[j] /= None =>
          \/ Requeued.upserts[j] = pending.upserts[j]
          \/ /\ Requeued.upserts[j] = batch.upserts[j] /\ pending.upserts[j] = None
             /\ j \notin pending.deletes /\ batch.upserts[j].provider \notin pending.evictions
    BY <1>0, RequeuedFields
  <2>. QED
    BY <1>0, <1>1, <2>1, EmptyMutations DEF Converging, QueueIsMemory, Live
<1>. QED
  BY <1>0, <1>1, <1>2, <1>3 DEF Converging, Agrees, Live

\* An import commits a row for k where no live one is: a live binding in memory
\* has its own upsert on the way, anything else will be merged.
LEMMA ImportConverges ==
  ASSUME StickyInv, StickyTypeOK', NEW k \in Importable, NEW p \in StickyProviders, NEW ttl \in Ttls,
         ImportCommit(k, p, ttl), NEW j \in Keys \ astray'
  PROVE  Converging(j)'
<1>0. StickyTypeOK /\ Converging(j) /\ k \in Keys
  BY ScopeAssumption DEF StickyInv, ImportCommit
<1>1. UNCHANGED <<pending, batch, todo, entries, now>>
  BY DEF ImportCommit, Operation, workerVars, memoryVars
<1>2. \A i \in Keys : i /= k => durable'[i] = durable[i] /\ restored'[i] = restored[i]
  BY <1>0, QueueFields DEF ImportCommit, Table
<1>3. /\ restored'[k] = durable'[k] /\ restored[k] = None
      /\ Live(durable[k]) => durable'[k] = durable[k]
  BY <1>0, QueueFields, EmptyMutations DEF ImportCommit, Table
<1>4. CASE j /= k
  BY <1>0, <1>1, <1>2, <1>4, StillConverging, QueueFields
<1>5. CASE j = k
  <2>1. j \in RequeueDrops' <=> j \in RequeueDrops
    BY <1>0, <1>1, Headings, HeadingsNext DEF DropSpelt
  <2>2. QueueIsMemory(j)'
    BY <1>0, <1>1 DEF Converging, QueueIsMemory, Live
  <2>3. \/ Heading(j)' = Heading(j)
        \/ Heading(j)' \in {None, restored'[j]} /\ ~Live(Heading(j))
    BY <1>0, <1>1, <1>3, <1>5, Headings, HeadingsNext DEF HeadingSpelt, Live
  <2>4. \/ HeadingIfFailed(j)' = HeadingIfFailed(j)
        \/ HeadingIfFailed(j)' \in {None, restored'[j]} /\ ~Live(HeadingIfFailed(j))
    BY <1>0, <1>1, <1>3, <1>5, Headings, HeadingsNext DEF FailureSpelt, Live
  <2>6. Agrees(Heading(j), j)'
    BY <1>0, <1>1, <1>3, <1>5, <2>3 DEF Converging, Agrees, Live
  <2>7. j \notin RequeueDrops' => Agrees(HeadingIfFailed(j), j)'
    BY <1>0, <1>1, <1>3, <1>5, <2>1, <2>4 DEF Converging, Agrees, Live
  <2>. QED
    BY <2>2, <2>6, <2>7 DEF Converging
<1>. QED
  BY <1>4, <1>5

\* A merge either makes memory what the row is heading to, or is refused because
\* memory or a queued mutation already says where the row goes.
LEMMA MergeConverges ==
  ASSUME StickyInv, StickyTypeOK', NEW k \in Keys, MergeRestoredEntries(k), NEW j \in Keys \ astray'
  PROVE  Converging(j)'
<1>0. StickyTypeOK /\ WorkerShaped
  BY DEF StickyInv
<1>1. UNCHANGED <<pending, batch, todo, durable, now>>
  BY DEF MergeRestoredEntries, clockVars, workerVars
<1>2. \A i \in Keys : restored'[i] = IF i = k THEN None ELSE restored[i]
  BY <1>0, QueueFields DEF MergeRestoredEntries, Table
<1>3. \A i \in Keys : i /= k => entries'[i] = entries[i] /\ (i \in astray' <=> i \in astray)
  BY <1>0, QueueFields DEF MergeRestoredEntries, setLocked, memoryVars, Table
<1>4. CASE j /= k
  <2>1. Converging(j)
    BY <1>3, <1>4 DEF StickyInv
  <2>. QED
    BY <1>0, <1>1, <1>2, <1>3, <1>4, <2>1, StillConverging, QueueFields
<1>5. CASE j = k /\ ~(\/ k \in pending.deletes \/ restored[k].provider \in pending.evictions
                    \/ Live(entries[k]) \/ ~Live(restored[k]))
  <2>1. entries'[k] = restored[k] /\ restored[k] /= None
    BY <1>0, <1>5, QueueFields DEF MergeRestoredEntries, setLocked, Table
  <2>2. ~Overtaken(k)
    BY <1>5 DEF MergeRestoredEntries
  <2>3. /\ durable[k] = restored[k] /\ pending.upserts[k] = None /\ k \notin batch.deletes
        /\ batch.upserts[k] = None /\ restored[k].provider \notin batch.evictions
        /\ k \notin pending.deletes /\ restored[k].provider \notin pending.evictions
    BY <1>5, <2>2 DEF Overtaken
  <2>4. /\ todo.upserts[k] = None /\ k \notin todo.deletes
        /\ restored[k].provider \notin todo.evictions
    BY <1>0, <2>3 DEF WorkerShaped
  <2>5. Heading(j)' = restored[k] /\ HeadingIfFailed(j)' = restored[k]
    BY <1>1, <1>5, <2>3, <2>4, HeadingsNext DEF HeadingSpelt, FailureSpelt
  <2>. QED
    BY <1>1, <1>5, <2>1, <2>3, <2>5 DEF Converging, QueueIsMemory, Agrees, Live
<1>6. CASE j = k /\ (\/ k \in pending.deletes \/ restored[k].provider \in pending.evictions
                   \/ Live(entries[k]) \/ ~Live(restored[k]))
  <2>1. entries'[j] = entries[j] /\ Converging(j)
    BY <1>6 DEF MergeRestoredEntries, memoryVars, StickyInv
  <2>2. /\ Heading(j)' = Heading(j) /\ HeadingIfFailed(j)' = HeadingIfFailed(j)
        /\ j \in RequeueDrops' <=> j \in RequeueDrops
    BY <1>0, <1>1, Headings, HeadingsNext DEF HeadingSpelt, FailureSpelt, DropSpelt
  <2>3. QueueIsMemory(j)'
    BY <1>1, <2>1 DEF Converging, QueueIsMemory, Live
  <2>4. Live(Heading(j)) => Heading(j) = entries[j]
    <3>1. CASE k \in pending.deletes
      BY <1>0, <1>6, <3>1, Headings DEF HeadingSpelt, WorkerShaped, Live
    <3>2. CASE restored[k].provider \in pending.evictions
      BY <1>0, <1>6, <2>1, <3>2, Headings DEF HeadingSpelt, Converging, QueueIsMemory, Agrees, Live
    <3>3. CASE Live(entries[k]) \/ ~Live(restored[k])
      BY <1>6, <2>1, <3>3 DEF Converging, Agrees
    <3>. QED  BY <1>6, <3>1, <3>2, <3>3
  <2>5. j \notin RequeueDrops /\ Live(HeadingIfFailed(j)) => HeadingIfFailed(j) = entries[j]
    <3>1. CASE k \in pending.deletes
      BY <1>0, <1>6, <3>1, Headings DEF FailureSpelt, WorkerShaped, Live
    <3>2. CASE restored[k].provider \in pending.evictions
      BY <1>0, <1>6, <2>1, <3>2, Headings DEF FailureSpelt, Converging, QueueIsMemory, Agrees, Live
    <3>3. CASE Live(entries[k]) \/ ~Live(restored[k])
      BY <1>6, <2>1, <3>3 DEF Converging, Agrees
    <3>. QED  BY <1>6, <3>1, <3>2, <3>3
  <2>. QED
    BY <1>1, <2>1, <2>2, <2>3, <2>4, <2>5 DEF Converging, Agrees, Live
<1>. QED
  BY <1>4, <1>5, <1>6

\* A restart rebuilds memory from the rows.
LEMMA RestartConverges ==
  ASSUME StickyInv, StickyTypeOK', Restart, NEW j \in Keys \ astray'
  PROVE  Converging(j)'
<1>0. StickyTypeOK
  BY DEF StickyInv
<1>1. /\ pending' = newStickyPendingMutations /\ batch' = newStickyPendingMutations
      /\ todo' = newStickyPendingMutations /\ restored' = NoEntries /\ UNCHANGED <<durable, now>>
  BY DEF Restart
<1>2. Heading(j)' = durable[j] /\ HeadingIfFailed(j)' = durable[j]
  BY <1>1, EmptyMutations, HeadingsNext DEF HeadingSpelt, FailureSpelt
<1>3. \/ entries'[j] = IF Live(durable[j]) THEN durable[j] ELSE None
      \/ entries'[j] = None /\ durable[j] = None
  <2>1. durable[j] /= None => durable[j].provider \in StickyProviders
    BY <1>0, QueueFields, EntryFields
  <2>. QED
    BY <2>1, EmptyMutations DEF Restart, Dropped
<1>. QED
  BY <1>1, <1>2, <1>3, EmptyMutations DEF Converging, QueueIsMemory, Agrees, Live

\* Every step keeps a key that is not astray converging.
LEMMA ConvergingKept ==
  ASSUME StickyInv, StickyTypeOK', [StickyNext]_stickyVars, NEW j \in Keys \ astray'
  PROVE  Converging(j)'
<1>1. ASSUME NEW k \in Keys, NEW p \in StickyProviders, NEW ttl \in Ttls, Set(k, p, ttl)
      PROVE  Converging(j)'
  BY <1>1, SetConverges
<1>2. ASSUME NEW k \in Keys, Delete(k)
      PROVE  Converging(j)'
  BY <1>2, DeleteConverges
<1>3. ASSUME NEW p \in Evictable, EvictProvider(p)
      PROVE  Converging(j)'
  BY <1>3, EvictionConverges
<1>4. CASE Cleanup
  BY <1>4, CleanupConverges
<1>5. CASE FlushBegin
  BY <1>5, SwapConverges DEF FlushBegin, clockVars, memoryVars, history
<1>6. CASE Apply
  BY <1>6, ApplyConverges
<1>7. CASE FlushEnd
  BY <1>7, FlushEndConverges
<1>8. CASE FlushFails
  BY <1>8, FlushFailsConverges
<1>9. ASSUME NEW k \in Importable, NEW p \in StickyProviders, NEW ttl \in Ttls, ImportCommit(k, p, ttl)
      PROVE  Converging(j)'
  BY <1>9, ImportConverges
<1>10. ASSUME NEW k \in Keys, MergeRestoredEntries(k)
       PROVE  Converging(j)'
  BY <1>10, MergeConverges
<1>11. CASE Restart
  BY <1>11, RestartConverges
<1>12. ASSUME UNCHANGED <<pending, batch, todo, durable, entries, restored, astray>>, now <= now'
       PROVE  Converging(j)'
  <2>1. StickyTypeOK /\ Converging(j)
    BY <1>12 DEF StickyInv
  <2>. QED  BY <1>12, <2>1, StillConverging
<1>13. CASE StickyTick
  <2>1. now <= now'
    BY <1>13 DEF StickyTick, StickyInv, StickyTypeOK
  <2>. QED  BY <1>12, <1>13, <2>1 DEF StickyTick, memoryVars, workerVars, history
<1>14. CASE UNCHANGED stickyVars
  <2>1. now <= now'
    BY <1>14 DEF stickyVars, clockVars, StickyInv, StickyTypeOK
  <2>. QED  BY <1>12, <1>14, <2>1 DEF stickyVars, memoryVars, workerVars, history
<1>15. CASE Close
  <2>1. CASE Swap
    BY <1>15, <2>1, SwapConverges DEF Close, clockVars, memoryVars, history
  <2>2. CASE UNCHANGED <<pending, worker, batch, todo>>
    <3>1. now <= now'
      BY <1>15 DEF Close, clockVars, StickyInv, StickyTypeOK
    <3>. QED  BY <1>12, <1>15, <2>2, <3>1 DEF Close, memoryVars, history
  <2>. QED  BY <1>15, <2>1, <2>2 DEF Close
<1>. QED
  BY <1>1, <1>2, <1>3, <1>4, <1>5, <1>6, <1>7, <1>8, <1>9, <1>10, <1>11, <1>13, <1>14, <1>15
     DEF StickyNext, WorkerStep

-----------------------------------------------------------------------------
\* The bindings start empty, in memory, on disk and in every queue.
LEMMA StickyStarts == StickyInit => StickyInv
<1>. SUFFICES ASSUME StickyInit PROVE StickyInv
  OBVIOUS
<1>1. StickyTypeOK
  BY StickyTypeStarts
<1>2. ProviderKeysExact
  BY DEF StickyInit, ProviderKeysExact, IndexOf, NoEntries
<1>3. WorkerShaped
  BY EmptyMutations DEF StickyInit, WorkerShaped
<1>4. EvictionsAhead
  BY EmptyMutations DEF StickyInit, EvictionsAhead
<1>5. ASSUME NEW k \in Keys
      PROVE  Converging(k)
  <2>1. Heading(k) = None /\ HeadingIfFailed(k) = None
    BY <1>1, EmptyMutations, Headings DEF StickyInit, HeadingSpelt, FailureSpelt
  <2>. QED
    BY <2>1, EmptyMutations DEF StickyInit, Converging, QueueIsMemory, Agrees, Live
<1>. QED
  BY <1>1, <1>2, <1>3, <1>4, <1>5 DEF StickyInv

\* Every step of the cache, its worker, an import or a restart keeps the invariant.
THEOREM StickyInvariant == StickySpec => []StickyInv
<1>1. StickyInit => StickyInv
  BY StickyStarts
<1>2. StickyInv /\ [StickyNext]_stickyVars => StickyInv'
  <2>. SUFFICES ASSUME StickyInv, [StickyNext]_stickyVars PROVE StickyInv'
    OBVIOUS
  <2>1. StickyTypeOK /\ ProviderKeysExact /\ WorkerShaped /\ EvictionsAhead
    BY DEF StickyInv
  <2>2. StickyTypeOK'
    BY <2>1, StickyTypeKept
  <2>3. ProviderKeysExact' /\ WorkerShaped' /\ EvictionsAhead'
    BY <2>1, <2>2, IndexKept, WorkerKept, EvictionsKept
  <2>4. \A j \in Keys \ astray' : Converging(j)'
    BY <2>2, ConvergingKept
  <2>. QED
    BY <2>2, <2>3, <2>4 DEF StickyInv
<1>. QED
  BY <1>1, <1>2, PTL DEF StickySpec

\* Disk and memory tell one story (sticky_persistent.go): once the queue of mutations
\* is drained, every live row was bound after its provider's last eviction, and with
\* no import waiting to be merged the live rows are the live bindings in memory,
\* except for the keys the code lets part; for any keys, providers, times to live and
\* numbers of operations, failing flushes and restarts.
THEOREM BindingsAreConsistent == StickySpec => []BindingsConsistent
<1>1. StickyInv => BindingsConsistent
  <2>. SUFFICES ASSUME StickyInv PROVE BindingsConsistent
    OBVIOUS
  <2>0. StickyTypeOK /\ WorkerShaped /\ EvictionsAhead
    BY DEF StickyInv
  <2>1. ASSUME Quiescent, NEW k \in Keys \ astray, Live(durable[k]) \/ Live(entries[k])
        PROVE  durable[k] = entries[k]
    <3>1. Heading(k) = durable[k]
      BY <2>0, <2>1, EmptyMutations, Headings DEF Quiescent, QueueDrained, WorkerShaped, HeadingSpelt
    <3>2. restored[k] = None
      BY <2>1, EmptyMutations DEF Quiescent
    <3>3. Agrees(Heading(k), k)
      BY DEF StickyInv, Converging
    <3>. QED
      BY <2>1, <3>1, <3>2, <3>3 DEF Agrees, Live
  <2>2. ASSUME QueueDrained, NEW k \in Keys, Live(durable[k])
        PROVE  k \in rebound[durable[k].provider]
    BY <2>0, <2>2, EmptyMutations DEF QueueDrained, WorkerShaped, EvictionsAhead, Live
  <2>. QED
    BY <2>1, <2>2 DEF BindingsConsistent, DiskMirrorsMemory, EvictionSticks
<1>. QED
  BY <1>1, StickyInvariant, PTL
=============================================================================

---------------------------- MODULE ConfigCache -----------------------------
(***************************************************************************)
(* CachedStore: runtime settings kept in memory in front of the database.  *)
(* A read that misses notes the cache's generation, reads the database     *)
(* without a lock and keeps what it read only when no write invalidated    *)
(* the cache meanwhile; a write commits first and invalidates second.      *)
(* A setting's value is the number of the write that committed it.         *)
(***************************************************************************)
EXTENDS Naturals

CONSTANTS Readers, Writers, ConfigKeys, MaxWrites, NoEntry

ASSUME ConfigAssumption == MaxWrites \in Nat /\ NoEntry \notin Nat

VARIABLES commits,     \* writes committed
          stored,      \* the committed value of each key
          cached,      \* the value in memory, or NoEntry
          generation,  \* bumped by every invalidation
          reader,      \* each GetConfig
          writer,      \* each SetConfig, SetConfigs or import
          mutation,    \* the writer that holds configMutationMu
          confirmed    \* ghost: the newest value whose write returned

configVars == <<commits, stored, cached, generation, reader, writer, mutation, confirmed>>

Resting == [at |-> "idle"]

ConfigInit ==
  /\ commits = 0
  /\ stored = [k \in ConfigKeys |-> 0]
  /\ cached = [k \in ConfigKeys |-> NoEntry]
  /\ generation = 0
  /\ reader = [r \in Readers |-> Resting]
  /\ writer = [w \in Writers |-> Resting]
  /\ mutation = NoEntry
  /\ confirmed = [k \in ConfigKeys |-> 0]

-----------------------------------------------------------------------------
Answered(r, k, value, floor) ==
  reader' = [reader EXCEPT ![r] = [at |-> "answered", key |-> k,
                                   value |-> value, floor |-> floor]]

\* found and not expired
ReadHit(r, k) ==
  /\ reader[r].at \in {"idle", "answered"}
  /\ cached[k] # NoEntry
  /\ Answered(r, k, cached[k], confirmed[k])
  /\ UNCHANGED <<commits, stored, cached, generation, writer, mutation, confirmed>>

\* missing, or past its expiry: an expired entry stays until it is replaced
ReadMiss(r, k) ==
  /\ reader[r].at \in {"idle", "answered"}
  /\ reader' = [reader EXCEPT ![r] = [at |-> "missed", key |-> k,
                                      generation |-> generation,
                                      floor |-> confirmed[k]]]
  /\ UNCHANGED <<commits, stored, cached, generation, writer, mutation, confirmed>>

ReadStored(r) ==
  /\ reader[r].at = "missed"
  /\ reader' = [reader EXCEPT ![r] = [at |-> "read", key |-> reader[r].key,
                                      generation |-> reader[r].generation,
                                      value |-> stored[reader[r].key],
                                      floor |-> reader[r].floor]]
  /\ UNCHANGED <<commits, stored, cached, generation, writer, mutation, confirmed>>

ReadFails(r) ==
  /\ reader[r].at = "missed"
  /\ reader' = [reader EXCEPT ![r] = Resting]
  /\ UNCHANGED <<commits, stored, cached, generation, writer, mutation, confirmed>>

MutMayKeep(noted) == noted <= generation

MayKeep(noted) == noted = generation

ReadKept(r) ==
  /\ reader[r].at = "read"
  /\ cached' = IF MayKeep(reader[r].generation)
                 THEN [cached EXCEPT ![reader[r].key] = reader[r].value] ELSE cached
  /\ Answered(r, reader[r].key, reader[r].value, reader[r].floor)
  /\ UNCHANGED <<commits, stored, generation, writer, mutation, confirmed>>

-----------------------------------------------------------------------------
\* updates and imports of the administration API hold its mutation lock; the
\* store itself asks for none
WriteBegins(w, keys, serial) ==
  /\ writer[w] = Resting
  /\ commits < MaxWrites
  /\ serial => mutation = NoEntry
  /\ mutation' = IF serial THEN w ELSE mutation
  /\ writer' = [writer EXCEPT ![w] = [at |-> "begun", keys |-> keys, serial |-> serial]]
  /\ UNCHANGED <<commits, stored, cached, generation, reader, confirmed>>

\* one transaction for all the keys
WriteStored(w) ==
  /\ writer[w].at = "begun"
  /\ commits < MaxWrites
  /\ commits' = commits + 1
  /\ stored' = [k \in ConfigKeys |-> IF k \in writer[w].keys THEN commits + 1 ELSE stored[k]]
  /\ writer' = [writer EXCEPT ![w] = [at |-> "stored", keys |-> writer[w].keys,
                                      serial |-> writer[w].serial,
                                      value |-> commits + 1]]
  /\ UNCHANGED <<cached, generation, reader, mutation, confirmed>>

Unlocked(w) == IF mutation = w THEN NoEntry ELSE mutation

WriteFails(w) ==
  /\ writer[w].at = "begun"
  /\ writer' = [writer EXCEPT ![w] = Resting]
  /\ mutation' = Unlocked(w)
  /\ UNCHANGED <<commits, stored, cached, generation, reader, confirmed>>

\* the written keys; an import drops every entry
InvalidateConfig(keys) ==
  /\ generation' = generation + 1
  /\ cached' = [k \in ConfigKeys |-> IF k \in keys THEN NoEntry ELSE cached[k]]

WriteReturns(w, dropped) ==
  /\ writer[w].at = "stored"
  /\ dropped \in {writer[w].keys, ConfigKeys}
  /\ InvalidateConfig(dropped)
  /\ confirmed' = [k \in ConfigKeys |->
                     IF k \in writer[w].keys /\ writer[w].value > confirmed[k]
                       THEN writer[w].value ELSE confirmed[k]]
  /\ writer' = [writer EXCEPT ![w] = Resting]
  /\ mutation' = Unlocked(w)
  /\ UNCHANGED <<commits, stored, reader>>

ConfigNext ==
  \/ \E r \in Readers, k \in ConfigKeys : ReadHit(r, k) \/ ReadMiss(r, k)
  \/ \E r \in Readers : ReadStored(r) \/ ReadFails(r) \/ ReadKept(r)
  \/ \E w \in Writers, keys \in SUBSET ConfigKeys \ {{}}, serial \in BOOLEAN :
       WriteBegins(w, keys, serial)
  \/ \E w \in Writers : WriteStored(w) \/ WriteFails(w)
  \/ \E w \in Writers, dropped \in SUBSET ConfigKeys : WriteReturns(w, dropped)

ConfigSpec == ConfigInit /\ [][ConfigNext]_configVars

-----------------------------------------------------------------------------
(* A read that began after a write of its key returned gives that write's  *)
(* value or a newer one, from the cache or from the database: a read that  *)
(* missed before the write and finishes after it does not put the old      *)
(* value back in front of later requests.                                  *)
ReadsAreFresh ==
  \A r \in Readers : reader[r].at = "answered" => reader[r].value >= reader[r].floor

(* The inductive invariant behind it.  What makes it inductive is what the *)
(* calls carry between their steps: a reader that noted the generation the *)
(* cache still has read a value no confirmed write has overtaken, and a    *)
(* committed writer's value is at most the one stored.                     *)
ReaderType ==
  [at : {"idle"}]
    \cup [at : {"missed"}, key : ConfigKeys, generation : Nat, floor : Nat]
    \cup [at : {"read"}, key : ConfigKeys, generation : Nat, value : Nat, floor : Nat]
    \cup [at : {"answered"}, key : ConfigKeys, value : Nat, floor : Nat]

WriterType ==
  [at : {"idle"}]
    \cup [at : {"begun"}, keys : SUBSET ConfigKeys, serial : BOOLEAN]
    \cup [at : {"stored"}, keys : SUBSET ConfigKeys, serial : BOOLEAN, value : Nat]

ConfigTypeOK ==
  /\ commits \in Nat /\ generation \in Nat
  /\ stored \in [ConfigKeys -> Nat] /\ confirmed \in [ConfigKeys -> Nat]
  /\ cached \in [ConfigKeys -> Nat \cup {NoEntry}]
  /\ reader \in [Readers -> ReaderType] /\ writer \in [Writers -> WriterType]

ConfirmedIsStored == \A k \in ConfigKeys : confirmed[k] <= stored[k] /\ stored[k] <= commits

CachedIsConfirmed == \A k \in ConfigKeys : cached[k] # NoEntry => cached[k] >= confirmed[k]

WritersAreStored ==
  \A w \in Writers : writer[w].at = "stored" =>
    \A k \in writer[w].keys : writer[w].value <= stored[k]

MissesAreFresh ==
  \A r \in Readers : reader[r].at = "missed" =>
    reader[r].floor <= confirmed[reader[r].key] /\ reader[r].generation <= generation

FillsAreFresh ==
  \A r \in Readers : reader[r].at = "read" =>
    /\ reader[r].floor <= reader[r].value /\ reader[r].generation <= generation
    /\ reader[r].generation = generation => confirmed[reader[r].key] <= reader[r].value

ConfigInv ==
  /\ ConfigTypeOK /\ ConfirmedIsStored /\ CachedIsConfirmed /\ WritersAreStored
  /\ MissesAreFresh /\ FillsAreFresh /\ ReadsAreFresh
=============================================================================

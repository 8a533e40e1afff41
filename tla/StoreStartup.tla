---------------------------- MODULE StoreStartup ----------------------------
(***************************************************************************)
(* Startup of the durable state: NewSQLiteStore (store/sqlite.go) upgrades *)
(* a database of an older release by a fixed sequence of migrations, each  *)
(* of them one SQLite transaction or a few single statements;              *)
(* InitDefaultConfig adds the missing settings; and                        *)
(* bootstrapApplicationCodexSecurity (cmd/switch-a/codex_security.go)      *)
(* loads or creates the keyring file and gives every static credential its *)
(* keyed subject.  The process may die between any two steps, and a second *)
(* instance may be starting on the same files.                             *)
(*                                                                         *)
(* What the database held before the first upgrade is kept in `before';    *)
(* secrets, addresses and setting values are opaque.  An error of the      *)
(* operating system or a busy database ends an attempt like a crash does   *)
(* (every transaction rolls back); `refused' is an attempt that ended      *)
(* because of what it found.                                               *)
(***************************************************************************)
EXTENDS Integers, Sequences, FiniteSets, FiniteSetsExt, Functions

CONSTANTS
  Instances,     \* processes that may be started on the same files
  OldDatabases,  \* the databases of an older release to start from
  Indexes,       \* the analytics indexes, in the order they are built
  OldIndexOf,    \* [Indexes -> the index each replaces, or Absent]
  BatchSize,     \* requestLogTimestampBackfillSize
  MaxStarts,     \* bound on the attempts to start
  Absent         \* no value: a missing setting, column value or file

ASSUME StartupAssumption ==
  /\ Indexes # <<>> /\ BatchSize \in Nat \ {0} /\ MaxStarts \in Nat

VARIABLES
  before,    \* the old database the behaviour started from
  storage,   \* the database file
  keyfile,   \* the keyring file: its key version, or Absent
  instance,  \* [Instances -> where an attempt stands and what it has read]
  starts     \* attempts made so far; also mints key versions

startupVars == <<before, storage, keyfile, instance, starts>>

(* The steps of one attempt, in the order NewSQLiteStore, InitDefaultConfig *)
(* and bootstrapApplicationCodexSecurity take them.  A check made outside   *)
(* the transaction that relies on it is a step of its own.                  *)
StoreSteps ==
  << "usage_limit", "usage_limit_tx", "credentials", "route_storage", "continuity",
     "cookies", "auto_migrate", "base_url", "base_url_tx", "sticky_read", "sticky_write",
     "sticky_delete", "attempts_read", "attempts_write", "attempts_delete",
     "websocket", "websocket_tx", "lifecycle", "lifecycle_tx", "instants", "indexes" >>

SecuritySteps ==
  << "inventory", "keyring_load", "keyring_create", "keyring_reload", "finalize", "postcondition" >>

Steps == StoreSteps \o <<"defaults">> \o SecuritySteps \o <<"serving">>

After(step) ==
  LET n == CHOOSE k \in DOMAIN Steps : Steps[k] = step IN Steps[n + 1]

Idle == {"down", "refused"}
Running(i) == instance[i].at \notin Idle

OldProviders == DOMAIN before.kind
OldRoutes == DOMAIN before.override     \* pairs <<provider, API type>>
Transports(route) == IF route[2] = "codex" THEN {"http", "websocket"} ELSE {"http"}

----------------------------------------------------------------------------
(* What the credential backfill makes of provider-owned secrets. *)

(* A static provider's default secret and each override become a session. *)
StaticSessions(p) ==
  {<<p>> : x \in {before.secret[p]} \ {Absent}}
    \cup {r \in OldRoutes : r[1] = p /\ before.override[r] # Absent}

StaticSession(s) ==
  [kind |-> "api_key", secret |-> IF Len(s) = 1 THEN before.secret[s[1]] ELSE before.override[s],
   subject |-> Absent, key |-> Absent]

LoginSession(p) ==
  [kind |-> "chatgpt", secret |-> before.secret[p], subject |-> before.proof[p], key |-> Absent]

MigratedSessions ==
  LET logins == {p \in OldProviders : before.kind[p] = "chatgpt"}
      ids == {<<p>> : p \in logins} \cup UNION {StaticSessions(p) : p \in OldProviders \ logins}
  IN [s \in ids |-> IF s[1] \in logins THEN LoginSession(s[1]) ELSE StaticSession(s)]

(* The session a legacy route is bound to. *)
MigratedBindings ==
  [r \in {<<q[1], q[2], "both">> : q \in OldRoutes} |->
     LET route == <<r[1], r[2]>> IN
     IF before.kind[r[1]] = "chatgpt" \/ before.override[route] = Absent THEN <<r[1]>> ELSE route]

(* The errors of the backfill: a route without a credential, a login whose *)
(* binding proof is missing outside recovery.                              *)
CanBackfill ==
  /\ \A r \in OldRoutes : before.secret[r[1]] # Absent
                            \/ (before.kind[r[1]] = "api_key" /\ before.override[r] # Absent)
  /\ \A p \in OldProviders : before.kind[p] = "chatgpt" /\ before.proof[p] = Absent
                               => before.auth[p] = "reauth_required"

(* finalizePendingStaticSubjects: pending API keys get a keyed subject. *)
Pending(sessions) == {s \in DOMAIN sessions : sessions[s].kind = "api_key" /\ sessions[s].key = Absent}

Signed(sessions, key) ==
  [s \in DOMAIN sessions |->
     IF s \in Pending(sessions)
     THEN [sessions[s] EXCEPT !.key = key, !.subject = <<sessions[s].secret, key>>]
     ELSE sessions[s]]

----------------------------------------------------------------------------
(* The database.  `old' is the set of columns and tables that the upgrade  *)
(* removes; a route is a triple whose transport is "both" until the        *)
(* transport column exists.                                                *)

OldStorage(d) ==
  [ old        |-> d.old,
    migrated   |-> "credentials" \notin d.old,  \* credential_session_migrations
    policy     |-> d.policy,
    url        |-> [r \in {<<q[1], q[2], "both">> : q \in DOMAIN d.override} |-> d.url[<<r[1], r[2]>>]],
    sessions   |-> IF "credentials" \in d.old THEN <<>> ELSE Signed(MigratedSessions, d.keyring),
    bindings   |-> IF "credentials" \in d.old THEN <<>> ELSE MigratedBindings,
    transport  |-> FALSE,                   \* the column of provider_api_types
    constraint |-> FALSE,                   \* fk_providers_api_types
    stickyKey  |-> "unscoped",
    sticky     |-> d.sticky,
    cookies    |-> d.cookies,               \* [version, jars]
    continuity |-> d.continuity,            \* schema version, 0 when absent
    config     |-> d.config,
    logs       |-> d.logs,
    indexes    |-> {OldIndexOf[x] : x \in Range(Indexes)} \ {Absent} ]

NewAttempt == [at |-> "usage_limit", saw |-> Absent, cursor |-> 0, key |-> Absent, alone |-> TRUE]
Down == [NewAttempt EXCEPT !.at = "down"]

StartupInit ==
  \E d \in OldDatabases :
    /\ before = d
    /\ storage = OldStorage(d)
    /\ keyfile = d.keyring
    /\ instance = [i \in Instances |-> Down]
    /\ starts = 0

(* Where an attempt goes next. *)
Goes(i, step) == instance' = [instance EXCEPT ![i].at = step, ![i].saw = Absent]
Proceeds(i) == Goes(i, After(instance[i].at))
Refuses(i) == Goes(i, "refused")

(* One committed transaction, or one statement, of the attempt. *)
Commits(i, db) == storage' = db /\ Proceeds(i) /\ UNCHANGED <<before, keyfile, starts>>

(* A check whose transaction is the next step; nothing to do skips it. *)
Checks(i, needed, skipTo) ==
  /\ instance' = [instance EXCEPT ![i].at = IF needed THEN After(@) ELSE skipTo, ![i].saw = needed]
  /\ UNCHANGED <<before, storage, keyfile, starts>>

(* An ALTER or UPDATE on a column another instance has dropped since the check. *)
Missing(i) == Refuses(i) /\ UNCHANGED <<before, storage, keyfile, starts>>

----------------------------------------------------------------------------
(* Usage-limit policy, before the credential type that implied it goes. *)

CheckUsageLimit(i) ==
  /\ instance[i].at = "usage_limit"
  /\ Checks(i, "credentials" \in storage.old, "credentials")

MigrateUsageLimit(i) ==
  /\ instance[i].at = "usage_limit_tx"
  /\ IF "credentials" \in storage.old
     THEN Commits(i, [storage EXCEPT !.policy =
            [p \in OldProviders |-> IF @[p] = "" /\ before.kind[p] = "chatgpt" THEN "suspend" ELSE @[p]]])
     ELSE Missing(i)

----------------------------------------------------------------------------
(* migrateCredentialSessions: one transaction from schema to validation. *)

(* The schema must not keep provider-owned storage: validateCredentialSessionSchema. *)
DropLegacyCredentialStorage(db) == [db EXCEPT !.old = @ \ {"credentials"}]

ValidCredentialSchema(db) == "credentials" \notin db.old

MigrateCredentials(i) ==
  /\ instance[i].at = "credentials"
  /\ LET backfill == ~storage.migrated /\ "credentials" \in storage.old
         db == IF backfill
               THEN DropLegacyCredentialStorage([storage EXCEPT !.sessions = MigratedSessions,
                                                                !.bindings = MigratedBindings])
               ELSE storage
     IN IF (backfill => CanBackfill) /\ ValidCredentialSchema(db)
        THEN Commits(i, [db EXCEPT !.migrated = TRUE])
        ELSE Missing(i)

----------------------------------------------------------------------------
(* MigrateProviderRouteStorage: routes and affinity in one transaction. *)

(* A row per transport: codex rows are copied to the websocket transport. *)
PerTransport(rows) ==
  [t \in UNION {{<<r[1], r[2], w>> : w \in Transports(r)} : r \in DOMAIN rows}
     |-> rows[<<t[1], t[2], "both">>]]

MutMigrateProviderTransports(db) ==
  IF db.transport THEN db
  ELSE [db EXCEPT !.url = PerTransport(@), !.bindings = PerTransport(@), !.transport = TRUE]

MigrateProviderTransports(db) ==
  IF db.transport THEN db
  ELSE [db EXCEPT !.url = PerTransport(@), !.bindings = PerTransport(@),
                  !.transport = TRUE, !.constraint = TRUE]

(* Codex affinity that names no client cannot be kept. *)
MigrateStickyClientScope(db) ==
  IF db.stickyKey # "unscoped" THEN db
  ELSE [db EXCEPT !.sticky = {row \in @ : row.api # "codex" \/ row.scope # ""},
                  !.stickyKey = "scoped"]

MigrateStickyTransports(db) ==
  IF db.stickyKey = "transport" THEN db
  ELSE [db EXCEPT !.stickyKey = "transport",
                  !.sticky = {[row EXCEPT !.transport = "http"] : row \in @}
                               \cup {[row EXCEPT !.transport = "websocket"] :
                                       row \in {x \in @ : x.api = "codex"}}]

MigrateRouteStorage(i) ==
  /\ instance[i].at = "route_storage"
  /\ Commits(i, MigrateStickyTransports(MigrateStickyClientScope(MigrateProviderTransports(storage))))

----------------------------------------------------------------------------
(* The Codex schemas.  The cookie rebuild drops the parent table with      *)
(* foreign keys off, so the jars' contents are not deleted with it.        *)

MigrateContinuity(i) ==
  /\ instance[i].at = "continuity"
  /\ IF storage.continuity \in {0, 2}
     THEN Commits(i, [storage EXCEPT !.continuity = 2])
     ELSE Missing(i)

CookieSchemaVersion == 4    \* CurrentSchemaVersion

CreateFreshSchema == [version |-> CookieSchemaVersion, jars |-> {}]

RebuildHandlesTable(cookies) == [cookies EXCEPT !.version = CookieSchemaVersion]

EnsureSchemaVersion(cookies) ==
  IF cookies.version < CookieSchemaVersion THEN RebuildHandlesTable(cookies) ELSE cookies

MigrateCookies(i) ==
  /\ instance[i].at = "cookies"
  /\ IF storage.cookies.version \in 0..CookieSchemaVersion
     THEN Commits(i, [storage EXCEPT !.cookies =
                        IF @.version = 0 THEN CreateFreshSchema ELSE EnsureSchemaVersion(@)])
     ELSE Missing(i)

(* gorm adds the named constraint a table lacks by rebuilding it, and the  *)
(* dropped parent takes its bindings along (foreign keys are on here).     *)
AutoMigrate(i) ==
  /\ instance[i].at = "auto_migrate"
  /\ Commits(i, [storage EXCEPT !.constraint = TRUE,
                                !.bindings = IF storage.constraint THEN @ ELSE <<>>,
                                !.logs = [n \in DOMAIN @ |->
                                  [@[n] EXCEPT !.tag = IF @ = Absent THEN "normalized" ELSE @]]])

----------------------------------------------------------------------------
(* Addresses and settings. *)

CheckBaseURL(i) ==
  /\ instance[i].at = "base_url"
  /\ Checks(i, "base_url" \in storage.old, "sticky_read")

MigrateBaseURL(i) ==
  /\ instance[i].at = "base_url_tx"
  /\ IF "base_url" \in storage.old
     THEN Commits(i, [storage EXCEPT
            !.url = [r \in DOMAIN @ |-> IF @[r] = "" THEN before.base[r[1]] ELSE @[r]],
            !.old = @ \ {"base_url"}])
     ELSE Missing(i)

(* Three statements and no transaction: read the old key, create the new   *)
(* one if it is missing, delete the old one.  Unknown text is left alone.  *)
ModeOf(text) ==
  IF text \in {"true", "1"} THEN "api_type" ELSE IF text \in {"false", "0"} THEN "off" ELSE Absent

ReadSetting(i, step, value, skipTo) ==
  /\ instance[i].at = step
  /\ instance' = [instance EXCEPT ![i].at = IF value = Absent THEN skipTo ELSE After(step),
                                  ![i].saw = value]
  /\ UNCHANGED <<before, storage, keyfile, starts>>

ReadSticky(i) == ReadSetting(i, "sticky_read", ModeOf(storage.config.sticky_enabled), "attempts_read")
ReadAttempts(i) == ReadSetting(i, "attempts_read", storage.config.max_retries, "websocket")

FirstOrCreate(i, step, key) ==
  /\ instance[i].at = step
  /\ Commits(i, [storage EXCEPT !.config[key] = IF @ = Absent THEN instance[i].saw ELSE @])

DeleteSetting(i, step, key) ==
  /\ instance[i].at = step
  /\ Commits(i, [storage EXCEPT !.config[key] = Absent])

MigrateStickyConfig(i) ==
  \/ ReadSticky(i)
  \/ FirstOrCreate(i, "sticky_write", "sticky_mode")
  \/ DeleteSetting(i, "sticky_delete", "sticky_enabled")

MigrateMaxAttempts(i) ==
  \/ ReadAttempts(i)
  \/ FirstOrCreate(i, "attempts_write", "global_max_attempts")
  \/ DeleteSetting(i, "attempts_delete", "max_retries")

InitDefaultConfig(i) ==
  /\ instance[i].at = "defaults"
  /\ Commits(i, [storage EXCEPT
       !.config.sticky_mode = IF @ = Absent THEN "default_mode" ELSE @,
       !.config.global_max_attempts = IF @ = Absent THEN "default_attempts" ELSE @])

----------------------------------------------------------------------------
(* Request logs: [instant, nano, oldWs, ws, facts, assessed, tag]. *)

CheckWebSocketColumn(i) ==
  /\ instance[i].at = "websocket"
  /\ Checks(i, "is_web_socket" \in storage.old, "lifecycle")

MigrateWebSocketColumn(i) ==
  /\ instance[i].at = "websocket_tx"
  /\ IF "is_web_socket" \in storage.old
     THEN Commits(i, [storage EXCEPT
            !.logs = [n \in DOMAIN @ |-> [@[n] EXCEPT !.ws = @ \/ storage.logs[n].oldWs]],
            !.old = @ \ {"is_web_socket"}])
     ELSE Missing(i)

(* The semantics_version column exists by now, so this is never a no-op. *)
InspectLifecycle(i) ==
  /\ instance[i].at = "lifecycle"
  /\ instance' = [instance EXCEPT ![i].at = "lifecycle_tx", ![i].saw = "semantics" \in storage.old]
  /\ UNCHANGED <<before, storage, keyfile, starts>>

(* tagLegacyRequestAssessmentRows: rows written before assessments existed. *)
Tagged(row, hadSemantics) ==
  [row EXCEPT !.tag = IF hadSemantics /\ ~row.assessed THEN "legacy" ELSE @]

(* The lifecycle facts of a row that is no WebSocket session mean nothing. *)
Cleared(row) == [row EXCEPT !.facts = @ /\ row.ws]

MigrateLifecycle(i) ==
  /\ instance[i].at = "lifecycle_tx"
  /\ Commits(i, [storage EXCEPT
       !.logs = [n \in DOMAIN @ |-> Cleared(Tagged(@[n], instance[i].saw))],
       !.old = @ \ {"semantics"}])

(* One bounded batch in id order per transaction; text that is no instant   *)
(* is removed.  The cursor moves on over rows that stay unfilled.           *)
Batch(i) ==
  LET todo == {n \in DOMAIN storage.logs : /\ n > instance[i].cursor
                                           /\ storage.logs[n].instant # Absent
                                           /\ ~storage.logs[n].nano}
  IN {n \in todo : Cardinality({m \in todo : m < n}) < BatchSize}

Backfilled(row) ==
  IF row.instant = "malformed" THEN [row EXCEPT !.instant = Absent] ELSE [row EXCEPT !.nano = TRUE]

MigrateInstants(i) ==
  /\ instance[i].at = "instants"
  /\ IF Batch(i) = {}
     THEN Commits(i, storage)
     ELSE /\ storage' = [storage EXCEPT !.logs =
                           [n \in DOMAIN @ |-> IF n \in Batch(i) THEN Backfilled(@[n]) ELSE @[n]]]
          /\ instance' = [instance EXCEPT ![i].cursor = Max(Batch(i))]
          /\ UNCHANGED <<before, keyfile, starts>>

(* One index per transaction: create, verify, drop the one it replaces. *)
BuildIndexes(i) ==
  /\ instance[i].at = "indexes"
  /\ LET left == {k \in DOMAIN Indexes : Indexes[k] \notin storage.indexes} IN
     IF left = {}
     THEN Commits(i, storage)
     ELSE LET x == Indexes[Min(left)] IN
          /\ storage' = [storage EXCEPT !.indexes = (@ \cup {x}) \ {OldIndexOf[x]}]
          /\ UNCHANGED <<before, keyfile, instance, starts>>

----------------------------------------------------------------------------
(* The keyring and the static subjects. *)

(* The keys that durable subjects and cookie jars name. *)
CredentialKeys == {storage.sessions[s].key : s \in DOMAIN storage.sessions} \ {Absent}
CookieKeys == {before.keyring : jar \in storage.cookies.jars}
KeysInUse == CredentialKeys \cup CookieKeys

(* ValidateCapabilities: a keyring file holds one key version here. *)
Covers(key, required) == required \subseteq {key}

Inspect(i) ==
  /\ instance[i].at = "inventory"
  /\ instance' = [instance EXCEPT ![i].at = "keyring_load", ![i].saw = KeysInUse]
  /\ UNCHANGED <<before, storage, keyfile, starts>>

(* LoadOrCreateFileWithStore: a missing file may be created only when      *)
(* nothing durable names a key.                                            *)
LoadKeyring(i) ==
  /\ instance[i].at = "keyring_load"
  /\ LET required == instance[i].saw IN
     instance' = [instance EXCEPT
       ![i].at = IF keyfile = Absent
                 THEN IF required = {} THEN "keyring_create" ELSE "refused"
                 ELSE IF Covers(keyfile, required) THEN "finalize" ELSE "refused",
       ![i].key = keyfile]
  /\ UNCHANGED <<before, storage, keyfile, starts>>

Published(generated) == IF keyfile = Absent THEN generated ELSE keyfile

GenerateDocument(i) == <<i, starts>>

CreateKeyring(i) ==
  /\ instance[i].at = "keyring_create"
  /\ keyfile' = Published(GenerateDocument(i))
  /\ instance' = [instance EXCEPT ![i].at = "keyring_reload"]
  /\ UNCHANGED <<before, storage, starts>>

(* The file that won is the one that is used. *)
ReloadKeyring(i) ==
  /\ instance[i].at = "keyring_reload"
  /\ instance' = [instance EXCEPT ![i].at = IF Covers(keyfile, instance[i].saw) THEN "finalize" ELSE "refused",
                                  ![i].key = keyfile]
  /\ UNCHANGED <<before, storage, keyfile, starts>>

FinalizeStaticSubjects(i) ==
  /\ instance[i].at = "finalize"
  /\ Commits(i, [storage EXCEPT !.sessions = Signed(@, instance[i].key)])

CheckPostcondition(i) ==
  /\ instance[i].at = "postcondition"
  /\ IF Pending(storage.sessions) = {} /\ Covers(instance[i].key, KeysInUse) THEN Proceeds(i) ELSE Refuses(i)
  /\ UNCHANGED <<before, storage, keyfile, starts>>

----------------------------------------------------------------------------
(* Attempts. *)

Start(i) ==
  /\ ~Running(i) /\ starts < MaxStarts
  /\ LET others == {j \in Instances \ {i} : Running(j)} IN
     instance' = [j \in Instances |->
       IF j = i THEN [NewAttempt EXCEPT !.alone = others = {}]
       ELSE IF j \in others THEN [instance[j] EXCEPT !.alone = FALSE] ELSE instance[j]]
  /\ starts' = starts + 1
  /\ UNCHANGED <<before, storage, keyfile>>

(* A crash, a failing statement, or a stop: what was not committed is gone. *)
Dies(i) ==
  /\ Running(i)
  /\ instance' = [instance EXCEPT ![i] = Down]
  /\ UNCHANGED <<before, storage, keyfile, starts>>

StartupNext ==
  \E i \in Instances :
    \/ Start(i) \/ Dies(i)
    \/ CheckUsageLimit(i) \/ MigrateUsageLimit(i) \/ MigrateCredentials(i)
    \/ MigrateRouteStorage(i) \/ MigrateContinuity(i) \/ MigrateCookies(i) \/ AutoMigrate(i)
    \/ CheckBaseURL(i) \/ MigrateBaseURL(i) \/ MigrateStickyConfig(i) \/ MigrateMaxAttempts(i)
    \/ CheckWebSocketColumn(i) \/ MigrateWebSocketColumn(i)
    \/ InspectLifecycle(i) \/ MigrateLifecycle(i) \/ MigrateInstants(i) \/ BuildIndexes(i)
    \/ InitDefaultConfig(i) \/ Inspect(i) \/ LoadKeyring(i) \/ CreateKeyring(i)
    \/ ReloadKeyring(i) \/ FinalizeStaticSubjects(i) \/ CheckPostcondition(i)

StartupSpec == StartupInit /\ [][StartupNext]_startupVars

----------------------------------------------------------------------------
(* What a release reading the database would find, at any point of the upgrade. *)

EffectiveSecret(route, transport) ==
  IF "credentials" \in storage.old
  THEN IF before.kind[route[1]] = "api_key" /\ before.override[route] # Absent
       THEN before.override[route] ELSE before.secret[route[1]]
  ELSE LET row == <<route[1], route[2], IF storage.transport THEN transport ELSE "both">> IN
       IF row \in DOMAIN storage.bindings THEN storage.sessions[storage.bindings[row]].secret ELSE Absent

EffectiveURL(route, transport) ==
  LET own == storage.url[<<route[1], route[2], IF storage.transport THEN transport ELSE "both">>] IN
  IF own = "" /\ "base_url" \in storage.old THEN before.base[route[1]] ELSE own

EffectiveMode ==
  IF storage.config.sticky_mode # Absent THEN storage.config.sticky_mode
  ELSE IF ModeOf(storage.config.sticky_enabled) # Absent
       THEN ModeOf(storage.config.sticky_enabled) ELSE "default_mode"

EffectiveAttempts ==
  IF storage.config.global_max_attempts # Absent THEN storage.config.global_max_attempts
  ELSE IF storage.config.max_retries # Absent THEN storage.config.max_retries ELSE "default_attempts"

First(values) == LET n == Min({k \in DOMAIN values : values[k] \notin {Absent, ""}}) IN values[n]

(* Wherever the upgrade stopped, and whatever two instances did to it      *)
(* together, nothing an operator relied on is lost or changed: every route *)
(* keeps its secret and its address on each transport, a login keeps its   *)
(* suspension policy, the two renamed settings keep their values, cookie   *)
(* jars and readable log instants survive, WebSocket rows stay WebSocket   *)
(* rows and keep their facts, and a finished upgrade has marked exactly    *)
(* the log rows that were never assessed.                                  *)
UpgradePreserves ==
  /\ \A r \in OldRoutes : \A t \in Transports(r) :
       /\ EffectiveSecret(r, t) = IF before.kind[r[1]] = "api_key"
                                  THEN First(<<before.override[r], before.secret[r[1]]>>)
                                  ELSE before.secret[r[1]]
       /\ EffectiveURL(r, t) = First(<<before.url[r], before.base[r[1]]>>)
  /\ \A p \in OldProviders : before.kind[p] = "chatgpt" /\ "credentials" \notin storage.old
       => storage.policy[p] = First(<<before.policy[p], "suspend">>)
  /\ EffectiveMode = First(<<before.config.sticky_mode, ModeOf(before.config.sticky_enabled), "default_mode">>)
  /\ EffectiveAttempts = First(<<before.config.global_max_attempts, before.config.max_retries, "default_attempts">>)
  /\ storage.cookies.jars = before.cookies.jars
  /\ \A n \in DOMAIN storage.logs :
       /\ before.logs[n].instant = "readable" => storage.logs[n].instant = "readable"
       /\ (before.logs[n].ws \/ before.logs[n].oldWs)
            => /\ "is_web_socket" \in storage.old \/ storage.logs[n].ws
               /\ storage.logs[n].facts = before.logs[n].facts
  /\ \A i \in Instances : instance[i].at = "serving" =>
       \A n \in DOMAIN storage.logs :
         /\ storage.logs[n].tag = IF before.logs[n].assessed THEN "normalized" ELSE "legacy"
         /\ storage.logs[n].instant = "readable" => storage.logs[n].nano

(* An attempt that has the files to itself is never refused because of     *)
(* what earlier attempts, dead half-way or overlapping each other, left:   *)
(* no half-removed storage, no schema between two versions, and no subject *)
(* signed with a key that the keyring file does not hold.                  *)
NeverRefused ==
  \A i \in Instances : instance[i].at = "refused" => ~instance[i].alone

\* An upgrade interrupted anywhere, or raced by a second process, neither loses
\* what the old release stored nor leaves files the next start refuses.
UpgradeSucceeds == UpgradePreserves /\ NeverRefused
=============================================================================

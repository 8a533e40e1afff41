------------------------------ MODULE MCStores -------------------------------
(* Where requests are sent and what is stored for them: the choice of a      *)
(* route, the sticky bindings, the configuration cache and the database an   *)
(* upgrade starts from. The components share no state: `part' picks the one  *)
(* that runs and the others stay in one initial state.                       *)
EXTENDS MCProviderRouting, StickyCache, StoreStartup, ConfigCache, TLC

-----------------------------------------------------------------------------
(* An instance of StoreStartup.                                               *)

CONSTANTS none, i1, i2

MCIndexes == <<"by_time", "by_provider">>
MCOldIndexOf == [x \in {"by_time", "by_provider"} |-> IF x = "by_provider" THEN "by_provider_old" ELSE Absent]

(* A relay with a default key and an override, and a login; the variants   *)
(* differ in what an upgrade treats specially.                             *)
Relay == <<"relay", "codex">>
RelayOther == <<"relay", "claude">>
Login == <<"login", "codex">>

LogRow(old, instant, oldWs, assessed) ==
  [instant |-> instant, nano |-> FALSE, oldWs |-> oldWs, ws |-> oldWs /\ "is_web_socket" \notin old,
   facts |-> oldWs, assessed |-> assessed, tag |-> Absent]

OldDatabase(old, proof, policy, enabled, mode, cookieVersion) ==
  [ old      |-> old,
    keyring  |-> IF cookieVersion = 0 THEN Absent ELSE "k0",
    kind     |-> [p \in {"relay", "login"} |-> IF p = "relay" THEN "api_key" ELSE "chatgpt"],
    secret   |-> [p \in {"relay", "login"} |-> IF p = "relay" THEN "k1" ELSE "t1"],
    override |-> (Relay :> Absent) @@ (RelayOther :> "k2") @@ (Login :> Absent),
    url      |-> (Relay :> IF "base_url" \in old THEN "" ELSE "u1") @@ (RelayOther :> "own")
                  @@ (Login :> IF "base_url" \in old THEN "" ELSE "u2"),
    base     |-> [p \in {"relay", "login"} |-> IF p = "relay" THEN "u1" ELSE "u2"],
    proof    |-> [p \in {"relay", "login"} |-> IF p = "login" THEN proof ELSE Absent],
    auth     |-> [p \in {"relay", "login"} |-> IF proof = Absent THEN "reauth_required" ELSE "active"],
    policy   |-> [p \in {"relay", "login"} |-> IF p = "login" THEN policy ELSE ""],
    sticky   |-> {[api |-> "codex", scope |-> "", transport |-> Absent],
                  [api |-> "codex", scope |-> "c1", transport |-> Absent],
                  [api |-> "claude", scope |-> "", transport |-> Absent]},
    cookies  |-> [version |-> cookieVersion, jars |-> IF cookieVersion = 0 THEN {} ELSE {"jar"}],
    continuity |-> IF cookieVersion = 0 THEN 0 ELSE 2,
    config   |-> [sticky_enabled |-> enabled, sticky_mode |-> mode,
                  max_retries |-> IF mode = Absent THEN "5" ELSE Absent, global_max_attempts |-> Absent],
    logs     |-> <<LogRow(old, "readable", TRUE, FALSE), LogRow(old, "malformed", FALSE, FALSE),
                   LogRow(old, "readable", FALSE, TRUE)>> ]

(* Two releases from before credential sessions, and one from after them. *)
AllOld == {"credentials", "base_url", "is_web_socket", "semantics"}

NewestDatabase == OldDatabase({"semantics"}, "account", "suspend", "maybe", Absent, 3)

MCOldDatabases ==
  { OldDatabase(AllOld, "account", "", "true", Absent, 0),
    OldDatabase(AllOld, Absent, "switch_provider", "false", "user", 0),
    NewestDatabase }

-----------------------------------------------------------------------------

VARIABLE part    \* the component that runs

StoresInit ==
  /\ part \in {"routing", "sticky", "startup", "config"}
  /\ StickyInit /\ ConfigInit
  /\ RoutingInit /\ (part # "routing" => installed = "grouped")
  /\ StartupInit /\ (part # "startup" => before = NewestDatabase)

OnlyRouting == part = "routing" /\ UNCHANGED <<part, stickyVars, startupVars, configVars>>
OnlySticky == part = "sticky" /\ UNCHANGED <<part, routingVars, startupVars, configVars>>
OnlyStartup == part = "startup" /\ UNCHANGED <<part, routingVars, stickyVars, configVars>>
OnlyConfig == part = "config" /\ UNCHANGED <<part, routingVars, stickyVars, startupVars>>

StoresNext ==
  \/ OnlyRouting /\ RoutingNext
  \/ OnlySticky /\ StickyNext
  \/ OnlyStartup /\ StartupNext
  \/ OnlyConfig /\ ConfigNext

storesVars == <<part, routingVars, stickyVars, startupVars, configVars>>

StoresSpec == StoresInit /\ [][StoresNext]_storesVars
=============================================================================

-------------------------- MODULE MCProviderRouting -------------------------
(* Instances of ProviderRouting for TLC.  Each catalogue exercises one     *)
(* part of the selector: vendor isolation along a chain of failovers,      *)
(* groups and limits, routing policies against required authorities.       *)
EXTENDS ProviderRouting, TLC

Provider(id, vendor, scope, accept) ==
  [id |-> id, vendor |-> vendor, failoverScope |-> scope, acceptFailover |-> accept,
   group |-> NoRoute, priority |-> id, limit |-> 0, authority |-> "a",
   transports |-> {"http", "websocket"}, enabled |-> TRUE, usable |-> TRUE]

Group(id, priority, strategy, enabled) ==
  [id |-> id, priority |-> priority, strategy |-> strategy, enabled |-> enabled]

Policy(match, models, target, groups, vendors) ==
  [match |-> match, models |-> models, length |-> 1, target |-> target,
   groups |-> groups, vendors |-> vendors, enabled |-> TRUE]

Plain == [kind |-> "http", codex |-> FALSE, switchAccount |-> FALSE, model |-> "n",
          required |-> NoRoute, preferred |-> NoRoute, denied |-> {}]

Switching == [Plain EXCEPT !.kind = "websocket", !.codex = TRUE, !.switchAccount = TRUE]

Bound == [Plain EXCEPT !.codex = TRUE, !.model = "m", !.required = "b", !.preferred = "p1"]

NoGroups == [g \in {} |-> NoRoute]

Isolation ==
  [rows |-> "p1" :> Provider(1, "x", "any", "any") @@
            "p2" :> Provider(2, "y", "vendor", "any") @@
            "p3" :> Provider(3, "x", "any", "vendor") @@
            "p4" :> Provider(4, "z", "any", "any"),
   groups |-> NoGroups, policies |-> {}, strategy |-> "priority",
   profiles |-> {Plain, Switching}]

Grouped ==
  [rows |-> "p1" :> [Provider(1, "x", "any", "any") EXCEPT !.group = "g", !.limit = 1] @@
            "p2" :> [Provider(2, "x", "vendor", "none") EXCEPT !.group = "g", !.limit = 1] @@
            "p3" :> [Provider(3, "*", "none", "any") EXCEPT !.group = "h"] @@
            "p4" :> [Provider(4, "", "any", "vendor") EXCEPT !.transports = {"http"}],
   groups |-> "g" :> Group(5, 1, "priority", TRUE) @@ "h" :> Group(6, 1, "random", TRUE),
   policies |-> {}, strategy |-> "priority", profiles |-> {Plain}]

Constrained ==
  [rows |-> "p1" :> [Provider(1, "x", "any", "any") EXCEPT !.authority = "b"] @@
            "p2" :> [Provider(2, "y", "any", "any") EXCEPT !.group = "g"] @@
            "p3" :> [Provider(3, "y", "vendor", "vendor") EXCEPT !.group = "g", !.limit = 1] @@
            "p4" :> [Provider(4, "y", "any", "any") EXCEPT !.group = "h"],
   groups |-> "g" :> Group(5, 2, "random", TRUE) @@ "h" :> Group(6, 1, "random", FALSE),
   policies |-> {Policy("none", {}, NoRoute, {}, {"x", "y"}),
                 Policy("prefix", {"m"}, NoRoute, {"g"}, {})},
   strategy |-> "random", profiles |-> {Bound}]

SomeCatalogues ==
  [isolation |-> Isolation, grouped |-> Grouped, constrained |-> Constrained]

RoutingSymmetry == Permutations(Askers)
=============================================================================

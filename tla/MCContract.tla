----------------------------- MODULE MCContract -----------------------------
(***************************************************************************)
(* Small instances of Contract: one contract and one inventory that agree,  *)
(* and for each document what a pull request may make of it, right or wrong. *)
(***************************************************************************)
EXTENDS Contract

CONSTANTS Public, Private  \* which documents and tables change in this instance

-----------------------------------------------------------------------------
Job(name, target, authenticated, expected, publication) ==
    [name |-> name, target_id |-> target, authenticated |-> authenticated,
     expected |-> expected, publication |-> publication, explained |-> TRUE]

Binding(target, endpoints, credential) ==
    [target_id |-> target, endpoints |-> endpoints, credential |-> credential]

Federation(name, target, prefix) ==
    [name |-> name, target_id |-> target, authenticated |-> TRUE, rename_prefix |-> prefix]

Datasource(name, service, target, default) ==
    [name |-> name, service |-> service, target_id |-> target, default |-> default]

Receiver(name, integrations) ==
    [name |-> name, integrations |-> integrations, null_policy |-> TRUE]

Integration(kind, ref) == [kind |-> kind, credential_ref |-> ref]

Delivery(ref, destination) ==
    [credential_ref |-> ref, credential |-> ref, destination |-> destination]

Route(id, matchers, receiver, keepGoing) ==
    [id |-> id, matchers |-> matchers, receiver |-> receiver, keep_going |-> keepGoing]

Critical == <<"severity", "critical">>
Warning == <<"severity", "warning">>
Billing == <<"domain", "billing">>

Surface(name, kind, family, exposure, from) ==
    [name |-> name, kind |-> kind, family |-> family, exposure |-> exposure,
     allow_from |-> from, authenticated |-> TRUE, explained |-> TRUE]

Four == [family |-> "ipv4", net |-> "office"]
Six == [family |-> "ipv6", net |-> "office"]
Elsewhere(family) == [family |-> family, net |-> "elsewhere"]

Set(name, interface, prefixes) ==
    [name |-> name, interface |-> interface, prefixes |-> prefixes]

-----------------------------------------------------------------------------
(* The policy. *)

RequestId == <<"request", "id">>
UserAgent == <<"user_agent", "original">>
Level == <<"log", "level">>
Cookie == <<"http.request.header", "cookie">>
Query == <<"url", "query">>

Attribute(name, kind, shape, values) ==
    [name |-> name, signals |-> {"logs"}, kind |-> kind, shape |-> shape, values |-> values,
     label |-> name = Level, bounded |-> name = Level, explained |-> kind = "opaque"]

Entry(name, value) == [name |-> name, value |-> value]

Rule(name, kind, match, planted) ==
    [name |-> name, kind |-> kind, match |-> match, planted |-> planted]

Headers == Rule("request-headers", "attribute_prefix", "http.request.header",
                <<Entry(Cookie, "cookie")>>)
Queries == Rule("query-parameters", "attribute_name", Query, <<Entry(Query, "control")>>)
Keyish == Rule("api-keys", "value_shape", "api_key", <<Entry(UserAgent, "api_key")>>)
Tokens == Rule("opaque-tokens", "value_shape", Opaque, <<Entry(UserAgent, "session_id")>>)
Unmatched == Rule("jwt", "value_shape", "jwt", <<Entry(UserAgent, "bearer")>>)

Policy0 ==
    [attributes |-> <<Attribute(RequestId, "shape", "uuid", {}),
                      Attribute(UserAgent, "opaque", None, {}),
                      Attribute(Level, "enum", None, {"log_level"})>>,
     rejected   |-> <<Headers, Queries, Keyish, Tokens>>,
     controls   |-> <<[signal |-> "logs",
                       record |-> <<Entry(RequestId, "uuid"), Entry(Level, "log_level")>>]>>,
     required   |-> 4, budget |-> 6]

Policies ==
    {Policy0,
     [Policy0 EXCEPT !.rejected = <<Tokens, Keyish, Headers, Queries>>],
     [Policy0 EXCEPT !.rejected = <<Keyish, Tokens, Queries, Headers>>],
     [Policy0 EXCEPT !.rejected = Append(@, Unmatched)],
     [Policy0 EXCEPT !.attributes = Append(@, Attribute(Query, "opaque", None, {}))],
     [Policy0 EXCEPT !.attributes[1].kind = "opaque"],
     [Policy0 EXCEPT !.attributes[1].kind = "opaque", !.attributes[1].explained = TRUE],
     [Policy0 EXCEPT !.attributes[3].bounded = FALSE],
     [Policy0 EXCEPT !.budget = 4]}

MCRecords ==
    LET entries == {Entry(n, v) : n \in {RequestId, UserAgent, Cookie, Query, <<"other", "name">>},
                                  v \in {"uuid", "cookie", "api_key", "session_id", "control"}}
    IN  {<<a>> : a \in entries} \cup {<<a, b>> : a, b \in entries}

-----------------------------------------------------------------------------
(* The contract. *)

MCContract0 ==
    [environment |-> "production", host |-> "observer", smtp |-> FALSE,
     jobs |-> <<Job("erp", "erp", TRUE, 1, None), Job("site", "site", FALSE, 1, <<"public:80">>),
                Job("crm", "crm", FALSE, 1, None)>>,
     federations |-> <<Federation("upstream", "upstream", "up_")>>,
     datasources |-> <<Datasource("prometheus", "prometheus", None, TRUE)>>,
     roster |-> <<[name |-> "prometheus", port |-> 9090], [name |-> "loki", port |-> None]>>,
     receivers |-> <<Receiver("oncall", <<Integration("telegram", "bot")>>),
                     Receiver("recorded-only", <<>>)>>,
     default |-> "recorded-only",
     routes |-> <<Route("critical", {Critical}, "oncall", FALSE),
                  Route("warning", {Warning}, "oncall", FALSE)>>,
     source_sets |-> <<[name |-> "management", kind |-> "tunnel_interface"]>>,
     surfaces |-> <<Surface("ssh", "host_service", "dual_stack", "ingress", "management"),
                    Surface("grafana", "container_published", "dual_stack", "loopback", None)>>,
     policy |-> Policy0]

MCInventory0 ==
    [environment |-> "production", host |-> "observer",
     targets |-> <<Binding("erp", <<"erp:1">>, "erp-token"), Binding("crm", <<"crm:1">>, None)>>,
     federations |-> <<[target_id |-> "upstream", endpoint |-> "up:1", credential |-> "up-token"]>>,
     receivers |-> <<Delivery("bot", "number")>>,
     source_sets |-> <<Set("management", "wg0", <<>>)>>]

MCDocuments ==
    [document \in Public |->
       CASE document = "jobs" ->
              LET jobs == MCContract0.jobs
                  probe == Job("probe", "site", FALSE, 1, <<"public:80">>)
              IN  {jobs, SubSeq(jobs, 1, 2), SubSeq(jobs, 2, 3), Append(jobs, probe),
                   Append(jobs, [probe EXCEPT !.name = "erp"]),
                   Append(jobs, [probe EXCEPT !.publication = None]),
                   Append(jobs, Job("mail", "mail", FALSE, 2, None)),
                   [jobs EXCEPT ![2].publication = None],
                   [jobs EXCEPT ![1].authenticated = FALSE],
                   [jobs EXCEPT ![1].authenticated = FALSE, ![1].publication = <<"erp:80">>]}
         [] document = "federations" ->
              {<<>>, MCContract0.federations,
               Append(MCContract0.federations, Federation("other", "other", "up_"))}
         [] document = "datasources" ->
              {Append(MCContract0.datasources, d) : d \in
                  {Datasource("site", None, "site", FALSE), Datasource("crm", None, "crm", FALSE),
                   Datasource("erp", None, "erp", FALSE), Datasource("loki", "loki", None, FALSE),
                   Datasource("tempo", "tempo", None, FALSE)}}
         [] document = "receivers" ->
              LET oncall == MCContract0.receivers[1]
                  mail == Integration("email", "mail")
              IN  {<<oncall>>, MCContract0.receivers,
                   <<oncall, Receiver("recorded-only", <<mail>>)>>,
                   <<oncall, Receiver("recorded-only", <<Integration("slack", "chat")>>)>>,
                   <<oncall, Receiver("recorded-only", <<Integration("webhook", "bot")>>)>>,
                   <<Receiver("oncall", <<>>), MCContract0.receivers[2]>>}
         [] document = "smtp" -> {TRUE}
         [] document = "default" -> {"oncall"}
         [] document = "routes" ->
              LET routes == MCContract0.routes
                  digest == Route("billing", {Billing}, "recorded-only", FALSE)
              IN  {<<digest>> \o routes, <<[digest EXCEPT !.keep_going = TRUE]>> \o routes,
                   Append(routes, digest), <<digest, routes[2]>>,
                   [routes EXCEPT ![1].receiver = "recorded-only"],
                   [routes EXCEPT ![2].receiver = "recorded-only"],
                   <<[routes[1] EXCEPT !.matchers = @ \cup {Billing}], routes[2]>>}
         [] document = "source_sets" ->
              {[MCContract0.source_sets EXCEPT ![1].kind = "address_set"],
               Append(MCContract0.source_sets, [name |-> "office", kind |-> "address_set"])}
         [] document = "surfaces" ->
              LET surfaces == MCContract0.surfaces
              IN  {[surfaces EXCEPT ![2].exposure = "ingress", ![2].allow_from = "management"],
                   [surfaces EXCEPT ![2].exposure = "public"],
                   [surfaces EXCEPT ![2].exposure = "public", ![2].authenticated = FALSE],
                   [surfaces EXCEPT ![1].family = "ipv4"],
                   [surfaces EXCEPT ![1].exposure = "none", ![1].allow_from = None],
                   [surfaces EXCEPT ![1].allow_from = None]}
         [] document = "policy" -> Policies]

MCTables ==
    [table \in Private |->
       LET before == MCInventory0[table]
       IN  CASE table = "targets" ->
                  {before, SubSeq(before, 1, 1), SubSeq(before, 2, 2),
                   [before EXCEPT ![2].endpoints = <<"crm:1", "crm:2">>],
                   Append(before, Binding("mail", <<"mail:1", "mail:2">>, None)),
                   Append(before, Binding("site", <<"site:1">>, None)),
                   Append(before, Binding("crm", <<"crm:2">>, None)),
                   [before EXCEPT ![1].credential = None]}
             [] table = "federations" -> {<<>>, [before EXCEPT ![1].credential = None]}
             [] table = "receivers" ->
                  {Append(before, Delivery("mail", "ops")), Append(before, Delivery("chat", None)),
                   [before EXCEPT ![1].destination = "name"]}
             [] table = "source_sets" ->
                  {<<Set("management", None, <<Four>>)>>, <<Set("management", None, <<Four, Six>>)>>,
                   <<Set("management", "wg0", <<Four>>)>>}
             [] table = "environment" -> {"rehearsal"}]

MCAlerts == [severity : Severities, domain : {"billing", "other"}]

MCPackets ==
    {p \in [port : {"ssh", "grafana"}, family : {"ipv4", "ipv6"}, interface : {"wg0", "eth0"},
            source : {Four, Six, Elsewhere("ipv4"), Elsewhere("ipv6")}, reply : BOOLEAN] :
        p.source.family = p.family}
=============================================================================

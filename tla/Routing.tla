------------------------------ MODULE Routing ------------------------------
(***************************************************************************)
(* Where an alert goes: routing/*.toml, what the validator asks of it, the  *)
(* Alertmanager configuration the renderer makes of it, and what            *)
(* Alertmanager, which is external, does with an alert.                     *)
(*                                                                         *)
(* A matcher is <<label, value>>, a route holds a set of them, an alert is  *)
(* a function from its labels.                                              *)
(***************************************************************************)
EXTENDS Rows

Severities == {"warning", "critical"}

Integrations(receivers) == UNION {ToSet(r.integrations) : r \in ToSet(receivers)}

\* Mutant of SharedRefs: each receiver is looked at alone.
SharedRefsOfOne(receivers) ==
    \E r \in ToSet(receivers) : Repeated(r.integrations, "credential_ref")

\* The places of a credential_ref: which receiver, and which of its integrations.
Citing(receivers, ref) ==
    UNION {{<<a, i>> : i \in {n \in DOMAIN receivers[a].integrations :
                                receivers[a].integrations[n].credential_ref = ref}}
               : a \in DOMAIN receivers}

SharedRefs(receivers) ==
    \E i \in Integrations(receivers) :
        \E p, q \in Citing(receivers, i.credential_ref) : p # q

Claims(route, severity) == <<"severity", severity>> \in route.matchers

\* Mutant of NullRoutes: the critical route's receiver is not looked at.
NullRoutesOfWarnings(desired) ==
    {r \in ToSet(desired.routes) :
        /\ Claims(r, "warning")
        /\ \E d \in ToSet(desired.receivers) : d.name = r.receiver /\ d.integrations = <<>>}

\* Routes that claim a severity for a receiver that delivers nowhere.
NullRoutes(desired) ==
    {r \in ToSet(desired.routes) :
        /\ \E s \in Severities : Claims(r, s)
        /\ LET receiver == Get(desired.receivers, "name", r.receiver)
           IN  receiver # None /\ receiver.integrations = <<>>}

\* _routing_findings().
RoutingFindings(desired) ==
    LET integrations == Integrations(desired.receivers)
        names == Keys(desired.receivers, "name")
        used == {desired.default} \cup Keys(desired.routes, "receiver")
    IN  Finding("CREDENTIAL-REF-SHARED", SharedRefs(desired.receivers))
        \cup Finding("SMTP-UNCONFIGURED",
            ~desired.smtp /\ \E i \in integrations : i.kind = "email")
        \cup Finding("RECEIVER-SILENT",
            \E r \in ToSet(desired.receivers) : r.integrations = <<>> /\ ~r.null_policy)
        \cup Finding("ROUTE-UNDECLARED", ~ used \subseteq names)
        \cup Finding("ROUTE-DUPLICATE", Repeated(desired.routes, "id"))
        \cup Finding("RECEIVER-UNUSED", ~ names \subseteq used)
        \cup Finding("SEVERITY-UNROUTED",
            \E s \in Severities : ~\E r \in ToSet(desired.routes) : Claims(r, s))
        \cup Finding("SEVERITY-UNDELIVERED", NullRoutes(desired) # {})

-----------------------------------------------------------------------------
(* The rendered configuration.  `bindings` is the private inventory's       *)
(* receivers table.                                                         *)

\* _receiver_config(): a webhook's destination is its credential.
ReceiverConfig(receiver, bindings) ==
    {LET binding == Get(bindings, "credential_ref", i.credential_ref)
     IN  [kind |-> i.kind, credential |-> binding.credential,
          destination |-> IF i.kind = "webhook" THEN None ELSE binding.destination]
        : i \in ToSet(receiver.integrations)}

\* _route_config() and _alertmanager().
Alertmanager(desired, bindings) ==
    [smtp      |-> desired.smtp,
     default   |-> desired.default,
     routes    |-> desired.routes,
     receivers |-> [name \in Keys(desired.receivers, "name") |->
                       ReceiverConfig(Get(desired.receivers, "name", name), bindings)]]

-----------------------------------------------------------------------------
(* Alertmanager.                                                           *)

Matches(route, alert) == \A m \in route.matchers : alert[m[1]] = m[2]

\* The first matching route wins, and the ones after it if it says `continue`.
Taken(config, alert) ==
    {i \in DOMAIN config.routes :
        /\ Matches(config.routes[i], alert)
        /\ \A j \in 1..(i - 1) : Matches(config.routes[j], alert) => config.routes[j].keep_going}

Recipients(config, alert) ==
    IF Taken(config, alert) = {} THEN {config.default}
    ELSE {config.routes[i].receiver : i \in Taken(config, alert)}

\* A chat id is a number, mail needs a smarthost, and only a webhook needs no
\* destination.
Sends(config, entry) ==
    CASE entry.kind = "telegram" -> entry.destination = "number"
      [] entry.kind = "email"    -> config.smtp /\ entry.destination # None
      [] entry.kind = "slack"    -> entry.destination # None
      [] OTHER                   -> TRUE

Delivered(config, name) == \E entry \in config.receivers[name] : Sends(config, entry)
=============================================================================

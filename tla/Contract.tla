------------------------------ MODULE Contract ------------------------------
(***************************************************************************)
(* The two halves of the desired state and what a promotion makes of them.  *)
(* The public contract changes by pull requests, each validated alone; the  *)
(* private inventory is provisioned by an operator, who resolves nothing;    *)
(* a render takes one, then the other, and only it sees both.               *)
(***************************************************************************)
EXTENDS Resolution, Ingestion, FiniteSets

CONSTANTS Contract0, Inventory0,  \* what is on main and in the store at first
          Documents,   \* [field of the contract -> what a pull request may make of it]
          Tables,      \* [field of the inventory -> what an operator may make of it]
          Records,     \* the telemetry that may arrive
          Alerts,      \* the alerts that may fire
          Packets,     \* the packets that may arrive
          MaxChanges   \* bound: pull requests and writes together

\* What load() and load_private_inventory() make of the documents their schemas let
\* through: rows in a sequence, a count, endpoints in a sequence, a kind of a list.
IsJobs(jobs) ==
    /\ IsTable(jobs)
    /\ \A j \in ToSet(jobs) : /\ j.expected \in Nat
                              /\ j.publication = None \/ IsTable(j.publication)

IsSurfaces(surfaces) ==
    /\ IsTable(surfaces)
    /\ \A s \in ToSet(surfaces) : /\ s.exposure \in {"none", "loopback", "ingress", "public"}
                                  /\ s.family \in {"ipv4", "ipv6", "dual_stack"}

IsTargets(targets) == IsTable(targets) /\ \A t \in ToSet(targets) : IsTable(t.endpoints)

\* A document of the contract.
IsDocument(name, content) ==
    CASE name = "jobs"        -> IsJobs(content)
      [] name = "surfaces"    -> IsSurfaces(content)
      [] name = "receivers"   -> /\ IsTable(content)
                                 /\ \A r \in ToSet(content) : IsTable(r.integrations)
      [] name = "source_sets" -> /\ IsTable(content)
                                 /\ \A s \in ToSet(content) :
                                        s.kind \in {"tunnel_interface", "address_set"}
      [] name = "policy"      -> IsTable(content.rejected) /\ None \notin Keys(content.rejected, "name")
      [] name \in {"federations", "routes"} -> IsTable(content)
      [] OTHER                -> TRUE

\* A table of the private inventory.
IsInventoryTable(name, content) ==
    CASE name = "targets"     -> IsTargets(content)
      [] name = "source_sets" -> IsTable(content) /\ \A s \in ToSet(content) : IsTable(s.prefixes)
      [] name \in {"federations", "receivers"} -> IsTable(content)
      [] OTHER                -> TRUE

ASSUME ContractAssumption ==
    /\ {"jobs", "federations", "receivers", "routes", "source_sets", "surfaces", "policy"}
           \subseteq DOMAIN Contract0
    /\ DOMAIN Documents \subseteq DOMAIN Contract0
    /\ \A name \in DOMAIN Contract0 : IsDocument(name, Contract0[name])
    /\ \A name \in DOMAIN Documents : \A content \in Documents[name] : IsDocument(name, content)
    /\ {"targets", "federations", "receivers", "source_sets"} \subseteq DOMAIN Inventory0
    /\ DOMAIN Tables \subseteq DOMAIN Inventory0
    /\ \A name \in DOMAIN Inventory0 : IsInventoryTable(name, Inventory0[name])
    /\ \A name \in DOMAIN Tables : \A content \in Tables[name] : IsInventoryTable(name, content)
    /\ \A record \in Records : IsTable(record)
    /\ None \notin BuiltIn
    /\ MaxChanges \in Nat

VARIABLES
    main,     \* the contract on protected main
    stored,   \* the private inventory in the store
    changes,  \* how many pull requests and writes there were
    run,      \* a render: [desired, inventory], each None until it is taken
    live      \* the last release rendered: [desired, inventory, tree], or None

vars == <<main, stored, changes, run, live>>

NoRun == [desired |-> None, inventory |-> None]

\* semantic_findings(), as far as the release's files are concerned.
SemanticFindings(desired) ==
    RoutingFindings(desired) \cup TargetFindings(desired) \cup DatasourceFindings(desired)
    \cup ExposureFindings(desired) \cup IngestionFindings(desired.policy)

Init ==
    /\ main = Contract0
    /\ stored = Inventory0
    /\ changes = 0
    /\ run = NoRun
    /\ live = None

\* make check on a pull request that changes one document, and its merge.
Merge ==
    /\ changes < MaxChanges
    /\ \E document \in DOMAIN Documents : \E content \in Documents[document] :
        /\ main' = [main EXCEPT ![document] = content]
        /\ main' # main
        /\ SemanticFindings(main') = {}
    /\ changes' = changes + 1
    /\ UNCHANGED <<stored, run, live>>

\* External: an operator writes a version of the inventory with one table changed.
Provision ==
    /\ changes < MaxChanges
    /\ \E table \in DOMAIN Tables : \E content \in Tables[table] :
        stored' = [stored EXCEPT ![table] = content]
    /\ stored' # stored
    /\ changes' = changes + 1
    /\ UNCHANGED <<main, run, live>>

\* A render's checkout, and later the private document.
Checkout ==
    /\ run = NoRun
    /\ run' = [run EXCEPT !.desired = main]
    /\ UNCHANGED <<main, stored, changes, live>>

\* Mutant of Fetch: the private document does not wait for the checkout.
FetchAlone ==
    /\ run.inventory = None
    /\ run' = [run EXCEPT !.inventory = stored]
    /\ UNCHANGED <<main, stored, changes, live>>

Fetch ==
    /\ run.desired # None /\ run.inventory = None
    /\ run' = [run EXCEPT !.inventory = stored]
    /\ UNCHANGED <<main, stored, changes, live>>

\* Mutant of Findings: the contract was checked when it merged, and that is that.
FindingsOfTheContract(desired, inventory) == SemanticFindings(desired)

\* What `render` asks first: the checkout's own findings, then resolve()'s.
Findings(desired, inventory) ==
    SemanticFindings(desired) \cup ResolutionFindings(desired, inventory)

\* _cmd_render(): the pair is rendered or refused, and either way the run is over.
RenderRelease ==
    /\ run.inventory # None
    /\ \/ /\ Findings(run.desired, run.inventory) = {}
          /\ live' = [desired |-> run.desired, inventory |-> run.inventory,
                      tree |-> Render(run.desired, run.inventory)]
       \/ /\ Findings(run.desired, run.inventory) # {}
          /\ UNCHANGED live
    /\ run' = NoRun
    /\ UNCHANGED <<main, stored, changes>>

Next == Merge \/ Provision \/ Checkout \/ Fetch \/ RenderRelease

Spec == Init /\ [][Next]_vars

-----------------------------------------------------------------------------
(* Properties.                                                             *)

\* The type invariant: both halves keep their tables, a render takes the checkout
\* before the private document, and a release has a source for each job and a
\* fragment for each family.
ContractTypeOK ==
    /\ DOMAIN main = DOMAIN Contract0 /\ DOMAIN stored = DOMAIN Inventory0
    /\ changes \in 0..MaxChanges
    /\ run.desired = None => run.inventory = None
    /\ live # None => /\ DOMAIN live.tree.rules = {"ipv4", "ipv6"}
                      /\ \A e \in live.tree.scrapes : e.from # None

\* resolve()'s docstring: "a Resolution that exists is one whose every lookup is
\* known to succeed".  Whatever pair of halves passes the gates, the renderer's
\* unguarded lookups, its assertion and its int() do not raise on it.
EveryLookupSucceeds ==
    run.inventory # None /\ Findings(run.desired, run.inventory) = {}
        => Raising(run.desired, run.inventory) = {}

\* What is scraped is what was declared, though its two halves moved apart in the
\* meantime: a credential exactly where the public job claims one, as many
\* endpoints as it expects; and a datasource asks the one endpoint of the one job
\* that scrapes its target.
ScrapesAsDeclared ==
    live # None =>
        /\ \A e \in live.tree.scrapes : \A j \in ToSet(live.desired.jobs) : j.name = e.job =>
            /\ j.authenticated = (e.from.credential # None)
            /\ Len(e.from.endpoints) >= j.expected
        /\ \A d \in live.tree.datasources : d.service = None =>
            \E e \in live.tree.scrapes :
                /\ e.from.endpoints = <<d.url>>
                /\ e.from.credential = None
                /\ \A f \in live.tree.scrapes : f.target_id = d.target_id <=> f = e

\* No row of a table hides another, and no two bindings hold one credential.
NamesNothingTwice(desired, inventory) ==
    /\ ~Repeated(desired.receivers, "name")
    /\ ~Repeated(inventory.targets, "target_id")
    /\ ~Repeated(inventory.federations, "target_id")
    /\ ~Repeated(inventory.receivers, "credential_ref")
    /\ ~Repeated(inventory.receivers, "credential")
    /\ ~Repeated(inventory.source_sets, "name")

\* "a resolved endpoint nothing scrapes is a stale entry that no other gate would
\* ever mention": of a pair that names nothing twice, every binding reaches the
\* release, and every credential of a receiver is used by one integration.
EveryBindingIsRead ==
    live # None /\ NamesNothingTwice(live.desired, live.inventory) =>
        LET inventory == live.inventory
            bindings == ToSet(inventory.targets)
            receivers == live.tree.alertmanager.receivers
            Sent(binding) == UNION {{<<name, entry>> : entry \in
                                        {e \in receivers[name] : e.credential = binding.credential}}
                                       : name \in DOMAIN receivers}
        IN  /\ \A b \in bindings :
                \E e \in live.tree.scrapes : e.from.endpoints = b.endpoints
            /\ \A b \in ToSet(inventory.federations) :
                \E e \in live.tree.federations : e.from = b
            /\ \A b \in ToSet(inventory.receivers) : Cardinality(Sent(b)) = 1
            /\ \A b \in ToSet(inventory.source_sets) :
                \E family \in {"ipv4", "ipv6"} :
                \E block \in ToSet(live.tree.rules[family]) : \E rule \in ToSet(block) :
                    \/ b.interface # None /\ rule.interface = b.interface
                    \/ rule.source \in ToSet(b.prefixes)

\* A warning or a critical alert whose severity the route that takes it names is
\* sent: the route's receiver has an integration that Alertmanager can use with
\* what its binding holds.
ClaimedSeverityIsSent ==
    live # None =>
        \A alert \in Alerts : \A i \in Taken(live.tree.alertmanager, alert) :
            alert["severity"] \in Severities
                /\ Claims(live.tree.alertmanager.routes[i], alert["severity"]) =>
                Delivered(live.tree.alertmanager, live.tree.alertmanager.routes[i].receiver)

\* "severity classes that must land somewhere real" (_routing_findings()): every
\* warning and every critical alert is sent by some receiver.
SeveritiesLand ==
    live # None =>
        \A alert \in Alerts : alert["severity"] \in Severities =>
            \E name \in Recipients(live.tree.alertmanager, alert) :
                Delivered(live.tree.alertmanager, name)

\* Who the contract lets in.
Permitted(surface, inventory, declared, packet) ==
    LET kind == Get(declared, "name", surface.allow_from).kind
        binding == Get(inventory.source_sets, "name", surface.allow_from)
    IN  CASE surface.exposure \in {"none", "loopback"} -> FALSE
          [] surface.exposure = "public"               -> TRUE
          [] OTHER -> \/ packet.reply
                      \/ kind = "tunnel_interface" /\ packet.interface = binding.interface
                      \/ kind = "address_set" /\ packet.source \in ToSet(binding.prefixes)

\* In each family a surface is declared for, and whose fragment loads, a packet to a
\* port of one surface is accepted exactly when the surface's exposure, or the
\* declared kind of the set it allows from, admits it: the rules sit in the chain
\* the packet traverses, in the order that decides.
OnlyDeclaredSourcesReach ==
    live # None /\ ~Repeated(live.desired.surfaces, "name") =>
        \A s \in ToSet(live.desired.surfaces), p \in Packets :
            p.port = s.name /\ p.family \in Families(s)
                /\ Loads(live.tree.rules[p.family], p.family)
            => (Verdict(live.tree.rules[p.family], s.kind, p) = "ACCEPT"
                  <=> Permitted(s, live.inventory, live.desired.source_sets, p))

\* "Rejection is by RULE, not by outcome": under every merged policy a record that
\* carries forbidden material is refused by a declared rule, whatever else it
\* carries and in whatever order; and one that carries none is refused only for an
\* attribute the policy does not accept.  (No rule has the name of a built-in refusal.)
RefusedByItsRule ==
    [][main'.policy # main.policy /\ Keys(main'.policy.rejected, "name") \cap BuiltIn = {} =>
        \A record \in Records, signal \in {"logs", "traces"} :
            LET policy == main'.policy
                verdict == Classify(policy, signal, record)
                attributes == ToSet(record)
                forbidden == \E a \in attributes, r \in ToSet(policy.rejected) :
                                 Bites(policy, signal, r, a.name, a.value)
            IN  /\ forbidden <=> verdict \in Keys(policy.rejected, "name")
                /\ verdict = None <=>
                      /\ ~forbidden
                      /\ \A a \in attributes : Unfit(policy, signal, a.name, a.value) = None]_vars
=============================================================================

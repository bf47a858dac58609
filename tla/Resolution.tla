----------------------------- MODULE Resolution -----------------------------
(***************************************************************************)
(* Public policy joined to the private inventory: what the validator asks   *)
(* of the scrape jobs, federations and datasources alone, what it asks of    *)
(* them together with the bindings, and resolve(), which the renderer        *)
(* indexes without guarding.                                                *)
(*                                                                         *)
(* A job's publication, and a binding's endpoints, are sequences; a target  *)
(* no one published has publication None.  A job that declares no number of *)
(* targets expects 0.                                                       *)
(***************************************************************************)
EXTENDS Routing, Exposure

\* _target_findings().
TargetFindings(desired) ==
    LET names == desired.jobs \o desired.federations
    IN  Finding("JOB-DUPLICATE", Repeated(names, "name"))
        \cup Finding("METRICS-PATH-UNEXPLAINED", \E j \in ToSet(desired.jobs) : ~j.explained)
        \cup Finding("FEDERATION-PREFIX-COLLISION",
            Repeated(desired.federations, "rename_prefix"))

\* Mutant of Claimants: jobs_by_target, where of several jobs the last is left.
LastClaimant(desired, source) ==
    {i \in DOMAIN desired.jobs :
        desired.jobs[i] = Get(desired.jobs, "target_id", source.target_id)}

\* The jobs that declare a datasource's target, by their places.
Claimants(desired, source) ==
    {i \in DOMAIN desired.jobs : desired.jobs[i].target_id = source.target_id}

\* The datasource part of _bundle_findings(), with the roster it looks up.
DatasourceFindings(desired) ==
    LET sources == ToSet(desired.datasources)
        local == {s \in sources : s.service # None}
        Several(s) == \E i, j \in Claimants(desired, s) : i # j
        Port(s) == Get(desired.roster, "name", s.service)
    IN  Finding("DATASOURCE-DEFAULT",
            Len(SelectSeq(desired.datasources, LAMBDA s : s.default)) # 1)
        \cup Finding("DATASOURCE-UNROSTERED", \E s \in local : Port(s) = None)
        \cup Finding("DATASOURCE-NO-PORT",
            \E s \in local : Port(s) # None /\ Port(s).port = None)
        \cup Finding("DATASOURCE-TARGET-UNDECLARED",
            \E s \in sources \ local : Claimants(desired, s) = {})
        \cup Finding("DATASOURCE-TARGET-AMBIGUOUS", \E s \in sources \ local : Several(s))
        \cup Finding("DATASOURCE-TARGET-AUTHENTICATED",
            \E s \in sources \ local : \E i \in Claimants(desired, s) :
                ~Several(s) /\ desired.jobs[i].authenticated)

-----------------------------------------------------------------------------
(* resolution_findings(), one table of the inventory at a time.             *)

\* Where a job's endpoints come from: its publication before its binding.
\* None when neither is there.
JobEndpoint(job, inventory) ==
    LET binding == Get(inventory.targets, "target_id", job.target_id)
    IN  IF job.publication # None
        THEN [endpoints |-> job.publication, credential |-> None]
        ELSE IF binding = None THEN None
        ELSE [endpoints |-> binding.endpoints, credential |-> binding.credential]

JobFindings(desired, inventory) ==
    LET jobs == ToSet(desired.jobs)
        bound == Keys(inventory.targets, "target_id")
        met == {j \in jobs : JobEndpoint(j, inventory) # None}
        \* A published target's binding may bring a credential to the comparison.
        Credential(j) == IF j.target_id \in bound
                         THEN Get(inventory.targets, "target_id", j.target_id).credential
                         ELSE None
    IN  Finding("PUBLICATION-SHADOWED",
            \E j \in jobs : j.publication # None /\ j.target_id \in bound)
        \cup Finding("RESOLUTION-MISSING", met # jobs)
        \cup Finding("AUTHENTICATION-MISMATCH",
            \E j \in met : j.authenticated # (Credential(j) # None))
        \cup Finding("TARGET-UNREACHABLE-EXPECTATION",
            \E j \in met : j.expected > Len(JobEndpoint(j, inventory).endpoints))
        \cup Finding("RESOLUTION-UNUSED", ~ bound \subseteq Keys(desired.jobs, "target_id"))

\* The job of a datasource: of several with one target_id, the last.
DatasourceEndpoints(source, desired, inventory) ==
    LET job == Get(desired.jobs, "target_id", source.target_id)
    IN  IF job = None \/ JobEndpoint(job, inventory) = None THEN <<>>
        ELSE JobEndpoint(job, inventory).endpoints

DatasourceCardinality(desired, inventory) ==
    Finding("DATASOURCE-TARGET-CARDINALITY",
        \E s \in ToSet(desired.datasources) :
            /\ s.target_id \in Keys(desired.jobs, "target_id")
            /\ Len(DatasourceEndpoints(s, desired, inventory)) # 1)

FederationFindings(desired, inventory) ==
    LET Upstream(f) == Get(inventory.federations, "target_id", f.target_id)
        met == {f \in ToSet(desired.federations) : Upstream(f) # None}
    IN  Finding("RESOLUTION-MISSING", met # ToSet(desired.federations))
        \cup Finding("AUTHENTICATION-MISMATCH",
            \E f \in met : f.authenticated # (Upstream(f).credential # None))
        \cup Finding("RESOLUTION-UNUSED",
            Keys(inventory.federations, "target_id") # {f.target_id : f \in met})

ReceiverFindings(desired, inventory) ==
    LET integrations == Integrations(desired.receivers)
        Delivery(i) == Get(inventory.receivers, "credential_ref", i.credential_ref)
        met == {i \in integrations : Delivery(i) # None}
    IN  Finding("RESOLUTION-MISSING", met # integrations)
        \cup Finding("RECEIVER-CHAT-ID",
            \E i \in met : i.kind = "telegram" /\ Delivery(i).destination # "number")
        \cup Finding("RECEIVER-NO-DESTINATION",
            \E i \in met : /\ i.kind \notin {"telegram", "webhook"}
                           /\ Delivery(i).destination = None)
        \cup Finding("RESOLUTION-UNUSED",
            Keys(inventory.receivers, "credential_ref") # {i.credential_ref : i \in met})

SourceSetFindings(desired, inventory) ==
    LET used == Keys(desired.surfaces, "allow_from") \ {None}
        declared == used \cap Keys(desired.source_sets, "name")
        Kind(name) == Get(desired.source_sets, "name", name).kind
        Bound(name) == Get(inventory.source_sets, "name", name)
        met == {name \in declared : Bound(name) # None}
        tunnels == {Bound(name) : name \in {n \in met : Kind(n) = "tunnel_interface"}}
        addresses == {Bound(name) : name \in {n \in met : Kind(n) = "address_set"}}
    IN  Finding("RESOLUTION-UNRESOLVED", met # declared)
        \cup Finding("SOURCE-SET-KIND",
            \/ \E b \in tunnels : b.interface = None \/ b.prefixes # <<>>
            \/ \E b \in addresses : b.interface # None \/ b.prefixes = <<>>)
        \cup Finding("RESOLUTION-UNUSED", ~ Keys(inventory.source_sets, "name") \subseteq used)

ResolutionFindings(desired, inventory) ==
    Finding("RESOLUTION-ENVIRONMENT", inventory.environment # desired.environment)
    \cup Finding("RESOLUTION-HOST", inventory.host # desired.host)
    \cup JobFindings(desired, inventory)
    \cup DatasourceCardinality(desired, inventory)
    \cup FederationFindings(desired, inventory)
    \cup ReceiverFindings(desired, inventory)
    \cup SourceSetFindings(desired, inventory)

-----------------------------------------------------------------------------
(* resolve() and the renderer's use of it.                                  *)

DatasourceUrl(source, desired, inventory) ==
    IF source.service # None THEN <<source.service, Get(desired.roster, "name", source.service).port>>
    ELSE Head(DatasourceEndpoints(source, desired, inventory))

\* What resolve() and the renderer index, assert or convert without a guard and
\* would raise on.
Raising(desired, inventory) ==
    [job        : {j \in ToSet(desired.jobs) : JobEndpoint(j, inventory) = None}]
    \cup [datasource : {s \in ToSet(desired.datasources) :
            IF s.service = None THEN DatasourceEndpoints(s, desired, inventory) = <<>>
            ELSE \/ Get(desired.roster, "name", s.service) = None
                 \/ Get(desired.roster, "name", s.service).port = None}]
    \cup [federation : {f \in ToSet(desired.federations) :
            Get(inventory.federations, "target_id", f.target_id) = None}]
    \cup [integration : {i \in Integrations(desired.receivers) :
            LET delivery == Get(inventory.receivers, "credential_ref", i.credential_ref)
            IN  \/ delivery = None
                \/ i.kind = "telegram" /\ delivery.destination \notin {None, "number"}}]
    \cup [surface    : {s \in ToSet(desired.surfaces) :
            s.exposure = "ingress" /\ Get(inventory.source_sets, "name", s.allow_from) = None}]

\* The files, as far as their readers tell them apart.
Render(desired, inventory) ==
    [scrapes      |-> {[job |-> j.name, target_id |-> j.target_id,
                        from |-> JobEndpoint(j, inventory)] : j \in ToSet(desired.jobs)},
     federations  |-> {[job |-> f.name, from |-> Get(inventory.federations, "target_id", f.target_id)]
                          : f \in ToSet(desired.federations)},
     datasources  |-> {[name |-> s.name, service |-> s.service, target_id |-> s.target_id,
                        url |-> DatasourceUrl(s, desired, inventory)]
                          : s \in ToSet(desired.datasources)},
     alertmanager |-> Alertmanager(desired, inventory.receivers),
     rules        |-> [family \in {"ipv4", "ipv6"} |->
                          ExposureRules(desired, inventory.source_sets, family)]]
=============================================================================

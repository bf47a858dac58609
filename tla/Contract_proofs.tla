-------------------------- MODULE Contract_proofs --------------------------
(***************************************************************************)
(* Of whatever contract and inventory: what the gates let through has every  *)
(* lookup of resolve() and the renderer answered; what is rendered of it    *)
(* scrapes, uses every binding, sends and lets in as the contract says; and *)
(* what is ingested is refused by a rule exactly when one bites.            *)
(***************************************************************************)
EXTENDS Contract, Counting, TLAPS, SequenceTheorems, FiniteSetTheorems

LEMMA JobsAreMet ==
    ASSUME NEW desired, NEW inventory, JobFindings(desired, inventory) = {},
           NEW j \in ToSet(desired.jobs)
    PROVE  JobEndpoint(j, inventory) # None
<1> DEFINE jobs == ToSet(desired.jobs)
           met == {k \in jobs : JobEndpoint(k, inventory) # None}
<1>1. met = jobs
  BY Zenon DEF JobFindings, Finding
<1> QED BY <1>1

LEMMA FederationsAreMet ==
    ASSUME NEW desired, NEW inventory, FederationFindings(desired, inventory) = {},
           NEW f \in ToSet(desired.federations)
    PROVE  Get(inventory.federations, "target_id", f.target_id) # None
<1> DEFINE Upstream(g) == Get(inventory.federations, "target_id", g.target_id)
           met == {g \in ToSet(desired.federations) : Upstream(g) # None}
<1>1. met = ToSet(desired.federations)
  BY Zenon DEF FederationFindings, Finding
<1> QED BY <1>1

LEMMA IntegrationsAreMet ==
    ASSUME NEW desired, NEW inventory, ReceiverFindings(desired, inventory) = {},
           NEW i \in Integrations(desired.receivers)
    PROVE  LET delivery == Get(inventory.receivers, "credential_ref", i.credential_ref)
           IN  /\ delivery # None
               /\ i.kind = "telegram" => delivery.destination = "number"
<1> DEFINE all == Integrations(desired.receivers)
           Delivery(k) == Get(inventory.receivers, "credential_ref", k.credential_ref)
           met == {k \in all : Delivery(k) # None}
<1>1. met = all
  BY Zenon DEF ReceiverFindings, Finding
<1>2. ~ \E k \in met : k.kind = "telegram" /\ Delivery(k).destination # "number"
  BY Zenon DEF ReceiverFindings, Finding
<1> QED BY <1>1, <1>2

LEMMA SurfacesAreMet ==
    ASSUME NEW desired, NEW inventory, ExposureFindings(desired) = {},
           SourceSetFindings(desired, inventory) = {},
           NEW s \in ToSet(desired.surfaces), s.exposure = "ingress"
    PROVE  Get(inventory.source_sets, "name", s.allow_from) # None
<1> DEFINE ingress == {t \in ToSet(desired.surfaces) : t.exposure = "ingress"}
           used == Keys(desired.surfaces, "allow_from") \ {None}
           declared == used \cap Keys(desired.source_sets, "name")
           met == {name \in declared : Get(inventory.source_sets, "name", name) # None}
<1>1. s \in ingress
  OBVIOUS
<1>2. ~ \E t \in ingress : t.allow_from = None
  BY Zenon DEF ExposureFindings, Finding
<1>3. ~ \E t \in ingress :
            t.allow_from \notin Keys(desired.source_sets, "name") \cup {None}
  BY Zenon DEF ExposureFindings, Finding
<1>4. s.allow_from \in used
  BY <1>1, <1>2 DEF Keys
<1>5. s.allow_from \in declared
  BY <1>1, <1>2, <1>3, <1>4
<1>6. met = declared
  BY Zenon DEF SourceSetFindings, Finding
<1> QED BY <1>5, <1>6

\* A local datasource has a port of the roster; a remote one has one endpoint.
LEMMA DatasourcesAreMet ==
    ASSUME NEW desired, NEW inventory, DatasourceFindings(desired) = {},
           DatasourceCardinality(desired, inventory) = {},
           NEW s \in ToSet(desired.datasources)
    PROVE  /\ s.service = None => DatasourceEndpoints(s, desired, inventory) # <<>>
           /\ s.service # None =>
                /\ Get(desired.roster, "name", s.service) # None
                /\ Get(desired.roster, "name", s.service).port # None
<1> DEFINE sources == ToSet(desired.datasources)
           local == {t \in sources : t.service # None}
           Port(t) == Get(desired.roster, "name", t.service)
<1>1. ~ \E t \in local : Port(t) = None
  BY Zenon DEF DatasourceFindings, Finding
<1>2. ~ \E t \in local : Port(t) # None /\ Port(t).port = None
  BY Zenon DEF DatasourceFindings, Finding
<1>3. ~ \E t \in sources \ local : Claimants(desired, t) = {}
  BY Zenon DEF DatasourceFindings, Finding
<1>4. ASSUME s.service = None
      PROVE  DatasourceEndpoints(s, desired, inventory) # <<>>
  <2>1. PICK i \in DOMAIN desired.jobs : desired.jobs[i].target_id = s.target_id
    BY <1>3, <1>4 DEF Claimants
  <2>2. s.target_id \in Keys(desired.jobs, "target_id")
    BY <2>1 DEF Keys, ToSet
  <2>3. ~ \E t \in ToSet(desired.datasources) :
              /\ t.target_id \in Keys(desired.jobs, "target_id")
              /\ Len(DatasourceEndpoints(t, desired, inventory)) # 1
    BY Zenon DEF DatasourceCardinality, Finding
  <2>4. Len(DatasourceEndpoints(s, desired, inventory)) = 1
    BY <2>2, <2>3
  <2>5. Len(<<>>) # 1
    OBVIOUS
  <2> QED BY <2>4, <2>5
<1> QED BY <1>1, <1>2, <1>4

\* resolve()'s promise, of any pair whatever.
LEMMA NothingRaises ==
    ASSUME NEW desired, NEW inventory, Findings(desired, inventory) = {}
    PROVE  Raising(desired, inventory) = {}
<1>1. /\ DatasourceFindings(desired) = {}
      /\ ExposureFindings(desired) = {}
      /\ JobFindings(desired, inventory) = {}
      /\ DatasourceCardinality(desired, inventory) = {}
      /\ FederationFindings(desired, inventory) = {}
      /\ ReceiverFindings(desired, inventory) = {}
      /\ SourceSetFindings(desired, inventory) = {}
  BY Zenon DEF Findings, SemanticFindings, ResolutionFindings
<1>2. {j \in ToSet(desired.jobs) : JobEndpoint(j, inventory) = None} = {}
  BY <1>1, JobsAreMet
<1>3. {s \in ToSet(desired.datasources) :
         IF s.service = None THEN DatasourceEndpoints(s, desired, inventory) = <<>>
         ELSE \/ Get(desired.roster, "name", s.service) = None
              \/ Get(desired.roster, "name", s.service).port = None} = {}
  BY <1>1, DatasourcesAreMet
<1>4. {f \in ToSet(desired.federations) :
         Get(inventory.federations, "target_id", f.target_id) = None} = {}
  BY <1>1, FederationsAreMet
<1>5. {i \in Integrations(desired.receivers) :
         LET delivery == Get(inventory.receivers, "credential_ref", i.credential_ref)
         IN  \/ delivery = None
             \/ i.kind = "telegram" /\ delivery.destination \notin {None, "number"}} = {}
  BY <1>1, IntegrationsAreMet
<1>6. {s \in ToSet(desired.surfaces) :
         s.exposure = "ingress" /\ Get(inventory.source_sets, "name", s.allow_from) = None} = {}
  BY <1>1, SurfacesAreMet
<1> QED BY <1>2, <1>3, <1>4, <1>5, <1>6 DEF Raising

\* resolve()'s docstring, "a Resolution that exists is one whose every lookup is
\* known to succeed": whatever contract and inventory a render takes, and however
\* the halves got there, nothing the gates let through makes the renderer raise.
THEOREM LookupsSucceed == Spec => []EveryLookupSucceeds
<1>1. EveryLookupSucceeds
  BY NothingRaises DEF EveryLookupSucceeds
<1> QED BY <1>1, PTL

-----------------------------------------------------------------------------
(* The halves keep their columns, and a release is what its pair rendered.  *)

IsContract(desired) ==
    /\ DOMAIN desired = DOMAIN Contract0
    /\ \A name \in DOMAIN desired : IsDocument(name, desired[name])

IsInventory(inventory) ==
    /\ DOMAIN inventory = DOMAIN Inventory0
    /\ \A name \in DOMAIN inventory : IsInventoryTable(name, inventory[name])

IsRun(r) ==
    /\ r = [desired |-> r.desired, inventory |-> r.inventory]
    /\ r.desired = None => r.inventory = None
    /\ r.desired # None => IsContract(r.desired)
    /\ r.inventory # None => IsInventory(r.inventory)

\* The inductive invariant: a render holds two halves that were each well formed
\* when it took them, and the last release passed the gates as a pair.
Rendered ==
    /\ IsContract(main)
    /\ IsInventory(stored)
    /\ changes \in 0..MaxChanges
    /\ IsRun(run)
    /\ live # None =>
         /\ IsContract(live.desired) /\ IsInventory(live.inventory)
         /\ Findings(live.desired, live.inventory) = {}
         /\ live.tree = Render(live.desired, live.inventory)

LEMMA DocumentsOf ==
    ASSUME NEW desired, IsContract(desired)
    PROVE  /\ IsJobs(desired.jobs) /\ IsSurfaces(desired.surfaces)
           /\ IsTable(desired.federations) /\ IsTable(desired.routes)
           /\ IsTable(desired.receivers)
           /\ \A r \in ToSet(desired.receivers) : IsTable(r.integrations)
           /\ IsTable(desired.source_sets)
           /\ \A s \in ToSet(desired.source_sets) : s.kind \in {"tunnel_interface", "address_set"}
           /\ IsTable(desired.policy.rejected)
           /\ None \notin Keys(desired.policy.rejected, "name")
<1>1. \A name \in {"jobs", "federations", "receivers", "routes", "source_sets", "surfaces", "policy"} :
         IsDocument(name, desired[name])
  BY ContractAssumption DEF IsContract
<1> QED BY <1>1 DEF IsDocument

LEMMA TablesOf ==
    ASSUME NEW inventory, IsInventory(inventory)
    PROVE  /\ IsTargets(inventory.targets) /\ IsTable(inventory.federations)
           /\ IsTable(inventory.receivers) /\ IsTable(inventory.source_sets)
           /\ \A s \in ToSet(inventory.source_sets) : IsTable(s.prefixes)
<1>1. \A name \in {"targets", "federations", "receivers", "source_sets"} :
         IsInventoryTable(name, inventory[name])
  BY ContractAssumption DEF IsInventory
<1> QED BY <1>1 DEF IsInventoryTable

LEMMA InitRendered == Init => Rendered
  BY ContractAssumption DEF Init, Rendered, IsContract, IsInventory, IsRun, NoRun

LEMMA MergeRendered == Rendered /\ Merge => Rendered'
<1> SUFFICES ASSUME Rendered, Merge PROVE Rendered'
  OBVIOUS
<1>1. PICK document \in DOMAIN Documents : \E content \in Documents[document] :
         main' = [main EXCEPT ![document] = content]
  BY DEF Merge
<1>2. PICK content \in Documents[document] : main' = [main EXCEPT ![document] = content]
  BY <1>1
<1>3. IsDocument(document, content)
  BY ContractAssumption
<1>4. IsContract(main')
  BY <1>2, <1>3 DEF Rendered, IsContract
<1>5. changes' \in 0..MaxChanges
  BY ContractAssumption DEF Merge, Rendered
<1>6. UNCHANGED <<stored, run, live>>
  BY DEF Merge
<1> QED BY <1>4, <1>5, <1>6 DEF Rendered

LEMMA ProvisionRendered == Rendered /\ Provision => Rendered'
<1> SUFFICES ASSUME Rendered, Provision PROVE Rendered'
  OBVIOUS
<1>1. PICK table \in DOMAIN Tables : \E content \in Tables[table] :
         stored' = [stored EXCEPT ![table] = content]
  BY DEF Provision
<1>2. PICK content \in Tables[table] : stored' = [stored EXCEPT ![table] = content]
  BY <1>1
<1>3. IsInventoryTable(table, content)
  BY ContractAssumption
<1>4. IsInventory(stored')
  BY <1>2, <1>3 DEF Rendered, IsInventory
<1>5. changes' \in 0..MaxChanges
  BY ContractAssumption DEF Provision, Rendered
<1>6. UNCHANGED <<main, run, live>>
  BY DEF Provision
<1> QED BY <1>4, <1>5, <1>6 DEF Rendered

LEMMA RunRendered == Rendered /\ (Checkout \/ Fetch \/ RenderRelease) => Rendered'
<1> SUFFICES ASSUME Rendered, Checkout \/ Fetch \/ RenderRelease PROVE Rendered'
  OBVIOUS
<1>1. CASE Checkout
  <2>1. run' = [desired |-> main, inventory |-> None]
    BY <1>1 DEF Checkout, NoRun
  <2>2. IsRun(run')
    BY <2>1 DEF IsRun, Rendered
  <2> QED BY <1>1, <2>2 DEF Checkout, Rendered
<1>2. CASE Fetch
  <2>1. run' = [desired |-> run.desired, inventory |-> stored] /\ run.desired # None
    BY <1>2 DEF Fetch, Rendered, IsRun
  <2>2. IsContract(run.desired)
    BY <2>1 DEF Rendered, IsRun
  <2>3. IsRun(run')
    BY <2>1, <2>2 DEF IsRun, Rendered
  <2> QED BY <1>2, <2>3 DEF Fetch, Rendered
<1>3. CASE RenderRelease
  <2>1. /\ run.desired # None /\ IsContract(run.desired)
        /\ IsInventory(run.inventory)
    BY <1>3 DEF RenderRelease, Rendered, IsRun
  <2>2. IsRun(run')
    BY <1>3 DEF RenderRelease, IsRun, NoRun
  <2>3. ASSUME live' # None
        PROVE  /\ IsContract(live'.desired) /\ IsInventory(live'.inventory)
               /\ Findings(live'.desired, live'.inventory) = {}
               /\ live'.tree = Render(live'.desired, live'.inventory)
    BY <1>3, <2>1, <2>3 DEF RenderRelease, Rendered
  <2>4. UNCHANGED <<main, stored, changes>>
    BY <1>3 DEF RenderRelease
  <2> QED BY <2>2, <2>3, <2>4 DEF Rendered
<1> QED BY <1>1, <1>2, <1>3

LEMMA AlwaysRendered == Spec => []Rendered
<1>1. Rendered /\ [Next]_vars => Rendered'
  <2>1. Rendered /\ UNCHANGED vars => Rendered'
    BY DEF Rendered, vars
  <2> QED BY <2>1, MergeRendered, ProvisionRendered, RunRendered DEF Next
<1> QED BY InitRendered, <1>1, PTL DEF Spec

LEMMA PairPasses ==
    ASSUME Rendered, live # None
    PROVE  /\ TargetFindings(live.desired) = {}
           /\ DatasourceFindings(live.desired) = {}
           /\ JobFindings(live.desired, live.inventory) = {}
           /\ DatasourceCardinality(live.desired, live.inventory) = {}
  BY Zenon DEF Rendered, Findings, SemanticFindings, ResolutionFindings

\* A scrape of the release is a job of its contract with what it resolved to.
LEMMA ScrapeOfAJob ==
    ASSUME Rendered, live # None, NEW e \in live.tree.scrapes
    PROVE  \E j \in ToSet(live.desired.jobs) :
             /\ e = [job |-> j.name, target_id |-> j.target_id,
                     from |-> JobEndpoint(j, live.inventory)]
             /\ e.from # None
<1>1. PICK j \in ToSet(live.desired.jobs) :
        e = [job |-> j.name, target_id |-> j.target_id,
             from |-> JobEndpoint(j, live.inventory)]
  BY DEF Rendered, Render
<1> QED BY <1>1, PairPasses, JobsAreMet

\* The type invariant, for any contract, inventory, documents and tables.
THEOREM ContractTypes == Spec => []ContractTypeOK
<1>1. Rendered => ContractTypeOK
  <2> SUFFICES ASSUME Rendered PROVE ContractTypeOK
    OBVIOUS
  <2>1. ASSUME live # None PROVE DOMAIN live.tree.rules = {"ipv4", "ipv6"}
    BY <2>1 DEF Rendered, Render
  <2>2. ASSUME live # None, NEW e \in live.tree.scrapes PROVE e.from # None
    BY <2>2, ScrapeOfAJob
  <2> QED BY <2>1, <2>2 DEF ContractTypeOK, Rendered, IsRun, IsContract, IsInventory
<1> QED BY AlwaysRendered, <1>1, PTL

-----------------------------------------------------------------------------
(* What is scraped is what was declared.                                    *)

\* A lookup answers None or a row of the table that has the key.
LEMMA GetIsARow ==
    ASSUME NEW rows, IsTable(rows), NEW column, NEW key, Get(rows, column, key) # None
    PROVE  \E i \in DOMAIN rows : Get(rows, column, key) = rows[i] /\ rows[i][column] = key
<1> DEFINE I == {i \in 1..Len(rows) : rows[i][column] = key}
           last == IF I # {} THEN Max(I) ELSE 0
<1>1. Len(rows) \in Nat /\ DOMAIN rows = 1..Len(rows)
  BY LenProperties DEF IsTable
<1>2. Get(rows, column, key) = IF last = 0 THEN None ELSE rows[last]
  BY DEF Get, SelectLastInSeq
<1>3. I # {}
  BY <1>2
<1>4. PICK i \in I : \A k \in I : k <= i
  <2> HIDE DEF I
  <2>1. I \subseteq 1..Len(rows)
    BY DEF I
  <2> QED BY <1>1, <1>3, <2>1, GreatestOf
<1>5. \A k \in I : i >= k
  BY <1>1, <1>4
<1>6. Max(I) \in I
  <2> HIDE DEF I
  <2> QED BY <1>5 DEF Max
<1> QED BY <1>1, <1>2, <1>3, <1>6

LEMMA GetIsKeyed ==
    ASSUME NEW rows, IsTable(rows), NEW column, NEW key, Get(rows, column, key) # None
    PROVE  key \in Keys(rows, column) /\ Get(rows, column, key) \in ToSet(rows)
  BY GetIsARow DEF Keys, ToSet

\* The first of two tables put together keeps its places.
LEMMA FirstOfTwo ==
    ASSUME NEW a, IsTable(a), NEW b, IsTable(b), NEW x \in DOMAIN a
    PROVE  x \in DOMAIN (a \o b) /\ (a \o b)[x] = a[x] /\ x \in Nat
<1> DEFINE S == (ToSet(a) \cup ToSet(b)) \ {None}
<1>1. a \in Seq(S) /\ b \in Seq(S)
  <2>1. ToSet(a) \ {None} \subseteq S /\ ToSet(b) \ {None} \subseteq S
    OBVIOUS
  <2> HIDE DEF S
  <2> QED BY <2>1 DEF IsTable
<1> HIDE DEF S
<1>2. /\ Len(a) \in Nat /\ DOMAIN a = 1..Len(a) /\ Len(b) \in Nat
      /\ DOMAIN (a \o b) = 1..Len(a \o b)
  BY <1>1, LenProperties, ConcatProperties
<1>3. Len(a \o b) = Len(a) + Len(b)
  BY <1>1, ConcatProperties
<1>4. x \in Nat /\ 1 <= x /\ x <= Len(a)
  BY <1>2
<1>5. x \in 1..(Len(a) + Len(b))
  BY <1>2, <1>4
<1> QED BY <1>1, <1>2, <1>3, <1>4, <1>5, ConcatProperties

\* No two jobs share a name.
LEMMA JobsByName ==
    ASSUME NEW desired, IsContract(desired), TargetFindings(desired) = {},
           NEW j \in ToSet(desired.jobs), NEW k \in ToSet(desired.jobs), j.name = k.name
    PROVE  j = k
<1> DEFINE names == desired.jobs \o desired.federations
<1>1. ~ Repeated(names, "name")
  BY Zenon DEF TargetFindings, Finding
<1>2. PICK x \in DOMAIN desired.jobs, y \in DOMAIN desired.jobs :
         j = desired.jobs[x] /\ k = desired.jobs[y]
  BY DEF ToSet
<1>3. IsTable(desired.jobs) /\ IsTable(desired.federations)
  BY DocumentsOf DEF IsJobs
<1>4. /\ x \in DOMAIN names /\ names[x] = j /\ x \in Nat
      /\ y \in DOMAIN names /\ names[y] = k /\ y \in Nat
  BY <1>2, <1>3, FirstOfTwo
<1>5. ~ (x < y) /\ ~ (y < x)
  <2> HIDE DEF names
  <2> QED BY <1>1, <1>4 DEF Repeated
<1> QED BY <1>2, <1>4, <1>5

LEMMA JobAsDeclared ==
    ASSUME NEW desired, NEW inventory, IsJobs(desired.jobs), IsTargets(inventory.targets),
           JobFindings(desired, inventory) = {}, NEW j \in ToSet(desired.jobs)
    PROVE  LET from == JobEndpoint(j, inventory)
           IN  /\ IsTable(from.endpoints)
               /\ j.authenticated = (from.credential # None)
               /\ Len(from.endpoints) >= j.expected
<1> DEFINE jobs == ToSet(desired.jobs)
           bound == Keys(inventory.targets, "target_id")
           Binding(k) == Get(inventory.targets, "target_id", k.target_id)
           from == JobEndpoint(j, inventory)
           met == {k \in jobs : JobEndpoint(k, inventory) # None}
           Credential(k) == IF k.target_id \in bound THEN Binding(k).credential ELSE None
<1>1. from # None /\ j \in met
  BY JobsAreMet
<1>2. ~ \E k \in jobs : k.publication # None /\ k.target_id \in bound
  BY Zenon DEF JobFindings, Finding
<1>3. ~ \E k \in met : k.authenticated # (Credential(k) # None)
  BY Zenon DEF JobFindings, Finding
<1>4. ~ \E k \in met : k.expected > Len(JobEndpoint(k, inventory).endpoints)
  BY Zenon DEF JobFindings, Finding
<1>5. IsTable(from.endpoints) /\ from.credential = Credential(j)
  <2>1. CASE j.publication # None
    <3>1. from = [endpoints |-> j.publication, credential |-> None]
      BY <2>1 DEF JobEndpoint
    <3>2. IsTable(j.publication)
      BY <2>1 DEF IsJobs
    <3>3. j.target_id \notin bound
      BY <1>2, <2>1
    <3> QED BY <3>1, <3>2, <3>3
  <2>2. CASE j.publication = None
    <3>1. /\ Binding(j) # None
          /\ from = [endpoints |-> Binding(j).endpoints, credential |-> Binding(j).credential]
      BY <1>1, <2>2 DEF JobEndpoint
    <3>2. j.target_id \in bound /\ Binding(j) \in ToSet(inventory.targets)
      BY <3>1, GetIsKeyed DEF IsTargets
    <3>3. IsTable(Binding(j).endpoints)
      BY <3>2 DEF IsTargets
    <3> QED BY <3>1, <3>2, <3>3
  <2> QED BY <2>1, <2>2
<1>6. j.authenticated = (from.credential # None)
  <2>1. ~ (j.authenticated # (Credential(j) # None))
    BY Zenon, <1>1, <1>3
  <2> QED BY Zenon, <1>5, <2>1
<1>7. Len(from.endpoints) >= j.expected
  <2>1. Len(from.endpoints) \in Nat /\ j.expected \in Nat
    BY <1>5, LenProperties DEF IsTable, IsJobs
  <2>2. ~ (j.expected > Len(from.endpoints))
    BY <1>1, <1>4
  <2> HIDE DEF from
  <2> QED BY <2>1, <2>2
<1> QED BY <1>5, <1>6, <1>7

\* A job that alone has the datasource's target, and its address alone, in the open.
AskedBy(s, j, desired, inventory) ==
    /\ j.target_id = s.target_id
    /\ JobEndpoint(j, inventory).endpoints = <<DatasourceUrl(s, desired, inventory)>>
    /\ JobEndpoint(j, inventory).credential = None
    /\ \A k \in ToSet(desired.jobs) : k.target_id = s.target_id => k = j

\* A remote datasource asks the one endpoint of the one job that scrapes its target.
LEMMA SourceOfItsJob ==
    ASSUME NEW desired, NEW inventory, IsJobs(desired.jobs), IsTargets(inventory.targets),
           JobFindings(desired, inventory) = {}, DatasourceFindings(desired) = {},
           DatasourceCardinality(desired, inventory) = {},
           NEW s \in ToSet(desired.datasources), s.service = None
    PROVE  \E j \in ToSet(desired.jobs) : AskedBy(s, j, desired, inventory)
<1> DEFINE sources == ToSet(desired.datasources)
           local == {t \in sources : t.service # None}
           Several(t) == \E a, b \in Claimants(desired, t) : a # b
           job == Get(desired.jobs, "target_id", s.target_id)
           endpoints == DatasourceEndpoints(s, desired, inventory)
<1>1. ~ \E t \in sources \ local : Several(t)
  BY Zenon DEF DatasourceFindings, Finding
<1>2. ~ \E t \in sources \ local : \E i \in Claimants(desired, t) :
            ~Several(t) /\ desired.jobs[i].authenticated
  BY Zenon DEF DatasourceFindings, Finding
<1>3. ~ \E t \in sources \ local : Claimants(desired, t) = {}
  BY Zenon DEF DatasourceFindings, Finding
<1>4. s \in sources \ local
  OBVIOUS
<1>5. endpoints # <<>>
  BY DatasourcesAreMet
<1>6. job # None /\ endpoints = JobEndpoint(job, inventory).endpoints
  BY <1>5 DEF DatasourceEndpoints
<1>7. PICK i \in DOMAIN desired.jobs : job = desired.jobs[i] /\ job.target_id = s.target_id
  <2>1. PICK i \in DOMAIN desired.jobs :
           job = desired.jobs[i] /\ desired.jobs[i]["target_id"] = s.target_id
    BY <1>6, GetIsARow DEF IsJobs
  <2> QED BY <2>1
<1>8. i \in Claimants(desired, s) /\ job \in ToSet(desired.jobs)
  BY <1>7 DEF Claimants, ToSet
<1>9. ASSUME NEW k \in ToSet(desired.jobs), k.target_id = s.target_id
      PROVE  k = job
  <2>1. PICK n \in DOMAIN desired.jobs : k = desired.jobs[n]
    BY DEF ToSet
  <2>2. n \in Claimants(desired, s)
    BY <1>9, <2>1 DEF Claimants
  <2>3. n = i
    BY <1>1, <1>4, <1>8, <2>2
  <2> QED BY <1>7, <2>1, <2>3
<1>10. JobEndpoint(job, inventory).credential = None
  <2>1. ~ desired.jobs[i].authenticated
    BY <1>1, <1>2, <1>4, <1>8
  <2>2. job.authenticated = (JobEndpoint(job, inventory).credential # None)
    BY <1>8, JobAsDeclared
  <2>3. ~ job.authenticated
    BY <1>7, <2>1
  <2> QED BY Zenon, <2>2, <2>3
<1>11. endpoints = <<Head(endpoints)>>
  <2>1. IsTable(endpoints)
    BY <1>6, <1>8, JobAsDeclared
  <2>2. s.target_id \in Keys(desired.jobs, "target_id")
    BY <1>7, <1>8 DEF Keys
  <2>3. ~ \E t \in ToSet(desired.datasources) :
              /\ t.target_id \in Keys(desired.jobs, "target_id")
              /\ Len(DatasourceEndpoints(t, desired, inventory)) # 1
    BY Zenon DEF DatasourceCardinality, Finding
  <2>4. Len(endpoints) = 1
    BY <2>2, <2>3
  <2> HIDE DEF endpoints
  <2> QED BY <2>1, <2>4 DEF IsTable
<1>12. DatasourceUrl(s, desired, inventory) = Head(endpoints)
  BY DEF DatasourceUrl
<1>13. AskedBy(s, job, desired, inventory)
  <2> HIDE DEF endpoints, job
  <2> QED BY <1>6, <1>7, <1>9, <1>10, <1>11, <1>12 DEF AskedBy
<1> QED BY <1>8, <1>13

LEMMA RenderedIsDeclared == Rendered => ScrapesAsDeclared
<1> SUFFICES ASSUME Rendered, live # None PROVE ScrapesAsDeclared
  BY DEF ScrapesAsDeclared
<1> DEFINE desired == live.desired
           inventory == live.inventory
           Scrape(j) == [job |-> j.name, target_id |-> j.target_id,
                         from |-> JobEndpoint(j, inventory)]
<1>1. /\ IsJobs(desired.jobs) /\ IsContract(desired) /\ IsTargets(inventory.targets)
      /\ live.tree.scrapes = {Scrape(j) : j \in ToSet(desired.jobs)}
  BY DocumentsOf, TablesOf DEF Rendered, Render
<1>2. ASSUME NEW e \in live.tree.scrapes, NEW j \in ToSet(desired.jobs), j.name = e.job
      PROVE  /\ j.authenticated = (e.from.credential # None)
             /\ Len(e.from.endpoints) >= j.expected
  <2>1. PICK k \in ToSet(desired.jobs) : e = Scrape(k)
    BY <1>1
  <2>2. k = j
    <3>1. k.name = j.name
      BY <1>2, <2>1
    <3> QED BY <1>1, <3>1, JobsByName, PairPasses
  <2>3. e.from = JobEndpoint(j, inventory)
    BY <2>1, <2>2
  <2>4. /\ j.authenticated = (JobEndpoint(j, inventory).credential # None)
        /\ Len(JobEndpoint(j, inventory).endpoints) >= j.expected
    BY <1>1, JobAsDeclared, PairPasses
  <2> QED BY Zenon, <2>3, <2>4
<1>3. ASSUME NEW d \in live.tree.datasources, d.service = None
      PROVE  \E e \in live.tree.scrapes :
               /\ e.from.endpoints = <<d.url>>
               /\ e.from.credential = None
               /\ \A f \in live.tree.scrapes : f.target_id = d.target_id <=> f = e
  <2>1. live.tree.datasources =
          {[name |-> s.name, service |-> s.service, target_id |-> s.target_id,
            url |-> DatasourceUrl(s, desired, inventory)] : s \in ToSet(desired.datasources)}
    BY DEF Rendered, Render
  <2>2. PICK s \in ToSet(desired.datasources) :
           d = [name |-> s.name, service |-> s.service, target_id |-> s.target_id,
                url |-> DatasourceUrl(s, desired, inventory)]
    BY <2>1
  <2>3. /\ s.service = None /\ d.target_id = s.target_id
        /\ d.url = DatasourceUrl(s, desired, inventory)
    BY <1>3, <2>2
  <2>4. PICK j \in ToSet(desired.jobs) : AskedBy(s, j, desired, inventory)
    BY <1>1, <2>3, SourceOfItsJob, PairPasses
  <2>5. Scrape(j) \in live.tree.scrapes
    BY <1>1
  <2>6. ASSUME NEW f \in live.tree.scrapes
        PROVE  f.target_id = d.target_id <=> f = Scrape(j)
    <3>1. PICK k \in ToSet(desired.jobs) : f = Scrape(k)
      BY <1>1
    <3> QED BY <2>3, <2>4, <3>1 DEF AskedBy
  <2>7. Scrape(j).from.endpoints = <<d.url>> /\ Scrape(j).from.credential = None
    BY <2>3, <2>4 DEF AskedBy
  <2> QED BY <2>5, <2>6, <2>7
<1> QED BY <1>2, <1>3 DEF ScrapesAsDeclared

\* Of any contract and inventory, however the two halves moved apart between the
\* checkout and the fetch: a release presents a credential exactly where its public
\* job claims one and has the endpoints that the job expects, and its datasources
\* ask what is scraped.
THEOREM ScrapesAreDeclared == Spec => []ScrapesAsDeclared
<1> QED BY AlwaysRendered, RenderedIsDeclared, PTL

-----------------------------------------------------------------------------
(* The first that passes a test.                                            *)

\* A nonempty set of places has a least one.
LEMMA LeastOf ==
    ASSUME NEW n \in Nat, NEW S, S \subseteq 1..n, S # {}
    PROVE  Min(S) \in S /\ \A j \in S : Min(S) <= j
<1> DEFINE less == OpToRel(<, Nat)
<1>1. PICK x \in S : \A y \in S : <<y, x>> \notin less
  <2>1. IsWellFoundedOn(less, Nat)
    BY NatLessThanWellFounded
  <2>2. S \subseteq Nat
    OBVIOUS
  <2> HIDE DEF less
  <2> QED BY <2>1, <2>2, WFMin
<1>2. \A y \in S : ~ (y < x)
  <2>1. S \subseteq Nat
    OBVIOUS
  <2> QED BY <1>1, <2>1 DEF OpToRel
<1>3. \A y \in S : x <= y
  BY <1>2
<1>4. \E m \in S : \A y \in S : m <= y
  BY <1>3
<1> QED BY <1>4 DEF Min

\* The first element that is there decides.
LEMMA FirstOfIs ==
    ASSUME NEW s, NEW n \in Nat, Len(s) = n
    PROVE  \/ FirstOf(s) = None /\ \A i \in 1..n : s[i] = None
           \/ \E i \in 1..n : /\ FirstOf(s) = s[i] /\ s[i] # None
                            /\ \A j \in 1..n : j < i => s[j] = None
<1> DEFINE I == {i \in 1..Len(s) : s[i] # None}
           first == IF I # {} THEN Min(I) ELSE 0
<1>1. FirstOf(s) = IF first = 0 THEN None ELSE s[first]
  BY DEF FirstOf, SelectInSeq
<1>2. CASE I = {}
  BY <1>1, <1>2
<1>3. CASE I # {}
  <2>1. Min(I) \in I /\ \A j \in I : Min(I) <= j
    <3>1. I \subseteq 1..n
      OBVIOUS
    <3> HIDE DEF I
    <3> QED BY <1>3, <3>1, LeastOf
  <2>2. first = Min(I) /\ Min(I) \in 1..n /\ s[Min(I)] # None
    BY <1>3, <2>1
  <2>3. ASSUME NEW j \in 1..n, j < Min(I) PROVE s[j] = None
    <3>1. j \notin I
      <4> HIDE DEF I
      <4> QED BY <2>1, <2>2, <2>3
    <3> QED BY <3>1
  <2>4. FirstOf(s) = s[Min(I)]
    <3> HIDE DEF I
    <3> QED BY <1>1, <2>2
  <2> QED BY <2>2, <2>3, <2>4
<1> QED BY <1>2, <1>3

\* The first rule that bites names itself.
LEMMA FirstBiteIs ==
    ASSUME NEW policy, IsTable(policy.rejected), None \notin Keys(policy.rejected, "name"),
           NEW signal, NEW name, NEW value
    PROVE  LET bite == FirstBite(policy, signal, name, value)
               bitten == \E r \in ToSet(policy.rejected) : Bites(policy, signal, r, name, value)
           IN  /\ bitten => bite \in Keys(policy.rejected, "name") /\ bite # None
               /\ ~bitten => bite = None
<1> DEFINE rules == policy.rejected
           I == {i \in 1..Len(rules) : Bites(policy, signal, rules[i], name, value)}
           first == IF I # {} THEN Min(I) ELSE 0
<1>1. Len(rules) \in Nat /\ DOMAIN rules = 1..Len(rules)
  BY LenProperties DEF IsTable
<1>2. FirstBite(policy, signal, name, value) = IF first = 0 THEN None ELSE rules[first].name
  BY DEF FirstBite, SelectInSeq
<1>3. (\E r \in ToSet(rules) : Bites(policy, signal, r, name, value)) <=> I # {}
  BY <1>1 DEF ToSet
<1>4. CASE I = {}
  BY <1>2, <1>3, <1>4
<1>5. CASE I # {}
  <2>1. Min(I) \in I
    <3>1. I \subseteq 1..Len(rules)
      OBVIOUS
    <3> HIDE DEF I
    <3> QED BY <1>1, <1>5, <3>1, LeastOf
  <2>2. Min(I) \in 1..Len(rules) /\ first = Min(I)
    BY <1>5, <2>1
  <2>3. FirstBite(policy, signal, name, value) = rules[Min(I)].name
    <3> HIDE DEF I
    <3> QED BY <1>1, <1>2, <2>2
  <2>4. rules[Min(I)].name \in Keys(rules, "name")
    <3> HIDE DEF I
    <3> QED BY <1>1, <2>2 DEF Keys, ToSet
  <2> QED BY <1>3, <1>5, <2>3, <2>4
<1> QED BY <1>4, <1>5

\* Two lists of answers, one after the other.
LEMMA Answers ==
    ASSUME NEW m \in Nat, NEW a, DOMAIN a = 1..m, a = [i \in 1..m |-> a[i]],
           NEW b, DOMAIN b = 1..m, b = [i \in 1..m |-> b[i]]
    PROVE  /\ Len(a \o b) = m + m
           /\ \A i \in 1..m : (a \o b)[i] = a[i] /\ (a \o b)[m + i] = b[i]
<1> DEFINE S == {a[i] : i \in 1..m} \cup {b[i] : i \in 1..m}
<1>1. a \in [1..m -> S] /\ b \in [1..m -> S]
  OBVIOUS
<1> HIDE DEF S
<1>2. a \in Seq(S) /\ b \in Seq(S) /\ Len(a) = m /\ Len(b) = m
  BY <1>1, SeqDef
<1>3. Len(a \o b) = m + m
  BY <1>2, ConcatProperties
<1>4. ASSUME NEW i \in 1..m
      PROVE  (a \o b)[i] = a[i] /\ (a \o b)[m + i] = b[i]
  <2>1. /\ i \in 1..(m + m) /\ i <= m
        /\ (m + i) \in 1..(m + m) /\ ~ (m + i <= m) /\ (m + i) - m = i
    OBVIOUS
  <2> QED BY <1>2, <2>1, ConcatProperties
<1> QED BY <1>3, <1>4

\* classify() answers with a declared rule exactly when one bites, and with nothing
\* exactly when none does and every attribute fits.
LEMMA ClassifiedByRule ==
    ASSUME NEW policy, IsTable(policy.rejected), None \notin Keys(policy.rejected, "name"),
           Keys(policy.rejected, "name") \cap BuiltIn = {}, None \notin BuiltIn,
           NEW signal, NEW record, IsTable(record)
    PROVE  LET verdict == Classify(policy, signal, record)
               attributes == ToSet(record)
               forbidden == \E x \in attributes, r \in ToSet(policy.rejected) :
                                Bites(policy, signal, r, x.name, x.value)
           IN  /\ forbidden <=> verdict \in Keys(policy.rejected, "name")
               /\ verdict = None <=>
                     /\ ~forbidden
                     /\ \A x \in attributes : Unfit(policy, signal, x.name, x.value) = None
<1> DEFINE m == Len(record)
           names == Keys(policy.rejected, "name")
           Bite(x) == FirstBite(policy, signal, x.name, x.value)
           Misfit(x) == Unfit(policy, signal, x.name, x.value)
           a == [i \in DOMAIN record |-> Bite(record[i])]
           b == [i \in DOMAIN record |-> Misfit(record[i])]
           s == a \o b
           verdict == Classify(policy, signal, record)
           forbidden == \E x \in ToSet(record), r \in ToSet(policy.rejected) :
                            Bites(policy, signal, r, x.name, x.value)
<1>1. m \in Nat /\ DOMAIN record = 1..m
  BY LenProperties DEF IsTable
<1>2. verdict = FirstOf(s)
  BY DEF Classify
<1>3. Len(s) = m + m /\ \A i \in 1..m : s[i] = a[i] /\ s[m + i] = b[i]
  <2>1. /\ DOMAIN a = 1..m /\ a = [i \in 1..m |-> a[i]]
        /\ DOMAIN b = 1..m /\ b = [i \in 1..m |-> b[i]]
    <3> HIDE DEF m, Bite, Misfit
    <3> QED BY <1>1
  <2> HIDE DEF m, a, b
  <2> QED BY <1>1, <2>1, Answers
<1>4. \A i \in 1..m : a[i] = Bite(record[i]) /\ b[i] = Misfit(record[i])
  <2> HIDE DEF m, Bite, Misfit
  <2> QED BY <1>1
<1>5. /\ ToSet(record) = {record[i] : i \in 1..m}
      /\ \A x \in ToSet(record) : \E i \in 1..m : x = record[i]
      /\ \A i \in 1..m : record[i] \in ToSet(record)
  <2> HIDE DEF m
  <2> QED BY <1>1 DEF ToSet
<1>6. \A x : Bite(x) = None \/ Bite(x) \in names
  BY FirstBiteIs
<1>7. forbidden <=> \E i \in 1..m : a[i] # None
  <2>1. \A x : Bite(x) # None <=> \E r \in ToSet(policy.rejected) :
                                    Bites(policy, signal, r, x.name, x.value)
    BY FirstBiteIs
  <2> HIDE DEF m, a, Bite
  <2>2. forbidden <=> \E x \in ToSet(record) : Bite(x) # None
    BY Zenon, <2>1
  <2> HIDE DEF forbidden
  <2>3. (\E x \in ToSet(record) : Bite(x) # None) <=> \E i \in 1..m : a[i] # None
    BY <1>4, <1>5
  <2> QED BY <2>2, <2>3
<1>8. \A x : Misfit(x) \in BuiltIn \cup {None}
  BY DEF Unfit, BuiltIn
<1>9. ASSUME verdict = None, \A i \in 1..(m + m) : s[i] = None
      PROVE  ~forbidden /\ \A x \in ToSet(record) : Misfit(x) = None
  <2>1. \A i \in 1..m : a[i] = None /\ b[i] = None
    <3>1. \A i \in 1..m : i \in 1..(m + m) /\ m + i \in 1..(m + m)
      <4> HIDE DEF m
      <4> QED BY <1>1
    <3> HIDE DEF m, s, a, b
    <3> QED BY <1>3, <1>9, <3>1
  <2> HIDE DEF m, s, a, b, forbidden, Misfit
  <2> QED BY <1>4, <1>5, <1>7, <2>1
<1>10. ASSUME NEW i \in 1..(m + m), verdict = s[i], s[i] # None,
              \A j \in 1..(m + m) : j < i => s[j] = None
       PROVE  /\ forbidden <=> verdict \in names
              /\ verdict # None
              /\ ~forbidden => \E x \in ToSet(record) : Misfit(x) # None
  <2>1. CASE i <= m
    <3>1. i \in 1..m
      <4> HIDE DEF m
      <4> QED BY <1>1, <2>1
    <3>2. verdict = a[i] /\ a[i] # None /\ a[i] \in names
      <4>1. a[i] = Bite(record[i])
        BY <1>4, <3>1
      <4> HIDE DEF m, s, a, verdict, Bite, names
      <4> QED BY <1>3, <1>6, <1>10, <3>1, <4>1
    <3> HIDE DEF m, s, a, verdict, forbidden, names
    <3> QED BY <1>7, <3>1, <3>2
  <2>2. CASE i > m
    <3>1. PICK k \in 1..m : i = m + k
      <4>1. i - m \in 1..m /\ i = m + (i - m)
        <5> HIDE DEF m
        <5> QED BY <1>1, <2>2
      <4> QED BY <4>1
    <3>2. \A j \in 1..m : a[j] = None
      <4>1. \A j \in 1..m : j \in 1..(m + m) /\ j < i
        <5> HIDE DEF m
        <5> QED BY <1>1, <2>2
      <4> HIDE DEF m, s, a
      <4> QED BY <1>3, <1>10, <4>1
    <3>3. ~forbidden
      <4> HIDE DEF m, a, forbidden
      <4> QED BY <1>7, <3>2
    <3>4. verdict = Misfit(record[k]) /\ record[k] \in ToSet(record)
      <4>1. verdict = b[k]
        <5> HIDE DEF m, s, b, verdict
        <5> QED BY <1>3, <1>10, <3>1
      <4> HIDE DEF m, b, verdict, Misfit
      <4> QED BY <1>4, <1>5, <4>1
    <3>5. verdict \notin names
      <4> HIDE DEF verdict, Misfit
      <4> QED BY <1>8, <3>4
    <3> HIDE DEF verdict, forbidden, Misfit, names, s
    <3> QED BY <1>10, <3>3, <3>4, <3>5
  <2> HIDE DEF m
  <2> QED BY <1>1, <2>1, <2>2
<1>11. \/ verdict = None /\ \A i \in 1..(m + m) : s[i] = None
       \/ \E i \in 1..(m + m) : /\ verdict = s[i] /\ s[i] # None
                                /\ \A j \in 1..(m + m) : j < i => s[j] = None
  <2>1. m + m \in Nat
    <3> HIDE DEF m
    <3> QED BY <1>1
  <2> HIDE DEF m, s, verdict
  <2> QED BY <1>2, <1>3, <2>1, FirstOfIs
<1>12. /\ forbidden <=> verdict \in names
       /\ verdict = None <=> /\ ~forbidden
                             /\ \A x \in ToSet(record) : Misfit(x) = None
  <2>1. CASE verdict = None /\ \A i \in 1..(m + m) : s[i] = None
    <3> HIDE DEF verdict, forbidden, Misfit, s, m
    <3> QED BY <1>9, <2>1
  <2>2. CASE \E i \in 1..(m + m) : /\ verdict = s[i] /\ s[i] # None
                                  /\ \A j \in 1..(m + m) : j < i => s[j] = None
    <3> HIDE DEF verdict, forbidden, Misfit, names, s, m
    <3> QED BY <1>10, <2>2
  <2> HIDE DEF verdict, forbidden, Misfit, names, s, m
  <2> QED BY <1>11, <2>1, <2>2
<1> QED BY Zenon, <1>12

\* "Rejection is by RULE": of whatever policy a pull request merges, and whatever
\* record arrives, classify() answers with a declared rule exactly when one bites.
THEOREM RefusalsNameTheirRule == Spec => RefusedByItsRule
<1> DEFINE Answered ==
        \A record \in Records, signal \in {"logs", "traces"} :
            LET policy == main'.policy
                verdict == Classify(policy, signal, record)
                attributes == ToSet(record)
                forbidden == \E a \in attributes, r \in ToSet(policy.rejected) :
                                 Bites(policy, signal, r, a.name, a.value)
            IN  /\ forbidden <=> verdict \in Keys(policy.rejected, "name")
                /\ verdict = None <=>
                      /\ ~forbidden
                      /\ \A a \in attributes : Unfit(policy, signal, a.name, a.value) = None
<1>1. Rendered' /\ Keys(main'.policy.rejected, "name") \cap BuiltIn = {} => Answered
  <2> SUFFICES ASSUME Rendered', Keys(main'.policy.rejected, "name") \cap BuiltIn = {},
                      NEW record \in Records, NEW signal \in {"logs", "traces"}
               PROVE  LET policy == main'.policy
                          verdict == Classify(policy, signal, record)
                          attributes == ToSet(record)
                          forbidden == \E a \in attributes, r \in ToSet(policy.rejected) :
                                           Bites(policy, signal, r, a.name, a.value)
                      IN  /\ forbidden <=> verdict \in Keys(policy.rejected, "name")
                          /\ verdict = None <=>
                                /\ ~forbidden
                                /\ \A a \in attributes :
                                       Unfit(policy, signal, a.name, a.value) = None
    OBVIOUS
  <2>1. /\ IsTable(main'.policy.rejected)
        /\ None \notin Keys(main'.policy.rejected, "name")
    BY DocumentsOf DEF Rendered
  <2>2. IsTable(record) /\ None \notin BuiltIn
    BY ContractAssumption
  <2> QED BY <2>1, <2>2, ClassifiedByRule
<1>2. Rendered' => [main'.policy # main.policy
                      /\ Keys(main'.policy.rejected, "name") \cap BuiltIn = {} => Answered]_vars
  <2> HIDE DEF Answered
  <2> QED BY <1>1
<1>3. [][main'.policy # main.policy
           /\ Keys(main'.policy.rejected, "name") \cap BuiltIn = {} => Answered]_vars
        => RefusedByItsRule
  BY DEF RefusedByItsRule
<1> HIDE DEF Answered
<1> QED BY AlwaysRendered, <1>2, <1>3, PTL

-----------------------------------------------------------------------------
(* An alert that a route claims is sent.                                     *)

\* A key that some row has is answered with such a row.
LEMMA RowOfKey ==
    ASSUME NEW rows, IsTable(rows), NEW column, NEW key, key \in Keys(rows, column)
    PROVE  /\ Get(rows, column, key) # None
           /\ Get(rows, column, key) \in ToSet(rows)
           /\ Get(rows, column, key)[column] = key
<1> DEFINE I == {i \in 1..Len(rows) : rows[i][column] = key}
           last == IF I # {} THEN Max(I) ELSE 0
<1>1. Len(rows) \in Nat /\ DOMAIN rows = 1..Len(rows)
  BY LenProperties DEF IsTable
<1>2. Get(rows, column, key) = IF last = 0 THEN None ELSE rows[last]
  BY DEF Get, SelectLastInSeq
<1>3. I # {}
  BY <1>1 DEF Keys, ToSet
<1>4. PICK i \in I : \A k \in I : k <= i
  <2>1. I \subseteq 1..Len(rows)
    OBVIOUS
  <2> HIDE DEF I
  <2> QED BY <1>1, <1>3, <2>1, GreatestOf
<1>5. \A k \in I : i >= k
  BY <1>1, <1>4
<1>6. Max(I) \in I
  <2> HIDE DEF I
  <2> QED BY <1>5 DEF Max
<1>7. rows[Max(I)] \in ToSet(rows) \ {None}
  <2>1. Max(I) \in DOMAIN rows
    BY <1>1, <1>6
  <2>2. rows \in Seq(ToSet(rows) \ {None})
    BY DEF IsTable
  <2> HIDE DEF I
  <2> QED BY <1>1, <2>1, <2>2, ElementOfSeq
<1>8. rows[Max(I)][column] = key /\ Max(I) # 0
  BY <1>1, <1>6
<1> HIDE DEF I
<1> QED BY <1>2, <1>3, <1>7, <1>8

LEMMA ClaimedIsSent ==
    ASSUME NEW desired, IsContract(desired), NEW inventory,
           RoutingFindings(desired) = {}, ReceiverFindings(desired, inventory) = {},
           NEW route \in ToSet(desired.routes), NEW severity \in Severities,
           Claims(route, severity)
    PROVE  Delivered(Alertmanager(desired, inventory.receivers), route.receiver)
<1> DEFINE receivers == desired.receivers
           all == Integrations(receivers)
           names == Keys(receivers, "name")
           used == {desired.default} \cup Keys(desired.routes, "receiver")
           receiver == Get(receivers, "name", route.receiver)
           Delivery(k) == Get(inventory.receivers, "credential_ref", k.credential_ref)
           met == {k \in all : Delivery(k) # None}
           config == Alertmanager(desired, inventory.receivers)
<1>1. used \subseteq names
  BY Zenon DEF RoutingFindings, Finding
<1>2. route.receiver \in names
  BY <1>1 DEF Keys
<1>3. receiver # None /\ receiver \in ToSet(receivers) /\ IsTable(receiver.integrations)
  BY <1>2, DocumentsOf, RowOfKey
<1>4. NullRoutes(desired) = {}
  BY Zenon DEF RoutingFindings, Finding
<1>5. receiver.integrations # <<>>
  BY <1>3, <1>4 DEF NullRoutes
<1>6. PICK i \in ToSet(receiver.integrations) : i \in all
  <2>1. receiver.integrations[1] \in ToSet(receiver.integrations)
    <3> HIDE DEF receiver
    <3> QED BY <1>3, <1>5, EmptySeq DEF IsTable, ToSet
  <2> HIDE DEF receiver
  <2> QED BY <1>3, <2>1 DEF Integrations
<1>7. ~ \E k \in met : k.kind = "telegram" /\ Delivery(k).destination # "number"
  BY Zenon DEF ReceiverFindings, Finding
<1>8. ~ \E k \in met : k.kind \notin {"telegram", "webhook"} /\ Delivery(k).destination = None
  BY Zenon DEF ReceiverFindings, Finding
<1>9. ~ (~desired.smtp /\ \E k \in all : k.kind = "email")
  BY Zenon DEF RoutingFindings, Finding
<1>10. i \in met
  BY <1>6, IntegrationsAreMet
<1> DEFINE entry == [kind |-> i.kind, credential |-> Delivery(i).credential,
                     destination |-> IF i.kind = "webhook" THEN None ELSE Delivery(i).destination]
<1>11. entry \in config.receivers[route.receiver]
  <2>1. config.receivers[route.receiver] = ReceiverConfig(receiver, inventory.receivers)
    BY <1>2 DEF Alertmanager
  <2>2. entry \in ReceiverConfig(receiver, inventory.receivers)
    <3> HIDE DEF receiver
    <3> QED BY <1>6 DEF ReceiverConfig
  <2> QED BY <2>1, <2>2
<1>12. Sends(config, entry)
  <2>1. /\ i.kind = "telegram" => Delivery(i).destination = "number"
        /\ i.kind \notin {"telegram", "webhook"} => Delivery(i).destination # None
        /\ i.kind = "email" => desired.smtp
    BY Zenon, <1>6, <1>7, <1>8, <1>9, <1>10
  <2>2. config.smtp = desired.smtp
    BY DEF Alertmanager
  <2>3. /\ entry.kind = i.kind
        /\ entry.destination = IF i.kind = "webhook" THEN None ELSE Delivery(i).destination
    OBVIOUS
  <2> HIDE DEF entry, config, Delivery
  <2>4. CASE i.kind = "telegram"
    BY <2>1, <2>3, <2>4 DEF Sends
  <2>5. CASE i.kind = "email"
    <3>1. desired.smtp /\ entry.destination # None
      BY <2>1, <2>3, <2>5
    <3>2. config.smtp
      BY Zenon, <2>2, <3>1
    <3>3. entry.kind # "telegram" /\ entry.kind = "email"
      BY <2>3, <2>5
    <3> QED BY <3>1, <3>2, <3>3 DEF Sends
  <2>6. CASE i.kind = "slack"
    BY <2>1, <2>3, <2>6 DEF Sends
  <2>7. CASE i.kind \notin {"telegram", "email", "slack"}
    BY <2>3, <2>7 DEF Sends
  <2> QED BY <2>4, <2>5, <2>6, <2>7
<1>13. \E e \in config.receivers[route.receiver] : Sends(config, e)
  <2> HIDE DEF entry, config
  <2> QED BY <1>11, <1>12
<1> QED BY <1>13 DEF Delivered

\* Of any pair that passed the gates: an alert of a severity that the route which
\* takes it names is sent, by an integration that works with what its binding holds.
THEOREM ClaimedSeveritiesAreSent == Spec => []ClaimedSeverityIsSent
<1>1. Rendered => ClaimedSeverityIsSent
  <2> DEFINE config == live.tree.alertmanager
  <2> SUFFICES ASSUME Rendered, live # None, NEW alert \in Alerts,
                      NEW i \in Taken(config, alert), alert["severity"] \in Severities,
                      Claims(config.routes[i], alert["severity"])
               PROVE  Delivered(config, config.routes[i].receiver)
    BY DEF ClaimedSeverityIsSent
  <2>1. config = Alertmanager(live.desired, live.inventory.receivers) /\ IsContract(live.desired)
    BY DEF Rendered, Render
  <2>2. config.routes = live.desired.routes
    BY <2>1 DEF Alertmanager
  <2>3. config.routes[i] \in ToSet(live.desired.routes)
    BY <2>2 DEF Taken, ToSet
  <2>4. RoutingFindings(live.desired) = {} /\ ReceiverFindings(live.desired, live.inventory) = {}
    BY Zenon DEF Rendered, Findings, SemanticFindings, ResolutionFindings
  <2> HIDE DEF config
  <2> QED BY <2>1, <2>3, <2>4, ClaimedIsSent
<1> QED BY AlwaysRendered, <1>1, PTL

-----------------------------------------------------------------------------
(* Every binding is read.                                                    *)

\* Where no two rows share a key, the row of a key is the row that has it.
LEMMA RowItself ==
    ASSUME NEW rows, IsTable(rows), NEW column, ~Repeated(rows, column), NEW row \in ToSet(rows)
    PROVE  Get(rows, column, row[column]) = row /\ row # None
<1> DEFINE found == Get(rows, column, row[column])
<1>1. row[column] \in Keys(rows, column)
  BY DEF Keys
<1>2. found # None /\ found \in ToSet(rows) /\ found[column] = row[column]
  BY <1>1, RowOfKey
<1>3. PICK x \in DOMAIN rows, y \in DOMAIN rows : row = rows[x] /\ found = rows[y]
  BY <1>2 DEF ToSet
<1>4. x \in Nat /\ y \in Nat
  BY <1>3, LenProperties DEF IsTable
<1>5. ~ (x < y) /\ ~ (y < x)
  BY <1>2, <1>3 DEF Repeated
<1>6. x = y
  BY <1>4, <1>5
<1> QED BY <1>2, <1>3, <1>6

LEMMA TargetsAreRead ==
    ASSUME NEW desired, NEW inventory, IsInventory(inventory),
           JobFindings(desired, inventory) = {}, ~Repeated(inventory.targets, "target_id"),
           NEW b \in ToSet(inventory.targets)
    PROVE  \E j \in ToSet(desired.jobs) : JobEndpoint(j, inventory).endpoints = b.endpoints
<1> DEFINE bound == Keys(inventory.targets, "target_id")
<1>1. bound \subseteq Keys(desired.jobs, "target_id")
  BY Zenon DEF JobFindings, Finding
<1>2. b.target_id \in bound
  BY DEF Keys
<1>3. PICK j \in ToSet(desired.jobs) : j.target_id = b.target_id
  BY <1>1, <1>2 DEF Keys
<1>4. ~ \E k \in ToSet(desired.jobs) : k.publication # None /\ k.target_id \in bound
  BY Zenon DEF JobFindings, Finding
<1>5. j.publication = None
  BY <1>2, <1>3, <1>4
<1>6. Get(inventory.targets, "target_id", b["target_id"]) = b /\ b # None
  BY TablesOf, RowItself DEF IsTargets
<1>7. JobEndpoint(j, inventory) = [endpoints |-> b.endpoints, credential |-> b.credential]
  BY <1>3, <1>5, <1>6 DEF JobEndpoint
<1> QED BY <1>7

LEMMA FederationsAreRead ==
    ASSUME NEW desired, NEW inventory, IsInventory(inventory),
           FederationFindings(desired, inventory) = {},
           ~Repeated(inventory.federations, "target_id"),
           NEW b \in ToSet(inventory.federations)
    PROVE  \E f \in ToSet(desired.federations) :
              Get(inventory.federations, "target_id", f.target_id) = b
<1> DEFINE Upstream(f) == Get(inventory.federations, "target_id", f.target_id)
           met == {f \in ToSet(desired.federations) : Upstream(f) # None}
<1>1. Keys(inventory.federations, "target_id") = {f.target_id : f \in met}
  BY Zenon DEF FederationFindings, Finding
<1>2. b.target_id \in Keys(inventory.federations, "target_id")
  BY DEF Keys
<1>3. PICK f \in met : f.target_id = b.target_id
  BY <1>1, <1>2
<1>4. Get(inventory.federations, "target_id", b["target_id"]) = b
  BY TablesOf, RowItself
<1> QED BY <1>3, <1>4

\* Where no two rows share a key, rows that agree on it are one row.
LEMMA OneRow ==
    ASSUME NEW rows, IsTable(rows), NEW column, ~Repeated(rows, column),
           NEW a \in ToSet(rows), NEW b \in ToSet(rows), a[column] = b[column]
    PROVE  a = b
<1>1. PICK x \in DOMAIN rows, y \in DOMAIN rows : a = rows[x] /\ b = rows[y]
  BY DEF ToSet
<1>2. x \in Nat /\ y \in Nat
  BY <1>1, LenProperties DEF IsTable
<1>3. ~ (x < y) /\ ~ (y < x)
  BY <1>1 DEF Repeated
<1> QED BY <1>1, <1>2, <1>3

\* What the configuration holds of a binding's credential, by receiver.
Uses(receivers, binding) ==
    UNION {{<<name, entry>> : entry \in {e \in receivers[name] : e.credential = binding.credential}}
               : name \in DOMAIN receivers}

\* No reference is cited at two places.
LEMMA CitedOnce ==
    ASSUME NEW receivers, ~SharedRefs(receivers),
           NEW r \in ToSet(receivers), NEW i \in ToSet(r.integrations),
           NEW q \in ToSet(receivers), NEW k \in ToSet(q.integrations),
           i.credential_ref = k.credential_ref
    PROVE  r = q /\ i = k
<1>1. PICK a \in DOMAIN receivers, b \in DOMAIN receivers : r = receivers[a] /\ q = receivers[b]
  BY DEF ToSet
<1>2. PICK m \in DOMAIN r.integrations, n \in DOMAIN q.integrations :
         i = r.integrations[m] /\ k = q.integrations[n]
  BY DEF ToSet
<1>3. i \in Integrations(receivers)
  BY DEF Integrations
<1>4. <<a, m>> \in Citing(receivers, i.credential_ref) /\ <<b, n>> \in Citing(receivers, i.credential_ref)
  BY <1>1, <1>2 DEF Citing
<1>5. <<a, m>> = <<b, n>>
  BY Zenon, <1>3, <1>4 DEF SharedRefs
<1>6. a = b /\ m = n
  BY <1>5
<1> QED BY <1>1, <1>2, <1>6

LEMMA CredentialsAreUsedOnce ==
    ASSUME NEW desired, IsContract(desired), NEW inventory, IsInventory(inventory),
           RoutingFindings(desired) = {}, ReceiverFindings(desired, inventory) = {},
           ~Repeated(desired.receivers, "name"),
           ~Repeated(inventory.receivers, "credential_ref"),
           ~Repeated(inventory.receivers, "credential"),
           NEW b \in ToSet(inventory.receivers)
    PROVE  Cardinality(Uses(Alertmanager(desired, inventory.receivers).receivers, b)) = 1
<1> DEFINE all == Integrations(desired.receivers)
           Delivery(k) == Get(inventory.receivers, "credential_ref", k.credential_ref)
           met == {k \in all : Delivery(k) # None}
           Entry(k) == [kind |-> k.kind, credential |-> Delivery(k).credential,
                        destination |-> IF k.kind = "webhook" THEN None ELSE Delivery(k).destination]
           Named(name) == Get(desired.receivers, "name", name)
           names == Keys(desired.receivers, "name")
           receivers == Alertmanager(desired, inventory.receivers).receivers
<1>1. Keys(inventory.receivers, "credential_ref") = {k.credential_ref : k \in met}
  BY Zenon DEF ReceiverFindings, Finding
<1>2. b.credential_ref \in Keys(inventory.receivers, "credential_ref")
  BY DEF Keys
<1>3. PICK i \in met : i.credential_ref = b.credential_ref
  BY <1>1, <1>2
<1>4. IsTable(inventory.receivers) /\ IsTable(desired.receivers)
  BY DocumentsOf, TablesOf
<1>5. Delivery(i) = b
  <2>1. Get(inventory.receivers, "credential_ref", b["credential_ref"]) = b
    BY <1>4, RowItself
  <2> QED BY <1>3, <2>1
<1>6. PICK r \in ToSet(desired.receivers) : i \in ToSet(r.integrations)
  BY <1>3 DEF Integrations
<1>7. r.name \in names /\ Named(r.name) = r
  <2>1. Get(desired.receivers, "name", r["name"]) = r
    BY <1>4, RowItself
  <2> QED BY <2>1 DEF Keys
<1>8. /\ DOMAIN receivers = names
      /\ \A name \in names : receivers[name] = {Entry(k) : k \in ToSet(Named(name).integrations)}
  BY DEF Alertmanager, ReceiverConfig
<1>9. <<r.name, Entry(i)>> \in Uses(receivers, b)
  <2>1. Entry(i) \in receivers[r.name] /\ r.name \in DOMAIN receivers
    BY <1>6, <1>7, <1>8
  <2>2. Entry(i).credential = b.credential
    BY <1>5
  <2> HIDE DEF receivers, Entry
  <2> QED BY <2>1, <2>2 DEF Uses
<1>10. ASSUME NEW y \in Uses(receivers, b)
       PROVE  y = <<r.name, Entry(i)>>
  <2>1. PICK name \in DOMAIN receivers : \E e \in receivers[name] :
           e.credential = b.credential /\ y = <<name, e>>
    <3> HIDE DEF receivers
    <3> QED BY <1>10 DEF Uses
  <2>2. PICK e \in receivers[name] : e.credential = b.credential /\ y = <<name, e>>
    BY <2>1
  <2>3. name \in names
    BY <1>8, <2>1
  <2>4. PICK k \in ToSet(Named(name).integrations) : e = Entry(k)
    <3> HIDE DEF receivers, Entry, Named, names
    <3> QED BY <1>8, <2>2, <2>3
  <2>5. /\ Named(name) # None /\ Named(name) \in ToSet(desired.receivers)
        /\ Named(name)["name"] = name
    BY <1>4, <2>3, RowOfKey
  <2>6. k \in all
    <3> HIDE DEF Named
    <3> QED BY <2>4, <2>5 DEF Integrations
  <2>7. Delivery(k) # None
    BY <2>6, IntegrationsAreMet
  <2>8. /\ Delivery(k) \in ToSet(inventory.receivers)
        /\ Delivery(k)["credential_ref"] = k.credential_ref
    <3>1. k.credential_ref \in Keys(inventory.receivers, "credential_ref")
      BY <1>4, <2>7, GetIsKeyed
    <3> QED BY <1>4, <3>1, RowOfKey
  <2>9. Delivery(k)["credential"] = b["credential"]
    BY <2>2, <2>4
  <2>10. Delivery(k) = b
    <3> HIDE DEF Delivery
    <3> QED BY <1>4, <2>8, <2>9, OneRow
  <2>11. i.credential_ref = k.credential_ref
    BY <1>3, <2>8, <2>10
  <2>12. ~SharedRefs(desired.receivers)
    BY Zenon DEF RoutingFindings, Finding
  <2>13. Named(name) = r /\ k = i
    <3> HIDE DEF Named
    <3> QED BY <1>6, <2>4, <2>5, <2>11, <2>12, CitedOnce
  <2>14. name = r.name
    BY <2>5, <2>13
  <2> HIDE DEF Entry
  <2> QED BY <2>2, <2>4, <2>13, <2>14
<1>11. Uses(receivers, b) = {<<r.name, Entry(i)>>}
  <2> HIDE DEF receivers, Entry
  <2> QED BY <1>9, <1>10
<1>12. Cardinality({<<r.name, Entry(i)>>}) = 1
  BY FS_Singleton
<1> QED BY <1>11, <1>12

-----------------------------------------------------------------------------
(* A surface's lines.                                                        *)

IsList(s) == s \in Seq(ToSet(s))

\* The elements of two lists put together, and where they are.
LEMMA Joined ==
    ASSUME NEW a, IsList(a), NEW b, IsList(b)
    PROVE  /\ IsList(a \o b)
           /\ Len(a) \in Nat /\ Len(b) \in Nat /\ Len(a \o b) = Len(a) + Len(b)
           /\ \A i \in 1..Len(a) : (a \o b)[i] = a[i]
           /\ \A i \in 1..Len(b) : (a \o b)[Len(a) + i] = b[i]
           /\ ToSet(a \o b) = ToSet(a) \cup ToSet(b)
<1> DEFINE S == ToSet(a) \cup ToSet(b)
           c == a \o b
<1>1. a \in Seq(S) /\ b \in Seq(S)
  <2>1. ToSet(a) \subseteq S /\ ToSet(b) \subseteq S
    OBVIOUS
  <2> HIDE DEF S
  <2> QED BY <2>1 DEF IsList
<1> HIDE DEF S
<1>2. /\ Len(a) \in Nat /\ DOMAIN a = 1..Len(a) /\ Len(b) \in Nat /\ DOMAIN b = 1..Len(b)
      /\ Len(c) = Len(a) + Len(b) /\ c \in Seq(S) /\ DOMAIN c = 1..Len(c)
  BY <1>1, LenProperties, ConcatProperties
<1>3. ASSUME NEW i \in 1..Len(a) PROVE c[i] = a[i] /\ i \in DOMAIN c
  <2>1. i \in 1..(Len(a) + Len(b)) /\ i <= Len(a)
    BY <1>2
  <2> QED BY <1>1, <1>2, <2>1, ConcatProperties
<1>4. ASSUME NEW i \in 1..Len(b) PROVE c[Len(a) + i] = b[i] /\ Len(a) + i \in DOMAIN c
  <2>1. /\ Len(a) + i \in 1..(Len(a) + Len(b)) /\ ~ (Len(a) + i <= Len(a))
        /\ (Len(a) + i) - Len(a) = i
    BY <1>2
  <2> QED BY <1>1, <1>2, <2>1, ConcatProperties
<1>5. ToSet(c) = ToSet(a) \cup ToSet(b)
  <2>1. ASSUME NEW i \in DOMAIN c PROVE c[i] \in ToSet(a) \cup ToSet(b)
    <3>1. i \in 1..Len(a) \/ \E k \in 1..Len(b) : i = Len(a) + k
      <4>1. i \in 1..Len(a) \/ (i - Len(a) \in 1..Len(b) /\ i = Len(a) + (i - Len(a)))
        BY <1>2
      <4> QED BY <4>1
    <3> HIDE DEF c
    <3> QED BY <1>2, <1>3, <1>4, <3>1 DEF ToSet
  <2>2. ASSUME NEW x \in ToSet(a) \cup ToSet(b) PROVE x \in ToSet(c)
    <3>1. (\E i \in 1..Len(a) : x = a[i]) \/ (\E i \in 1..Len(b) : x = b[i])
      BY <1>2 DEF ToSet
    <3> HIDE DEF c
    <3> QED BY <1>3, <1>4, <3>1 DEF ToSet
  <2> HIDE DEF c
  <2> QED BY <2>1, <2>2 DEF ToSet
<1>6. IsList(c)
  <2>1. \A i \in 1..Len(c) : c[i] \in ToSet(c)
    <3> HIDE DEF c
    <3> QED BY <1>2 DEF ToSet
  <2>2. c = [i \in 1..Len(c) |-> c[i]]
    <3> HIDE DEF c
    <3> QED BY <1>2, LenProperties
  <2>3. c \in [1..Len(c) -> ToSet(c)]
    <3> HIDE DEF c
    <3> QED BY <2>1, <2>2
  <2>4. Len(c) \in Nat
    <3> HIDE DEF c
    <3> QED BY <1>2
  <2> HIDE DEF c
  <2> QED BY <2>3, <2>4, SeqDef DEF IsList
<1> QED BY <1>2, <1>3, <1>4, <1>5, <1>6

\* A function on the places of a list is one.
LEMMA Listed ==
    ASSUME NEW n \in Nat, NEW s, DOMAIN s = 1..n, s = [i \in 1..n |-> s[i]]
    PROVE  IsList(s) /\ Len(s) = n
<1>1. s \in [1..n -> ToSet(s)]
  BY DEF ToSet
<1> QED BY <1>1, SeqDef DEF IsList

LEMMA Single ==
    ASSUME NEW e
    PROVE  IsList(<<e>>) /\ Len(<<e>>) = 1 /\ ToSet(<<e>>) = {e} /\ <<e>>[1] = e
<1>1. <<e>> = [i \in 1..1 |-> e] /\ DOMAIN <<e>> = 1..1 /\ <<e>>[1] = e
  OBVIOUS
<1>2. IsList(<<e>>) /\ Len(<<e>>) = 1
  <2>1. 1 \in Nat
    OBVIOUS
  <2> QED BY <1>1, <2>1, Listed
<1>3. ToSet(<<e>>) = {e}
  BY <1>1 DEF ToSet
<1> QED BY <1>1, <1>2, <1>3

\* A line of a surface.
LineOf(surface, family, from, source, replies, verdict) ==
    [chain |-> ChainFor(surface.kind, family), port |-> surface.name, interface |-> from,
     source |-> source, replies |-> replies, verdict |-> verdict]

Closed(surface, family) == LineOf(surface, family, None, None, FALSE, "DROP")
Related(surface, family) == LineOf(surface, family, None, None, TRUE, "ACCEPT")
Everybody(surface, family) == LineOf(surface, family, None, None, FALSE, "ACCEPT")

\* What an ingress surface's block has before its closing line.
Tunnel(surface, family, binding) ==
    IF binding.interface = None THEN <<>>
    ELSE <<LineOf(surface, family, binding.interface, None, FALSE, "ACCEPT")>>
Addresses(surface, family, binding) ==
    [i \in DOMAIN binding.prefixes |->
        LineOf(surface, family, None, binding.prefixes[i], FALSE, "ACCEPT")]
OpenLines(surface, family, binding) ==
    <<Related(surface, family)>> \o Tunnel(surface, family, binding)
        \o Addresses(surface, family, binding)

LEMMA BlockOf ==
    ASSUME NEW surface, NEW family, NEW bindings
    PROVE  /\ surface.exposure \in {"none", "loopback"} =>
                 SurfaceRules(surface, family, bindings) = <<Closed(surface, family)>>
           /\ surface.exposure = "public" =>
                 SurfaceRules(surface, family, bindings) =
                     <<Related(surface, family)>> \o <<Everybody(surface, family)>>
           /\ surface.exposure = "ingress" =>
                 SurfaceRules(surface, family, bindings) =
                     OpenLines(surface, family, Get(bindings, "name", surface.allow_from))
                         \o <<Closed(surface, family)>>
  BY DEF SurfaceRules, Closed, Related, Everybody, Tunnel, Addresses, OpenLines, LineOf

\* The open lines of a bound surface.
LEMMA OpenLinesOf ==
    ASSUME NEW surface, NEW family, NEW binding, IsTable(binding.prefixes)
    PROVE  LET open == OpenLines(surface, family, binding)
           IN  /\ IsList(open)
               /\ \A line \in ToSet(open) :
                     \/ line = Related(surface, family)
                     \/ /\ binding.interface # None
                        /\ line = LineOf(surface, family, binding.interface, None, FALSE, "ACCEPT")
                     \/ \E p \in ToSet(binding.prefixes) :
                            line = LineOf(surface, family, None, p, FALSE, "ACCEPT")
               /\ Related(surface, family) \in ToSet(open)
               /\ binding.interface # None =>
                     LineOf(surface, family, binding.interface, None, FALSE, "ACCEPT") \in ToSet(open)
               /\ \A p \in ToSet(binding.prefixes) :
                     LineOf(surface, family, None, p, FALSE, "ACCEPT") \in ToSet(open)
<1> DEFINE related == <<Related(surface, family)>>
           tunnel == Tunnel(surface, family, binding)
           addresses == Addresses(surface, family, binding)
           through == LineOf(surface, family, binding.interface, None, FALSE, "ACCEPT")
           From(p) == LineOf(surface, family, None, p, FALSE, "ACCEPT")
<1>1. IsList(related) /\ ToSet(related) = {Related(surface, family)}
  BY Single
<1>2. /\ IsList(tunnel)
      /\ ToSet(tunnel) = IF binding.interface = None THEN {} ELSE {through}
  <2>1. CASE binding.interface = None
    <3>1. tunnel = <<>>
      BY <2>1 DEF Tunnel
    <3>2. <<>> \in Seq({}) /\ ToSet(<<>>) = {}
      BY EmptySeq DEF ToSet
    <3> QED BY <2>1, <3>1, <3>2 DEF IsList
  <2>2. CASE binding.interface # None
    <3>1. tunnel = <<through>>
      BY <2>2 DEF Tunnel
    <3> HIDE DEF through, tunnel
    <3> QED BY <2>2, <3>1, Single
  <2> QED BY <2>1, <2>2
<1>3. IsList(addresses) /\ ToSet(addresses) = {From(p) : p \in ToSet(binding.prefixes)}
  <2>1. DOMAIN binding.prefixes = 1..Len(binding.prefixes) /\ Len(binding.prefixes) \in Nat
    BY LenProperties DEF IsTable
  <2>2. addresses = [i \in 1..Len(binding.prefixes) |-> From(binding.prefixes[i])]
    BY <2>1 DEF Addresses
  <2>3. IsList(addresses)
    <3>1. /\ DOMAIN addresses = 1..Len(binding.prefixes)
          /\ addresses = [i \in 1..Len(binding.prefixes) |-> addresses[i]]
      <4> HIDE DEF From, addresses
      <4> QED BY <2>2
    <3> HIDE DEF addresses
    <3> QED BY <2>1, <3>1, Listed
  <2>4. ToSet(addresses) = {From(p) : p \in ToSet(binding.prefixes)}
    <3> HIDE DEF From, addresses
    <3> QED BY <2>1, <2>2 DEF ToSet
  <2> QED BY <2>3, <2>4
<1>4. /\ IsList(related \o tunnel)
      /\ ToSet(related \o tunnel) = ToSet(related) \cup ToSet(tunnel)
  <2> HIDE DEF related, tunnel
  <2> QED BY <1>1, <1>2, Joined
<1>5. /\ IsList(related \o tunnel \o addresses)
      /\ ToSet(related \o tunnel \o addresses) =
            ToSet(related) \cup ToSet(tunnel) \cup ToSet(addresses)
  <2>1. \A front : IsList(front) =>
          /\ IsList(front \o addresses)
          /\ ToSet(front \o addresses) = ToSet(front) \cup ToSet(addresses)
    <3> HIDE DEF addresses
    <3> QED BY <1>3, Joined
  <2> HIDE DEF related, tunnel, addresses
  <2> QED BY <1>4, <2>1
<1>6. OpenLines(surface, family, binding) = related \o tunnel \o addresses
  BY DEF OpenLines
<1> HIDE DEF related, tunnel, addresses, through, From
<1>7. ToSet(OpenLines(surface, family, binding)) =
        {Related(surface, family)} \cup (IF binding.interface = None THEN {} ELSE {through})
           \cup {From(p) : p \in ToSet(binding.prefixes)}
  BY <1>1, <1>2, <1>3, <1>5, <1>6
<1>8. IsList(OpenLines(surface, family, binding))
  BY <1>5, <1>6
<1> USE DEF through, From
<1> QED BY <1>7, <1>8

\* An ingress surface's set is declared and bound, and the binding is of its kind.
LEMMA SetOfASurface ==
    ASSUME NEW desired, IsContract(desired), NEW inventory, IsInventory(inventory),
           ExposureFindings(desired) = {}, SourceSetFindings(desired, inventory) = {},
           NEW s \in ToSet(desired.surfaces), s.exposure = "ingress"
    PROVE  LET set == Get(desired.source_sets, "name", s.allow_from)
               binding == Get(inventory.source_sets, "name", s.allow_from)
           IN  /\ binding # None /\ IsTable(binding.prefixes)
               /\ set.kind \in {"tunnel_interface", "address_set"}
               /\ set.kind = "tunnel_interface" =>
                      binding.interface # None /\ binding.prefixes = <<>>
               /\ set.kind = "address_set" =>
                      binding.interface = None /\ binding.prefixes # <<>>
<1> DEFINE ingress == {t \in ToSet(desired.surfaces) : t.exposure = "ingress"}
           used == Keys(desired.surfaces, "allow_from") \ {None}
           declared == used \cap Keys(desired.source_sets, "name")
           Kind(name) == Get(desired.source_sets, "name", name).kind
           Bound(name) == Get(inventory.source_sets, "name", name)
           met == {name \in declared : Bound(name) # None}
           tunnels == {Bound(name) : name \in {n \in met : Kind(n) = "tunnel_interface"}}
           addresses == {Bound(name) : name \in {n \in met : Kind(n) = "address_set"}}
           set == Get(desired.source_sets, "name", s.allow_from)
           binding == Bound(s.allow_from)
<1>1. ~ \E t \in ingress : t.allow_from = None
  BY Zenon DEF ExposureFindings, Finding
<1>2. ~ \E t \in ingress :
            t.allow_from \notin Keys(desired.source_sets, "name") \cup {None}
  BY Zenon DEF ExposureFindings, Finding
<1>3. ~ \E b \in tunnels : b.interface = None \/ b.prefixes # <<>>
  BY Zenon DEF SourceSetFindings, Finding
<1>4. ~ \E b \in addresses : b.interface # None \/ b.prefixes = <<>>
  BY Zenon DEF SourceSetFindings, Finding
<1>5. s.allow_from # None /\ s.allow_from \in Keys(desired.source_sets, "name")
  BY <1>1, <1>2
<1>6. set \in ToSet(desired.source_sets) /\ set["name"] = s.allow_from
  BY <1>5, DocumentsOf, RowOfKey
<1>7. set.kind \in {"tunnel_interface", "address_set"}
  <2> HIDE DEF set
  <2> QED BY <1>6, DocumentsOf
<1>8. binding # None /\ binding \in ToSet(inventory.source_sets)
  BY SurfacesAreMet, TablesOf, GetIsKeyed
<1>9. IsTable(binding.prefixes)
  <2> HIDE DEF binding
  <2> QED BY <1>8, TablesOf
<1>10. /\ s.allow_from \in met /\ Kind(s.allow_from) = set.kind
       /\ Bound(s.allow_from) = binding
  BY <1>5, <1>8 DEF Keys
<1>11. /\ set.kind = "tunnel_interface" => binding \in tunnels
       /\ set.kind = "address_set" => binding \in addresses
  <2> HIDE DEF set, binding, met, Kind, Bound
  <2> QED BY <1>10
<1> HIDE DEF set, binding, tunnels, addresses
<1>12. /\ set.kind = "tunnel_interface" => binding.interface # None /\ binding.prefixes = <<>>
       /\ set.kind = "address_set" => binding.interface = None /\ binding.prefixes # <<>>
  BY <1>3, <1>4, <1>11
<1> USE DEF set, binding
<1> QED BY <1>7, <1>8, <1>9, <1>12

\* A binding of a source set is in a line of the surface that allows from it.
LEMMA SourceSetsAreRead ==
    ASSUME NEW desired, IsContract(desired), NEW inventory, IsInventory(inventory),
           ExposureFindings(desired) = {}, SourceSetFindings(desired, inventory) = {},
           ~Repeated(inventory.source_sets, "name"),
           NEW b \in ToSet(inventory.source_sets)
    PROVE  \E family \in {"ipv4", "ipv6"} :
           \E block \in ToSet(ExposureRules(desired, inventory.source_sets, family)) :
           \E rule \in ToSet(block) :
              \/ b.interface # None /\ rule.interface = b.interface
              \/ rule.source \in ToSet(b.prefixes)
<1> DEFINE ingress == {t \in ToSet(desired.surfaces) : t.exposure = "ingress"}
           used == Keys(desired.surfaces, "allow_from") \ {None}
           bindings == inventory.source_sets
<1>1. Keys(bindings, "name") \subseteq used
  BY Zenon DEF SourceSetFindings, Finding
<1>2. ~ \E t \in ToSet(desired.surfaces) \ ingress : t.allow_from # None
  BY Zenon DEF ExposureFindings, Finding
<1>3. PICK s \in ToSet(desired.surfaces) : s.allow_from = b.name /\ s.allow_from # None
  <2>1. b.name \in Keys(bindings, "name")
    BY DEF Keys
  <2> QED BY <1>1, <2>1 DEF Keys
<1>4. s.exposure = "ingress"
  BY <1>2, <1>3
<1>5. Get(bindings, "name", s.allow_from) = b
  <2>1. Get(bindings, "name", b["name"]) = b
    BY TablesOf, RowItself
  <2> QED BY <1>3, <2>1
<1>6. IsTable(b.prefixes) /\ (b.interface # None \/ b.prefixes # <<>>)
  BY <1>4, <1>5, SetOfASurface
<1>7. PICK family \in {"ipv4", "ipv6"} : family \in Families(s)
  <2>1. s.family \in {"ipv4", "ipv6", "dual_stack"}
    BY DocumentsOf DEF IsSurfaces
  <2> QED BY <2>1 DEF Families
<1> DEFINE open == OpenLines(s, family, b)
           block == SurfaceRules(s, family, bindings)
<1>8. block \in ToSet(ExposureRules(desired, bindings, family))
  <2>1. PICK i \in DOMAIN desired.surfaces : s = desired.surfaces[i]
    BY DEF ToSet
  <2>2. /\ DOMAIN ExposureRules(desired, bindings, family) = DOMAIN desired.surfaces
        /\ ExposureRules(desired, bindings, family)[i] = block
    <3> HIDE DEF bindings
    <3> QED BY <1>7, <2>1 DEF ExposureRules
  <2> HIDE DEF block
  <2> QED BY <2>1, <2>2 DEF ToSet
<1>9. block = open \o <<Closed(s, family)>>
  BY <1>4, <1>5, BlockOf
<1>10. ToSet(block) = ToSet(open) \cup ToSet(<<Closed(s, family)>>)
  <2>1. IsList(open)
    BY <1>6, OpenLinesOf
  <2>2. IsList(<<Closed(s, family)>>)
    BY Single
  <2> HIDE DEF open, block
  <2> QED BY <1>9, <2>1, <2>2, Joined
<1>11. \E rule \in ToSet(open) : \/ b.interface # None /\ rule.interface = b.interface
                                 \/ rule.source \in ToSet(b.prefixes)
  <2>1. CASE b.interface # None
    <3>1. LineOf(s, family, b.interface, None, FALSE, "ACCEPT") \in ToSet(open)
      BY <1>6, <2>1, OpenLinesOf
    <3>2. LineOf(s, family, b.interface, None, FALSE, "ACCEPT").interface = b.interface
      BY DEF LineOf
    <3> HIDE DEF open
    <3> QED BY <2>1, <3>1, <3>2
  <2>2. CASE b.prefixes # <<>>
    <3>1. PICK p : p \in ToSet(b.prefixes)
      <4>1. b.prefixes[1] \in ToSet(b.prefixes)
        BY <1>6, <2>2, EmptySeq DEF IsTable, ToSet
      <4> QED BY <4>1
    <3>2. LineOf(s, family, None, p, FALSE, "ACCEPT") \in ToSet(open)
      BY <1>6, <3>1, OpenLinesOf
    <3>3. LineOf(s, family, None, p, FALSE, "ACCEPT").source = p
      BY DEF LineOf
    <3> HIDE DEF open
    <3> QED BY <3>1, <3>2, <3>3
  <2> HIDE DEF open
  <2> QED BY <1>6, <2>1, <2>2
<1>12. \E rule \in ToSet(block) : \/ b.interface # None /\ rule.interface = b.interface
                                  \/ rule.source \in ToSet(b.prefixes)
  <2> HIDE DEF open, block
  <2> QED BY <1>10, <1>11
<1> HIDE DEF block
<1> QED BY <1>8, <1>12

\* Of any pair that passed the gates and names nothing twice: no binding is a stale
\* entry, and no credential of a receiver is used by two integrations.
THEOREM BindingsAreRead == Spec => []EveryBindingIsRead
<1>1. Rendered => EveryBindingIsRead
  <2> DEFINE desired == live.desired
             inventory == live.inventory
             receivers == live.tree.alertmanager.receivers
  <2> SUFFICES ASSUME Rendered, live # None, NamesNothingTwice(live.desired, live.inventory)
               PROVE  EveryBindingIsRead
    BY DEF EveryBindingIsRead
  <2>1. /\ IsContract(desired) /\ IsInventory(inventory)
        /\ live.tree = Render(desired, inventory)
    BY DEF Rendered
  <2>2. /\ JobFindings(desired, inventory) = {} /\ FederationFindings(desired, inventory) = {}
        /\ ReceiverFindings(desired, inventory) = {} /\ SourceSetFindings(desired, inventory) = {}
        /\ RoutingFindings(desired) = {} /\ ExposureFindings(desired) = {}
    BY Zenon DEF Rendered, Findings, SemanticFindings, ResolutionFindings
  <2>3. /\ ~Repeated(desired.receivers, "name") /\ ~Repeated(inventory.targets, "target_id")
        /\ ~Repeated(inventory.federations, "target_id")
        /\ ~Repeated(inventory.receivers, "credential_ref")
        /\ ~Repeated(inventory.receivers, "credential")
        /\ ~Repeated(inventory.source_sets, "name")
    BY DEF NamesNothingTwice
  <2>4. ASSUME NEW b \in ToSet(inventory.targets)
        PROVE  \E e \in live.tree.scrapes : e.from.endpoints = b.endpoints
    <3>1. PICK j \in ToSet(desired.jobs) : JobEndpoint(j, inventory).endpoints = b.endpoints
      BY <2>1, <2>2, <2>3, TargetsAreRead
    <3>2. [job |-> j.name, target_id |-> j.target_id, from |-> JobEndpoint(j, inventory)]
             \in live.tree.scrapes
      BY <2>1 DEF Render
    <3> QED BY <3>1, <3>2
  <2>5. ASSUME NEW b \in ToSet(inventory.federations)
        PROVE  \E e \in live.tree.federations : e.from = b
    <3>1. PICK f \in ToSet(desired.federations) :
             Get(inventory.federations, "target_id", f.target_id) = b
      BY <2>1, <2>2, <2>3, FederationsAreRead
    <3>2. [job |-> f.name, from |-> Get(inventory.federations, "target_id", f.target_id)]
             \in live.tree.federations
      BY <2>1 DEF Render
    <3> QED BY <3>1, <3>2
  <2>6. ASSUME NEW b \in ToSet(inventory.receivers)
        PROVE  Cardinality(Uses(receivers, b)) = 1
    <3>1. receivers = Alertmanager(desired, inventory.receivers).receivers
      BY <2>1 DEF Render
    <3> HIDE DEF desired, inventory, receivers
    <3> QED BY <2>1, <2>2, <2>3, <3>1, CredentialsAreUsedOnce
  <2>7. ASSUME NEW b \in ToSet(inventory.source_sets)
        PROVE  \E family \in {"ipv4", "ipv6"} :
               \E block \in ToSet(live.tree.rules[family]) : \E rule \in ToSet(block) :
                   \/ b.interface # None /\ rule.interface = b.interface
                   \/ rule.source \in ToSet(b.prefixes)
    <3>1. \A family \in {"ipv4", "ipv6"} :
             live.tree.rules[family] = ExposureRules(desired, inventory.source_sets, family)
      BY <2>1 DEF Render
    <3>2. \E family \in {"ipv4", "ipv6"} :
          \E block \in ToSet(ExposureRules(desired, inventory.source_sets, family)) :
          \E rule \in ToSet(block) :
              \/ b.interface # None /\ rule.interface = b.interface
              \/ rule.source \in ToSet(b.prefixes)
      BY <2>1, <2>2, <2>3, SourceSetsAreRead
    <3> HIDE DEF desired, inventory
    <3> QED BY <3>1, <3>2
  <2> QED BY <2>4, <2>5, <2>6, <2>7 DEF EveryBindingIsRead, Uses
<1> QED BY AlwaysRendered, <1>1, PTL

-----------------------------------------------------------------------------
(* Only who the contract lets in reaches a port.                             *)

\* Which line decides of a packet to the surface's own port.
LEMMA LineDecides ==
    ASSUME NEW s, NEW p, p.port = s.name, NEW from, NEW source, NEW verdict
    PROVE  /\ Decides(LineOf(s, p.family, from, source, FALSE, verdict), s.kind, p)
                 <=> from \in {None, p.interface} /\ source \in {None, p.source}
           /\ Decides(LineOf(s, p.family, from, source, TRUE, verdict), s.kind, p)
                 <=> from \in {None, p.interface} /\ source \in {None, p.source} /\ p.reply
<1> DEFINE Line(replies) == LineOf(s, p.family, from, source, replies, verdict)
<1>1. /\ \A replies : /\ Line(replies).chain = Traverses(s.kind, p.family)
                      /\ Line(replies).port = p.port
                      /\ Line(replies).interface = from /\ Line(replies).source = source
      /\ Line(TRUE).replies = TRUE /\ Line(FALSE).replies = FALSE
  BY DEF LineOf, ChainFor, Traverses
<1> HIDE DEF Line
<1>2. /\ Decides(Line(FALSE), s.kind, p) <=> from \in {None, p.interface} /\ source \in {None, p.source}
      /\ Decides(Line(TRUE), s.kind, p)
            <=> from \in {None, p.interface} /\ source \in {None, p.source} /\ p.reply
  BY Zenon, <1>1 DEF Decides
<1> QED BY Zenon, <1>2 DEF Line

\* Who the lines of a surface let in.
Admits(s, binding, p) ==
    \/ s.exposure = "public"
    \/ /\ s.exposure = "ingress"
       /\ \/ p.reply
          \/ binding.interface # None /\ p.interface = binding.interface
          \/ p.source \in ToSet(binding.prefixes)

\* A surface as the code reads it: of one of the exposures, and if a set decides,
\* the set's binding has a list of prefixes.
IsExposed(s, bindings) ==
    /\ s.exposure \in {"none", "loopback", "ingress", "public"}
    /\ s.exposure = "ingress" => IsTable(Get(bindings, "name", s.allow_from).prefixes)

\* The lines of a surface are a list, and all are of its port.
LEMMA LinesOfItsPort ==
    ASSUME NEW s, NEW bindings, IsExposed(s, bindings), NEW family
    PROVE  /\ IsList(SurfaceRules(s, family, bindings))
           /\ \A line \in ToSet(SurfaceRules(s, family, bindings)) : line.port = s.name
<1> DEFINE block == SurfaceRules(s, family, bindings)
           open == OpenLines(s, family, Get(bindings, "name", s.allow_from))
<1>1. /\ IsList(<<Closed(s, family)>>) /\ ToSet(<<Closed(s, family)>>) = {Closed(s, family)}
      /\ IsList(<<Related(s, family)>>) /\ ToSet(<<Related(s, family)>>) = {Related(s, family)}
      /\ IsList(<<Everybody(s, family)>>) /\ ToSet(<<Everybody(s, family)>>) = {Everybody(s, family)}
  BY Single
<1>2. /\ Closed(s, family).port = s.name /\ Related(s, family).port = s.name
      /\ Everybody(s, family).port = s.name
      /\ \A from, source : LineOf(s, family, from, source, FALSE, "ACCEPT").port = s.name
  BY DEF Closed, Related, Everybody, LineOf
<1>3. CASE s.exposure \in {"none", "loopback"}
  <2>1. block = <<Closed(s, family)>>
    BY <1>3, BlockOf
  <2> HIDE DEF block
  <2>2. IsList(block) /\ ToSet(block) = {Closed(s, family)}
    BY <1>1, <2>1
  <2>3. IsList(block) /\ \A line \in ToSet(block) : line.port = s.name
    BY <1>2, <2>2
  <2> QED BY <2>3 DEF block
<1>4. CASE s.exposure = "public"
  <2>1. block = <<Related(s, family)>> \o <<Everybody(s, family)>>
    BY <1>4, BlockOf
  <2> HIDE DEF block
  <2>2. IsList(block) /\ ToSet(block) = {Related(s, family)} \cup {Everybody(s, family)}
    <3> DEFINE first == <<Related(s, family)>>
               second == <<Everybody(s, family)>>
    <3>1. block = first \o second
      BY <2>1
    <3>2. /\ IsList(first) /\ ToSet(first) = {Related(s, family)}
          /\ IsList(second) /\ ToSet(second) = {Everybody(s, family)}
      BY <1>1
    <3> HIDE DEF first, second
    <3>3. IsList(first \o second) /\ ToSet(first \o second) = ToSet(first) \cup ToSet(second)
      BY ONLY <3>2, Joined
    <3> QED BY ONLY Zenon, <3>1, <3>2, <3>3
  <2>3. IsList(block) /\ \A line \in ToSet(block) : line.port = s.name
    BY <1>2, <2>2
  <2> QED BY <2>3 DEF block
<1>5. CASE s.exposure = "ingress"
  <2>1. block = open \o <<Closed(s, family)>>
    BY <1>5, BlockOf
  <2>2. IsList(open) /\ \A line \in ToSet(open) : line.port = s.name
    <3> DEFINE binding == Get(bindings, "name", s.allow_from)
    <3>1. IsTable(binding.prefixes)
      BY <1>5 DEF IsExposed
    <3>2. open = OpenLines(s, family, binding)
      OBVIOUS
    <3> HIDE DEF open, binding
    <3>3. /\ IsList(OpenLines(s, family, binding))
          /\ \A line \in ToSet(OpenLines(s, family, binding)) :
                \/ line = Related(s, family)
                \/ /\ binding.interface # None
                   /\ line = LineOf(s, family, binding.interface, None, FALSE, "ACCEPT")
                \/ \E q \in ToSet(binding.prefixes) :
                       line = LineOf(s, family, None, q, FALSE, "ACCEPT")
      BY Zenon, <3>1, OpenLinesOf
    <3> QED BY <1>2, <3>2, <3>3
  <2> HIDE DEF block, open
  <2>3. IsList(block) /\ ToSet(block) = ToSet(open) \cup {Closed(s, family)}
    <3> DEFINE last == <<Closed(s, family)>>
    <3>1. block = open \o last
      BY <2>1
    <3>2. IsList(last) /\ ToSet(last) = {Closed(s, family)}
      BY <1>1
    <3> HIDE DEF last
    <3>3. IsList(open \o last) /\ ToSet(open \o last) = ToSet(open) \cup ToSet(last)
      BY ONLY <2>2, <3>2, Joined
    <3> QED BY ONLY Zenon, <3>1, <3>2, <3>3
  <2>4. IsList(block) /\ \A line \in ToSet(block) : line.port = s.name
    BY <1>2, <2>2, <2>3
  <2> QED BY <2>4 DEF block
<1> QED BY <1>3, <1>4, <1>5 DEF IsExposed

\* The places of the lines that decide.
Deciding(block, kind, p) == {i \in 1..Len(block) : Decides(block[i], kind, p)}

\* Some line of a surface decides of a packet to its port, and the first that does
\* accepts whom the surface admits.
LEMMA BlockDecides ==
    ASSUME NEW s, NEW bindings, IsExposed(s, bindings), NEW p, p.port = s.name
    PROVE  LET block == SurfaceRules(s, p.family, bindings)
               deciding == Deciding(block, s.kind, p)
           IN  /\ deciding # {}
               /\ block[Min(deciding)].verdict = "ACCEPT"
                    <=> Admits(s, Get(bindings, "name", s.allow_from), p)
<1> DEFINE family == p.family
           block == SurfaceRules(s, family, bindings)
           binding == Get(bindings, "name", s.allow_from)
           open == OpenLines(s, family, binding)
           deciding == Deciding(block, s.kind, p)
           through == LineOf(s, family, binding.interface, None, FALSE, "ACCEPT")
           From(q) == LineOf(s, family, None, q, FALSE, "ACCEPT")
<1>1. /\ Decides(Closed(s, family), s.kind, p) /\ Decides(Everybody(s, family), s.kind, p)
      /\ Decides(Related(s, family), s.kind, p) <=> p.reply
  BY Zenon, LineDecides DEF Closed, Everybody, Related
<1>2. /\ Closed(s, family).verdict = "DROP" /\ Related(s, family).verdict = "ACCEPT"
      /\ Everybody(s, family).verdict = "ACCEPT" /\ through.verdict = "ACCEPT"
      /\ \A q : From(q).verdict = "ACCEPT"
  BY DEF Closed, Related, Everybody, LineOf
<1>3. /\ IsList(<<Closed(s, family)>>) /\ ToSet(<<Closed(s, family)>>) = {Closed(s, family)}
      /\ IsList(<<Related(s, family)>>) /\ ToSet(<<Related(s, family)>>) = {Related(s, family)}
      /\ IsList(<<Everybody(s, family)>>) /\ ToSet(<<Everybody(s, family)>>) = {Everybody(s, family)}
      /\ Len(<<Closed(s, family)>>) = 1 /\ <<Closed(s, family)>>[1] = Closed(s, family)
      /\ Len(<<Everybody(s, family)>>) = 1 /\ <<Everybody(s, family)>>[1] = Everybody(s, family)
      /\ Len(<<Related(s, family)>>) = 1
  BY Single
<1>4. IsList(block)
  BY LinesOfItsPort
<1>5. /\ Len(block) \in Nat /\ DOMAIN block = 1..Len(block)
      /\ \A i \in 1..Len(block) : block[i] \in ToSet(block)
  <2> HIDE DEF block
  <2> QED BY <1>4, LenProperties DEF IsList, ToSet
<1>6. ASSUME deciding # {}
      PROVE  /\ Min(deciding) \in 1..Len(block)
             /\ Decides(block[Min(deciding)], s.kind, p)
             /\ block[Min(deciding)] \in ToSet(block)
             /\ \A i \in 1..Len(block) : Decides(block[i], s.kind, p) => Min(deciding) <= i
  <2>1. deciding \subseteq 1..Len(block)
    BY DEF Deciding
  <2>2. Min(deciding) \in deciding /\ \A i \in deciding : Min(deciding) <= i
    <3> HIDE DEF deciding, block
    <3> QED BY <1>5, <1>6, <2>1, LeastOf
  <2> HIDE DEF block
  <2> QED BY <1>5, <2>2 DEF Deciding
<1>7. CASE s.exposure \in {"none", "loopback"}
  <2>1. block = <<Closed(s, family)>>
    BY <1>7, BlockOf
  <2>2. 1 \in deciding
    <3> HIDE DEF block
    <3> QED BY <1>1, <1>3, <2>1 DEF Deciding
  <2>3. block[Min(deciding)] = Closed(s, family)
    <3> HIDE DEF block, deciding
    <3> QED BY <1>3, <1>6, <2>1, <2>2
  <2>4. ~Admits(s, binding, p)
    BY <1>7 DEF Admits
  <2> HIDE DEF block, deciding
  <2>5. deciding # {} /\ ~(block[Min(deciding)].verdict = "ACCEPT")
    BY <1>2, <2>2, <2>3
  <2> USE DEF block, deciding
  <2> QED BY Zenon, <2>4, <2>5
<1>8. CASE s.exposure = "public"
  <2>1. block = <<Related(s, family)>> \o <<Everybody(s, family)>>
    BY <1>8, BlockOf
  <2>2. /\ Len(block) = 2 /\ block[2] = Everybody(s, family)
        /\ ToSet(block) = {Related(s, family)} \cup {Everybody(s, family)}
    <3>1. \A x, y : IsList(x) /\ IsList(y) /\ Len(x) = 1 /\ Len(y) = 1 =>
             /\ Len(x \o y) = 2 /\ (x \o y)[2] = y[1]
             /\ ToSet(x \o y) = ToSet(x) \cup ToSet(y)
      <4> SUFFICES ASSUME NEW x, NEW y, IsList(x), IsList(y), Len(x) = 1, Len(y) = 1
                   PROVE  /\ Len(x \o y) = 2 /\ (x \o y)[2] = y[1]
                          /\ ToSet(x \o y) = ToSet(x) \cup ToSet(y)
        OBVIOUS
      <4>1. /\ Len(x \o y) = Len(x) + Len(y)
            /\ \A i \in 1..Len(y) : (x \o y)[Len(x) + i] = y[i]
            /\ ToSet(x \o y) = ToSet(x) \cup ToSet(y)
        <5>1. IsList(x) /\ IsList(y)
          OBVIOUS
        <5> QED BY ONLY <5>1, Joined
      <4>2. (x \o y)[1 + 1] = y[1]
        BY <4>1
      <4> QED BY <4>1, <4>2
    <3> HIDE DEF block
    <3> QED BY <1>3, <2>1, <3>1
  <2>3. 2 \in deciding
    <3> HIDE DEF block
    <3> QED BY <1>1, <2>2 DEF Deciding
  <2>4. Admits(s, binding, p)
    BY <1>8 DEF Admits
  <2>5. deciding # {} /\ block[Min(deciding)].verdict = "ACCEPT"
    <3> HIDE DEF block, deciding
    <3> QED BY <1>2, <1>6, <2>2, <2>3
  <2> QED BY Zenon, <2>4, <2>5
<1>9. CASE s.exposure = "ingress"
  <2>1. block = open \o <<Closed(s, family)>>
    BY <1>9, BlockOf
  <2>2. /\ IsList(open)
        /\ \A line \in ToSet(open) :
              \/ line = Related(s, family)
              \/ binding.interface # None /\ line = through
              \/ \E q \in ToSet(binding.prefixes) : line = From(q)
        /\ Related(s, family) \in ToSet(open)
        /\ binding.interface # None => through \in ToSet(open)
        /\ \A q \in ToSet(binding.prefixes) : From(q) \in ToSet(open)
    <3>1. IsTable(binding.prefixes)
      BY <1>9 DEF IsExposed
    <3> HIDE DEF binding
    <3> QED BY <3>1, OpenLinesOf
  <2>3. /\ Len(open) \in Nat /\ Len(block) = Len(open) + 1
        /\ \A i \in 1..Len(open) : block[i] = open[i]
        /\ block[Len(open) + 1] = Closed(s, family)
        /\ ToSet(open) = {open[i] : i \in 1..Len(open)}
    <3>1. /\ Len(open) \in Nat /\ Len(block) = Len(open) + 1
          /\ \A i \in 1..Len(open) : block[i] = open[i]
          /\ \A i \in 1..1 : block[Len(open) + i] = <<Closed(s, family)>>[i]
      <4> HIDE DEF block, open
      <4> QED BY <1>3, <2>1, <2>2, Joined
    <3>2. DOMAIN open = 1..Len(open)
      <4> HIDE DEF open
      <4> QED BY <2>2, LenProperties DEF IsList
    <3> HIDE DEF block, open
    <3> QED BY <1>3, <3>1, <3>2 DEF ToSet
  <2>4. \A line \in ToSet(open) : line.verdict = "ACCEPT"
    <3> HIDE DEF open, through, From, binding
    <3> QED BY <1>2, <2>2
  <2>5. (\E line \in ToSet(open) : Decides(line, s.kind, p)) <=> Admits(s, binding, p)
    <3>1. Decides(through, s.kind, p) <=> binding.interface \in {None, p.interface}
      <4>1. Decides(through, s.kind, p)
              <=> binding.interface \in {None, p.interface} /\ None \in {None, p.source}
        <5> HIDE DEF binding
        <5> QED BY Zenon, LineDecides
      <4>2. None \in {None, p.source}
        OBVIOUS
      <4> QED BY Zenon, <4>1, <4>2
    <3>2. \A q \in ToSet(binding.prefixes) : Decides(From(q), s.kind, p) <=> q = p.source
      <4>1. \A q \in ToSet(binding.prefixes) : q # None
        <5>1. IsTable(binding.prefixes)
          BY <1>9 DEF IsExposed
        <5>2. ASSUME NEW q \in ToSet(binding.prefixes) PROVE q # None
          <6>1. PICK i \in DOMAIN binding.prefixes : q = binding.prefixes[i]
            BY DEF ToSet
          <6> HIDE DEF binding
          <6>2. binding.prefixes[i] \in ToSet(binding.prefixes) \ {None}
            BY <5>1, LenProperties, ElementOfSeq DEF IsTable
          <6> QED BY <6>1, <6>2
        <5> QED BY <5>2
      <4>2. \A q : Decides(From(q), s.kind, p) <=> q \in {None, p.source}
        BY Zenon, LineDecides
      <4> HIDE DEF From, binding
      <4> QED BY <4>1, <4>2
    <3>3. Admits(s, binding, p) <=> \/ p.reply
                                    \/ binding.interface # None /\ p.interface = binding.interface
                                    \/ p.source \in ToSet(binding.prefixes)
      BY Zenon, <1>9 DEF Admits
    <3> HIDE DEF open, through, From, binding, family
    <3>4. ASSUME NEW line \in ToSet(open), Decides(line, s.kind, p)
          PROVE  Admits(s, binding, p)
      BY Zenon, <1>1, <2>2, <3>1, <3>2, <3>3, <3>4
    <3>5. ASSUME Admits(s, binding, p)
          PROVE  \E line \in ToSet(open) : Decides(line, s.kind, p)
      BY Zenon, <1>1, <2>2, <3>1, <3>2, <3>3, <3>5
    <3> QED BY Zenon, <3>4, <3>5
  <2>6. deciding # {}
    <3>1. Len(open) + 1 \in 1..Len(block)
      <4> HIDE DEF open, block
      <4> QED BY <2>3
    <3> HIDE DEF block, open
    <3> QED BY <1>1, <2>3, <3>1 DEF Deciding
  <2> DEFINE m == Min(deciding)
  <2>7. /\ m \in 1..Len(block) /\ Decides(block[m], s.kind, p)
        /\ \A i \in 1..Len(block) : Decides(block[i], s.kind, p) => m <= i
    BY <1>6, <2>6
  <2> HIDE DEF m, deciding, block, open, binding
  <2>8. CASE m <= Len(open)
    <3>1. m \in 1..Len(open)
      BY <2>3, <2>7, <2>8
    <3>2. block[m] \in ToSet(open)
      BY <2>3, <3>1
    <3>3. block[m].verdict = "ACCEPT"
      BY <2>4, <3>2
    <3>4. Admits(s, binding, p)
      BY <2>5, <2>7, <3>2
    <3>5. block[m].verdict = "ACCEPT" <=> Admits(s, binding, p)
      BY Zenon, <3>3, <3>4
    <3> QED BY Zenon, <2>6, <3>5 DEF m, deciding, block, binding
  <2>9. CASE m > Len(open)
    <3>1. m = Len(open) + 1
      BY <2>3, <2>7, <2>9
    <3>2. block[m].verdict = "DROP"
      BY <1>2, <2>3, <3>1
    <3>3. ASSUME NEW line \in ToSet(open), Decides(line, s.kind, p)
          PROVE  FALSE
      <4>1. PICK i \in 1..Len(open) : line = open[i]
        BY <2>3
      <4>2. i \in 1..Len(block) /\ block[i] = line
        BY <2>3, <4>1
      <4>3. m <= i
        BY <2>7, <3>3, <4>2
      <4> QED BY <2>3, <3>1, <4>3
    <3>4. ~Admits(s, binding, p)
      BY <2>5, <3>3
    <3>5. ~(block[m].verdict = "ACCEPT")
      BY <3>2
    <3>6. block[m].verdict = "ACCEPT" <=> Admits(s, binding, p)
      BY Zenon, <3>4, <3>5
    <3> QED BY Zenon, <2>6, <3>6 DEF m, deciding, block, binding
  <2> QED BY <2>3, <2>7, <2>8, <2>9
<1> QED BY <1>7, <1>8, <1>9 DEF IsExposed

\* Of the blocks of a family, only this one has lines that decide.
DecidesAlone(rules, a, kind, p) ==
    /\ Len(rules) \in Nat /\ a \in 1..Len(rules)
    /\ Deciding(rules[a], kind, p) # {} /\ Min(Deciding(rules[a], kind, p)) # 0
    /\ \A i \in 1..Len(rules) : i # a => Deciding(rules[i], kind, p) = {}

\* The first of its lines that does gives the verdict.
LEMMA VerdictOfTheBlock ==
    ASSUME NEW rules, NEW kind, NEW p, NEW a, DecidesAlone(rules, a, kind, p)
    PROVE  Verdict(rules, kind, p) = rules[a][Min(Deciding(rules[a], kind, p))].verdict
<1> DEFINE Line(block) == SelectInSeq(block, LAMBDA rule : Decides(rule, kind, p))
           lines == {i \in 1..Len(rules) : Line(rules[i]) # 0}
           b == IF lines # {} THEN Min(lines) ELSE 0
<1>1. \A block : Line(block) = IF Deciding(block, kind, p) # {}
                               THEN Min(Deciding(block, kind, p)) ELSE 0
  BY DEF SelectInSeq, Deciding
<1>2. Verdict(rules, kind, p) = IF b = 0 THEN "ACCEPT" ELSE rules[b][Line(rules[b])].verdict
  BY DEF Verdict, SelectInSeq
<1> HIDE DEF Line
<1>3. lines = {a}
  BY <1>1 DEF DecidesAlone
<1>4. Min(lines) = a
  <2>1. {a} \subseteq 1..Len(rules) /\ {a} # {}
    BY DEF DecidesAlone
  <2>2. Min({a}) \in {a}
    BY <2>1, LeastOf DEF DecidesAlone
  <2> HIDE DEF lines
  <2> QED BY <1>3, <2>2
<1>5. b = a /\ b # 0
  <2>1. a # 0
    BY DEF DecidesAlone
  <2> HIDE DEF lines
  <2> QED BY <1>3, <1>4, <2>1
<1>6. Line(rules[a]) = Min(Deciding(rules[a], kind, p))
  BY <1>1 DEF DecidesAlone
<1> HIDE DEF b
<1> QED BY <1>2, <1>5, <1>6

\* The rules of a family give a packet to a surface's port the surface's verdict.
LEMMA VerdictOfASurface ==
    ASSUME NEW desired, IsTable(desired.surfaces), ~Repeated(desired.surfaces, "name"),
           NEW bindings, \A t \in ToSet(desired.surfaces) : IsExposed(t, bindings),
           NEW s \in ToSet(desired.surfaces), NEW p, p.port = s.name, p.family \in Families(s)
    PROVE  Verdict(ExposureRules(desired, bindings, p.family), s.kind, p) = "ACCEPT"
              <=> Admits(s, Get(bindings, "name", s.allow_from), p)
<1> DEFINE surfaces == desired.surfaces
           family == p.family
           rules == ExposureRules(desired, bindings, family)
           binding == Get(bindings, "name", s.allow_from)
<1>1. /\ Len(surfaces) \in Nat /\ DOMAIN surfaces = 1..Len(surfaces)
      /\ \A i \in 1..Len(surfaces) : surfaces[i] \in ToSet(surfaces)
  BY LenProperties DEF IsTable, ToSet
<1>2. PICK a \in 1..Len(surfaces) : s = surfaces[a]
  BY <1>1 DEF ToSet
<1>3. rules = [i \in 1..Len(surfaces) |->
                  IF family \in Families(surfaces[i])
                  THEN SurfaceRules(surfaces[i], family, bindings) ELSE <<>>]
  BY <1>1 DEF ExposureRules
<1>4. Len(rules) = Len(surfaces)
  <2>1. /\ DOMAIN rules = 1..Len(surfaces)
        /\ rules = [i \in 1..Len(surfaces) |-> rules[i]]
    <3> HIDE DEF rules, family, surfaces
    <3> QED BY <1>3
  <2> HIDE DEF rules, surfaces
  <2> QED BY <1>1, <2>1, Listed
<1>5. rules[a] = SurfaceRules(s, family, bindings)
  BY <1>2, <1>3
<1>6. /\ Deciding(rules[a], s.kind, p) # {}
      /\ rules[a][Min(Deciding(rules[a], s.kind, p))].verdict = "ACCEPT"
            <=> Admits(s, binding, p)
  <2>1. IsExposed(s, bindings)
    OBVIOUS
  <2>2. LET block == SurfaceRules(s, family, bindings)
            deciding == Deciding(block, s.kind, p)
        IN  /\ deciding # {}
            /\ block[Min(deciding)].verdict = "ACCEPT" <=> Admits(s, binding, p)
    BY <2>1, BlockDecides
  <2> HIDE DEF rules, family, binding
  <2> QED BY Zenon, <1>5, <2>2
<1>7. Min(Deciding(rules[a], s.kind, p)) # 0
  <2>1. IsList(rules[a])
    BY <1>5, LinesOfItsPort
  <2> HIDE DEF rules
  <2>2. Len(rules[a]) \in Nat /\ Deciding(rules[a], s.kind, p) \subseteq 1..Len(rules[a])
    BY <2>1, LenProperties DEF IsList, Deciding
  <2>3. Min(Deciding(rules[a], s.kind, p)) \in Deciding(rules[a], s.kind, p)
    BY <1>6, <2>2, LeastOf
  <2> QED BY <2>2, <2>3
<1>8. ASSUME NEW i \in 1..Len(surfaces), i # a
      PROVE  Deciding(rules[i], s.kind, p) = {}
  <2>1. surfaces[i].name # s.name
    <3>1. i \in Nat /\ a \in Nat /\ (i < a \/ a < i)
      <4> HIDE DEF surfaces
      <4> QED BY <1>1, <1>8
    <3> QED BY <1>1, <1>2, <3>1 DEF Repeated
  <2>2. CASE family \in Families(surfaces[i])
    <3> DEFINE block == SurfaceRules(surfaces[i], family, bindings)
    <3>1. rules[i] = block
      BY <1>3, <2>2
    <3>2. IsList(block) /\ \A line \in ToSet(block) : line.port = surfaces[i].name
      <4>1. IsExposed(surfaces[i], bindings)
        BY <1>1
      <4> QED BY <4>1, LinesOfItsPort
    <3> HIDE DEF block, rules, surfaces
    <3>3. \A n \in 1..Len(block) : block[n] \in ToSet(block)
      BY <3>2, LenProperties DEF IsList, ToSet
    <3>4. \A n \in 1..Len(block) : ~Decides(block[n], s.kind, p)
      BY <2>1, <3>2, <3>3 DEF Decides
    <3> QED BY <3>1, <3>4 DEF Deciding
  <2>3. CASE family \notin Families(surfaces[i])
    <3>1. rules[i] = <<>>
      BY <1>3, <2>3
    <3>2. Deciding(<<>>, s.kind, p) = {}
      BY DEF Deciding
    <3> HIDE DEF rules
    <3> QED BY <3>1, <3>2
  <2> QED BY <2>2, <2>3
<1>9. Verdict(rules, s.kind, p) = rules[a][Min(Deciding(rules[a], s.kind, p))].verdict
  <2> HIDE DEF rules, surfaces, family, binding
  <2>1. Len(rules) \in Nat /\ a \in 1..Len(rules)
    BY <1>1, <1>4
  <2>2. \A i \in 1..Len(rules) : i # a => Deciding(rules[i], s.kind, p) = {}
    BY <1>4, <1>8
  <2>3. Deciding(rules[a], s.kind, p) # {}
    BY Zenon, <1>6
  <2>4. DecidesAlone(rules, a, s.kind, p)
    BY <1>7, <2>1, <2>2, <2>3 DEF DecidesAlone
  <2> QED BY <2>4, VerdictOfTheBlock
<1> HIDE DEF rules, family, binding
<1>10. Verdict(rules, s.kind, p) = "ACCEPT" <=> Admits(s, binding, p)
  BY Zenon, <1>6, <1>9
<1> QED BY Zenon, <1>10 DEF rules, family, binding

\* The declared kind of a surface's set says of the binding what the rules read.
LEMMA AdmitsThePermitted ==
    ASSUME NEW desired, IsContract(desired), NEW inventory, IsInventory(inventory),
           ExposureFindings(desired) = {}, SourceSetFindings(desired, inventory) = {},
           NEW s \in ToSet(desired.surfaces), NEW p
    PROVE  Admits(s, Get(inventory.source_sets, "name", s.allow_from), p)
              <=> Permitted(s, inventory, desired.source_sets, p)
<1> DEFINE kind == Get(desired.source_sets, "name", s.allow_from).kind
           binding == Get(inventory.source_sets, "name", s.allow_from)
<1>1. s.exposure \in {"none", "loopback", "ingress", "public"}
  BY DocumentsOf DEF IsSurfaces
<1>2. CASE s.exposure \in {"none", "loopback"}
  BY <1>2 DEF Admits, Permitted
<1>3. CASE s.exposure = "public"
  BY <1>3 DEF Admits, Permitted
<1>4. CASE s.exposure = "ingress"
  <2>1. /\ kind \in {"tunnel_interface", "address_set"}
        /\ kind = "tunnel_interface" => binding.interface # None /\ binding.prefixes = <<>>
        /\ kind = "address_set" => binding.interface = None /\ binding.prefixes # <<>>
    BY <1>4, SetOfASurface
  <2>2. /\ Admits(s, binding, p) <=> \/ p.reply
                                     \/ binding.interface # None /\ p.interface = binding.interface
                                     \/ p.source \in ToSet(binding.prefixes)
        /\ Permitted(s, inventory, desired.source_sets, p) <=>
              \/ p.reply
              \/ kind = "tunnel_interface" /\ p.interface = binding.interface
              \/ kind = "address_set" /\ p.source \in ToSet(binding.prefixes)
    <3>1. /\ s.exposure # "public" /\ s.exposure \notin {"none", "loopback"}
      BY <1>4
    <3>2. Admits(s, binding, p) <=> \/ p.reply
                                    \/ binding.interface # None /\ p.interface = binding.interface
                                    \/ p.source \in ToSet(binding.prefixes)
      BY Zenon, <1>4, <3>1 DEF Admits
    <3>3. Permitted(s, inventory, desired.source_sets, p) <=>
              \/ p.reply
              \/ kind = "tunnel_interface" /\ p.interface = binding.interface
              \/ kind = "address_set" /\ p.source \in ToSet(binding.prefixes)
      BY <3>1 DEF Permitted
    <3> QED BY Zenon, <3>2, <3>3
  <2>3. ToSet(<<>>) = {}
    BY DEF ToSet
  <2>4. kind = "tunnel_interface" => kind # "address_set"
    OBVIOUS
  <2> HIDE DEF kind, binding
  <2>5. CASE kind = "tunnel_interface"
    <3>1. binding.interface # None /\ p.source \notin ToSet(binding.prefixes)
      BY <2>1, <2>3, <2>5
    <3> QED BY Zenon, <2>2, <2>4, <2>5, <3>1 DEF binding
  <2>6. CASE kind = "address_set"
    <3>1. binding.interface = None
      BY <2>1, <2>6
    <3> QED BY Zenon, <2>2, <2>4, <2>6, <3>1 DEF binding
  <2> QED BY <2>1, <2>5, <2>6
<1> QED BY <1>1, <1>2, <1>3, <1>4

\* Of any pair that passed the gates, and any packet: a rule of the family it comes
\* by accepts it at a surface's port exactly when the surface's exposure, or the
\* declared kind of its set, admits it.
THEOREM OnlyDeclaredAreLetIn == Spec => []OnlyDeclaredSourcesReach
<1>1. Rendered => OnlyDeclaredSourcesReach
  <2> DEFINE desired == live.desired
             bindings == live.inventory.source_sets
  <2> SUFFICES ASSUME Rendered, live # None, ~Repeated(live.desired.surfaces, "name"),
                      NEW s \in ToSet(live.desired.surfaces), NEW p \in Packets,
                      p.port = s.name, p.family \in Families(s)
               PROVE  Verdict(live.tree.rules[p.family], s.kind, p) = "ACCEPT"
                        <=> Permitted(s, live.inventory, live.desired.source_sets, p)
    BY DEF OnlyDeclaredSourcesReach
  <2>1. IsContract(desired) /\ IsInventory(live.inventory)
    BY DEF Rendered
  <2>2. ExposureFindings(desired) = {} /\ SourceSetFindings(desired, live.inventory) = {}
    BY Zenon DEF Rendered, Findings, SemanticFindings, ResolutionFindings
  <2>3. /\ IsTable(desired.surfaces)
        /\ \A t \in ToSet(desired.surfaces) :
              /\ t.exposure \in {"none", "loopback", "ingress", "public"}
              /\ t.family \in {"ipv4", "ipv6", "dual_stack"}
    BY <2>1, DocumentsOf DEF IsSurfaces
  <2>4. \A t \in ToSet(desired.surfaces) : IsExposed(t, bindings)
    BY <2>1, <2>2, <2>3, SetOfASurface DEF IsExposed
  <2>5. live.tree.rules[p.family] = ExposureRules(desired, bindings, p.family)
    <3>1. s.family \in {"ipv4", "ipv6", "dual_stack"}
      BY <2>3
    <3>2. p.family \in {"ipv4", "ipv6"}
      BY <3>1 DEF Families
    <3> QED BY <3>2 DEF Rendered, Render
  <2>6. Verdict(ExposureRules(desired, bindings, p.family), s.kind, p) = "ACCEPT"
          <=> Admits(s, Get(bindings, "name", s.allow_from), p)
    BY <2>3, <2>4, VerdictOfASurface
  <2>7. Admits(s, Get(bindings, "name", s.allow_from), p)
          <=> Permitted(s, live.inventory, live.desired.source_sets, p)
    BY <2>1, <2>2, AdmitsThePermitted
  <2>8. Verdict(live.tree.rules[p.family], s.kind, p) = "ACCEPT"
          <=> Admits(s, Get(bindings, "name", s.allow_from), p)
    <3> HIDE DEF desired, bindings
    <3> QED BY Zenon, <2>5, <2>6
  <2> QED BY Zenon, <2>7, <2>8
<1> QED BY AlwaysRendered, <1>1, PTL
=============================================================================

# Verification of dotmac_observability

TLA+ models of the Git owner of the Dotmac observability control plane, the TLC runs that
check them on small instances, and TLAPS proofs of what matters most for every instance.
Paths below are relative to the repository; `py/` stands for `src/dotmac_observability/`.

## 1. The system

Typed inventory is reviewed on a protected branch, rendered to a tree of configuration,
promoted to one production host through a facility this repository does not own, verified
against a read-back of that host, and recorded in a receipt. The private half of the inventory
is kept in OpenBao and changed only by reviewed requests.

| Component | Where | State it keeps | Operations | Status |
| --- | --- | --- | --- | --- |
| Promotion | `py/promote.py`, `.github/workflows/promote.yml` | states reached, staged release, read-back, outcome, receipts; the host's pointer, directories and loaded tree (external) | dispatch, admission, review, tip check, `fetch` … `accept`, `_stop`, rollback | modelled |
| Live verification | `py/live_verify.py` | none; judges a baseline and a read-back | `verify` and its six conditions | conditions 1–5 and identity in `LiveVerify`, 6 in `Promotion` |
| Receipt | `py/receipt.py` | the receipts filed | `build_receipt`, `receipt_findings` | the building in `Promotion`, `Drift` and `LiveReceipt`, the whole re-check of an accepted receipt in `LiveReceipt` |
| Drift | `py/drift.py`, `py/cli.py` 466–493 | none; compares desired, live and receipt | `compare` | modelled |
| Private inventory supersession | `private-inventory-supersede.yml`, `py/validate.py` 2647–3397, `py/cli.py` 123–371 | store versions, working files v1, v2, kv version, expected digest | read, classify, apply or migrate, resolve, write with cas, read back | modelled |
| Private inventory discovery | `private-inventory-discover.yml` | the report | version, shape and digest | modelled |
| Loading, semantic validation | `py/validate.py` 219–1950, `contracts/` | the contract on protected main | `load`, `semantic_findings` | routing, target, datasource, exposure, syslog and rejection gates in `Routing`, `Resolution`, `Exposure`, `SyslogContract`, `Ingestion` |
| Resolution | `py/validate.py` 2062–2460 | none; joins the contract and the private inventory | `resolution_findings`, `resolve` | `Resolution`, `Contract`; names only in `InventoryDocuments` |
| Model | `py/model.py` | frozen dataclasses | none | the fields that are read |
| Render, YAML | `py/render.py`, `py/yaml_emit.py` | none | `render_control_plane`, `tree_digest` | the files of scraping, routing, datasources, exposure and syslog as their readers see them; a whole tree is an opaque value |
| Ingestion contract | `py/ingestion.py` | none | `classify`, `integrity_state`, `compare_rebuild` | `classify` and its gates in `Ingestion` |
| Attribution envelope | `py/attribution.py` | redaction vault | verdicts, projection, rotation interlock | `Attribution`; the vault is one refusal |
| Attribution enumerators | `py/attribution_enumerators.py` | per-family ledger and budget | eleven walks, degradations | modelled |
| Command line | `py/cli.py` | none | commands | all but `verify` and the scans, each with its component |
| Runner checks | `scripts/require_runner.py`, `scripts/verify_runner_token_boundary.py` | none | one query | as a way `Review` ends |
| Rotation proof | `scripts/rotation_proof.py` | names, inodes, a writer (external) | prepare, write, rotate, reopen; four negative controls | modelled |
| Scans for secret and private material | `py/validate.py` 2466–2612 | none | pattern matching | not modelled |
| CI, standards, diagnostic workflows | `.github/workflows/` | none | run checks | not modelled |
| Fleet agent, inventory, routing, bundles, templates, deploy | `fleet/`, `inventory/`, … | data | none | not modelled |

### How they interact

* **Workflow and executor.** `promote.yml` serialises runs with a concurrency group of one
  running and one pending run; a review happens *inside* the group, so the tip of main moves
  while a run waits. The job compares its commit with the tip and then the executor, a sequence
  of eight facility calls, decides.
* **Executor and facility.** The facility is a Python `Protocol`: each call returns, refuses,
  raises, or is cut off by the job's `timeout-minutes`, before or after it changed the host. The
  executor never sees the host; it sees `StagedRelease`, the read-back and exceptions. *Today no
  implementation of the Protocol is installed*: `promote.yml` stops at its step "Refuse until the
  promotion facility exists" (line 271), and `promote()` has no caller outside the tests. The model is of
  the executor with a facility that keeps the contract.
* **Executor and the past.** `previous_digest` comes from the last accepted receipt, while the
  rollback target comes from `stage()`. Nothing forces the two to agree.
* **Verification and evaluator.** The integrity condition compares two documents taken at
  different times over counters of a process that may restart in between.
* **Workflow and store.** The supersession checks a content digest when it reads and a KV
  version (`cas`) when it writes. An operator writes to the same secret with neither.
* **Operator and promotion.** `drift` takes three files, each made when somebody got to it. Nothing
  ties the reading of the host to the receipt or to the checkout.
* **Enumerators and host.** Eleven walks go over one host through a read-only seam, a call at a
  time; the host changes meanwhile, and every call may be refused, find nothing, or find too much.
  Facts that degrade other families are looked for after the last walk. Three documents follow one
  another: observation (private), envelope (public), the interlock's answer.
* **Pull requests, operator and render.** The two halves of the desired state are validated apart: a
  pull request with the public gates alone, the inventory by nothing but its schema. A render takes a
  checkout and then the private document, and is the first to see the pair.
* **Proof script, writer and logrotate.** The script logs a canary, rotates, logs another and looks at
  names with deadlines, while a daemon it started and the `logrotate` it called work on inodes.
* **Reviewer and store.** A request is written against what discovery printed, reviewed,
  merged, and applied any time later.

### What is hard, and what makes each part correct

* *Promotion*: calls that fail half-way, runs that vanish, overlapping dispatches, a host changed
  by hand. Correct when what a receipt says of the host is true, when a promotion that cannot put
  the host back says so, and when accepted trees form a chain.
* *Live verification*: absence that looks like health (a reset counter, a dead prober, an empty
  section, a rehearsal host's document). Correct when a met condition implies what it is for.
* *Supersession*: lost updates, requests applied twice, truncated writes, responses lost after
  the write landed. Correct when the store is a register that a request changes once, from
  exactly the document it was reviewed against.
* *Drift*: a verdict on a host in the middle of things, against a receipt that may be older than
  the host's last change. Correct when agreement is of the host with a deployment, and when the pair
  that blames a change outside promotion has a cause.
* *Attribution and enumerators*: partial scans that must never read as "looked and found nothing";
  lower bounds that must never read as totals; documents counted twice that must agree.
* *Contract and resolution*: two documents that change apart, gates in four functions and lookups
  without a guard in two others. Correct when no pair that passes makes the renderer raise, and when
  what the release does is what the contract says, which is a claim about Prometheus, Alertmanager and
  the kernel reading the files rather than about the files.
* *Ingestion*: rules, vocabulary and validation, in that order. Correct when a record with forbidden
  material is refused by a rule, whatever else is in it.
* *Rotation*: a writer that holds an inode across a rename, and cannot create what is missing.
  Correct when green says something of production, and red something of the contract.

`PROJECT.json` lists the hazards line by line, with the property that covers each.

## 2. Modules

### Promotion family

| Module | What it is |
| --- | --- |
| `Promotion` | workflow, executor, facility and host |
| `PromotionRecord` | what a reader of receipts may rely on: one atomic step per promotion |
| `PromotionImplements` | the refinement mapping from the first to the second |
| `MCPromotion` | instances |
| `Promotion_proofs` | theorems |

`pc[r]` is where run `r` is; there is one action per facility call and one for each decision
between two calls, because another actor can act there. `reached`, `staged`, `live`, `previous`
and `outcome` are the executor's locals. `Raise` is the `except Exception` of `promote()`,
`Stop` is `_stop()` up to the rollback call and `Rollback` the rest. `host` is
`[pointer, loaded, store]`: the active release directory, the tree the evaluators loaded, and the
bytes of every directory. `Interrupted(r)` are the hosts that a call which did not return may have
left: for `stage()`, nothing done, the directory written, or the pointer swapped too. `Kill` is the
job's end between or inside calls; no receipt is filed. `HandEdit`, `HandUndo` and `HandActivate` are
changes outside promotion: a directory edited, the edit taken back, a pointer moved; each counts in
`hands`. `log` holds the receipts; `prior` is history: pointer, tree and `hands` as `stage()` found them.

Two properties say which change by hand they are about. `ChainUnbroken` lets a release hold an edit when
`stage()` finds it, provided somebody changed the host between that and the read-back: an edit undone in
time leaves nothing condition 6 could see. `AcceptedIsDeployed` asks for the tree the evaluators run
(`LoadedAt`) from the last moment they were surely reloaded. With a release to go back to that is the
read-back, whose rollback exercise ends in a reload. A first promotion has no such release, so an edit that
was loaded by `reload()` and undone before `observe()` is what its evaluators go on running.

Assumptions made of the facility, each from the text of `promote.py` or ADR-0010: `stage()` writes
a new directory and then swaps one pointer, and returns the pointer it replaced; `reload()` makes
evaluators take what the pointer names; a read-back is honest about tree and pointer; its rollback
record names the release restored and, or not, a digest of its bytes; a rollback record that says
`succeeded` is true. `previous_digest` is the digest of the last accepted receipt. Conditions 2–5 are
one nondeterministic bit of a read-back here (`LiveVerify` takes them apart). Digests are injective.

### Supersession family

| Module | What it is |
| --- | --- |
| `InventoryDocuments` | documents, requests, `Retirable`, `Migratable`, `Result`, `Resolves`, `Unsafe` |
| `Supersession` | store, main, discovery, operator, workflow runs |
| `InventoryRegister` | the promise: a register changed by merged requests and by hand |
| `SupersessionImplements` | the refinement mapping |
| `MCSupersession`, `Supersession_proofs` | instances; theorems |

`versions` is the KV v2 secret with who wrote each version; `main` the commits, each with the
inventory it declares and the request it merged. A run has the commit it checked out (`sha`), the
request's commit (`ask`), and the job's files: `v1`, `v2` and `kv`. The steps are `Read`
(shape, classification), `Apply` (the tools and the resolution), `Write` (`cas`) and `Confirm`
(`inventory-digest --expect`); `Break` ends a job anywhere, including after its write landed. The
operator's `Draft` and `WriteByHand` are separate steps: the write carries no `cas`. A digest is the
document it digests. An entry's content is reduced to its name and whether the accepted contract can
carry it (`mappable`). A store may keep a truncated document, `Torn`.

### Live verification family

| Module | What it is |
| --- | --- |
| `LiveVerify` | the conditions as operators over documents |
| `LiveHost` | a host with a counting, restarting evaluator, and a facility that reads it |
| `LiveReceipt` | `LiveHost` with the receipt made of its read-back, and the receipt's re-check |
| `MCLiveHost`, `LiveHost_proofs` | instances; theorems, about `LiveReceipt` too |
| `Counting` | what these and other proofs need to know of greatest members, cardinalities and sums |

A document is a record of sections, each a sequence of rows, as in `live-observation.schema.json`.
`Keyed` is Python's dict comprehension: of rows with one key the last stays. In `LiveHost` a pass
is stamped (`Begin`), reads counters one at a time (`Read`) while the host rejects samples and
restarts, and ends as the baseline (`Record`) or as the read-back that is judged (`Finish`), with
one of the `Mishaps` the comments of `live_verify.py` describe. `Worlds` are what the production host may
be like when it is read: as rendered, or different in one respect. A pass may be of a rehearsal host
instead, which was built from the same inputs: it is as rendered *whatever the production host is like*,
and only the identity tells the two documents apart. A value and its process start time are read
together, as one row of the document; a new process has a later start time. `latest.was` is history, and
always the production host; so are the readings' `was` and `rejected`.

`LiveReceipt` adds the receipt `build_receipt` makes of the read-back and of what else the promotion brings
to it (`Filings`: checks, images, digests, the run), and `Findings`, which is `receipt_findings()` in all its
parts, for any arguments it may be handed (`Handed`; `receipt-check` hands it only whether this is the first
promotion). `Declared` are the jobs that state an `expected` count, with the federations: `_expected_total`
counts no others, though condition 2 does.

### Drift

| Module | What it is |
| --- | --- |
| `Drift` | extends `Promotion` with the operator who compares |
| `MCDrift`, `Drift_proofs` | instances; theorems |

`CheckOut`, `Look` and `PickUp` fetch the tree, the reading and any filed receipt, in any order and
at any moment; `Compare` may come before all three are there. `Promote` is any step of `Promotion`,
and keeps the rule set each read-back and each receipt recorded (`seen`, `recorded`).
`rules_semantic_digest` covers groups and names, not expressions: `Names` maps a tree to them, and
a hand edit leaves them alone. `targets_up` and `routes_verified` are one bit of a reading, `up`.
`since` is history: what has touched the host since the last acceptance. What a clean report says of the
evaluators' rules is said of receipts whose run surely reloaded them after the last change by hand
(`Loaded`): a first promotion that loaded an edit which was then undone records the rules of a tree the
evaluators do not run, and three artifacts agree on it.

### Census family

| Module | What it is |
| --- | --- |
| `Attribution` | verdict, observation, envelope, requested authority, interlock, as operators |
| `Census` | the walks over a host, the degradations, and the three documents |
| `MCCensus`, `Census_proofs` | instances; theorems |

A host is a tree of places (directories, files, programs to ask), each of which fails in one of the
declared ways or holds something; a text is what the patterns find in it, and a queue that a program
lists is a place with its jobs below it. `walk` holds the locals of the family's enumerator: what is
still to be visited, what was found, the errors, and the ledger. `List`, `Read` and `Run` are one call
of `HostSource` each, `Begin` and `Finish` the ends of a walk (`Finish` includes the walk that
raises), `Look` and `Answer` the degradations, `Change` the host's own step between any two calls;
`File`, `Project` and `Ask` make the documents. The order in which errors are noted is abstracted to
a set, and what a listing leads to is a set of calls, made in any order; of more than `MaxEntries`
entries any `MaxEntries` are kept, as a directory gives them in no order the code may count on. The refusal of a source of another contract version precedes the first step. A vault
that finds private material in the envelope is `clash`, an input of `Project` that refuses it. A digest is the document it digests.

### Rotation family

| Module | What it is |
| --- | --- |
| `SyslogContract` | the bundle's syslog section, its gate, and the tmpfiles, logrotate and rsyslog files the renderer makes of it |
| `SyslogHost` | the host: names and inodes, `rsyslogd`, `logrotate` (external, as the repository's files and comments use them) |
| `Rotation` | `prove()` and `main()` of the proof script, then the production host |
| `MCRotation`, `Rotation_proofs` | bundles, renderers that lost a line, CI machines; theorems |

`name` maps `mail.log` and `mail.log.1` to inodes; an inode has an owner and the messages in it. The
writer holds at most one inode (`fd`), sees a SIGHUP (`hup`) whenever it gets to it, and appends,
creates or discards what is queued. `logrotate` renames, creates and signals in three steps, and
compresses the rotation before the last at the next one. It does what the stanza it is given says, and a
stanza without `create` leaves nothing in the file's place. The proof runs the stanza alone; on the production
host it comes after the global `logrotate.conf`, which supplies a bare `create` (`UnderGlobal`), and that takes
owner and mode of the file it replaces. A renderer may lose the whole line (`"create"`) or its three
arguments (`"arguments"`). `pc` is where `prove()` is; every wait
either sees what it waits for or gives up. `control` is which of the five proofs runs. The script does not
move while `logrotate` does, and nothing is assumed of the writer, so a deadline may pass at any time. Any
program the script runs (`runuser`, `rsyslogd`, `logger`, `logrotate`) may fail for a reason of its own
(`ProgramFails`). `hindered` remembers either: a deadline that passed on a writer with work to do, or a
program that failed. Production's `logrotate` is taken to do what its stanza says. `Deploy` is the promotion of a commit whose
job is green; after it come boots, timers, service restarts, messages, and somebody who removes the file.
CI proves the rendering of the *reference fixture* (`.github/workflows/ci.yml:304`), while production
gets that of `inventory/bundle.toml`: what is claimed of production is claimed where the two agree
(`declared = reference`).

### Contract family

| Module | What it is |
| --- | --- |
| `Rows` | tables read into a dict by a column: of rows with one key the last stays |
| `Routing` | the routing gate, the Alertmanager file, and Alertmanager (external) |
| `Exposure` | the exposure gate, the firewall fragments, and the kernel (external) |
| `Resolution` | the target and datasource gates, `resolution_findings()`, `resolve()` and what is rendered of it |
| `Ingestion` | `classify()`, and the gates that run it over planted material and a positive control |
| `Contract` | the two halves changing apart, and a render that takes one and then the other |
| `MCContract` | one contract and one inventory that agree, and what a change may make of each document |
| `Contract_proofs` | theorems |

`main` and `stored` are the halves. `Merge` changes one document of the contract, and only to a contract
without findings; `Provision` changes one table of the inventory, and asks nothing. `Checkout`, `Fetch`
and `RenderRelease` are `_cmd_render()`, with merges and writes between them. `live` is the
last release: the pair it was made of, and its files as records. `Raising` lists every subscript, assertion
and conversion of `resolve()` and the renderer that has no guard of its own. A gate is the union of its
findings, a line for each code of the function. Values are abstracted
to what a gate or a reader tells apart: a chat id is `"number"` or not, a planted value is the set of
shapes that match it, a prefix is its family and its net, a surface's port is its name.

## 3. What the runs check

| Run | Properties | What it shows |
| --- | --- | --- |
| `promotion_safety` | `ChainUnbroken`, `AcceptedIsDeployed`, `ProvedRollbackRestores` | two runs with kills, exceptions at every call, two changes by hand and an edit by hand undone |
| `promotion_live` | `RevisionsNeverGoBack`, `FailureAfterStagingIsNamed`, `ImplementsRecord`, `DispatchedRunEnds`, `TypeOK` | the same without changes by hand: a failure after staging says why the host was not put back; a promotion is one step for whoever reads receipts; under `FairSpec`, no failure path holds the concurrency group for ever |
| `promotion_rolled_back` | `RolledBackIsRestored` (violated) | finding 1 |
| `supersession_safety` | `SingleUse`, `OnlyReviewedEntriesLeave`, `SuccessIsStored`, `ImplementsRegister`, `TypeOK` | two runs, one operator, torn writes, lost responses |
| `live_safety` | `NoHiddenRejection`, `RepairedIsRepaired`, `ReceiptCoversEveryGate`, `RepairedReceiptPasses`, `TypeOK` | a restarting host, bad read-backs, and documents of a rehearsal host; what the verdict overlooks the receipt's counts do not, and the receipt's re-check asks for exactly two things the verdict does not |
| `live_duplicate_rules` | `DeclaredRulesEvaluate` (violated) | finding 2 |
| `drift_safety` | `CleanMeansDeployed`, `NoFalseAlarm`, `DriftTypeOK` | artifacts fetched at three moments of a promotion never mix into agreement, and a host only settled promotions touched raises no alarm |
| `census_safety` | `AbsentMeansLooked`, `KnownIsTotal`, `DegradedIsUnknown`, `CustodyAddsUp`, `DischargedByItsObservation`, `TypeOK` | refusals, exhausted budgets, raising walks and one change of the host between any two calls |
| `census_silence` | `NeverASilence` (violated) | finding 3 |
| `rotation_safety` | `ProvedMeansSound`, `SoundIsRefusedOnlyHindered`, `EveryWrittenMessageIsKept`, `DiscardsOnlyWithoutFile`, `MainEnds`, `RotationTypeOK` | no broken contract or renderer is proved, a sound one is refused only when a deadline cut the writer off or a program failed; what was proved keeps production's messages across rotations, restarts and boots; the script always answers |
| `contract_safety` | `EveryLookupSucceeds`, `ScrapesAsDeclared`, `EveryBindingIsRead`, `ClaimedSeverityIsSent`, `OnlyDeclaredSourcesReach`, `RefusedByItsRule`, `ContractTypeOK` | two changes of either half, before, during and after a render |
| `contract_severity` | `SeveritiesLand` (violated) | finding 4 |

### Bounds, and why they are enough

* `Runs = {r1, r2}`: one running and one pending run is what the concurrency groups allow, so two
  runs exercise every overlap of two; a third only supersedes. `RunSymmetry` is used for safety
  and never for liveness. One run is enough for the violation.
* `MaxRev = 1` (two commits on main): a run can be of the tip, or of a commit the tip has left.
  `MCRendered` maps two later revisions to
  one digest, for a merge that changes no byte; it matters when `MaxRev` is raised.
* `MaxHands` (2 in `promotion_safety`, 1 in `drift_safety`, 0 in `promotion_live`: the record is of promotions
  alone), `MaxByHand = 1`: changes outside the workflow, at any points; the properties speak of one between two
  events. An edit may be undone on top of that, so `MaxHands = 1` already is an edit and its undoing, at any two
  points, and `MaxHands = 2` a second change before, between or after them.
* `OngoingView` in `promotion_safety`: no action and no property of that run reads what `promote()` held in a
  run that has ended, unless the run was accepted, so states that differ in that alone are taken for one.
  (`promotion_live` has no view: its properties read what failed runs held.)
* `MaxCommits = 3`: the first commit, and two more that each merge a request or a declaration.
* `MaxNow = 2`, `Window = 1`, `MaxRejected = 3` of both counters together: room for a restart after the baseline, for the
  restarted counter to climb back to the baseline's value, and for a read-back that is too early.
  `CountersAlike` is sound: nothing names one counter, and no property of the run is a liveness property.
  `DocumentsView` takes judged states that differ only in what the host became after the documents were
  made for one: nothing happens after the judgement, and it is of the documents.
* `Worlds` has thirteen hosts and `Mishaps` six ways to read one: one per check of `verify()` that
  looks at something a host or a prober can get wrong. `live_duplicate_rules` uses the same hosts.
  `Filings` and `Handed` are thirteen things to bring (in order, or out of it in one respect, at least one for
  each finding of the re-check) and three sets of arguments, each for a first promotion and for a later one.
* `drift_safety` has one run, an accepted release before it or none, one commit that changes rules
  and one change by hand: each receipt is of the run or of the release before it, and the three
  fetches fall anywhere among the run's steps. (Two runs exceed 10 million states. What they would
  add, a run over a host a killed run left, is in `promotion_safety`.)
* Census: one directory or program per family with what tells its enumerator's branches apart in it;
  about thirty hosts, each deviating from a clean one in one respect, and `MaxChanges = 1` step to a
  neighbour, at any call. `MaxFiles = 2`, `MaxBytes = 5`, `MaxEntries = 3` are exhausted by two files
  of medium size or a directory of four. The families skipped are none or
  one, `docker`, which stands for any the operator excludes. One deviation at a time is enough because families share nothing
  but the host and the degradations, and a degradation is itself one of the deviations.

* Rotation: nine bundles (the declared one and deviations in one respect), six renderers (whole, or
  without one line, or one line's arguments, that matters) and four machines: the product is every reason a proof can fail. Two
  production messages and four inodes are enough for a message in each of `mail.log`, `mail.log.1`
  and an unlinked inode; the type invariant says that an inode is always free, so the bound is not what
  keeps messages apart. Timers, boots and restarts are not bounded.
* Contract: `MaxChanges = 2` reaches a pair that no single change makes (a job and its binding, an
  integration and its delivery), and a change between checkout and fetch. Each document has two to ten
  alternatives, at least one for each finding of its gate. The ingestion records are all those of one or two
  attributes over five names and five values, under every merged policy.

`CHECK_DEADLOCK FALSE` except in the `contract` runs: a finite set of runs that all ended is the normal
end. A contract can always be checked out again.

### Fairness

`FairSpec` of `Promotion`: `WF(Admit)`: GitHub starts a pending run
when its group is free. `WF(Review)`: a reviewer answers or the wait limit does. `WF(Execute)`: a
call returns or raises, and if it does neither, `timeout-minutes: 30` ends the job, which is `Kill`
and part of `Execute`. Nothing is assumed of merges, dispatches or changes by hand.

`FairSpec` of `Rotation`: the script is a sequential process (`WF(Prove \/ Main)`) and the `logrotate` it
called returns (`WF(Logrotate)`). Nothing is assumed of the writer: that it never answers is what the
deadlines are for, and `MainEnds` holds without it.

## 4. What is proved

TLAPS checks these for every value of the constants that satisfies the named assumptions, hence
without the bounds above: `MaxRev`, `MaxHands`, `MaxCommits`, `MaxByHand`, `MaxNow`, `MaxRejected`,
`MaxChanges` and the census's budget are any naturals, and the sets of runs, counters, documents,
hosts, bundles and renderers are any. What the assumptions ask:

* `PromotionAssumption`, `NoneAssumption`, `SupersessionAssumption`, `NamesAssumption`: `None`, the
  operator and the initial release are none of the values they are told apart from; no commit renders
  a tree that somebody edited by hand.
* `VerifyAssumption`, `HostAssumption`, `WorldAssumption`, `DeclaredAssumption`: the hosts include the one
  as rendered, the production host is no rehearsal; rows have the columns of
  `live-observation.schema.json`, and a path is one file; a declared count is one condition 2 expects;
  a bundle has a gate (`contracts/bundle.schema.json:575`).
* `CensusAssumption`: a host has finitely many places; what lies below a place is only there when the place
  is; what a family names, and what a text refers to, are lists; the two unit families name no file. What a
  family names and lists are places with nothing above them, each named once: the tables of
  `attribution_enumerators.py` repeat none, and of two directories one inside the other
  (`/var/spool/cron` and its `crontabs`, `:676-692`) each is a root of its own.
* `RotationAssumption`: finitely many inodes, four at least; a bundle has finitely many files.
* `ContractAssumption`: both halves have the sections and columns their schemas require.

### Promotion

| Theorem | Argument |
| --- | --- |
| `Promotion_proofs!TypeCorrect` | `TypeOK` alone is not inductive: that `Append` stays a prefix of `STATES`, and that `staged` and `live` are there when they are read, needs `Held`, which says for each `pc` how many states were reached and which locals exist |
| `…!AcceptedRevisionsNeverGoBack` | `RevisionsInv`: at most one run holds the group; the revision of an executing run that passed the tip check is no less than any accepted one. The tip only grows, and the check happens while the group is held |
| `…!ProvedRollbackRestoresThePriorRelease` | `Captured`: from `stage()` on, `staged[r].previous` is the pointer `prior[r]` recorded, across every exit of `_stop` |
| `…!FailuresAfterStagingAreNamed` | a failed outcome without a finding is filed only by the branch of `Stop` that has nothing staged |
| `…!AcceptedReleasesAreDeployed` | `DeployedInv`: with one holder of the group, the evaluators of a run that is about to observe run what the active release holds (`Fresh`) if nobody changed the host since its `stage()`; a read-back finds them so when that is still the case, or when it came back from an exercised rollback (`Surely`). Until the verdict is acted on, a host nobody changed since still has the tree that was read back |
| `…!AcceptedChainIsUnbroken` | `ChainInv`: a run that has not staged owns no directory and nobody rolls back to it (`Unstaged`); an accepted receipt is the last thing its run does (`Settled`); while a run holds the group, nothing is accepted behind its `previous_digest` (`Offered`); a directory only ever holds what it was written with or an edit of that (`Bytes`), so the one a run replaces holds at any later moment what `stage()` found there, unless the count of changes by hand has moved (`Kept`, `Replaced`). A read-back that agrees with the digest offered is of a directory that was written so, and unless the count moved between the two, `stage()` found it so |
| `…!ReceiptsImplementTheRecord` | step simulation of `PromotionRecord`, under `MaxHands = 0`, which the abstract record is about (run `promotion_live` has the same). `RecordInv` = `OneHolder`, `Captured`, `Filed` (a run that filed has ended, so it files once) and `Active` (from the swap to the receipt the run's release is the active one). Only the steps that file a receipt or end the job map to a step of the record; stage, reload and rollback before the receipt are stutters |

### Supersession

| Theorem | Argument |
| --- | --- |
| `Supersession_proofs!SupersessionTypes` | from `SupersessionInv` |
| `…!NoLostUpdate` | step simulation of `InventoryRegister`. `SupersessionInv` adds to the types what each job's files hold: `v1` is the document of version `kv`, `v2` is `Result` of `v1`, and `v1` is the digest the request names. `cas` makes `kv` the last version when the write is accepted, so the write replaces exactly the reviewed document; the other steps stutter or are `Merge` or `ByHand` |
| `…!RequestsAreSingleUse`, `…!OnlyReviewedEntriesEverLeave` | `HistoryInv` looks back at the versions: each one a run wrote is `Result` of the version before it, or `Torn`, and the run's request stood there (`Written`). `Result` raises the document's version (lemma `ResultRaises`), so between two writes by hand no document comes back (`Climbing`), and a request names one document by its digest |
| `…!SuccessIsTheStoredResult` | an action property: a run only ends in success from `Confirm`, after the digest it read back is that of its own `v2`; `Granted` and `Landed` tie the run to the version it wrote |

### Live verification and receipt

| Theorem | Argument |
| --- | --- |
| `LiveHost_proofs!HostTypes` | from `HostInv` |
| `…!MetMeansNoneRejected` | `HostInv`: any two readings of one counter with one process start time differ in value exactly as the numbers of rejected samples did, and so does a reading from the counter itself as long as its process runs; no reading is of a process later than the running one. `Keyed` picks a reading of the counter it is asked for (lemma `KeyedReading`), so equal values and start times mean that nothing was rejected in between |
| `…!RepairedMeansAsDeclared` | `Filed`: what is judged is what some pass, with some mishap, made of some host. What it is made of is the production host only in a document of that host, which the identity findings establish first. Each condition that is met excludes every mishap that empties the section it reads (`MetTree`, `MetProbe`, `MetSlot`), so what it says of the document it says of the host: also of the targets, whose number per job condition 2 compares, and of one healthy rule for each declared name |
| `…!ReceiptsCoverEveryGate` | a rule of a declared name that fails to evaluate is a row of the read-back; fewer rows are then `ok` than there are rows (lemma `UnhealthyIsCounted`, a fact of cardinalities), which is what the re-check compares |
| `…!RepairedReceiptsPass` | an equivalence. What is out of order, a rule that is not `ok`, and a lost previous release each are a finding by its definition. For the converse: of a read-back that is judged repaired, each list the re-check counts is one the verdict looked at row by row, and there is one row at least: a gate, a route, a release. The counts of the declared jobs are those of the classes their rows fall into, and sum to the rows (`SumOfTheClasses`) when no job is without one |

### Drift

| Theorem | Argument |
| --- | --- |
| `Drift_proofs!DriftTypes` | from `DriftInv` |
| `…!CleanIsDeployed` | `DriftSpec` implements `Spec` (lemma `DriftImplementsPromotion`), so the invariants of promotion hold of it. `DriftInv` adds that a run which read its own tree recorded that tree's rules (`Observed`, if it surely found the evaluators reloaded), and so did the receipt of an accepted one (`Truthful`, under `Loaded`); the three artifacts stay as they were fetched (`Fetched`), and three agreeing pairs leave one tree |
| `…!NoAlarmWithoutCause` | `Untouched`: while nothing has touched the host since the last acceptance, pointer, directory and evaluators are as the receipt recorded; while one run has, what it is to be rolled back to is (`Marked`: a run counts from its `stage()` on). A reading says which of these it was made under, so it agrees with the receipt whenever it was fetched |

### Census

| Theorem | Argument |
| --- | --- |
| `Census_proofs!OnlyItsObservationDischarges` | `Filed`: an envelope was projected from the observation that was filed when it was, and an answer is that of the pair it was asked about |
| `…!DoubtIsNeverATotal` | `Walked` and `Noted`: a report's errors contain the ledger's of its walk, and those of every degrading path found so far, whichever family it is and whenever it was found; a family with errors, or one that was skipped, is `UNKNOWN` |
| `…!AbsentWasLookedFor` | `Looking`: as long as a walk has found nothing and missed nothing (`Clear`), every place of the family's territory that was there all along is behind it, and was looked into, or a call still to be made leads to it (`Covered`). What makes a walk less than clear does not go away (`NoteTally`, `ExhaustTally`, `CountTally`): a refused call, a budget that runs out at any call, a listing cut short, a variable where a DSN could be. The places are a tree, so the directory above a steady place is steady too, and listing it leads there |
| `…!EnvelopesAddUp` | `Balance`: a walk and a family that is done say of each consumer whose it is or that nobody's is known, also when the walk raised, was cut short or was never made; `Books`: so does the observation, whose totals are the sums over the families (`SumAdds`), and the one under the contract before it, which is all `Project` may publish |
| `…!TotalsMissNothing` | a bound from both sides. `Ordered`: at most one call ahead leads to a place (`Once`), since what a listing leads on to takes the place of the listing and each entry leads to other places (`EntryLeads`); so a walk comes by a place once. `Reckoning`: as long as nothing went wrong (`Clean`), of any places that were there all along, what they hold and are behind the walk (`Booked`) is at most what it counted and what is still due of the files its units mention (`Due`), and exactly that while nothing changed. A change only takes places out of those it is said of (`ChangeReckons`). At the end nothing is ahead and nothing is due, and what is booked is the property's sum (`TotalIsBooked`) |
| `…!CensusTypes` | from all but the last of the above: `TypeOK` says of the ledger and the outcomes what `Balance` needs, and of the verdict what `Filed` does |

### Rotation

| Theorem | Argument |
| --- | --- |
| `Rotation_proofs!RotationTypes`, `…!AcceptedMeansSound` | `Proving`, by phases of `prove()`: until the rotation the writer's descriptor is that of `mail.log` (`Opened`); once its canary was seen the file is one it may append to (`Answered`); a writer that is not told to reopen holds on to what it opened while `mail.log` is another file (`Unreopened`); a rotation compressed at once leaves no last rotation (`Compressed`, `Turned`); after the first canary nothing is left to write, so without a `create` there is no `mail.log` to be found (`Remade`). `Verdict`: the job goes on from a control only when its verdict was the right one |
| `…!RefusedOnlyHindered` | `Smooth`: on a sound contract, before any deadline ran out on a writer with work to do and while no program failed (`Fit`), the writer answers everything (`Answering`), logrotate moves, creates and signals in this order (`Rotating`), the second canary goes to the new file (`Settled`); so no check of `prove()` can fail |
| `…!DiscardsWithoutFile`, `…!WrittenIsKept` | `HostInv` on the host that gets what was proved: whatever file is there is one the writer may append to (`Appendable`); while the writer still holds the last rotation, `mail.log` is empty, and `notifempty` keeps logrotate from rotating again (`Followed`): without this the second rotation would unlink what is still being written |

### Contract

| Theorem | Argument |
| --- | --- |
| `Contract_proofs!LookupsSucceed` | a fact of predicate logic about `Findings` and `Raising`, for any contract and inventory whatever: one lemma for each kind of lookup, which names the finding that its failure would have been |
| `…!ContractTypes` | from `Rendered` |
| `…!ScrapesAreDeclared` | `Rendered`: each half keeps the columns it was loaded with (`IsJobs`, `IsTargets`), a render holds two such halves, and the last release is what `Render` makes of a pair that passed all gates. Then `Get` answers with a row that has the key (`GetIsARow`), names of jobs are unique, a published job has no binding, and a datasource's target has one job, so the last job by target is the one whose scrape is declared |
| `…!BindingsAreRead` | in a table that names nothing twice `Get` answers with the row itself (`RowItself`), and `RESOLUTION-UNUSED` leaves no row that nothing asks for; a receiver's credential is cited by one integration (`CitedOnce`) and so used by one (`CredentialsAreUsedOnce`) |
| `…!ClaimedSeveritiesAreSent` | `Taken` is the first route that matches; the gate asked of every route that names a severity that its receiver delivers, with a binding (`RowOfKey`) |
| `…!OnlyDeclaredAreLetIn` | the lines of a fragment are a flattened sequence of blocks, about which nothing can be said by induction. `BlockOf` numbers the lines of one surface's block, `LinesOfItsPort` says that no other block has its port, and `BlockDecides` finds the first line of the block that decides of a packet (`LineDecides`), for each exposure |
| `…!RefusalsNameTheirRule` | an action property: `classify()` answers with the first rule that bites (`FirstBiteIs`, on the least number of a finite nonempty set, `LeastOf`) before it asks whether an attribute fits |

Some properties carry a hypothesis of their own, and the theorem has it because the property does:
`EveryBindingIsRead` is of pairs that name nothing twice, `OnlyDeclaredSourcesReach` of surfaces with one
name each and a fragment that loads, `RefusedByItsRule` of policies that give no rule the name of a
built-in refusal, `EveryWrittenMessageIsKept` of hosts where the bundle that was proved is the declared one.
Section 5 lists what the code does outside them.

### Counting

A theorem with an operator for a parameter cannot be instantiated here, so there is no induction over data.
`Counting` does without: an induction over the subsets of a finite set is an argument about the smallest
one that is an exception (`Smallest`, from `WFMin` over the strict subsets). `FoldFunction` unfolds to the
sum it chooses (`FoldIsSum`), which exists and is unique (`SumExists`, `SumIsUnique`), is taken in any
order (`SumWithout`), and adds up (`SumAdds`): over disjoint sets (`SumOfBoth`), over fewer to no more
(`SumOfFewer`), and along two lists one after the other (`SumAlong`). The greatest member of a set of row
numbers (`GreatestOf`) is what `Keyed` and `Get` come to: of the rows with one key, the last.

### Only model-checked

* `DispatchedRunEnds` and `MainEnds`: liveness under fairness, with ENABLED beyond TLAPS.
* The properties of the four runs that expect a violation, which the code refutes.


## 5. Findings

1. **A rollback that failed is recorded as rolled-back** (`py/promote.py:573`). `_stop()` looks only
   at whether the read-back has a rollback record. Its docstring says the outcome stays `failed` when
   the rollback did not complete.
2. **Of two loaded rules with one name only the last is looked at** (`py/live_verify.py:591`). A
   declared gate that fails to evaluate is hidden by a product rule of the same name.
   (`ReceiptCoversEveryGate` shows that the receipt's own re-check refuses the receipt; `promote()`
   does not run it.)
3. **A drop-in that starts what a variable names is a silence** (`py/attribution_enumerators.py:785`).
   `_systemd_dropin()` notes no `dynamic` error and follows no `EnvironmentFile=`, as `_units()` does;
   the family reads ABSENT.
4. **A critical alert can be routed nowhere with every gate green** (`py/validate.py:1082`).
   `_routing_findings()` asks that some route names each severity and that its receiver delivers. It looks
   neither at the routes ahead of it, though `routing/policies.toml:54` says that the first match
   wins, nor at what else such a route asks for. `ClaimedSeverityIsSent` is what the gates do
   give: an alert taken by a route that names its severity is sent.

Met while reading, below what a run is for:

* A `stage()` that raises after its swap is not rolled back (`py/promote.py:358`): `STAGED` is appended
  after the call, so the executor holds, as the module's docstring does (line 41), that nothing on the host
  has changed. `ChainUnbroken` and `ProvedRollbackRestores` hold over such hosts.
* A store in the accepted format does not show that this request was applied
  (`docs/runbooks/migrate-the-capture-format.md:133`): another request's migration, or an operator's
  document, looks the same to `inventory-classify`.
* `VALIDATED`, `REHEARSED` and `VERIFIED` are appended before the results they name are looked at, so
  `states` lists a stage that was reached, not one that was passed.
* A refused precondition returns no receipt, while `promote.py:48` says one is written in every case.
* `verify()` runs outside the `try` of `promote()`: an exception in it rolls nothing back.
* `verify()` never compares the read-back's `release.current` with the release that was staged; equal
  trees are enough.
* A rehearsal is held to the production host's identity (part of condition 1), so the facility has to
  stamp its rehearsal documents with that identity. `RepairedIsRepaired` is about documents stamped with
  the identity of their own host: of two stamped alike `verify()` has nothing to tell them apart by.
* `promote()` may file an accepted receipt that `receipt_findings()` refuses: a product rule that is
  unhealthy, or a job that declares no `expected`, which condition 2 counts by its endpoints and
  `_expected_total` as nothing; a read-back whose `release.previous` is null on a later promotion
  (`promote()` looks at that of `stage()`, `promote.py:360`, and no condition at that of the read-back); or fewer
  than the six checks the schema asks of an acceptance, where `check_configuration`'s docstring
  (`promote.py:184`) names four tools and `promote()` asks only that what it returns has passed.
  `RepairedReceiptPasses` says of a host judged repaired exactly when the re-check passes, with
  `DOMAIN Declared = DOMAIN Expected` for the second case. The test
  `test_a_clean_promotion_writes_a_receipt_that_passes_its_own_validator` has none of these.
* `drift` takes the receipt it is handed and does not look at its outcome. With a rolled-back receipt
  whose rollback did not succeed (finding 1) after a reload that failed, the three artifacts agree
  while the evaluators run the older rules; `CleanMeansDeployed` is stated for accepted receipts.
* `drift` says "Something activated a release outside promotion" of a host that a killed promotion,
  or one that could not be rolled back, left as it is.
* An edit of an expression that is loaded and then undone on disk is seen by none of drift's pairs:
  the rule set's digest has no expressions in it.
* A release that was edited by hand when `stage()` replaced it, and whose edit was undone before the read-back,
  passes condition 6 (`ChainUnbroken` names the case). A first promotion accepts a host whose evaluators run an
  edit that was undone between `reload()` and `observe()` (`AcceptedIsDeployed`, `CleanMeansDeployed`): its
  read-back has no rollback to come back from, and the rule set's digest does not see it.
* `_script` passes over a script whose only sign is a `PG*` variable; `PGSERVICE` beside a DSN is
  dropped (`attribution_enumerators.py:516`); `compose.yaml` is not among the names looked for; where
  `/lib` is a link to `/usr/lib` each unit is counted twice (`KnownIsTotal` counts by path).
* Discovery prints no digest for a capture, though the migration runbook takes it from there.
* `private-inventory-supersede.yml` does not reassert the tip of main; `promote.yml` does.
* A runner that was idle when `require_runner.py` asked may be gone when the job is queued; the job
  waits. A zero baseline, and a gate window in `ms`, `w` or `y` (`contracts/bundle.schema.json:70` admits
  them), are refused at every promotion. All three fail closed.
* The gate "the syslog contract can actually be satisfied" (`py/validate.py:1331`) passes a file owned by
  root, which the writer cannot open. Only the rotation proof refuses it, and only of the reference
  fixture.
* `_logrotate()` says its stanza "removes the dependency on a file that may not be there"; `missingok` makes
  logrotate skip a file that is not there, so it is the boot that restores it (`DiscardsOnlyWithoutFile`).
* `rotation_proof.py` leaves the `rsyslogd` it started running when it finds it confined; its docstring says it is
  killed at the end. A negative control whose socket never appears counts as a refusal. The docstring says
  "three more times"; there are four controls.
* A directory the writer's group may write to, with that group as the file's, makes the first negative control
  pass: the writer creates the very file the contract declares. `main()` reports it (`ProvedMeansSound`
  names the case).
* Rows of the private inventory with one `target_id`, `name` or `credential_ref` overwrite each other and
  no gate mentions it: the shadowed binding is the stale entry that `RESOLUTION-UNUSED` is about.
  Two receivers of one name pass the gate, and Alertmanager refuses them. `EveryBindingIsRead` is
  about inventories and contracts that name nothing twice.
* `_exposure_rules()` writes every prefix of a binding into the fragments of both families, so an IPv4 prefix
  under a `dual_stack` surface makes `ip6tables-restore` refuse the whole fragment
  (`OnlyDeclaredSourcesReach` is conditional on a fragment that loads). A surface declared for one
  family has no rule in the other, where the chain's policy is to accept.
* No gate refuses two surfaces on one port, where the first one's rules decide.
* In `DOCKER-USER` a packet carries the container's port; the fragments match the surface's. The model takes
  the two to be one.
* `_structurally_safe()` speaks of a strict shape, and `printable_short` is one of them: an attribute of that shape is
  exempt from every value-shape rule. Planted material is only ever classified as a log record.
* `integrity_state()` has no process start time: a counter that was reset and climbed back reads `STABLE`.

## 6. Not modelled, and why

Text (YAML, findings, pattern scans, the emitter) has no behaviour beyond its tests. Of rendering, the
compose, Loki, Promtail, alert rule, dashboard and plugin files are copies of inventory fields into a
fixed layout; what is modelled are the files where two inputs are joined or another program decides
by order. Of the gates, those about the roster's owners, verification gates, resource identity, streams,
deadman, retention and projections compare fields of one document with one another, and
`retirement_findings()` looks for words in rendered text. Loading turns TOML into dataclasses after a
schema check. Inhibitions, grouping and timing of alerts are left out of `Routing`; scheme, path, parameters and
labels of a scrape out of `Resolution`; upper and lower case of attribute names out of `Ingestion`. `integrity_state()`
and `compare_rebuild()` are single comparisons that nothing in the repository composes. Workflows
that run checks, the fleet agent's configuration and the inventories hold no state of the system.
Inside what is modelled: field values of inventory entries, digests' bytes, the JSON Schema check before
typing, and wording.

## 7. Plan

Done: `Promotion`, `Supersession`, `LiveHost`, `Census`, `Drift`, `Rotation` and `Contract`, each with its
runs; a theorem for every safety property of a passing run. Next, in this order:

1. **`Census`, refined.** An abstract `Survey` (a family is answered in one step, from some host between
   its first call and its last) with `Census` refining it; `Looking` and `Reckoning` are most of what its
   proof needs.
2. **Promotion with hands.** A record that allows a change by hand between two promotions, and the
   simulation without `MaxHands = 0`.
3. **Breadth.** The rehearsal's and rollback's digests in `LiveVerify`; grouping and inhibition in `Routing`.

----------------------------- MODULE MCLiveHost -----------------------------
(***************************************************************************)
(* A host with one job, one gate over two counters, one route and two       *)
(* surfaces, which deviates from what is declared in one respect at a time. *)
(***************************************************************************)
EXTENDS LiveReceipt, TLC

CONSTANTS dropped_total, late_total

\* Nothing tells one counter from another.
CountersAlike == Permutations(Counters)

\* The judgement is of the two documents: once both are there, states that differ
\* in what the host has become since are one state.
DocumentsView ==
    <<pass, baseline, latest, IF latest = None THEN <<now, started, count, rejected>> ELSE None>>

MCTree == "prometheus.yml" :> "d1"
MCExpected == "node" :> 2
MCRoutes == "page" :> "oncall"
MCSurfaces ==
    {[name |-> "loki", kind |-> "container_published", family |-> "dual_stack",
      exposure |-> "loopback"],
     [name |-> "site", kind |-> "host_service", family |-> "ipv4", exposure |-> "public"]}

Up == [job |-> "node", health |-> "up"]
Gate(group, health) == [group |-> group, name |-> "Ingest", health |-> health]
Drop(chain) == [chain |-> chain, action |-> "drop"]
MCAsRendered ==
    [previous |-> "release-0",
     tree |-> <<[path |-> "prometheus.yml", sha256 |-> "d1"]>>,
     targets |-> <<Up, Up>>,
     rules |-> <<Gate("control-plane-meta", "ok")>>,
     routes |-> <<[identifier |-> "page", receiver |-> "oncall"]>>,
     pages |-> TRUE,
     guard |-> <<"loki", "ipv4">> :> Drop("DOCKER-USER") @@
               <<"loki", "ipv6">> :> Drop("INPUT") @@
               <<"site", "ipv4">> :> [chain |-> "INPUT", action |-> "accept"] @@
               <<"site", "ipv6">> :> [chain |-> "INPUT", action |-> "accept"]]

MCWorlds ==
    {MCAsRendered,
     [MCAsRendered EXCEPT !.previous = None],
     [MCAsRendered EXCEPT !.tree = <<[path |-> "prometheus.yml", sha256 |-> "d0"]>>],
     [MCAsRendered EXCEPT !.tree = @ \o <<[path |-> "stale.yml", sha256 |-> "d0"]>>],
     [MCAsRendered EXCEPT !.targets = <<Up, [Up EXCEPT !.health = "down"]>>],
     [MCAsRendered EXCEPT !.targets = Append(@, Up)],
     [MCAsRendered EXCEPT !.routes = <<[identifier |-> "page", receiver |-> "nobody"]>>],
     [MCAsRendered EXCEPT !.pages = FALSE],
     [MCAsRendered EXCEPT !.rules = <<Gate("control-plane-meta", "err"), Gate("product", "ok")>>],
     [MCAsRendered EXCEPT !.rules = <<[Gate("product", "err") EXCEPT !.name = "Theirs"], @[1]>>],
     [MCAsRendered EXCEPT !.guard[<<"loki", "ipv6">>] = Drop("DOCKER-USER")],
     [MCAsRendered EXCEPT !.guard[<<"loki", "ipv6">>].action = "accept"],
     [MCAsRendered EXCEPT !.guard[<<"site", "ipv4">>] = Drop("INPUT")]}

MCMishaps == {"none", "dead-on-ipv6", "expects-what-it-sees", "ipv4-only", "claims-delivery",
              "no-tree"}

\* What promote() brings, and a deviation from it in each respect.
AsPromoted ==
    [validation |-> [name \in Checks |-> TRUE], images |-> <<"i1">>, plan |-> "p1",
     execution |-> "e1", rendered |-> "d1", run |-> "run", shaped |-> TRUE, private |-> FALSE]

MCFilings ==
    {AsPromoted,
     [AsPromoted EXCEPT !.validation = [name \in Checks \ {"secret_scan"} |-> TRUE]],
     [AsPromoted EXCEPT !.validation["secret_scan"] = FALSE],
     [AsPromoted EXCEPT !.images = <<>>],
     [AsPromoted EXCEPT !.images = <<"i1", "i1">>],
     [AsPromoted EXCEPT !.images = <<"i2">>],
     [AsPromoted EXCEPT !.plan = "p2"],
     [AsPromoted EXCEPT !.execution = None],
     [AsPromoted EXCEPT !.execution = "e2"],
     [AsPromoted EXCEPT !.rendered = "d2"],
     [AsPromoted EXCEPT !.run = None],
     [AsPromoted EXCEPT !.shaped = FALSE],
     [AsPromoted EXCEPT !.private = TRUE]}

\* The receipt-check command's hand, a full one, and one with the other verdict.
MCHanded ==
    UNION {{[first |-> first, verdict |-> None, images |-> None, plan |-> None,
             execution |-> None, rendered |-> None],
            [first |-> first, verdict |-> "deployed_repaired", images |-> {"i1"},
             plan |-> "p1", execution |-> "e1", rendered |-> "d1"],
            [first |-> first, verdict |-> "rendered_guarded", images |-> None, plan |-> None,
             execution |-> None, rendered |-> None]} : first \in BOOLEAN}
=============================================================================

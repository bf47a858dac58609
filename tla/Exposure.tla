------------------------------ MODULE Exposure ------------------------------
(***************************************************************************)
(* Who may reach a port: the bundle's surfaces and source sets, the         *)
(* firewall fragment of each address family, and the kernel that reads it,  *)
(* which is external.                                                       *)
(*                                                                         *)
(* A surface's port and protocol are its name.                              *)
(* A prefix is [family, net], and an address is the prefix it lies in.      *)
(***************************************************************************)
EXTENDS Rows

\* The exposure part of _bundle_findings().
ExposureFindings(desired) ==
    LET surfaces == ToSet(desired.surfaces)
        ingress == {s \in surfaces : s.exposure = "ingress"}
        declared == Keys(desired.source_sets, "name")
    IN  Finding("SURFACE-NO-SOURCE", \E s \in ingress : s.allow_from = None)
        \cup Finding("SURFACE-UNDECLARED-SOURCE",
            \E s \in ingress : s.allow_from \notin declared \cup {None})
        \cup Finding("SURFACE-SOURCE-IGNORED",
            \E s \in surfaces \ ingress : s.allow_from # None)
        \cup Finding("SURFACE-PUBLIC-UNAUTHENTICATED",
            \E s \in surfaces : s.exposure = "public" /\ ~s.authenticated)
        \cup Finding("SURFACE-PUBLIC-UNEXPLAINED",
            \E s \in surfaces : s.exposure = "public" /\ ~s.explained)
        \cup Finding("SOURCE-SET-UNUSED", ~ declared \subseteq {s.allow_from : s \in ingress})

Families(surface) ==
    IF surface.family = "dual_stack" THEN {"ipv4", "ipv6"} ELSE {surface.family}

\* Mutant of ChainFor: both families of a published container are forwarded.
ChainForKind(kind, family) == IF kind = "container_published" THEN "DOCKER-USER" ELSE "INPUT"

\* _chain_for().
ChainFor(kind, family) ==
    IF kind = "container_published" /\ family = "ipv4" THEN "DOCKER-USER" ELSE "INPUT"

\* The lines of one surface.  A field that is None matches every packet.
SurfaceRules(surface, family, bindings) ==
    LET Rule(from, source, replies, verdict) ==
            [chain |-> ChainFor(surface.kind, family), port |-> surface.name, interface |-> from,
             source |-> source, replies |-> replies, verdict |-> verdict]
        closed == <<Rule(None, None, FALSE, "DROP")>>
        related == <<Rule(None, None, TRUE, "ACCEPT")>>
        binding == Get(bindings, "name", surface.allow_from)
        interface == IF binding.interface = None THEN <<>>
                     ELSE <<Rule(binding.interface, None, FALSE, "ACCEPT")>>
    IN  CASE surface.exposure \in {"none", "loopback"} -> closed
          [] surface.exposure = "public" -> related \o <<Rule(None, None, FALSE, "ACCEPT")>>
          [] OTHER -> related \o interface
                      \o [i \in DOMAIN binding.prefixes |->
                             Rule(None, binding.prefixes[i], FALSE, "ACCEPT")]
                      \o closed

\* _exposure_rules(): a block of lines for each surface, in their order; it is empty
\* where the surface is not of the family.
ExposureRules(desired, bindings, family) ==
    [i \in DOMAIN desired.surfaces |->
        IF family \in Families(desired.surfaces[i])
        THEN SurfaceRules(desired.surfaces[i], family, bindings) ELSE <<>>]

-----------------------------------------------------------------------------
(* The kernel.  iptables-restore takes a fragment whole or not at all, and   *)
(* refuses one that names a prefix of the other family.                     *)

Loads(rules, family) ==
    \A block \in ToSet(rules) : \A rule \in ToSet(block) :
        rule.source # None => rule.source.family = family

\* A published IPv4 port is translated and forwarded; the IPv6 one is held by
\* a process of the host.
Traverses(kind, family) == IF <<kind, family>> = <<"container_published", "ipv4">>
                           THEN "DOCKER-USER" ELSE "INPUT"

Decides(rule, kind, packet) ==
    /\ rule.chain = Traverses(kind, packet.family)
    /\ rule.port = packet.port
    /\ rule.interface \in {None, packet.interface}
    /\ rule.source \in {None, packet.source}
    /\ rule.replies => packet.reply

\* The first rule that matches decides, and the policy of the chain is accept.
Verdict(rules, kind, packet) ==
    LET Line(block) == SelectInSeq(block, LAMBDA rule : Decides(rule, kind, packet))
        b == SelectInSeq(rules, LAMBDA block : Line(block) # 0)
    IN  IF b = 0 THEN "ACCEPT" ELSE rules[b][Line(rules[b])].verdict
=============================================================================

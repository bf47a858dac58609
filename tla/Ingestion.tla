----------------------------- MODULE Ingestion -----------------------------
(***************************************************************************)
(* The ingestion boundary: classify(), and the part of the gate that runs   *)
(* it over planted material and over a record that must be accepted.        *)
(*                                                                         *)
(* An attribute's name is <<namespace, leaf>>.  A value is one of the named *)
(* shapes the gate can plant, told apart by what matches it.                *)
(***************************************************************************)
EXTENDS Rows

Opaque == "long_opaque_token"

\* The value_shape patterns each value matches.
ShapesOf ==
    [bearer |-> {"authorization_credential"}, cookie |-> {"cookie_pair"},
     api_key |-> {"api_key", Opaque}, session_id |-> {Opaque}, uuid |-> {Opaque},
     control |-> {}, log_level |-> {}]

Planted == DOMAIN ShapesOf

KnownShapes == UNION {ShapesOf[v] : v \in Planted}

\* The declared shape each value is well-formed for.
FormsOf == [v \in Planted |-> IF v = "uuid" THEN {"uuid"} ELSE {}]

AttributeFor(policy, signal, name) ==
    Get(SelectSeq(policy.attributes, LAMBDA a : signal \in a.signals), "name", name)

\* _matches().
RuleMatches(rule, name, value) ==
    CASE rule.kind = "attribute_name"   -> name = rule.match
      [] rule.kind = "attribute_prefix" -> name[1] = rule.match
      [] OTHER                          -> rule.match \in ShapesOf[value]

\* _structurally_safe().
StructurallySafe(attribute, value) ==
    /\ attribute # None
    /\ attribute.kind = "shape"
    /\ attribute.shape \in FormsOf[value]

Bites(policy, signal, rule, name, value) ==
    /\ RuleMatches(rule, name, value)
    /\ ~ (rule.kind = "value_shape"
          /\ StructurallySafe(AttributeFor(policy, signal, name), value))

Valid(attribute, value) ==
    CASE attribute.kind = "enum"  -> value \in attribute.values
      [] attribute.kind = "shape" -> attribute.shape \in FormsOf[value]
      [] OTHER                    -> TRUE

\* _UNKNOWN_ATTRIBUTE and _INVALID_VALUE.
BuiltIn == {"attribute-not-accepted", "attribute-value-invalid"}

\* What the vocabulary and the attribute's own validation say of one attribute.
Unfit(policy, signal, name, value) ==
    LET attribute == AttributeFor(policy, signal, name)
    IN  IF attribute = None THEN "attribute-not-accepted"
        ELSE IF Valid(attribute, value) THEN None ELSE "attribute-value-invalid"

\* The first rule that bites an attribute, or None.
FirstBite(policy, signal, name, value) ==
    LET i == SelectInSeq(policy.rejected,
                         LAMBDA rule : Bites(policy, signal, rule, name, value))
    IN  IF i = 0 THEN None ELSE policy.rejected[i].name

FirstOf(seq) == LET i == SelectInSeq(seq, LAMBDA e : e # None) IN IF i = 0 THEN None ELSE seq[i]

\* Mutant of Classify: one pass over the attributes asks both questions of each.
ClassifyInOnePass(policy, signal, record) ==
    FirstOf(FlattenSeq([i \in DOMAIN record |->
        <<FirstBite(policy, signal, record[i].name, record[i].value),
          Unfit(policy, signal, record[i].name, record[i].value)>>]))

\* classify(): None for accepted, or the rule that refuses the record.
Classify(policy, signal, record) ==
    FirstOf([i \in DOMAIN record |-> FirstBite(policy, signal, record[i].name, record[i].value)]
            \o [i \in DOMAIN record |-> Unfit(policy, signal, record[i].name, record[i].value)])

\* The part of _ingestion_findings() about attributes, rules and controls.
IngestionFindings(policy) ==
    LET attributes == ToSet(policy.attributes)
        rules == ToSet(policy.rejected)
        named == {r \in rules : r.kind = "value_shape" => r.match \in KnownShapes}
        labels == SelectSeq(policy.attributes, LAMBDA a : a.label)
        Unknown(record) == ~ Keys(record, "value") \subseteq Planted
    IN  Finding("ATTRIBUTE-UNBOUNDED-LABEL", \E a \in attributes : a.label /\ ~a.bounded)
        \cup Finding("VALIDATION-ENUM-EMPTY",
            \E a \in attributes : a.kind = "enum" /\ a.values = {})
        \cup Finding("VALIDATION-SHAPE-UNNAMED",
            \E a \in attributes : a.kind = "shape" /\ a.shape = None)
        \cup Finding("VALIDATION-OPAQUE-UNEXPLAINED",
            \E a \in attributes : a.kind = "opaque" /\ ~a.explained)
        \cup Finding("LABEL-BUDGET-EXCEEDED", policy.required + Len(labels) > policy.budget)
        \cup Finding("REJECTION-UNKNOWN-SHAPE", named # rules)
        \cup Finding("REJECTION-UNKNOWN-PROBE", \E r \in named : Unknown(r.planted))
        \cup Finding("REJECTION-UNPROVEN",
            \E r \in named : \E p \in ToSet(r.planted) :
                p.value \in Planted /\ Classify(policy, "logs", <<p>>) # r.name)
        \cup Finding("CONTROL-UNKNOWN-SHAPE",
            \E c \in ToSet(policy.controls) : Unknown(c.record))
        \cup Finding("CONTROL-REFUSED",
            \E c \in ToSet(policy.controls) :
                ~Unknown(c.record) /\ Classify(policy, c.signal, c.record) # None)
=============================================================================

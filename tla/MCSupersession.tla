--------------------------- MODULE MCSupersession ---------------------------
(***************************************************************************)
(* Small instances of Supersession: two scrape targets and a federation,    *)
(* one of the targets to be retired, and a capture that holds all three.    *)
(***************************************************************************)
EXTENDS SupersessionImplements, TLC

CONSTANTS r1, r2, r3

MCIds == {"crm", "sub"}
Rows(targets, federations) ==
    [g \in Groups |-> CASE g = "targets" -> targets
                        [] g = "federations" -> federations
                        [] OTHER -> {}]

MCInventories ==
    {[format |-> "accepted", name |-> "inv", version |-> 1,
      entries |-> Rows({"crm"}, {"sub"}), mappable |-> TRUE],
     [format |-> "capture", name |-> None, version |-> 1,
      entries |-> Rows({"crm", "sub"}, {}), mappable |-> TRUE],
     [format |-> "capture", name |-> None, version |-> 1,
      entries |-> Rows({"crm", "sub"}, {}), mappable |-> FALSE]}

MCDeclarations == {Rows({"crm"}, {"sub"}), Rows({}, {"sub"})}

Retire(shape) ==
    [kind |-> "retire", name |-> "inv", shape |-> shape,
     retire |-> Rows({"crm"}, {}), federations |-> {}]
Migrate(name) ==
    [kind |-> "migrate-capture", name |-> name, shape |-> "field",
     retire |-> Rows({}, {}), federations |-> {"sub"}]

MCChanges == {Retire("field"), Retire("data-object"), Migrate("inv"), Migrate("other")}
RunSymmetry == Permutations(Runs)
=============================================================================

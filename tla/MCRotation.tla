----------------------------- MODULE MCRotation -----------------------------
(* Bundles that differ from the declared one in one respect, renderers     *)
(* that lost one line, and machines that can or cannot host the proof.     *)
EXTENDS Rotation

File(owner, group, mode) ==
  [path |-> Mail, inside |-> TRUE, owner |-> owner, group |-> group, mode |-> mode]

Bundle(wide, files, compress) ==
  [directory |-> [wide |-> wide], files |-> files, compress |-> compress]

Good == File("syslog", "adm", "0640")
Errors == [Good EXCEPT !.path = "mail.err"]

MCBundles ==
  {Bundle(FALSE, {Good, Errors}, TRUE),
   Bundle(FALSE, {Good}, FALSE),
   Bundle(FALSE, {File("root", "adm", "0640")}, TRUE),
   Bundle(FALSE, {File("syslog", "adm", "0440")}, TRUE),
   Bundle(FALSE, {File("syslog", "adm", "0644")}, TRUE),
   Bundle(FALSE, {Good, [Errors EXCEPT !.owner = "root"]}, TRUE),
   Bundle(FALSE, {[Good EXCEPT !.inside = FALSE]}, TRUE),
   Bundle(TRUE, {Good}, TRUE),
   Bundle(TRUE, {File("syslog", "syslog", "0640")}, TRUE)}

MCRenderers == {{}, {"line"}, {"create"}, {"arguments"}, {"reopen"}, {"delaycompress"}}

MCMachines == [reach : BOOLEAN, confined : BOOLEAN]

MCTraffic == {"m1", "m2"}
MCMessages == MCTraffic \cup {CanaryBefore, CanaryAfter}
=============================================================================

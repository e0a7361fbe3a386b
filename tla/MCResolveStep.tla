--------------------------- MODULE MCResolveStep ---------------------------
(* Instances of ResolveStep for TLC. *)
EXTENDS ResolveStep

Sound    == [gate |-> "ok", builds |-> TRUE]
Broken   == [gate |-> "ok", builds |-> FALSE]
Mendable == [gate |-> "mended", builds |-> TRUE]
Bad      == [gate |-> "compile", builds |-> FALSE]

\* The build test without the rung, where an unsupported file is in conflict, too;
\* the cache and the rung, the rung and the floor without it; all three together,
\* where sides that pass do not build and a step need not end; and the build test
\* alone, where the gate passes sides it has to mend.
MCConfigs ==
  {[build |-> "file", on |-> {"cache", "rescue"}, blocked |-> TRUE, verdicts |-> {Sound}],
   [build |-> "none", on |-> {"seed", "cache", "rung", "collapse"}, blocked |-> FALSE,
    verdicts |-> {Sound, Bad}],
   [build |-> "none", on |-> {"rung", "floor", "comments"}, blocked |-> FALSE,
    verdicts |-> {Mendable, Bad}],
   [build |-> "file", on |-> {"cache", "rung"}, blocked |-> FALSE, verdicts |-> {Broken}],
   [build |-> "file", on |-> {}, blocked |-> FALSE, verdicts |-> {Mendable, Bad}]}
=============================================================================

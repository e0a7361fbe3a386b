--------------------------- MODULE MCRepairLadder ---------------------------
(* Instances of RepairLadder for TLC. *)
EXTENDS RepairLadder

MCShapes == {{}, {"brace"}, {"type"}, {"preprocessor"}, {"markers"}}

File == [lang |-> "c", units |-> 2, onesided |-> "unknown", flags |-> Flags \ {"arbitration"},
         guard |-> FALSE, tiered |-> FALSE, fits |-> TRUE, deferred |-> FALSE,
         modelround |-> TRUE, budget |-> 1, shapes |-> MCShapes]

\* A file of two conflicts in C, with and without the side picks, which need a deferral or
\* a language of fewer rungs; the guard; a time limit, with a second round; the guard and
\* the side picks, with the rounds in which the text it declined comes back.
MCJobs ==
  {[File EXCEPT !.onesided = "no"],
   [File EXCEPT !.deferred = TRUE],
   [File EXCEPT !.lang = "rust", !.shapes = MCShapes \ {{"preprocessor"}}],
   [File EXCEPT !.lang = "rust", !.units = 1, !.guard = TRUE, !.onesided = "no"],
   [File EXCEPT !.lang = "python", !.onesided = "no", !.tiered = TRUE,
                !.flags = {"arbitration"}, !.budget = 2,
                !.shapes = MCShapes \ {{"preprocessor"}}],
   [File EXCEPT !.lang = "rust", !.units = 1, !.guard = TRUE, !.flags = {"dedup"},
                !.budget = 2, !.shapes = {{}, {"type"}, {"markers"}}]}
=============================================================================

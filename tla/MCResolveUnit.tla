--------------------------- MODULE MCResolveUnit ---------------------------
(* Instances of ResolveUnit for TLC. *)
EXTENDS ResolveUnit

\* One of every way a verdict can steer the loop.
MCVerdicts ==
  {Verdict(h, {}) : h \in {{}, {"dup"}}}
  \cup {Verdict({}, {"intent_coverage"}), Verdict({}, {"verifier_model", "obligation"})}
  \cup {Verdict({}, {"preservation_heuristic", "future_obligation"}),
        Verdict({"novel"}, {"verifier_model"})}

MCAnswers ==
  {Answer(NoText, "request_failed", FALSE, FALSE), Answer(NoText, "empty", TRUE, FALSE),
   Answer(Fresh, "", FALSE, FALSE), Answer(Fresh, "", FALSE, TRUE)}
  \cup {Answer(t, "", FALSE, FALSE) : t \in Texts}

Plain == [header |-> FALSE, cap |-> NoCap, role |-> "feature", coverage |-> "high",
          exclusive |-> FALSE, strict |-> FALSE, deletes |-> FALSE,
          canonical |-> FALSE, rounds |-> 1, offers |-> {}]

\* Every mechanism is offered to one of them; the probe of the sides to one whose
\* mode may refuse the side the tests picked.
MCUnits ==
  {[Plain EXCEPT !.role = "refactor", !.strict = TRUE, !.coverage = "low",
                 !.offers = {"exact_reuse", "structural_resolve"}],
   [Plain EXCEPT !.cap = 0, !.strict = TRUE,
                 !.offers = {"structural_resolve", "combination_search", "ordered_splice",
                             "test_gated_side", "block_capture"}],
   [Plain EXCEPT !.cap = 0, !.rounds = 2, !.offers = {"combination_search"}],
   [Plain EXCEPT !.cap = 1, !.canonical = TRUE,
                 !.offers = Replays \cup {"structural_resolve"}],
   [Plain EXCEPT !.header = TRUE, !.deletes = TRUE, !.offers = Generators]}
=============================================================================

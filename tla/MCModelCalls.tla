---------------------------- MODULE MCModelCalls ----------------------------
(* Instances of ModelCalls for TLC. *)
EXTENDS ModelCalls

Three == [twopass |-> FALSE, plans |-> FALSE, parallel |-> TRUE, variants |-> FALSE,
         alike |-> TRUE, json |-> FALSE, markdown |-> FALSE, again |-> FALSE,
         want |-> 3, samples |-> 3, tries |-> 1]
Two == [Three EXCEPT !.want = 2, !.samples = 2, !.tries = 2]

\* The draws the orchestrator asks for: one sample, a batch, a retry, variants,
\* two passes with and without plans; and what configures each.  Three samples
\* queue for the two threads of the pool; two are enough for the retries.
MCSetups ==
  {[Three EXCEPT !.variants = v, !.parallel = v] : v \in BOOLEAN}
  \cup {[Two EXCEPT !.want = 1, !.again = TRUE, !.json = TRUE]}
  \cup {[Two EXCEPT !.alike = a, !.again = TRUE, !.json = a] : a \in BOOLEAN}
  \cup {[Two EXCEPT !.twopass = TRUE, !.want = w, !.plans = TRUE, !.json = TRUE,
                    !.markdown = TRUE] : w \in 1..2}
=============================================================================

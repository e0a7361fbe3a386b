--------------------------- MODULE MCCommentPass ---------------------------
(* Instances of CommentPass for TLC. *)
EXTENDS CommentPass

CONSTANTS n1, n2

\* A note all versions have, changed by a side or not; one a side brought and the
\* resolved text lacks; one whose entity is gone; one only the resolved text has.
Changed(trusted) == [at |-> Version, texts |-> "differ", overlaps |-> FALSE,
                     gone |-> FALSE, trusted |-> trusted]
Same == [Changed(TRUE) EXCEPT !.texts = "cosmetic"]
Dropped == [Changed(TRUE) EXCEPT !.at = {"current"}]
Gone == [Changed(TRUE) EXCEPT !.at = {"base", "current"}, !.gone = TRUE]
New == [Changed(FALSE) EXCEPT !.at = {"resolved"}, !.texts = "same", !.overlaps = TRUE]

Two(a, b) == [n \in Notes |-> IF n = n1 THEN a ELSE b]
MCLedgers == {Two(Changed(TRUE), Changed(TRUE)), Two(Changed(FALSE), Dropped),
              Two(Changed(TRUE), Same), Two(New, Gone), Two(Same, Same), Two(Gone, Dropped)}

MCConfigs == {[enforce |-> FALSE, blocks |-> TRUE, reopen |-> FALSE],
              [enforce |-> TRUE, blocks |-> TRUE, reopen |-> TRUE],
              [enforce |-> TRUE, blocks |-> FALSE, reopen |-> FALSE]}
=============================================================================

----------------------------- MODULE MCFileGate -----------------------------
(* Instances of FileGate for TLC. *)
EXTENDS FileGate

Plain == [braces |-> "ok", directives |-> "ok", repeats |-> FALSE, marked |-> FALSE,
          says |-> "compiles", embeds |-> FALSE, flaws |-> {}]

\* One of every kind a stage of the gate tells apart.
MCTexts ==
  {Plain, [Plain EXCEPT !.says = "wrong", !.flaws = Flaws], [Plain EXCEPT !.braces = "broken"],
   [Plain EXCEPT !.says = "garbled", !.braces = "mendable"],
   [Plain EXCEPT !.directives = "mendable", !.repeats = TRUE, !.embeds = TRUE]}

Base == [language |-> "c", tool |-> TRUE, cargo |-> FALSE, db |-> FALSE, ccache |-> FALSE,
         sides |-> FALSE, build |-> "full", tests |-> "advisory", extras |-> {}]

MCSetups ==
  {[Base EXCEPT !.tool = t, !.build = b, !.tests = g] :
     t \in BOOLEAN, b \in {"none", "full", "target", "header"}, g \in {"none", "advisory", "required"}}
  \cup {[Base EXCEPT !.db = TRUE, !.ccache = TRUE, !.sides = TRUE, !.build = b] :
          b \in {"none", "full", "target"}}
  \cup {[Base EXCEPT !.language = l, !.tool = t, !.cargo = c, !.build = "none", !.tests = "none",
                     !.extras = {"lsp", "clippy", "tests"}] :
          l \in {"python", "rust", "toml", "other"}, t \in BOOLEAN, c \in BOOLEAN}
=============================================================================

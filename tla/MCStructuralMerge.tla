------------------------- MODULE MCStructuralMerge -------------------------
(***************************************************************************)
(* StructuralMerge over small conflicts, with a few families of longer     *)
(* ones for the rules that ask for more lines.                             *)
(***************************************************************************)
EXTENDS StructuralMerge

(* Sequences of one up to n of these lines.                                *)
Upto(lines, n) == UNION {[1..k -> lines] : k \in 1..n}

Conflict(bases, currents, replayeds) ==
  [base : bases, current : currents, replayed : replayeds]

(* Every base of up to three lines, up to renaming, against every pair of  *)
(* sides of up to three lines over its lines and a new one.                *)
SmallBases == {<<"a">>, <<"a","a">>, <<"a","b">>, <<"a","a","a">>,
               <<"a","a","b">>, <<"a","b","a">>, <<"a","b","b">>}
SmallSides(lines) == Upto(lines, 3) \union {<<Blank>>}

Small == Conflict(SmallBases, SmallSides({"a", "b", "x"}),
                              SmallSides({"a", "b", "x"}))
         \union Conflict({<<"a","b","c">>}, SmallSides({"a", "b", "c", "x"}),
                                            SmallSides({"a", "b", "c", "x"}))

(* Four lines, kept or rewritten by one side and kept, rewritten or        *)
(* dropped by the other: cores with something around them, and cores in    *)
(* them.                                                                   *)
Four == <<"a", "b", "c", "d">>
Edited(new, drop) ==
  {Join(SelectSeq(t, LAMBDA l : l # "drop")) :
     t \in {[k \in 1..4 |-> e[k]] : e \in
              {f \in [1..4 -> {"a", "b", "c", "d", new, drop}] :
                 \A k \in 1..4 : f[k] \in {Four[k], new, drop}}}}

Longer == Conflict({Four}, Edited("x", "x"), Edited("y", "drop"))

(* Six lines, of which one side keeps the first.                           *)
Six == <<"a", "b", "c", "d", "e", "f">>
Cut == Conflict({Six}, {<<"a">>},
                {[Six EXCEPT ![i] = "x", ![j] = "y", ![k] = "z"] :
                   i \in {1, 2}, j \in {1, 2, 6}, k \in {3, 6}})

(* Texts that end in a newline, and sides that hold an underline of the    *)
(* divider's length.                                                       *)
Ended == Conflict({<<"a", "b", Blank>>}, {Append(t, Blank) : t \in Upto({"a", "b", "x"}, 2)},
                  {Append(t, Blank) : t \in Upto({"a", "b", "x"}, 2)})
Underlined == Conflict({<<"t">>, <<Blank>>},
                       Upto({"t", Divider, "x"}, 2), Upto({"t", Divider, "x"}, 2))

MCLines     == {"a", "b", "c", "d", "e", "f", "q", "t", "x", "y", "z", Divider, Blank}
MCConflicts == Small \union Longer \union Cut \union Ended \union Underlined
MCSeconds   == {<<"q">>, <<Blank>>}
MCTitles    == {"t", "above"}
MCSentences == {"x"}
MCRules     == {Divider, "rule"}
MCNoise     == {"c"}
MCRivals    == {{"b", "x"}}
=============================================================================

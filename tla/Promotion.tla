------------------------------ MODULE Promotion ------------------------------
(***************************************************************************)
(* What candidate mode promises, without saying how: a source branch only  *)
(* ever receives, in one indivisible step, a commit that was tested from   *)
(* exactly the commit the branch is at, and only with the consent the      *)
(* acceptance tier asks for.                                               *)
(*                                                                         *)
(* An offer is a tested candidate: rebased [from |-> c], resulting in      *)
(* [to |-> d], graded with a tier.  Landings are remembered in landed, so  *)
(* that a landing is told apart from the owner moving the branch.          *)
(***************************************************************************)
EXTENDS Naturals

CONSTANTS
    Branch,     \* the source branches
    Commit,     \* the commits a branch can point to
    Tier        \* the acceptance tiers; only "A" lands without consent

VARIABLES
    source,     \* source[b]: the commit branch b points to
    offers,     \* the tested candidates
    landed      \* the offers that were landed, and whether a human approved

vars == <<source, offers, landed>>

Offer == [branch: Branch, from: Commit, to: Commit, tier: Tier]

Init ==
    /\ source \in [Branch -> Commit]
    /\ offers = {}
    /\ landed = {}

\* A run offers what it tested.
Test(o) ==
    /\ o \in Offer
    /\ offers' = offers \union {o}
    /\ UNCHANGED <<source, landed>>

\* The indivisible landing; below tier A it takes a human's consent.
Land(o, consent) ==
    /\ o \in offers
    /\ source[o.branch] = o.from
    /\ o.tier = "A" \/ consent
    /\ source' = [source EXCEPT ![o.branch] = o.to]
    /\ landed' = landed \union {[offer |-> o, consent |-> consent]}
    /\ UNCHANGED offers

\* The owner commits to the branch or resets it.
Move(b, c) ==
    /\ source' = [source EXCEPT ![b] = c]
    /\ UNCHANGED <<offers, landed>>

Next ==
    \/ \E o \in offers' : Test(o)
    \/ \E o \in offers, consent \in BOOLEAN : Land(o, consent)
    \/ \E b \in Branch, c \in Commit : Move(b, c)

Spec == Init /\ [][Next]_vars
=============================================================================

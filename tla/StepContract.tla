---------------------------- MODULE StepContract ----------------------------
(***************************************************************************)
(* What orchestrator.run relies on when _resolve_step returns: which of    *)
(* the conflicted files were written or staged, and whether it escalated.  *)
(* RebaseLoop has a step as one action; this module has it as the writes   *)
(* and stagings it consists of, and the ways it may return.                *)
(***************************************************************************)
CONSTANTS
  File,      \* the conflicted files with units
  ShipGate   \* future.enable_ship_gate_final_probe

VARIABLES
  blocked,   \* whether an unsupported file is in conflict, too
  tree,      \* each file: with markers, written, or staged
  result     \* how the step returned

cvars == <<blocked, tree, result>>

Init == blocked \in BOOLEAN /\ tree = [f \in File |-> "raw"] /\ result = "none"

\* Written to the working tree, still unmerged in the index.
Write(f) ==
  /\ result = "none" /\ tree[f] # "staged"
  /\ tree' = [tree EXCEPT ![f] = "written"]
  /\ UNCHANGED <<blocked, result>>

Stage(f) ==
  /\ result = "none"
  /\ tree' = [tree EXCEPT ![f] = "staged"]
  /\ UNCHANGED <<blocked, result>>

\* A step that is not escalated has staged everything, or has stopped at the
\* ship gate's fresh pass with no markers left anywhere.
ReturnClean ==
  /\ result = "none"
  /\ \/ ~blocked /\ \A f \in File : tree[f] = "staged"
     \/ ShipGate /\ \A f \in File : tree[f] # "raw"
  /\ result' = "clean"
  /\ UNCHANGED <<blocked, tree>>

\* The file a step escalates at stays as it is, or has lost its markers to a probe.
ReturnEscalated ==
  /\ result = "none"
  /\ tree' \in {tree} \cup {[tree EXCEPT ![f] = "written"] :
                            f \in {g \in File : tree[g] = "raw"}}
  /\ result' = "escalated"
  /\ UNCHANGED blocked

Next ==
  \/ \E f \in File : Write(f) \/ Stage(f)
  \/ ReturnClean
  \/ ReturnEscalated

Contract == Init /\ [][Next]_cvars

=============================================================================

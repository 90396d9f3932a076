---------------------------- MODULE AtomicApply ----------------------------
(***************************************************************************)
(* What `natsvet migrate apply` promises of the tree of a module: steps    *)
(* are applied whole and break no package that built and holds a file of   *)
(* theirs; anything else that happens to the tree is done by people.       *)
(***************************************************************************)
EXTENDS MigratePlan

VARIABLE tree

Init == tree = [f \in Files |-> {}]

With(S) == [f \in Files |-> tree[f] \cup EditsIn(S, f)]

(* Steps applied by a run, or by hand: every edit of theirs, at once. *)
Commit ==
  \E S \in (SUBSET Work) \ {{}} :
    /\ tree' = With(S)
    /\ \A p \in StepPkgs(S) : Builds(p, tree) => Builds(p, With(S))

Edit ==
  \E f \in Files, m \in {Edited, Broken} :
    tree' = [tree EXCEPT ![f] = @ \cup {m}]

(* A tree that does not build is taken back to one that did. *)
Revert == ~ModuleBuilds(tree) /\ tree' \in Disks /\ ModuleBuilds(tree')

Next == Commit \/ Edit \/ Revert

Spec == Init /\ [][Next]_tree
=============================================================================

--------------------------- MODULE MCMigrateApply ---------------------------
(***************************************************************************)
(* Instances of MigrateApply: modules of two files, each in a package of   *)
(* its own, and a few pieces of work.                                      *)
(***************************************************************************)
EXTENDS MigrateApply, TLC

CONSTANTS c1, c2, pa, pb, pc, loose

MCFiles == {1, 2}
MCPkgOf == (1 :> pa) @@ (2 :> pb)

Piece(comp, kind, machine, fs, clash, fail, bad) ==
  [comp |-> comp, kind |-> kind, machine |-> machine, files |-> fs,
   alone |-> FALSE, clash |-> clash, fail |-> fail, bad |-> bad]

(* Work whose edits cannot be made in the second of its files. *)
Alone(comp, kind, fs) == [Piece(comp, kind, TRUE, fs, {}, 2, {}) EXCEPT !.alone = TRUE]

(***************************************************************************)
(* A loose site whose edits fail in the second file; one component over    *)
(* both files with a guided site, whose finish step breaks a package that  *)
(* holds none of them; a loose site the planner gets wrong, and whose      *)
(* edits lose their place in the second file when the component's site is  *)
(* applied in the same plan.                                               *)
(***************************************************************************)
MCDesc == <<
  Alone(loose, "site",           {1, 2}),
  Piece(c1, "add-handle", TRUE,  {1},    {},  1, {}),
  Piece(c1, "site",       TRUE,  {1, 2}, {},  1, {}),
  Piece(c1, "site",       FALSE, {2},    {},  2, {}),
  Piece(c1, "finish",     TRUE,  {1, 2}, {},  1, {pc}),
  Piece(loose, "site",    TRUE,  {1, 2}, {3}, 2, {pb}) >>

(***************************************************************************)
(* Two components that share a file: the first spans both files and has a  *)
(* site no step migrates, the second is safe in one commit.                *)
(***************************************************************************)
MCDesc2 == <<
  Piece(c1, "add-handle", TRUE,  {1},    {},  1, {}),
  Piece(c1, "unmapped",   FALSE, {1, 2}, {},  1, {}),
  Piece(c1, "finish",     TRUE,  {1, 2}, {},  1, {}),
  Piece(c2, "add-handle", TRUE,  {1},    {},  1, {}),
  Piece(c2, "finish",     TRUE,  {1},    {},  1, {}) >>
=============================================================================

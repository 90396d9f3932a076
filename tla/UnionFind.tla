------------------------------- MODULE UnionFind -------------------------------
(***************************************************************************)
(* Union-find, by which the planner groups handles into components         *)
(* (components.go) and sites into units (units.go).                        *)
(***************************************************************************)

(* The class of each node is kept as a set; a union joins the two classes  *)
(* that an edge names.                                                     *)
Union(C, e) ==
  LET meet == {c \in C : e[1] \in c \/ e[2] \in c} IN (C \ meet) \cup {UNION meet}

Classes(nodes, edges) ==
  LET joined[E \in SUBSET edges] ==
        IF E = {} THEN {{x} : x \in nodes}
        ELSE LET e == CHOOSE x \in E : TRUE IN Union(joined[E \ {e}], e)
  IN  joined[edges]
=============================================================================

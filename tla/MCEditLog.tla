------------------------------ MODULE MCEditLog ------------------------------
(***************************************************************************)
(* Files for EditLog: the lines of two handles, one after the other, and a *)
(* line of code that reads them.                                           *)
(***************************************************************************)
EXTENDS EditLog

MCLineEnds == {NL}

At(i) == <<"code", ToString(i)>>
MCText == <<At(1), At(2), NL, At(4), At(5), NL, At(7), WS, At(9), NL>>

Handle(start, end, create) == [start |-> start, end |-> end, create |-> create]
Site(start, end, comp) == [start |-> start, end |-> end, comp |-> comp]

(* Two components with a site each, next to each other or apart. *)
TwoComps ==
  {[text  |-> MCText,
    comps |-> [c \in {"a", "b"} |-> IF c = "a" THEN Handle(0, 3, ca) ELSE Handle(3, 6, cb)],
    sites |-> [s \in {"s", "t"} |-> IF s = "s" THEN Site(6, e, "a") ELSE Site(8, 9, "b")]] :
   ca \in BOOLEAN, cb \in BOOLEAN, e \in {7, 8}}

(* One component, a site of its own and one of nobody, on any places of    *)
(* the handle's line or of the code.                                       *)
Nested ==
  {[text  |-> MCText,
    comps |-> [c \in {"a"} |-> Handle(3, 6, create)],
    sites |-> [s \in {"s", "t"} |-> IF s = "s" THEN Site(6, 7, "a") ELSE Site(r[1], r[2], "")]] :
   create \in BOOLEAN, r \in {<<2, 3>>, <<4, 5>>, <<3, 4>>, <<7, 9>>, <<8, 10>>}}

MCLayouts == TwoComps \cup Nested
=============================================================================

------------------------------ MODULE Statements ------------------------------
(***************************************************************************)
(* What collectFlows and collectOtherUses read off the statements of the   *)
(* code: the moves of Handles.  A statement is a record                    *)
(*   form    "assign", "var", "literal", "call", "return" or "use";        *)
(*   to      the variables, names, keys or parameters it writes, in order; *)
(*   from    the expressions it writes to them, or passes or returns;      *)
(* where what is not a handle is None, and                                 *)
(*   define  :=,  block  it stands in a block of its own,                  *)
(*   callee  "legacy", "value" or "loaded",  variadic,  scope,  pos.       *)
(* `_ = x` is no statement here: it keeps x used (isPlaceholder).          *)
(***************************************************************************)
EXTENDS Handles

MoveOf(s, how, from, to) ==
  [how |-> how, from |-> from, to |-> to, scope |-> s.scope, pos |-> s.pos]

(* A handle that goes where no handle is declared. *)
Escapes(s, I) == {MoveOf(s, "other", s.from[i], None) : i \in {j \in I : s.from[j] # None}}

(* assignFlows: handle to handle, one at a time; what several values are   *)
(* assigned from is no flow.  Roots are none of these.                     *)
AssignMoves(s) ==
  LET into == {i \in DOMAIN s.to : s.to[i] # None}
      lone == Len(s.to) = 1
      how(i) == CASE ~lone /\ s.from[i] # None        -> "multi"
                  [] lone /\ s.from[i] # None /\ ~s.block -> "unplaced"
                  [] s.from[i] = None \/ (lone /\ s.block) -> IF s.define THEN "define" ELSE "assign"
  IN  IF Len(s.to) # Len(s.from)
      THEN {MoveOf(s, IF s.define THEN "define" ELSE "multi", None, s.to[i]) : i \in into}
      ELSE {MoveOf(s, how(i), s.from[i], s.to[i]) : i \in into}
             \cup Escapes(s, DOMAIN s.from \ into)

(* A var declaration: names beyond the values get none. *)
VarMoves(s) ==
  LET into == {i \in DOMAIN s.from : s.to[i] # None} IN
    {MoveOf(s, IF Len(s.to) = 1 \/ s.from[i] = None THEN "init" ELSE "unplaced",
            s.from[i], s.to[i]) : i \in into}
      \cup Escapes(s, DOMAIN s.from \ into)

(* The keyed elements of a composite literal. *)
LiteralMoves(s) ==
  LET into == {i \in DOMAIN s.to : s.to[i] # None} IN
    {MoveOf(s, "literal", s.from[i], s.to[i]) : i \in into} \cup Escapes(s, DOMAIN s.from \ into)

(* argFlows: a parameter of a loaded function is fed, by a handle or by    *)
(* something else; other handles that are passed leave the planner's view. *)
CallMoves(s) ==
  LET rest(i) == s.variadic /\ i >= Len(s.to)
      fed == {i \in DOMAIN s.from : ~rest(i) /\ i <= Len(s.to) /\ s.to[i] # None}
      passed == {i \in DOMAIN s.from : s.from[i] # None}
      how(i) == IF rest(i) THEN "variadic" ELSE "outside"
  IN  CASE s.callee = "legacy" -> Escapes(s, DOMAIN s.from)
        [] s.callee = "value"  -> {MoveOf(s, "value", s.from[i], None) : i \in passed}
        [] s.callee = "loaded" -> {MoveOf(s, "arg", s.from[i], s.to[i]) : i \in fed}
                                    \cup {MoveOf(s, how(i), s.from[i], None) : i \in passed \ fed}

ReturnMoves(s) == {MoveOf(s, "return", s.from[i], None) : i \in {j \in DOMAIN s.from : s.from[j] # None}}

StatementMoves(s) ==
  CASE s.form = "assign"  -> AssignMoves(s)
    [] s.form = "var"     -> VarMoves(s)
    [] s.form = "literal" -> LiteralMoves(s)
    [] s.form = "call"    -> CallMoves(s)
    [] s.form = "return"  -> ReturnMoves(s)
    [] s.form = "use"     -> Escapes(s, DOMAIN s.from)
===============================================================================

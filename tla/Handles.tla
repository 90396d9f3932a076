------------------------------- MODULE Handles -------------------------------
(***************************************************************************)
(* The graph of legacy handles that a plan is made from                    *)
(* (internal/migrate/components.go): which variables hold one, how values  *)
(* flow between them, which of them can get a jetstream sibling, what the  *)
(* sibling is called, and which handles migrate together.                  *)
(*                                                                         *)
(* The code is a record p, of which these definitions read                 *)
(*   handles  the declared legacy handles, see HandleType;                 *)
(*   roots    the calls that create one, see RootType;                     *)
(*   moves    every other place a handle is written or read whole;         *)
(*   sites    the other legacy uses: calls on a handle, and uses of None;  *)
(*   names    the other names declared, as records of Declaration;         *)
(*   sibs     the siblings declared so far, by handle.                     *)
(* A scope is a path: << >> is the package, <<"f">> a function (or, for a  *)
(* field, a struct), <<"f", "b">> a block in it.  A name is a pair: <<b,   *)
(* 0>> is b, <<b, 1>> is bNew, <<b, 2>> is bNew2.                          *)
(***************************************************************************)
EXTENDS Naturals, Sequences, FiniteSets, UnionFind

CONSTANT None  \* no handle: a call, a literal, a function outside the code

HandleKinds == {"local", "param", "result", "field"}

(* How a handle is declared: "inferred" names no type, "grouped" shares    *)
(* its type with other names, "valued" is a var with a type and a value,   *)
(* "fixed" is a parameter of a function type, of an interface method or of *)
(* a function that is also used as a value (declThreadable, onlyCalled).   *)
DeclForms == {"inferred", "alone", "grouped", "valued", "fixed"}

HandleType == [kind : HandleKinds, decl : DeclForms, scope : Seq(STRING), base : STRING,
               pkg : STRING, pos : Nat, vis : Nat]

(* What becomes of an option (mapOption); nc.JetStream has more of them.   *)
OptionKinds == {"mapped", "context", "unmapped", "timeout", "indirect", "unfit"}
RootOptionKinds == OptionKinds \cup {"domain", "prefix", "handler"}

(* A root: nc.JetStream, or a lookup or creation on a parent handle.  It   *)
(* is lost when it does not assign a handle and an error, or the parent is *)
(* an expression.  plain: the connection can be evaluated twice, or the    *)
(* bucket's config is a literal; checked: `if err != nil` follows.         *)
RootType(H) == [form : {"conn", "lookup", "create"}, to : H, recv : H \cup {None},
                lost : BOOLEAN, plain : BOOLEAN, checked : BOOLEAN,
                opts : SUBSET RootOptionKinds, scope : Seq(STRING), pos : Nat]

(* vis: the place from which the declaration is seen in its own scope.     *)
Declaration == [name : STRING \X Nat, scope : Seq(STRING), vis : Nat, field : BOOLEAN]

HandlesOf(p) == DOMAIN p.handles

-----------------------------------------------------------------------------
(* The places that write or read a handle (Statements); "unplaced" is a    *)
(* write with no place beside it for another one.                          *)

Writes == {"assign", "define", "init", "unplaced", "multi", "literal", "arg"}
Reads  == {"return", "value", "variadic", "outside", "other"}
MoveType(H) == [how : Writes \cup Reads, from : H \cup {None}, to : H \cup {None},
                scope : Seq(STRING), pos : Nat]

(* A flow goes from a handle to another one, or out of a function. *)
IsFlow(m) == m.from # None /\ (m.how = "return" \/ (m.how \in Writes /\ m.to # None))
Flows(p) == {m \in p.moves : IsFlow(m)}

(* Handles that leave what the planner follows, or enter it from outside   *)
(* into a variable that is there already.                                  *)
Boundaries(p, C) ==
  {m \in p.moves : \/ m.from \in C /\ m.how \in Reads \ {"return"}
                   \/ m.to \in C /\ m.from = None /\ m.how \in {"assign", "multi"}}

(* A declaration that cannot get a sibling whatever flows into it: a       *)
(* result, one that some place gives another value than a handle's, one    *)
(* that an assignment of several values sets, one that is returned or      *)
(* passed to a function value, and one whose root cannot be made again.    *)
Refuses(p, h) ==
  \/ p.handles[h].kind = "result"
  \/ \E m \in p.moves : m.to = h /\ (m.from = None \/ m.how = "multi")
  \/ \E m \in p.moves : m.from = h /\ m.how \in {"return", "value"}
  \/ \E r \in p.roots : r.to = h /\ r.lost

(* What must have a sibling before h can be given one. *)
Sources(p, h) ==
  {m.from : m \in {f \in Flows(p) : f.to = h}}
    \cup ({r.recv : r \in {x \in p.roots : x.to = h}} \ {None})

Pass(p, T) == {h \in T : Sources(p, h) \subseteq T}

(* Mutant: a single pass over the handles. *)
OnePass(p) == Pass(p, {h \in HandlesOf(p) : ~Refuses(p, h)})

(* threadability: from the declarations that allow a sibling, drop those   *)
(* that a dropped handle feeds until nothing changes.                      *)
Threadable(p) ==
  LET until[T \in SUBSET HandlesOf(p)] == IF Pass(p, T) = T THEN T ELSE until[Pass(p, T)]
  IN  until[{h \in HandlesOf(p) : ~Refuses(p, h)}]

-----------------------------------------------------------------------------
(* Sibling names. *)

Declared(p) ==
  LET legacy(h) == [name |-> <<p.handles[h].base, 0>>, scope |-> p.handles[h].scope,
                    vis |-> p.handles[h].vis, field |-> p.handles[h].kind = "field"]
  IN  p.names \cup {legacy(h) : h \in HandlesOf(p)} \cup {p.sibs[h] : h \in DOMAIN p.sibs}

Encloses(s, t) == Len(s) <= Len(t) /\ SubSeq(t, 1, Len(s)) = s

(* LookupParent at the handle's declaration: the package's names are seen  *)
(* everywhere, the others from where they are declared.                    *)
SeenFrom(d, scope, pos) == Encloses(d.scope, scope) /\ (d.scope = << >> \/ d.vis <= pos)

(* Mutant: the scopes inside the handle's own are not searched. *)
TakenOutside(p, h, n) ==
  \E d \in Declared(p) :
    d.name = n /\ ~d.field /\ SeenFrom(d, p.handles[h].scope, p.handles[h].pos)

Taken(p, h, n) ==
  LET s == p.handles[h].scope
      here(d) == IF p.handles[h].kind = "field" THEN d.field /\ d.scope = s
                 ELSE ~d.field /\ (SeenFrom(d, s, p.handles[h].pos)
                                     \/ (d.scope # s /\ Encloses(s, d.scope)))
  IN  \E d \in Declared(p) : d.name = n /\ here(d)

FirstOf(S) == CHOOSE i \in S : \A j \in S : i <= j

SiblingName(p, h) ==
  <<p.handles[h].base,
    FirstOf({i \in 1 .. 1 + Cardinality(Declared(p)) : ~Taken(p, h, <<p.handles[h].base, i>>)})>>

(* siblingCandidate, recognizeSiblings: the first of the names siblingName *)
(* gives, up to the ninth, that a declaration of the sibling's type in the *)
(* handle's own scope has; a local of a function only sees later ones.     *)
Candidate(p, h, n) ==
  \E g \in DOMAIN p.sibs :
    LET d == p.sibs[g]
        own == p.handles[h] IN
      /\ d.name = n /\ d.scope = own.scope /\ d.field = (own.kind = "field")
      /\ own.kind = "local" /\ own.scope # << >> => d.vis > own.pos

(* Mutant: a sibling is only looked for under the first of its names. *)
KnownFirst(p, h) == {i \in {1} : Candidate(p, h, <<p.handles[h].base, i>>)}

Known(p, h) == {i \in 1 .. 9 : Candidate(p, h, <<p.handles[h].base, i>>)}

(* The handles of T that already have a sibling. *)
Present(p, T) == {h \in T : Known(p, h) # {}}

Sibling(p, h, T) ==
  IF h \in Present(p, T) THEN <<p.handles[h].base, FirstOf(Known(p, h))>> ELSE SiblingName(p, h)

-----------------------------------------------------------------------------
(* Components: union-find over flows and derivations. *)

FlowJoins(p) == {<<m.from, m.to>> : m \in {f \in Flows(p) : f.to # None}}

Joins(p) == FlowJoins(p) \cup {<<r.recv, r.to>> : r \in {x \in p.roots : x.recv # None}}

RootsOf(p, C) == {r \in p.roots : r.to \in C}
DeclsOf(p, C) == {h \in C : p.handles[h].decl # "inferred"}
SitesOn(p, C) == {s \in DOMAIN p.sites : p.sites[s].on \in C}

(* A class with neither a root nor a site is no component. *)
Components(p) ==
  {C \in Classes(HandlesOf(p), Joins(p)) :
     RootsOf(p, C) # {} \/ DeclsOf(p, C) # {} \/ SitesOn(p, C) # {}}

FirstPos(p, C) ==
  IF RootsOf(p, C) # {} THEN FirstOf({r.pos : r \in RootsOf(p, C)})
  ELSE FirstOf({p.handles[h].pos : h \in C})

FirstHandle(p, C) == CHOOSE h \in C : \A g \in C : p.handles[h].pos <= p.handles[g].pos

Outermost(scope) == IF scope = << >> THEN << >> ELSE <<Head(scope)>>

(* componentID: the function or struct (the package at package level) and  *)
(* the name of the first handle.  Blocks and function literals have no     *)
(* name of their own.                                                      *)
BaseID(p, C) ==
  LET h == p.handles[FirstHandle(p, C)] IN <<Outermost(h.scope), h.base>>

(* Components that would share an id are numbered in position order. *)
ComponentID(p, C) ==
  <<BaseID(p, C),
    Cardinality({D \in Components(p) :
      BaseID(p, D) = BaseID(p, C) /\ FirstPos(p, D) <= FirstPos(p, C)})>>
=============================================================================

-------------------------------- MODULE MCCode --------------------------------
(* Small programs for CodeSteps.  Positions are multiples of ten, so that a *)
(* step can declare between them; functions are f, g, ..., m is a package.  *)
EXTENDS CodeSteps, Statements, TLC

Handle(kind, decl, scope, base, pos) ==
  [kind |-> kind, decl |-> decl, scope |-> scope, base |-> base, pkg |-> "p",
   pos |-> pos, vis |-> pos]

Conn(to, scope, pos) ==
  [form |-> "conn", to |-> to, recv |-> None, lost |-> FALSE, plain |-> TRUE,
   checked |-> TRUE, opts |-> {}, scope |-> scope, pos |-> pos]
Derived(form, to, recv, scope, pos) ==
  [Conn(to, scope, pos) EXCEPT !.form = form, !.recv = recv]

Statement(form, to, from, scope, pos) ==
  [form |-> form, to |-> to, from |-> from, define |-> FALSE, block |-> TRUE,
   callee |-> "loaded", variadic |-> FALSE, scope |-> scope, pos |-> pos]

(* One that writes a handle to another, or does something else with one.    *)
Writing(how, from, to, scope, pos) ==
  LET s == Statement(CASE how \in {"define", "unplaced", "assign"} -> "assign"
                       [] how = "init" -> "var" [] how = "literal" -> "literal" [] how = "arg" -> "call",
                     <<to>>, <<from>>, scope, pos)
  IN  [s EXCEPT !.define = how \in {"define", "unplaced"}, !.block = how # "unplaced"]

Using(how, h, scope, pos) ==
  LET s == Statement("call", << >>, <<h>>, scope, pos) IN
    CASE how = "value"    -> [s EXCEPT !.callee = "value"]
      [] how = "variadic" -> [s EXCEPT !.variadic = TRUE]
      [] how = "outside"  -> [s EXCEPT !.to = <<None>>]
      [] how = "other"    -> [s EXCEPT !.form = "use"]
      [] how = "legacy"   -> [s EXCEPT !.callee = "legacy"]
      [] how = "return"   -> [s EXCEPT !.form = "return"]
      [] how = "nil"      -> Statement("assign", <<h>>, <<None>>, scope, pos)
      [] how = "multi"    -> Statement("assign", <<h, None>>, <<None>>, scope, pos)
      [] how = "boxed"    -> Statement("assign", <<None>>, <<h>>, scope, pos)
      [] how = "swap"     -> Statement("assign", <<h, h>>, <<h, h>>, scope, pos)

Call(on, scope, pos) ==
  [form |-> "call", entry |-> "call", on |-> on, reached |-> FALSE, opts |-> {},
   args |-> "same", deps |-> {}, left |-> FALSE, fit |-> "same", mentions |-> {},
   asks |-> FALSE, owner |-> None, text |-> "call", scope |-> scope, pos |-> pos, pkg |-> "p"]

Use(of, how, target, into, with) ==
  [of |-> of, how |-> how, target |-> target, into |-> into, with |-> with]

Name(n, scope, vis) == [name |-> n, scope |-> scope, vis |-> vis, field |-> FALSE]

(* A program with nothing but what is given. *)
Program(handles, roots, statements, sites) ==
  [handles |-> handles, roots |-> roots, sites |-> sites,
   moves |-> UNION {StatementMoves(s) : s \in statements},
   names |-> {}, vars |-> << >>, uses |-> {}, sibs |-> << >>,
   sroots |-> {}, stwins |-> {}, keeps |-> {}, moved |-> {}, freed |-> {},
   renamed |-> {}, checked |-> {}]

F == <<"f">>
G == <<"g">>
Local(f, pos) == Handle("local", "inferred", <<f>>, "js", pos)

-----------------------------------------------------------------------------
(* A local js, made by nc.JetStream, flows to a second handle that has a    *)
(* site: every kind of handle, declared and written in every way.           *)
Seconds ==
  {[h |-> Handle("local", "inferred", scope, "j2", 30), how |-> how] :
     scope \in {F, <<"f", "b">>}, how \in {"define", "unplaced"}}
  \cup {[h |-> Handle("local", decl, << >>, "j2", 200), how |-> "assign"] :
          decl \in {"alone", "grouped", "valued"}}
  \cup {[h |-> Handle("field", decl, <<"S">>, "j2", 200), how |-> how] :
          decl \in {"alone", "grouped"}, how \in {"assign", "literal"}}
  \cup {[h |-> Handle("param", decl, G, "js", 100), how |-> "arg"] :
          decl \in {"alone", "grouped", "fixed"}}

(* What else the program does with one of the two. *)
Extras == {"", "value", "variadic", "outside", "other", "legacy", "return", "nil", "multi", "boxed", "swap"}
Extra(extra, h, scope, pos) == IF extra = "" THEN {} ELSE {Using(extra, h, scope, pos)}

SecondScope(s) == IF s.h.kind = "param" THEN G ELSE IF s.h.kind = "field" \/ s.h.scope = << >> THEN F ELSE s.h.scope
SecondPos(s) == IF s.h.kind = "param" THEN 130 ELSE 40

Pair(second, root, extra, onto) ==
  LET scope == IF onto = "b" THEN SecondScope(second) ELSE F
      pos   == IF onto = "b" THEN SecondPos(second) + 10 ELSE 60 IN
    Program([x \in {"a", "b"} |-> IF x = "a" THEN Local("f", 10) ELSE second.h],
            {root},
            {Writing(second.how, "a", "b", IF second.h.kind = "local" THEN SecondScope(second) ELSE F, 30)} \cup Extra(extra, onto, scope, pos),
            [s \in {"s", "t"} |->
               IF s = "s" THEN Call("a", F, 20)
               ELSE [Call("b", SecondScope(second), SecondPos(second)) EXCEPT !.text = "other"]])

RootForms ==
  {Conn("a", F, 10), [Conn("a", F, 10) EXCEPT !.checked = FALSE],
   [Conn("a", F, 10) EXCEPT !.opts = {"domain", "prefix"}]}

(* An inferred local that gets no sibling while the handle it is made from  *)
(* does, see InferredPrograms.                                              *)
LosesSource(second, extra, onto) ==
  onto = "b" /\ second.h.decl = "inferred" /\ extra \in {"value", "return", "nil", "multi", "swap"}

PairPrograms ==
  {Pair(q[1], q[2], q[3], q[4]) :
     q \in {x \in Seconds \X RootForms \X Extras \X {"a", "b"} :
              /\ ~LosesSource(x[1], x[3], x[4])
              /\ (x[3] = "" => x[4] = "a")}}

-----------------------------------------------------------------------------
(* Programs for what a pair does not show. *)

With(p, names, typed, uses) == [p EXCEPT !.names = names, !.vars = typed, !.uses = uses]

JS == "a" :> Local("f", 10)
OneRoot == {Conn("a", F, 10)}

(* Two functions with a js of their own and a question in each; names       *)
(* that siblings would take, in a block and at package level.               *)
TwoFunctions ==
  With(Program(JS @@ "b" :> Local("g", 110), OneRoot \cup {Conn("b", G, 110)}, {},
         "s" :> [Call("a", F, 20) EXCEPT !.asks = TRUE]
           @@ "u" :> [Call("a", <<"f", "b">>, 40) EXCEPT !.text = "inner"]
           @@ "t" :> [Call("b", G, 120) EXCEPT !.asks = TRUE]),
       {Name(<<"js", 1>>, <<"f", "b">>, 30), Name(<<"js", 2>>, << >>, 300),
        Name(<<"js", 1>>, G, 105)},
       << >>, {})

(* A chain of handles ending in one that is returned; buckets made from a   *)
(* handle by name and from a config.                                        *)
Buckets(config) ==
  Program(JS @@ "k" :> Handle("local", "inferred", F, "kv", 30)
             @@ "o" :> Handle("field", "alone", <<"S">>, "kv", 210),
          OneRoot \cup {Derived("lookup", "k", "a", F, 30),
                        [Derived("create", "o", "k", F, 50) EXCEPT !.recv = "a", !.plain = config]},
          {},
          "s" :> Call("k", F, 40) @@ "t" :> Call("o", G, 120))

(* A lookup on a handle that is returned, and on one that holds nil.        *)
LostParent(how) ==
  Program(JS @@ "k" :> Handle("local", "inferred", F, "kv", 30)
             @@ "o" :> Handle("field", "alone", <<"S">>, "kv", 210),
          OneRoot \cup {Derived("lookup", "k", "a", F, 30)},
          {Writing("assign", "k", "o", F, 50),
           Using(how, "a", F, 60)},
          "s" :> Call("k", F, 40) @@ "t" :> Call("a", F, 20))

(* A handle that a helper returns with an error.                            *)
Helper ==
  Program("k" :> Handle("local", "inferred", F, "kv", 30), {},
          {[Statement("assign", <<"k", None>>, <<None>>, F, 30) EXCEPT !.define = TRUE]},
          "s" :> Call("k", F, 40))

(* A handle parameter of a function of another package, with a caller here. *)
OtherPackage ==
  Program(JS @@ "b" :> [Handle("param", "alone", G, "js", 100) EXCEPT !.pkg = "q"],
          OneRoot, {Writing("arg", "a", "b", F, 30)},
          "s" :> Call("a", F, 20) @@ "t" :> [Call("b", G, 120) EXCEPT !.pkg = "q"])

(* Variables of the package and a local that is declared before it is made. *)
DeclaredFirst ==
  Program("a" :> Handle("local", "alone", << >>, "js", 200)
             @@ "b" :> Handle("local", "inferred", << >>, "j2", 210)
             @@ "c" :> Handle("local", "alone", G, "js", 100),
          {Conn("a", F, 10), Conn("c", G, 110)}, {Writing("init", "a", "b", << >>, 210)},
          "s" :> Call("a", F, 20) @@ "t" :> Call("b", F, 30) @@ "u" :> Call("c", G, 120))

(* What a call returns is used where the handle is not: in a variable that  *)
(* is passed on, ranged over, compared and selected from.                   *)
Values(uses) ==
  With(Program(JS @@ "b" :> Local("g", 110), OneRoot \cup {Conn("b", G, 110)}, {},
         "s" :> [Call("a", F, 20) EXCEPT !.fit = "retyped"]
           @@ "t" :> [Call("b", G, 120) EXCEPT !.text = "other"]
           @@ "l" :> [Call(None, F, 50) EXCEPT !.form = "ref", !.text = "type"]),
       {}, "v" :> "s" @@ "w" :> "v",
       {Use("s", "assign", "legacy", {"v"}, {}), Use("v", "assign", "legacy", {"w"}, {})} \cup uses)

ValueUses ==
  {{Use("v", "select", "renamed", {}, {})}, {Use("w", "select", "missing", {}, {})},
   {Use("w", "compare", "none", {}, {"l"})}, {Use("w", "modify", "none", {}, {})},
   {Use("v", "arg", "interface", {}, {"l"})}, {Use("v", "return", "none", {}, {})},
   {Use("w", "select", "same", {}, {}), Use("w", "assign", "call", {}, {})}}

(* A range over what a call returns: its variable has the call's type, and  *)
(* is an argument of a call on another component's handle.                  *)
Ranged ==
  With(Program(JS @@ "b" :> Handle("local", "inferred", F, "j2", 30), OneRoot \cup {Conn("b", F, 30)}, {},
         "s" :> [Call("a", F, 40) EXCEPT !.fit = "retyped"]
           @@ "t" :> [Call("b", F, 60) EXCEPT !.text = "other", !.mentions = {"w"}]),
       {}, "v" :> "s" @@ "w" :> "v",
       {Use("s", "assign", "legacy", {"v"}, {}), Use("v", "range", "none", {"w"}, {})})

(* The same with the second handle, and its call, in another package.       *)
RangedApart == [Ranged EXCEPT !.handles["b"].pkg = "q", !.sites["t"].pkg = "q"]

(* Variables that the planner does not follow: of a range over a call, and  *)
(* one with a result of another type; a copy of it, used with another call. *)
Unfollowed(fit, how) ==
  With(Program(JS, OneRoot, {},
         "s" :> [Call("a", F, 20) EXCEPT !.fit = fit]
           @@ "t" :> [Call("a", F, 40) EXCEPT !.text = "other", !.mentions = {"w"}]),
       {}, "v" :> "s" @@ "w" :> "v",
       {Use("s", how, IF how = "range" THEN "none" ELSE "legacy", {"v"}, {}),
        Use("v", "assign", "legacy", {"w"}, {}), Use("w", "select", "renamed", {}, {})})
UnfollowedPrograms == {Unfollowed("retyped", "range"), Unfollowed("different", "assign")}

(* A result whose type does not correspond, used or not.                    *)
Different(how) ==
  With(Program(JS, OneRoot, {}, "s" :> [Call("a", F, 20) EXCEPT !.fit = "different"]),
       {}, << >>, {Use("s", how, IF how = "select" THEN "same" ELSE "none", {}, {})})

(* A subscription with a handler that calls message methods, next to a      *)
(* message method in no handler, a call on a handle without a counterpart,  *)
(* and one that a person must rewrite.                                      *)
Handlers(entry) ==
  Program(JS, OneRoot, {},
          "s" :> [Call("a", F, 20) EXCEPT !.form = "call", !.asks = TRUE, !.text = "subscribe"]
            @@ "h" :> [Call(None, F, 22) EXCEPT !.form = "message", !.owner = "s", !.text = "ack"]
            @@ "m" :> [Call(None, G, 130) EXCEPT !.form = "message", !.reached = TRUE, !.text = "nak"]
            @@ "x" :> [Call("a", F, 40) EXCEPT !.entry = entry, !.text = "purge"])

(* A subscription with another site in its handler: a call that can be      *)
(* rewritten, that cannot, that asks; a message's metadata, which are of    *)
(* another type, dropped and used.                                          *)
Holding(c, typed, uses) ==
  With(Program(JS, OneRoot, {},
         "s" :> [Call("a", F, 20) EXCEPT !.asks = TRUE, !.text = "subscribe"]
           @@ "h" :> [c EXCEPT !.owner = "s", !.text = "inner"]),
       {}, typed, uses)
Metadata == [Call(None, F, 22) EXCEPT !.form = "message", !.fit = "retyped"]
HoldingPrograms ==
  {Holding(c, << >>, {}) : c \in {Call("a", F, 22), [Call("a", F, 22) EXCEPT !.args = "count"],
                                  [Call("a", F, 22) EXCEPT !.asks = TRUE],
                                  [Call("a", F, 12) EXCEPT !.asks = TRUE]}}
  \cup {Holding(Metadata, << >>, {Use("h", "alone", "none", {}, {})}),
        Holding(Metadata, "v" :> "h", {Use("h", "assign", "legacy", {"v"}, {}),
                                       Use("v", "select", "renamed", {}, {})})}

(* Arguments and options that do not fit.                                   *)
Calls ==
  {[Call("a", F, 40) EXCEPT !.args = "count"], [Call("a", F, 40) EXCEPT !.args = "spread"],
   [Call("a", F, 40) EXCEPT !.opts = {"mapped", "timeout"}],
   [Call("a", F, 40) EXCEPT !.opts = {"unmapped"}], [Call("a", F, 40) EXCEPT !.deps = {"unmapped", "call"}],
   [Call("a", F, 40) EXCEPT !.deps = {"outside"}], [Call("a", F, 40) EXCEPT !.left = TRUE],
   [Call(None, F, 40) EXCEPT !.form = "literal", !.args = "differ"],
   [Call(None, F, 40) EXCEPT !.form = "decl"]}
Odd(c) ==
  Program(JS, OneRoot, {}, "s" :> Call("a", F, 20) @@ "t" :> [c EXCEPT !.text = "other"])

(* The sibling of the first run: a person has given one of two handles its  *)
(* sibling before the first plan.                                           *)
HalfDone ==
  [Program(JS @@ "b" :> Handle("local", "inferred", F, "j2", 30), OneRoot,
           {Writing("define", "a", "b", F, 30)}, "s" :> Call("a", F, 20) @@ "t" :> Call("b", F, 50))
     EXCEPT !.sibs = "a" :> [name |-> <<"js", 1>>, scope |-> F, vis |-> 12, field |-> FALSE],
            !.sroots = OneRoot, !.keeps = {<<"a", "new">>}]

-----------------------------------------------------------------------------
(* A function literal or a block has a js of its own: all components are    *)
(* numbered under the function's name.                                      *)
Twin(block, pos) == Handle("local", "inferred", <<"f", block>>, "js", pos)
Twins == {
  Program(JS @@ "b" :> Twin("b", 110), OneRoot \cup {Conn("b", <<"f", "b">>, 110)}, {},
          "s" :> Call("a", F, 20) @@ "t" :> [Call("b", <<"f", "b">>, 120) EXCEPT !.text = "other"])}
TwinPrograms ==
  {Program(JS @@ "b" :> Twin("b", 110) @@ "c" :> Twin("c", 210),
           OneRoot \cup {Conn("b", <<"f", "b">>, 110), Conn("c", <<"f", "c">>, 210)}, {},
           "s" :> Call("a", F, 20) @@ "t" :> [Call("b", <<"f", "b">>, 120) EXCEPT !.text = "other"]
             @@ "u" :> [Call("c", <<"f", "c">>, 220) EXCEPT !.text = "third"])}

(* The same question twice in a function, on one handle and on two of one   *)
(* name: the second site has the first one's id once that is migrated.      *)
Identical(handles, roots, second) ==
  Program(handles, roots, {},
          "s" :> [Call("a", F, 20) EXCEPT !.asks = TRUE]
            @@ "t" :> [second EXCEPT !.asks = TRUE])
Thrice(p) == [p EXCEPT !.sites = @ @@ "u" :> [p.sites["t"] EXCEPT !.pos = @ + 20]]
IdenticalPrograms ==
  {Identical(JS, OneRoot, Call("a", F, 40)), Thrice(Identical(JS, OneRoot, Call("a", F, 40))),
   Identical(JS @@ "b" :> Twin("b", 110), OneRoot \cup {Conn("b", <<"f", "b">>, 110)},
             Call("b", <<"f", "b">>, 120))}

(* A local that names no type gets no sibling, while what it is made from   *)
(* does.                                                                    *)
InferredPrograms ==
  {Pair([h |-> Handle("local", "inferred", F, "j2", 30), how |-> "define"],
        Conn("a", F, 10), "return", "b")}

CorePrograms ==
  PairPrograms \cup Twins
    \cup {TwoFunctions, Helper, OtherPackage, DeclaredFirst, Ranged, RangedApart, HalfDone}
    \cup {Buckets(config) : config \in BOOLEAN}
    \cup {LostParent(how) : how \in {"return", "nil"}}
    \cup {Values(uses) : uses \in ValueUses}
    \cup {Different(how) : how \in {"alone", "select"}}
    \cup {Handlers(entry) : entry \in {"call", "unmapped", "guided", "outside"}}
    \cup {Odd(c) : c \in Calls} \cup HoldingPrograms
    \cup IdenticalPrograms \cup UnfollowedPrograms
===============================================================================

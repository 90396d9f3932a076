-------------------------------- MODULE Sites --------------------------------
(***************************************************************************)
(* What the planner makes of each legacy use (classify.go, units.go):      *)
(* whether it can rewrite it, what stands in the way, and which uses must  *)
(* be rewritten together because they share a value of a legacy type.      *)
(*                                                                         *)
(* Beside what Handles reads of the code p:                                *)
(*   sites[s]  form, on, scope, pos, pkg, and what the rules below ask;    *)
(*   vars[v]   the site, or the variable, that gives v its type;           *)
(*   uses      where a value of a legacy type goes: [of, how, target,      *)
(*             into, with] (see ValueContext).                             *)
(* T is the set of handles that can get a sibling.                         *)
(***************************************************************************)
EXTENDS Handles

(* H are the handles, N the sites and variables.                           *)
SiteType(H, N) ==
  [form : {"call", "message", "literal", "decl", "ref"},
   entry : {"call", "unmapped", "guided", "outside"},
   on : H \cup {None}, reached : BOOLEAN, left : BOOLEAN, asks : BOOLEAN,
   args : {"same", "count", "differ", "spread"}, opts : SUBSET OptionKinds,
   deps : SUBSET {"call", "same", "unmapped", "guided", "outside"},
   fit : {"same", "different", "retyped"}, mentions : SUBSET N, owner : N \cup {None},
   text : STRING, scope : Seq(STRING), pos : Nat, pkg : STRING]

(* A value is assigned, passed or returned to something of the named kind, *)
(* or a field of it selected that keeps its name, has another or is gone.  *)
Targets(how) ==
  CASE how = "assign" -> {"legacy", "interface", "other", "call"}
    [] how = "arg"    -> {"legacy", "interface", "other"}
    [] how = "return" -> {"legacy", "interface", "other", "none"}
    [] how = "select" -> {"same", "renamed", "missing"}
    [] how \notin {"assign", "arg", "return", "select"} -> {"none"}

UseType(N) ==
  {u \in [of : N, how : {"nil", "len", "alone", "lhs", "select", "assign", "literal", "compare",
                         "case", "arg", "return", "range", "modify", "other"},
          target : STRING, into : SUBSET N, with : SUBSET N] : u.target \in Targets(u.how)}

Guided == {"guided"}
Unmapped == {"unmapped"}
When(cond, class) == IF cond THEN class ELSE {}

-----------------------------------------------------------------------------
(* Values: where a value whose type changes ends up.  A context gives the  *)
(* variables and sites that must change type with it, and the problems.    *)

Context(links, problems) == [links |-> links, problems |-> problems]
Fine == Context({}, {})
Review == Context({}, Guided)

(* addLink: a variable of a legacy type is linked, an interface holds any  *)
(* value, anything else (a handle, a variable of another module) does not. *)
AddLink(u) ==
  CASE u.target = "legacy"    -> Context(u.into, {})
    [] u.target = "interface" -> Fine
    [] u.target = "other"     -> Review

(* linkLHS: a field of a legacy struct changes with the struct, an element *)
(* with its container; a call's result cannot be stored into.              *)
LinkLHS(u) == IF u.target = "call" THEN Review ELSE AddLink(u)

(* linkOperand: all variables and sites that the operand mentions. *)
LinkOperand(u) == Context(u.with, {})

(* argContext: what is passed to an interface parameter may be compared    *)
(* with the call's other arguments.                                        *)
ArgContext(u) ==
  CASE u.target = "interface" -> LinkOperand(u)
    [] u.target = "legacy"    -> AddLink(u)
    [] u.target = "other"     -> Review

(* resultVar: the result variable of the enclosing function. *)
ResultContext(u) == IF u.target = "none" THEN Review ELSE AddLink(u)

(* fieldSelection: a field may keep its name, be renamed, or be gone. *)
FieldSelection(u) == IF u.target = "missing" THEN Review ELSE Fine

ValueContext(u) ==
  CASE u.how \in {"nil", "len", "alone", "lhs"} -> Fine
    [] u.how = "select"                  -> FieldSelection(u)
    [] u.how = "assign"                  -> LinkLHS(u)
    [] u.how = "literal"                 -> Context(u.into, {})
    [] u.how \in {"compare", "case"}     -> LinkOperand(u)
    [] u.how = "arg"                     -> ArgContext(u)
    [] u.how = "return"                  -> ResultContext(u)
    [] u.how \in {"other", "modify", "range"} -> Review

(* Mutant: an assignment that modifies the value is taken for a plain one. *)
UseContextAnyToken(u) ==
  CASE u.how = "range"  -> Context(u.into, {})
    [] u.how = "modify" -> Fine
    [] u.how \notin {"range", "modify"} -> ValueContext(u)

(* useContext: a use outside the sites may also range over the value. *)
UseContext(u) == IF u.how = "range" THEN Context(u.into, {}) ELSE ValueContext(u)

(* resultContext: the results of a rewritten call.  One whose type does    *)
(* not correspond must not be used.                                        *)
SiteContext(p, u) ==
  CASE p.sites[u.of].fit = "same"      -> Fine
    [] p.sites[u.of].fit = "different" -> IF u.how = "alone" THEN Fine ELSE Review
    [] p.sites[u.of].fit = "retyped"   -> ValueContext(u)

UsesOf(p, x) == {u \in p.uses : u.of = x}

ContextProblems(p, s) == UNION {SiteContext(p, u).problems : u \in UsesOf(p, s)}

-----------------------------------------------------------------------------
(* Problems of a site: what keeps it from being rewritten mechanically. *)

(* mapOption: a context moves into the call; the others are mapped one to  *)
(* one, unless they are built elsewhere or do not fit the call.            *)
MapOption(o) ==
  CASE o \in {"mapped", "context"} -> {}
    [] o = "unmapped" -> Unmapped
    [] o \in {"timeout", "indirect", "unfit"} -> Guided

Options(opts) == UNION {MapOption(o) : o \in opts}

(* recvHandle: the receiver is a handle variable, or reached otherwise. *)
RecvProblems(p, T, s) ==
  When(p.sites[s].reached \/ (p.sites[s].on # None /\ p.sites[s].on \notin T), Guided)

(* dependentRewrite: a legacy call on a value that this site produces. *)
Dependent(e) ==
  CASE e \in {"call", "same"} -> {}
    [] e = "unmapped" -> Unmapped
    [] e \in {"guided", "outside"} -> Guided

(* callRewrite, adaptArg: the call must be a method call whose arguments   *)
(* correspond to the jetstream method's.                                   *)
CallProblems(p, T, s) ==
  LET c == p.sites[s] IN
    IF c.reached \/ c.args = "spread" THEN Guided
    ELSE RecvProblems(p, T, s) \cup Options(c.opts)
           \cup When(c.args \in {"count", "differ"}, Guided)
           \cup ContextProblems(p, s)
           \cup (UNION {Dependent(e) : e \in c.deps})
           \cup When(c.left, Guided)

(* classifyMsg: a message method in a handler that no subscription of the  *)
(* plan rewrites.                                                          *)
MessageProblems(p, s) == IF p.sites[s].on = None /\ p.sites[s].reached THEN Guided ELSE Unmapped

(* litIntents: every field must have a counterpart. *)
LiteralProblems(p, s) == When(p.sites[s].args = "differ", Guided) \cup ContextProblems(p, s)

(* classifyDecl, for a declaration that is not a handle's: an alias, a     *)
(* container of handles, a method of a legacy interface's implementation   *)
(* and a zero consumer config are left to a person.                        *)
DeclProblems(p, s) == When(p.sites[s].args # "same", Guided)

(* classifyRef, typeUseContext: a type in an expression is rewritten where *)
(* it makes or asserts a value.                                            *)
RefProblems(p, s) == When(p.sites[s].args # "same", Guided) \cup ContextProblems(p, s)

(* classify: by the form of the site and the kind of its table entry. *)
Problems(p, T, s) ==
  LET c == p.sites[s] IN
    CASE c.entry = "unmapped" -> Unmapped
      [] c.entry \in {"guided", "outside"} -> Guided
      [] c.entry = "call" ->
           CASE c.form = "call"    -> CallProblems(p, T, s)
             [] c.form = "message" -> MessageProblems(p, s)
             [] c.form = "literal" -> LiteralProblems(p, s)
             [] c.form = "decl"    -> DeclProblems(p, s)
             [] c.form = "ref"     -> RefProblems(p, s)

(* settle *)
Settled(problems, asks) ==
  CASE "unmapped" \in problems -> "unmapped"
    [] problems = Guided -> "guided"
    [] problems = {} -> IF asks THEN "decision" ELSE "mechanical"

(* classifyRoot: a derived root needs its parent's sibling, one that makes *)
(* its bucket an inline config, nc.JetStream a connection that can be read *)
(* twice and at most one of the options that choose the constructor.       *)
RootOptions(r) ==
  Options(r.opts \ {"domain", "prefix", "context", "handler"})
    \cup When({"domain", "prefix"} \subseteq r.opts, Guided)
    \cup When(r.opts \cap {"context", "handler"} # {}, Guided)

RootProblems(p, T, r) ==
  When(r.lost \/ r.to \notin T \/ ~r.checked, Guided)
    \cup (IF r.form = "conn" THEN When(~r.plain, Guided) \cup RootOptions(r)
          ELSE When(r.recv = None \/ r.recv \notin T \/ (r.form = "create" /\ ~r.plain), Guided))

RootClass(p, T, r) == Settled(RootProblems(p, T, r), FALSE)

(* classifyDecl, for a handle: it must be declared alone, and a parameter  *)
(* belong to a function that is only ever called.                          *)
DeclClass(p, T, h) ==
  Settled(When(p.handles[h].decl \in {"grouped", "fixed"} \/ h \notin T, Guided), FALSE)

-----------------------------------------------------------------------------
(* Units: the sites that are rewritten in one step. *)

(* An error value is rewritten with the call whose error it is compared    *)
(* with (errProducer): that call is among what the site mentions.          *)
SiteLinks(p, s) ==
  p.sites[s].mentions
    \cup (UNION {SiteContext(p, u).links : u \in UsesOf(p, s)})
    \cup ({p.sites[s].owner} \ {None})

VarLinks(p, v) == UNION {UseContext(u).links : u \in UsesOf(p, v)}

Links(p) ==
  (UNION {{<<s, x>> : x \in SiteLinks(p, s)} : s \in DOMAIN p.sites})
    \cup (UNION {{<<v, x>> : x \in VarLinks(p, v)} : v \in DOMAIN p.vars})

(* buildUnits: union-find over sites and variables; what is left over      *)
(* holds no site.                                                          *)
Groups(p) == {g \in Classes(DOMAIN p.sites \cup DOMAIN p.vars, Links(p)) :
                g \cap DOMAIN p.sites # {}}

(* What is wrong with the uses of the group's variables outside its sites. *)
Facts(p, g) ==
  {u \in p.uses : u.of \in g \cap DOMAIN p.vars /\ UseContext(u).problems # {}}
=============================================================================

------------------------------ MODULE CodeSteps ------------------------------
(***************************************************************************)
(* A program that is migrated step by step: the machine steps of its plan, *)
(* a person doing the others, the answers that person gives, and a new     *)
(* plan after each.  The code knows what the steps leave in it:            *)
(*   sroots, stwins  the roots and flows next to which a sibling's stand;  *)
(*   keeps           the lines `_ = x`, by handle and "old" or "new";      *)
(*   moved           the sites on the new API, freed those of them that    *)
(*                   use no sibling;                                       *)
(*   renamed         the field uses rewritten, checked those reviewed.     *)
(***************************************************************************)
EXTENDS Plans

CONSTANTS Programs  \* the programs to migrate, before their first step

(* No scope declares two handles of one name (results need not have one).  *)
NamesOf(p, h) == <<p.handles[h].base, p.handles[h].scope, p.handles[h].kind = "field">>
Named(p) == {h \in HandlesOf(p) : p.handles[h].kind # "result"}

(* A person may have declared siblings before the first plan, that hold    *)
(* what their handles do.                                                  *)
Prepared(p) ==
  /\ DOMAIN p.sibs \subseteq Named(p) /\ p.sroots \subseteq p.roots /\ p.stwins \subseteq Flows(p)
  /\ \A h \in DOMAIN p.sibs :
       /\ p.sibs[h] \in Declaration /\ p.sibs[h].name[1] = p.handles[h].base
       /\ p.sibs[h].scope = p.handles[h].scope
       /\ p.sibs[h].field = (p.handles[h].kind = "field")
       /\ {r \in p.roots : r.to = h} \subseteq p.sroots
       /\ \A m \in Flows(p) : m.to = h => m \in p.stwins /\ m.from \in DOMAIN p.sibs

(* Where a value goes, and what it is used with: into an interface it may  *)
(* go whatever its type, and only operands and such arguments have others. *)
Located(u) ==
  LET odd == u.how \in {"modify", "other"} IN
  /\ u.into # {} =>
       \/ odd \/ u.how \in {"literal", "range"}
       \/ u.how \in {"assign", "arg", "return"} /\ u.target # "interface"
  /\ u.with # {} =>
       odd \/ u.how \in {"compare", "case"} \/ (u.how = "arg" /\ u.target = "interface")

(* What a handler holds is rewritten with one subscription; a declaration  *)
(* gives no value, it names what it declares.  A variable has its type     *)
(* from a site in the end, whose value changes its type.                   *)
Typed(p) ==
  /\ \A u \in p.uses : Located(u)
  /\ \A s \in DOMAIN p.sites :
       /\ p.sites[s].form = "decl" => p.sites[s].fit = "same"
       /\ p.sites[s].owner # None => /\ p.sites[s].owner \in DOMAIN p.sites
                                     /\ p.sites[p.sites[s].owner].owner = None
  /\ DOMAIN p.sites \cap DOMAIN p.vars = {}
  /\ \A v \in DOMAIN p.vars : p.vars[v] \in DOMAIN p.sites => p.sites[p.vars[v]].fit # "same"
  /\ \A V \in SUBSET DOMAIN p.vars : V # {} => \E x \in V : p.vars[x] \notin V

WellFormed(p) ==
  LET H == HandlesOf(p)
      N == DOMAIN p.sites \cup DOMAIN p.vars IN
    /\ DOMAIN p = {"handles", "roots", "moves", "sites", "names", "vars", "uses", "sibs",
                   "sroots", "stwins", "keeps", "moved", "freed", "renamed", "checked"}
    /\ None \notin H \cup N
    /\ IsFiniteSet(H) /\ IsFiniteSet(N) /\ IsFiniteSet(p.uses)
    /\ IsFiniteSet(p.roots) /\ IsFiniteSet(p.moves) /\ IsFiniteSet(p.names)
    /\ \A h \in H : p.handles[h] \in HandleType
    /\ \A g, h \in Named(p) : NamesOf(p, g) = NamesOf(p, h) => g = h
    /\ p.roots \subseteq RootType(H) /\ p.moves \subseteq MoveType(H) /\ p.names \subseteq Declaration
    /\ \A s \in DOMAIN p.sites : p.sites[s] \in SiteType(H, N)
    /\ \A v \in DOMAIN p.vars : p.vars[v] \in N
    /\ p.uses \subseteq UseType(N)
    /\ Prepared(p) /\ p.keeps \subseteq H \X {"old", "new"} /\ Typed(p)
    /\ p.moved = {} /\ p.freed = {} /\ p.renamed = {} /\ p.checked = {}

ASSUME CodeStepsAssumption == \A p \in Programs : WellFormed(p)

VARIABLES code, answers,
          view, plan,  \* what the planner makes of them
          made,        \* the program as it was
          meant        \* the handles the person chose to keep, the sites answered for

vars == <<code, answers, view, plan, made, meant>>

AllSites == DOMAIN made.sites
AllHandles == HandlesOf(made)

-----------------------------------------------------------------------------
(* The edits of a step. *)

(* addIntents: siblings read by what the step adds. *)
ReadBy(p, v, C) ==
  {m.from : m \in FlowsIn(p, v, C)}
    \cup ({r.recv : r \in {x \in RootsOf(p, C) : RootClass(p, v.T, x) = "mechanical"}} \ {None})

(* placeholders: a local handle stays used, and so does its sibling when   *)
(* nothing the step adds reads it.                                         *)
Placeholders(p, v, C, h) ==
  IF p.handles[h].kind # "local" THEN {}
  ELSE {<<h, "old">>} \cup (IF h \in ReadBy(p, v, C) THEN {} ELSE {<<h, "new">>})

(* The roots a step makes again, and the flows it threads. *)
NewRoots(p, v, C, byHand) ==
  {r \in RootsOf(p, C) : r.to \in v.T /\ (byHand \/ RootClass(p, v.T, r) = "mechanical")}

SiblingOf(p, v, h) ==
  [name |-> Sibling(p, h, v.T), scope |-> p.handles[h].scope,
   vis |-> p.handles[h].vis + 1, field |-> p.handles[h].kind = "field"]

AddHandles(p, v, C, byHand) ==
  LET missing == (C \cap v.T) \ v.present
      keeping == {r.to : r \in NewRoots(p, v, C, byHand)}
                   \cup {m.to : m \in {x \in FlowsIn(p, v, C) : byHand \/ x.how = "define"}}
  IN  [p EXCEPT
        !.sibs = [h \in DOMAIN @ \cup missing |->
                    IF h \in missing THEN SiblingOf(p, v, h) ELSE @[h]],
        !.sroots = @ \cup NewRoots(p, v, C, byHand),
        !.stwins = @ \cup FlowsIn(p, v, C),
        !.keeps = @ \cup UNION {Placeholders(p, v, C, h) : h \in keeping \cap missing}]

(* A unit's sites, and the renamed fields of its variables elsewhere. *)
RenamedIn(p, g) == {u \in p.uses : u.of \in g /\ u.how = "select" /\ u.target = "renamed"}

MoveSites(p, S, g) ==
  [p EXCEPT !.moved = @ \cup S, !.renamed = @ \cup RenamedIn(p, g)]

(* removeIntents, finishIntents: the mechanical declarations and roots go, *)
(* the flows between handles with siblings, and all placeholders; each     *)
(* sibling takes the legacy name.  What declares a handle without naming   *)
(* its type goes with its root or flow.                                    *)
Finish(p, v, C) ==
  LET roots == {r \in RootsOf(p, C) : RootClass(p, v.T, r) = "mechanical"}
      flows == FlowsIn(p, v, C)
      gone  == {h \in C : IF p.handles[h].decl = "inferred"
                          THEN h \in {r.to : r \in roots} \cup {m.to : m \in flows}
                          ELSE DeclClass(p, v.T, h) = "mechanical"}
  IN  [p EXCEPT
        !.handles = [h \in DOMAIN @ \ gone |-> @[h]],
        !.roots = @ \ roots, !.moves = @ \ flows,
        !.keeps = {k \in @ : k[1] \notin C},
        !.sibs = [h \in DOMAIN @ |->
                    IF h \in C THEN [p.sibs[h] EXCEPT !.name = <<@[1], 0>>] ELSE @[h]]]

(* applyComponent: the add-handle step, the units and the finish step. *)
MigrateComponent(p, v, C, S) ==
  LET added == AddHandles(p, v, C, FALSE)
      moved == MoveSites(added, S, UNION {g \in v.groups : g \cap S # {}})
  IN  Finish(moved, v, C)

ListedSites(p, st) == {s \in DOMAIN p.sites : SiteItem(s) \in st.sites}

Performed(p, v, st) ==
  LET S == ListedSites(p, st) IN
    CASE st.kind = "add"       -> AddHandles(p, v, st.comp, FALSE)
      [] st.kind = "site"      -> MoveSites(p, S, UNION {g \in v.groups : g \cap S # {}})
      [] st.kind = "finish"    -> Finish(p, v, st.comp)
      [] st.kind = "component" -> MigrateComponent(p, v, st.comp, S)

(* A variable has the type that its site, or the variable it is a copy of, *)
(* gives it.                                                               *)
Retyped(p) ==
  LET new[x \in AllSites \cup DOMAIN made.vars] ==
        IF x \in AllSites THEN x \in p.moved ELSE new[made.vars[x]]
  IN  {x \in AllSites \cup DOMAIN made.vars : new[x]}

(* What the next plan is made from: sites and variables of the new API are *)
(* none of its.                                                            *)
Loaded(p) ==
  LET new == Retyped(p) IN
    [p EXCEPT !.sites = [s \in AllSites \ new |-> [made.sites[s] EXCEPT
                           !.mentions = @ \ new,
                           !.owner = IF @ \in new THEN None ELSE @]],
              !.vars = [v \in DOMAIN made.vars \ new |-> made.vars[v]],
              !.uses = {[u EXCEPT !.into = @ \ new, !.with = @ \ new] :
                          u \in {x \in made.uses : x.of \notin new}}]

(* stale, buildPlan: there is no plan while an answer to skip a component  *)
(* names none.  Other answers that name nothing are only reported.         *)
Stale(p, v, ans) == DOMAIN ans.comps \ {IDOf(p, K) : K \in v.comps}

(* Mutant: such an answer is only reported as well. *)
NeverRefused(p, v, ans) == FALSE

Refused(p, v, ans) == \E id \in Stale(p, v, ans) : ans.comps[id] = "skip"

Planned == /\ view' = View(code', answers')
           /\ plan' = IF Refused(code', view', answers') THEN << >>
                      ELSE PlanOf(code', view', answers')

Becomes(q) == code' = Loaded(q) /\ UNCHANGED <<answers, made, meant>> /\ Planned

-----------------------------------------------------------------------------
Init ==
  /\ made \in Programs
  /\ code = made
  /\ answers = [comps |-> << >>, sites |-> {}]
  /\ meant = [skip |-> {}, sites |-> {}]
  /\ view = View(made, answers)
  /\ plan = PlanOf(made, view, answers)

IDOfHandles(C) ==
  IDOf(code, CHOOSE K \in view.comps : UNION K = C)

(* apply: the plan's first machine step, or the first step of a component  *)
(* when it is a machine step; a component whose question is not answered   *)
(* with "migrate" is not touched.                                          *)
FirstMachine(i) == plan[i].machine /\ \A j \in 1 .. i - 1 : ~plan[j].machine
FirstOfComp(i) ==
  plan[i].machine /\ plan[i].comp # {} /\ \A j \in 1 .. i - 1 : plan[j].comp # plan[i].comp

CanApply(i) ==
  /\ FirstMachine(i) \/ FirstOfComp(i)
  /\ plan[i].comp # {} => Answer(answers, IDOfHandles(plan[i].comp)) = "migrate"

Apply(i) ==
  /\ CanApply(i)
  /\ \E q \in {Performed(code, view, plan[i])} : Becomes(q)

(* A person answers the question of a component or of a site,              *)
Answered(ans) ==
  answers' = ans /\ UNCHANGED <<code, made>> /\ Planned

Unanswered == {K \in view.comps : Answer(answers, IDOf(code, K)) = ""}
Unsettled  == {s \in DOMAIN code.sites : code.sites[s].asks /\ SiteID(code, s) \notin answers.sites}

AnswerComponent(choice) ==
  /\ ~Refused(code, view, answers)
  /\ \E K \in Unanswered :
       /\ Answered([answers EXCEPT !.comps = [x \in DOMAIN @ \cup {IDOf(code, K)} |->
                      IF x = IDOf(code, K) THEN choice ELSE @[x]]])
       /\ meant' = IF choice = "skip" THEN [meant EXCEPT !.skip = @ \cup UNION K] ELSE meant

AnswerSite ==
  /\ ~Refused(code, view, answers)
  /\ \E s \in Unsettled :
       /\ Answered([answers EXCEPT !.sites = @ \cup {SiteID(code, s)}])
       /\ meant' = [meant EXCEPT !.sites = @ \cup {s}]

(* or, when the planner refuses an answer to skip, answers again for the   *)
(* components to keep and removes what names nothing.                      *)
AnswerAgain ==
  /\ Refused(code, view, answers)
  /\ LET keep == {IDOf(code, K) : K \in {x \in view.comps : (UNION x) \cap meant.skip # {}}} IN
       Answered([answers EXCEPT
         !.comps = [id \in (DOMAIN @ \ Stale(code, view, answers)) \cup keep |->
                      IF id \in keep THEN "skip" ELSE @[id]]])
  /\ UNCHANGED meant

(* A person edits the code as the plan asks: adds the siblings that the    *)
(* planner leaves to do, as its step would;                                *)
CanAdd(i) ==
  plan[i].kind = "add" /\ ~plan[i].machine /\ plan[i].comp \cap view.T # {}

HandAdd(i) ==
  /\ CanAdd(i)
  /\ \E q \in {AddHandles(code, view, plan[i].comp, TRUE)} : Becomes(q)

(* migrates a unit that waits on nothing once the siblings are there,      *)
(* reviewing where its values go (a site on a handle that gets no sibling  *)
(* is freed of it, and leaves it in use);                                  *)
CanMigrate(i) ==
  /\ plan[i].kind = "site" /\ ~plan[i].machine /\ plan[i].waits = {}
  /\ \A j \in 1 .. i : plan[j].kind = "add" => plan[j].comp # plan[i].comp
  /\ \A s \in ListedSites(code, plan[i]) : view.class[s] # "decision"

HandUnit(i) ==
  /\ CanMigrate(i)
  /\ LET g == UNION {x \in view.groups : x \cap ListedSites(code, plan[i]) # {}}
         S == SitesIn(code, g)
         without == {s \in S : code.sites[s].on \notin DOMAIN code.sibs} IN
       \E q \in {[MoveSites(code, S, g) EXCEPT
                   !.freed = @ \cup without,
                   !.keeps = @ \cup {<<code.sites[s].on, "old">> :
                                      s \in {x \in without : code.sites[x].on # None}},
                   !.checked = @ \cup {u \in made.uses : u.of \in g}]} :
         Becomes(q)

(* removes what is left of a component, when only its roots and            *)
(* declarations hold it or none of its handles can have a sibling.         *)
CanFinish(i) ==
  \/ /\ plan[i].kind = "finish" /\ ~plan[i].machine
     /\ \A w \in plan[i].waits : w[1] \in {"root", "decl"}
     /\ ~\E j \in DOMAIN plan : plan[j].comp = plan[i].comp /\ plan[j].kind \in {"add", "site"}
  \/ plan[i].kind = "add" /\ plan[i].comp \cap view.T = {}

HandFinish(i) ==
  /\ CanFinish(i)
  /\ LET C == plan[i].comp
         G == UNION {g \in view.groups : g \cap SitesOn(code, C) # {}}
         S == SitesIn(code, G) IN
       \E q \in {[code EXCEPT
           !.handles = [h \in DOMAIN @ \ C |-> @[h]],
           !.roots = {r \in @ : r.to \notin C},
           !.moves = {m \in @ : m.from \notin C /\ m.to \notin C},
           !.keeps = {k \in @ : k[1] \notin C},
           !.moved = @ \cup S, !.freed = @ \cup S,
           !.checked = @ \cup {u \in made.uses : u.of \in G}]} :
         Becomes(q)

ByHand == \E i \in DOMAIN plan : HandAdd(i) \/ HandUnit(i) \/ HandFinish(i)

Answering ==
  AnswerSite \/ AnswerAgain \/ \E choice \in {"migrate", "skip"} : AnswerComponent(choice)

Next == Answering \/ ByHand \/ \E i \in DOMAIN plan : Apply(i)

(* The person answers, applies the steps and does the others.  Each line   *)
(* is the weak fairness of an action, with what enables it written out.    *)
CanAnswer == Unanswered # {} \/ Unsettled # {} \/ Refused(code, view, answers)
CanByHand == \E i \in DOMAIN plan : CanAdd(i) \/ CanMigrate(i) \/ CanFinish(i)

Fairness ==
  /\ []<>(\A i \in DOMAIN plan : ~CanApply(i)) \/ []<><<\E i \in DOMAIN plan : Apply(i)>>_vars
  /\ []<>~CanAnswer \/ []<><<Answering>>_vars
  /\ []<>~CanByHand \/ []<><<ByHand>>_vars

Spec == Init /\ [][Next]_vars /\ Fairness

-----------------------------------------------------------------------------
Kinds == {"add", "site", "finish", "component"}

(* The plan is made of steps on code that is there, and a step with edits  *)
(* waits on nothing (AddStep, UnitStep, FinishStep).                       *)
TypeOK ==
  /\ HandlesOf(code) \subseteq AllHandles /\ DOMAIN code.sibs \subseteq AllHandles
  /\ code.roots \subseteq made.roots /\ code.sroots \subseteq made.roots
  /\ code.moves \subseteq made.moves /\ code.stwins \subseteq Flows(made)
  /\ code.freed \subseteq code.moved /\ code.moved \subseteq AllSites
  /\ code.keeps \subseteq AllHandles \X {"old", "new"}
  /\ Declared(code) \subseteq Declaration
  /\ \A i \in DOMAIN plan :
       /\ plan[i].kind \in Kinds /\ plan[i].comp \subseteq HandlesOf(code)
       /\ plan[i].machine => plan[i].waits = {}

-----------------------------------------------------------------------------
(* The code type-checks. *)

Read(h, era, scope, pos) == [of |-> h, era |-> era, scope |-> scope, pos |-> pos]

(* Every place that names a handle or a sibling.                           *)
ReadsLeft ==
  {Read(made.sites[s].on, IF s \in code.moved THEN "new" ELSE "old",
        made.sites[s].scope, made.sites[s].pos) :
     s \in {x \in AllSites \ code.freed : made.sites[x].on # None}}
  \cup {Read(m.from, "old", m.scope, m.pos) : m \in {x \in code.moves : x.from # None}}
  \cup {Read(m.from, "new", m.scope, m.pos) : m \in code.stwins}
  \cup {Read(r.recv, "old", r.scope, r.pos) : r \in {x \in code.roots : x.recv # None}}
  \cup {Read(r.recv, "new", r.scope, r.pos) : r \in {x \in code.sroots : x.recv # None}}
  \cup {Read(k[1], k[2], made.handles[k[1]].scope, made.handles[k[1]].vis + 1) : k \in code.keeps}

WritesLeft ==
  {Read(m.to, "old", m.scope, m.pos) :
     m \in {x \in code.moves : x.to # None /\ x.how \in {"assign", "multi", "unplaced"}}}
  \cup {Read(m.to, "new", m.scope, m.pos) :
           m \in {x \in code.stwins : x.how \in {"assign", "unplaced"}}}

DeclaredNow == [old |-> HandlesOf(code), new |-> DOMAIN code.sibs]

DeclOf(h, era) ==
  IF era = "new" THEN code.sibs[h]
  ELSE [name |-> <<code.handles[h].base, 0>>, scope |-> code.handles[h].scope,
        vis |-> code.handles[h].vis, field |-> code.handles[h].kind = "field"]

(* A name stands for the declaration in the innermost scope.               *)
Shadowed(d, x) ==
  \E e \in Declared(code) :
    /\ e.name = d.name /\ ~e.field /\ e.scope # d.scope
    /\ Encloses(d.scope, e.scope) /\ SeenFrom(e, x.scope, x.pos)

Resolves(x) ==
  /\ x.of \in DeclaredNow[x.era]
  /\ LET d == DeclOf(x.of, x.era) IN ~d.field => ~Shadowed(d, x)

Declarations ==
  {<<"name", d>> : d \in code.names}
    \cup {<<"old", DeclOf(h, "old")>> : h \in HandlesOf(code)}
    \cup {<<"new", DeclOf(h, "new")>> : h \in DOMAIN code.sibs}

DeclaredOnce ==
  \A d, e \in Declarations :
    d # e => <<d[2].name, d[2].scope, d[2].field>> # <<e[2].name, e[2].scope, e[2].field>>

UsedLocal(h, era, places) ==
  made.handles[h].kind = "local" /\ made.handles[h].scope # << >> =>
    \E x \in places : x.of = h /\ x.era = era

(* Between any two steps the declarations and their readers type-check:    *)
(* every place that names a legacy handle finds it declared and every      *)
(* migrated place finds the sibling, under a name that nothing between     *)
(* them takes, no scope declares a name twice, and no local variable of a  *)
(* function is left unused.  Of planComponent, addIntents, placeholders,   *)
(* siblingName, removeIntents and finishIntents together.                  *)
StepsBuild ==
  \E places \in {ReadsLeft} :
    /\ \A x \in places \cup WritesLeft : Resolves(x)
    /\ DeclaredOnce
    /\ \A h \in HandlesOf(code) : UsedLocal(h, "old", places)
    /\ \A h \in DOMAIN code.sibs : UsedLocal(h, "new", places)

(* The planner follows values: where one goes, and the variable that has   *)
(* its type from it, are linked with it.  It does not for the variables of *)
(* a range over a call (valueContext has no case for RangeStmt), nor for   *)
(* one that holds a result of another type (resultContext, fitDifferent):  *)
(* these and their copies change type with the call, in no unit with it.   *)
Follows(x, y) == <<x, y>> \in Links(made)
Adrift ==
  LET Closed(V) == \A v \in DOMAIN made.vars :
        made.vars[v] \in V \/ ~Follows(made.vars[v], v) => v \in V
  IN  {v \in DOMAIN made.vars : \A V \in SUBSET DOMAIN made.vars : Closed(V) => v \in V}

(* What a use of a value of the new type needs.                            *)
Agrees(p, u, new) ==
  \/ u \in p.checked
  \/ u.of \in AllSites /\ made.sites[u.of].fit = "same"
  \/ u.how \in {"nil", "len", "alone", "lhs"}
  \/ /\ ~(u.of \in AllSites /\ made.sites[u.of].fit = "different")
     /\ u.into \cup u.with \subseteq new \cup Adrift
     /\ u.how = "select" => u.target = "same" \/ (u.target = "renamed" /\ u \in p.renamed)
     /\ u.how \in {"assign", "arg", "return"} => u.target \in {"legacy", "interface"}
     /\ u.how # "modify" /\ u.how # "other" /\ (u.how = "range" => u.of \notin AllSites)

(* Between any two steps the values agree: what a migrated call gives      *)
(* reaches only migrated calls, variables that changed type with it and    *)
(* places that hold either type, unless a person reviewed the place; a     *)
(* value that is not migrated reaches no migrated one; a handler's calls   *)
(* are migrated with its subscription.  Of buildUnits, useContext,         *)
(* classifyValue and unitStep together.  The variables that are adrift may *)
(* differ from what they meet, and no others.                              *)
ValuesAgree ==
  \E new \in {Retyped(code)}, adrift \in {Adrift} :
    /\ \A s \in AllSites : s \in new =>
         made.sites[s].mentions \subseteq new \cup adrift /\ made.sites[s].owner \in new \cup {None}
    /\ \A s \in AllSites \ new :
         made.sites[s].mentions \cap new \subseteq adrift /\ made.sites[s].owner \notin new
    /\ \A u \in made.uses : u.of \notin adrift =>
         IF u.of \in new THEN Agrees(code, u, new)
         ELSE /\ \A x \in (u.into \cup u.with) \cap new : Follows(u.of, x) => x \in adrift
              /\ u \notin code.renamed

(* A sibling holds what its handle holds: wherever the program makes a     *)
(* handle or copies one into it, the sibling is made, or its source's      *)
(* sibling copied, as well.  Of addIntents and threadability.              *)
SiblingsFed ==
  \A h \in DOMAIN code.sibs :
    /\ \A r \in made.roots : r.to = h => r \in code.sroots
    /\ \A m \in Flows(made) : m.to = h => m \in code.stwins /\ m.from \in DOMAIN code.sibs

(* The fixed point of threadability leaves no handle out that could have a *)
(* sibling: it contains every set of handles that allow one and get all    *)
(* they hold from each other.                                              *)
ThreadableIsLargest ==
  LET allowed == {h \in HandlesOf(code) : ~Refuses(code, h)} IN
    Threadable(code) = UNION {T \in SUBSET allowed : Pass(code, T) = T}

-----------------------------------------------------------------------------
(* Planning again. *)

ItemsOf(pl, kinds, machine) ==
  UNION {pl[i].sites : i \in {j \in DOMAIN pl : pl[j].kind \in kinds /\ pl[j].machine \in machine}}
SitesLeft(pl, machine) == {x \in ItemsOf(pl, {"site", "component"}, machine) : x[1] = "site"}
HandlesLeft(pl, kinds) == UNION {pl[i].comp : i \in {j \in DOMAIN pl : pl[j].kind \in kinds}}
SiblingsLeft(pl, v) == (HandlesLeft(pl, {"add", "component"}) \cap v.T) \ v.present
FinishesLeft(pl) == HandlesLeft(pl, {"finish", "component"})

(* Sites of one text in one function have ids that differ in an ordinal:   *)
(* they are numbered anew once one before them is migrated.                *)
SameText(s) ==
  {t \in AllSites : /\ made.sites[t].text = made.sites[s].text
                    /\ Outermost(made.sites[t].scope) = Outermost(made.sites[s].scope)}
Renumbered(s) ==
  \E t \in SameText(s) \ DOMAIN code.sites : made.sites[t].pos < made.sites[s].pos

(* The answer of a renumbered site is lost when no site of its new number  *)
(* was answered.                                                           *)
AskedAgain == {s \in Unsettled : Renumbered(s) /\ s \in meant.sites}

(* After a step is applied, the plan of the changed code is the rest of    *)
(* the old one: the siblings to declare, the sites to migrate and the      *)
(* handles to remove are those of the old plan without the step's, and     *)
(* what had edits still has, but for sites that are asked again.  Of       *)
(* recognizeSiblings, buildPlan and componentStep.                         *)
ResumesAfter(st) ==
  LET without(kinds, S, done) == IF st.kind \in kinds THEN S \ done ELSE S IN
    /\ SitesLeft(plan', BOOLEAN) = without({"site", "component"}, SitesLeft(plan, BOOLEAN), st.sites)
    /\ SitesLeft(plan, {TRUE}) \ st.sites
         \subseteq SitesLeft(plan', {TRUE}) \cup {SiteItem(s) : s \in AskedAgain'}
    /\ SiblingsLeft(plan', view') = without({"add", "component"}, SiblingsLeft(plan, view), st.comp)
    /\ FinishesLeft(plan') = without({"finish", "component"}, FinishesLeft(plan), st.comp)

PlanResumes ==
  [][\A i \in DOMAIN plan : Apply(i) =>
       Refused(code', view', answers') \/ ResumesAfter(plan[i])]_vars

(* A component the person chose to skip stays as it is: no step applied    *)
(* later adds a sibling to one of its handles, removes the handle or       *)
(* migrates a site on it.  Of lookup, componentID and numbering by         *)
(* position (the choice is kept under the component's id).                 *)
SkippedUntouched ==
  [][\A i \in DOMAIN plan : Apply(i) =>
       /\ meant.skip \cap HandlesOf(code') = meant.skip \cap HandlesOf(code)
       /\ meant.skip \cap DOMAIN code'.sibs = meant.skip \cap DOMAIN code.sibs
       /\ \A s \in code'.moved \ code.moved : made.sites[s].on \notin meant.skip]_vars

(* A question counts as answered only for a site that it was answered for, *)
(* or, once sites of its function and text before it are migrated, for one *)
(* of those: no other site takes over an id, and with it an answer.  Of    *)
(* siteIDs, lookup and settle.                                             *)
AnswersMeant ==
  \A s \in DOMAIN code.sites \ Unsettled :
    code.sites[s].asks =>
      s \in meant.sites \/ (Renumbered(s) /\ SameText(s) \cap meant.sites # {})

(* A person who answers every question and does every step that is left to *)
(* people sees the plan run out, but for what has no counterpart in the    *)
(* new API and what waits on it: steps never wait on each other in a ring, *)
(* and none is planned again.                                              *)
OnlyUnmapped(st) ==
  st.kind = "finish" /\ \E w \in st.waits :
    w[1] = "site" /\ Settled(Problems(code, Threadable(code), w[2]), FALSE) = "unmapped"

WorkEnds ==
  <>[](~Refused(code, view, answers) /\ \A i \in DOMAIN plan : OnlyUnmapped(plan[i]))
=============================================================================

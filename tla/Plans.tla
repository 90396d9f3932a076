-------------------------------- MODULE Plans --------------------------------
(***************************************************************************)
(* The steps planned for a program (steps.go, build.go): per component an  *)
(* add-handle step, a step per unit of sites, and the finish step, or all  *)
(* of them as one; and a step per unit outside components.                 *)
(*                                                                         *)
(* Of the code p this reads what Sites does.  answers holds the choice for *)
(* components, by component id, and the ids of the sites whose question is *)
(* answered.  A step is a record [kind, comp, sites, machine, waits]: comp *)
(* is the set of handles of its component, sites what it lists, machine    *)
(* whether it carries edits, waits what it waits on.                       *)
(***************************************************************************)
EXTENDS Sites, Listing

(* Sites of the three roles, as a step lists them and waits on them. *)
RootItem(r) == <<"root", r.to, r.pos>>
DeclItem(h) == <<"decl", h, 0>>
SiteItem(s) == <<"site", s, 0>>
TheAddStep  == <<"add", "", 0>>

OrderedBy(S, key) ==
  LET from[R \in SUBSET S] ==
        IF R = {} THEN << >>
        ELSE LET x == CHOOSE y \in R : \A z \in R : key[y] <= key[z] IN <<x>> \o from[R \ {x}]
  IN  from[S]

Filtered(seq) == Filter(seq, LAMBDA st : st.kind # "none")
NoStep == [kind |-> "none", comp |-> {}, sites |-> {}, machine |-> FALSE, waits |-> {}]

-----------------------------------------------------------------------------
(* What the planner knows of the code before it makes steps. *)

(* Mutant: the function is left out. *)
SiteIDByText(p, s) ==
  <<p.sites[s].text,
    Cardinality({t \in DOMAIN p.sites :
      p.sites[t].text = p.sites[s].text /\ p.sites[t].pos <= p.sites[s].pos})>>

(* siteIDs: the function, and what stands for the symbol and the text;     *)
(* equal ones are numbered in source order.                                *)
SiteID(p, s) ==
  LET same(t) == /\ Outermost(p.sites[t].scope) = Outermost(p.sites[s].scope)
                 /\ p.sites[t].text = p.sites[s].text
  IN  <<Outermost(p.sites[s].scope), p.sites[s].text,
        Cardinality({t \in DOMAIN p.sites : same(t) /\ p.sites[t].pos <= p.sites[s].pos})>>

Asks(p, answers, s) == p.sites[s].asks /\ SiteID(p, s) \notin answers.sites

(* msgParam, nestedIntents: a subscription rewrites the message methods in *)
(* its handler whose values need no other type, and the other sites there  *)
(* that are mechanical when their turn came before.                        *)
FitsIn(p, T, answers, o, s) ==
  IF p.sites[o].form = "message"
  THEN p.sites[o].entry = "call" /\ \A u \in UsesOf(p, o) : SiteContext(p, u) = Fine
  ELSE /\ Settled(Problems(p, T, o), Asks(p, answers, o)) = "mechanical"
       /\ p.sites[o].asks => p.sites[o].pos < p.sites[s].pos

HandlerProblems(p, T, answers, s) ==
  When(\E o \in DOMAIN p.sites : p.sites[o].owner = s /\ ~FitsIn(p, T, answers, o, s), Guided)

(* Classes of the sites.  A site inside a handler that a subscription      *)
(* rewrites has the class of the subscription.                             *)
ClassOf(p, T, answers) ==
  LET own(s)  == Settled(Problems(p, T, s) \cup HandlerProblems(p, T, answers, s), Asks(p, answers, s))
      lead(s) == IF p.sites[s].owner = None THEN s ELSE p.sites[s].owner
  IN  [s \in DOMAIN p.sites |-> own(lead(s))]

(* mergeComponents: the components that one unit spans become one, with    *)
(* the place and the id of the first.                                      *)
Merged(p, comps, groups) ==
  LET in(g, C) == SitesOn(p, C) \cap g # {}
      joins == {e \in comps \X comps : \E g \in groups : in(g, e[1]) /\ in(g, e[2])}
  IN  Classes(comps, joins)

FirstPart(p, K) == CHOOSE C \in K : \A D \in K : FirstPos(p, C) <= FirstPos(p, D)
IDOf(p, K) == ComponentID(p, FirstPart(p, K))

View(p, answers) ==
  LET T == Threadable(p)
      groups == Groups(p)
  IN  [T |-> T, groups |-> groups, class |-> ClassOf(p, T, answers),
       present |-> Present(p, T), comps |-> Merged(p, Components(p), groups)]

Answer(answers, id) == IF id \in DOMAIN answers.comps THEN answers.comps[id] ELSE ""

-----------------------------------------------------------------------------
(* Units. *)

SitesIn(p, g) == g \cap DOMAIN p.sites
Listed(p, v, g) == {s \in SitesIn(p, g) : v.class[s] # "unmapped"}

(* orderUnits: mechanical units first, then by position. *)
Rank(p, v, g) ==
  LET worst == {v.class[s] : s \in SitesIn(p, g)} IN
    CASE "unmapped" \in worst -> 3
      [] "unmapped" \notin worst /\ "decision" \in worst -> 2
      [] worst \cap {"unmapped", "decision"} = {} ->
           IF "guided" \in worst \/ Facts(p, g) # {} THEN 1 ELSE 0

UnitPos(p, g) == FirstOf({p.sites[s].pos : s \in SitesIn(p, g)})
OrderedUnits(p, v, gs) == OrderedBy(gs, [g \in gs |-> 1000 * Rank(p, v, g) + UnitPos(p, g)])

(* Mutant: a unit is rewritten before its component gets the siblings. *)
UnitStepEarly(p, v, comp, g, blocking) ==
  LET own == {s \in SitesIn(p, g) : p.sites[s].owner = None} IN
    IF Listed(p, v, g) = {} THEN NoStep
    ELSE [kind |-> "site", comp |-> comp, sites |-> {SiteItem(s) : s \in Listed(p, v, g)},
          machine |-> (\A s \in own : v.class[s] = "mechanical") /\ Facts(p, g) = {},
          waits |-> blocking]

(* unitStep: a unit carries edits when its own sites are all mechanical,   *)
(* the uses of its values outside them have no problem, and its component  *)
(* gets its siblings.  A unit with nothing but unmapped sites has no step. *)
UnitStep(p, v, comp, g, blocking) ==
  LET own == {s \in SitesIn(p, g) : p.sites[s].owner = None} IN
    IF Listed(p, v, g) = {} THEN NoStep
    ELSE [kind |-> "site", comp |-> comp, sites |-> {SiteItem(s) : s \in Listed(p, v, g)},
          machine |-> /\ \A s \in own : v.class[s] = "mechanical"
                      /\ Facts(p, g) = {}
                      /\ blocking = {},
          waits |-> blocking]

-----------------------------------------------------------------------------
(* Components. *)

(* Roots and declarations of C that are not mechanical: those of a handle  *)
(* that gets a sibling hold back the add-handle step, the others only the  *)
(* removal of the handle.                                                  *)
Unready(p, v, C, threaded) ==
  {RootItem(r) : r \in {x \in RootsOf(p, C) :
                          RootClass(p, v.T, x) # "mechanical" /\ (x.to \in v.T) = threaded}}
    \cup {DeclItem(h) : h \in {x \in DeclsOf(p, C) :
                          DeclClass(p, v.T, x) # "mechanical" /\ (x \in v.T) = threaded}}

Threaded(v, m) == m.from \in v.T /\ m.to \in v.T

(* Mutant: no argument is passed on to a parameter's sibling. *)
FlowsNotPassed(p, v, C) ==
  {m \in Flows(p) : m.from \in C /\ m.to \in C /\ Threaded(v, m) /\ m.how # "arg"}

FlowsIn(p, v, C) == {m \in Flows(p) : m.from \in C /\ m.to \in C /\ Threaded(v, m)}

(* declIntent, flowIntent, inBlock: what has no place for the sibling: a       *)
(* handle declared with a type and a value, a flow in a statement's header *)
(* or among other declarations.                                            *)
AddFacts(p, v, C) ==
  {DeclItem(h) : h \in {x \in DeclsOf(p, C) : x \in v.T /\ p.handles[x].decl = "valued"}}
    \cup {<<"move", m.to, m.pos>> : m \in {x \in FlowsIn(p, v, C) : x.how = "unplaced"}}

RootAndDeclItems(p, C) == {RootItem(r) : r \in RootsOf(p, C)} \cup {DeclItem(h) : h \in DeclsOf(p, C)}

(* onePackage *)
OnePackage(p, C, gs) ==
  Cardinality({p.handles[h].pkg : h \in C}
                \cup {p.sites[s].pkg : s \in UNION {SitesIn(p, g) : g \in gs}}) = 1

(* Every handle that can have a sibling has one: the step is done. *)
Resumed(v, C) == C \cap v.T # {} /\ C \cap v.T \subseteq v.present

(* planComponent: the add-handle step.  Siblings for some handles only are *)
(* left to a person.                                                       *)
AddStep(p, v, C) ==
  [kind |-> IF Resumed(v, C) THEN "none" ELSE "add", comp |-> C,
   sites |-> RootAndDeclItems(p, C), waits |-> {},
   machine |-> /\ Unready(p, v, C, TRUE) = {} /\ AddFacts(p, v, C) = {}
               /\ C \cap v.T # {} /\ C \cap v.present = {}]

(* Mutant: siblings that a person declared do not lift the wait. *)
BlockingAlways(p, v, C) ==
  LET guided == Unready(p, v, C, TRUE) IN
    IF AddStep(p, v, C).machine THEN {} ELSE IF guided = {} THEN {TheAddStep} ELSE guided

(* What the units wait on when the siblings cannot be added. *)
Blocking(p, v, C) ==
  LET guided == Unready(p, v, C, TRUE) IN
    IF Resumed(v, C) \/ AddStep(p, v, C).machine THEN {}
    ELSE IF guided = {} THEN {TheAddStep} ELSE guided

(* What keeps the legacy handles: the blockers of the add-handle step, the *)
(* roots held back, and the sites of units that carry no edits.            *)
Blockers(p, v, C, gs, blocking) ==
  LET step(g) == UnitStep(p, v, C, g, blocking)
      still   == {g \in gs : ~step(g).machine}
      first(g) == CHOOSE s \in SitesIn(p, g) : p.sites[s].pos = UnitPos(p, g)
  IN  blocking \cup Unready(p, v, C, FALSE)
        \cup (IF Resumed(v, C) THEN Unready(p, v, C, TRUE) ELSE {})
        \cup {SiteItem(s) : s \in {x \in UNION {SitesIn(p, g) : g \in still} :
                                     v.class[x] # "mechanical"}}
        \cup {SiteItem(first(g)) : g \in {x \in still : Facts(p, x) # {} /\ Listed(p, v, x) # {}}}

FinishStep(p, v, C, gs, blocking) ==
  LET waits == Blockers(p, v, C, gs, blocking) IN
    IF Boundaries(p, C) # {} THEN NoStep
    ELSE [kind |-> "finish", comp |-> C, sites |-> RootAndDeclItems(p, C),
          machine |-> waits = {}, waits |-> waits]

(* planComponent, componentStep: a component that needs no person and lies *)
(* in one package is one step.                                             *)
PlanComponent(p, v, C, gs) ==
  LET add    == AddStep(p, v, C)
      wait   == Blocking(p, v, C)
      units  == OrderedUnits(p, v, gs)
      finish == FinishStep(p, v, C, gs, wait)
      steps  == Filtered(<<add>> \o [i \in DOMAIN units |-> UnitStep(p, v, C, units[i], wait)]
                                 \o <<finish>>)
      one    == /\ finish.machine /\ OnePackage(p, C, gs)
                /\ \A i \in DOMAIN steps : steps[i].machine
  IN  IF ~one THEN steps
      ELSE <<[kind |-> "component", comp |-> C, machine |-> TRUE, waits |-> {},
              sites |-> UNION {steps[i].sites : i \in DOMAIN steps}]>>

(* assemble: components in position order, those the person skips left     *)
(* out, then the units outside components.                                 *)
PlanOf(p, v, answers) ==
  LET handles(K) == UNION K
      mine(K) == {g \in v.groups : SitesOn(p, handles(K)) \cap g # {}}
      loose == v.groups \ UNION {mine(K) : K \in v.comps}
      kept == {K \in v.comps : Answer(answers, IDOf(p, K)) # "skip"}
      order == OrderedBy(kept, [K \in kept |-> FirstPos(p, FirstPart(p, K))])
      units == OrderedUnits(p, v, loose)
  IN  Concat([i \in DOMAIN order |-> PlanComponent(p, v, handles(order[i]), mine(order[i]))])
        \o Filtered([i \in DOMAIN units |-> UnitStep(p, v, {}, units[i], {})])
=============================================================================

--------------------------- MODULE SubscriptionSteps ---------------------------
(***************************************************************************)
(* The subscriptions of a program migrated: the answers that a person      *)
(* gives, the steps that the planner's edits make, and the calls that the  *)
(* person rewrites.  The code knows                                        *)
(*   new      the calls that are migrated, by a person's "hand" or by an   *)
(*            "edit": its rewrite and the choices it was made from         *)
(*   retyped  the handlers that take a jetstream.Msg                       *)
(*   copies   the copies of handlers declared for jetstream.Msg, [fn, n]   *)
(* Which step comes first, and the handles, are those of CodeSteps.        *)
(***************************************************************************)
EXTENDS Subscriptions, UnionFind

CONSTANTS Programs,
          ScopesOf(_),   \* the kinds of scopes at which a person answers in a program
          SubjectLength  \* the tokens of the subjects that are compared

VARIABLES program, new, retyped, copies, answers,
          view, pending  \* what the planner makes of them

vars == <<program, new, retyped, copies, answers, view, pending>>

-----------------------------------------------------------------------------
(* The programs that are followed. *)

(* Subjects without tokens that begin as wildcards do. *)
PlainSubjects ==
  {s \in UNION {[1 .. n -> Words \cup Wildcards \cup {""}] : n \in 1 .. SubjectLength} :
     IsValidSubject(s)}

(* Handlers do not subscribe each other in a circle (the planner would     *)
(* leave each to the other, and make a step without edits).                *)
Nests(p) ==
  \E depth \in [DOMAIN p.calls -> 0 .. Cardinality(DOMAIN p.calls)] :
    \A c \in DOMAIN p.calls : \A d \in Within(p, DOMAIN p.calls, c) : depth[c] < depth[d]

(* A call is one of the file, what it names is declared, and the compiler  *)
(* has seen to it that each variable it defines is used.                   *)
CallFollowed(p, c) ==
  LET call == p.calls[c] IN
    /\ \E i \in DOMAIN p.order : \A j \in DOMAIN p.order : p.order[j] = c <=> j = i
    /\ call.form \in {"callback", "sync", "chan", "pull"}
    /\ call.opts \in Seq(RangeOf(call.opts)) /\ call.subject \in PlainSubjects
    /\ call.handler.kind \in {"function", "literal", "value"}
    /\ call.handler.kind = "function" => call.handler.fn \in DOMAIN p.handlers
    /\ call.handler.kind = "value" => Within(p, DOMAIN p.calls, c) = {}
    /\ call.form = "pull" => call.handler.kind = "value"
    /\ call.uses \in Seq(RangeOf(call.uses)) /\ (call.use = "defined" => call.uses # << >>)

Followed(p) ==
  /\ p.order \in Seq(DOMAIN p.calls) /\ \A c \in DOMAIN p.calls : CallFollowed(p, c)
  /\ None \notin DOMAIN p.calls \cup DOMAIN p.handlers
  /\ \A s \in p.streams : s.subjects \subseteq PlainSubjects
  /\ Nests(p)

ASSUME SubjectLengthAssumption == SubjectLength \in Nat

ASSUME ProgramsAssumption ==
  \A p \in Programs : Followed(p) /\ ScopesOf(p) \subseteq {"module", "component", "site"}

-----------------------------------------------------------------------------
Calls == DOMAIN program.calls
Call(c) == program.calls[c]
Live == Calls \ DOMAIN new

-----------------------------------------------------------------------------
(* The plan. *)

(* The calls whose handler, not shared, holds this one: it is rewritten    *)
(* with it.                                                                *)
Owners(p, live, c) ==
  {d \in live : c \in Within(p, live, d) /\ ~IsShared(p, p.calls[d])}

(* classifySubscribe: what is made of a call, with the classes of others. *)
Seen(p, live, ans, c, class) ==
  LET ds == Decisions(p, ans, c)
      to == Build(p, live, c, class, Choices(ds))
  IN  [decisions |-> ds, choices |-> Choices(ds), to |-> to, class |-> ClassOf(to.problems, ds)]

(* classifyAll: the calls in file order, each with the classes of those    *)
(* before it.                                                              *)
Classified(p, live, ans) ==
  LET order == Sorted(p, live)
      upTo[n \in 0 .. Len(order)] ==
        IF n = 0 THEN << >>
        ELSE LET before == upTo[n - 1]
                 class == [c \in DOMAIN before |-> before[c].class]
             IN  [c \in DOMAIN before \cup {order[n]} |->
                    IF c = order[n] THEN Seen(p, live, ans, c, class) ELSE before[c]]
  IN  upTo[Len(order)]

(* buildPlan: a call in a handler has the class of that handler's call, of *)
(* several the last.                                                       *)
Owning(p, c, v) ==
  LET owners == Sorted(p, Owners(p, DOMAIN v, c)) IN
    IF owners = << >> THEN v[c] ELSE [v[c] EXCEPT !.class = v[owners[Len(owners)]].class]

View(p, v) == [c \in DOMAIN v |-> Owning(p, c, v)]

(* Mutant: a call with an answer is not asked again. *)
PendingFirst(p, v) ==
  LET decisions == [c \in DOMAIN v |-> IF \A d \in v[c].decisions : d.choice = ""
                                       THEN v[c].decisions ELSE {}]
  IN  Concat([n \in DOMAIN Patterns |-> Pending(decisions, Sorted(p, DOMAIN v), Patterns[n])])

PendingOf(p, v) ==
  LET decisions == [c \in DOMAIN v |-> v[c].decisions]
  IN  Concat([n \in DOMAIN Patterns |-> Pending(decisions, Sorted(p, DOMAIN v), Patterns[n])])

(* buildUnits: calls of one handler that is not shared, and those in the   *)
(* handler of another.                                                     *)
Linked(c, d) ==
  \/ /\ IsFunction(program, Call(c)) /\ ~IsShared(program, Call(c))
     /\ Call(d).handler.kind = "function" /\ Call(c).handler.fn = Call(d).handler.fn
  \/ d \in Within(program, Live, c) /\ ~IsShared(program, Call(c))

(* Mutant: every call is a unit of its own. *)
UnitsApart == {{c} : c \in Live}

Units == Classes(Live, {e \in Live \X Live : Linked(e[1], e[2])})

MachineUnit(u) == \A c \in u : Owners(program, Live, c) # {} \/ view[c].class = "mechanical"

-----------------------------------------------------------------------------
(* The edits. *)

(* fresh: the first name that the package does not declare. *)
FreshCopy(fn) ==
  [fn |-> fn, n |-> CHOOSE n \in 1 .. Len(copies) + 1 :
     /\ [fn |-> fn, n |-> n] \notin RangeOf(copies)
     /\ \A m \in 1 .. n - 1 : [fn |-> fn, n |-> m] \in RangeOf(copies)]

(* Those of the calls S that split their handler declare a copy each. *)
CopiesFor(S) ==
  LET split == Sorted(program, {c \in S : view[c].to.handler = "split"})
  IN  [i \in DOMAIN split |-> FreshCopy(Call(split[i]).handler.fn)]

(* A call in a handler is rewritten with the call of that handler. *)
Migrated(S) ==
  /\ new' = [c \in DOMAIN new \cup S |->
               IF c \in DOMAIN new THEN new[c]
               ELSE [by |-> "edit", to |-> view[c].to, choices |-> view[c].choices]]
  /\ retyped' = retyped \cup
       {Call(c).handler.fn : c \in {d \in S : view[d].to.handler = "inPlace"}}
  /\ copies' = copies \o CopiesFor(S)
  /\ UNCHANGED <<program, answers>>

Replan ==
  \E v \in {Classified(program, Calls \ DOMAIN new', answers')} :
    view' = View(program, v) /\ pending' = PendingOf(program, v)

-----------------------------------------------------------------------------
Init ==
  /\ program \in Programs
  /\ new = << >> /\ retyped = {} /\ copies = << >> /\ answers = << >>
  /\ \E v \in {Classified(program, DOMAIN program.calls, << >>)} :
       view = View(program, v) /\ pending = PendingOf(program, v)

(* A person accepts every default that the plan recommends, *)
AcceptDefaults ==
  /\ pending # << >>
  /\ answers' = answers \o [i \in DOMAIN pending |->
       [pattern |-> pending[i].pattern, scope |-> pending[i].scope, choice |-> pending[i].def]]
  /\ UNCHANGED <<program, new, retyped, copies>>
  /\ Replan

(* or answers the first question of the plan for the first call that asks  *)
(* it, alone or with others (answers to different patterns or calls do not *)
(* meet: a person may as well give them in this order).                    *)
Asks(c, pattern) == \E d \in view[c].decisions : d.pattern = pattern /\ d.choice = ""

FirstAsking(pattern) ==
  Sorted(program, {c \in Live : Asks(c, pattern)})[1]

ScopeOf(kind, c) ==
  CASE kind = "module" -> <<"module">>
    [] kind = "component" -> <<"component", Call(c).comp>>
    [] kind = "site" -> <<"site", c>>

Answer(kind) ==
  /\ pending # << >>
  /\ \E pattern \in {pending[1].pattern} : \E o \in OptionsOf(pattern) :
       answers' = Append(answers, [pattern |-> pattern, choice |-> o,
                                   scope |-> ScopeOf(kind, FirstAsking(pattern))])
  /\ UNCHANGED <<program, new, retyped, copies>>
  /\ Replan

(* apply: the edits of a unit, or of a component that needs no person. *)
ApplyUnit(u) ==
  /\ MachineUnit(u)
  /\ Migrated(u) /\ Replan

InComponent(k) == {c \in Live : Call(c).comp = k}

ApplyComponent(k) ==
  /\ InComponent(k) # {}
  /\ \A u \in Units : u \cap InComponent(k) # {} => MachineUnit(u) /\ u \subseteq InComponent(k)
  /\ Migrated(InComponent(k)) /\ Replan

(* A person rewrites a call that is left to one, with a handler of its own. *)
Deferred(c) == Target(view[c].choices) = "defer"

ByHand(c) ==
  /\ ~Deferred(c) /\ view[c].class # "unmapped"
  /\ \E u \in Units : c \in u /\ ~MachineUnit(u) /\ \A d \in u : view[d].class # "decision"

HandMigrate(c) ==
  /\ ByHand(c)
  /\ new' = [d \in DOMAIN new \cup {c} |-> IF d = c THEN [by |-> "hand"] ELSE new[d]]
  /\ UNCHANGED <<program, retyped, copies, answers>>
  /\ Replan

Next ==
  \/ AcceptDefaults
  \/ \E kind \in ScopesOf(program) : Answer(kind)
  \/ \E u \in Units : ApplyUnit(u)
  \/ \E k \in {Call(c).comp : c \in Live} : ApplyComponent(k)
  \/ \E c \in Live : HandMigrate(c)

(* There is work while something is asked, a unit can be applied, or a     *)
(* call waits for the person; the person keeps working.                    *)
CanWork ==
  \/ pending # << >>
  \/ \E u \in Units : MachineUnit(u)
  \/ \E c \in Live : ByHand(c)

Fairness == []<>(~CanWork) \/ []<><<Next>>_vars

Spec == Init /\ [][Next]_vars /\ Fairness

-----------------------------------------------------------------------------
(* Properties. *)

(* The answers can be read back, and calls are live or migrated.           *)
TypeOK ==
  /\ DOMAIN new \subseteq Calls /\ DOMAIN view = Live
  /\ \A i \in DOMAIN answers : Readable(answers[i])
  /\ retyped \subseteq DOMAIN program.handlers
  /\ \A i \in DOMAIN copies : copies[i].fn \in DOMAIN program.handlers
  /\ \A c \in Live : view[c].class \in {"mechanical", "decision", "guided", "unmapped"}

ByMachine == {c \in DOMAIN new : new[c].by = "edit"}
To(c) == new[c].to
Chosen(c) == new[c].choices

(* The legacy library acks a message after its callback returns, unless it *)
(* is told not to (openspec migration-planner, "Decision sites").          *)
LegacyAcks(c) ==
  LET sc == Parse(Call(c)) IN
    Call(c).form = "callback" /\ ~sc.manualAck /\ ~sc.ackNone /\ ~sc.ordered

ConfigOf(fields) ==
  [f \in Names(fields) |-> fields[CHOOSE i \in DOMAIN fields : fields[i].name = f].value]

OnceEach(fields) == \A i, j \in DOMAIN fields : fields[i].name = fields[j].name => i = j

(* The ack decision, the options and the wrapper agree (buildSubscribe,    *)
(* consume): an edit leaves the messages of a subscription acked when the  *)
(* legacy library acked them and nobody chose otherwise, and where nothing *)
(* acks them the handler does or the new consumer expects no acks.  The    *)
(* policy of a consumer that exists already is not the planner's to set.   *)
AcksAgree ==
  \A c \in ByMachine : Call(c).form = "callback" =>
    LET sc == Parse(Call(c))
        noAcks == AckPolicy(ConfigOf(To(c).config)) = "AckNonePolicy" IN
      /\ To(c).wraps <=> LegacyAcks(c) /\ Chosen(c).ack # "none"
      /\ To(c).kind \in {"consumer", "push"} /\ OnceEach(sc.fields) =>
           /\ noAcks => ~To(c).wraps
           /\ noAcks \/ To(c).wraps \/ sc.manualAck

(* What the legacy library made of the call (external): its options and    *)
(* the durable name of PullSubscribe, over a filter and an inbox.          *)
LegacyConfig(c) ==
  LET sc == Parse(Call(c))
      set == Names(sc.fields)
      more == (IF "FilterSubjects" \in set THEN << >> ELSE <<Field("FilterSubject", Call(c).subject)>>)
                \o (IF Call(c).form = "pull" \/ "DeliverSubject" \in set THEN << >>
                    ELSE <<Field("DeliverSubject", Inbox)>>)
                \o (IF Call(c).form # "pull" \/ sc.durable \/ Call(c).durable = "" THEN << >>
                    ELSE <<Field("Durable", Call(c).durable)>>)
  IN  ConfigOf(sc.fields \o more)

(* Calls of which the code writes a config that is not accepted: filters   *)
(* of an option get one more, an option not to ack beside one that limits  *)
(* pending acks stays, two options may set one field, and a negative limit *)
(* of pull requests, nothing to a push consumer, becomes one.              *)
NotCarried(c) ==
  LET set == Names(Parse(Call(c)).fields) IN
    \/ "FilterSubjects" \in set
    \/ Chosen(c).ack = "none" /\ "MaxAckPending" \in set
    \/ ~OnceEach(Parse(Call(c)).fields)
    \/ \E f \in {"MaxWaiting", "MaxRequestBatch"} : Sure(LegacyConfig(c), f, Negative)

(* The config that an edit writes sets each field once, and is none that   *)
(* natsvet itself reports (consumerconfig), when the legacy one was not    *)
(* (buildSubscribe over the push-only, ack and durable rules).             *)
ConfigAccepted ==
  \A c \in ByMachine : To(c).config # << >> /\ ~NotCarried(c) /\ Reports(LegacyConfig(c)) = {} =>
    OnceEach(To(c).config) /\ Reports(ConfigOf(To(c).config)) = {}

-----------------------------------------------------------------------------
Naming(fn) == {c \in Calls : Call(c).handler.kind = "function" /\ Call(c).handler.fn = fn}
As(fn, how) == {c \in Naming(fn) \cap ByMachine : To(c).handler = how}

(* One step that splits a handler twice declares its copy twice: calls of  *)
(* a component, or in handlers that one step takes.                        *)
SplitTwice(fn) ==
  \E c, d \in Naming(fn) :
    /\ c # d /\ program.handlers[fn].core
    /\ Call(c).comp = Call(d).comp \/ None \notin {Call(c).within, Call(d).within}

(* The type of a handler fits everyone who names it (handlerOf, consume,   *)
(* buildUnits; not who names it through its package, where handlerOf does  *)
(* not find it): a core subscription, a call that is still a legacy one or *)
(* an adapter need the legacy message, the calls rewritten with it the new *)
(* one; each copy is declared once, and there is one for every call split. *)
HandlersFit ==
  \A fn \in DOMAIN program.handlers :
    /\ fn \in retyped => /\ ~program.handlers[fn].core
                         /\ Naming(fn) \cap Live = {} /\ As(fn, "adapter") = {}
    /\ As(fn, "inPlace") # {} => fn \in retyped
    /\ ~SplitTwice(fn) => \A i, j \in DOMAIN copies :
                            copies[i] = copies[j] /\ copies[i].fn = fn => i = j
    /\ Cardinality(As(fn, "split")) = Cardinality({i \in DOMAIN copies : copies[i].fn = fn})

(* The statement that defines a subscription still compiles: it defines a  *)
(* variable, and every variable that it defines is used (subscriptionUses).*)
StatementsFit ==
  \A c \in ByMachine : Call(c).use = "defined" =>
    LET st == To(c).statement IN
      /\ st.name = "kept" => st.uses > 0
      /\ st.defines => st.name = "kept" \/ Call(c).errNew

(* Who accepts all defaults gets, for each call, the default that the plan *)
(* gave for it, though answers are recorded for the module and for sites   *)
(* (fill, lookup).                                                         *)
DefaultsKeep ==
  [][AcceptDefaults => \A c \in Live : \A d \in view[c].decisions :
       d.choice = "" => Lookup(answers', d.pattern, c, Call(c).comp) = d.def]_vars

(* Answering what is asked, applying and rewriting what is left migrates   *)
(* every subscription but those that the person deferred or that have no   *)
(* counterpart: no question comes up that is not asked (fill), and no call *)
(* keeps another from being migrated.                                      *)
AnswersSuffice == <>[](\A c \in Live : Deferred(c) \/ view[c].class = "unmapped")

-----------------------------------------------------------------------------

Received == [s \in PlainSubjects |-> MatchedBy(s, SubjectLength + 1)]

SubjectsExact ==
  \A s, t \in PlainSubjects :
    /\ SubjectIsSubsetMatch(s, t) <=> Received[s] \subseteq Received[t]
    /\ SubjectsCollide(s, t) <=> Received[s] \cap Received[t] # {}
    /\ SubjectCovers(t, s) <=> Received[s] \subseteq Received[t]

(* The plan compares subjects as the server matches them: filters overlap, *)
(* collide and are covered when the messages they receive say so, and the  *)
(* stream it names for a subscription is the only one of the code that     *)
(* takes in all the messages of its subject (streamFollowUp).              *)
SubjectsAgree ==
  /\ SubjectsExact
  /\ \A c \in Live : ~Parse(Call(c)).stream =>
       LET holding == {s \in program.streams :
                         \E pat \in s.subjects : Received[Call(c).subject] \subseteq Received[pat]} IN
         FollowUp(program, c) = IF Cardinality(holding) = 1
                                THEN (CHOOSE s \in holding : TRUE).name ELSE ""
=============================================================================

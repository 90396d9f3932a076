----------------------------- MODULE Subscriptions -----------------------------
(***************************************************************************)
(* Legacy subscribe calls: how one is read, what it asks, and the rewrite  *)
(* that the answers lead to (subscribe.go, table.go).                      *)
(*                                                                         *)
(* A program p has calls, a function from their ids, in the file order     *)
(* p.order; p.handlers, the functions that they name as handlers; and      *)
(* p.streams, the stream configs [name, subjects] of its code.  A call is  *)
(* a record of                                                             *)
(*   comp     its component                                                *)
(*   form     "callback", "sync", "chan" or "pull"                         *)
(*   queue    the name of its queue, durable that of PullSubscribe, or ""  *)
(*   opts     the sequence of its options [sym, arg]; slice when passed on *)
(*   handler  [kind, fn, body]: the function fn, or a "literal", or        *)
(*            another "value"; body is what the literal is (see Fits)      *)
(*   recv     "threaded", "refused" or "expression": the legacy handle     *)
(*   use      where its result goes, errNew when its error defines a       *)
(*            variable, uses the kinds of the uses of the subscription     *)
(*   within   the function or call whose handler holds it, or None         *)
(***************************************************************************)
EXTENDS ConsumerRules, Answers

CONSTANTS None,
          Inbox  \* the subject that nats.NewInbox gives

RangeOf(seq) == {seq[i] : i \in DOMAIN seq}
Sorted(p, S) == Filter(p.order, LAMBDA c : c \in S)

-----------------------------------------------------------------------------
(* The options. *)

(* Subscribe options that set a field of the config, *)
FieldOf ==
  [Durable |-> "Durable", ConsumerName |-> "Name", DeliverSubject |-> "DeliverSubject",
   MaxAckPending |-> "MaxAckPending", MaxDeliver |-> "MaxDeliver", AckWait |-> "AckWait",
   BackOff |-> "BackOff", RateLimit |-> "RateLimit", IdleHeartbeat |-> "IdleHeartbeat",
   PullMaxWaiting |-> "MaxWaiting", ConsumerFilterSubjects |-> "FilterSubjects",
   MaxRequestBatch |-> "MaxRequestBatch"]

(* some to a value of their own, *)
PolicyOf ==
  [AckExplicit |-> <<"AckPolicy", "AckExplicitPolicy">>, AckAll |-> <<"AckPolicy", "AckAllPolicy">>,
   AckNone |-> <<"AckPolicy", "AckNonePolicy">>,
   DeliverNew |-> <<"DeliverPolicy", "DeliverNewPolicy">>,
   DeliverLastPerSubject |-> <<"DeliverPolicy", "DeliverLastPerSubjectPolicy">>,
   EnableFlowControl |-> <<"FlowControl", TRUE>>, HeadersOnly |-> <<"HeadersOnly", TRUE>>]

StartOf ==
  [StartSequence |-> <<"DeliverByStartSequencePolicy", "OptStartSeq">>,
   StartTime     |-> <<"DeliverByStartTimePolicy", "OptStartTime">>]

(* and those of them that only a push consumer has. *)
PushOnly == {"RateLimit", "DeliverSubject", "EnableFlowControl", "IdleHeartbeat"}

(* Options that choose the call instead of a field. *)
BySite == {"Bind", "BindStream", "OrderedConsumer", "ManualAck", "SkipConsumerLookup", "Context"}

Field(name, value) == [name |-> name, value |-> value, pushOnly |-> FALSE]

(* The config fields that an option sets. *)
OptionFields(o) ==
  LET flag(f) == [f EXCEPT !.pushOnly = o.sym \in PushOnly] IN
    CASE o.sym \in DOMAIN FieldOf  -> <<flag(Field(FieldOf[o.sym], o.arg))>>
      [] o.sym \in DOMAIN PolicyOf -> <<flag(Field(PolicyOf[o.sym][1], PolicyOf[o.sym][2]))>>
      [] o.sym \in DOMAIN StartOf  -> <<Field("DeliverPolicy", StartOf[o.sym][1]),
                                        Field(StartOf[o.sym][2], o.arg)>>
      [] OTHER -> << >>

(* What keeps a call from being rewritten: no counterpart, or no statement *)
(* that the planner can write (&$1 wants a variable).                      *)
OptionProblems(o) ==
  CASE o.sym \in DOMAIN FieldOf \cup DOMAIN PolicyOf \cup BySite \cup {"StartSequence"} -> {}
    [] o.sym = "StartTime" -> IF o.arg = "variable" THEN {} ELSE {"guided"}
    [] o.sym = "NoCounterpart" -> {"unmapped"}
    [] OTHER -> {"guided"}

AllFields(opts) == Concat([i \in DOMAIN opts |-> OptionFields(opts[i])])

(* parseSubscribe *)
Parse(c) ==
  LET opts == IF c.slice THEN << >> ELSE c.opts
      syms == {opts[i].sym : i \in DOMAIN opts}
      named == ~c.slice /\ c.queue # "" /\ "Bind" \notin syms /\ "Durable" \notin syms
  IN  [problems |-> UNION {OptionProblems(opts[i]) : i \in DOMAIN opts}
                      \cup (IF c.slice THEN {"guided"} ELSE {}),
       fields |-> (IF named THEN <<Field("Durable", c.queue)>> ELSE << >>) \o AllFields(opts),
       stream |-> {"Bind", "BindStream"} \cap syms # {}, bound |-> "Bind" \in syms,
       ordered |-> "OrderedConsumer" \in syms, manualAck |-> "ManualAck" \in syms,
       ackNone |-> "AckNone" \in syms, maxAck |-> "MaxAckPending" \in syms,
       durable |-> named \/ "Durable" \in syms, pushOnly |-> syms \cap PushOnly]

-----------------------------------------------------------------------------
(* The handlers. *)

(* handlerOf: a function that a core subscription names as well is shared. *)
IsFunction(p, c) == c.handler.kind = "function" /\ p.handlers[c.handler.fn].loaded
IsShared(p, c)   == IsFunction(p, c) /\ p.handlers[c.handler.fn].core

(* msgParam: a handler takes one message, and each use of it is a field    *)
(* read or a method that jetstream.Msg has, its metadata kept nowhere.     *)
FittingUses == {"field", "ack", "ackSync", "metadata"}

BodyFits(b) == b.params = "unnamed" \/ (b.params = "message" /\ b.uses \subseteq FittingUses)

Within(p, live, c) ==
  {d \in live : d # c /\ p.calls[d].within =
     (IF p.calls[c].handler.kind = "function" THEN p.calls[c].handler.fn ELSE c)}

(* nestedIntents: the sites in a handler must be mechanical.  Subscribe    *)
(* calls are classified in file order: one that comes later has no class.  *)
HandlerProblems(p, live, c, class, body) ==
  IF /\ BodyFits(body) /\ body.sites \subseteq {"mechanical"}
     /\ \A d \in Within(p, live, c) : d \in DOMAIN class /\ class[d] = "mechanical"
  THEN {} ELSE {"guided"}

Handled(how, problems) == [how |-> how, problems |-> problems]

(* consume: the handler of the new subscription. *)
Handler(p, live, c, class, choices) ==
  LET h == p.calls[c].handler
      problems(body) == HandlerProblems(p, live, c, class, body) IN
    CASE h.kind = "literal" -> Handled("literal", problems(h.body))
      [] IsShared(p, p.calls[c]) /\ choices.shared = "adapter" -> Handled("adapter", {})
      [] IsShared(p, p.calls[c]) /\ choices.shared # "adapter" ->
           Handled("split", problems(p.handlers[h.fn].body))
      [] IsFunction(p, p.calls[c]) /\ ~IsShared(p, p.calls[c]) ->
           Handled("inPlace", problems(p.handlers[h.fn].body))
      [] h.kind # "literal" /\ ~IsFunction(p, p.calls[c]) -> Handled("none", {"guided"})

-----------------------------------------------------------------------------
(* The decisions. *)

Ask(answers, c, comp, pattern, def, reason) ==
  {[pattern |-> pattern, def |-> def, reason |-> reason,
    choice |-> Lookup(answers, pattern, c, comp)]}

(* classifySubscribe *)
Decisions(p, answers, c) ==
  LET call == p.calls[c]
      sc == Parse(call)
      ask(pattern, def, reason) == Ask(answers, c, call.comp, pattern, def, reason)
      asksTarget == call.form # "pull" /\ ~sc.ordered
      target == IF sc.bound THEN ask("target", "push", "bound") ELSE ask("target", "pull", "")
  IN  (IF asksTarget THEN target ELSE {})
        \cup (IF call.form = "callback" /\ ~sc.manualAck /\ ~sc.ackNone /\ ~sc.ordered
              THEN ask("ack", "after-handler", "") ELSE {})
        \cup (IF asksTarget /\ sc.pushOnly # {} /\ \A d \in target : d.choice = "pull"
              THEN ask("pushOnly", "drop", sc.pushOnly) ELSE {})
        \cup (IF call.form = "chan" /\ ~sc.maxAck /\ ~sc.ackNone THEN ask("chanMax", "keep", "") ELSE {})
        \cup (IF IsShared(p, call) THEN ask("shared", "split", "") ELSE {})

Patterns == <<"ack", "chanMax", "pushOnly", "shared", "target">>

Choices(decisions) ==
  LET of(pattern) == {d \in decisions : d.pattern = pattern}
      effective(d) == IF d.choice = "" THEN d.def ELSE d.choice
  IN  [pattern \in RangeOf(Patterns) |->
         IF of(pattern) = {} THEN "" ELSE effective(CHOOSE d \in of(pattern) : TRUE)]

-----------------------------------------------------------------------------
(* The rewrite. *)

(* Mutant: the answer drops the wrapper and writes no policy. *)
AckFieldsForgotten(fields, choices) == fields

(* An answer not to ack replaces the policy of an option. *)
AckFields(fields, choices) ==
  IF choices.ack = "none"
  THEN Append(Filter(fields, LAMBDA f : f.name # "AckPolicy"), Field("AckPolicy", "AckNonePolicy"))
  ELSE fields

Target(choices) == IF choices.pushOnly = "push" THEN "push" ELSE choices.target

(* Mutant: the options stay when a pull consumer is chosen. *)
ConfigWithAll(c, sc, choices) ==
  IF c.form = "pull" THEN Filter(sc.fields, LAMBDA f : ~f.pushOnly)
  ELSE IF sc.ordered THEN sc.fields ELSE AckFields(sc.fields, choices)

(* The fields from the options that the new consumer gets (no call on a    *)
(* channel gets that far).                                                 *)
ConfigFields(c, sc, choices) ==
  LET own == IF c.form = "pull" \/ sc.ordered THEN sc.fields ELSE AckFields(sc.fields, choices)
  IN  IF c.form = "pull" \/ Target(choices) = "pull"
      THEN Filter(own, LAMBDA f : ~f.pushOnly) ELSE own

Names(fields) == {fields[i].name : i \in DOMAIN fields}

(* Fields an ordered consumer's config has. *)
OrderedFields == {"DeliverPolicy", "OptStartSeq", "OptStartTime", "HeadersOnly", "FilterSubjects"}

OrderedConfig(fields, subject) ==
  (IF "FilterSubjects" \in Names(fields)
   THEN Filter(fields, LAMBDA f : f.name = "FilterSubjects")
   ELSE <<Field("FilterSubjects", <<subject>>)>>)
    \o Filter(fields, LAMBDA f : f.name \in OrderedFields \ {"FilterSubjects"})

PullConfig(c, sc, fields) ==
  (IF sc.durable \/ c.durable = "" THEN << >> ELSE <<Field("Durable", c.durable)>>)
    \o fields \o <<Field("FilterSubject", c.subject)>>

(* A push consumer delivers to an inbox that nobody named, and shares its  *)
(* messages in a group.                                                    *)
PushConfig(c, fields) ==
  fields \o (IF "DeliverSubject" \in Names(fields) THEN << >> ELSE <<Field("DeliverSubject", Inbox)>>)
         \o (IF c.queue = "" THEN << >> ELSE <<Field("DeliverGroup", c.queue)>>)
         \o <<Field("FilterSubject", c.subject)>>

(* subscriptionUses: a variable that the call defines may be drained or    *)
(* unsubscribed.  A pull consumer is not, and needs no name when nothing   *)
(* else was done with it.                                                  *)
Stops(c) == {i \in DOMAIN c.uses : c.uses[i] = "stop"}

UseProblems(c) ==
  CASE c.use \in {"statement", "blank"} -> {}
    [] c.use \in {"direct", "stored", "assigned"} -> {"guided"}
    [] c.use = "defined" -> IF Stops(c) = DOMAIN c.uses THEN {} ELSE {"guided"}

(* Mutant: the assignment always defines. *)
StatementDefines(c, pull) ==
  IF c.use # "defined" THEN [name |-> c.use, defines |-> c.errNew, uses |-> 0]
  ELSE IF pull THEN [name |-> "blank", defines |-> TRUE, uses |-> 0]
       ELSE [name |-> "kept", defines |-> TRUE, uses |-> Len(c.uses)]

Statement(c, pull) ==
  IF c.use # "defined" THEN [name |-> c.use, defines |-> c.errNew, uses |-> 0]
  ELSE IF pull /\ c.uses # << >> THEN [name |-> "blank", defines |-> c.errNew, uses |-> 0]
       ELSE [name |-> "kept", defines |-> TRUE, uses |-> Len(c.uses)]

(* The new consumer and how its messages are handled. *)
Rewrite(kind, config, handler, wraps, statement, problems) ==
  [kind |-> kind, config |-> config, handler |-> handler, wraps |-> wraps,
   statement |-> statement, problems |-> problems]

Unwritten(problems) == Rewrite("none", << >>, "none", FALSE, None, problems)

ReceiverProblems(c) == IF c.recv = "refused" THEN {"guided"} ELSE {}

Wraps(sc, choices) == ~sc.manualAck /\ ~sc.ackNone /\ choices.ack = "after-handler"

(* buildSubscribe, consume *)
Build(p, live, c, class, choices) ==
  LET call == p.calls[c]
      sc == Parse(call)
      fields == ConfigFields(call, sc, choices)
      handler == Handler(p, live, c, class, choices)
      base == sc.problems \cup ReceiverProblems(call) \cup UseProblems(call)
      explicit == IF choices.ack = "explicit" THEN {"guided"} ELSE {}
      consumed(kind, config, more) ==
        Rewrite(kind, config, handler.how, Wraps(sc, choices), Statement(call, FALSE),
                base \cup explicit \cup handler.problems \cup more)
      ordered == IF Names(fields) \subseteq OrderedFields THEN {} ELSE {"guided"}
      queued == IF call.queue # "" THEN {"guided"} ELSE {}
  IN  IF \/ call.recv = "expression" \/ Target(choices) = "defer"
         \/ call.form \in {"sync", "chan"}
      THEN Unwritten(sc.problems \cup {"guided"})
      ELSE IF call.form = "pull"
      THEN Rewrite("pull", IF sc.bound THEN << >> ELSE PullConfig(call, sc, fields), "none", FALSE,
                   Statement(call, TRUE), base)
      ELSE IF sc.ordered THEN consumed("ordered", OrderedConfig(fields, call.subject), ordered)
      ELSE IF sc.bound THEN consumed("bound", << >>, {})
      ELSE IF Target(choices) = "push" THEN consumed("push", PushConfig(call, fields), queued)
      ELSE consumed("consumer", Append(fields, Field("FilterSubject", call.subject)), {})

(* settle *)
ClassOf(problems, decisions) ==
  IF "unmapped" \in problems THEN "unmapped"
  ELSE IF "guided" \in problems THEN "guided"
  ELSE IF \E d \in decisions : d.choice = "" THEN "decision"
  ELSE "mechanical"

-----------------------------------------------------------------------------
(* streamFollowUp: the one stream of the code that covers the subject.     *)
FollowUp(p, c) ==
  LET covers == {s \in p.streams : \E pat \in s.subjects : SubjectCovers(pat, p.calls[c].subject)} IN
    IF Cardinality(covers) = 1 /\ ~Parse(p.calls[c]).stream
    THEN (CHOOSE s \in covers : TRUE).name ELSE ""
=============================================================================

---------------------------- MODULE MCSubscriptions ----------------------------
(* Small programs for SubscriptionSteps: one call with options, a few calls *)
(* with handlers, and one call beside the streams that may hold its subject.*)
EXTENDS SubscriptionSteps

MCWords == {"a", "b"}
MCInbox == <<"a", "b">>

FitBody == [params |-> "message", uses |-> {"field", "ackSync"}, sites |-> {"mechanical"}]
Literal == [kind |-> "literal", fn |-> None, body |-> FitBody]
Named(fn) == [kind |-> "function", fn |-> fn, body |-> FitBody]

Plain(form) ==
  [comp |-> "k", form |-> form, subject |-> <<"a">>, queue |-> "", durable |-> "", opts |-> << >>,
   slice |-> FALSE, handler |-> IF form = "callback" THEN Literal ELSE [Literal EXCEPT !.kind = "value"],
   recv |-> "threaded", use |-> "statement", errNew |-> TRUE, uses |-> << >>, within |-> None]

Opt(sym, arg) == [sym |-> sym, arg |-> arg]

Program(calls, order, handlers, streams) ==
  [calls |-> calls, order |-> order, handlers |-> handlers, streams |-> streams]
Single(c) == Program([s |-> c], <<"s">>, << >>, {})

-----------------------------------------------------------------------------
Paired ==
  <<Opt("Durable", "w"), Opt("ConsumerName", "n"), Opt("DeliverSubject", <<"b">>),
    Opt("MaxAckPending", 5), Opt("RateLimit", 1), Opt("IdleHeartbeat", 200), Opt("PullMaxWaiting", 5),
    Opt("ConsumerFilterSubjects", <<<<"a">>, <<"b">>>>), Opt("StartSequence", 7),
    Opt("DeliverLastPerSubject", None), Opt("AckNone", None), Opt("AckAll", None),
    Opt("Bind", None), Opt("OrderedConsumer", None), Opt("ManualAck", None)>>

Alone ==
  <<Opt("MaxAckPending", Unknown), Opt("AckWait", 10), Opt("EnableFlowControl", None),
    Opt("StartTime", "variable"), Opt("StartTime", "expression"), Opt("DeliverNew", None),
    Opt("BindStream", None), Opt("NoCounterpart", None), Opt("Foreign", None),
    Opt("MaxRequestBatch", -1)>>

OptionSets ==
  {<< >>} \cup {<<o>> : o \in RangeOf(Paired) \cup RangeOf(Alone)}
    \cup {<<Paired[x[1]], Paired[x[2]]>> :
            x \in {y \in (DOMAIN Paired) \X (DOMAIN Paired) : y[1] < y[2]}}
    \cup {<<Opt("EnableFlowControl", None), Opt("IdleHeartbeat", 200), Opt("RateLimit", 1)>>,
          <<Opt("BackOff", <<1, 1>>), Opt("MaxDeliver", 3), Opt("HeadersOnly", None)>>,
          <<Opt("AckExplicit", None), Opt("SkipConsumerLookup", None), Opt("MaxRequestBatch", 4)>>}

OptionPrograms ==
  {Single([Plain(f) EXCEPT !.opts = o]) : f \in {"callback", "pull"}, o \in OptionSets}
    \cup {Single([Plain(f) EXCEPT !.queue = "q", !.opts = o]) :
            f \in {"callback", "chan"},
            o \in {<< >>, <<Opt("Bind", None)>>, <<Opt("Durable", "w")>>, <<Opt("ConsumerName", "n")>>}}
    \cup {Single([Plain("sync") EXCEPT !.opts = o]) :
            o \in {<< >>, <<Opt("OrderedConsumer", None)>>, <<Opt("IdleHeartbeat", 200)>>}}
    \cup {Single([Plain("pull") EXCEPT !.durable = "w", !.opts = o]) :
            o \in {<< >>, <<Opt("Durable", "w")>>, <<Opt("ConsumerName", "w")>>, <<Opt("ConsumerName", "n")>>}}
    \cup {Single([Plain("callback") EXCEPT !.slice = TRUE]),
          Single([Plain("callback") EXCEPT !.recv = "refused"]),
          Single([Plain("callback") EXCEPT !.recv = "expression"])}

(* Where the subscription goes. *)
UsePrograms ==
  {Single([Plain(f) EXCEPT !.use = u, !.errNew = e, !.uses = us]) :
     f \in {"callback", "pull"}, u \in {"defined", "assigned", "stored", "direct", "blank"},
     e \in BOOLEAN, us \in {<<"stop">>, <<"stop", "stop">>, <<"stop", "fetch">>, <<"other">>}}

-----------------------------------------------------------------------------
Body(params, uses, sites) == [params |-> params, uses |-> uses, sites |-> sites]

Bodies == {FitBody, Body("unnamed", {}, {}), Body("message", {"assign"}, {}),
           Body("message", {"metadata"}, {"guided"}), Body("several", {}, {})}

Function(core, loaded, body) == [core |-> core, loaded |-> loaded, body |-> body]

With(h) == [Plain("callback") EXCEPT !.handler = h]

(* Two calls of a handler, in one component or two, *)
Sharing ==
  {Program([s |-> [With(Named("h")) EXCEPT !.opts = <<Opt("ManualAck", None)>>],
            t |-> [With(Named("h")) EXCEPT !.comp = k, !.opts = o]],
           <<"s", "t">>, [h |-> Function(core, TRUE, FitBody)], {}) :
     k \in {"k", "l"}, core \in BOOLEAN,
     o \in {<<Opt("Bind", None), Opt("ManualAck", None)>>, <<Opt("AckNone", None)>>,
            <<Opt("NoCounterpart", None), Opt("AckNone", None)>>, <<Opt("OrderedConsumer", None)>>}}

(* one that is named through its package, one call of any other handler,   *)
Handlers ==
  {Program([s |-> With(Named("h")), t |-> With([Named("h") EXCEPT !.kind = "value"])],
           <<"s", "t">>, [h |-> Function(FALSE, TRUE, FitBody)], {})}
    \cup {Program([s |-> With(Named("h"))], <<"s">>, [h |-> Function(core, loaded, b)], {}) :
            core \in BOOLEAN, loaded \in BOOLEAN, b \in Bodies}
    \cup {Single(With([Literal EXCEPT !.body = b])) : b \in Bodies}

(* and a call within the handler of another, before or after it.           *)
Nested ==
  {Program([s |-> [With(IF w = "s" THEN Literal ELSE Named("h")) EXCEPT !.opts = os],
            t |-> [Plain("pull") EXCEPT !.within = w, !.comp = k]],
           o, [h |-> Function(core, TRUE, FitBody)], {}) :
     os \in {<<Opt("ManualAck", None)>>, <<Opt("NoCounterpart", None), Opt("AckNone", None)>>},
     o \in {<<"s", "t">>, <<"t", "s">>}, w \in {"h", "s"}, core \in BOOLEAN, k \in {"k", "l"}}

(* Calls with defaults of their own. *)
Mixed ==
  {Program([s |-> Plain("callback"), t |-> [Plain("callback") EXCEPT !.opts = o],
            u |-> [Plain("callback") EXCEPT !.opts = <<Opt("IdleHeartbeat", 200)>>, !.comp = "l"]],
           <<"t", "s", "u">>, << >>, {}) :
     o \in {<<Opt("Bind", None), Opt("ManualAck", None)>>, <<Opt("RateLimit", 1), Opt("ManualAck", None)>>}}

-----------------------------------------------------------------------------
Patterns2 == {<<"a">>, <<"*">>, <<">">>, <<"a", "b">>, <<"a", ">">>, <<"*", "b">>, <<"a", "*">>}

Streams ==
  {Program([s |-> [Plain("pull") EXCEPT !.subject = subj]], <<"s">>, << >>,
           {[name |-> "one", subjects |-> {p, <<"b", "a">>}], [name |-> "two", subjects |-> {q}]}) :
     subj \in Patterns2, p \in Patterns2, q \in Patterns2}

MCPrograms == OptionPrograms \cup UsePrograms \cup Sharing \cup Handlers \cup Nested \cup Mixed \cup Streams

(* A person answers for one call or for all of one component; of three     *)
(* calls, for all.                                                         *)
MCScopes(p) == CASE Len(p.order) = 1 -> {"site"}
                 [] Len(p.order) = 2 -> {"site", IF p.calls.s.comp = p.calls.t.comp
                                                 THEN "module" ELSE "component"}
                 [] Len(p.order) = 3 -> {"module"}
=============================================================================

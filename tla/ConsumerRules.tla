----------------------------- MODULE ConsumerRules -----------------------------
(***************************************************************************)
(* What natsvet reports of a consumer config that the server rejects       *)
(* (analyzers/consumerconfig, over natsapi/fields.go): each check names    *)
(* its complaint and looks only at fields whose values it knows.           *)
(*                                                                         *)
(* A config is a function from the fields it sets to their values: names,  *)
(* subjects and policies, numbers (durations in milliseconds), sequences   *)
(* for lists, TRUE; and Unknown for what is not a constant.  The checks of *)
(* sizes, of the characters in names, of sampling, of priority groups and  *)
(* of the ack policy for flow control are left out: no subscribe option    *)
(* sets what they look at.                                                 *)
(***************************************************************************)
EXTENDS Integers, Subjects

CONSTANTS Unknown

Numbers == {"MaxAckPending", "MaxDeliver", "MaxWaiting", "RateLimit", "Replicas", "OptStartSeq",
            "AckWait", "IdleHeartbeat", "MaxRequestBatch", "MaxRequestExpires"}
Lists   == {"BackOff", "FilterSubjects", "FilterSubject", "DeliverSubject"}
Zero(f) == IF f \in Numbers THEN 0 ELSE IF f \in Lists THEN << >> ELSE ""

(* Fields: a field that is not set is the zero value. *)
Value(c, f) == IF f \in DOMAIN c THEN c[f] ELSE Zero(f)
Known(c, f) == Value(c, f) # Unknown
Sure(c, f, ok(_)) == Known(c, f) /\ ok(Value(c, f))

Positive(x) == x > 0
Negative(x) == x < 0
NonZero(x)  == x # 0
NotEmpty(x) == x # << >>
On(c, f)    == f \in DOMAIN c /\ c[f] = TRUE

AckPolicy(c)     == IF "AckPolicy" \in DOMAIN c THEN c["AckPolicy"] ELSE "AckExplicitPolicy"
DeliverPolicy(c) == IF "DeliverPolicy" \in DOMAIN c THEN c["DeliverPolicy"] ELSE "DeliverAllPolicy"

(* mode: with a deliver subject it is a push consumer, without one it is   *)
(* a pull consumer.                                                        *)
Push(c) == Sure(c, "DeliverSubject", NotEmpty)
Pull(c) == Known(c, "DeliverSubject") /\ ~Push(c)

Complain(cond, what) == IF cond THEN {what} ELSE {}

-----------------------------------------------------------------------------
CheckNegatives(c) ==
  Complain(Sure(c, "Replicas", Negative), "replicas")
    \cup Complain(/\ Sure(c, "BackOff", NotEmpty)
                  /\ \E i \in DOMAIN Value(c, "BackOff") : Value(c, "BackOff")[i] < 0, "backoff")
    \cup Complain(Sure(c, "AckWait", Negative), "ack wait")

CheckBackOff(c) ==
  Complain(/\ Sure(c, "BackOff", NotEmpty) /\ Sure(c, "MaxDeliver", Positive)
           /\ Len(Value(c, "BackOff")) > Value(c, "MaxDeliver"), "max deliver below backoffs")

CheckPush(c) ==
  LET ds == Value(c, "DeliverSubject") IN
    IF ~Push(c) THEN {}
    ELSE Complain(~SubjectIsLiteral(ds), "deliver wildcard")
           \cup Complain(~IsValidSubject(ds), "deliver subject")
           \cup Complain(Sure(c, "MaxWaiting", NonZero), "push max waiting")
           \cup Complain(Sure(c, "MaxAckPending", Positive) /\ AckPolicy(c) = "AckNonePolicy",
                         "max ack pending without acks")
           \cup Complain(/\ Sure(c, "IdleHeartbeat", Positive)
                         /\ Value(c, "IdleHeartbeat") < 100, "short heartbeat")

CheckPull(c) ==
  IF ~Pull(c) THEN {}
  ELSE Complain(Sure(c, "RateLimit", Positive), "pull rate limit")
         \cup Complain(Sure(c, "MaxWaiting", Negative), "max waiting")
         \cup Complain(Sure(c, "IdleHeartbeat", Positive), "pull heartbeat")
         \cup Complain(On(c, "FlowControl"), "pull flow control")
         \cup Complain(Sure(c, "MaxRequestBatch", Negative), "max request batch")
         \cup Complain(/\ Sure(c, "MaxRequestExpires", NonZero)
                       /\ Value(c, "MaxRequestExpires") < 1, "max request expires")

CheckFilters(c) ==
  LET single == Known(c, "FilterSubject") /\ Value(c, "FilterSubject") # << >>
      multi  == IF Known(c, "FilterSubjects") THEN Value(c, "FilterSubjects") ELSE << >>
      all    == (IF single THEN <<Value(c, "FilterSubject")>> ELSE << >>) \o multi IN
    Complain(single /\ multi # << >>, "both filters")
      \cup Complain(single /\ ~IsValidSubject(Value(c, "FilterSubject")), "filter")
      \cup Complain(\E i \in DOMAIN multi : multi[i] = << >>, "empty filter")
      \cup Complain(\E i \in DOMAIN multi : multi[i] # << >> /\ ~IsValidSubject(multi[i]), "filter")
      \cup Complain(/\ Known(c, "FilterSubjects")
                    /\ \E i, j \in DOMAIN all :
                         /\ i # j /\ all[i] # << >> /\ all[j] # << >>
                         /\ SubjectIsSubsetMatch(all[i], all[j]), "filters overlap")

StartsAt == {"DeliverByStartSequencePolicy", "DeliverByStartTimePolicy"}

CheckDeliverPolicy(c) ==
  LET p == DeliverPolicy(c)
      seq == Sure(c, "OptStartSeq", Positive)
      time == "OptStartTime" \in DOMAIN c IN
    Complain(p \notin StartsAt /\ seq, "start sequence")
      \cup Complain(p \notin StartsAt /\ time, "start time")
      \cup Complain(/\ p = "DeliverLastPerSubjectPolicy"
                    /\ Value(c, "FilterSubject") = << >> /\ Value(c, "FilterSubjects") = << >>,
                    "last per subject without a filter")
      \cup Complain(p = "DeliverByStartSequencePolicy" /\ Value(c, "OptStartSeq") = 0,
                    "no start sequence")
      \cup Complain(p = "DeliverByStartSequencePolicy" /\ time, "start time")
      \cup Complain(p = "DeliverByStartTimePolicy" /\ ~time, "no start time")
      \cup Complain(p = "DeliverByStartTimePolicy" /\ Sure(c, "OptStartSeq", NonZero),
                    "start sequence")

CheckFlowControlHeartbeat(c) ==
  Complain(On(c, "FlowControl") /\ Value(c, "IdleHeartbeat") = 0, "flow control without heartbeat")

CheckDurableName(c) ==
  Complain(/\ Known(c, "Durable") /\ Known(c, "Name")
           /\ "" \notin {Value(c, "Durable"), Value(c, "Name")}
           /\ Value(c, "Durable") # Value(c, "Name"), "durable is not the name")

(* run: every check. *)
Reports(c) ==
  CheckNegatives(c) \cup CheckBackOff(c) \cup CheckPush(c) \cup CheckPull(c) \cup CheckFilters(c)
    \cup CheckDeliverPolicy(c) \cup CheckFlowControlHeartbeat(c) \cup CheckDurableName(c)
=============================================================================

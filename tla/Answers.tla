-------------------------------- MODULE Answers --------------------------------
(***************************************************************************)
(* Decisions, the answers a person records, and what a plan still asks     *)
(* (decisions.go, build.go).  Answers are the sequence of records          *)
(* [pattern, scope, choice] of the file; a scope is <<"module">>, or a     *)
(* component or site, <<"component", id>> and <<"site", id>>.  A decision  *)
(* of a site is a record [pattern, def, reason].                           *)
(***************************************************************************)
EXTENDS Listing, FiniteSets

Options ==
  [target |-> <<"pull", "push", "defer">>,
   ack |-> <<"after-handler", "explicit", "none">>,
   pushOnly |-> <<"drop", "push">>,
   chanMax |-> <<"keep", "server-default">>,
   shared |-> <<"split", "adapter">>,
   component |-> <<"migrate", "skip">>]

OptionsOf(pattern) == {Options[pattern][i] : i \in DOMAIN Options[pattern]}

(* Mutant: a site is not a scope. *)
ReadableWidely(a) ==
  /\ a.pattern \in DOMAIN Options
  /\ a.choice \in OptionsOf(a.pattern)
  /\ a.scope[1] \in {"module", "component"}

(* readDecisions: the answers of a file that is read. *)
Readable(a) ==
  /\ a.pattern \in DOMAIN Options
  /\ a.choice \in OptionsOf(a.pattern)
  /\ a.scope[1] \in {"module", "component", "site"}
  /\ a.pattern = "component" => a.scope[1] # "site"

(* lookup: the answer of the narrowest scope, of equal ones the first. *)
Narrowness(a, pattern, site, comp) ==
  IF a.pattern # pattern THEN 0
  ELSE CASE a.scope = <<"module">>          -> 1
         [] a.scope = <<"component", comp>> -> 2
         [] a.scope = <<"site", site>>      -> 3
         [] OTHER                           -> 0

Lookup(answers, pattern, site, comp) ==
  LET rank(i) == Narrowness(answers[i], pattern, site, comp)
      best == {i \in DOMAIN answers : /\ rank(i) > 0
                 /\ \A j \in DOMAIN answers : rank(i) >= rank(j) /\ (rank(i) = rank(j) => i <= j)}
  IN  IF best = {} THEN "" ELSE answers[CHOOSE i \in best : TRUE].choice

(* effective: the choice, or the default. *)
Effective(answers, d, site, comp) ==
  LET choice == Lookup(answers, d.pattern, site, comp) IN IF choice = "" THEN d.def ELSE choice

-----------------------------------------------------------------------------
(* fill: decisions without an answer, which decisions(site) gives with     *)
(* their choices, are asked once for all sites where the default and the   *)
(* reason are the most common ones of the pattern (the first of equals),   *)
(* and site by site where they are others (the order of those decides      *)
(* nothing).  sites is in file order.                                      *)
Asking(decisions, s, pattern) == {d \in decisions[s] : d.pattern = pattern /\ d.choice = ""}

KeyOf(d) == <<d.def, d.reason>>

KeyAt(decisions, s, pattern) == KeyOf(CHOOSE d \in Asking(decisions, s, pattern) : TRUE)

(* Mutant: each pattern is asked once. *)
PendingOnce(decisions, sites, pattern) ==
  LET asked == Filter(sites, LAMBDA s : Asking(decisions, s, pattern) # {}) IN
    IF asked = << >> THEN << >>
    ELSE <<[pattern |-> pattern, scope |-> <<"module">>,
            def |-> KeyAt(decisions, asked[1], pattern)[1]]>>

Pending(decisions, sites, pattern) ==
  LET asked == Filter(sites, LAMBDA s : Asking(decisions, s, pattern) # {})
      key(i) == KeyAt(decisions, asked[i], pattern)
      count(k) == Cardinality({i \in DOMAIN asked : key(i) = k})
      top == CHOOSE i \in DOMAIN asked : \A j \in DOMAIN asked :
               count(key(i)) >= count(key(j)) /\ (count(key(i)) = count(key(j)) /\ key(i) # key(j) => i < j)
      others == Filter(asked, LAMBDA s : KeyAt(decisions, s, pattern) # key(top))
      entry(scope, k) == [pattern |-> pattern, scope |-> scope, def |-> k[1]]
  IN  IF asked = << >> THEN << >>
      ELSE <<entry(<<"module">>, key(top))>>
             \o [i \in DOMAIN others |-> entry(<<"site", others[i]>>, KeyAt(decisions, others[i], pattern))]
=============================================================================

--------------------------- MODULE SubscriptionProofs ---------------------------
(***************************************************************************)
(* The migration of subscriptions (subscribe.go, classify.go), for all     *)
(* followed programs, answers and orders of steps; and the comparisons of  *)
(* subjects (natsapi/subject.go, subscribe.go), which say what the server  *)
(* would deliver, for all valid subjects over any words: of any length,    *)
(* without tokens that only begin as a wildcard does.                      *)
(***************************************************************************)
EXTENDS SubscriptionSteps, Subjects, Recursions

-----------------------------------------------------------------------------
(* Subjects. *)

Tokens == Words \cup Wildcards \cup {""}

Valid == {s \in Seq(Tokens) : IsValidSubject(s)}

Messages == Seq(Words)

(* All that s is delivered, t is delivered too. *)
Inside(s, t) == \A m \in Messages : Matches(s, m) => Matches(t, m)

-----------------------------------------------------------------------------
LEMMA ValidSubject ==
  ASSUME NEW s \in Valid
  PROVE  /\ s \in Seq(Tokens) /\ Len(s) \in Nat /\ Len(s) > 0 /\ DOMAIN s = 1 .. Len(s)
         /\ \A i \in 1 .. Len(s) : s[i] \in Words \/ s[i] = "*" \/ s[i] = ">"
         /\ \A i \in 1 .. Len(s) : s[i] = ">" => i = Len(s)
<1>1. s \in Seq(Tokens) /\ s # << >>
  BY DEF Valid, IsValidSubject
<1>2. Len(s) \in Nat /\ Len(s) > 0 /\ DOMAIN s = 1 .. Len(s)
  BY <1>1
<1>3. \A i \in 1 .. Len(s) : s[i] \in Tokens
  BY <1>1
<1>4. \A i \in 1 .. Len(s) : s[i] # "" /\ (s[i] = ">" => i = Len(s))
  BY <1>2 DEF Valid, IsValidSubject
<1> QED BY <1>1, <1>2, <1>3, <1>4 DEF Tokens, Wildcards

LEMMA WordsApart ==
  ASSUME NEW w \in Words
  PROVE  w # "*" /\ w # ">" /\ w # "" /\ w # "*a"
BY WordsAssumption

(* A message that a subject receives is as long as it, or longer where the *)
(* subject ends with ">".                                                  *)
LEMMA LengthOf ==
  ASSUME NEW s \in Valid, NEW m \in Messages, Matches(s, m)
  PROVE  /\ Len(m) \in Nat /\ Len(s) <= Len(m)
         /\ s[Len(s)] # ">" => Len(m) = Len(s)
         /\ \A i \in 1 .. Len(s) : s[i] \in Words => s[i] = m[i]
<1>1. Len(s) \in DOMAIN s
  BY ValidSubject
<1>2. Len(m) \in Nat /\ Len(s) \in Nat
  BY ValidSubject DEF Messages
<1>3. Len(s) <= Len(m)
  BY <1>1 DEF Matches
<1>4. s[Len(s)] # ">" => Len(m) = Len(s)
  BY <1>2, <1>3 DEF Matches
<1>5. \A i \in 1 .. Len(s) : s[i] \in Words => s[i] = m[i]
  BY ValidSubject, WordsApart DEF Matches, Wildcards
<1> QED BY <1>2, <1>3, <1>4, <1>5

-----------------------------------------------------------------------------
(* A pattern that covers a subject receives all that the subject does.     *)
LEMMA CoversSound ==
  ASSUME NEW pat \in Valid, NEW subj \in Valid, SubjectCovers(pat, subj),
         NEW m \in Messages, Matches(subj, m)
  PROVE  Matches(pat, m)
<1>1. /\ DOMAIN pat = 1 .. Len(pat) /\ Len(pat) \in Nat /\ Len(pat) > 0
      /\ DOMAIN subj = 1 .. Len(subj) /\ Len(subj) \in Nat /\ Len(subj) > 0
  BY ValidSubject
<1>2. Len(m) \in Nat /\ Len(subj) <= Len(m)
  BY LengthOf
<1>3. ASSUME NEW j \in 1 .. Len(pat), TokenCovered(pat, subj, j)
      PROVE  j <= Len(m) /\ (pat[j] \in Wildcards \/ pat[j] = m[j])
  <2>1. j <= Len(subj) /\ j <= Len(m) /\ j \in DOMAIN subj
    BY <1>1, <1>2, <1>3 DEF TokenCovered
  <2>2. CASE pat[j] = "*"
    BY <2>1, <2>2 DEF Wildcards
  <2>3. CASE pat[j] # "*"
    <3>1. pat[j] = subj[j]
      BY <1>3, <2>3 DEF TokenCovered
    <3>2. subj[j] \in Wildcards \/ subj[j] = m[j]
      BY <2>1 DEF Matches
    <3> QED BY <2>1, <3>1, <3>2
  <2> QED BY <2>2, <2>3
<1>4. CASE \E i \in DOMAIN pat : /\ pat[i] = ">" /\ Len(subj) >= i
                                 /\ \A j \in 1 .. i - 1 : pat[j] # ">" /\ TokenCovered(pat, subj, j)
  <2>1. PICK i \in DOMAIN pat : /\ pat[i] = ">" /\ Len(subj) >= i
                                /\ \A j \in 1 .. i - 1 : TokenCovered(pat, subj, j)
    BY <1>4
  <2>2. i = Len(pat)
    BY <1>1, <2>1, ValidSubject
  <2>3. \A j \in DOMAIN pat : j <= Len(m) /\ (pat[j] \in Wildcards \/ pat[j] = m[j])
    <3> TAKE j \in DOMAIN pat
    <3>1. CASE j = i
      BY <1>1, <1>2, <2>1, <3>1 DEF Wildcards
    <3>2. CASE j # i
      <4>1. j \in 1 .. i - 1 /\ j \in 1 .. Len(pat)
        BY <1>1, <2>2, <3>2
      <4> QED BY <1>3, <2>1, <4>1
    <3> QED BY <3>1, <3>2
  <2> QED BY <2>1, <2>2, <2>3 DEF Matches
<1>5. CASE /\ Len(pat) = Len(subj)
           /\ \A j \in DOMAIN pat : pat[j] # ">" /\ TokenCovered(pat, subj, j)
  <2>1. \A j \in DOMAIN pat : j <= Len(m) /\ (pat[j] \in Wildcards \/ pat[j] = m[j])
    BY <1>1, <1>3, <1>5
  <2>2. Len(subj) \in DOMAIN pat /\ subj[Len(subj)] # ">"
    BY <1>1, <1>5 DEF TokenCovered
  <2>3. Len(m) = Len(subj)
    BY <2>2, LengthOf
  <2> QED BY <1>1, <1>5, <2>1, <2>3 DEF Matches
<1> QED BY <1>4, <1>5 DEF SubjectCovers

-----------------------------------------------------------------------------
(* A message of n tokens that a subject receives, and that fits another    *)
(* one only at tokens that do.                                             *)
Other(t) == CHOOSE w \in Words : w # t

Sample(s, t, n) ==
  [i \in 1 .. n |-> IF i <= Len(s) /\ s[i] \in Words THEN s[i]
                    ELSE IF i <= Len(t) THEN Other(t[i]) ELSE Other("")]

LEMMA OtherWord ==
  ASSUME NEW t
  PROVE  Other(t) \in Words /\ Other(t) # t
<1>1. \E w \in Words : w # t
  BY WordsAssumption
<1> QED BY <1>1 DEF Other

LEMMA SampleMatches ==
  ASSUME NEW s \in Valid, NEW t, NEW n \in Nat, n >= Len(s),
         s[Len(s)] # ">" => n = Len(s)
  PROVE  /\ Sample(s, t, n) \in Messages /\ Len(Sample(s, t, n)) = n
         /\ Matches(s, Sample(s, t, n))
<1> DEFINE m == Sample(s, t, n)
<1>1. \A i \in 1 .. n : m[i] \in Words
  BY OtherWord DEF Sample
<1>2. m \in Messages /\ Len(m) = n /\ DOMAIN m = 1 .. n
  <2>1. m = [i \in 1 .. n |-> m[i]]
    BY DEF Sample
  <2>2. m \in [1 .. n -> Words]
    BY <1>1, <2>1
  <2> QED BY <2>2 DEF Messages
<1>3. \A i \in DOMAIN s : i <= Len(m) /\ (s[i] \in Wildcards \/ s[i] = m[i])
  <2> TAKE i \in DOMAIN s
  <2>1. i \in 1 .. Len(s) /\ Len(s) \in Nat /\ i \in 1 .. n
    BY ValidSubject
  <2>2. s[i] \in Words => m[i] = s[i]
    BY <2>1 DEF Sample
  <2> QED BY <1>2, <2>1, <2>2, ValidSubject DEF Wildcards
<1>4. Len(s) < Len(m) => s[Len(s)] = ">"
  BY <1>2, ValidSubject
<1> QED BY <1>2, <1>3, <1>4 DEF Matches

(* Where the message of a subject does not repeat its word, another        *)
(* subject that receives it has a wildcard.                                *)
LEMMA SampleDiffers ==
  ASSUME NEW s \in Valid, NEW t \in Valid, NEW n \in Nat, n >= Len(s),
         s[Len(s)] # ">" => n = Len(s),
         Matches(t, Sample(s, t, n)), NEW i \in 1 .. Len(t)
  PROVE  i <= n /\ (t[i] \in Wildcards \/ (i <= Len(s) /\ t[i] = s[i]))
<1> DEFINE m == Sample(s, t, n)
<1>1. i \in DOMAIN t /\ i <= Len(m) /\ Len(m) = n
  BY ValidSubject, SampleMatches DEF Matches
<1>2. i \in 1 .. n
  BY <1>1
<1>3. t[i] \in Wildcards \/ t[i] = m[i]
  BY <1>1 DEF Matches
<1>4. m[i] = IF i <= Len(s) /\ s[i] \in Words THEN s[i] ELSE Other(t[i])
  <2>1. i <= Len(t)
    BY ValidSubject
  <2> QED BY <1>2, <2>1 DEF Sample
<1> QED BY <1>2, <1>3, <1>4, OtherWord

(* A pattern that receives all that the subject does covers it.            *)
LEMMA CoversComplete ==
  ASSUME NEW pat \in Valid, NEW subj \in Valid, Inside(subj, pat)
  PROVE  SubjectCovers(pat, subj)
<1>1. /\ DOMAIN pat = 1 .. Len(pat) /\ Len(pat) \in Nat /\ Len(pat) > 0
      /\ DOMAIN subj = 1 .. Len(subj) /\ Len(subj) \in Nat /\ Len(subj) > 0
  BY ValidSubject
<1>2. /\ Sample(subj, pat, Len(subj)) \in Messages
      /\ Len(Sample(subj, pat, Len(subj))) = Len(subj)
      /\ Matches(pat, Sample(subj, pat, Len(subj)))
  <2>1. Len(subj) >= Len(subj)
    BY <1>1
  <2> QED BY <1>1, <2>1, SampleMatches DEF Inside
<1>6. /\ \A i \in 1 .. Len(pat) : pat[i] = ">" => i = Len(pat)
      /\ \A i \in 1 .. Len(subj) : subj[i] = ">" => i = Len(subj)
  BY ValidSubject
<1>3. \A i \in 1 .. Len(pat) : i <= Len(subj) /\ (pat[i] \in Wildcards \/ pat[i] = subj[i])
  <2>1. Len(subj) >= Len(subj)
    BY <1>1
  <2> QED BY <1>1, <1>2, <2>1, SampleDiffers
<1>4. CASE pat[Len(pat)] = ">"
  <2>1. Len(pat) \in DOMAIN pat /\ Len(subj) >= Len(pat)
    BY <1>1, <1>3
  <2>2. \A j \in 1 .. Len(pat) - 1 : pat[j] # ">" /\ TokenCovered(pat, subj, j)
    <3> TAKE j \in 1 .. Len(pat) - 1
    <3>1. j \in 1 .. Len(pat) /\ j < Len(pat) /\ j \in 1 .. Len(subj) /\ j < Len(subj)
      BY <1>1, <2>1
    <3>2. pat[j] # ">" /\ subj[j] # ">"
      BY <1>6, <3>1
    <3> QED BY <1>3, <3>1, <3>2 DEF TokenCovered, Wildcards
  <2> QED BY <1>4, <2>1, <2>2 DEF SubjectCovers
<1>5. CASE pat[Len(pat)] # ">"
  <2>1. Len(pat) = Len(subj)
    BY <1>2, <1>5, LengthOf
  <2>2. subj[Len(subj)] # ">"
    <3> SUFFICES ASSUME subj[Len(subj)] = ">" PROVE FALSE
      OBVIOUS
    <3> DEFINE m == Sample(subj, pat, Len(subj) + 1)
    <3>1. m \in Messages /\ Len(m) = Len(subj) + 1 /\ Matches(subj, m)
      <4>1. Len(subj) + 1 \in Nat /\ Len(subj) + 1 >= Len(subj)
        BY <1>1
      <4> QED BY <4>1, SampleMatches
    <3>2. Matches(pat, m)
      BY <3>1 DEF Inside
    <3> QED BY <1>1, <1>5, <2>1, <3>1, <3>2, LengthOf
  <2>3. \A j \in DOMAIN pat : pat[j] # ">" /\ TokenCovered(pat, subj, j)
    <3> TAKE j \in DOMAIN pat
    <3>1. j \in 1 .. Len(pat) /\ j \in 1 .. Len(subj) /\ j <= Len(subj)
      BY <1>1, <2>1
    <3>2. pat[j] # ">"
      BY <1>5, <1>6, <3>1
    <3>3. subj[j] # ">"
      BY <1>6, <2>2, <3>1
    <3> QED BY <1>3, <3>1, <3>2, <3>3 DEF TokenCovered, Wildcards
  <2> QED BY <2>1, <2>3 DEF SubjectCovers
<1> QED BY <1>4, <1>5

(* subjectCovers: the stream pattern covers the subject of a subscription  *)
(* exactly when the stream takes in all the messages of that subject.      *)
THEOREM SubjectCoversExact ==
  ASSUME NEW pat \in Valid, NEW subj \in Valid
  PROVE  SubjectCovers(pat, subj) <=> Inside(subj, pat)
BY CoversSound, CoversComplete DEF Inside

-----------------------------------------------------------------------------
(* The server's own test and the one for streams say the same.             *)
LEMMA TokensAgree ==
  ASSUME NEW s \in Valid, NEW t \in Valid, NEW i \in 1 .. Len(t), t[i] # ">"
  PROVE  TokenInside(s, t, i) <=> TokenCovered(t, s, i)
<1>1. t[i] \in Words \/ t[i] = "*"
  BY ValidSubject
<1>2. t[i] # "" /\ (BeginsPwc(t[i]) <=> t[i] = "*")
  BY <1>1, WordsApart DEF BeginsPwc
<1>3. CASE i <= Len(s)
  <2>1. i \in 1 .. Len(s)
    BY <1>3, ValidSubject
  <2>2. s[i] \in Words \/ s[i] = "*" \/ s[i] = ">"
    BY <2>1, ValidSubject
  <2>3. s[i] # ""
    BY <2>2, WordsApart
  <2> QED BY <1>1, <1>2, <1>3, <2>2, <2>3, WordsApart DEF TokenInside, TokenCovered
<1>4. CASE ~(i <= Len(s))
  BY <1>4 DEF TokenInside, TokenCovered
<1> QED BY <1>3, <1>4

LEMMA SubsetIsCover ==
  ASSUME NEW s \in Valid, NEW t \in Valid
  PROVE  SubjectIsSubsetMatch(s, t) <=> SubjectCovers(t, s)
<1>1. DOMAIN t = 1 .. Len(t) /\ Len(t) \in Nat
  BY ValidSubject
<1>2. \A i \in DOMAIN t : t[i] # ">" => (TokenInside(s, t, i) <=> TokenCovered(t, s, i))
  BY <1>1, TokensAgree
<1>3. \A i \in DOMAIN t : t[i] = ">" => i = Len(t)
  BY <1>1, ValidSubject
<1>4. \A i \in DOMAIN t : \A j \in 1 .. i - 1 : j \in DOMAIN t /\ t[j] # ">"
  <2> TAKE i \in DOMAIN t
  <2> TAKE j \in 1 .. i - 1
  <2>1. j \in DOMAIN t /\ j < Len(t)
    BY <1>1
  <2> QED BY <1>1, <1>3, <2>1
<1>5. \A i \in DOMAIN t : (\A j \in 1 .. i - 1 : TokenInside(s, t, j))
                            <=> (\A j \in 1 .. i - 1 : t[j] # ">" /\ TokenCovered(t, s, j))
  BY <1>2, <1>4
<1>6. Len(s) = Len(t) <=> Len(t) = Len(s)
  OBVIOUS
<1>7. (\A j \in DOMAIN t : t[j] # ">" /\ TokenInside(s, t, j))
        <=> (\A j \in DOMAIN t : t[j] # ">" /\ TokenCovered(t, s, j))
  BY <1>2
<1>8. \A i \in DOMAIN t : (i <= Len(s)) <=> (Len(s) >= i)
  BY <1>1, ValidSubject
<1> QED BY <1>5, <1>6, <1>7, <1>8 DEF SubjectIsSubsetMatch, SubjectCovers

(* SubjectIsSubsetMatch: filters of a consumer overlap (checkFilters)      *)
(* exactly when one receives all the messages of the other.                *)
THEOREM SubsetMatchExact ==
  ASSUME NEW s \in Valid, NEW t \in Valid
  PROVE  SubjectIsSubsetMatch(s, t) <=> Inside(s, t)
BY SubsetIsCover, SubjectCoversExact

-----------------------------------------------------------------------------
(* A subject without wildcards is the one message that it receives.        *)
LEMMA LiteralMessage ==
  ASSUME NEW s \in Valid, SubjectIsLiteral(s)
  PROVE  /\ s \in Messages /\ Matches(s, s)
         /\ \A m \in Messages : Matches(s, m) => m = s
<1>1. s \in Seq(Tokens) /\ Len(s) \in Nat /\ Len(s) > 0 /\ DOMAIN s = 1 .. Len(s)
  BY ValidSubject
<1>2. \A i \in 1 .. Len(s) : s[i] \in Words
  BY <1>1, ValidSubject DEF SubjectIsLiteral, Wildcards
<1>3. s \in Messages
  <2>1. s \in [1 .. Len(s) -> Words]
    BY <1>1, <1>2
  <2> QED BY <1>1, <2>1 DEF Messages
<1>4. Matches(s, s)
  BY <1>1 DEF Matches
<1>5. ASSUME NEW m \in Messages, Matches(s, m) PROVE m = s
  <2>1. s[Len(s)] # ">"
    <3>1. Len(s) \in 1 .. Len(s)
      BY <1>1
    <3>2. s[Len(s)] \in Words
      BY <1>2, <3>1
    <3> QED BY <3>2, WordsApart
  <2>2. Len(m) = Len(s) /\ \A i \in 1 .. Len(s) : m[i] = s[i]
    BY <1>2, <1>5, <2>1, LengthOf
  <2>3. m \in Seq(Words) /\ s \in Seq(Words)
    BY <1>3 DEF Messages
  <2> QED BY <2>2, <2>3
<1> QED BY <1>3, <1>4, <1>5

Meet(s, t) == \E m \in Messages : Matches(s, m) /\ Matches(t, m)

(* A literal subject meets what receives it.                               *)
LEMMA LiteralMeets ==
  ASSUME NEW s \in Valid, NEW t \in Valid, SubjectIsLiteral(s)
  PROVE  Meet(s, t) <=> Inside(s, t)
BY LiteralMessage DEF Meet, Inside

(* Two subjects with wildcards whose tokens can match share a message: its *)
(* words are those of either subject.                                      *)
CanMeet(s, t) ==
  /\ Len(s) < Len(t) => Has(s, ">")
  /\ Len(t) < Len(s) => Has(t, ">")
  /\ \A i \in 1 .. (IF Len(s) < Len(t) THEN Len(s) ELSE Len(t)) : TokensCanMatch(s[i], t[i])

Common(s, t) ==
  [i \in 1 .. (IF Len(s) < Len(t) THEN Len(t) ELSE Len(s)) |->
     IF i <= Len(s) /\ s[i] \in Words THEN s[i]
     ELSE IF i <= Len(t) /\ t[i] \in Words THEN t[i] ELSE Other("")]

LEMMA CommonMessage ==
  ASSUME NEW s \in Valid, NEW t \in Valid, CanMeet(s, t)
  PROVE  Meet(s, t)
<1> DEFINE n == IF Len(s) < Len(t) THEN Len(t) ELSE Len(s)
           m == Common(s, t)
<1>1. /\ DOMAIN s = 1 .. Len(s) /\ Len(s) \in Nat /\ DOMAIN t = 1 .. Len(t) /\ Len(t) \in Nat
      /\ n \in Nat /\ Len(s) <= n /\ Len(t) <= n
  BY ValidSubject
<1>2. \A i \in 1 .. n : m[i] \in Words
  BY OtherWord DEF Common
<1>3. m \in Messages /\ Len(m) = n
  <2>1. m \in [1 .. n -> Words]
    BY <1>2 DEF Common
  <2> QED BY <1>1, <2>1 DEF Messages
<1>4. Matches(s, m)
  <2>1. \A i \in DOMAIN s : i <= Len(m) /\ (s[i] \in Wildcards \/ s[i] = m[i])
    <3> TAKE i \in DOMAIN s
    <3>1. i \in 1 .. n /\ i <= Len(s) /\ i \in 1 .. Len(s)
      BY <1>1
    <3>2. s[i] \in Words => m[i] = s[i]
      BY <3>1 DEF Common
    <3>3. s[i] \in Words \/ s[i] \in Wildcards
      BY <3>1, ValidSubject DEF Wildcards
    <3> QED BY <1>1, <1>3, <3>1, <3>2, <3>3
  <2>2. Len(s) < Len(m) => s[Len(s)] = ">"
    <3> SUFFICES ASSUME Len(s) < Len(m) PROVE s[Len(s)] = ">"
      OBVIOUS
    <3>1. Len(s) < Len(t)
      BY <1>1, <1>3
    <3>2. PICK i \in DOMAIN s : s[i] = ">"
      BY <3>1 DEF CanMeet, Has
    <3> QED BY <1>1, <3>2, ValidSubject
  <2> QED BY <2>1, <2>2 DEF Matches
<1>5. Matches(t, m)
  <2>1. \A i \in DOMAIN t : i <= Len(m) /\ (t[i] \in Wildcards \/ t[i] = m[i])
    <3> TAKE i \in DOMAIN t
    <3>1. i \in 1 .. n /\ i <= Len(t) /\ i \in 1 .. Len(t)
      BY <1>1
    <3>2. CASE t[i] \in Wildcards
      BY <1>1, <1>3, <3>1, <3>2
    <3>3. CASE t[i] \in Words
      <4>1. CASE i <= Len(s) /\ s[i] \in Words
        <5>1. i \in 1 .. (IF Len(s) < Len(t) THEN Len(s) ELSE Len(t))
          BY <1>1, <3>1, <4>1
        <5>2. TokensCanMatch(s[i], t[i])
          BY <5>1 DEF CanMeet
        <5>3. s[i] = t[i]
          BY <3>3, <4>1, <5>2, WordsApart DEF TokensCanMatch, BeginsPwc
        <5> QED BY <1>3, <3>1, <4>1, <5>3 DEF Common
      <4>2. CASE ~(i <= Len(s) /\ s[i] \in Words)
        <5>1. m[i] = IF i <= Len(s) /\ s[i] \in Words THEN s[i]
                     ELSE IF i <= Len(t) /\ t[i] \in Words THEN t[i] ELSE Other("")
          BY <3>1 DEF Common
        <5>2. m[i] = t[i]
          BY <3>1, <3>3, <4>2, <5>1
        <5> QED BY <1>1, <1>3, <3>1, <5>2
      <4> QED BY <4>1, <4>2
    <3>4. t[i] \in Words \/ t[i] \in Wildcards
      BY <3>1, ValidSubject DEF Wildcards
    <3> QED BY <3>2, <3>3, <3>4
  <2>2. Len(t) < Len(m) => t[Len(t)] = ">"
    <3> SUFFICES ASSUME Len(t) < Len(m) PROVE t[Len(t)] = ">"
      OBVIOUS
    <3>1. Len(t) < Len(s)
      BY <1>1, <1>3
    <3>2. PICK i \in DOMAIN t : t[i] = ">"
      BY <3>1 DEF CanMeet, Has
    <3> QED BY <1>1, <3>2, ValidSubject
  <2> QED BY <2>1, <2>2 DEF Matches
<1> QED BY <1>3, <1>4, <1>5 DEF Meet

LEMMA MeetingTokens ==
  ASSUME NEW s \in Valid, NEW t \in Valid, NEW m \in Messages, Matches(s, m), Matches(t, m)
  PROVE  CanMeet(s, t)
<1>1. /\ DOMAIN s = 1 .. Len(s) /\ Len(s) \in Nat /\ Len(s) > 0
      /\ DOMAIN t = 1 .. Len(t) /\ Len(t) \in Nat /\ Len(t) > 0
  BY ValidSubject
<1>2. /\ Len(m) \in Nat /\ Len(s) <= Len(m) /\ Len(t) <= Len(m)
      /\ s[Len(s)] # ">" => Len(m) = Len(s)
      /\ t[Len(t)] # ">" => Len(m) = Len(t)
  BY LengthOf
<1>3. Len(s) < Len(t) => Has(s, ">")
  BY <1>1, <1>2 DEF Has
<1>4. Len(t) < Len(s) => Has(t, ">")
  BY <1>1, <1>2 DEF Has
<1>5. ASSUME NEW i \in 1 .. (IF Len(s) < Len(t) THEN Len(s) ELSE Len(t))
      PROVE  TokensCanMatch(s[i], t[i])
  <2>1. i \in 1 .. Len(s) /\ i \in 1 .. Len(t)
    BY <1>1
  <2>2. /\ s[i] \in Words \/ s[i] = "*" \/ s[i] = ">"
        /\ t[i] \in Words \/ t[i] = "*" \/ t[i] = ">"
    BY <2>1, ValidSubject
  <2>3. s[i] # "" /\ t[i] # ""
    BY <2>2, WordsApart
  <2>4. s[i] \in Words /\ t[i] \in Words => s[i] = t[i]
    BY <2>1, LengthOf
  <2> QED BY <2>2, <2>3, <2>4 DEF TokensCanMatch, BeginsPwc
<1> QED BY <1>3, <1>4, <1>5 DEF CanMeet

(* SubjectsCollide: two subjects collide exactly when some message is for  *)
(* both.                                                                   *)
THEOREM SubjectsCollideExact ==
  ASSUME NEW s \in Valid, NEW t \in Valid
  PROVE  SubjectsCollide(s, t) <=> Meet(s, t)
<1>1. CASE SubjectIsLiteral(s) /\ SubjectIsLiteral(t)
  <2>1. SubjectsCollide(s, t) <=> s = t
    BY <1>1 DEF SubjectsCollide
  <2>2. Meet(s, t) <=> s = t
    BY <1>1, LiteralMessage DEF Meet
  <2> QED BY <2>1, <2>2
<1>2. CASE SubjectIsLiteral(s) /\ ~SubjectIsLiteral(t)
  <2>1. SubjectsCollide(s, t) <=> SubjectIsSubsetMatch(s, t)
    BY <1>2 DEF SubjectsCollide
  <2> QED BY <1>2, <2>1, SubsetMatchExact, LiteralMeets
<1>3. CASE ~SubjectIsLiteral(s) /\ SubjectIsLiteral(t)
  <2>1. SubjectsCollide(s, t) <=> SubjectIsSubsetMatch(t, s)
    BY <1>3 DEF SubjectsCollide
  <2>2. Meet(s, t) <=> Meet(t, s)
    BY DEF Meet
  <2> QED BY <1>3, <2>1, <2>2, SubsetMatchExact, LiteralMeets
<1>4. CASE ~SubjectIsLiteral(s) /\ ~SubjectIsLiteral(t)
  <2>1. SubjectsCollide(s, t) <=> s = t \/ CanMeet(s, t)
    BY <1>4 DEF SubjectsCollide, CanMeet
  <2>2. s = t => Meet(s, t)
    <3>1. Len(s) \in Nat /\ Len(s) >= Len(s)
      BY ValidSubject
    <3>2. Sample(s, s, Len(s)) \in Messages /\ Matches(s, Sample(s, s, Len(s)))
      BY <3>1, SampleMatches
    <3> QED BY <3>2 DEF Meet
  <2>3. CanMeet(s, t) => Meet(s, t)
    BY CommonMessage
  <2>4. Meet(s, t) => CanMeet(s, t)
    BY MeetingTokens DEF Meet
  <2> QED BY <2>1, <2>2, <2>3, <2>4
<1> QED BY <1>1, <1>2, <1>3, <1>4


-----------------------------------------------------------------------------
(* Lists. *)

(* The elements of S, each once. *)
Enumerates(s, S) ==
  /\ s \in Seq(S) /\ \A x \in S : \E k \in DOMAIN s : s[k] = x
  /\ \A j, k \in DOMAIN s : s[j] = s[k] => j = k

(* A filter of a list without repetitions has none.                        *)
LEMMA FilterOnce ==
  ASSUME NEW V, NEW seq, Enumerates(seq, V), NEW S \in SUBSET V
  PROVE  Enumerates(Concat([i \in DOMAIN seq |-> IF seq[i] \in S THEN <<seq[i]>> ELSE << >>]), S)
<1> DEFINE at == {i \in DOMAIN seq : seq[i] \in S}
           s == Concat(FilterParts(seq, at))
<1>1. [i \in DOMAIN seq |-> IF seq[i] \in S THEN <<seq[i]>> ELSE << >>] = FilterParts(seq, at)
  BY DEF FilterParts
<1>2. seq \in Seq(V) /\ at \in SUBSET DOMAIN seq
  BY DEF Enumerates
<1>3. s \in Seq(V) /\ \E m : Places(s, seq, at, m)
  <2> HIDE DEF at
  <2> QED
    BY <1>2, FilterPlaces
<1> HIDE DEF s
<1>4. PICK m : Places(s, seq, at, m)
  BY <1>3
<1>5. DOMAIN s = 1 .. Len(s) /\ Len(s) \in Nat
  BY <1>3
<1>6. \A k \in DOMAIN s : m[k] \in DOMAIN seq /\ s[k] = seq[m[k]] /\ s[k] \in S
  BY <1>4 DEF Places
<1>7. s \in Seq(S)
  BY <1>3, <1>6
<1>8. \A x \in S : \E k \in DOMAIN s : s[k] = x
  <2> TAKE x \in S
  <2>1. PICK i \in at : seq[i] = x
    BY DEF Enumerates
  <2> QED
    BY <1>4, <2>1 DEF Places
<1>9. ASSUME NEW j \in DOMAIN s, NEW k \in DOMAIN s, s[j] = s[k] PROVE j = k
  <2>1. m[j] = m[k]
    BY <1>6, <1>9 DEF Enumerates
  <2>2. m[j] \in Nat
    BY <1>2, <1>6
  <2>3. ~(j < k) /\ ~(k < j)
    BY <1>4, <2>1, <2>2 DEF Places
  <2> QED
    BY <1>5, <2>3
<1> QED
  BY <1>1, <1>7, <1>8, <1>9 DEF Enumerates, s

LEMMA OrderLists ==
  ASSUME NEW p, Followed(p)
  PROVE  Enumerates(p.order, DOMAIN p.calls)
<1>1. p.order \in Seq(DOMAIN p.calls)
  BY DEF Followed
<1>2. \A c \in DOMAIN p.calls : \E i \in DOMAIN p.order : \A j \in DOMAIN p.order : p.order[j] = c <=> j = i
  BY DEF Followed, CallFollowed
<1>3. \A i \in DOMAIN p.order : p.order[i] \in DOMAIN p.calls
  BY <1>1
<1> QED
  BY <1>1, <1>2, <1>3 DEF Enumerates

LEMMA SortedLists ==
  ASSUME NEW p, Followed(p), NEW S \in SUBSET DOMAIN p.calls
  PROVE  Enumerates(Sorted(p, S), S)
<1>1. Sorted(p, S) = Concat([i \in DOMAIN p.order |-> IF p.order[i] \in S THEN <<p.order[i]>> ELSE << >>])
  BY DEF Sorted, Filter
<1> QED
  BY <1>1, FilterOnce, OrderLists

LEMMA ListedFinite ==
  ASSUME NEW S, NEW s, Enumerates(s, S)
  PROVE  IsFiniteSet(S)
<1>1. s \in Seq(S) /\ DOMAIN s = 1 .. Len(s) /\ Len(s) \in Nat
  BY DEF Enumerates
<1>2. s \in Surjection(1 .. Len(s), S)
  BY <1>1 DEF Enumerates, Surjection
<1>3. IsFiniteSet(1 .. Len(s))
  BY <1>1, FS_Interval
<1> QED
  BY <1>2, <1>3, FS_Surjection

-----------------------------------------------------------------------------
(* What the planner makes of the calls. *)

ClassNames == {"mechanical", "decision", "guided", "unmapped"}

(* What v makes of c was made with the classes that v gives the calls D.   *)
SeenWith(p, live, ans, v, c, D) == v[c] = Seen(p, live, ans, c, [d \in D |-> v[d].class])

(* The calls D are seen, with classes of each other. *)
SeesSome(p, live, ans, D, x) ==
  /\ x = [c \in D |-> x[c]]
  /\ \A c \in D : x[c].class \in ClassNames /\ \E E \in SUBSET D : SeenWith(p, live, ans, x, c, E)

SeesAll(p, live, ans, v) == SeesSome(p, live, ans, live, v)

LEMMA SeenClass ==
  ASSUME NEW p, NEW live, NEW ans, NEW c, NEW k
  PROVE  /\ Seen(p, live, ans, c, k).class \in ClassNames
         /\ Seen(p, live, ans, c, k).decisions = Decisions(p, ans, c)
         /\ Seen(p, live, ans, c, k).choices = Choices(Decisions(p, ans, c))
         /\ Seen(p, live, ans, c, k).to = Build(p, live, c, k, Choices(Decisions(p, ans, c)))
         /\ Seen(p, live, ans, c, k).class =
              ClassOf(Build(p, live, c, k, Choices(Decisions(p, ans, c))).problems, Decisions(p, ans, c))
BY DEF Seen, ClassOf, ClassNames

(* One call more is seen. *)
OneSeen(p, live, ans, c, x) ==
  [d \in DOMAIN x \cup {c} |->
     IF d = c THEN Seen(p, live, ans, d, [e \in DOMAIN x |-> x[e].class]) ELSE x[d]]

SeenLoop(p, live, ans, order, g) ==
  g = [n \in 0 .. Len(order) |-> IF n = 0 THEN << >> ELSE OneSeen(p, live, ans, order[n], g[n - 1])]

LEMMA SeenLoops ==
  ASSUME NEW p, NEW live, NEW ans, NEW order, Enumerates(order, live)
  PROVE  \E g : SeenLoop(p, live, ans, order, g)
<1> DEFINE n == Len(order)
           K == UNION {[D -> ClassNames] : D \in SUBSET live}
           R == {Seen(p, live, ans, cd[1], cd[2]) : cd \in live \X K}
           V == UNION {[D -> R] : D \in SUBSET live}
           step == [i \in 1 .. n |-> [x \in V |-> OneSeen(p, live, ans, order[i], x)]]
<1>1. n \in Nat /\ DOMAIN order = 1 .. n /\ \A i \in 1 .. n : order[i] \in live
  BY DEF Enumerates
<1>2. ASSUME NEW x \in V, NEW c \in live PROVE OneSeen(p, live, ans, c, x) \in V
  <2>1. PICK D \in SUBSET live : x \in [D -> R]
    OBVIOUS
  <2>2. \A r \in R : r.class \in ClassNames
    BY SeenClass
  <2> DEFINE k == [e \in D |-> x[e].class]
             y == OneSeen(p, live, ans, c, x)
  <2>3. k \in [D -> ClassNames]
    <3> HIDE DEF R
    <3> QED
      BY <2>1, <2>2
  <2>4. k \in K
    BY <2>3
  <2>5. Seen(p, live, ans, c, k) \in R
    <3>1. <<c, k>> \in live \X K
      BY <2>4
    <3> HIDE DEF K, k
    <3> QED
      BY <3>1
  <2>6. DOMAIN x = D /\ \A d \in D : x[d] \in R
    <3> HIDE DEF R
    <3> QED
      BY <2>1
  <2>7. y = [d \in D \cup {c} |-> IF d = c THEN Seen(p, live, ans, d, k) ELSE x[d]]
    BY <2>6 DEF OneSeen
  <2> HIDE DEF R, k, y
  <2>8. y \in [D \cup {c} -> R]
    BY <2>5, <2>6, <2>7
  <2>9. D \cup {c} \in SUBSET live
    OBVIOUS
  <2> QED
    BY <2>8, <2>9 DEF y
<1>3. << >> \in V
  <2>1. << >> \in [{} -> R]
    <3> HIDE DEF R
    <3> QED
      OBVIOUS
  <2>2. {} \in SUBSET live
    OBVIOUS
  <2> HIDE DEF R
  <2> QED
    BY <2>1, <2>2
<1> HIDE DEF V
<1>4. Counts(n, V, << >>, step)
  BY <1>1, <1>2, <1>3 DEF Counts
<1>5. PICK g : Counted(g, n, V, << >>, step)
  <2> HIDE DEF n, step
  <2> QED
    BY <1>4, RecursionOnNumbers
<1>6. g \in [0 .. n -> V] /\ g[0] = << >> /\ \A i \in 1 .. n : g[i] = step[i][g[i - 1]]
  BY <1>5 DEF Counted
<1>7. ASSUME NEW i \in 0 .. n
      PROVE  g[i] = IF i = 0 THEN << >> ELSE OneSeen(p, live, ans, order[i], g[i - 1])
  <2>1. CASE i = 0
    BY <1>6, <2>1
  <2>2. CASE i # 0
    <3>1. i \in 1 .. n /\ i - 1 \in 0 .. n
      BY <1>1, <2>2
    <3>2. g[i - 1] \in V
      BY <1>6, <3>1
    <3>3. step[i][g[i - 1]] = OneSeen(p, live, ans, order[i], g[i - 1])
      BY <3>1, <3>2
    <3> HIDE DEF step
    <3> QED
      BY <1>6, <2>2, <3>1, <3>3
  <2> QED
    BY <2>1, <2>2
<1>8. g = [i \in 0 .. n |-> g[i]]
  BY <1>6
<1> QED
  BY <1>7, <1>8 DEF SeenLoop

LEMMA OneSeenMore ==
  ASSUME NEW p, NEW live, NEW ans, NEW D \in SUBSET live, NEW x, SeesSome(p, live, ans, D, x),
         NEW c \in live, c \notin D
  PROVE  SeesSome(p, live, ans, D \cup {c}, OneSeen(p, live, ans, c, x))
<1> DEFINE y == OneSeen(p, live, ans, c, x)
<1>1. DOMAIN x = D
  BY DEF SeesSome
<1>2. /\ y = [d \in D \cup {c} |-> y[d]] /\ \A d \in D : y[d] = x[d]
      /\ y[c] = Seen(p, live, ans, c, [e \in D |-> x[e].class])
  BY <1>1 DEF OneSeen
<1>3. y[c].class \in ClassNames
  BY <1>2, SeenClass
<1>4. SeenWith(p, live, ans, y, c, D)
  <2>1. [e \in D |-> x[e].class] = [e \in D |-> y[e].class]
    BY <1>2
  <2> QED
    BY <1>2, <2>1 DEF SeenWith
<1>5. ASSUME NEW d \in D, NEW E \in SUBSET D, SeenWith(p, live, ans, x, d, E)
      PROVE  SeenWith(p, live, ans, y, d, E)
  <2>1. [e \in E |-> x[e].class] = [e \in E |-> y[e].class]
    BY <1>2
  <2> QED
    BY <1>2, <1>5, <2>1 DEF SeenWith
<1> HIDE DEF y
<1>6. SeesSome(p, live, ans, D \cup {c}, y)
  BY <1>2, <1>3, <1>4, <1>5 DEF SeesSome
<1> QED
  BY <1>6 DEF y

(* The planner sees all live calls, in file order.                         *)
LEMMA ClassifiedSees ==
  ASSUME NEW p, Followed(p), NEW live \in SUBSET DOMAIN p.calls, NEW ans
  PROVE  SeesAll(p, live, ans, Classified(p, live, ans))
<1> DEFINE order == Sorted(p, live)
           n == Len(order)
           to(i) == {order[k] : k \in 1 .. i}
           Right(x, i) == SeesSome(p, live, ans, to(i), x)
<1>1. Enumerates(order, live)
  BY SortedLists
<1>2. PICK g : SeenLoop(p, live, ans, order, g) /\ Classified(p, live, ans) = g[n]
  <2>1. Classified(p, live, ans) = (CHOOSE g : SeenLoop(p, live, ans, order, g))[n]
    BY DEF Classified, SeenLoop, OneSeen
  <2> HIDE DEF order
  <2> QED
    BY <1>1, <2>1, SeenLoops
<1> HIDE DEF order
<1>3. n \in Nat /\ DOMAIN order = 1 .. n /\ \A i \in 1 .. n : order[i] \in live
  BY <1>1 DEF Enumerates
<1>4. g[0] = << >> /\ \A i \in 1 .. n : g[i] = OneSeen(p, live, ans, order[i], g[i - 1])
  BY <1>2, <1>3 DEF SeenLoop
<1>5. to(n) = live
  <2>1. to(n) \in SUBSET live
    BY <1>3
  <2> QED
    BY <1>1, <1>3, <2>1 DEF Enumerates
<1> DEFINE wrong == {i \in 0 .. n : ~Right(g[i], i)}
<1>6. SUFFICES ASSUME wrong # {} PROVE FALSE
  <2>1. ASSUME wrong = {} PROVE Right(g[n], n)
    <3>1. n \in 0 .. n
      BY <1>3
    <3> HIDE DEF Right, n
    <3> QED
      BY <2>1, <3>1
  <2> HIDE DEF wrong, to
  <2> QED
    BY <1>2, <1>5, <2>1 DEF SeesAll
<1>7. PICK i \in wrong : \A j \in wrong : i <= j
  <2>1. wrong \in SUBSET Nat
    OBVIOUS
  <2> HIDE DEF wrong
  <2> QED
    BY <1>6, <2>1, LeastNat
<1>8. i # 0
  <2>1. to(0) = {}
    OBVIOUS
  <2>2. << >> = [c \in {} |-> << >>[c]]
    OBVIOUS
  <2>3. Right(<< >>, 0)
    <3> HIDE DEF to
    <3> QED
      BY <2>1, <2>2 DEF SeesSome
  <2> HIDE DEF Right
  <2> QED
    BY <1>4, <1>7, <2>3
<1>9. i \in 1 .. n /\ i - 1 \in 0 .. n /\ i - 1 \notin wrong
  <2>1. i \in 0 .. n
    BY <1>7
  <2> HIDE DEF wrong
  <2> QED
    BY <1>3, <1>7, <1>8, <2>1
<1>10. Right(g[i - 1], i - 1)
  <2> HIDE DEF Right
  <2> QED
    BY <1>9
<1>11. to(i) = to(i - 1) \cup {order[i]} /\ to(i - 1) \in SUBSET live
  <2>1. \A k \in 1 .. i : k = i \/ k \in 1 .. i - 1
    BY <1>3, <1>9
  <2>2. \A k \in 1 .. i - 1 : k \in 1 .. i /\ order[k] \in live
    BY <1>3, <1>9
  <2>3. i \in 1 .. i
    BY <1>3, <1>9
  <2> QED
    BY <2>1, <2>2, <2>3
<1>12. order[i] \in live /\ order[i] \notin to(i - 1)
  <2>1. \A k \in 1 .. i - 1 : k \in 1 .. n /\ k # i
    BY <1>3, <1>9
  <2> QED
    BY <1>1, <1>3, <1>9, <2>1 DEF Enumerates
<1>13. g[i] = OneSeen(p, live, ans, order[i], g[i - 1])
  BY <1>4, <1>9
<1>14. Right(g[i], i)
  <2> HIDE DEF to
  <2> QED
    BY <1>10, <1>11, <1>12, <1>13, OneSeenMore
<1> HIDE DEF Right
<1> QED
  BY <1>7, <1>14

(* A rewrite b without problems for a person: what it consists of.         *)
Consists(b, call, ch, h) ==
  /\ b.handler # "none" => b.handler = h.how
  /\ "guided" \notin b.problems /\ call.form = "pull" =>
       /\ b.kind = "pull" /\ ~b.wraps /\ b.handler = "none" /\ b.statement = Statement(call, TRUE)
  /\ "guided" \notin b.problems /\ call.form # "pull" =>
       /\ call.form = "callback" /\ ch.ack # "explicit" /\ "guided" \notin h.problems
       /\ b.handler = h.how /\ b.wraps = Wraps(Parse(call), ch)
       /\ b.statement = Statement(call, FALSE)

LEMMA BuildParts ==
  ASSUME NEW p, NEW live, NEW c, CallFollowed(p, c), NEW k, NEW ch
  PROVE  Consists(Build(p, live, c, k, ch), p.calls[c], ch, Handler(p, live, c, k, ch))
<1> DEFINE b == Build(p, live, c, k, ch)
           h == Handler(p, live, c, k, ch)
           call == p.calls[c]
           sc == Parse(call)
           fields == ConfigFields(call, sc, ch)
           base == sc.problems \cup ReceiverProblems(call) \cup UseProblems(call)
           explicit == IF ch.ack = "explicit" THEN {"guided"} ELSE {}
           consumed(kind, config, more) ==
             Rewrite(kind, config, h.how, Wraps(sc, ch), Statement(call, FALSE),
                     base \cup explicit \cup h.problems \cup more)
           ordered == IF Names(fields) \subseteq OrderedFields THEN {} ELSE {"guided"}
           queued == IF call.queue # "" THEN {"guided"} ELSE {}
<1>1. b = IF \/ call.recv = "expression" \/ Target(ch) = "defer"
             \/ call.form \in {"sync", "chan"}
          THEN Unwritten(sc.problems \cup {"guided"})
          ELSE IF call.form = "pull"
          THEN Rewrite("pull", IF sc.bound THEN << >> ELSE PullConfig(call, sc, fields), "none", FALSE,
                       Statement(call, TRUE), base)
          ELSE IF sc.ordered THEN consumed("ordered", OrderedConfig(fields, call.subject), ordered)
          ELSE IF sc.bound THEN consumed("bound", << >>, {})
          ELSE IF Target(ch) = "push" THEN consumed("push", PushConfig(call, fields), queued)
          ELSE consumed("consumer", Append(fields, Field("FilterSubject", call.subject)), {})
  BY DEF Build
<1>2. call.form \in {"callback", "sync", "chan", "pull"}
  BY DEF CallFollowed
<1>0. SUFFICES Consists(b, call, ch, h)
  OBVIOUS
<1> HIDE DEF b, h, sc, fields, base, explicit, ordered, queued, call
<1>3. ASSUME NEW kind, NEW config, NEW more, b = consumed(kind, config, more)
      PROVE  /\ b.handler = h.how /\ b.wraps = Wraps(sc, ch) /\ b.statement = Statement(call, FALSE)
             /\ "guided" \notin b.problems => "guided" \notin explicit /\ "guided" \notin h.problems
  BY <1>3 DEF Rewrite
<1>4. "guided" \notin explicit => ch.ack # "explicit"
  BY DEF explicit
<1>5. CASE b = Unwritten(sc.problems \cup {"guided"})
  BY <1>5 DEF Unwritten, Rewrite, Consists
<1>6. CASE /\ call.form = "pull"
           /\ b = Rewrite("pull", IF sc.bound THEN << >> ELSE PullConfig(call, sc, fields), "none", FALSE,
                          Statement(call, TRUE), base)
  BY <1>6 DEF Rewrite, Consists
<1>7. CASE /\ call.form = "callback"
           /\ \E kind, config, more : b = consumed(kind, config, more)
  <2>1. PICK kind, config, more : b = consumed(kind, config, more)
    BY <1>7
  <2> HIDE DEF consumed
  <2> QED
    BY <1>3, <1>4, <1>7, <2>1 DEF sc, Consists
<1> HIDE DEF consumed
<1> QED
  BY <1>1, <1>2, <1>5, <1>6, <1>7

(* What a plan shows of a call: what was made of it, with the class of the *)
(* call in whose handler it is.                                            *)
LEMMA ViewParts ==
  ASSUME NEW p, Followed(p), NEW live \in SUBSET DOMAIN p.calls, NEW ans,
         NEW v, SeesAll(p, live, ans, v), NEW c \in live
  PROVE  /\ DOMAIN View(p, v) = live
         /\ View(p, v)[c].to = v[c].to /\ View(p, v)[c].choices = v[c].choices
         /\ View(p, v)[c].decisions = v[c].decisions
         /\ View(p, v)[c].class \in ClassNames
         /\ Owners(p, live, c) = {} => View(p, v)[c].class = v[c].class
<1>1. v = [d \in live |-> v[d]] /\ \A d \in live : v[d].class \in ClassNames
  BY DEF SeesAll, SeesSome
<1> DEFINE owners == Sorted(p, Owners(p, live, c))
<1>2. Enumerates(owners, Owners(p, live, c)) /\ Owners(p, live, c) \in SUBSET live
  BY SortedLists DEF Owners
<1> HIDE DEF owners
<1>3. DOMAIN View(p, v) = live /\ View(p, v)[c] = Owning(p, c, v)
  BY <1>1 DEF View
<1>4. Owning(p, c, v) = IF owners = << >> THEN v[c]
                        ELSE [v[c] EXCEPT !.class = v[owners[Len(owners)]].class]
  <2>1. DOMAIN v = live
    BY <1>1
  <2> QED
    BY <2>1 DEF Owning, owners
<1>5. PICK D : v[c] = Seen(p, live, ans, c, [d \in D |-> v[d].class])
  BY DEF SeesAll, SeesSome, SeenWith
<1>6. DOMAIN v[c] = {"decisions", "choices", "to", "class"}
  BY <1>5 DEF Seen
<1>7. Owners(p, live, c) = {} => owners = << >>
  BY <1>2 DEF Enumerates
<1>8. owners # << >> => v[owners[Len(owners)]].class \in ClassNames
  <2>1. owners # << >> => owners[Len(owners)] \in live
    BY <1>2 DEF Enumerates
  <2> QED
    BY <1>1, <2>1
<1> QED
  BY <1>1, <1>3, <1>4, <1>6, <1>7, <1>8

(* What was seen of a call, and with the class of which others. *)
LEMMA SeenParts ==
  ASSUME NEW p, NEW live, NEW ans, NEW v, SeesAll(p, live, ans, v), NEW c \in live
  PROVE  \E D \in SUBSET live : \E k :
           /\ k = [d \in D |-> v[d].class]
           /\ v[c].decisions = Decisions(p, ans, c) /\ v[c].choices = Choices(Decisions(p, ans, c))
           /\ v[c].to = Build(p, live, c, k, Choices(Decisions(p, ans, c)))
           /\ v[c].class = ClassOf(v[c].to.problems, v[c].decisions)
<1>1. PICK D \in SUBSET live : SeenWith(p, live, ans, v, c, D)
  BY DEF SeesAll, SeesSome
<1> DEFINE k == [d \in D |-> v[d].class]
<1>2. v[c] = Seen(p, live, ans, c, k)
  BY <1>1 DEF SeenWith
<1> HIDE DEF k
<1>3. /\ v[c].decisions = Decisions(p, ans, c) /\ v[c].choices = Choices(Decisions(p, ans, c))
      /\ v[c].to = Build(p, live, c, k, Choices(Decisions(p, ans, c)))
      /\ v[c].class = ClassOf(v[c].to.problems, v[c].decisions)
  BY <1>2, SeenClass
<1> QED
  BY <1>3 DEF k

LEMMA MechanicalClass ==
  ASSUME NEW problems, NEW ds, ClassOf(problems, ds) = "mechanical"
  PROVE  "guided" \notin problems /\ "unmapped" \notin problems /\ \A d \in ds : d.choice # ""
BY DEF ClassOf

(* The five handlers. *)
LEMMA HandlerCases ==
  ASSUME NEW p, NEW live, NEW c, NEW k, NEW ch, NEW f, f = p.calls[c].handler,
         NEW h, h = Handler(p, live, c, k, ch)
  PROVE  /\ f.kind = "literal" =>
              h.how = "literal" /\ h.problems = HandlerProblems(p, live, c, k, f.body)
         /\ IsShared(p, p.calls[c]) /\ ch.shared = "adapter" => h.how = "adapter" /\ h.problems = {}
         /\ IsShared(p, p.calls[c]) /\ ch.shared # "adapter" =>
              h.how = "split" /\ h.problems = HandlerProblems(p, live, c, k, p.handlers[f.fn].body)
         /\ IsFunction(p, p.calls[c]) /\ ~IsShared(p, p.calls[c]) =>
              h.how = "inPlace" /\ h.problems = HandlerProblems(p, live, c, k, p.handlers[f.fn].body)
         /\ f.kind # "literal" /\ ~IsFunction(p, p.calls[c]) => h.how = "none" /\ h.problems = {"guided"}
<1>1. IsShared(p, p.calls[c]) => IsFunction(p, p.calls[c])
  BY DEF IsShared
<1>2. IsFunction(p, p.calls[c]) => f.kind = "function"
  BY DEF IsFunction
<1>3. CASE f.kind = "literal"
  <2>1. h = Handled("literal", HandlerProblems(p, live, c, k, f.body))
    BY <1>1, <1>2, <1>3 DEF Handler
  <2> QED
    BY <1>1, <1>2, <1>3, <2>1 DEF Handled
<1>4. CASE IsShared(p, p.calls[c]) /\ ch.shared = "adapter"
  <2>1. h = Handled("adapter", {})
    BY <1>1, <1>2, <1>4 DEF Handler
  <2> QED
    BY <1>1, <1>2, <1>4, <2>1 DEF Handled
<1>5. CASE IsShared(p, p.calls[c]) /\ ch.shared # "adapter"
  <2>1. h = Handled("split", HandlerProblems(p, live, c, k, p.handlers[f.fn].body))
    BY <1>1, <1>2, <1>5 DEF Handler
  <2> QED
    BY <1>1, <1>2, <1>5, <2>1 DEF Handled
<1>6. CASE IsFunction(p, p.calls[c]) /\ ~IsShared(p, p.calls[c])
  <2>1. h = Handled("inPlace", HandlerProblems(p, live, c, k, p.handlers[f.fn].body))
    BY <1>1, <1>2, <1>6 DEF Handler
  <2> QED
    BY <1>1, <1>2, <1>6, <2>1 DEF Handled
<1>7. CASE f.kind # "literal" /\ ~IsFunction(p, p.calls[c])
  <2>1. h = Handled("none", {"guided"})
    BY <1>1, <1>2, <1>7 DEF Handler
  <2> QED
    BY <1>1, <1>2, <1>7, <2>1 DEF Handled
<1> QED
  BY <1>1, <1>2, <1>3, <1>4, <1>5, <1>6, <1>7

(* The handler of a call that an edit rewrites holds mechanical calls.     *)
LEMMA MechanicalWithin ==
  ASSUME NEW p, Followed(p), NEW live \in SUBSET DOMAIN p.calls, NEW ans,
         NEW v, SeesAll(p, live, ans, v), NEW d \in live, v[d].class = "mechanical",
         NEW c \in Within(p, live, d), ~IsShared(p, p.calls[d])
  PROVE  v[c].class = "mechanical"
<1> DEFINE call == p.calls[d]
           ch == Choices(Decisions(p, ans, d))
<1>1. CallFollowed(p, d)
  BY DEF Followed
<1>2. call.handler.kind \in {"function", "literal"} /\ call.form # "pull"
  <2>1. c \in Within(p, DOMAIN p.calls, d)
    BY DEF Within
  <2> QED
    BY <1>1, <2>1 DEF CallFollowed
<1>3. PICK D \in SUBSET live : \E k :
        /\ k = [x \in D |-> v[x].class]
        /\ v[d].to = Build(p, live, d, k, ch)
        /\ v[d].class = ClassOf(v[d].to.problems, v[d].decisions)
  BY SeenParts
<1>4. PICK k : /\ k = [x \in D |-> v[x].class]
               /\ v[d].to = Build(p, live, d, k, ch)
               /\ v[d].class = ClassOf(v[d].to.problems, v[d].decisions)
  BY <1>3
<1> DEFINE h == Handler(p, live, d, k, ch)
<1>5. "guided" \notin v[d].to.problems
  BY <1>4, MechanicalClass
<1> HIDE DEF h, ch
<1>6. "guided" \notin h.problems
  <2> DEFINE b == v[d].to
  <2>1. b = Build(p, live, d, k, ch) /\ h = Handler(p, live, d, k, ch) /\ "guided" \notin b.problems
    BY <1>4, <1>5 DEF h
  <2>2. p.calls[d].form # "pull"
    BY <1>2
  <2>3. Consists(b, p.calls[d], ch, h)
    BY <1>1, <2>1, BuildParts
  <2> HIDE DEF b, call
  <2> QED
    BY <2>1, <2>2, <2>3 DEF Consists
<1>7. \E body : h.problems = {"guided"} \/ h.problems = HandlerProblems(p, live, d, k, body)
  BY <1>2, HandlerCases DEF h
<1>8. c \in DOMAIN k /\ k[c] = "mechanical"
  BY <1>6, <1>7 DEF HandlerProblems
<1> QED
  BY <1>4, <1>8

(* Calls that are edited together: each is shown as mechanical or stands   *)
(* in the handler of one of them.                                          *)
TakenTogether(p, live, v, S) ==
  /\ S \in SUBSET live
  /\ \A c \in S : Owners(p, live, c) # {} \/ View(p, v)[c].class = "mechanical"
  /\ \A c \in S : Owners(p, live, c) \subseteq S

(* They are mechanical, all of them.                                       *)
LEMMA MechanicalUnit ==
  ASSUME NEW p, Followed(p), NEW live \in SUBSET DOMAIN p.calls, NEW ans,
         NEW v, SeesAll(p, live, ans, v), NEW S, TakenTogether(p, live, v, S)
  PROVE  \A c \in S : v[c].class = "mechanical"
<1> USE DEF TakenTogether
<1> DEFINE wrong == {c \in S : v[c].class # "mechanical"}
<1>1. SUFFICES ASSUME wrong # {} PROVE FALSE
  OBVIOUS
<1>2. PICK depth \in [DOMAIN p.calls -> 0 .. Cardinality(DOMAIN p.calls)] :
        \A c \in DOMAIN p.calls : \A d \in Within(p, DOMAIN p.calls, c) : depth[c] < depth[d]
  BY DEF Followed, Nests
<1>3. Cardinality(DOMAIN p.calls) \in Nat
  BY OrderLists, ListedFinite, FS_CardinalityType
<1> DEFINE depths == {depth[c] : c \in wrong}
<1>4. \A c \in DOMAIN p.calls : depth[c] \in Nat
  BY <1>2, <1>3
<1>5. depths \in SUBSET Nat /\ depths # {}
  BY <1>1, <1>4
<1>6. PICK n \in depths : \A m \in depths : n <= m
  <2> HIDE DEF depths
  <2> QED
    BY <1>5, LeastNat
<1>7. PICK c \in wrong : depth[c] = n
  BY <1>6
<1>8. Owners(p, live, c) # {}
  BY <1>7, ViewParts
<1>9. PICK d \in Owners(p, live, c) : TRUE
  BY <1>8
<1>10. d \in S /\ d \in live /\ c \in Within(p, live, d) /\ ~IsShared(p, p.calls[d])
  BY <1>7 DEF Owners
<1>11. v[d].class # "mechanical"
  BY <1>7, <1>10, MechanicalWithin
<1>12. depth[d] < depth[c]
  <2>1. c \in Within(p, DOMAIN p.calls, d)
    BY <1>10 DEF Within
  <2> QED
    BY <1>2, <1>10, <2>1
<1>13. depth[d] \in depths
  BY <1>10, <1>11
<1> HIDE DEF depths, wrong
<1>14. depth[d] \in Nat /\ depth[c] \in Nat
  BY <1>4, <1>7, <1>10 DEF wrong
<1> QED
  BY <1>6, <1>7, <1>12, <1>13, <1>14

-----------------------------------------------------------------------------
(* The steps. *)

Coded == program \in Programs /\ DOMAIN new \subseteq Calls

(* The plan is the one of the answers given and the code as it is now.     *)
Planned ==
  LET v == Classified(program, Live, answers) IN
    view = View(program, v) /\ pending = PendingOf(program, v)

LEMMA CodedFollowed ==
  ASSUME Coded
  PROVE  Followed(program) /\ Live \in SUBSET DOMAIN program.calls /\ IsFiniteSet(Live)
<1>1. Followed(program)
  BY ProgramsAssumption DEF Coded
<1>2. Live \in SUBSET DOMAIN program.calls
  BY DEF Live, Calls
<1>3. IsFiniteSet(DOMAIN program.calls)
  BY <1>1, OrderLists, ListedFinite
<1> QED
  BY <1>1, <1>2, <1>3, FS_Subset

LEMMA InitPlans == Init => Coded /\ Planned
<1> SUFFICES ASSUME Init PROVE Coded /\ Planned
  OBVIOUS
<1>1. DOMAIN new = {} /\ Live = DOMAIN program.calls
  BY DEF Init, Live, Calls
<1>2. Coded
  BY <1>1 DEF Init, Coded
<1>3. PICK v \in {Classified(program, DOMAIN program.calls, << >>)} :
        view = View(program, v) /\ pending = PendingOf(program, v)
  BY DEF Init
<1>4. v = Classified(program, Live, answers)
  BY <1>1, <1>3 DEF Init
<1> QED
  BY <1>2, <1>3, <1>4 DEF Planned

(* The calls S, whole units of calls that are edited or stand in the       *)
(* handlers of such, are edited together.                                  *)
Edited(S) ==
  /\ S \in SUBSET Live /\ (S \in Units \/ \E k : S = InComponent(k))
  /\ \A u \in Units : u \cap S # {} => MachineUnit(u) /\ u \subseteq S

LEMMA UnitsPart ==
  ASSUME Coded
  PROVE  /\ UNION Units = Live /\ \A u, w \in Units : u = w \/ u \cap w = {}
         /\ \A c, d \in Live : Linked(c, d) => \E u \in Units : c \in u /\ d \in u
<1> DEFINE edges == {e \in Live \X Live : Linked(e[1], e[2])}
<1>1. IsFiniteSet(edges)
  <2>1. IsFiniteSet(Live \X Live)
    BY CodedFollowed, FS_Product
  <2> QED
    BY <2>1, FS_Subset
<1>2. Units = Classes(Live, edges)
  BY DEF Units
<1>3. ASSUME NEW c \in Live, NEW d \in Live, Linked(c, d) PROVE <<c, d>> \in edges
  BY <1>3
<1> HIDE DEF edges
<1>4. Parts(Units, Live) /\ \A e \in edges : Together(Units, Live, e)
  BY <1>1, <1>2, ClassesConnect
<1>5. ASSUME NEW c \in Live, NEW d \in Live, Linked(c, d)
      PROVE  \E u \in Units : c \in u /\ d \in u
  <2>1. Together(Units, Live, <<c, d>>)
    BY <1>3, <1>4, <1>5
  <2> QED
    BY <2>1 DEF Together
<1> QED
  BY <1>4, <1>5 DEF Parts

(* A step applies edits, or a person rewrites a call or answers; and the   *)
(* plan is made anew.                                                      *)
Applies == \E S : Edited(S) /\ Migrated(S)
Answered == UNCHANGED <<program, new, retyped, copies>>

LEMMA StepKinds ==
  ASSUME Coded, Next
  PROVE  /\ Replan /\ program' = program
         /\ \/ Applies
            \/ \E c \in Live : HandMigrate(c)
            \/ Answered /\ AcceptDefaults
            \/ Answered /\ \E kind \in ScopesOf(program) : Answer(kind)
<1>1. CASE AcceptDefaults
  BY <1>1 DEF AcceptDefaults, Answered
<1>2. CASE \E kind \in ScopesOf(program) : Answer(kind)
  BY <1>2 DEF Answer, Answered
<1>3. ASSUME NEW u \in Units, ApplyUnit(u) PROVE Applies /\ Replan /\ program' = program
  <2>1. Edited(u)
    BY <1>3, UnitsPart DEF ApplyUnit, Edited
  <2> QED
    BY <1>3, <2>1 DEF ApplyUnit, Applies, Migrated
<1>4. ASSUME NEW k, ApplyComponent(k) PROVE Applies /\ Replan /\ program' = program
  <2>1. Edited(InComponent(k))
    BY <1>4 DEF ApplyComponent, Edited, InComponent
  <2> QED
    BY <1>4, <2>1 DEF ApplyComponent, Applies, Migrated
<1>5. CASE \E c \in Live : HandMigrate(c)
  BY <1>5 DEF HandMigrate
<1> QED
  BY <1>1, <1>2, <1>3, <1>4, <1>5 DEF Next

LEMMA StepPlans ==
  ASSUME Coded, Planned, [Next]_vars
  PROVE  Coded' /\ Planned' /\ program' = program
<1>1. CASE UNCHANGED vars
  BY <1>1 DEF vars, Coded, Planned, Live, Calls
<1>2. CASE Next
  <2>1. Replan /\ program' = program
    BY <1>2, StepKinds
  <2>2. Planned'
    <3>1. PICK v \in {Classified(program, Calls \ DOMAIN new', answers')} :
            view' = View(program, v) /\ pending' = PendingOf(program, v)
      BY <2>1 DEF Replan
    <3>2. v = Classified(program', Live', answers')
      BY <2>1 DEF Live, Calls
    <3> QED
      BY <2>1, <3>1, <3>2 DEF Planned
  <2>3. Coded'
    <3>1. ASSUME NEW S, Edited(S), Migrated(S) PROVE DOMAIN new' \subseteq Calls
      BY <3>1 DEF Coded, Edited, Migrated, Live
    <3>2. ASSUME NEW c \in Live, HandMigrate(c) PROVE DOMAIN new' \subseteq Calls
      BY <3>2 DEF Coded, HandMigrate, Live
    <3>3. Answered => DOMAIN new' \subseteq Calls
      BY DEF Answered, Coded
    <3>4. DOMAIN new' \subseteq Calls
      BY <1>2, <3>1, <3>2, <3>3, StepKinds DEF Applies
    <3> QED
      BY <2>1, <3>4 DEF Coded, Calls
  <2> QED
    BY <2>1, <2>2, <2>3
<1> QED
  BY <1>1, <1>2

(* What is edited is what the planner saw, and needed no person.           *)
LEMMA EditedSees ==
  ASSUME Coded, Planned, NEW S, Edited(S),
         NEW v, v = Classified(program, Live, answers), NEW c \in S
  PROVE  /\ SeesAll(program, Live, answers, v) /\ v[c].class = "mechanical"
         /\ view[c].to = v[c].to /\ view[c].choices = v[c].choices
<1>1. Followed(program) /\ Live \in SUBSET DOMAIN program.calls /\ S \in SUBSET Live
  BY CodedFollowed DEF Edited
<1>2. SeesAll(program, Live, answers, v)
  BY <1>1, ClassifiedSees
<1>3. view = View(program, v)
  BY DEF Planned
<1>4. \A d \in S : Owners(program, Live, d) # {} \/ view[d].class = "mechanical"
  <2> TAKE d \in S
  <2>1. PICK u \in Units : d \in u
    BY <1>1, UnitsPart
  <2> QED
    BY <2>1 DEF Edited, MachineUnit
<1>5. \A d \in S : Owners(program, Live, d) \subseteq S
  <2> TAKE d \in S
  <2> SUFFICES ASSUME NEW o \in Owners(program, Live, d) PROVE o \in S
    OBVIOUS
  <2>1. o \in Live /\ d \in Live /\ Linked(o, d)
    BY <1>1 DEF Owners, Linked, Call
  <2>2. PICK u \in Units : o \in u /\ d \in u
    BY <2>1, UnitsPart
  <2> QED
    BY <2>2 DEF Edited
<1>6. \A d \in S : Owners(program, Live, d) # {} \/ View(program, v)[d].class = "mechanical"
  BY <1>3, <1>4
<1>7. \A d \in S : v[d].class = "mechanical"
  <2>1. TakenTogether(program, Live, v, S)
    BY <1>1, <1>5, <1>6 DEF TakenTogether
  <2> QED
    BY <1>1, <1>2, <2>1, MechanicalUnit
<1> QED
  BY <1>1, <1>2, <1>3, <1>7, ViewParts

-----------------------------------------------------------------------------
(* The answers can be read, and each rewrite was built from such. *)

Read(ans) == \E A : ans \in Seq(A) /\ \A a \in A : Readable(a)

(* A rewrite r of the call c that an edit may write: of answers ans, where *)
(* nothing is left to a person.                                            *)
BuiltFrom(r, p, c, ans) ==
  /\ Read(ans) /\ r.choices = Choices(Decisions(p, ans, c))
  /\ \A d \in Decisions(p, ans, c) : d.choice # ""
  /\ \E live, k : r.to = Build(p, live, c, k, r.choices)
  /\ "guided" \notin r.to.problems

Made ==
  /\ Coded /\ Planned /\ Read(answers)
  /\ \A c \in ByMachine : \E ans : BuiltFrom(new[c], program, c, ans)

LEMMA ReadMore ==
  ASSUME NEW ans, NEW more, Read(ans), Read(more)
  PROVE  Read(ans \o more)
<1>1. PICK A : ans \in Seq(A) /\ \A a \in A : Readable(a)
  BY DEF Read
<1>2. PICK B : more \in Seq(B) /\ \A b \in B : Readable(b)
  BY DEF Read
<1>3. ans \in Seq(A \cup B) /\ more \in Seq(A \cup B)
  BY <1>1, <1>2
<1>4. ans \o more \in Seq(A \cup B)
  BY <1>3
<1> QED
  BY <1>1, <1>2, <1>4 DEF Read

LEMMA ReadOne ==
  ASSUME NEW ans, NEW a, Read(ans), Readable(a)
  PROVE  Read(Append(ans, a))
<1>1. PICK A : ans \in Seq(A) /\ \A b \in A : Readable(b)
  BY DEF Read
<1>2. ans \in Seq(A \cup {a})
  BY <1>1
<1>3. Append(ans, a) \in Seq(A \cup {a})
  BY <1>2
<1> QED
  BY <1>1, <1>3 DEF Read

(* lookup gives nothing, or one of the options. *)
LEMMA LookupReads ==
  ASSUME NEW ans, Read(ans), NEW pattern, NEW site, NEW comp
  PROVE  Lookup(ans, pattern, site, comp) \in OptionsOf(pattern) \cup {""}
<1> DEFINE rank(i) == Narrowness(ans[i], pattern, site, comp)
           best == {i \in DOMAIN ans : /\ rank(i) > 0
                      /\ \A j \in DOMAIN ans :
                           rank(i) >= rank(j) /\ (rank(i) = rank(j) => i <= j)}
<1>1. Lookup(ans, pattern, site, comp) = IF best = {} THEN "" ELSE ans[CHOOSE i \in best : TRUE].choice
  BY DEF Lookup
<1>2. ASSUME NEW i \in best PROVE ans[i].choice \in OptionsOf(pattern)
  <2>1. Readable(ans[i])
    BY DEF Read
  <2>2. ans[i].pattern = pattern
    BY DEF Narrowness
  <2> QED
    BY <2>1, <2>2 DEF Readable
<1> HIDE DEF best
<1>3. best # {} => (CHOOSE i \in best : TRUE) \in best
  OBVIOUS
<1> QED
  BY <1>1, <1>2, <1>3

LEMMA OptionNames ==
  /\ OptionsOf("target") = {"pull", "push", "defer"} /\ OptionsOf("pushOnly") = {"drop", "push"}
  /\ OptionsOf("ack") = {"after-handler", "explicit", "none"}
  /\ OptionsOf("chanMax") = {"keep", "server-default"} /\ OptionsOf("shared") = {"split", "adapter"}
  /\ DOMAIN Options = {"target", "ack", "pushOnly", "chanMax", "shared", "component"}
<1>1. ASSUME NEW a, NEW b PROVE {<<a, b>>[i] : i \in DOMAIN <<a, b>>} = {a, b}
  OBVIOUS
<1>2. ASSUME NEW a, NEW b, NEW c PROVE {<<a, b, c>>[i] : i \in DOMAIN <<a, b, c>>} = {a, b, c}
  OBVIOUS
<1> QED
  BY <1>1, <1>2 DEF OptionsOf, Options

(* What a call asks: which questions, their defaults and the answers.      *)
AsksOf(p, c, pattern) ==
  LET call == p.calls[c]
      sc == Parse(call) IN
    CASE pattern = "target"   -> call.form # "pull" /\ ~sc.ordered
      [] pattern = "ack"      -> call.form = "callback" /\ ~sc.manualAck /\ ~sc.ackNone /\ ~sc.ordered
      [] pattern = "chanMax"  -> call.form = "chan" /\ ~sc.maxAck /\ ~sc.ackNone
      [] pattern = "shared"   -> IsShared(p, call)
      [] pattern = "pushOnly" -> call.form # "pull" /\ ~sc.ordered /\ sc.pushOnly # {}

Askable == {"ack", "chanMax", "pushOnly", "shared", "target"}

(* The default of a question, and why. *)
DefOf(p, c, pattern) ==
  CASE pattern = "target"   -> IF Parse(p.calls[c]).bound THEN "push" ELSE "pull"
    [] pattern = "ack"      -> "after-handler"
    [] pattern = "pushOnly" -> "drop"
    [] pattern = "chanMax"  -> "keep"
    [] pattern = "shared"   -> "split"

ReasonOf(p, c, pattern) ==
  CASE pattern = "target"   -> IF Parse(p.calls[c]).bound THEN "bound" ELSE ""
    [] pattern = "pushOnly" -> Parse(p.calls[c]).pushOnly
    [] pattern \in {"ack", "chanMax", "shared"} -> ""

DecisionOf(p, ans, c, pattern) ==
  [pattern |-> pattern, def |-> DefOf(p, c, pattern), reason |-> ReasonOf(p, c, pattern),
   choice |-> Lookup(ans, pattern, c, p.calls[c].comp)]

(* A call asks some of five questions. *)
LEMMA DecisionCases ==
  ASSUME NEW p, NEW ans, NEW c, NEW d \in Decisions(p, ans, c)
  PROVE  \/ d = DecisionOf(p, ans, c, "target") /\ AsksOf(p, c, "target")
         \/ d = DecisionOf(p, ans, c, "ack") /\ AsksOf(p, c, "ack")
         \/ d = DecisionOf(p, ans, c, "pushOnly") /\ AsksOf(p, c, "pushOnly")
         \/ d = DecisionOf(p, ans, c, "chanMax") /\ AsksOf(p, c, "chanMax")
         \/ d = DecisionOf(p, ans, c, "shared") /\ AsksOf(p, c, "shared")
BY DEF Decisions, Ask, AsksOf, DecisionOf, DefOf, ReasonOf

LEMMA DecisionParts ==
  ASSUME NEW p, NEW ans, NEW c, NEW d \in Decisions(p, ans, c)
  PROVE  /\ d.pattern \in Askable /\ AsksOf(p, c, d.pattern) /\ d = DecisionOf(p, ans, c, d.pattern)
         /\ d.choice = Lookup(ans, d.pattern, c, p.calls[c].comp)
         /\ d.def \in OptionsOf(d.pattern)
<1>1. ASSUME NEW q \in Askable, d = DecisionOf(p, ans, c, q), AsksOf(p, c, q)
      PROVE  /\ d.pattern \in Askable /\ AsksOf(p, c, d.pattern) /\ d = DecisionOf(p, ans, c, d.pattern)
             /\ d.choice = Lookup(ans, d.pattern, c, p.calls[c].comp) /\ d.def = DefOf(p, c, d.pattern)
  BY <1>1 DEF DecisionOf
<1>2. /\ d.pattern \in Askable /\ AsksOf(p, c, d.pattern) /\ d = DecisionOf(p, ans, c, d.pattern)
      /\ d.choice = Lookup(ans, d.pattern, c, p.calls[c].comp) /\ d.def = DefOf(p, c, d.pattern)
  BY <1>1, DecisionCases DEF Askable
<1>3. ASSUME NEW q \in Askable PROVE DefOf(p, c, q) \in OptionsOf(q)
  <2>1. CASE q = "target"
    BY <2>1, OptionNames DEF DefOf
  <2>2. CASE q = "ack"
    BY <2>2, OptionNames DEF DefOf
  <2>3. CASE q = "pushOnly"
    BY <2>3, OptionNames DEF DefOf
  <2>4. CASE q = "chanMax"
    BY <2>4, OptionNames DEF DefOf
  <2>5. CASE q = "shared"
    BY <2>5, OptionNames DEF DefOf
  <2> QED
    BY <2>1, <2>2, <2>3, <2>4, <2>5 DEF Askable
<1> QED
  BY <1>2, <1>3

LEMMA DecisionsAsked ==
  ASSUME NEW p, NEW ans, NEW c, NEW pattern \in Askable \ {"pushOnly"}, AsksOf(p, c, pattern)
  PROVE  DecisionOf(p, ans, c, pattern) \in Decisions(p, ans, c)
<1> USE DEF Decisions, Ask, AsksOf, DecisionOf, DefOf, ReasonOf
<1>1. CASE pattern = "target"
  BY <1>1
<1>2. CASE pattern = "ack"
  BY <1>2
<1>3. CASE pattern = "chanMax"
  BY <1>3
<1>4. CASE pattern = "shared"
  BY <1>4
<1> QED
  BY <1>1, <1>2, <1>3, <1>4 DEF Askable

(* The choices made of answers that can be read are options of the         *)
(* questions that are asked, and there is one for each.                    *)
ChoiceFits(ch, p, c, pattern) ==
  /\ ch[pattern] \in OptionsOf(pattern) \cup {""}
  /\ ch[pattern] # "" => AsksOf(p, c, pattern)
  /\ AsksOf(p, c, pattern) /\ pattern # "pushOnly" => ch[pattern] # ""

LEMMA ChoiceParts ==
  ASSUME NEW p, NEW ans, Read(ans), NEW c, NEW pattern \in Askable
  PROVE  ChoiceFits(Choices(Decisions(p, ans, c)), p, c, pattern)
<1> DEFINE ds == Decisions(p, ans, c)
           of == {d \in ds : d.pattern = pattern}
           chosen(d) == IF d.choice = "" THEN d.def ELSE d.choice
           ch == Choices(ds)
<1>1. RangeOf(Patterns) = Askable
  BY DEF RangeOf, Patterns, Askable
<1>2. ch[pattern] = IF of = {} THEN "" ELSE chosen(CHOOSE d \in of : TRUE)
  BY <1>1 DEF Choices
<1>3. ASSUME NEW d \in of PROVE chosen(d) \in OptionsOf(pattern) /\ AsksOf(p, c, pattern)
  <2>1. d.pattern = pattern /\ d \in ds
    OBVIOUS
  <2>2. d.choice = Lookup(ans, pattern, c, p.calls[c].comp)
    BY <2>1, DecisionParts
  <2>3. d.choice \in OptionsOf(pattern) \cup {""}
    BY <2>2, LookupReads
  <2>4. d.def \in OptionsOf(pattern) /\ AsksOf(p, c, pattern)
    <3>1. AsksOf(p, c, d.pattern) /\ d.def \in OptionsOf(d.pattern)
      BY <2>1, DecisionParts
    <3> QED
      BY <2>1, <3>1
  <2> QED
    BY <2>3, <2>4
<1>4. AsksOf(p, c, pattern) /\ pattern # "pushOnly" => of # {}
  <2>1. AsksOf(p, c, pattern) /\ pattern # "pushOnly" => DecisionOf(p, ans, c, pattern) \in ds
    BY DecisionsAsked
  <2>2. DecisionOf(p, ans, c, pattern).pattern = pattern
    BY DEF DecisionOf
  <2> QED
    BY <2>1, <2>2
<1>5. "" \notin OptionsOf(pattern)
  <2>1. CASE pattern = "target"
    BY <2>1, OptionNames
  <2>2. CASE pattern = "ack"
    BY <2>2, OptionNames
  <2>3. CASE pattern = "pushOnly"
    BY <2>3, OptionNames
  <2>4. CASE pattern = "chanMax"
    BY <2>4, OptionNames
  <2>5. CASE pattern = "shared"
    BY <2>5, OptionNames
  <2> QED
    BY <2>1, <2>2, <2>3, <2>4, <2>5 DEF Askable
<1> HIDE DEF of, chosen, ch, ds
<1>6. /\ ch[pattern] \in OptionsOf(pattern) \cup {""}
      /\ ch[pattern] # "" => AsksOf(p, c, pattern)
      /\ AsksOf(p, c, pattern) /\ pattern # "pushOnly" => ch[pattern] # ""
  BY <1>2, <1>3, <1>4, <1>5
<1> QED
  BY <1>6 DEF ch, ds, ChoiceFits

-----------------------------------------------------------------------------
(* What a plan asks. *)

(* Of counted keys one is the most common, the first of equals. *)
LEMMA TopExists ==
  ASSUME NEW n \in Nat, n > 0, NEW key
  PROVE  LET count(k) == Cardinality({i \in 1 .. n : key[i] = k}) IN
           \E i \in 1 .. n : \A j \in 1 .. n :
             /\ count(key[i]) >= count(key[j])
             /\ count(key[i]) = count(key[j]) /\ key[i] # key[j] => i < j
<1> DEFINE count(k) == Cardinality({i \in 1 .. n : key[i] = k})
           rest == {n - count(key[i]) : i \in 1 .. n}
           best == {i \in 1 .. n : \A j \in 1 .. n : count(key[i]) >= count(key[j])}
<1>1. \A k : count(k) \in Nat /\ count(k) <= n
  <2> TAKE k
  <2>1. IsFiniteSet(1 .. n) /\ Cardinality(1 .. n) = n
    BY FS_Interval
  <2>2. {i \in 1 .. n : key[i] = k} \in SUBSET (1 .. n)
    OBVIOUS
  <2>3. IsFiniteSet({i \in 1 .. n : key[i] = k})
    BY <2>1, <2>2, FS_Subset
  <2> QED
    BY <2>1, <2>2, <2>3, FS_Subset, FS_CardinalityType
<1> HIDE DEF count
<1>2. rest \in SUBSET Nat
  BY <1>1
<1>3. n - count(key[1]) \in rest
  OBVIOUS
<1>4. PICK r \in rest : \A q \in rest : r <= q
  <2> HIDE DEF rest
  <2> QED
    BY <1>2, <1>3, LeastNat
<1>5. PICK i \in 1 .. n : r = n - count(key[i])
  OBVIOUS
<1>6. i \in best
  <2>1. ASSUME NEW j \in 1 .. n PROVE count(key[i]) >= count(key[j])
    <3>1. n - count(key[i]) <= n - count(key[j])
      BY <1>4, <1>5
    <3> HIDE DEF rest, best
    <3> QED
      BY <1>1, <3>1
  <2> QED
    BY <2>1
<1>7. PICK b \in best : \A a \in best : b <= a
  <2>1. best \in SUBSET Nat
    OBVIOUS
  <2> HIDE DEF best
  <2> QED
    BY <1>6, <2>1, LeastNat
<1>8. ASSUME NEW j \in 1 .. n
      PROVE  /\ count(key[b]) >= count(key[j])
             /\ count(key[b]) = count(key[j]) /\ key[b] # key[j] => b < j
  <2>1. count(key[b]) >= count(key[j])
    OBVIOUS
  <2>2. count(key[b]) = count(key[j]) => j \in best
    OBVIOUS
  <2> HIDE DEF rest
  <2> QED
    BY <1>7, <2>1, <2>2
<1> QED
  BY <1>8 DEF count

EntryOf(pattern, scope, key) == [pattern |-> pattern, scope |-> scope, def |-> key[1]]

AskingAt(decisions, S, pattern) == {s \in S : Asking(decisions, s, pattern) # {}}

(* The question for all sites with the key k, and those for the others.    *)
EntriesOf(decisions, S, pattern, k) ==
  {EntryOf(pattern, <<"module">>, k)} \cup
  {EntryOf(pattern, <<"site", s>>, KeyAt(decisions, s, pattern)) :
     s \in {x \in AskingAt(decisions, S, pattern) : KeyAt(decisions, x, pattern) # k}}

(* fill: where something is asked, the entries are those for one key.      *)
Fills(P, decisions, S, pattern) ==
  /\ AskingAt(decisions, S, pattern) = {} => P = << >>
  /\ AskingAt(decisions, S, pattern) # {} =>
       \E s \in AskingAt(decisions, S, pattern) :
         LET entries == EntriesOf(decisions, S, pattern, KeyAt(decisions, s, pattern)) IN
           P \in Seq(entries) /\ \A e \in entries : \E i \in DOMAIN P : P[i] = e

LEMMA PendingParts ==
  ASSUME NEW decisions, NEW S, NEW sites, Enumerates(sites, S), NEW pattern
  PROVE  Fills(Pending(decisions, sites, pattern), decisions, S, pattern)
<1> DEFINE asking == AskingAt(decisions, S, pattern)
           asked == Filter(sites, LAMBDA s : Asking(decisions, s, pattern) # {})
           key(i) == KeyAt(decisions, asked[i], pattern)
           count(k) == Cardinality({i \in DOMAIN asked : key(i) = k})
           isTop(i) == \A j \in DOMAIN asked :
             count(key(i)) >= count(key(j)) /\ (count(key(i)) = count(key(j)) /\ key(i) # key(j) => i < j)
           top == CHOOSE i \in DOMAIN asked : isTop(i)
           others == Filter(asked, LAMBDA s : KeyAt(decisions, s, pattern) # key(top))
           entry(scope, k) == EntryOf(pattern, scope, k)
           rest == [i \in DOMAIN others |-> entry(<<"site", others[i]>>, KeyAt(decisions, others[i], pattern))]
           P == Pending(decisions, sites, pattern)
<1>1. P = IF asked = << >> THEN << >> ELSE <<entry(<<"module">>, key(top))>> \o rest
  BY DEF Pending, EntryOf
<1>2. Enumerates(asked, asking)
  <2> DEFINE parts == [i \in DOMAIN sites |-> IF sites[i] \in asking THEN <<sites[i]>> ELSE << >>]
  <2>1. asked = Concat([i \in DOMAIN sites |-> IF Asking(decisions, sites[i], pattern) # {} THEN <<sites[i]>> ELSE << >>])
    BY DEF Filter
  <2>2. \A i \in DOMAIN sites : sites[i] \in S
    BY DEF Enumerates
  <2>3. \A i \in DOMAIN sites : Asking(decisions, sites[i], pattern) # {} <=> sites[i] \in asking
    BY <2>2 DEF AskingAt
  <2>4. asked = Concat(parts)
    BY <2>1, <2>3
  <2>5. asking \in SUBSET S
    BY DEF AskingAt
  <2> HIDE DEF asked, asking
  <2> QED
    BY <2>4, <2>5, FilterOnce
<1> HIDE DEF asked, asking, P
<1>3. DOMAIN asked = 1 .. Len(asked) /\ Len(asked) \in Nat /\ \A i \in DOMAIN asked : asked[i] \in asking
  BY <1>2 DEF Enumerates
<1>4. CASE asking = {}
  <2>1. asked = << >>
    BY <1>2, <1>4 DEF Enumerates
  <2> QED
    BY <1>1, <1>4, <2>1 DEF Fills, asking, P
<1>5. CASE asking # {}
  <2>1. asked # << >> /\ Len(asked) > 0
    BY <1>2, <1>3, <1>5 DEF Enumerates
  <2>2. top \in DOMAIN asked
    <3> DEFINE kf == [i \in 1 .. Len(asked) |-> key(i)]
               kcount(k) == Cardinality({i \in 1 .. Len(asked) : kf[i] = k})
    <3>1. \E i \in 1 .. Len(asked) : \A j \in 1 .. Len(asked) :
            /\ kcount(kf[i]) >= kcount(kf[j])
            /\ kcount(kf[i]) = kcount(kf[j]) /\ kf[i] # kf[j] => i < j
      <4> HIDE DEF kf
      <4> QED
        BY <1>3, <2>1, TopExists
    <3>2. \A i \in 1 .. Len(asked) : kf[i] = key(i)
      OBVIOUS
    <3>3. \A k : kcount(k) = count(k)
      <4> TAKE k
      <4>1. {i \in 1 .. Len(asked) : kf[i] = k} = {i \in DOMAIN asked : key(i) = k}
        BY <1>3, <3>2
      <4> QED
        BY <4>1
    <3> HIDE DEF kf, kcount, count, key
    <3>4. \E i \in DOMAIN asked : isTop(i)
      BY <1>3, <3>1, <3>2, <3>3
    <3> HIDE DEF isTop
    <3> QED
      BY <3>4
  <2> DEFINE K == key(top)
             apart == {x \in asking : KeyAt(decisions, x, pattern) # K}
  <2>3. Enumerates(others, apart)
    <3> DEFINE parts == [i \in DOMAIN asked |-> IF asked[i] \in apart THEN <<asked[i]>> ELSE << >>]
    <3>1. others = Concat([i \in DOMAIN asked |-> IF KeyAt(decisions, asked[i], pattern) # K
                                                   THEN <<asked[i]>> ELSE << >>])
      BY DEF Filter
    <3> HIDE DEF others, K
    <3>2. \A i \in DOMAIN asked : KeyAt(decisions, asked[i], pattern) # K <=> asked[i] \in apart
      BY <1>3
    <3>3. others = Concat(parts)
      BY <3>1, <3>2
    <3>4. apart \in SUBSET asking
      OBVIOUS
    <3> HIDE DEF apart
    <3> QED
      BY <1>2, <3>3, <3>4, FilterOnce
  <2> DEFINE entries == EntriesOf(decisions, S, pattern, K)
  <2>4. entries = {entry(<<"module">>, K)} \cup
                  {entry(<<"site", s>>, KeyAt(decisions, s, pattern)) : s \in apart}
    BY DEF EntriesOf, asking
  <2> HIDE DEF top, key, others, K, entry, apart
  <2>5. rest \in Seq(entries) /\ Len(rest) = Len(others) /\ DOMAIN rest = 1 .. Len(others) /\ Len(others) \in Nat
    BY <2>3, <2>4 DEF Enumerates
  <2>6. P = <<entry(<<"module">>, K)>> \o rest
    BY <1>1, <2>1 DEF K
  <2>7. <<entry(<<"module">>, K)>> \in Seq(entries)
    BY <2>4
  <2>8. P \in Seq(entries)
    <3> HIDE DEF rest, entries
    <3> QED
      BY <2>5, <2>6, <2>7
  <2>9. P[1] = entry(<<"module">>, K) /\ 1 \in DOMAIN P
    <3> HIDE DEF rest, entries
    <3> QED
      BY <2>5, <2>6, <2>7
  <2>10. \A i \in DOMAIN others : P[i + 1] = rest[i] /\ i + 1 \in DOMAIN P
    <3> HIDE DEF rest, entries
    <3>1. DOMAIN others = 1 .. Len(others)
      BY <2>3 DEF Enumerates
    <3> QED
      BY <2>5, <2>6, <2>7, <3>1
  <2>11. \A e \in entries : \E i \in DOMAIN P : P[i] = e
    <3> TAKE e \in entries
    <3>1. CASE e = entry(<<"module">>, K)
      BY <2>9, <3>1
    <3>2. ASSUME NEW s \in apart, e = entry(<<"site", s>>, KeyAt(decisions, s, pattern))
          PROVE  \E i \in DOMAIN P : P[i] = e
      <4>1. PICK i \in DOMAIN others : others[i] = s
        BY <2>3 DEF Enumerates
      <4>2. rest[i] = e
        BY <3>2, <4>1
      <4> HIDE DEF rest
      <4> QED
        BY <2>10, <4>2
    <3> HIDE DEF entries
    <3> QED
      BY <2>4, <3>1, <3>2
  <2>12. asked[top] \in asking /\ K = KeyAt(decisions, asked[top], pattern)
    BY <1>3, <2>2 DEF K, key
  <2> HIDE DEF rest
  <2> QED
    BY <1>5, <2>8, <2>11, <2>12 DEF Fills, asking, P
<1> QED
  BY <1>4, <1>5

(* The plan asks what the calls ask, with the keys K of the questions that *)
(* are for all of them.                                                    *)
DecisionsOf(v) == [c \in DOMAIN v |-> v[c].decisions]

AsksAll(P, v, K) ==
  /\ DOMAIN P = 1 .. Len(P) /\ Len(P) \in Nat
  /\ \A q \in Askable : AskingAt(DecisionsOf(v), DOMAIN v, q) # {} =>
       /\ \E s \in AskingAt(DecisionsOf(v), DOMAIN v, q) : K[q] = KeyAt(DecisionsOf(v), s, q)
       /\ \A e \in EntriesOf(DecisionsOf(v), DOMAIN v, q, K[q]) : \E i \in DOMAIN P : P[i] = e
  /\ \A i \in DOMAIN P : \E q \in Askable :
       /\ AskingAt(DecisionsOf(v), DOMAIN v, q) # {}
       /\ P[i] \in EntriesOf(DecisionsOf(v), DOMAIN v, q, K[q])

LEMMA PlanAsks ==
  ASSUME NEW p, Followed(p), NEW v, DOMAIN v \in SUBSET DOMAIN p.calls
  PROVE  \E K : AsksAll(PendingOf(p, v), v, K)
<1> DEFINE ds == DecisionsOf(v)
           S == DOMAIN v
           sites == Sorted(p, S)
           part(q) == Pending(ds, sites, q)
           P == PendingOf(p, v)
           seqs == [n \in DOMAIN Patterns |-> part(Patterns[n])]
           fits(q, s) == /\ part(q) \in Seq(EntriesOf(ds, S, q, KeyAt(ds, s, q)))
                         /\ \A e \in EntriesOf(ds, S, q, KeyAt(ds, s, q)) : \E i \in DOMAIN part(q) : part(q)[i] = e
           K == [q \in Askable |-> KeyAt(ds, CHOOSE s \in AskingAt(ds, S, q) : fits(q, s), q)]
           entries(q) == EntriesOf(ds, S, q, K[q])
           V == UNION {entries(q) : q \in Askable}
<1>1. Enumerates(sites, S)
  BY SortedLists
<1>2. P = Concat(seqs)
  BY DEF PendingOf, DecisionsOf
<1>3. /\ DOMAIN Patterns = 1 .. 5 /\ \A n \in 1 .. 5 : Patterns[n] \in Askable
      /\ \A q \in Askable : \E n \in 1 .. 5 : Patterns[n] = q
  <2>1. DOMAIN Patterns = 1 .. 5 /\ \A n \in 1 .. 5 : Patterns[n] \in Askable
    BY DEF Patterns, Askable
  <2>2. /\ Patterns[1] = "ack" /\ Patterns[2] = "chanMax" /\ Patterns[3] = "pushOnly"
        /\ Patterns[4] = "shared" /\ Patterns[5] = "target"
    BY DEF Patterns
  <2>3. 1 \in 1 .. 5 /\ 2 \in 1 .. 5 /\ 3 \in 1 .. 5 /\ 4 \in 1 .. 5 /\ 5 \in 1 .. 5
    OBVIOUS
  <2>4. \A q \in Askable : \E n \in 1 .. 5 : Patterns[n] = q
    BY <2>2, <2>3 DEF Askable
  <2> QED
    BY <2>1, <2>4
<1> HIDE DEF ds, S, sites, P
<1>4. ASSUME NEW q \in Askable, AskingAt(ds, S, q) # {}
      PROVE  /\ \E s \in AskingAt(ds, S, q) : K[q] = KeyAt(ds, s, q)
             /\ part(q) \in Seq(entries(q)) /\ \A e \in entries(q) : \E i \in DOMAIN part(q) : part(q)[i] = e
  <2>1. \E s \in AskingAt(ds, S, q) : fits(q, s)
    <3>1. Fills(part(q), ds, S, q)
      BY <1>1, PendingParts
    <3> HIDE DEF part
    <3> QED
      BY <1>4, <3>1 DEF Fills
  <2> DEFINE s == CHOOSE t \in AskingAt(ds, S, q) : fits(q, t)
  <2>2. s \in AskingAt(ds, S, q) /\ fits(q, s)
    <3> HIDE DEF fits
    <3> QED
      BY <2>1
  <2>3. K[q] = KeyAt(ds, s, q)
    OBVIOUS
  <2> HIDE DEF K, s
  <2> QED
    BY <2>2, <2>3
<1>5. ASSUME NEW q \in Askable, AskingAt(ds, S, q) = {} PROVE part(q) = << >>
  BY <1>1, <1>5, PendingParts DEF Fills
<1> HIDE DEF K, entries, part
<1>6. \A q \in Askable : part(q) \in Seq(V)
  <2> TAKE q \in Askable
  <2>1. CASE AskingAt(ds, S, q) = {}
    <3>1. << >> \in Seq(V)
      OBVIOUS
    <3> QED
      BY <1>5, <2>1, <3>1
  <2>2. CASE AskingAt(ds, S, q) # {}
    <3>1. entries(q) \subseteq V
      OBVIOUS
    <3> HIDE DEF V
    <3> QED
      BY <1>4, <2>2, <3>1
  <2> QED
    BY <2>1, <2>2
<1> HIDE DEF V
<1>7. /\ seqs \in Seq(Seq(V)) /\ Len(seqs) = 5 /\ DOMAIN seqs = 1 .. 5
      /\ \A n \in 1 .. 5 : seqs[n] = part(Patterns[n])
  BY <1>3, <1>6
<1> HIDE DEF seqs
<1>8. /\ P \in Seq(V) /\ \A k \in DOMAIN P : ComesFrom(P, k, seqs)
      /\ Holds(P, Len(P), seqs, 5)
  BY <1>2, <1>7, ConcatParts
<1>9. ASSUME NEW q \in Askable, AskingAt(ds, S, q) # {}
      PROVE  \A e \in entries(q) : \E i \in DOMAIN P : P[i] = e
  <2> TAKE e \in entries(q)
  <2>1. PICK n \in 1 .. 5 : Patterns[n] = q
    BY <1>3
  <2>2. PICK j \in DOMAIN part(q) : part(q)[j] = e
    BY <1>4, <1>9
  <2>3. j \in DOMAIN seqs[n] /\ seqs[n][j] = e
    BY <1>7, <2>1, <2>2
  <2> QED
    BY <1>8, <2>3 DEF Holds
<1>10. ASSUME NEW i \in DOMAIN P
       PROVE  \E q \in Askable : AskingAt(ds, S, q) # {} /\ P[i] \in entries(q)
  <2>1. PICK n \in 1 .. 5 : \E j \in DOMAIN seqs[n] : P[i] = seqs[n][j]
    BY <1>7, <1>8 DEF ComesFrom
  <2>2. PICK j \in DOMAIN seqs[n] : P[i] = seqs[n][j]
    BY <2>1
  <2> DEFINE q == Patterns[n]
  <2>3. q \in Askable /\ j \in DOMAIN part(q) /\ P[i] = part(q)[j]
    BY <1>3, <1>7, <2>2
  <2> HIDE DEF q
  <2>4. AskingAt(ds, S, q) # {}
    BY <1>5, <2>3
  <2>5. part(q)[j] \in entries(q)
    BY <1>4, <2>3, <2>4
  <2> QED
    BY <2>3, <2>4, <2>5
<1>11. DOMAIN P = 1 .. Len(P) /\ Len(P) \in Nat
  BY <1>8
<1>12. AsksAll(P, v, K)
  BY <1>4, <1>9, <1>10, <1>11 DEF AsksAll, ds, S, entries
<1> QED
  BY <1>12 DEF P

Unanswered(d) == d.choice = ""

LEMMA KeyParts ==
  ASSUME NEW p, NEW live, NEW ans, NEW v, SeesAll(p, live, ans, v), NEW q,
         NEW s \in AskingAt(DecisionsOf(v), live, q)
  PROVE  \E d \in Decisions(p, ans, s) :
           d.pattern = q /\ Unanswered(d) /\ KeyAt(DecisionsOf(v), s, q) = KeyOf(d)
<1>1. s \in live /\ Asking(DecisionsOf(v), s, q) # {}
  BY DEF AskingAt
<1>2. DecisionsOf(v)[s] = Decisions(p, ans, s)
  <2>1. v[s].decisions = Decisions(p, ans, s)
    BY <1>1, SeenParts
  <2>2. DOMAIN v = live
    BY DEF SeesAll, SeesSome
  <2> QED
    BY <1>1, <2>1, <2>2 DEF DecisionsOf
<1> DEFINE d == CHOOSE x \in Asking(DecisionsOf(v), s, q) : TRUE
<1>3. d \in Asking(DecisionsOf(v), s, q)
  BY <1>1
<1>4. KeyAt(DecisionsOf(v), s, q) = KeyOf(d)
  BY DEF KeyAt
<1> HIDE DEF d
<1> QED
  BY <1>2, <1>3, <1>4 DEF Asking, Unanswered

(* Every entry of a plan is a question with a default among its options.   *)
LEMMA EntryParts ==
  ASSUME NEW p, Followed(p), NEW live \in SUBSET DOMAIN p.calls, NEW ans,
         NEW v, SeesAll(p, live, ans, v), NEW i \in DOMAIN PendingOf(p, v)
  PROVE  LET e == PendingOf(p, v)[i] IN
           /\ e.pattern \in Askable /\ e.def \in OptionsOf(e.pattern)
           /\ e.scope[1] = "module" \/ e.scope[1] = "site"
<1> DEFINE P == PendingOf(p, v)
<1>1. DOMAIN v = live
  BY DEF SeesAll, SeesSome
<1>2. PICK K : AsksAll(P, v, K)
  BY <1>1, PlanAsks
<1> HIDE DEF P
<1>3. PICK q \in Askable : /\ AskingAt(DecisionsOf(v), live, q) # {}
                           /\ P[i] \in EntriesOf(DecisionsOf(v), live, q, K[q])
  BY <1>1, <1>2 DEF AsksAll, P
<1>4. ASSUME NEW s \in AskingAt(DecisionsOf(v), live, q)
      PROVE  KeyAt(DecisionsOf(v), s, q)[1] \in OptionsOf(q)
  <2>1. PICK d \in Decisions(p, ans, s) :
          d.pattern = q /\ Unanswered(d) /\ KeyAt(DecisionsOf(v), s, q) = KeyOf(d)
    BY KeyParts
  <2>2. d.def \in OptionsOf(d.pattern)
    BY DecisionParts
  <2>3. KeyOf(d)[1] = d.def
    BY DEF KeyOf
  <2> QED
    BY <2>1, <2>2, <2>3
<1>5. \E s \in AskingAt(DecisionsOf(v), live, q) : K[q] = KeyAt(DecisionsOf(v), s, q)
  BY <1>1, <1>2, <1>3 DEF AsksAll
<1>6. /\ P[i].pattern = q /\ P[i].def \in OptionsOf(q)
      /\ P[i].scope[1] = "module" \/ P[i].scope[1] = "site"
  BY <1>3, <1>4, <1>5 DEF EntriesOf, EntryOf
<1>7. P[i].def \in OptionsOf(P[i].pattern) /\ P[i].pattern \in Askable
  BY <1>6
<1> QED
  BY <1>6, <1>7 DEF P

LEMMA AskableOption ==
  ASSUME NEW q \in Askable
  PROVE  q \in DOMAIN Options /\ q # "component"
BY OptionNames DEF Askable

(* The answers that a step records can be read. *)
LEMMA StepAnswers ==
  ASSUME Coded, Planned, Read(answers), Next
  PROVE  Read(answers')
<1> DEFINE v == Classified(program, Live, answers)
<1>1. Followed(program) /\ Live \in SUBSET DOMAIN program.calls
  BY CodedFollowed
<1>2. SeesAll(program, Live, answers, v) /\ pending = PendingOf(program, v)
  BY <1>1, ClassifiedSees DEF Planned
<1> HIDE DEF v
<1>3. \A i \in DOMAIN pending :
        /\ pending[i].pattern \in Askable /\ pending[i].def \in OptionsOf(pending[i].pattern)
        /\ pending[i].scope[1] = "module" \/ pending[i].scope[1] = "site"
  BY <1>1, <1>2, EntryParts
<1>4. DOMAIN pending = 1 .. Len(pending) /\ Len(pending) \in Nat
  <2>1. DOMAIN v \in SUBSET DOMAIN program.calls
    BY <1>1, <1>2 DEF SeesAll, SeesSome
  <2> QED
    BY <1>1, <1>2, <2>1, PlanAsks DEF AsksAll
<1>5. CASE AcceptDefaults
  <2> DEFINE given(i) == [pattern |-> pending[i].pattern, scope |-> pending[i].scope,
                          choice |-> pending[i].def]
             more == [i \in DOMAIN pending |-> given(i)]
  <2>1. \A i \in DOMAIN pending : Readable(given(i))
    <3> TAKE i \in DOMAIN pending
    <3>1. pending[i].pattern \in DOMAIN Options /\ pending[i].pattern # "component"
      BY <1>3, AskableOption
    <3> QED
      BY <1>3, <3>1 DEF Readable
  <2>2. Read(more)
    <3> DEFINE A == {given(i) : i \in DOMAIN pending}
    <3>1. more \in Seq(A)
      BY <1>4
    <3>2. \A a \in A : Readable(a)
      BY <2>1
    <3> HIDE DEF A, more
    <3> QED
      BY <3>1, <3>2 DEF Read
  <2>3. answers' = answers \o more
    BY <1>5 DEF AcceptDefaults
  <2> HIDE DEF more
  <2> QED
    BY <2>2, <2>3, ReadMore
<1>6. ASSUME NEW kind \in ScopesOf(program), Answer(kind) PROVE Read(answers')
  <2> DEFINE q == pending[1].pattern
             scope == ScopeOf(kind, FirstAsking(q))
  <2>1. PICK o \in OptionsOf(q) : answers' = Append(answers, [pattern |-> q, choice |-> o, scope |-> scope])
    BY <1>6 DEF Answer
  <2>2. 1 \in DOMAIN pending
    BY <1>4, <1>6 DEF Answer
  <2>3. q \in DOMAIN Options /\ q # "component"
    BY <1>3, <2>2, AskableOption
  <2>4. kind \in {"module", "component", "site"}
    BY ProgramsAssumption DEF Coded
  <2>5. scope[1] = kind
    BY <2>4 DEF ScopeOf
  <2> HIDE DEF q, scope
  <2>6. Readable([pattern |-> q, choice |-> o, scope |-> scope])
    BY <2>3, <2>4, <2>5 DEF Readable
  <2> QED
    BY <2>1, <2>6, ReadOne
<1>7. CASE answers' = answers
  BY <1>7
<1>8. Applies \/ (\E c \in Live : HandMigrate(c)) => answers' = answers
  BY DEF Applies, Migrated, HandMigrate
<1> QED
  BY <1>5, <1>6, <1>7, <1>8, StepKinds

(* The planner's rewrites stay what they were built from, of answers that  *)
(* could be read and that asked nobody anymore.                            *)
LEMMA MadeInit == Init => Made
<1> SUFFICES ASSUME Init PROVE Made
  OBVIOUS
<1>1. ByMachine = {}
  BY DEF Init, ByMachine
<1>2. answers \in Seq({})
  BY DEF Init
<1> QED
  BY <1>1, <1>2, InitPlans DEF Made, Read

LEMMA EditedMade ==
  ASSUME Coded, Planned, Read(answers), NEW S, Edited(S), NEW c \in S
  PROVE  BuiltFrom([by |-> "edit", to |-> view[c].to, choices |-> view[c].choices], program, c, answers)
<1> DEFINE v == Classified(program, Live, answers)
           r == [by |-> "edit", to |-> view[c].to, choices |-> view[c].choices]
<1>1. /\ SeesAll(program, Live, answers, v) /\ v[c].class = "mechanical"
      /\ r.to = v[c].to /\ r.choices = v[c].choices /\ c \in Live
  BY EditedSees DEF Edited
<1> HIDE DEF v, r
<1>2. PICK D \in SUBSET Live : \E k :
        /\ v[c].decisions = Decisions(program, answers, c)
        /\ v[c].choices = Choices(Decisions(program, answers, c))
        /\ v[c].to = Build(program, Live, c, k, Choices(Decisions(program, answers, c)))
        /\ v[c].class = ClassOf(v[c].to.problems, v[c].decisions)
  BY <1>1, SeenParts
<1>3. "guided" \notin r.to.problems /\ \A d \in Decisions(program, answers, c) : d.choice # ""
  BY <1>1, <1>2, MechanicalClass
<1>4. \E k : r.to = Build(program, Live, c, k, r.choices)
  BY <1>1, <1>2
<1> QED
  BY <1>1, <1>2, <1>3, <1>4 DEF BuiltFrom, r

LEMMA MadeStep == Made /\ [Next]_vars => Made'
<1> SUFFICES ASSUME Made, [Next]_vars PROVE Made'
  OBVIOUS
<1>1. Coded /\ Planned /\ Read(answers)
  BY DEF Made
<1>2. Coded' /\ Planned' /\ program' = program
  BY <1>1, StepPlans
<1>3. CASE UNCHANGED vars
  BY <1>2, <1>3 DEF vars, Made, ByMachine
<1>4. CASE Next
  <2>1. Read(answers')
    BY <1>1, <1>4, StepAnswers
  <2>2. ASSUME new' = new
        PROVE  \A c \in ByMachine' : \E ans : BuiltFrom(new'[c], program, c, ans)
    BY <2>2 DEF Made, ByMachine
  <2>3. ASSUME NEW S, Edited(S), Migrated(S), NEW c \in ByMachine'
        PROVE  \E ans : BuiltFrom(new'[c], program, c, ans)
    <3>1. new' = [x \in DOMAIN new \cup S |-> IF x \in DOMAIN new THEN new[x]
                                               ELSE [by |-> "edit", to |-> view[x].to, choices |-> view[x].choices]]
      BY <2>3 DEF Migrated
    <3>2. CASE c \in DOMAIN new
      BY <2>3, <3>1, <3>2 DEF Made, ByMachine
    <3>3. CASE c \notin DOMAIN new
      <4>1. c \in S /\ new'[c] = [by |-> "edit", to |-> view[c].to, choices |-> view[c].choices]
        BY <3>1, <3>3 DEF ByMachine
      <4> QED
        BY <1>1, <2>3, <4>1, EditedMade
    <3> QED
      BY <3>2, <3>3
  <2>4. ASSUME NEW h \in Live, HandMigrate(h), NEW c \in ByMachine'
        PROVE  \E ans : BuiltFrom(new'[c], program, c, ans)
    <3>1. c \in ByMachine /\ new'[c] = new[c]
      BY <2>4 DEF HandMigrate, ByMachine
    <3> QED
      BY <3>1 DEF Made
  <2>5. \A c \in ByMachine' : \E ans : BuiltFrom(new'[c], program, c, ans)
    BY <1>1, <1>4, <2>2, <2>3, <2>4, StepKinds DEF Applies, Answered
  <2> QED
    BY <1>2, <2>1, <2>5 DEF Made
<1> QED
  BY <1>3, <1>4

LEMMA AlwaysMade == Spec => []Made
<1> QED
  BY MadeInit, MadeStep, PTL DEF Spec

-----------------------------------------------------------------------------
(* What an edit makes of a call. *)

LEMMA ByMachineParts ==
  ASSUME Made, NEW c \in ByMachine
  PROVE  \E ans, h :
           /\ Read(ans) /\ Chosen(c) = Choices(Decisions(program, ans, c))
           /\ Consists(To(c), Call(c), Chosen(c), h) /\ "guided" \notin To(c).problems
           /\ CallFollowed(program, c) /\ \E live, k : To(c) = Build(program, live, c, k, Chosen(c))
<1>1. CallFollowed(program, c)
  BY CodedFollowed DEF Made, Coded, Followed, ByMachine, Calls
<1>2. PICK ans : BuiltFrom(new[c], program, c, ans)
  BY DEF Made
<1>3. PICK live, k : To(c) = Build(program, live, c, k, Chosen(c))
  BY <1>2 DEF BuiltFrom, To, Chosen
<1>4. Consists(To(c), Call(c), Chosen(c), Handler(program, live, c, k, Chosen(c)))
  BY <1>1, <1>3, BuildParts DEF Call
<1> QED
  BY <1>1, <1>2, <1>3, <1>4 DEF BuiltFrom, To, Chosen

(***************************************************************************)
(* The statement that defines a subscription compiles after an edit        *)
(* (subscriptionUses): what it defines is used, and it defines something.  *)
(***************************************************************************)
LEMMA MadeStatements == Made => StatementsFit
<1> SUFFICES ASSUME Made, NEW c \in ByMachine, Call(c).use = "defined",
                    NEW st, st = To(c).statement
             PROVE  /\ st.name = "kept" => st.uses > 0
                    /\ st.defines => st.name = "kept" \/ Call(c).errNew
  BY DEF StatementsFit
<1>1. PICK h : /\ Consists(To(c), Call(c), Chosen(c), h) /\ "guided" \notin To(c).problems
               /\ CallFollowed(program, c)
  BY ByMachineParts
<1>2. Call(c).uses \in Seq(RangeOf(Call(c).uses)) /\ Call(c).uses # << >>
  BY <1>1 DEF CallFollowed, Call
<1>3. Len(Call(c).uses) > 0
  BY <1>2
<1>4. st = Statement(Call(c), TRUE) \/ st = Statement(Call(c), FALSE)
  BY <1>1 DEF Consists
<1> QED
  BY <1>2, <1>3, <1>4 DEF Statement

(* The statements of edits fit, always. *)
THEOREM StatementsAlwaysFit == Spec => []StatementsFit
<1> QED
  BY AlwaysMade, MadeStatements, PTL

-----------------------------------------------------------------------------
(* The fields of configs. *)

LEMMA JoinTwo ==
  ASSUME NEW V, NEW s \in Seq(V), NEW t \in Seq(V)
  PROVE  s \o t \in Seq(V) /\ RangeOf(s \o t) = RangeOf(s) \cup RangeOf(t)
<1>1. /\ s \o t \in Seq(V) /\ Len(s \o t) = Len(s) + Len(t) /\ Len(s) \in Nat /\ Len(t) \in Nat
      /\ DOMAIN s = 1 .. Len(s) /\ DOMAIN t = 1 .. Len(t) /\ DOMAIN (s \o t) = 1 .. Len(s) + Len(t)
  OBVIOUS
<1>2. ASSUME NEW i \in DOMAIN (s \o t) PROVE (s \o t)[i] \in RangeOf(s) \cup RangeOf(t)
  <2>1. CASE i <= Len(s)
    BY <1>1, <2>1 DEF RangeOf
  <2>2. CASE ~(i <= Len(s))
    <3>1. i - Len(s) \in DOMAIN t /\ (s \o t)[i] = t[i - Len(s)]
      BY <1>1, <2>2
    <3> QED
      BY <3>1 DEF RangeOf
  <2> QED
    BY <2>1, <2>2
<1>3. \A i \in DOMAIN s : i \in DOMAIN (s \o t) /\ (s \o t)[i] = s[i]
  BY <1>1
<1>4. \A i \in DOMAIN t : i + Len(s) \in DOMAIN (s \o t) /\ (s \o t)[i + Len(s)] = t[i]
  BY <1>1
<1>5. RangeOf(s \o t) = RangeOf(s) \cup RangeOf(t)
  <2> DEFINE j == s \o t
  <2> HIDE DEF j
  <2>1. \A i \in DOMAIN s : i \in DOMAIN j /\ j[i] = s[i]
    BY <1>3 DEF j
  <2>2. \A i \in DOMAIN t : \E k \in DOMAIN j : j[k] = t[i]
    BY <1>4 DEF j
  <2>3. \A i \in DOMAIN j : j[i] \in RangeOf(s) \cup RangeOf(t)
    BY <1>2 DEF j
  <2>4. RangeOf(j) = RangeOf(s) \cup RangeOf(t)
    BY <2>1, <2>2, <2>3 DEF RangeOf
  <2> QED
    BY <2>4 DEF j
<1> QED
  BY <1>1, <1>5

LEMMA AppendRange ==
  ASSUME NEW V, NEW s \in Seq(V), NEW x \in V
  PROVE  Append(s, x) \in Seq(V) /\ RangeOf(Append(s, x)) = RangeOf(s) \cup {x}
<1>1. DOMAIN s = 1 .. Len(s) /\ Len(s) \in Nat
  OBVIOUS
<1>6. /\ Append(s, x) \in Seq(V) /\ DOMAIN Append(s, x) = 1 .. Len(s) + 1
      /\ \A i \in DOMAIN s : Append(s, x)[i] = s[i]
      /\ Append(s, x)[Len(s) + 1] = x
  OBVIOUS
<1>7. RangeOf(Append(s, x)) = RangeOf(s) \cup {x}
  <2>1. \A i \in 1 .. Len(s) + 1 : i \in 1 .. Len(s) \/ i = Len(s) + 1
    BY <1>1
  <2>2. Len(s) + 1 \in 1 .. Len(s) + 1 /\ \A i \in 1 .. Len(s) : i \in 1 .. Len(s) + 1
    BY <1>1
  <2> QED
    BY <1>1, <1>6, <2>1, <2>2 DEF RangeOf
<1> QED
  BY <1>6, <1>7

LEMMA ShortRange ==
  ASSUME NEW V, NEW x \in V
  PROVE  <<x>> \in Seq(V) /\ RangeOf(<<x>>) = {x} /\ << >> \in Seq(V) /\ RangeOf(<< >>) = {}
<1>8. <<x>> \in Seq(V) /\ DOMAIN <<x>> = {1} /\ <<x>>[1] = x /\ << >> \in Seq(V) /\ DOMAIN << >> = {}
  OBVIOUS
<1>9. RangeOf(<<x>>) = {x} /\ RangeOf(<< >>) = {}
  BY <1>8 DEF RangeOf
<1> QED
  BY <1>8, <1>9

LEMMA ConcatRange ==
  ASSUME NEW V, NEW seqs \in Seq(Seq(V))
  PROVE  /\ Concat(seqs) \in Seq(V)
         /\ RangeOf(Concat(seqs)) = UNION {RangeOf(seqs[i]) : i \in DOMAIN seqs}
<1> DEFINE s == Concat(seqs)
<1>1. /\ s \in Seq(V) /\ \A k \in DOMAIN s : ComesFrom(s, k, seqs) /\ Holds(s, Len(s), seqs, Len(seqs))
      /\ Holds(s, Len(s), seqs, Len(seqs))
  BY ConcatParts
<1> HIDE DEF s
<1>2. DOMAIN s = 1 .. Len(s) /\ DOMAIN seqs = 1 .. Len(seqs)
  BY <1>1
<1>3. \A k \in DOMAIN s : \E i \in DOMAIN seqs : s[k] \in RangeOf(seqs[i])
  BY <1>1 DEF ComesFrom, RangeOf
<1>4. ASSUME NEW i \in DOMAIN seqs, NEW x \in RangeOf(seqs[i]) PROVE x \in RangeOf(s)
  <2>1. PICK j \in DOMAIN seqs[i] : x = seqs[i][j]
    BY DEF RangeOf
  <2>2. PICK k \in 1 .. Len(s) : s[k] = seqs[i][j]
    BY <1>1, <1>2 DEF Holds
  <2> QED
    BY <1>2, <2>1, <2>2 DEF RangeOf
<1>5. \A x \in RangeOf(s) : \E i \in DOMAIN seqs : x \in RangeOf(seqs[i])
  BY <1>3 DEF RangeOf
<1>6. RangeOf(s) = UNION {RangeOf(seqs[i]) : i \in DOMAIN seqs}
  BY <1>4, <1>5
<1> QED
  BY <1>1, <1>6 DEF s

Kept(seq, S) == Concat([i \in DOMAIN seq |-> IF seq[i] \in S THEN <<seq[i]>> ELSE << >>])

LEMMA FilterRange ==
  ASSUME NEW V, NEW seq \in Seq(V), NEW S
  PROVE  Kept(seq, S) \in Seq(V) /\ RangeOf(Kept(seq, S)) = RangeOf(seq) \cap S
<1> DEFINE seqs == [i \in DOMAIN seq |-> IF seq[i] \in S THEN <<seq[i]>> ELSE << >>]
<1>1. \A i \in DOMAIN seq : seqs[i] \in Seq(V) /\ RangeOf(seqs[i]) = {seq[i]} \cap S
  <2> TAKE i \in DOMAIN seq
  <2>1. seq[i] \in V
    OBVIOUS
  <2>2. /\ <<seq[i]>> \in Seq(V) /\ RangeOf(<<seq[i]>>) = {seq[i]}
        /\ << >> \in Seq(V) /\ RangeOf(<< >>) = {}
    BY <2>1, ShortRange
  <2> QED
    BY <2>2
<1>2. DOMAIN seqs = DOMAIN seq /\ seqs = [i \in DOMAIN seq |-> seqs[i]]
  OBVIOUS
<1> HIDE DEF seqs
<1>3. seqs \in Seq(Seq(V))
  <2>1. DOMAIN seq = 1 .. Len(seq) /\ Len(seq) \in Nat
    OBVIOUS
  <2> QED
    BY <1>1, <1>2, <2>1
<1>4. Concat(seqs) \in Seq(V) /\ RangeOf(Concat(seqs)) = UNION {RangeOf(seqs[i]) : i \in DOMAIN seqs}
  BY <1>3, ConcatRange
<1>5. UNION {RangeOf(seqs[i]) : i \in DOMAIN seqs} = RangeOf(seq) \cap S
  BY <1>1, <1>2 DEF RangeOf
<1> QED
  BY <1>4, <1>5 DEF seqs, Kept

(* The options that set a field, and to what. *)
LEMMA OptionNamesOfFields ==
  /\ DOMAIN FieldOf \cap DOMAIN PolicyOf = {} /\ DOMAIN FieldOf \cap DOMAIN StartOf = {}
  /\ DOMAIN PolicyOf \cap DOMAIN StartOf = {}
  /\ "AckNone" \in DOMAIN PolicyOf /\ "AckNone" \notin PushOnly
BY DEF FieldOf, PolicyOf, StartOf, PushOnly

LEMMA FieldNames ==
  ASSUME NEW x \in DOMAIN FieldOf
  PROVE  FieldOf[x] # "AckPolicy"
BY DEF FieldOf

LEMMA PolicyNames ==
  /\ PolicyOf["AckNone"] = <<"AckPolicy", "AckNonePolicy">>
  /\ \A x \in DOMAIN PolicyOf : PolicyOf[x][1] = "AckPolicy" /\ PolicyOf[x][2] = "AckNonePolicy" => x = "AckNone"
BY DEF PolicyOf

LEMMA StartNames ==
  ASSUME NEW x \in DOMAIN StartOf
  PROVE  StartOf[x][2] # "AckPolicy"
BY DEF StartOf

LEMMA OptionFieldsOf ==
  ASSUME NEW o
  PROVE  LET flag(f) == [f EXCEPT !.pushOnly = o.sym \in PushOnly] IN
           /\ o.sym \in DOMAIN FieldOf => OptionFields(o) = <<flag(Field(FieldOf[o.sym], o.arg))>>
           /\ o.sym \in DOMAIN PolicyOf =>
                OptionFields(o) = <<flag(Field(PolicyOf[o.sym][1], PolicyOf[o.sym][2]))>>
           /\ o.sym \in DOMAIN StartOf =>
                OptionFields(o) = <<Field("DeliverPolicy", StartOf[o.sym][1]), Field(StartOf[o.sym][2], o.arg)>>
           /\ o.sym \notin DOMAIN FieldOf \cup DOMAIN PolicyOf \cup DOMAIN StartOf => OptionFields(o) = << >>
BY OptionNamesOfFields DEF OptionFields

(* The fields of an option about acks: AckNone sets the policy of no acks, *)
(* on every kind of consumer, and nothing else does.                       *)
NoAcks(f) == f.name = "AckPolicy" /\ f.value = "AckNonePolicy"

LEMMA OneField ==
  ASSUME NEW f
  PROVE  <<f>> \in Seq(RangeOf(<<f>>)) /\ RangeOf(<<f>>) = {f}
<1>1. DOMAIN <<f>> = {1} /\ <<f>>[1] = f
  OBVIOUS
<1>2. RangeOf(<<f>>) = {f}
  BY <1>1 DEF RangeOf
<1>3. <<f>> \in Seq({f})
  OBVIOUS
<1> QED
  BY <1>2, <1>3

LEMMA OptionAcks ==
  ASSUME NEW o
  PROVE  /\ OptionFields(o) \in Seq(RangeOf(OptionFields(o)))
         /\ \A f \in RangeOf(OptionFields(o)) : NoAcks(f) => o.sym = "AckNone"
         /\ o.sym = "AckNone" => \E f \in RangeOf(OptionFields(o)) : NoAcks(f) /\ ~f.pushOnly
<1> DEFINE flag(f) == [f EXCEPT !.pushOnly = o.sym \in PushOnly]
           s == OptionFields(o)
           Flagged(n, x) == [name |-> n, value |-> x, pushOnly |-> o.sym \in PushOnly]
<1>1. ASSUME NEW n, NEW x
      PROVE  flag(Field(n, x)) = Flagged(n, x)
  BY DEF Field
<1>2. ASSUME NEW n, NEW x
      PROVE  /\ Flagged(n, x).name = n /\ Flagged(n, x).value = x
             /\ Flagged(n, x).pushOnly = (o.sym \in PushOnly)
  OBVIOUS
<1> HIDE DEF flag, s, Flagged
<1>3. CASE o.sym \in DOMAIN FieldOf
  <2> DEFINE f == Flagged(FieldOf[o.sym], o.arg)
  <2>1. s = <<f>>
    BY <1>1, <1>3, OptionFieldsOf DEF flag, s
  <2>2. f.name # "AckPolicy"
    BY <1>2, <1>3, FieldNames
  <2>3. o.sym # "AckNone"
    BY <1>3, OptionNamesOfFields
  <2> HIDE DEF f
  <2>4. s \in Seq(RangeOf(s)) /\ RangeOf(s) = {f}
    BY <2>1, OneField
  <2> QED
    BY <2>2, <2>3, <2>4 DEF NoAcks, s
<1>4. CASE o.sym \in DOMAIN PolicyOf
  <2> DEFINE f == Flagged(PolicyOf[o.sym][1], PolicyOf[o.sym][2])
  <2>1. s = <<f>>
    BY <1>1, <1>4, OptionFieldsOf DEF flag, s
  <2>2. f.name = PolicyOf[o.sym][1] /\ f.value = PolicyOf[o.sym][2] /\ f.pushOnly = (o.sym \in PushOnly)
    BY <1>2
  <2> HIDE DEF f
  <2>3. NoAcks(f) => o.sym = "AckNone"
    BY <1>4, <2>2, PolicyNames DEF NoAcks
  <2>4. o.sym = "AckNone" => NoAcks(f) /\ ~f.pushOnly
    <3> SUFFICES ASSUME o.sym = "AckNone" PROVE NoAcks(f) /\ ~f.pushOnly
      OBVIOUS
    <3>1. f.name = <<"AckPolicy", "AckNonePolicy">>[1] /\ f.value = <<"AckPolicy", "AckNonePolicy">>[2]
      BY <2>2, PolicyNames
    <3> QED
      BY <2>2, <3>1, OptionNamesOfFields DEF NoAcks
  <2>5. s \in Seq(RangeOf(s)) /\ RangeOf(s) = {f}
    BY <2>1, OneField
  <2> QED
    BY <2>3, <2>4, <2>5 DEF s
<1>5. CASE o.sym \in DOMAIN StartOf
  <2> DEFINE f == Field("DeliverPolicy", StartOf[o.sym][1])
             g == Field(StartOf[o.sym][2], o.arg)
  <2>1. s = <<f, g>>
    BY <1>5, OptionFieldsOf DEF s
  <2>2. f.name # "AckPolicy" /\ g.name # "AckPolicy"
    BY <1>5, StartNames DEF Field
  <2>3. o.sym # "AckNone"
    BY <1>5, OptionNamesOfFields
  <2> HIDE DEF f, g
  <2>4. s \in Seq(RangeOf(s)) /\ RangeOf(s) = {f, g}
    <3>1. DOMAIN <<f, g>> = {1, 2} /\ <<f, g>>[1] = f /\ <<f, g>>[2] = g
      OBVIOUS
    <3>2. RangeOf(<<f, g>>) = {f, g}
      BY <3>1 DEF RangeOf
    <3>3. <<f, g>> \in Seq({f, g})
      OBVIOUS
    <3> QED
      BY <2>1, <3>2, <3>3
  <2> QED
    BY <2>2, <2>3, <2>4 DEF NoAcks, s
<1>6. CASE o.sym \notin DOMAIN FieldOf \cup DOMAIN PolicyOf \cup DOMAIN StartOf
  <2>1. s = << >>
    BY <1>6, OptionFieldsOf DEF s
  <2>2. o.sym # "AckNone"
    BY <1>6, OptionNamesOfFields
  <2>3. RangeOf(s) = {}
    BY <2>1 DEF RangeOf
  <2> QED
    BY <2>1, <2>2, <2>3 DEF s
<1> QED
  BY <1>3, <1>4, <1>5, <1>6

(* The options of a call, their symbols, and whether its queue names it.   *)
Opts(c)  == IF c.slice THEN << >> ELSE c.opts
Syms(c)  == {Opts(c)[i].sym : i \in DOMAIN Opts(c)}
Named(c) == ~c.slice /\ c.queue # "" /\ "Bind" \notin Syms(c) /\ "Durable" \notin Syms(c)

(* The fields of a call: those of its options, and a name for its queue.   *)
LEMMA ParseRange ==
  ASSUME NEW c, c.opts \in Seq(RangeOf(c.opts))
  PROVE  /\ Parse(c).fields \in Seq(RangeOf(Parse(c).fields))
         /\ \A f \in RangeOf(Parse(c).fields) :
              \/ Named(c) /\ f = Field("Durable", c.queue)
              \/ \E i \in DOMAIN Opts(c) : f \in RangeOf(OptionFields(Opts(c)[i]))
         /\ \A i \in DOMAIN Opts(c) : RangeOf(OptionFields(Opts(c)[i])) \subseteq RangeOf(Parse(c).fields)
<1> DEFINE sc == Parse(c)
           opts == Opts(c)
           queue == Field("Durable", c.queue)
           head == IF Named(c) THEN <<queue>> ELSE << >>
           seqs == [i \in DOMAIN opts |-> OptionFields(opts[i])]
           V == {queue} \cup UNION {RangeOf(OptionFields(opts[i])) : i \in DOMAIN opts}
<1>1. sc.fields = head \o Concat(seqs)
  <2> DEFINE o == IF c.slice THEN << >> ELSE c.opts
             syms == {o[i].sym : i \in DOMAIN o}
             named == ~c.slice /\ c.queue # "" /\ "Bind" \notin syms /\ "Durable" \notin syms
  <2>1. sc.fields = (IF named THEN <<queue>> ELSE << >>) \o Concat([i \in DOMAIN o |-> OptionFields(o[i])])
    BY Zenon DEF Parse, AllFields
  <2>2. named <=> Named(c)
    BY DEF Named, Syms, Opts
  <2>3. [i \in DOMAIN o |-> OptionFields(o[i])] = seqs
    BY DEF Opts
  <2> HIDE DEF o, named, queue, seqs, sc
  <2> QED
    BY <2>1, <2>2, <2>3
<1>2. opts \in Seq(RangeOf(c.opts))
  BY DEF RangeOf, Opts
<1> HIDE DEF sc
<1>4. head \in Seq(V) /\ (\A f \in RangeOf(head) : Named(c) /\ f = queue)
  <2>1. queue \in V
    OBVIOUS
  <2>2. (Named(c) /\ head = <<queue>>) \/ head = << >>
    OBVIOUS
  <2> HIDE DEF V, queue, head
  <2>3. <<queue>> \in Seq(V) /\ << >> \in Seq(V)
    BY <2>1
  <2>4. RangeOf(<<queue>>) = {queue} /\ RangeOf(<< >>) = {}
    BY OneField DEF RangeOf
  <2> QED
    BY <2>2, <2>3, <2>4
<1> HIDE DEF head
<1>5. \A i \in DOMAIN opts : OptionFields(opts[i]) \in Seq(V)
  <2> TAKE i \in DOMAIN opts
  <2>1. RangeOf(OptionFields(opts[i])) \subseteq V
    OBVIOUS
  <2>2. OptionFields(opts[i]) \in Seq(RangeOf(OptionFields(opts[i])))
    BY OptionAcks
  <2> HIDE DEF V
  <2> QED
    BY <2>1, <2>2
<1> HIDE DEF V, queue, opts
<1>6. seqs \in Seq(Seq(V)) /\ DOMAIN seqs = DOMAIN opts /\ \A i \in DOMAIN opts : seqs[i] = OptionFields(opts[i])
  <2>1. DOMAIN opts = 1 .. Len(opts) /\ Len(opts) \in Nat
    BY <1>2
  <2> QED
    BY <1>5, <2>1
<1> HIDE DEF seqs
<1>7. Concat(seqs) \in Seq(V) /\ RangeOf(Concat(seqs)) = UNION {RangeOf(seqs[i]) : i \in DOMAIN seqs}
  BY <1>6, ConcatRange
<1>8. /\ sc.fields \in Seq(V)
      /\ RangeOf(sc.fields) = RangeOf(head) \cup UNION {RangeOf(OptionFields(opts[i])) : i \in DOMAIN opts}
  <2>1. UNION {RangeOf(seqs[i]) : i \in DOMAIN seqs} = UNION {RangeOf(OptionFields(opts[i])) : i \in DOMAIN opts}
    BY <1>6
  <2>2. /\ head \o Concat(seqs) \in Seq(V)
        /\ RangeOf(head \o Concat(seqs)) = RangeOf(head) \cup RangeOf(Concat(seqs))
    <3>1. head \in Seq(V) /\ Concat(seqs) \in Seq(V)
      BY <1>4, <1>7
    <3>2. \A t \in Seq(V) :
            head \o t \in Seq(V) /\ RangeOf(head \o t) = RangeOf(head) \cup RangeOf(t)
      BY <3>1, JoinTwo, Zenon
    <3> QED
      BY <3>1, <3>2, Zenon
  <2> QED
    BY <1>1, <1>7, <2>1, <2>2
<1>9. sc.fields \in Seq(RangeOf(sc.fields))
  BY <1>8 DEF RangeOf
<1> QED
  BY <1>4, <1>8, <1>9 DEF sc, opts, queue

LEMMA ParseFields ==
  ASSUME NEW c, c.opts \in Seq(RangeOf(c.opts))
  PROVE  LET sc == Parse(c) IN
           /\ sc.fields \in Seq(RangeOf(sc.fields))
           /\ \A f \in RangeOf(sc.fields) : NoAcks(f) => sc.ackNone
           /\ sc.ackNone => \E f \in RangeOf(sc.fields) : NoAcks(f) /\ ~f.pushOnly
<1> DEFINE sc == Parse(c)
<1>1. sc.ackNone = ("AckNone" \in Syms(c))
  BY DEF Parse, Opts, Syms
<1>2. Field("Durable", c.queue).name = "Durable"
  BY DEF Field
<1>3. ASSUME NEW f \in RangeOf(sc.fields), NoAcks(f) PROVE sc.ackNone
  <2>1. f # Field("Durable", c.queue)
    BY <1>2, <1>3 DEF NoAcks
  <2>2. PICK i \in DOMAIN Opts(c) : f \in RangeOf(OptionFields(Opts(c)[i]))
    BY <2>1, ParseRange
  <2>3. Opts(c)[i].sym = "AckNone"
    BY <1>3, <2>2, OptionAcks
  <2> QED
    BY <1>1, <2>3 DEF Syms
<1>4. ASSUME sc.ackNone PROVE \E f \in RangeOf(sc.fields) : NoAcks(f) /\ ~f.pushOnly
  <2>1. PICK i \in DOMAIN Opts(c) : Opts(c)[i].sym = "AckNone"
    BY <1>1, <1>4 DEF Syms
  <2>2. PICK f \in RangeOf(OptionFields(Opts(c)[i])) : NoAcks(f) /\ ~f.pushOnly
    BY <2>1, OptionAcks
  <2> QED
    BY <2>2, ParseRange
<1> QED
  BY <1>3, <1>4, ParseRange

(* The fields that a filter of fields leaves. *)
LEMMA FieldsLeft ==
  ASSUME NEW fields, fields \in Seq(RangeOf(fields))
  PROVE  /\ LET kept == Filter(fields, LAMBDA f : f.name # "AckPolicy") IN
              /\ kept \in Seq(RangeOf(fields))
              /\ RangeOf(kept) = {f \in RangeOf(fields) : f.name # "AckPolicy"}
         /\ LET kept == Filter(fields, LAMBDA f : ~f.pushOnly) IN
              kept \in Seq(RangeOf(fields)) /\ RangeOf(kept) = {f \in RangeOf(fields) : ~f.pushOnly}
<1> DEFINE V == RangeOf(fields)
           other == {f \in V : f.name # "AckPolicy"}
           pull == {f \in V : ~f.pushOnly}
<1>1. \A i \in DOMAIN fields : fields[i] \in V
  BY DEF RangeOf
<1>2. Filter(fields, LAMBDA f : f.name # "AckPolicy") = Kept(fields, other)
  <2>1. [i \in DOMAIN fields |-> IF fields[i].name # "AckPolicy" THEN <<fields[i]>> ELSE << >>]
          = [i \in DOMAIN fields |-> IF fields[i] \in other THEN <<fields[i]>> ELSE << >>]
    BY <1>1
  <2> QED
    BY <2>1 DEF Filter, Kept
<1>3. Filter(fields, LAMBDA f : ~f.pushOnly) = Kept(fields, pull)
  <2>1. [i \in DOMAIN fields |-> IF ~fields[i].pushOnly THEN <<fields[i]>> ELSE << >>]
          = [i \in DOMAIN fields |-> IF fields[i] \in pull THEN <<fields[i]>> ELSE << >>]
    BY <1>1
  <2> QED
    BY <2>1 DEF Filter, Kept
<1>4. ASSUME NEW S PROVE Kept(fields, S) \in Seq(V) /\ RangeOf(Kept(fields, S)) = V \cap S
  BY FilterRange
<1>5. V \cap other = other /\ V \cap pull = pull
  OBVIOUS
<1>6. Kept(fields, other) \in Seq(V) /\ RangeOf(Kept(fields, other)) = other /\ Kept(fields, pull) \in Seq(V) /\ RangeOf(Kept(fields, pull)) = pull
  BY <1>4, <1>5
<1> QED
  BY <1>2, <1>3, <1>6

(* Values of a config: those of its fields. *)
LEMMA ConfigTaken ==
  ASSUME NEW fields, NEW n \in Names(fields)
  PROVE  n \in DOMAIN ConfigOf(fields)
         /\ \E f \in RangeOf(fields) : f.name = n /\ f.value = ConfigOf(fields)[n]
<1>1. PICK i \in DOMAIN fields : fields[i].name = n
  BY DEF Names
<1> DEFINE j == CHOOSE k \in DOMAIN fields : fields[k].name = n
<1>2. j \in DOMAIN fields /\ fields[j].name = n
  BY <1>1
<1>3. n \in DOMAIN ConfigOf(fields) /\ ConfigOf(fields)[n] = fields[j].value
  BY DEF ConfigOf
<1> HIDE DEF j
<1> QED
  BY <1>2, <1>3 DEF RangeOf

(* The fields of a policy of acks and which of them a consumer's config    *)
(* has: its own, where an answer says no acks, or those of the options.    *)
AckField(f) == f.name = "AckPolicy"

Policed(fields, own) ==
  /\ \A f \in RangeOf(own) : AckField(f) => f \in RangeOf(fields)
  /\ \A f \in RangeOf(fields) : AckField(f) /\ ~f.pushOnly => f \in RangeOf(own)

Unacked(own) ==
  /\ \A f \in RangeOf(own) : AckField(f) => NoAcks(f)
  /\ \E f \in RangeOf(own) : NoAcks(f) /\ ~f.pushOnly

LEMMA AckFieldsParts ==
  ASSUME NEW fields, fields \in Seq(RangeOf(fields)), NEW ch
  PROVE  LET own == AckFields(fields, ch) IN
           /\ own \in Seq(RangeOf(own))
           /\ ch.ack = "none" => Unacked(own)
           /\ ch.ack # "none" => Policed(fields, own)
<1> DEFINE kept == Filter(fields, LAMBDA f : f.name # "AckPolicy")
           no == Field("AckPolicy", "AckNonePolicy")
           own == AckFields(fields, ch)
<1>1. kept \in Seq(RangeOf(fields)) /\ RangeOf(kept) = {f \in RangeOf(fields) : f.name # "AckPolicy"}
  BY FieldsLeft
<1>2. no.name = "AckPolicy" /\ no.value = "AckNonePolicy" /\ no.pushOnly = FALSE
  BY DEF Field
<1>3. own = IF ch.ack = "none" THEN Append(kept, no) ELSE fields
  BY DEF AckFields
<1> HIDE DEF kept, no, own
<1>4. CASE ch.ack = "none"
  <2> DEFINE V == RangeOf(fields) \cup {no}
  <2>1. kept \in Seq(V) /\ no \in V
    BY <1>1
  <2> HIDE DEF V
  <2>2. RangeOf(own) = RangeOf(kept) \cup {no} /\ own \in Seq(V)
    BY <1>3, <1>4, <2>1, AppendRange
  <2>3. own \in Seq(RangeOf(own))
    BY <2>2 DEF RangeOf
  <2>4. Unacked(own)
    BY <1>1, <1>2, <2>2 DEF Unacked, AckField, NoAcks
  <2> QED
    BY <1>4, <2>3, <2>4 DEF own
<1>5. CASE ch.ack # "none"
  <2>1. own = fields
    BY <1>3, <1>5
  <2>2. Policed(fields, own)
    BY <2>1 DEF Policed
  <2> QED
    BY <1>5, <2>1, <2>2 DEF own
<1> QED
  BY <1>4, <1>5

LEMMA ConfigFieldsParts ==
  ASSUME NEW c, NEW sc, sc.fields \in Seq(RangeOf(sc.fields)), NEW ch, c.form # "pull", ~sc.ordered
  PROVE  LET fields == ConfigFields(c, sc, ch) IN
           /\ fields \in Seq(RangeOf(fields))
           /\ ch.ack = "none" => Unacked(fields)
           /\ ch.ack # "none" => Policed(sc.fields, fields)
<1> DEFINE own == AckFields(sc.fields, ch)
           fields == ConfigFields(c, sc, ch)
<1>1. fields = IF Target(ch) = "pull" THEN Filter(own, LAMBDA f : ~f.pushOnly) ELSE own
  BY DEF ConfigFields
<1>2. /\ own \in Seq(RangeOf(own))
      /\ ch.ack = "none" => Unacked(own)
      /\ ch.ack # "none" => Policed(sc.fields, own)
  BY AckFieldsParts
<1> HIDE DEF own, fields
<1>3. Filter(own, LAMBDA f : ~f.pushOnly) \in Seq(RangeOf(own))
      /\ RangeOf(Filter(own, LAMBDA f : ~f.pushOnly)) = {f \in RangeOf(own) : ~f.pushOnly}
  BY <1>2, FieldsLeft
<1>4. /\ fields \in Seq(RangeOf(own)) /\ RangeOf(fields) \subseteq RangeOf(own)
      /\ \A f \in RangeOf(own) : ~f.pushOnly => f \in RangeOf(fields)
  BY <1>1, <1>2, <1>3
<1>5. fields \in Seq(RangeOf(fields))
  BY <1>4 DEF RangeOf
<1>6. ch.ack = "none" => Unacked(fields)
  BY <1>2, <1>4 DEF Unacked
<1>7. ch.ack # "none" => Policed(sc.fields, fields)
  BY <1>2, <1>4 DEF Policed
<1> QED
  BY <1>5, <1>6, <1>7 DEF fields

(* The fields that a config has besides do not set a policy.               *)
Completes(config, fields) ==
  /\ RangeOf(fields) \subseteq RangeOf(config)
  /\ \A f \in RangeOf(config) : AckField(f) => f \in RangeOf(fields)

LEMMA ConfigsComplete ==
  ASSUME NEW c, NEW fields, fields \in Seq(RangeOf(fields))
  PROVE  /\ Completes(Append(fields, Field("FilterSubject", c.subject)), fields)
         /\ Completes(PushConfig(c, fields), fields)
<1> DEFINE filter == Field("FilterSubject", c.subject)
           inbox == Field("DeliverSubject", Inbox)
           group == Field("DeliverGroup", c.queue)
           V == RangeOf(fields) \cup {filter, inbox, group}
           a == IF "DeliverSubject" \in Names(fields) THEN << >> ELSE <<inbox>>
           b == IF c.queue = "" THEN << >> ELSE <<group>>
<1>1. filter.name # "AckPolicy" /\ inbox.name # "AckPolicy" /\ group.name # "AckPolicy"
  BY DEF Field
<1>2. fields \in Seq(V) /\ filter \in V /\ inbox \in V /\ group \in V
  OBVIOUS
<1>3. PushConfig(c, fields) = ((fields \o a) \o b) \o <<filter>>
  BY DEF PushConfig
<1> HIDE DEF filter, inbox, group, V
<1>4. /\ \A x \in V : <<x>> \in Seq(V) /\ RangeOf(<<x>>) = {x}
      /\ << >> \in Seq(V) /\ RangeOf(<< >>) = {}
  <2>1. << >> \in Seq(V) /\ DOMAIN << >> = {}
    OBVIOUS
  <2> QED
    BY <2>1, OneField DEF RangeOf
<1>5. a \in Seq(V) /\ RangeOf(a) \subseteq {inbox} /\ b \in Seq(V) /\ RangeOf(b) \subseteq {group}
  BY <1>2, <1>4
<1> HIDE DEF a, b
<1>6. fields \o a \in Seq(V) /\ RangeOf(fields \o a) = RangeOf(fields) \cup RangeOf(a)
  BY <1>2, <1>5, JoinTwo
<1> DEFINE s == fields \o a
<1>7. s \in Seq(V) /\ RangeOf(s) = RangeOf(fields) \cup RangeOf(a)
  BY <1>6
<1> DEFINE t == s \o b
           u == <<filter>>
<1> HIDE DEF s
<1>8. t \in Seq(V) /\ RangeOf(t) = RangeOf(s) \cup RangeOf(b)
  BY <1>5, <1>7, JoinTwo
<1>9. u \in Seq(V) /\ RangeOf(u) = {filter}
  BY <1>2, <1>4
<1> HIDE DEF t, u
<1>10. t \o u \in Seq(V) /\ RangeOf(t \o u) = RangeOf(t) \cup RangeOf(u)
  BY <1>8, <1>9, JoinTwo
<1>11. RangeOf(PushConfig(c, fields)) \subseteq RangeOf(fields) \cup {inbox, group, filter}
       /\ RangeOf(fields) \subseteq RangeOf(PushConfig(c, fields))
  <2>1. PushConfig(c, fields) = t \o u
    BY <1>3 DEF s, t, u
  <2>2. RangeOf(t \o u) = RangeOf(fields) \cup RangeOf(a) \cup RangeOf(b) \cup {filter}
    BY <1>7, <1>8, <1>9, <1>10
  <2> QED
    BY <1>5, <2>1, <2>2
<1>12. RangeOf(Append(fields, filter)) = RangeOf(fields) \cup {filter}
  BY <1>2, AppendRange
<1> QED
  BY <1>1, <1>11, <1>12 DEF Completes, AckField, filter

(* A new consumer, of its own or a push one: its config, and for whom.     *)
Configured(b, call, ch) ==
  "guided" \notin b.problems /\ b.kind \in {"consumer", "push"} =>
    LET fields == ConfigFields(call, Parse(call), ch) IN
      /\ call.form # "pull" /\ ~Parse(call).ordered
      /\ \/ b.config = Append(fields, Field("FilterSubject", call.subject))
         \/ b.config = PushConfig(call, fields)

LEMMA BuildConfigs ==
  ASSUME NEW p, NEW live, NEW c, NEW k, NEW ch
  PROVE  Configured(Build(p, live, c, k, ch), p.calls[c], ch)
<1> DEFINE b == Build(p, live, c, k, ch)
           h == Handler(p, live, c, k, ch)
           call == p.calls[c]
           sc == Parse(call)
           fields == ConfigFields(call, sc, ch)
           base == sc.problems \cup ReceiverProblems(call) \cup UseProblems(call)
           explicit == IF ch.ack = "explicit" THEN {"guided"} ELSE {}
           consumed(kind, config, more) ==
             Rewrite(kind, config, h.how, Wraps(sc, ch), Statement(call, FALSE),
                     base \cup explicit \cup h.problems \cup more)
           ordered == IF Names(fields) \subseteq OrderedFields THEN {} ELSE {"guided"}
           queued == IF call.queue # "" THEN {"guided"} ELSE {}
           alone == Append(fields, Field("FilterSubject", call.subject))
<1>1. b = IF \/ call.recv = "expression" \/ Target(ch) = "defer"
             \/ call.form \in {"sync", "chan"}
          THEN Unwritten(sc.problems \cup {"guided"})
          ELSE IF call.form = "pull"
          THEN Rewrite("pull", IF sc.bound THEN << >> ELSE PullConfig(call, sc, fields), "none", FALSE,
                       Statement(call, TRUE), base)
          ELSE IF sc.ordered THEN consumed("ordered", OrderedConfig(fields, call.subject), ordered)
          ELSE IF sc.bound THEN consumed("bound", << >>, {})
          ELSE IF Target(ch) = "push" THEN consumed("push", PushConfig(call, fields), queued)
          ELSE consumed("consumer", alone, {})
  BY DEF Build
<1>0. SUFFICES Configured(b, call, ch)
  OBVIOUS
<1>2. ASSUME NEW kind, NEW config, NEW more, b = consumed(kind, config, more)
      PROVE  b.kind = kind /\ b.config = config
  BY <1>2 DEF Rewrite
<1> HIDE DEF consumed, b
<1>3. CASE b = Unwritten(sc.problems \cup {"guided"})
  BY <1>3 DEF Unwritten, Rewrite, Configured
<1>4. CASE b = Rewrite("pull", IF sc.bound THEN << >> ELSE PullConfig(call, sc, fields), "none", FALSE,
                       Statement(call, TRUE), base)
  BY <1>4 DEF Rewrite, Configured
<1>5. CASE b = consumed("ordered", OrderedConfig(fields, call.subject), ordered) \/ b = consumed("bound", << >>, {})
  BY <1>2, <1>5 DEF Configured
<1>6. CASE /\ call.form # "pull" /\ ~sc.ordered
           /\ b = consumed("push", PushConfig(call, fields), queued) \/ b = consumed("consumer", alone, {})
  <2>1. b.config = PushConfig(call, fields) \/ b.config = alone
    BY <1>2, <1>6
  <2> HIDE DEF alone, fields
  <2> QED
    BY <1>6, <2>1 DEF Configured, alone, fields
<1> HIDE DEF call, sc, fields, base, ordered, queued, alone
<1> QED
  BY <1>1, <1>3, <1>4, <1>5, <1>6

(***************************************************************************)
(* Acks (buildSubscribe, consume): a handler is wrapped exactly where the  *)
(* legacy library acked and the answer is not to do without.               *)
(***************************************************************************)
LEMMA WrapsAsLegacy ==
  ASSUME Made, NEW c \in ByMachine, Call(c).form = "callback"
  PROVE  /\ To(c).wraps = Wraps(Parse(Call(c)), Chosen(c))
         /\ To(c).wraps <=> LegacyAcks(c) /\ Chosen(c).ack # "none"
<1> DEFINE sc == Parse(Call(c))
<1>1. PICK ans, h :
        /\ Read(ans) /\ Chosen(c) = Choices(Decisions(program, ans, c))
        /\ Consists(To(c), Call(c), Chosen(c), h) /\ "guided" \notin To(c).problems
  BY ByMachineParts
<1>2. To(c).wraps = Wraps(sc, Chosen(c)) /\ Chosen(c).ack # "explicit"
  BY <1>1 DEF Consists
<1>3. /\ Chosen(c)["ack"] \in OptionsOf("ack") \cup {""}
      /\ Chosen(c)["ack"] # "" <=> AsksOf(program, c, "ack")
  <2>1. ASSUME NEW q \in Askable, q # "pushOnly"
        PROVE  Chosen(c)[q] \in OptionsOf(q) \cup {""} /\ (Chosen(c)[q] # "" <=> AsksOf(program, c, q))
    <3>1. ChoiceFits(Chosen(c), program, c, q)
      BY <1>1, ChoiceParts
    <3> QED
      BY <2>1, <3>1 DEF ChoiceFits
  <2>2. "ack" \in Askable /\ "ack" # "pushOnly"
    BY DEF Askable
  <2> QED
    BY <2>1, <2>2, Zenon
<1>4. AsksOf(program, c, "ack") <=> LegacyAcks(c)
  BY DEF AsksOf, LegacyAcks, Call
<1>5. Chosen(c).ack \in {"after-handler", "explicit", "none", ""}
  BY <1>3, OptionNames
<1> QED
  BY <1>2, <1>3, <1>4, <1>5 DEF Wraps, LegacyAcks

(* What the config of a new consumer says of acks. *)
LEMMA ConfigAcks ==
  ASSUME NEW call, call.opts \in Seq(RangeOf(call.opts)), NEW ch, NEW b,
         Configured(b, call, ch), "guided" \notin b.problems, b.kind \in {"consumer", "push"}
  PROVE  LET own == b.config IN
           /\ ch.ack = "none" => Unacked(own)
           /\ ch.ack # "none" => Policed(Parse(call).fields, own)
<1> DEFINE sc == Parse(call)
           fields == ConfigFields(call, sc, ch)
<1>1. /\ call.form # "pull" /\ ~sc.ordered
      /\ \/ b.config = Append(fields, Field("FilterSubject", call.subject))
         \/ b.config = PushConfig(call, fields)
  BY DEF Configured
<1>2. sc.fields \in Seq(RangeOf(sc.fields))
  BY ParseFields
<1> HIDE DEF sc
<1>3. /\ fields \in Seq(RangeOf(fields))
      /\ ch.ack = "none" => Unacked(fields)
      /\ ch.ack # "none" => Policed(sc.fields, fields)
  BY <1>1, <1>2, ConfigFieldsParts
<1> HIDE DEF fields
<1>4. Completes(b.config, fields)
  BY <1>1, <1>3, ConfigsComplete
<1>5. ch.ack = "none" => Unacked(b.config)
  BY <1>3, <1>4 DEF Unacked, Completes, NoAcks, AckField
<1>6. ch.ack # "none" => Policed(sc.fields, b.config)
  BY <1>3, <1>4 DEF Policed, Completes
<1> QED
  BY <1>5, <1>6 DEF sc

LEMMA UnackedPolicy ==
  ASSUME NEW config, Unacked(config)
  PROVE  AckPolicy(ConfigOf(config)) = "AckNonePolicy"
<1>1. "AckPolicy" \in Names(config)
  BY DEF Unacked, NoAcks, RangeOf, Names
<1>2. PICK f \in RangeOf(config) : f.name = "AckPolicy" /\ f.value = ConfigOf(config)["AckPolicy"]
  BY <1>1, ConfigTaken
<1>3. ConfigOf(config)["AckPolicy"] = "AckNonePolicy"
  BY <1>2 DEF Unacked, AckField, NoAcks
<1> QED
  BY <1>1, <1>3, ConfigTaken DEF AckPolicy

LEMMA NoAcksPolicy ==
  ASSUME NEW config, AckPolicy(ConfigOf(config)) = "AckNonePolicy"
  PROVE  \E f \in RangeOf(config) : NoAcks(f)
<1>1. "AckPolicy" \in DOMAIN ConfigOf(config) /\ ConfigOf(config)["AckPolicy"] = "AckNonePolicy"
  BY DEF AckPolicy
<1>2. "AckPolicy" \in Names(config)
  BY <1>1 DEF ConfigOf
<1>3. PICK f \in RangeOf(config) : f.name = "AckPolicy" /\ f.value = ConfigOf(config)["AckPolicy"]
  BY <1>2, ConfigTaken
<1> QED
  BY <1>1, <1>3 DEF NoAcks

LEMMA OnceUnacked ==
  ASSUME NEW fields, OnceEach(fields), NEW own, Policed(fields, own),
         NEW f \in RangeOf(fields), NoAcks(f), ~f.pushOnly
  PROVE  Unacked(own)
<1>1. \A g \in RangeOf(fields) : AckField(g) => g = f
  BY DEF OnceEach, RangeOf, AckField, NoAcks
<1>2. AckField(f)
  BY DEF AckField, NoAcks
<1> QED
  BY <1>1, <1>2 DEF Policed, Unacked

LEMMA MadeAcks == Made => AcksAgree
<1> SUFFICES ASSUME Made, NEW c \in ByMachine, Call(c).form = "callback",
                    NEW sc, sc = Parse(Call(c)),
                    NEW noAcks, noAcks = (AckPolicy(ConfigOf(To(c).config)) = "AckNonePolicy")
             PROVE  /\ To(c).wraps <=> LegacyAcks(c) /\ Chosen(c).ack # "none"
                    /\ To(c).kind \in {"consumer", "push"} /\ OnceEach(sc.fields) =>
                         /\ noAcks => ~To(c).wraps
                         /\ noAcks \/ To(c).wraps \/ sc.manualAck
  BY DEF AcksAgree
<1>1. To(c).wraps = Wraps(sc, Chosen(c)) /\ (To(c).wraps <=> LegacyAcks(c) /\ Chosen(c).ack # "none")
  BY WrapsAsLegacy
<1>2. SUFFICES ASSUME To(c).kind \in {"consumer", "push"}, OnceEach(sc.fields)
               PROVE  /\ noAcks => ~To(c).wraps
                      /\ noAcks \/ To(c).wraps \/ sc.manualAck
  BY <1>1
<1>3. PICK live, k : To(c) = Build(program, live, c, k, Chosen(c))
  BY ByMachineParts
<1>4. "guided" \notin To(c).problems /\ CallFollowed(program, c)
  BY ByMachineParts
<1>5. Configured(To(c), Call(c), Chosen(c))
  BY <1>3, BuildConfigs DEF Call
<1>6. Call(c).opts \in Seq(RangeOf(Call(c).opts))
  BY <1>4 DEF CallFollowed, Call
<1>7. /\ Chosen(c).ack = "none" => Unacked(To(c).config)
      /\ Chosen(c).ack # "none" => Policed(sc.fields, To(c).config)
  BY <1>2, <1>4, <1>5, <1>6, ConfigAcks
<1>8. /\ \A f \in RangeOf(sc.fields) : NoAcks(f) => sc.ackNone
      /\ sc.ackNone => \E f \in RangeOf(sc.fields) : NoAcks(f) /\ ~f.pushOnly
  BY <1>6, ParseFields
<1>9. CASE Chosen(c).ack = "none"
  BY <1>1, <1>7, <1>9, UnackedPolicy
<1>10. CASE Chosen(c).ack # "none"
  <2>1. Policed(sc.fields, To(c).config)
    BY <1>7, <1>10
  <2>2. noAcks => sc.ackNone
    <3>1. noAcks => \E f \in RangeOf(To(c).config) : NoAcks(f)
      BY NoAcksPolicy
    <3> QED
      BY <1>8, <2>1, <3>1 DEF Policed, AckField, NoAcks
  <2>3. sc.ackNone => noAcks
    <3>1. sc.ackNone => Unacked(To(c).config)
      BY <1>2, <1>8, <2>1, OnceUnacked
    <3> QED
      BY <3>1, UnackedPolicy
  <2>4. Configured(To(c), Call(c), Chosen(c)) => ~sc.ordered
    BY <1>2, <1>4 DEF Configured
  <2> QED
    BY <1>1, <1>5, <1>10, <2>2, <2>3, <2>4 DEF Wraps, LegacyAcks
<1> QED
  BY <1>9, <1>10

(* The messages of a subscription that an edit writes are acked when the   *)
(* legacy library acked them and nobody chose otherwise, and where neither *)
(* wrapper nor handler acks them the new consumer expects none.            *)
THEOREM AcksAlwaysAgree == Spec => []AcksAgree
<1> QED
  BY AlwaysMade, MadeAcks, PTL

-----------------------------------------------------------------------------
(* Subjects of bounded length are told apart by messages that are one      *)
(* token longer.                                                           *)

LEMMA PlainParts ==
  ASSUME NEW s \in PlainSubjects
  PROVE  s \in Valid /\ Len(s) <= SubjectLength
<1>1. PICK n \in 1 .. SubjectLength : s \in [1 .. n -> Words \cup Wildcards \cup {""}]
  BY DEF PlainSubjects
<1>2. n \in Nat /\ n <= SubjectLength
  BY SubjectLengthAssumption
<1>3. s \in Seq(Tokens) /\ Len(s) = n
  <2>1. s \in [1 .. n -> Tokens]
    BY <1>1 DEF Tokens
  <2> QED
    BY <1>2, <2>1
<1>4. IsValidSubject(s)
  BY DEF PlainSubjects
<1> QED
  BY <1>2, <1>3, <1>4 DEF Valid

(* The first tokens of a message. *)
Beginning(m) == [i \in 1 .. IF Len(m) <= SubjectLength THEN Len(m) ELSE SubjectLength + 1 |-> m[i]]

LEMMA BeginningMatches ==
  ASSUME NEW m \in Messages, NEW s \in PlainSubjects
  PROVE  Matches(s, Beginning(m)) <=> Matches(s, m)
<1> DEFINE n == IF Len(m) <= SubjectLength THEN Len(m) ELSE SubjectLength + 1
           b == Beginning(m)
<1>1. Len(m) \in Nat /\ m \in Seq(Words) /\ SubjectLength \in Nat
  BY SubjectLengthAssumption DEF Messages
<1>2. n \in Nat /\ n <= Len(m) /\ (n = Len(m) \/ n = SubjectLength + 1)
  BY <1>1
<1>3. b = [i \in 1 .. n |-> m[i]]
  BY DEF Beginning
<1>4. s \in Valid /\ Len(s) <= SubjectLength /\ DOMAIN s = 1 .. Len(s) /\ Len(s) \in Nat
  BY PlainParts, ValidSubject
<1> HIDE DEF b, n
<1>5. b \in Seq(Words) /\ Len(b) = n
  BY <1>1, <1>2, <1>3
<1>6. \A i \in 1 .. n : b[i] = m[i]
  BY <1>3
<1>7. \A i \in DOMAIN s : (i <= n <=> i <= Len(m)) /\ (i <= n => b[i] = m[i])
  BY <1>1, <1>2, <1>4, <1>6
<1>8. Len(s) < n <=> Len(s) < Len(m)
  BY <1>1, <1>2, <1>4
<1> QED
  BY <1>5, <1>7, <1>8 DEF Matches, b

LEMMA BeginningReceived ==
  ASSUME NEW m \in Messages, m # << >>
  PROVE  Beginning(m) \in Published(SubjectLength + 1)
<1> DEFINE n == IF Len(m) <= SubjectLength THEN Len(m) ELSE SubjectLength + 1
<1>1. Len(m) \in Nat /\ Len(m) > 0 /\ m \in Seq(Words) /\ SubjectLength \in Nat
  BY SubjectLengthAssumption DEF Messages
<1>2. n \in 1 .. SubjectLength + 1 /\ n <= Len(m)
  BY <1>1
<1>3. Beginning(m) = [i \in 1 .. n |-> m[i]]
  BY DEF Beginning
<1> HIDE DEF n
<1>4. Beginning(m) \in [1 .. n -> Words]
  BY <1>1, <1>2, <1>3
<1> QED
  BY <1>2, <1>4 DEF Published

LEMMA PublishedMessages ==
  ASSUME NEW m \in Published(SubjectLength + 1)
  PROVE  m \in Messages
BY SubjectLengthAssumption DEF Published, Messages

LEMMA MessageReceived ==
  ASSUME NEW s \in PlainSubjects, NEW m
  PROVE  m \in Received[s] <=> m \in Published(SubjectLength + 1) /\ Matches(s, m)
BY DEF Received, MatchedBy

(* A message that a subject receives has tokens. *)
LEMMA MatchedLong ==
  ASSUME NEW s \in PlainSubjects, NEW m \in Messages, Matches(s, m)
  PROVE  m # << >>
<1>1. s \in Valid /\ 1 \in DOMAIN s
  BY PlainParts, ValidSubject
<1> QED
  BY <1>1 DEF Matches, Messages

LEMMA ReceivedInside ==
  ASSUME NEW s \in PlainSubjects, NEW t \in PlainSubjects
  PROVE  /\ Inside(s, t) <=> Received[s] \subseteq Received[t]
         /\ Meet(s, t) <=> Received[s] \cap Received[t] # {}
<1>1. ASSUME NEW m \in Messages, Matches(s, m)
      PROVE  /\ Beginning(m) \in Received[s]
             /\ Beginning(m) \in Received[t] <=> Matches(t, m)
  BY <1>1, MatchedLong, BeginningReceived, BeginningMatches, MessageReceived
<1>2. ASSUME NEW m \in Received[s]
      PROVE  m \in Messages /\ Matches(s, m) /\ (Matches(t, m) <=> m \in Received[t])
  BY MessageReceived, PublishedMessages
<1> QED
  BY <1>1, <1>2 DEF Inside, Meet

(* The comparisons of subjects, for each length to which they are bounded. *)
LEMMA BoundedSubjectsExact == SubjectsExact
<1> SUFFICES ASSUME NEW s \in PlainSubjects, NEW t \in PlainSubjects
             PROVE  /\ SubjectIsSubsetMatch(s, t) <=> Received[s] \subseteq Received[t]
                    /\ SubjectsCollide(s, t) <=> Received[s] \cap Received[t] # {}
                    /\ SubjectCovers(t, s) <=> Received[s] \subseteq Received[t]
  BY DEF SubjectsExact
<1>1. s \in Valid /\ t \in Valid
  BY PlainParts
<1> QED
  BY <1>1, ReceivedInside, SubsetMatchExact, SubjectsCollideExact, SubjectCoversExact

LEMMA FollowUps ==
  ASSUME Coded, NEW c \in Live, ~Parse(Call(c)).stream
  PROVE  LET holding == {s \in program.streams :
                           \E pat \in s.subjects : Received[Call(c).subject] \subseteq Received[pat]} IN
           FollowUp(program, c) = IF Cardinality(holding) = 1
                                  THEN (CHOOSE s \in holding : TRUE).name ELSE ""
<1> DEFINE holding == {s \in program.streams :
                         \E pat \in s.subjects : Received[Call(c).subject] \subseteq Received[pat]}
           covers == {s \in program.streams :
                        \E pat \in s.subjects : SubjectCovers(pat, program.calls[c].subject)}
<1>1. Followed(program) /\ c \in DOMAIN program.calls
  BY CodedFollowed
<1>2. program.calls[c].subject \in PlainSubjects
  BY <1>1 DEF Followed, CallFollowed
<1>3. \A s \in program.streams : \A pat \in s.subjects : pat \in PlainSubjects
  BY <1>1 DEF Followed
<1>4. ASSUME NEW pat \in PlainSubjects
      PROVE  SubjectCovers(pat, Call(c).subject) <=> Received[Call(c).subject] \subseteq Received[pat]
  BY <1>2, BoundedSubjectsExact DEF SubjectsExact, Call
<1>5. covers = holding
  BY <1>3, <1>4 DEF Call
<1>6. FollowUp(program, c) = IF Cardinality(covers) = 1 THEN (CHOOSE s \in covers : TRUE).name ELSE ""
  BY DEF FollowUp, Call
<1> HIDE DEF covers, holding
<1>7. FollowUp(program, c) = IF Cardinality(holding) = 1 THEN (CHOOSE s \in holding : TRUE).name ELSE ""
  BY <1>5, <1>6
<1> QED
  BY <1>7 DEF holding

(* The plan compares subjects as the server matches them, and the stream   *)
(* it names for a subscription is the one that takes in its messages.      *)
THEOREM SubjectsAlwaysAgree == Spec => []SubjectsAgree
<1>1. Made => SubjectsAgree
  BY BoundedSubjectsExact, FollowUps DEF SubjectsAgree, Made
<1> QED
  BY <1>1, AlwaysMade, PTL

-----------------------------------------------------------------------------
(* Handlers. *)

(* How an edit that needs no person leaves the handler of a call.          *)
HandlerOf(r, p, c) ==
  /\ r.to.handler = "inPlace" =>
       IsFunction(p, p.calls[c]) /\ ~p.handlers[p.calls[c].handler.fn].core
  /\ r.to.handler \in {"adapter", "split"} =>
       IsFunction(p, p.calls[c]) /\ p.handlers[p.calls[c].handler.fn].core

LEMMA BuiltHandler ==
  ASSUME NEW p, Followed(p), NEW c \in DOMAIN p.calls, NEW r, NEW ans, BuiltFrom(r, p, c, ans)
  PROVE  HandlerOf(r, p, c)
<1>1. PICK live, k : r.to = Build(p, live, c, k, r.choices)
  BY DEF BuiltFrom
<1> DEFINE f == p.calls[c].handler
           h == Handler(p, live, c, k, r.choices)
<1>2. r.to.handler # "none" => r.to.handler = h.how
  <2>1. CallFollowed(p, c)
    BY DEF Followed
  <2>2. Consists(r.to, p.calls[c], r.choices, h)
    BY <1>1, <2>1, BuildParts
  <2> HIDE DEF h
  <2> QED
    BY <2>2 DEF Consists
<1>3. /\ f.kind = "literal" => h.how = "literal"
      /\ IsShared(p, p.calls[c]) /\ r.choices.shared = "adapter" => h.how = "adapter"
      /\ IsShared(p, p.calls[c]) /\ r.choices.shared # "adapter" => h.how = "split"
      /\ IsFunction(p, p.calls[c]) /\ ~IsShared(p, p.calls[c]) => h.how = "inPlace"
      /\ f.kind # "literal" /\ ~IsFunction(p, p.calls[c]) => h.how = "none"
  <2>1. f = p.calls[c].handler /\ h = Handler(p, live, c, k, r.choices)
    OBVIOUS
  <2> HIDE DEF f, h
  <2> QED
    BY <2>1, HandlerCases
<1>4. IsFunction(p, p.calls[c]) => f.kind = "function"
  BY DEF IsFunction
<1>5. IsShared(p, p.calls[c]) <=> IsFunction(p, p.calls[c]) /\ p.handlers[f.fn].core
  BY DEF IsShared
<1> HIDE DEF h
<1> QED
  BY <1>2, <1>3, <1>4, <1>5 DEF HandlerOf

(* A function that a call names is one of the program. *)
LEMMA NamedHandler ==
  ASSUME NEW p, Followed(p), NEW c \in DOMAIN p.calls, IsFunction(p, p.calls[c])
  PROVE  p.calls[c].handler.kind = "function" /\ p.calls[c].handler.fn \in DOMAIN p.handlers
BY DEF Followed, CallFollowed, IsFunction

(* The calls that edits left with a handler of that kind. *)
Left(how) == {c \in ByMachine : To(c).handler = how}

FnOf(c) == Call(c).handler.fn

(* The copies that there are: one for each of the calls src, in turn.      *)
CopiedFor(src) ==
  /\ Enumerates(src, Left("split")) /\ DOMAIN copies = DOMAIN src
  /\ copies \in Seq(RangeOf(copies))
  /\ \A i \in DOMAIN copies : copies[i].fn = FnOf(src[i])

CopiesOnce ==
  \A fn \in DOMAIN program.handlers : ~SplitTwice(fn) =>
    \A i, j \in DOMAIN copies : copies[i] = copies[j] /\ copies[i].fn = fn => i = j

(* Who takes a message of the new type is rewritten: the handlers retyped  *)
(* are those of the calls that edits left with them, and no live call      *)
(* names one.                                                              *)
HandlersKept ==
  /\ retyped = {FnOf(c) : c \in Left("inPlace")}
  /\ \A fn \in retyped : Naming(fn) \cap Live = {}
  /\ \E src : CopiedFor(src)
  /\ CopiesOnce

(* What holds of the handlers of the calls that are migrated. *)
LEMMA MadeHandler ==
  ASSUME Made, NEW c \in ByMachine
  PROVE  /\ HandlerOf(new[c], program, c) /\ c \in DOMAIN program.calls
         /\ To(c).handler \in {"inPlace", "adapter", "split"} =>
              IsFunction(program, Call(c)) /\ c \in Naming(FnOf(c)) /\ FnOf(c) \in DOMAIN program.handlers
<1>1. Followed(program) /\ c \in DOMAIN program.calls
  BY CodedFollowed DEF Made, Coded, ByMachine, Calls
<1>2. HandlerOf(new[c], program, c)
  BY <1>1, BuiltHandler DEF Made
<1>3. To(c).handler \in {"inPlace", "adapter", "split"} => IsFunction(program, Call(c))
  BY <1>2 DEF HandlerOf, To, Call
<1>4. IsFunction(program, Call(c)) => c \in Naming(FnOf(c)) /\ FnOf(c) \in DOMAIN program.handlers
  BY <1>1, NamedHandler DEF Call, Naming, Calls, FnOf
<1> QED
  BY <1>1, <1>2, <1>3, <1>4

(* What the edits of the calls S change. *)
SplitIn(S) == {c \in S : view[c].to.handler = "split"}

LEMMA EditedCalls ==
  ASSUME Made, NEW S, Edited(S), Migrated(S)
  PROVE  /\ S \in SUBSET Live /\ Live' = Live \ S /\ ByMachine' = ByMachine \cup S /\ S \cap ByMachine = {}
         /\ \A c \in ByMachine : new'[c] = new[c]
         /\ \A c \in S : new'[c] = [by |-> "edit", to |-> view[c].to, choices |-> view[c].choices]
<1>1. new' = [x \in DOMAIN new \cup S |->
                IF x \in DOMAIN new THEN new[x]
                ELSE [by |-> "edit", to |-> view[x].to, choices |-> view[x].choices]]
  BY DEF Migrated
<1>2. S \in SUBSET Live /\ S \cap DOMAIN new = {} /\ program' = program
  BY DEF Edited, Live, Migrated
<1>3. \A c \in S : new'[c] = [by |-> "edit", to |-> view[c].to, choices |-> view[c].choices]
  BY <1>1, <1>2
<1>4. \A c \in DOMAIN new : new'[c] = new[c]
  BY <1>1
<1>5. DOMAIN new' = DOMAIN new \cup S
  BY <1>1
<1>6. ByMachine' = ByMachine \cup S
  BY <1>3, <1>4, <1>5 DEF ByMachine
<1>7. Live' = Live \ S
  BY <1>2, <1>5 DEF Live, Calls
<1> QED
  BY <1>2, <1>3, <1>4, <1>6, <1>7 DEF ByMachine

LEMMA EditedLeft ==
  ASSUME Made, NEW S, Edited(S), Migrated(S), NEW how
  PROVE  Left(how)' = Left(how) \cup {c \in S : view[c].to.handler = how}
<1>1. \A c \in ByMachine : To(c)' = To(c)
  BY EditedCalls DEF To
<1>2. \A c \in S : To(c)' = view[c].to
  <2> TAKE c \in S
  <2>1. new'[c] = [by |-> "edit", to |-> view[c].to, choices |-> view[c].choices]
    BY EditedCalls
  <2>2. new'[c].to = view[c].to
    BY <2>1
  <2> QED
    BY <2>2 DEF To
<1> QED
  BY <1>1, <1>2, EditedCalls DEF Left

(* Handlers of the calls edited are functions, and shared where split.     *)
LEMMA EditedHandler ==
  ASSUME Made, NEW S, Edited(S), NEW c \in S
  PROVE  /\ view[c].to.handler = "inPlace" => IsFunction(program, Call(c)) /\ ~program.handlers[FnOf(c)].core
         /\ view[c].to.handler = "split" =>
              /\ IsFunction(program, Call(c)) /\ program.handlers[FnOf(c)].core
              /\ c \in Naming(FnOf(c)) /\ FnOf(c) \in DOMAIN program.handlers
<1> DEFINE r == [by |-> "edit", to |-> view[c].to, choices |-> view[c].choices]
<1>1. Followed(program) /\ c \in DOMAIN program.calls
  BY CodedFollowed DEF Made, Edited
<1>2. BuiltFrom(r, program, c, answers) /\ r.to = view[c].to
  BY EditedMade DEF Made
<1> HIDE DEF r
<1>3. HandlerOf(r, program, c)
  BY <1>1, <1>2, BuiltHandler
<1>4. IsFunction(program, Call(c)) => c \in Naming(FnOf(c)) /\ FnOf(c) \in DOMAIN program.handlers
  BY <1>1, NamedHandler DEF Call, Naming, Calls, FnOf
<1> QED
  BY <1>2, <1>3, <1>4 DEF HandlerOf, Call, FnOf

(* All calls of a handler that is not shared are rewritten together.       *)
LEMMA NamedTogether ==
  ASSUME Made, NEW S, Edited(S), NEW c \in S, IsFunction(program, Call(c)), ~IsShared(program, Call(c)),
         NEW d \in Naming(FnOf(c)) \cap Live
  PROVE  d \in S
<1>1. c \in Live /\ d \in Live /\ Linked(c, d)
  BY DEF Edited, Linked, Naming, FnOf
<1>2. PICK u \in Units : c \in u /\ d \in u
  BY <1>1, UnitsPart DEF Made
<1> QED
  BY <1>2 DEF Edited

(* The list j of the elements V is s, and then t. *)
Joins(j, s, t, V) ==
  /\ Enumerates(j, V) /\ DOMAIN j = 1 .. Len(s) + Len(t)
  /\ \A i \in DOMAIN s : j[i] = s[i]
  /\ \A i \in DOMAIN j : i \in DOMAIN s \/ (i - Len(s) \in DOMAIN t /\ j[i] = t[i - Len(s)])

LEMMA JoinLists ==
  ASSUME NEW A, NEW B, A \cap B = {}, NEW s, NEW t, Enumerates(s, A), Enumerates(t, B),
         NEW j, j = s \o t
  PROVE  Joins(j, s, t, A \cup B)
<1>1. /\ s \in Seq(A \cup B) /\ t \in Seq(A \cup B) /\ Len(s) \in Nat /\ Len(t) \in Nat
      /\ DOMAIN s = 1 .. Len(s) /\ DOMAIN t = 1 .. Len(t)
  BY DEF Enumerates
<1>2. /\ j \in Seq(A \cup B) /\ DOMAIN j = 1 .. Len(s) + Len(t)
      /\ \A i \in DOMAIN s : j[i] = s[i]
      /\ \A i \in DOMAIN t : j[Len(s) + i] = t[i]
  BY <1>1
<1>3. \A i \in DOMAIN j : i \in DOMAIN s \/ (i - Len(s) \in DOMAIN t /\ j[i] = t[i - Len(s)])
  <2> TAKE i \in DOMAIN j
  <2>1. i \in DOMAIN s \/ (i - Len(s) \in DOMAIN t /\ i = Len(s) + (i - Len(s)))
    BY <1>1, <1>2
  <2> QED
    BY <1>2, <2>1
<1>4. ASSUME NEW x \in A \cup B PROVE \E k \in DOMAIN j : j[k] = x
  <2>1. CASE x \in A
    <3>1. PICK k \in DOMAIN s : s[k] = x
      BY <2>1 DEF Enumerates
    <3> QED
      BY <1>1, <1>2, <3>1
  <2>2. CASE x \in B
    <3>1. PICK k \in DOMAIN t : t[k] = x
      BY <2>2 DEF Enumerates
    <3>2. Len(s) + k \in DOMAIN j
      BY <1>1, <1>2
    <3> QED
      BY <1>2, <3>1, <3>2
  <2> QED
    BY <2>1, <2>2
<1>5. ASSUME NEW i \in DOMAIN j, NEW k \in DOMAIN j, j[i] = j[k] PROVE i = k
  <2>1. \A n \in DOMAIN s : s[n] \in A
    BY DEF Enumerates
  <2>2. \A n \in DOMAIN t : t[n] \in B
    BY DEF Enumerates
  <2>3. CASE i \in DOMAIN s /\ k \in DOMAIN s
    BY <1>2, <1>5, <2>3 DEF Enumerates
  <2>4. CASE i \in DOMAIN s /\ k \notin DOMAIN s
    BY <1>2, <1>3, <1>5, <2>1, <2>2, <2>4
  <2>5. CASE i \notin DOMAIN s /\ k \in DOMAIN s
    BY <1>2, <1>3, <1>5, <2>1, <2>2, <2>5
  <2>6. CASE i \notin DOMAIN s /\ k \notin DOMAIN s
    <3>1. i - Len(s) \in DOMAIN t /\ k - Len(s) \in DOMAIN t /\ t[i - Len(s)] = t[k - Len(s)]
      BY <1>3, <1>5, <2>6
    <3>2. i - Len(s) = k - Len(s)
      BY <3>1 DEF Enumerates
    <3> QED
      BY <1>1, <1>2, <3>2
  <2> QED
    BY <2>3, <2>4, <2>5, <2>6
<1> QED
  BY <1>2, <1>3, <1>4, <1>5 DEF Enumerates, Joins

(* A copy that is declared has a name that no other copy has. *)
LEMMA FreshCopyNew ==
  ASSUME copies \in Seq(RangeOf(copies)), NEW fn
  PROVE  FreshCopy(fn) \notin RangeOf(copies) /\ FreshCopy(fn).fn = fn
<1> DEFINE taken(n) == [fn |-> fn, n |-> n] \in RangeOf(copies)
           N == Len(copies)
           free == {n \in 1 .. N + 1 : ~taken(n)}
<1>1. N \in Nat /\ DOMAIN copies = 1 .. N
  OBVIOUS
<1>2. ASSUME \A n \in 1 .. N + 1 : taken(n) PROVE FALSE
  <2> DEFINE at == [n \in 1 .. N + 1 |-> CHOOSE i \in 1 .. N : copies[i] = [fn |-> fn, n |-> n]]
  <2>1. ASSUME NEW n \in 1 .. N + 1 PROVE at[n] \in 1 .. N /\ copies[at[n]] = [fn |-> fn, n |-> n]
    <3>1. \E i \in 1 .. N : copies[i] = [fn |-> fn, n |-> n]
      BY <1>1, <1>2 DEF RangeOf
    <3> QED
      BY <3>1
  <2>2. at \in [1 .. N + 1 -> 1 .. N]
    BY <2>1
  <2> HIDE DEF at, N
  <2>3. /\ IsFiniteSet(1 .. N + 1) /\ Cardinality(1 .. N + 1) = N + 1
        /\ IsFiniteSet(1 .. N) /\ Cardinality(1 .. N) = N
    BY <1>1, FS_Interval
  <2>4. Cardinality(1 .. N) < Cardinality(1 .. N + 1)
    BY <1>1, <2>3
  <2>5. PICK x \in 1 .. N + 1, y \in 1 .. N + 1 : x # y /\ at[x] = at[y]
    BY <2>2, <2>3, <2>4, FS_PigeonHole
  <2>6. [fn |-> fn, n |-> x] = [fn |-> fn, n |-> y]
    BY <2>1, <2>5
  <2>7. [fn |-> fn, n |-> x].n = [fn |-> fn, n |-> y].n
    BY <2>6
  <2> QED
    BY <2>5, <2>7
<1>3. free # {} /\ free \in SUBSET Nat
  BY <1>1, <1>2
<1>4. PICK m \in free : \A k \in free : m <= k
  <2> HIDE DEF free
  <2> QED
    BY <1>3, LeastNat
<1>5. \A k \in 1 .. m - 1 : taken(k)
  <2> TAKE k \in 1 .. m - 1
  <2>1. k \in 1 .. N + 1 /\ k < m
    BY <1>1, <1>4
  <2>2. k \notin free
    BY <1>1, <1>4, <2>1
  <2> QED
    BY <2>1, <2>2
<1> DEFINE first(n) == ~taken(n) /\ \A k \in 1 .. n - 1 : taken(k)
<1>6. FreshCopy(fn) = [fn |-> fn, n |-> CHOOSE n \in 1 .. N + 1 : first(n)]
  BY DEF FreshCopy
<1>7. m \in 1 .. N + 1 /\ first(m)
  BY <1>4, <1>5
<1> HIDE DEF first
<1>8. first(CHOOSE n \in 1 .. N + 1 : first(n))
  BY <1>7
<1> QED
  BY <1>6, <1>8 DEF first

(* A call of a shared handler, in no handler itself, is a unit alone. *)
LEMMA UnitAlone ==
  ASSUME Coded, NEW c \in Live, IsShared(program, Call(c)), Call(c).within = None,
         NEW u \in Units, c \in u
  PROVE  u = {c}
<1> DEFINE edges == {e \in Live \X Live : Linked(e[1], e[2])}
<1>1. IsFiniteSet(edges)
  <2>1. IsFiniteSet(Live \X Live)
    BY CodedFollowed, FS_Product
  <2> QED
    BY <2>1, FS_Subset
<1>2. Followed(program) /\ Live \in SUBSET DOMAIN program.calls
  BY CodedFollowed
<1>3. ASSUME NEW a \in Live PROVE ~Linked(c, a)
  BY DEF Linked
<1>4. ASSUME NEW a \in Live, Linked(a, c) PROVE FALSE
  <2>1. CASE /\ IsFunction(program, Call(a)) /\ ~IsShared(program, Call(a))
             /\ Call(a).handler.fn = Call(c).handler.fn
    BY <2>1 DEF IsShared, IsFunction
  <2>2. CASE c \in Within(program, Live, a)
    <3>1. None = (IF Call(a).handler.kind = "function" THEN Call(a).handler.fn ELSE a)
      BY <2>2 DEF Within, Call
    <3>2. CallFollowed(program, a) /\ None \notin DOMAIN program.calls /\ None \notin DOMAIN program.handlers
      BY <1>2 DEF Followed
    <3>3. Call(a).handler.kind = "function" => Call(a).handler.fn \in DOMAIN program.handlers
      BY <3>2 DEF CallFollowed, Call
    <3> QED
      BY <1>2, <3>1, <3>2, <3>3
  <2> QED
    BY <1>4, <2>1, <2>2 DEF Linked
<1>5. ClosedUnder({c}, Live, edges)
  BY <1>3, <1>4 DEF ClosedUnder
<1>6. Units = Classes(Live, edges)
  BY DEF Units
<1> HIDE DEF edges
<1>7. Respects(Units, {c})
  BY <1>1, <1>5, <1>6, ClassesConnect
<1> QED
  BY <1>7 DEF Respects

(* Calls edited together that split one handler split it twice.            *)
LEMMA SplitApart ==
  ASSUME Made, NEW S, Edited(S), NEW c \in SplitIn(S), NEW d \in SplitIn(S), c # d, FnOf(c) = FnOf(d)
  PROVE  SplitTwice(FnOf(c))
<1>1. c \in S /\ d \in S /\ view[c].to.handler = "split" /\ view[d].to.handler = "split"
  BY DEF SplitIn
<1>2. /\ c \in Naming(FnOf(c)) /\ d \in Naming(FnOf(c)) /\ program.handlers[FnOf(c)].core
      /\ IsFunction(program, Call(c)) /\ IsFunction(program, Call(d))
  BY <1>1, EditedHandler
<1>3. IsShared(program, Call(c)) /\ IsShared(program, Call(d))
  BY <1>2 DEF IsShared, FnOf
<1>4. Coded /\ c \in Live /\ d \in Live
  BY <1>1 DEF Made, Edited
<1>5. CASE S \in Units
  BY <1>1, <1>2, <1>3, <1>4, <1>5, UnitAlone DEF SplitTwice
<1>6. CASE \E k : S = InComponent(k)
  BY <1>1, <1>2, <1>6 DEF SplitTwice, InComponent
<1> QED
  BY <1>5, <1>6 DEF Edited

LEMMA OwnSequence ==
  ASSUME NEW V, NEW s \in Seq(V)
  PROVE  s \in Seq(RangeOf(s))
<1> DEFINE R == RangeOf(s)
<1>1. \A i \in 1 .. Len(s) : s[i] \in R
  BY DEF RangeOf
<1>2. s = [i \in 1 .. Len(s) |-> s[i]] /\ Len(s) \in Nat
  OBVIOUS
<1> HIDE DEF R
<1>3. s \in Seq(R)
  BY <1>1, <1>2
<1> QED
  BY <1>3 DEF R

LEMMA SameLength ==
  ASSUME NEW V, NEW s \in Seq(V), NEW W, NEW t \in Seq(W), DOMAIN s = DOMAIN t
  PROVE  Len(s) = Len(t)
<1>1. ASSUME NEW a \in Nat, NEW b \in Nat, 1 .. a = 1 .. b PROVE a = b
  <2>1. a > 0 => a \in 1 .. b
    BY <1>1
  <2>2. b > 0 => b \in 1 .. a
    BY <1>1
  <2> QED
    BY <2>1, <2>2
<1>2. 1 .. Len(s) = 1 .. Len(t) /\ Len(s) \in Nat /\ Len(t) \in Nat
  OBVIOUS
<1> QED
  BY <1>1, <1>2

(* The copies that an edit declares, beside those that there were. *)
Declares(split, n) ==
  /\ DOMAIN copies' = 1 .. n + Len(split) /\ copies' \in Seq(RangeOf(copies)')
  /\ \A i \in DOMAIN copies : copies'[i] = copies[i]
  /\ \A i \in DOMAIN copies' : i \in DOMAIN copies \/
       /\ i - n \in DOMAIN split /\ copies'[i].fn = FnOf(split[i - n])
       /\ copies'[i] \notin RangeOf(copies)

LEMMA EditedCopies ==
  ASSUME Made, copies \in Seq(RangeOf(copies)), NEW S, Edited(S), Migrated(S)
  PROVE  Declares(Sorted(program, SplitIn(S)), Len(copies))
<1> DEFINE split == Sorted(program, SplitIn(S))
           fresh == [i \in DOMAIN split |-> FreshCopy(FnOf(split[i]))]
           n == Len(copies)
<1>1. copies' = copies \o fresh
  BY DEF Migrated, CopiesFor, SplitIn, FnOf
<1>2. Enumerates(split, SplitIn(S))
  BY CodedFollowed, SortedLists DEF Made, Edited, SplitIn
<1> HIDE DEF split
<1>3. split \in Seq(SplitIn(S)) /\ DOMAIN split = 1 .. Len(split) /\ Len(split) \in Nat
  BY <1>2 DEF Enumerates
<1>4. \A i \in DOMAIN split : fresh[i].fn = FnOf(split[i]) /\ fresh[i] \notin RangeOf(copies)
  BY FreshCopyNew
<1>5. DOMAIN fresh = 1 .. Len(split)
  BY <1>3
<1>6. fresh \in Seq(RangeOf(fresh)) /\ Len(fresh) = Len(split)
  <2>1. \A i \in 1 .. Len(split) : fresh[i] \in RangeOf(fresh)
    BY <1>5 DEF RangeOf
  <2>2. fresh = [i \in 1 .. Len(split) |-> fresh[i]]
    BY <1>5
  <2> HIDE DEF fresh
  <2> QED
    BY <1>3, <2>1, <2>2, <1>5
<1> HIDE DEF fresh
<1>7. n \in Nat /\ DOMAIN copies = 1 .. n
  OBVIOUS
<1>8. /\ copies \o fresh \in Seq(RangeOf(copies) \cup RangeOf(fresh))
      /\ DOMAIN (copies \o fresh) = 1 .. n + Len(fresh)
      /\ \A i \in DOMAIN copies : (copies \o fresh)[i] = copies[i]
      /\ \A i \in DOMAIN fresh : (copies \o fresh)[n + i] = fresh[i]
  <2>1. copies \in Seq(RangeOf(copies) \cup RangeOf(fresh)) /\ fresh \in Seq(RangeOf(copies) \cup RangeOf(fresh))
    BY <1>6
  <2> QED
    BY <2>1
<1> DEFINE more == copies \o fresh
<1>9. /\ more \in Seq(RangeOf(copies) \cup RangeOf(fresh)) /\ DOMAIN more = 1 .. n + Len(split)
      /\ \A i \in DOMAIN copies : more[i] = copies[i]
      /\ \A i \in DOMAIN fresh : more[n + i] = fresh[i]
  BY <1>6, <1>8
<1>10. copies' = more
  BY <1>1
<1> HIDE DEF more, n
<1>11. ASSUME NEW i \in DOMAIN more, i \notin DOMAIN copies
       PROVE  i - n \in DOMAIN split /\ more[i] = fresh[i - n]
  <2>1. i - n \in 1 .. Len(split) /\ n + (i - n) = i
    BY <1>3, <1>7, <1>9, <1>11
  <2>2. i - n \in DOMAIN fresh /\ i - n \in DOMAIN split
    BY <1>3, <1>5, <2>1
  <2> QED
    BY <1>9, <2>1, <2>2
<1>12. more \in Seq(RangeOf(more))
  BY <1>9, OwnSequence
<1>13. RangeOf(copies)' = RangeOf(more)
  BY <1>10 DEF RangeOf
<1>14. /\ DOMAIN copies' = 1 .. n + Len(split) /\ copies' \in Seq(RangeOf(copies)')
       /\ \A i \in DOMAIN copies : copies'[i] = copies[i]
  BY <1>9, <1>10, <1>12, <1>13
<1>15. ASSUME NEW i \in DOMAIN copies', i \notin DOMAIN copies
       PROVE  /\ i - n \in DOMAIN split /\ copies'[i].fn = FnOf(split[i - n])
              /\ copies'[i] \notin RangeOf(copies)
  BY <1>4, <1>10, <1>11, <1>15
<1> QED
  BY <1>14, <1>15 DEF Declares, split, n

LEMMA EditedHandlers ==
  ASSUME Made, HandlersKept, NEW S, Edited(S), Migrated(S)
  PROVE  HandlersKept'
<1> USE DEF HandlersKept
<1>1. program' = program /\ \A c : FnOf(c)' = FnOf(c)
  BY DEF Migrated, FnOf, Call
<1>2. \A fn : Naming(fn)' = Naming(fn) /\ SplitTwice(fn)' = SplitTwice(fn)
  BY <1>1 DEF Naming, SplitTwice, Calls, Call
<1>3. \A how : Left(how)' = Left(how) \cup {c \in S : view[c].to.handler = how}
  BY EditedLeft
<1>4. Live' = Live \ S /\ S \in SUBSET Live /\ S \cap ByMachine = {}
  BY EditedCalls
<1> DEFINE done == {c \in S : view[c].to.handler = "inPlace"}
<1>5. retyped' = retyped \cup {FnOf(c) : c \in done}
  BY DEF Migrated, FnOf
<1>6. (retyped = {FnOf(c) : c \in Left("inPlace")})'
  <2>1. Left("inPlace")' = Left("inPlace") \cup done
    BY <1>3
  <2> HIDE DEF done
  <2>2. {FnOf(c) : c \in Left("inPlace")}' = {FnOf(c) : c \in Left("inPlace")'}
    BY <1>1
  <2> QED
    BY <1>5, <2>1, <2>2
<1>7. ASSUME NEW fn \in retyped' PROVE Naming(fn) \cap (Live \ S) = {}
  <2>1. CASE fn \in retyped
    BY <2>1
  <2>2. ASSUME NEW c \in done, fn = FnOf(c) PROVE Naming(fn) \cap (Live \ S) = {}
    <3>1. IsFunction(program, Call(c)) /\ ~IsShared(program, Call(c))
      BY EditedHandler DEF IsShared, FnOf
    <3> QED
      BY <2>2, <3>1, NamedTogether
  <2> QED
    BY <1>5, <2>1, <2>2
<1>8. (\A fn \in retyped : Naming(fn) \cap Live = {})'
  BY <1>2, <1>4, <1>7
<1> HIDE DEF done
<1>p. PICK split, n : split = Sorted(program, SplitIn(S)) /\ n = Len(copies)
  OBVIOUS
<1>9. PICK src : CopiedFor(src)
  OBVIOUS
<1>10. /\ Enumerates(src, Left("split")) /\ DOMAIN copies = DOMAIN src /\ copies \in Seq(RangeOf(copies))
       /\ \A i \in DOMAIN copies : copies[i].fn = FnOf(src[i])
  BY <1>9 DEF CopiedFor
<1>11. Enumerates(split, SplitIn(S))
  BY <1>p, CodedFollowed, SortedLists DEF Made, Edited, SplitIn
<1>12. Declares(split, n)
  BY <1>p, <1>10, EditedCopies
<1>13. n \in Nat /\ DOMAIN copies = 1 .. n /\ n = Len(src) /\ DOMAIN src = 1 .. n
  <2>1. src \in Seq(Left("split"))
    BY <1>10 DEF Enumerates
  <2>2. Len(copies) = Len(src)
    BY <1>10, <2>1, SameLength
  <2> QED
    BY <1>p, <1>10, <2>1, <2>2
<1>14. (\E all : CopiedFor(all))'
  <2>1. Left("split")' = Left("split") \cup SplitIn(S) /\ Left("split") \cap SplitIn(S) = {}
    BY <1>3, <1>4 DEF SplitIn, Left
  <2>p. PICK all : all = src \o split
    OBVIOUS
  <2>j. Joins(all, src, split, Left("split") \cup SplitIn(S))
    BY <1>10, <1>11, <2>1, <2>p, JoinLists
  <2>2. /\ Enumerates(all, Left("split") \cup SplitIn(S)) /\ DOMAIN all = 1 .. n + Len(split)
        /\ \A i \in DOMAIN src : all[i] = src[i]
        /\ \A i \in DOMAIN all : i \in DOMAIN src \/ (i - n \in DOMAIN split /\ all[i] = split[i - n])
    BY <1>13, <2>j DEF Joins
  <2>3. DOMAIN copies' = DOMAIN all
    BY <1>12, <2>2 DEF Declares
  <2>4. ASSUME NEW i \in DOMAIN copies' PROVE copies'[i].fn = FnOf(all[i])
    <3>1. CASE i \in DOMAIN copies
      BY <1>10, <1>12, <2>2, <3>1 DEF Declares
    <3>2. CASE i \notin DOMAIN copies
      <4>1. i - n \in DOMAIN split /\ copies'[i].fn = FnOf(split[i - n])
        BY <1>12, <2>4, <3>2 DEF Declares
      <4>2. all[i] = split[i - n]
        BY <1>10, <2>2, <2>3, <2>4, <3>2
      <4> QED
        BY <4>1, <4>2
    <3> QED
      BY <3>1, <3>2
  <2>5. (copies \in Seq(RangeOf(copies)))'
    BY <1>12 DEF Declares
  <2>6. Enumerates(all, Left("split")')
    BY <2>1, <2>2
  <2>7. CopiedFor(all)'
    BY <1>1, <2>3, <2>4, <2>5, <2>6 DEF CopiedFor, Enumerates
  <2> QED
    BY <2>7
<1>15. CopiesOnce'
  <2> SUFFICES ASSUME NEW fn \in DOMAIN program.handlers, ~SplitTwice(fn),
                      NEW i \in DOMAIN copies', NEW j \in DOMAIN copies',
                      copies'[i] = copies'[j], copies'[i].fn = fn
               PROVE  i = j
    BY <1>1, <1>2 DEF CopiesOnce
  <2>1. CASE i \in DOMAIN copies /\ j \in DOMAIN copies
    BY <1>12, <2>1 DEF Declares, CopiesOnce
  <2>2. CASE i \in DOMAIN copies /\ j \notin DOMAIN copies
    BY <1>12, <2>2 DEF Declares, RangeOf
  <2>3. CASE i \notin DOMAIN copies /\ j \in DOMAIN copies
    BY <1>12, <2>3 DEF Declares, RangeOf
  <2>4. CASE i \notin DOMAIN copies /\ j \notin DOMAIN copies
    <3>1. /\ i - n \in DOMAIN split /\ FnOf(split[i - n]) = fn
          /\ j - n \in DOMAIN split /\ FnOf(split[j - n]) = fn
      BY <1>12, <2>4 DEF Declares
    <3>2. split[i - n] \in SplitIn(S) /\ split[j - n] \in SplitIn(S)
      BY <1>11, <3>1 DEF Enumerates
    <3>3. split[i - n] = split[j - n]
      BY <3>1, <3>2, SplitApart
    <3>4. i - n = j - n
      BY <1>11, <3>1, <3>3 DEF Enumerates
    <3>5. i \in Int /\ j \in Int
      BY <1>12 DEF Declares
    <3> QED
      BY <1>13, <3>4, <3>5
  <2> QED
    BY <2>1, <2>2, <2>3, <2>4
<1> QED
  BY <1>6, <1>8, <1>14, <1>15

LEMMA HandlersInit == Init => HandlersKept
<1> SUFFICES ASSUME Init PROVE HandlersKept
  OBVIOUS
<1>1. \A how : Left(how) = {}
  BY DEF Init, Left, ByMachine
<1>2. retyped = {} /\ copies = << >>
  BY DEF Init
<1>3. CopiedFor(<< >>)
  BY <1>1, <1>2 DEF CopiedFor, Enumerates
<1>4. CopiesOnce
  BY <1>2 DEF CopiesOnce
<1> QED
  BY <1>1, <1>2, <1>3, <1>4 DEF HandlersKept

(* Who rewrites a call by hand, or answers, leaves the handlers.           *)
LEMMA HandlersLeft ==
  ASSUME HandlersKept, program' = program, retyped' = retyped, copies' = copies,
         ByMachine' = ByMachine, \A c \in ByMachine : new'[c] = new[c], Live' \subseteq Live
  PROVE  HandlersKept'
<1>1. \A c : FnOf(c)' = FnOf(c)
  BY DEF FnOf, Call
<1>2. \A fn : Naming(fn)' = Naming(fn) /\ SplitTwice(fn)' = SplitTwice(fn)
  BY DEF Naming, SplitTwice, Calls, Call
<1>3. \A how : Left(how)' = Left(how)
  BY DEF Left, To
<1>4. (retyped = {FnOf(c) : c \in Left("inPlace")})'
  <2>1. {FnOf(c) : c \in Left("inPlace")}' = {FnOf(c) : c \in Left("inPlace")'}
    BY <1>1
  <2> QED
    BY <1>3, <2>1 DEF HandlersKept
<1>5. (\A fn \in retyped : Naming(fn) \cap Live = {})'
  BY <1>2 DEF HandlersKept
<1>6. PICK src : CopiedFor(src)
  BY DEF HandlersKept
<1>7. CopiedFor(src)'
  BY <1>1, <1>3, <1>6 DEF CopiedFor, Enumerates, RangeOf
<1>8. CopiesOnce'
  BY <1>2 DEF HandlersKept, CopiesOnce
<1> QED
  BY <1>4, <1>5, <1>7, <1>8 DEF HandlersKept

LEMMA HandlersStep == Made /\ HandlersKept /\ [Next]_vars => HandlersKept'
<1> SUFFICES ASSUME Made, HandlersKept, [Next]_vars PROVE HandlersKept'
  OBVIOUS
<1>1. CASE UNCHANGED vars
  BY <1>1, HandlersLeft DEF vars, ByMachine, Live, Calls
<1>2. CASE Next
  <2>1. ASSUME NEW h \in Live, HandMigrate(h) PROVE HandlersKept'
    <3>1. DOMAIN new' = DOMAIN new \cup {h} /\ new'[h].by = "hand" /\ h \notin DOMAIN new
      BY <2>1 DEF HandMigrate, Live
    <3>2. \A c \in DOMAIN new : new'[c] = new[c]
      BY <2>1, <3>1 DEF HandMigrate
    <3>3. ByMachine' = ByMachine
      BY <3>1, <3>2 DEF ByMachine
    <3>4. \A c \in ByMachine : new'[c] = new[c]
      BY <3>2 DEF ByMachine
    <3>5. Live' \subseteq Live
      BY <2>1, <3>1 DEF HandMigrate, Live, Calls
    <3> QED
      BY <2>1, <3>3, <3>4, <3>5, HandlersLeft DEF HandMigrate
  <2>2. CASE Answered
    BY <2>2, HandlersLeft DEF Answered, ByMachine, Live, Calls
  <2> QED
    BY <1>2, <2>1, <2>2, StepKinds, EditedHandlers DEF Made, Applies
<1> QED
  BY <1>1, <1>2

LEMMA MadeHandlers == Made /\ HandlersKept => HandlersFit
<1> SUFFICES ASSUME Made, HandlersKept, NEW fn \in DOMAIN program.handlers
             PROVE  /\ fn \in retyped => /\ ~program.handlers[fn].core
                                         /\ Naming(fn) \cap Live = {} /\ As(fn, "adapter") = {}
                    /\ As(fn, "inPlace") # {} => fn \in retyped
                    /\ ~SplitTwice(fn) => \A i, j \in DOMAIN copies :
                                            copies[i] = copies[j] /\ copies[i].fn = fn => i = j
                    /\ Cardinality(As(fn, "split")) = Cardinality({i \in DOMAIN copies : copies[i].fn = fn})
  BY DEF HandlersFit
<1>1. \A how : As(fn, how) = Naming(fn) \cap Left(how)
  BY DEF As, Left
<1>2. \A c \in Naming(fn) : FnOf(c) = fn
  BY DEF Naming, FnOf
<1>3. ASSUME NEW c \in Left("inPlace"), fn = FnOf(c) PROVE ~program.handlers[fn].core
  <2>1. c \in ByMachine /\ To(c).handler = "inPlace"
    BY DEF Left
  <2> QED
    BY <1>3, <2>1, MadeHandler DEF HandlerOf, To, FnOf, Call
<1>4. ASSUME NEW c \in As(fn, "adapter") PROVE program.handlers[fn].core
  <2>1. c \in ByMachine /\ To(c).handler = "adapter" /\ FnOf(c) = fn
    BY <1>1, <1>2 DEF Left
  <2> QED
    BY <2>1, MadeHandler DEF HandlerOf, To, FnOf, Call
<1>5. fn \in retyped => /\ ~program.handlers[fn].core
                        /\ Naming(fn) \cap Live = {} /\ As(fn, "adapter") = {}
  BY <1>3, <1>4 DEF HandlersKept
<1>6. As(fn, "inPlace") # {} => fn \in retyped
  BY <1>1, <1>2 DEF HandlersKept
<1>7. ~SplitTwice(fn) => \A i, j \in DOMAIN copies :
                            copies[i] = copies[j] /\ copies[i].fn = fn => i = j
  BY DEF HandlersKept, CopiesOnce
<1>8. Cardinality(As(fn, "split")) = Cardinality({i \in DOMAIN copies : copies[i].fn = fn})
  <2> DEFINE I == {i \in DOMAIN copies : copies[i].fn = fn}
             B == As(fn, "split")
  <2>1. PICK src : CopiedFor(src)
    BY DEF HandlersKept
  <2>2. /\ \A i \in DOMAIN src : src[i] \in Left("split")
        /\ \A c \in Left("split") : \E i \in DOMAIN src : src[i] = c
        /\ \A i, j \in DOMAIN src : src[i] = src[j] => i = j
    BY <2>1 DEF CopiedFor, Enumerates
  <2>3. DOMAIN copies = DOMAIN src /\ copies \in Seq(RangeOf(copies))
        /\ \A i \in DOMAIN copies : copies[i].fn = FnOf(src[i])
    BY <2>1 DEF CopiedFor
  <2>4. \A i \in I : src[i] \in B
    <3> TAKE i \in I
    <3>1. src[i] \in Left("split") /\ FnOf(src[i]) = fn
      BY <2>2, <2>3
    <3>2. src[i] \in ByMachine /\ To(src[i]).handler = "split"
      BY <3>1 DEF Left
    <3>3. src[i] \in Naming(fn)
      BY <3>1, <3>2, MadeHandler
    <3> QED
      BY <1>1, <3>1, <3>3
  <2>5. ASSUME NEW c \in B PROVE \E i \in I : src[i] = c
    BY <1>1, <1>2, <2>2, <2>3
  <2>6. IsFiniteSet(I)
    <3>1. DOMAIN copies = 1 .. Len(copies) /\ Len(copies) \in Nat
      BY <2>3
    <3>2. IsFiniteSet(DOMAIN copies)
      BY <3>1, FS_Interval
    <3> QED
      BY <3>2, FS_Subset
  <2>7. \A i, j \in I : src[i] = src[j] => i = j
    BY <2>2, <2>3
  <2> HIDE DEF I, B
  <2>8. [i \in I |-> src[i]] \in Bijection(I, B)
    BY <2>4, <2>5, <2>7 DEF Bijection, Injection, Surjection, IsInjective
  <2>9. Cardinality(B) = Cardinality(I)
    BY <2>6, <2>8, FS_Bijection DEF ExistsBijection
  <2> QED
    BY <2>9 DEF I, B
<1> QED
  BY <1>5, <1>6, <1>7, <1>8

(***************************************************************************)
(* Whoever passes a handler by its name passes one of the type that he     *)
(* needs, always, and each copy that a call needs is declared once         *)
(* (handlerOf, consume, buildUnits).                                       *)
(***************************************************************************)
THEOREM HandlersAlwaysFit == Spec => []HandlersFit
<1>1. Init /\ Made => HandlersKept
  BY HandlersInit
<1> QED
  BY AlwaysMade, <1>1, HandlersStep, MadeHandlers, PTL DEF Spec

LEMMA MadeTypes == Made /\ HandlersKept => TypeOK
<1> SUFFICES ASSUME Made, HandlersKept PROVE TypeOK
  OBVIOUS
<1> DEFINE v == Classified(program, Live, answers)
<1>1. Followed(program) /\ Live \in SUBSET DOMAIN program.calls
  BY CodedFollowed DEF Made
<1>2. SeesAll(program, Live, answers, v) /\ view = View(program, v)
  BY <1>1, ClassifiedSees DEF Made, Planned
<1> HIDE DEF v
<1>3. DOMAIN new \subseteq Calls
  BY DEF Made, Coded
<1>4. DOMAIN view = Live
  <2>1. DOMAIN v = Live
    BY <1>2 DEF SeesAll, SeesSome
  <2> QED
    BY <1>2, <2>1 DEF View
<1>5. \A c \in Live : view[c].class \in {"mechanical", "decision", "guided", "unmapped"}
  BY <1>1, <1>2, ViewParts DEF ClassNames
<1>6. \A i \in DOMAIN answers : Readable(answers[i])
  BY DEF Made, Read
<1>7. retyped \subseteq DOMAIN program.handlers
  <2>1. ASSUME NEW c \in Left("inPlace") PROVE FnOf(c) \in DOMAIN program.handlers
    <3>1. c \in ByMachine /\ To(c).handler = "inPlace"
      BY DEF Left
    <3> QED
      BY <3>1, MadeHandler
  <2> QED
    BY <2>1 DEF HandlersKept
<1>8. ASSUME NEW i \in DOMAIN copies PROVE copies[i].fn \in DOMAIN program.handlers
  <2>1. PICK src : CopiedFor(src)
    BY DEF HandlersKept
  <2>2. src[i] \in Left("split") /\ copies[i].fn = FnOf(src[i])
    BY <2>1 DEF CopiedFor, Enumerates
  <2>3. src[i] \in ByMachine /\ To(src[i]).handler = "split"
    BY <2>2 DEF Left
  <2> QED
    BY <2>2, <2>3, MadeHandler
<1> QED
  BY <1>3, <1>4, <1>5, <1>6, <1>7, <1>8 DEF TypeOK

(* Answers can be read back, and plans and code have their types, always.  *)
THEOREM SubscriptionTypeCorrect == Spec => []TypeOK
<1>1. Init /\ Made => HandlersKept
  BY HandlersInit
<1> QED
  BY AlwaysMade, <1>1, HandlersStep, MadeTypes, PTL DEF Spec

-----------------------------------------------------------------------------
(* What the defaults answer. *)

Rank(ans, i, q, site, comp) == Narrowness(ans[i], q, site, comp)

LEMMA RankType ==
  ASSUME NEW ans, NEW i, NEW q, NEW site, NEW comp
  PROVE  Rank(ans, i, q, site, comp) \in 0 .. 3
BY DEF Rank, Narrowness

(* Answers for the module count for every site, those of a site for it. *)
LEMMA RankModule ==
  ASSUME NEW a, NEW site, NEW comp, a.scope = <<"module">>
  PROVE  Narrowness(a, a.pattern, site, comp) = 1
BY DEF Narrowness

LEMMA RankSite ==
  ASSUME NEW a, NEW site, NEW comp, NEW s, a.scope = <<"site", s>>
  PROVE  Narrowness(a, a.pattern, site, comp) = IF s = site THEN 3 ELSE 0
<1>1. <<"site", s>> # <<"module">>
  OBVIOUS
<1>2. <<"site", s>> # <<"component", comp>>
  OBVIOUS
<1>3. <<"site", s>> = <<"site", site>> <=> s = site
  OBVIOUS
<1> QED
  BY <1>1, <1>2, <1>3 DEF Narrowness

(* The answers of rank r, the highest that there is, say x. *)
Says(ans, q, site, comp, r, x) ==
  /\ \E i \in DOMAIN ans : Rank(ans, i, q, site, comp) = r
  /\ \A i \in DOMAIN ans : Rank(ans, i, q, site, comp) <= r
  /\ \A i \in DOMAIN ans : Rank(ans, i, q, site, comp) = r => ans[i].choice = x

LEMMA LookupSays ==
  ASSUME NEW V, NEW ans \in Seq(V), NEW q, NEW site, NEW comp, NEW r \in 1 .. 3, NEW x,
         Says(ans, q, site, comp, r, x)
  PROVE  Lookup(ans, q, site, comp) = x
<1> DEFINE rank(i) == Rank(ans, i, q, site, comp)
           best == {i \in DOMAIN ans : /\ rank(i) > 0
                      /\ \A j \in DOMAIN ans :
                           rank(i) >= rank(j) /\ (rank(i) = rank(j) => i <= j)}
           top == {i \in DOMAIN ans : rank(i) = r}
<1>1. Lookup(ans, q, site, comp) = IF best = {} THEN "" ELSE ans[CHOOSE i \in best : TRUE].choice
  BY DEF Lookup, Rank
<1>2. /\ \E i \in DOMAIN ans : rank(i) = r
      /\ \A i \in DOMAIN ans : rank(i) <= r
      /\ \A i \in DOMAIN ans : rank(i) = r => ans[i].choice = x
  BY DEF Says
<1>3. \A i : rank(i) \in 0 .. 3
  BY RankType
<1> HIDE DEF rank
<1>4. PICK m \in top : \A i \in top : m <= i
  <2>1. top \in SUBSET Nat /\ top # {}
    BY <1>2
  <2> HIDE DEF top
  <2> QED
    BY <2>1, LeastNat
<1>5. m \in best
  BY <1>2, <1>3, <1>4
<1>6. \A i \in best : rank(i) = r
  BY <1>2, <1>3
<1>7. \A i \in best : ans[i].choice = x
  BY <1>2, <1>6
<1> HIDE DEF best
<1>8. (CHOOSE i \in best : TRUE) \in best
  BY <1>5
<1> QED
  BY <1>1, <1>5, <1>7, <1>8

Silent(ans, q, site, comp) == Lookup(ans, q, site, comp) = ""

(* Where nothing answers, no answer is about the site. *)
LEMMA LookupNone ==
  ASSUME NEW ans, Read(ans), NEW q \in Askable, NEW site, NEW comp,
         Silent(ans, q, site, comp)
  PROVE  \A i \in DOMAIN ans : Rank(ans, i, q, site, comp) = 0
<1> DEFINE rank(i) == Rank(ans, i, q, site, comp)
           best == {i \in DOMAIN ans : /\ rank(i) > 0
                      /\ \A j \in DOMAIN ans :
                           rank(i) >= rank(j) /\ (rank(i) = rank(j) => i <= j)}
<1>1. Lookup(ans, q, site, comp) = IF best = {} THEN "" ELSE ans[CHOOSE i \in best : TRUE].choice
  BY DEF Lookup, Rank
<1>2. DOMAIN ans = 1 .. Len(ans) /\ Len(ans) \in Nat /\ \A i \in DOMAIN ans : Readable(ans[i])
  BY DEF Read
<1>3. \A i : rank(i) \in 0 .. 3
  BY RankType
<1>4. ASSUME NEW i \in DOMAIN ans, rank(i) > 0 PROVE ans[i].choice # ""
  <2>1. ans[i].pattern = q
    BY <1>4 DEF Rank, Narrowness
  <2>2. ans[i].choice \in OptionsOf(q)
    BY <1>2, <2>1 DEF Readable
  <2> QED
    BY <2>2, OptionNames DEF Askable
<1> HIDE DEF rank
<1>5. ASSUME NEW r \in 1 .. 3, \E i \in DOMAIN ans : rank(i) = r, \A i \in DOMAIN ans : rank(i) <= r
      PROVE  best # {}
  <2> DEFINE top == {i \in DOMAIN ans : rank(i) = r}
  <2>1. top \in SUBSET Nat /\ top # {}
    BY <1>2, <1>5
  <2>2. PICK m \in top : \A i \in top : m <= i
    <3> HIDE DEF top
    <3> QED
      BY <2>1, LeastNat
  <2> QED
    BY <1>3, <1>5, <2>2
<1>6. ASSUME best = {}, NEW i \in DOMAIN ans PROVE rank(i) = 0
  <2> HIDE DEF best
  <2>1. ~\E j \in DOMAIN ans : rank(j) = 3
    BY <1>3, <1>5, <1>6
  <2>2. ~\E j \in DOMAIN ans : rank(j) = 2
    BY <1>3, <1>5, <1>6, <2>1
  <2>3. ~\E j \in DOMAIN ans : rank(j) = 1
    BY <1>3, <1>5, <1>6, <2>1, <2>2
  <2> QED
    BY <1>3, <1>6, <2>1, <2>2, <2>3
<1>7. best = {}
  <2>1. \A i \in best : ans[i].choice # ""
    BY <1>4
  <2> HIDE DEF best
  <2> QED
    BY <1>1, <2>1 DEF Silent
<1> QED
  BY <1>6, <1>7 DEF rank

(* The one question of a pattern that a call asks. *)
LEMMA KeyOne ==
  ASSUME NEW p, NEW live, NEW ans, NEW v, SeesAll(p, live, ans, v), NEW c \in live,
         NEW d \in Decisions(p, ans, c), Unanswered(d)
  PROVE  /\ c \in AskingAt(DecisionsOf(v), live, d.pattern)
         /\ KeyAt(DecisionsOf(v), c, d.pattern) = KeyOf(d)
<1>1. DecisionsOf(v)[c] = Decisions(p, ans, c)
  <2>1. v[c].decisions = Decisions(p, ans, c)
    BY SeenParts
  <2>2. DOMAIN v = live
    BY DEF SeesAll, SeesSome
  <2> QED
    BY <2>1, <2>2 DEF DecisionsOf
<1>2. d \in Asking(DecisionsOf(v), c, d.pattern)
  BY <1>1 DEF Asking, Unanswered
<1>3. c \in AskingAt(DecisionsOf(v), live, d.pattern)
  BY <1>2 DEF AskingAt
<1>4. PICK e \in Decisions(p, ans, c) :
        e.pattern = d.pattern /\ Unanswered(e) /\ KeyAt(DecisionsOf(v), c, d.pattern) = KeyOf(e)
  BY <1>3, KeyParts
<1>5. d = e
  <2>1. d = DecisionOf(p, ans, c, d.pattern) /\ e = DecisionOf(p, ans, c, e.pattern)
    BY DecisionParts
  <2> QED
    BY <1>4, <2>1
<1> QED
  BY <1>3, <1>4, <1>5

(* Answers that say something, after others that do not. *)
LEMMA SaysAfter ==
  ASSUME NEW ans, Read(ans), NEW more, Read(more), NEW q, NEW site, NEW comp, NEW r, NEW x,
         r \in 1 .. 3, \A i \in DOMAIN ans : Rank(ans, i, q, site, comp) = 0,
         Says(more, q, site, comp, r, x), NEW all, all = ans \o more
  PROVE  Lookup(all, q, site, comp) = x
<1>1. PICK V : ans \in Seq(V) /\ more \in Seq(V)
  <2>1. PICK A : ans \in Seq(A)
    BY DEF Read
  <2>2. PICK B : more \in Seq(B)
    BY DEF Read
  <2>3. ans \in Seq(A \cup B) /\ more \in Seq(A \cup B)
    BY <2>1, <2>2
  <2> QED
    BY <2>3
<1>2. /\ all \in Seq(V) /\ DOMAIN all = 1 .. Len(ans) + Len(more)
      /\ \A i \in DOMAIN ans : all[i] = ans[i]
      /\ \A i \in DOMAIN more : all[Len(ans) + i] = more[i]
  BY <1>1
<1>3. /\ DOMAIN ans = 1 .. Len(ans) /\ DOMAIN more = 1 .. Len(more)
      /\ Len(ans) \in Nat /\ Len(more) \in Nat
  BY <1>1
<1>4. \A i \in DOMAIN ans : Rank(all, i, q, site, comp) = 0
  BY <1>2 DEF Rank
<1>5. \A i \in DOMAIN more : Rank(all, Len(ans) + i, q, site, comp) = Rank(more, i, q, site, comp)
  BY <1>2 DEF Rank
<1>6. \A i \in DOMAIN all : i \in DOMAIN ans \/ (i - Len(ans) \in DOMAIN more /\ Len(ans) + (i - Len(ans)) = i)
  BY <1>2, <1>3
<1>7. \A i \in DOMAIN more : Len(ans) + i \in DOMAIN all
  BY <1>2, <1>3
<1>8. \A i \in DOMAIN all : i \in DOMAIN ans \/
        \E j \in DOMAIN more : Rank(all, i, q, site, comp) = Rank(more, j, q, site, comp) /\ all[i] = more[j]
  <2> TAKE i \in DOMAIN all
  <2>1. i \in DOMAIN ans \/ (i - Len(ans) \in DOMAIN more /\ Len(ans) + (i - Len(ans)) = i)
    BY <1>6
  <2> QED
    BY <1>2, <1>5, <2>1
<1>9. Says(all, q, site, comp, r, x)
  <2>1. PICK j \in DOMAIN more : Rank(more, j, q, site, comp) = r
    BY DEF Says
  <2>2. \E i \in DOMAIN all : Rank(all, i, q, site, comp) = r
    BY <1>5, <1>7, <2>1
  <2>3. \A i \in DOMAIN all : Rank(all, i, q, site, comp) <= r
    BY <1>4, <1>8 DEF Says
  <2>4. \A i \in DOMAIN all : Rank(all, i, q, site, comp) = r => all[i].choice = x
    BY <1>4, <1>8 DEF Says
  <2> QED
    BY <2>2, <2>3, <2>4 DEF Says
<1> QED
  BY <1>2, <1>9, LookupSays

(* What is recorded for an entry of the plan. *)
Given(e) == [pattern |-> e.pattern, scope |-> e.scope, choice |-> e.def]

(* What the default that a plan recommends says to a call that asks for    *)
(* one: that of the module, or that of the call.                           *)
LEMMA EntrySays ==
  ASSUME NEW decisions, NEW S, NEW q, NEW k, NEW e, e \in EntriesOf(decisions, S, q, k), NEW c, NEW comp
  PROVE  /\ e.pattern = q
         /\ \/ Narrowness(Given(e), q, c, comp) = 1 /\ Given(e).choice = k[1]
            \/ Narrowness(Given(e), q, c, comp) = 0
            \/ /\ Narrowness(Given(e), q, c, comp) = 3 /\ Given(e).choice = KeyAt(decisions, c, q)[1]
               /\ KeyAt(decisions, c, q) # k
<1>1. CASE e = EntryOf(q, <<"module">>, k)
  <2>1. Given(e).pattern = q /\ Given(e).scope = <<"module">> /\ Given(e).choice = k[1] /\ e.pattern = q
    BY <1>1 DEF Given, EntryOf
  <2>2. Narrowness(Given(e), Given(e).pattern, c, comp) = 1
    BY <2>1, RankModule
  <2> QED
    BY <2>1, <2>2
<1>2. ASSUME NEW s \in AskingAt(decisions, S, q), KeyAt(decisions, s, q) # k,
             e = EntryOf(q, <<"site", s>>, KeyAt(decisions, s, q))
      PROVE  /\ e.pattern = q
             /\ \/ Narrowness(Given(e), q, c, comp) = 0
                \/ /\ Narrowness(Given(e), q, c, comp) = 3 /\ Given(e).choice = KeyAt(decisions, c, q)[1]
                   /\ KeyAt(decisions, c, q) # k
  <2>1. /\ Given(e).pattern = q /\ Given(e).scope = <<"site", s>> /\ e.pattern = q
        /\ Given(e).choice = KeyAt(decisions, s, q)[1]
    BY <1>2 DEF Given, EntryOf
  <2>2. Narrowness(Given(e), Given(e).pattern, c, comp) = IF s = c THEN 3 ELSE 0
    BY <2>1, RankSite
  <2> QED
    BY <1>2, <2>1, <2>2
<1> QED
  BY <1>1, <1>2 DEF EntriesOf

LEMMA DefaultGiven ==
  ASSUME Coded, Planned, Read(answers), AcceptDefaults,
         NEW c \in Live, NEW d \in view[c].decisions, Unanswered(d)
  PROVE  Lookup(answers', d.pattern, c, Call(c).comp) = d.def
<1> DEFINE v == Classified(program, Live, answers)
           q == d.pattern
           comp == Call(c).comp
           ds == DecisionsOf(v)
           more == [i \in DOMAIN pending |-> Given(pending[i])]
<1>1. Followed(program) /\ Live \in SUBSET DOMAIN program.calls
  BY CodedFollowed
<1>2. SeesAll(program, Live, answers, v) /\ pending = PendingOf(program, v) /\ view = View(program, v)
  BY <1>1, ClassifiedSees DEF Planned
<1> HIDE DEF v
<1>3. DOMAIN v = Live
  BY <1>2 DEF SeesAll, SeesSome
<1>4. d \in Decisions(program, answers, c)
  <2>1. view[c].decisions = v[c].decisions
    BY <1>1, <1>2, ViewParts
  <2>2. v[c].decisions = Decisions(program, answers, c)
    BY <1>2, SeenParts
  <2> QED
    BY <2>1, <2>2
<1>5. PICK K : AsksAll(pending, v, K)
  BY <1>1, <1>2, <1>3, PlanAsks
<1>6. q \in Askable /\ Silent(answers, q, c, comp)
  <2>1. q \in Askable /\ d.choice = Lookup(answers, q, c, program.calls[c].comp)
    BY <1>4, DecisionParts
  <2> QED
    BY <2>1 DEF Silent, Unanswered, Call
<1>7. c \in AskingAt(ds, Live, q) /\ KeyAt(ds, c, q) = KeyOf(d) /\ KeyOf(d)[1] = d.def
  <2>1. KeyOf(d)[1] = d.def
    BY DEF KeyOf
  <2> QED
    BY <1>2, <1>4, <2>1, KeyOne
<1>8. \A i \in DOMAIN answers : Rank(answers, i, q, c, comp) = 0
  <2> HIDE DEF q, comp
  <2> QED
    BY <1>6, LookupNone
<1>9. answers' = answers \o more
  BY DEF AcceptDefaults, Given
<1> HIDE DEF q, comp, ds, more
<1>10. /\ DOMAIN more = DOMAIN pending /\ \A i \in DOMAIN pending : more[i] = Given(pending[i])
       /\ DOMAIN pending = 1 .. Len(pending) /\ Len(pending) \in Nat
  BY <1>5 DEF more, AsksAll
<1>11. Read(more)
  <2> DEFINE A == {Given(pending[i]) : i \in DOMAIN pending}
  <2>1. more \in Seq(A)
    BY <1>10 DEF more
  <2>2. ASSUME NEW i \in DOMAIN pending PROVE Readable(Given(pending[i]))
    <3>1. /\ pending[i].pattern \in Askable /\ pending[i].def \in OptionsOf(pending[i].pattern)
          /\ pending[i].scope[1] = "module" \/ pending[i].scope[1] = "site"
      BY <1>1, <1>2, EntryParts
    <3>2. pending[i].pattern \in DOMAIN Options /\ pending[i].pattern # "component"
      BY <3>1, AskableOption
    <3> QED
      BY <3>1, <3>2 DEF Readable, Given
  <2>3. \A a \in A : Readable(a)
    BY <2>2
  <2> HIDE DEF A
  <2> QED
    BY <2>1, <2>3 DEF Read
<1>12. ASSUME NEW i \in DOMAIN pending
       PROVE  \/ Rank(more, i, q, c, comp) = 0
              \/ Rank(more, i, q, c, comp) = 1 /\ more[i].choice = K[q][1]
              \/ Rank(more, i, q, c, comp) = 3 /\ more[i].choice = d.def /\ K[q] # KeyOf(d)
  <2>1. PICK p \in Askable : pending[i] \in EntriesOf(ds, Live, p, K[p])
    BY <1>3, <1>5 DEF AsksAll, ds
  <2>2. /\ pending[i].pattern = p
        /\ \/ Narrowness(Given(pending[i]), p, c, comp) = 1 /\ Given(pending[i]).choice = K[p][1]
           \/ Narrowness(Given(pending[i]), p, c, comp) = 0
           \/ /\ Narrowness(Given(pending[i]), p, c, comp) = 3 /\ Given(pending[i]).choice = KeyAt(ds, c, p)[1]
              /\ KeyAt(ds, c, p) # K[p]
    BY <2>1, EntrySays
  <2>3. Rank(more, i, q, c, comp) = Narrowness(Given(pending[i]), q, c, comp)
    BY <1>10 DEF Rank
  <2>4. CASE p = q
    BY <1>7, <1>10, <2>2, <2>3, <2>4
  <2>5. CASE p # q
    <3>1. Given(pending[i]).pattern # q
      BY <2>2, <2>5 DEF Given
    <3> QED
      BY <2>3, <3>1 DEF Narrowness
  <2> QED
    BY <2>4, <2>5
<1>13. ASSUME NEW e, e \in EntriesOf(ds, Live, q, K[q])
       PROVE  \E i \in DOMAIN pending : more[i] = Given(e)
  <2>1. \E i \in DOMAIN pending : pending[i] = e
    BY <1>3, <1>5, <1>6, <1>7, <1>13 DEF AsksAll, ds
  <2> QED
    BY <1>10, <2>1
<1>14. \E r \in 1 .. 3 : Says(more, q, c, comp, r, d.def)
  <2>1. CASE K[q] = KeyOf(d)
    <3> DEFINE e == EntryOf(q, <<"module">>, K[q])
    <3>1. e \in EntriesOf(ds, Live, q, K[q])
      BY DEF EntriesOf
    <3>2. Given(e).pattern = q /\ Given(e).scope = <<"module">>
      BY DEF Given, EntryOf
    <3>3. Narrowness(Given(e), q, c, comp) = 1
      BY <3>2, RankModule
    <3> HIDE DEF e
    <3>4. PICK i \in DOMAIN pending : more[i] = Given(e)
      BY <1>13, <3>1
    <3>5. Rank(more, i, q, c, comp) = 1
      BY <3>3, <3>4 DEF Rank
    <3>6. \A j \in DOMAIN pending :
           \/ Rank(more, j, q, c, comp) = 0
           \/ Rank(more, j, q, c, comp) = 1 /\ more[j].choice = d.def
      <4> TAKE j \in DOMAIN pending
      <4>1. K[q][1] = d.def
        BY <1>7, <2>1
      <4> QED
        BY <1>12, <2>1, <4>1, Zenon
    <3>7. Says(more, q, c, comp, 1, d.def)
      BY <1>10, <3>5, <3>6 DEF Says
    <3> QED
      BY <3>7
  <2>2. CASE K[q] # KeyOf(d)
    <3> DEFINE e == EntryOf(q, <<"site", c>>, KeyAt(ds, c, q))
    <3>1. e \in EntriesOf(ds, Live, q, K[q])
      BY <1>7, <2>2 DEF EntriesOf
    <3>2. Given(e).pattern = q /\ Given(e).scope = <<"site", c>>
      BY DEF Given, EntryOf
    <3>3. Narrowness(Given(e), q, c, comp) = 3
      BY <3>2, RankSite
    <3> HIDE DEF e
    <3>4. PICK i \in DOMAIN pending : more[i] = Given(e)
      BY <1>13, <3>1
    <3>5. Rank(more, i, q, c, comp) = 3
      BY <3>3, <3>4 DEF Rank
    <3>6. \A j \in DOMAIN pending :
           \/ Rank(more, j, q, c, comp) \in {0, 1}
           \/ Rank(more, j, q, c, comp) = 3 /\ more[j].choice = d.def
      BY <1>12, Zenon
    <3>7. Says(more, q, c, comp, 3, d.def)
      BY <1>10, <3>5, <3>6 DEF Says
    <3> QED
      BY <3>7
  <2> QED
    BY <2>1, <2>2
<1>15. PICK r \in 1 .. 3 : Says(more, q, c, comp, r, d.def)
  BY <1>14
<1>16. Lookup(answers', q, c, comp) = d.def
  BY <1>8, <1>9, <1>11, <1>15, SaysAfter
<1> QED
  BY <1>16 DEF q, comp

LEMMA DefaultsStep ==
  ASSUME Made
  PROVE  AcceptDefaults => \A c \in Live : \A d \in view[c].decisions :
           d.choice = "" => Lookup(answers', d.pattern, c, Call(c).comp) = d.def
BY DefaultGiven DEF Made, Unanswered

(***************************************************************************)
(* Who accepts all defaults gets the default that the plan gave for each   *)
(* call, whatever was answered before (fill, lookup).                      *)
(***************************************************************************)
THEOREM DefaultsAlwaysKept == Spec => DefaultsKeep
<1>1. Made => [AcceptDefaults => \A c \in Live : \A d \in view[c].decisions :
                 d.choice = "" => Lookup(answers', d.pattern, c, Call(c).comp) = d.def]_vars
  BY DefaultsStep
<1> QED
  BY AlwaysMade, <1>1, PTL DEF DefaultsKeep

-----------------------------------------------------------------------------
(***************************************************************************)
(* The config that an edit writes, compared with the legacy one.           *)
(***************************************************************************)

(* Fields that only a push consumer has, and those that no option sets.    *)
PushFields == {"RateLimit", "DeliverSubject", "FlowControl", "IdleHeartbeat"}
Unset == {"FilterSubject", "DeliverGroup", "Replicas", "MaxRequestExpires"}

(* A field that an option may set. *)
Settable(f) ==
  f.name \notin Unset /\ f.pushOnly \in BOOLEAN /\ (f.pushOnly = TRUE <=> f.name \in PushFields)

LEMMA FieldOfNames ==
  ASSUME NEW x \in DOMAIN FieldOf
  PROVE  /\ FieldOf[x] \notin Unset /\ (x \in PushOnly <=> FieldOf[x] \in PushFields)
         /\ FieldOf[x] = "Durable" => x = "Durable"
BY DEF FieldOf, PushOnly, PushFields, Unset

LEMMA PolicyOfNames ==
  ASSUME NEW x \in DOMAIN PolicyOf
  PROVE  /\ PolicyOf[x][1] \notin Unset /\ (x \in PushOnly <=> PolicyOf[x][1] \in PushFields)
         /\ PolicyOf[x][1] # "Durable"
BY DEF PolicyOf, PushOnly, PushFields, Unset

LEMMA StartOfNames ==
  ASSUME NEW x \in DOMAIN StartOf
  PROVE  StartOf[x][2] \notin Unset \cup PushFields \cup {"Durable"}
BY DEF StartOf, PushFields, Unset

(* A field with the name n that the option o sets.                         *)
Flagged(f, n, o) ==
  f.name = n /\ f.pushOnly \in BOOLEAN /\ (f.pushOnly = TRUE <=> o.sym \in PushOnly)

LEMMA OptionSettable ==
  ASSUME NEW o, NEW f \in RangeOf(OptionFields(o))
  PROVE  Settable(f) /\ (f.name = "Durable" => o.sym = "Durable")
<1> DEFINE flag(g) == [g EXCEPT !.pushOnly = o.sym \in PushOnly]
<1>1. ASSUME NEW n, NEW v
      PROVE  Flagged(flag(Field(n, v)), n, o)
  <2>1. flag(Field(n, v)).name = n /\ flag(Field(n, v)).pushOnly = (o.sym \in PushOnly)
    BY DEF Field
  <2>2. (o.sym \in PushOnly) \in BOOLEAN /\ ((o.sym \in PushOnly) = TRUE <=> o.sym \in PushOnly)
    OBVIOUS
  <2> HIDE DEF flag
  <2> QED
    BY <2>1, <2>2, Zenon DEF Flagged
<1>6. o.sym \in DOMAIN FieldOf => f = flag(Field(FieldOf[o.sym], o.arg))
  BY OptionFieldsOf, OneField
<1>7. o.sym \in DOMAIN PolicyOf => f = flag(Field(PolicyOf[o.sym][1], PolicyOf[o.sym][2]))
  BY OptionFieldsOf, OneField
<1> HIDE DEF flag
<1>2. CASE o.sym \in DOMAIN FieldOf
  <2>1. Flagged(f, FieldOf[o.sym], o)
    BY <1>1, <1>2, <1>6
  <2>2. /\ FieldOf[o.sym] \notin Unset /\ (o.sym \in PushOnly <=> FieldOf[o.sym] \in PushFields)
        /\ FieldOf[o.sym] = "Durable" => o.sym = "Durable"
    BY <1>2, FieldOfNames
  <2> QED
    BY <2>1, <2>2, Zenon DEF Settable, Flagged
<1>3. CASE o.sym \in DOMAIN PolicyOf
  <2>1. Flagged(f, PolicyOf[o.sym][1], o)
    BY <1>1, <1>3, <1>7
  <2>2. /\ PolicyOf[o.sym][1] \notin Unset /\ (o.sym \in PushOnly <=> PolicyOf[o.sym][1] \in PushFields)
        /\ PolicyOf[o.sym][1] # "Durable"
    BY <1>3, PolicyOfNames
  <2> QED
    BY <2>1, <2>2, Zenon DEF Settable, Flagged
<1>4. CASE o.sym \in DOMAIN StartOf
  <2> DEFINE g == Field("DeliverPolicy", StartOf[o.sym][1])
             h == Field(StartOf[o.sym][2], o.arg)
  <2>1. OptionFields(o) = <<g, h>>
    BY <1>4, OptionFieldsOf
  <2>2. g.name = "DeliverPolicy" /\ g.pushOnly = FALSE /\ h.name = StartOf[o.sym][2] /\ h.pushOnly = FALSE
    BY DEF Field
  <2> HIDE DEF g, h
  <2>3. f = g \/ f = h
    BY <2>1 DEF RangeOf
  <2>4. "DeliverPolicy" \notin Unset \cup PushFields \cup {"Durable"}
    BY DEF Unset, PushFields
  <2> QED
    BY <1>4, <2>2, <2>3, <2>4, StartOfNames DEF Settable
<1>5. CASE o.sym \notin DOMAIN FieldOf \cup DOMAIN PolicyOf \cup DOMAIN StartOf
  <2>1. OptionFields(o) = << >>
    BY <1>5, OptionFieldsOf
  <2> QED
    BY <2>1 DEF RangeOf
<1> QED
  BY <1>2, <1>3, <1>4, <1>5

(* A field of what parseSubscribe reads off a call: of an option, or the   *)
(* name of the queue where no option gives another.                        *)
LEMMA ParseSettable ==
  ASSUME NEW c, c.opts \in Seq(RangeOf(c.opts)), NEW f \in RangeOf(Parse(c).fields)
  PROVE  Settable(f) /\ (f.name = "Durable" => Parse(c).durable)
<1> DEFINE queue == Field("Durable", c.queue)
<1>1. Parse(c).durable <=> Named(c) \/ "Durable" \in Syms(c)
  BY Zenon DEF Parse, Opts, Syms, Named
<1>2. (Named(c) /\ f = queue) \/ \E i \in DOMAIN Opts(c) : f \in RangeOf(OptionFields(Opts(c)[i]))
  BY ParseRange
<1>3. CASE Named(c) /\ f = queue
  <2>1. queue.name = "Durable" /\ queue.pushOnly = FALSE
    BY DEF Field
  <2>2. "Durable" \notin Unset \cup PushFields
    BY DEF Unset, PushFields
  <2> QED
    BY <1>1, <1>3, <2>1, <2>2 DEF Settable
<1>4. CASE \E i \in DOMAIN Opts(c) : f \in RangeOf(OptionFields(Opts(c)[i]))
  <2>1. PICK i \in DOMAIN Opts(c) : f \in RangeOf(OptionFields(Opts(c)[i]))
    BY <1>4
  <2>2. Settable(f) /\ (f.name = "Durable" => Opts(c)[i].sym = "Durable")
    BY <2>1, OptionSettable
  <2> QED
    BY <1>1, <2>2 DEF Syms
<1> QED
  BY <1>2, <1>3, <1>4

(***************************************************************************)
(* A list of fields, each name once, and the config that it gives.         *)
(***************************************************************************)
Fields(s, A) == Enumerates(s, A) /\ \A f, g \in A : f.name = g.name => f = g

Gives(config, A) ==
  /\ \A f \in A : f.name \in DOMAIN config /\ config[f.name] = f.value
  /\ \A n \in DOMAIN config : \E f \in A : f.name = n

LEMMA FieldsConfig ==
  ASSUME NEW s, NEW A, Fields(s, A)
  PROVE  OnceEach(s) /\ Gives(ConfigOf(s), A)
<1>1. Enumerates(s, A) /\ \A i \in DOMAIN s : s[i] \in A
  BY DEF Fields, Enumerates
<1>2. OnceEach(s)
  <2> SUFFICES ASSUME NEW i \in DOMAIN s, NEW j \in DOMAIN s, s[i].name = s[j].name PROVE i = j
    BY DEF OnceEach
  <2>1. s[i] = s[j]
    BY <1>1 DEF Fields
  <2> QED
    BY <1>1, <2>1 DEF Enumerates
<1>3. ASSUME NEW f \in A PROVE f.name \in DOMAIN ConfigOf(s) /\ ConfigOf(s)[f.name] = f.value
  <2>1. PICK i \in DOMAIN s : s[i] = f
    BY <1>1 DEF Enumerates
  <2> DEFINE j == CHOOSE k \in DOMAIN s : s[k].name = f.name
  <2>2. j \in DOMAIN s /\ s[j].name = f.name
    BY <2>1
  <2>3. f.name \in DOMAIN ConfigOf(s) /\ ConfigOf(s)[f.name] = s[j].value
    BY <2>1 DEF ConfigOf, Names
  <2> HIDE DEF j
  <2>4. s[j] = f
    BY <1>1, <2>2 DEF Fields
  <2> QED
    BY <2>3, <2>4
<1>4. ASSUME NEW n \in DOMAIN ConfigOf(s) PROVE \E f \in A : f.name = n
  <2>1. n \in Names(s)
    BY <1>4 DEF ConfigOf
  <2> QED
    BY <1>1, <2>1 DEF Names
<1> QED
  BY <1>2, <1>3, <1>4 DEF Gives

LEMMA SetFields ==
  ASSUME NEW s, s \in Seq(RangeOf(s)), OnceEach(s)
  PROVE  Fields(s, RangeOf(s))
BY DEF Fields, Enumerates, OnceEach, RangeOf

LEMMA KeptFields ==
  ASSUME NEW s, NEW A, Fields(s, A), NEW S \in SUBSET A
  PROVE  Fields(Kept(s, S), S)
<1>1. Enumerates(Kept(s, S), S)
  BY FilterOnce DEF Fields, Kept
<1> QED
  BY <1>1 DEF Fields

LEMMA JoinFields ==
  ASSUME NEW s, NEW A, NEW t, NEW B, Fields(s, A), Fields(t, B),
         \A f \in A : \A g \in B : f.name # g.name
  PROVE  Fields(s \o t, A \cup B)
<1>1. A \cap B = {}
  OBVIOUS
<1>2. Enumerates(s \o t, A \cup B)
  BY <1>1, JoinLists DEF Fields, Joins
<1>3. \A f, g \in A \cup B : f.name = g.name => f = g
  BY DEF Fields
<1> QED
  BY <1>2, <1>3 DEF Fields

LEMMA OneFields ==
  ASSUME NEW f
  PROVE  Fields(<<f>>, {f}) /\ Fields(<< >>, {})
<1>1. DOMAIN <<f>> = {1} /\ <<f>>[1] = f /\ <<f>> \in Seq({f})
  OBVIOUS
<1>2. << >> \in Seq({}) /\ DOMAIN << >> = {}
  OBVIOUS
<1>3. Enumerates(<<f>>, {f})
  BY <1>1 DEF Enumerates
<1>4. Enumerates(<< >>, {})
  BY <1>2 DEF Enumerates
<1> QED
  BY <1>3, <1>4 DEF Fields

(* What a selection of fields leaves. *)
Pulled(A) == {f \in A : f.pushOnly # TRUE}

LEMMA FilterFields ==
  ASSUME NEW s, NEW A, Fields(s, A), \A f \in A : f.pushOnly \in BOOLEAN
  PROVE  /\ Fields(Filter(s, LAMBDA f : ~f.pushOnly), Pulled(A))
         /\ Fields(Filter(s, LAMBDA f : f.name # "AckPolicy"), {f \in A : f.name # "AckPolicy"})
         /\ Fields(Filter(s, LAMBDA f : f.name \in OrderedFields \ {"FilterSubjects"}),
                   {f \in A : f.name \in OrderedFields \ {"FilterSubjects"}})
<1>1. \A i \in DOMAIN s : s[i] \in A
  BY DEF Fields, Enumerates
<1>2. Filter(s, LAMBDA f : ~f.pushOnly) = Kept(s, Pulled(A))
  <2>1. [i \in DOMAIN s |-> IF ~s[i].pushOnly THEN <<s[i]>> ELSE << >>]
          = [i \in DOMAIN s |-> IF s[i] \in Pulled(A) THEN <<s[i]>> ELSE << >>]
    BY <1>1 DEF Pulled
  <2> QED
    BY <2>1 DEF Filter, Kept
<1>3. Filter(s, LAMBDA f : f.name # "AckPolicy") = Kept(s, {f \in A : f.name # "AckPolicy"})
  <2>1. [i \in DOMAIN s |-> IF s[i].name # "AckPolicy" THEN <<s[i]>> ELSE << >>]
          = [i \in DOMAIN s |-> IF s[i] \in {f \in A : f.name # "AckPolicy"} THEN <<s[i]>> ELSE << >>]
    BY <1>1
  <2> QED
    BY <2>1 DEF Filter, Kept
<1>4. Filter(s, LAMBDA f : f.name \in OrderedFields \ {"FilterSubjects"})
        = Kept(s, {f \in A : f.name \in OrderedFields \ {"FilterSubjects"}})
  <2>1. [i \in DOMAIN s |-> IF s[i].name \in OrderedFields \ {"FilterSubjects"} THEN <<s[i]>> ELSE << >>]
          = [i \in DOMAIN s |-> IF s[i] \in {f \in A : f.name \in OrderedFields \ {"FilterSubjects"}}
                                THEN <<s[i]>> ELSE << >>]
    BY <1>1
  <2> QED
    BY <2>1 DEF Filter, Kept
<1>5. Pulled(A) \subseteq A
  BY DEF Pulled
<1> QED
  BY <1>2, <1>3, <1>4, <1>5, KeptFields

(* The fields that an answer not to ack leaves. *)
NoAckField == Field("AckPolicy", "AckNonePolicy")
Acked(A, ch) == IF ch.ack = "none" THEN {f \in A : f.name # "AckPolicy"} \cup {NoAckField} ELSE A

LEMMA FieldParts ==
  ASSUME NEW n, NEW v
  PROVE  Field(n, v).name = n /\ Field(n, v).value = v /\ Field(n, v).pushOnly = FALSE
BY DEF Field

LEMMA AckedFields ==
  ASSUME NEW s, NEW A, Fields(s, A), \A f \in A : f.pushOnly \in BOOLEAN, NEW ch
  PROVE  Fields(AckFields(s, ch), Acked(A, ch)) /\ \A f \in Acked(A, ch) : f.pushOnly \in BOOLEAN
<1> DEFINE kept == Filter(s, LAMBDA f : f.name # "AckPolicy")
           left == {f \in A : f.name # "AckPolicy"}
<1>1. NoAckField.name = "AckPolicy" /\ NoAckField.pushOnly = FALSE
  BY FieldParts DEF NoAckField
<1>2. Fields(kept, left)
  BY FilterFields
<1>3. AckFields(s, ch) = IF ch.ack = "none" THEN Append(kept, NoAckField) ELSE s
  BY DEF AckFields, NoAckField
<1>4. Fields(<<NoAckField>>, {NoAckField})
  BY OneFields
<1> HIDE DEF kept
<1>5. kept \in Seq(left)
  BY <1>2 DEF Fields, Enumerates
<1>6. Append(kept, NoAckField) = kept \o <<NoAckField>>
  BY <1>5
<1>7. Fields(kept \o <<NoAckField>>, left \cup {NoAckField})
  BY <1>1, <1>2, <1>4, JoinFields
<1> QED
  BY <1>1, <1>3, <1>6, <1>7 DEF Acked

LEMMA ConfigFieldsSet ==
  ASSUME NEW c, NEW sc, NEW A, Fields(sc.fields, A), \A f \in A : f.pushOnly \in BOOLEAN, NEW ch
  PROVE  LET fields == ConfigFields(c, sc, ch) IN
           /\ c.form = "pull" => Fields(fields, Pulled(A))
           /\ c.form # "pull" /\ sc.ordered => Fields(fields, A) \/ Fields(fields, Pulled(A))
           /\ c.form # "pull" /\ ~sc.ordered /\ Target(ch) = "pull" => Fields(fields, Pulled(Acked(A, ch)))
           /\ c.form # "pull" /\ ~sc.ordered /\ Target(ch) # "pull" => Fields(fields, Acked(A, ch))
<1> DEFINE acked == AckFields(sc.fields, ch)
<1>1. Fields(acked, Acked(A, ch)) /\ \A f \in Acked(A, ch) : f.pushOnly \in BOOLEAN
  BY AckedFields
<1> HIDE DEF acked
<1>2. Fields(Filter(acked, LAMBDA f : ~f.pushOnly), Pulled(Acked(A, ch)))
  BY <1>1, FilterFields
<1>3. Fields(Filter(sc.fields, LAMBDA f : ~f.pushOnly), Pulled(A))
  BY FilterFields
<1>4. ConfigFields(c, sc, ch) =
        LET own == IF c.form = "pull" \/ sc.ordered THEN sc.fields ELSE acked
        IN  IF c.form = "pull" \/ Target(ch) = "pull" THEN Filter(own, LAMBDA f : ~f.pushOnly) ELSE own
  BY DEF ConfigFields, acked
<1>5. c.form = "pull" => ConfigFields(c, sc, ch) = Filter(sc.fields, LAMBDA f : ~f.pushOnly)
  BY <1>4
<1>6. c.form # "pull" /\ sc.ordered =>
        ConfigFields(c, sc, ch) = sc.fields \/ ConfigFields(c, sc, ch) = Filter(sc.fields, LAMBDA f : ~f.pushOnly)
  BY <1>4
<1>7. c.form # "pull" /\ ~sc.ordered /\ Target(ch) = "pull" =>
        ConfigFields(c, sc, ch) = Filter(acked, LAMBDA f : ~f.pushOnly)
  BY <1>4
<1>8. c.form # "pull" /\ ~sc.ordered /\ Target(ch) # "pull" => ConfigFields(c, sc, ch) = acked
  BY <1>4
<1> QED
  BY <1>1, <1>2, <1>3, <1>5, <1>6, <1>7, <1>8

(* The config of a rewrite, by its kind. *)
LEMMA BuildKinds ==
  ASSUME NEW p, NEW live, NEW c, NEW k, NEW ch, NEW b, b = Build(p, live, c, k, ch),
         "guided" \notin b.problems, b.config # << >>
  PROVE  LET call == p.calls[c]
             sc == Parse(call)
             fields == ConfigFields(call, sc, ch) IN
           \/ call.form = "pull" /\ b.config = PullConfig(call, sc, fields)
           \/ call.form # "pull" /\ sc.ordered /\ b.config = OrderedConfig(fields, call.subject)
           \/ /\ call.form # "pull" /\ ~sc.ordered /\ Target(ch) = "push"
              /\ b.config = PushConfig(call, fields)
           \/ /\ call.form # "pull" /\ ~sc.ordered /\ Target(ch) \notin {"push", "defer"}
              /\ b.config = Append(fields, Field("FilterSubject", call.subject))
<1> DEFINE h == Handler(p, live, c, k, ch)
           call == p.calls[c]
           sc == Parse(call)
           fields == ConfigFields(call, sc, ch)
           base == sc.problems \cup ReceiverProblems(call) \cup UseProblems(call)
           explicit == IF ch.ack = "explicit" THEN {"guided"} ELSE {}
           consumed(kind, config, more) ==
             Rewrite(kind, config, h.how, Wraps(sc, ch), Statement(call, FALSE),
                     base \cup explicit \cup h.problems \cup more)
           ordered == IF Names(fields) \subseteq OrderedFields THEN {} ELSE {"guided"}
           queued == IF call.queue # "" THEN {"guided"} ELSE {}
           alone == Append(fields, Field("FilterSubject", call.subject))
           pull == Rewrite("pull", IF sc.bound THEN << >> ELSE PullConfig(call, sc, fields), "none", FALSE,
                           Statement(call, TRUE), base)
           none == Unwritten(sc.problems \cup {"guided"})
<1>1. b = IF \/ call.recv = "expression" \/ Target(ch) = "defer"
             \/ call.form \in {"sync", "chan"}
          THEN none
          ELSE IF call.form = "pull" THEN pull
          ELSE IF sc.ordered THEN consumed("ordered", OrderedConfig(fields, call.subject), ordered)
          ELSE IF sc.bound THEN consumed("bound", << >>, {})
          ELSE IF Target(ch) = "push" THEN consumed("push", PushConfig(call, fields), queued)
          ELSE consumed("consumer", alone, {})
  BY DEF Build
<1>2. ASSUME NEW kind, NEW config, NEW more PROVE consumed(kind, config, more).config = config
  BY DEF Rewrite
<1>3. pull.config = IF sc.bound THEN << >> ELSE PullConfig(call, sc, fields)
  BY DEF Rewrite
<1>4. none.config = << >>
  BY DEF Unwritten, Rewrite
<1> HIDE DEF consumed, pull, none, call, sc, fields, ordered, queued, alone
<1>5. \/ b.config = << >>
      \/ call.form = "pull" /\ b.config = PullConfig(call, sc, fields)
      \/ call.form # "pull" /\ sc.ordered /\ b.config = OrderedConfig(fields, call.subject)
      \/ /\ call.form # "pull" /\ ~sc.ordered /\ Target(ch) = "push"
         /\ b.config = PushConfig(call, fields)
      \/ /\ call.form # "pull" /\ ~sc.ordered /\ Target(ch) \notin {"push", "defer"}
         /\ b.config = alone
  BY <1>1, <1>2, <1>3, <1>4
<1> QED
  BY <1>5, Zenon DEF call, sc, fields, alone

(* Two configs that say the same of the field n. *)
Same(a, b, n) ==
  (n \in DOMAIN a <=> n \in DOMAIN b) /\ (n \in DOMAIN a /\ n \in DOMAIN b => a[n] = b[n])

Alike(X, Y, n) == \A f \in X \cup Y : f.name = n => (f \in X <=> f \in Y)

LEMMA AlikeSame ==
  ASSUME NEW a, NEW X, Gives(a, X), NEW b, NEW Y, Gives(b, Y), NEW n, Alike(X, Y, n)
  PROVE  Same(a, b, n)
BY DEF Same, Alike, Gives

(* The config of a pull consumer, of a push consumer and of an ordered one *)
(* beside the legacy config a.                                             *)
PullOf(b, a) ==
  /\ \A n : n \notin PushFields \cup {"AckPolicy"} => Same(a, b, n)
  /\ \A n \in PushFields \cup {"Replicas", "MaxRequestExpires"} : n \notin DOMAIN b

PushOf(b, a) ==
  /\ \A n : n \notin {"AckPolicy", "DeliverGroup"} => Same(a, b, n)
  /\ Same(a, b, "AckPolicy") \/ "MaxAckPending" \notin DOMAIN b

OrderedOf(b, a, subject) ==
  /\ \A n \in {"DeliverPolicy", "OptStartSeq", "OptStartTime"} : Same(a, b, n)
  /\ DOMAIN b \subseteq OrderedFields
  /\ "FilterSubjects" \in DOMAIN b /\ b["FilterSubjects"] = <<subject>>

(* What the fields of a call may be; each is set once. *)
OptionSet(A, sc) ==
  /\ \A f \in A : Settable(f) /\ (f.name = "Durable" => sc.durable) /\ f.name # "FilterSubjects"
  /\ Fields(sc.fields, A)

(* The fields of the legacy config: one for each of those that are absent. *)
FilterOf(call) == Field("FilterSubject", call.subject)
InboxField     == Field("DeliverSubject", Inbox)
DurableOf(call) == Field("Durable", call.durable)
GroupOf(call)  == Field("DeliverGroup", call.queue)

Inboxed(A, call)   == call.form # "pull" /\ ~\E f \in A : f.name = "DeliverSubject"
Durably(call, sc)  == call.form = "pull" /\ ~sc.durable /\ call.durable # ""

LegacySet(A, call, sc) ==
  A \cup (({FilterOf(call)} \cup (IF Inboxed(A, call) THEN {InboxField} ELSE {}))
             \cup (IF Durably(call, sc) THEN {DurableOf(call)} ELSE {}))

PullSet(A, call, sc) ==
  ((IF Durably(call, sc) THEN {DurableOf(call)} ELSE {}) \cup Pulled(A)) \cup {FilterOf(call)}

ConsumerSet(A, call, ch) == Pulled(Acked(A, ch)) \cup {FilterOf(call)}

PushSet(A, call, ch) ==
  ((Acked(A, ch) \cup (IF Inboxed(A, call) THEN {InboxField} ELSE {}))
     \cup (IF call.queue # "" THEN {GroupOf(call)} ELSE {})) \cup {FilterOf(call)}

OrderedSet(A, call) ==
  {Field("FilterSubjects", <<call.subject>>)} \cup {f \in A : f.name \in OrderedFields \ {"FilterSubjects"}}

(* One more field for a list of fields. *)
LEMMA MoreFields ==
  ASSUME NEW s, NEW A, Fields(s, A), NEW P, NEW f, P => \A g \in A : g.name # f.name
  PROVE  Fields(s \o (IF P THEN <<f>> ELSE << >>), A \cup (IF P THEN {f} ELSE {}))
<1>1. Fields(<<f>>, {f}) /\ Fields(<< >>, {})
  BY OneFields
<1>2. CASE P
  <2>1. Fields(s \o <<f>>, A \cup {f})
    BY <1>1, <1>2, JoinFields
  <2> QED
    BY <1>2, <2>1
<1>3. CASE ~P
  <2>1. Fields(s \o << >>, A \cup {})
    BY <1>1, JoinFields
  <2> QED
    BY <1>3, <2>1
<1> QED
  BY <1>2, <1>3

LEMMA FieldsNames ==
  ASSUME NEW s, NEW A, Fields(s, A), NEW n
  PROVE  n \in Names(s) <=> \E f \in A : f.name = n
BY DEF Fields, Enumerates, Names

LEMMA AddedNames ==
  ASSUME NEW call
  PROVE  /\ FilterOf(call).name = "FilterSubject" /\ FilterOf(call).value = call.subject /\ FilterOf(call).pushOnly = FALSE
         /\ InboxField.name = "DeliverSubject" /\ DurableOf(call).name = "Durable"
         /\ GroupOf(call).name = "DeliverGroup"
BY DEF Field, FilterOf, InboxField, DurableOf, GroupOf

LEMMA LegacyGives ==
  ASSUME NEW c, NEW A, OptionSet(A, Parse(Call(c)))
  PROVE  Gives(LegacyConfig(c), LegacySet(A, Call(c), Parse(Call(c))))
<1> DEFINE call == Call(c)
           sc == Parse(call)
           filter == <<FilterOf(call)>>
           inbox == IF Inboxed(A, call) THEN <<InboxField>> ELSE << >>
           durable == IF Durably(call, sc) THEN <<DurableOf(call)>> ELSE << >>
           more == (filter \o inbox) \o durable
           F == {FilterOf(call)}
           I == IF Inboxed(A, call) THEN {InboxField} ELSE {}
           D == IF Durably(call, sc) THEN {DurableOf(call)} ELSE {}
<1>1. Fields(sc.fields, A)
  BY DEF OptionSet
<1>2. ~("FilterSubjects" \in Names(sc.fields)) /\ ("DeliverSubject" \in Names(sc.fields) <=> \E f \in A : f.name = "DeliverSubject")
  BY <1>1, FieldsNames DEF OptionSet
<1>3. LegacyConfig(c) = ConfigOf(sc.fields \o more)
  BY <1>2 DEF LegacyConfig, FilterOf, InboxField, DurableOf, Inboxed, Durably
<1>4. Fields(filter, F)
  BY OneFields
<1>5. Fields(filter \o inbox, F \cup I)
  BY <1>4, MoreFields, AddedNames
<1>6. Fields(more, (F \cup I) \cup D)
  <2>1. \A g \in F \cup I : g.name # DurableOf(call).name
    BY AddedNames
  <2> DEFINE s == filter \o inbox
             B == F \cup I
  <2>2. Fields(s, B) /\ \A g \in B : g.name # DurableOf(call).name
    BY <1>5, <2>1
  <2> HIDE DEF s, B
  <2>3. Fields(s \o durable, B \cup D)
    BY <2>2, MoreFields
  <2> QED
    BY <2>3 DEF s, B
<1>7. \A f \in A : \A g \in (F \cup I) \cup D : f.name # g.name
  <2> TAKE f \in A
  <2> TAKE g \in (F \cup I) \cup D
  <2>1. Settable(f) /\ (f.name = "Durable" => sc.durable)
    BY DEF OptionSet
  <2>2. f.name # "FilterSubject"
    BY <2>1 DEF Settable, Unset
  <2>3. \/ g = FilterOf(call) \/ (g = InboxField /\ Inboxed(A, call))
        \/ (g = DurableOf(call) /\ Durably(call, sc))
    OBVIOUS
  <2> QED
    BY <2>1, <2>2, <2>3, AddedNames DEF Inboxed, Durably
<1> HIDE DEF more, F, I, D
<1>8. Fields(sc.fields \o more, A \cup ((F \cup I) \cup D))
  BY <1>1, <1>6, <1>7, JoinFields
<1>9. Gives(ConfigOf(sc.fields \o more), A \cup ((F \cup I) \cup D))
  BY <1>8, FieldsConfig
<1> QED
  BY <1>3, <1>9 DEF LegacySet, F, I, D

(* The fields that an answer about acks leaves are those of the options,   *)
(* but for the policy of acks.                                             *)
LEMMA AckedParts ==
  ASSUME NEW A, NEW sc, OptionSet(A, sc), NEW ch
  PROVE  /\ \A f \in Acked(A, ch) : f.name # "AckPolicy" => f \in A
         /\ \A f \in A : f.name # "AckPolicy" => f \in Acked(A, ch)
         /\ \A f \in Acked(A, ch) : Settable(f)
         /\ \A f \in A : f.pushOnly \in BOOLEAN
<1>1. NoAckField.name = "AckPolicy" /\ NoAckField.pushOnly = FALSE
  BY DEF Field, NoAckField
<1>2. "AckPolicy" \notin Unset \cup PushFields
  BY DEF Unset, PushFields
<1>3. Settable(NoAckField)
  BY <1>1, <1>2 DEF Settable
<1> QED
  BY <1>1, <1>3 DEF Acked, OptionSet, Settable

LEMMA PullFields ==
  ASSUME NEW call, NEW A, OptionSet(A, Parse(call)), NEW ch, call.form = "pull"
  PROVE  Fields(PullConfig(call, Parse(call), ConfigFields(call, Parse(call), ch)), PullSet(A, call, Parse(call)))
<1> DEFINE sc == Parse(call)
           fields == ConfigFields(call, sc, ch)
           durable == IF Durably(call, sc) THEN <<DurableOf(call)>> ELSE << >>
           D == IF Durably(call, sc) THEN {DurableOf(call)} ELSE {}
<1>1. Fields(fields, Pulled(A))
  BY AckedParts, ConfigFieldsSet DEF OptionSet
<1>2. Fields(durable, D)
  BY OneFields
<1>3. Fields(<<FilterOf(call)>>, {FilterOf(call)})
  BY OneFields
<1>4. PullConfig(call, sc, fields) = (durable \o fields) \o <<FilterOf(call)>>
  BY DEF PullConfig, FilterOf, DurableOf, Durably
<1>5. \A f \in Pulled(A) : f \in A /\ Settable(f) /\ (f.name = "Durable" => sc.durable)
  BY DEF Pulled, OptionSet
<1>6. \A g \in D : g = DurableOf(call) /\ ~sc.durable
  BY DEF Durably
<1>7. \A g \in D : \A f \in Pulled(A) : g.name # f.name
  BY <1>5, <1>6, AddedNames
<1>8. \A g \in D \cup Pulled(A) : g.name # FilterOf(call).name
  <2>1. "Durable" # "FilterSubject" /\ "FilterSubject" \in Unset
    BY DEF Unset
  <2> QED
    BY <1>5, <1>6, <2>1, AddedNames DEF Settable
<1> HIDE DEF fields, durable, D
<1>9. Fields(durable \o fields, D \cup Pulled(A))
  BY <1>1, <1>2, <1>7, JoinFields
<1> DEFINE s == durable \o fields
           B == D \cup Pulled(A)
<1>10. Fields(s, B) /\ \A f \in B : \A g \in {FilterOf(call)} : f.name # g.name
  BY <1>8, <1>9
<1> HIDE DEF s, B
<1>11. Fields(s \o <<FilterOf(call)>>, B \cup {FilterOf(call)})
  BY <1>3, <1>10, JoinFields
<1> QED
  BY <1>4, <1>11 DEF s, B, D, PullSet, fields

LEMMA ConsumerFields ==
  ASSUME NEW call, NEW A, OptionSet(A, Parse(call)), NEW ch,
         call.form # "pull", ~Parse(call).ordered, Target(ch) = "pull"
  PROVE  Fields(Append(ConfigFields(call, Parse(call), ch), Field("FilterSubject", call.subject)),
                ConsumerSet(A, call, ch))
<1> DEFINE fields == ConfigFields(call, Parse(call), ch)
           B == Pulled(Acked(A, ch))
<1>1. Fields(fields, B)
  BY AckedParts, ConfigFieldsSet DEF OptionSet
<1>2. Fields(<<FilterOf(call)>>, {FilterOf(call)})
  BY OneFields
<1>3. \A f \in B : f.name # FilterOf(call).name
  <2>1. "FilterSubject" \in Unset
    BY DEF Unset
  <2> SUFFICES ASSUME NEW f \in B PROVE f.name # FilterOf(call).name
    OBVIOUS
  <2>2. f \in Acked(A, ch)
    BY DEF Pulled
  <2>3. Settable(f)
    BY <2>2, AckedParts
  <2>4. FilterOf(call).name = "FilterSubject"
    BY AddedNames
  <2> QED
    BY <2>1, <2>3, <2>4 DEF Settable
<1>4. fields \in Seq(B)
  BY <1>1 DEF Fields, Enumerates
<1> HIDE DEF fields, B
<1>5. Append(fields, FilterOf(call)) = fields \o <<FilterOf(call)>>
  BY <1>4
<1>6. Fields(fields \o <<FilterOf(call)>>, B \cup {FilterOf(call)})
  BY <1>1, <1>2, <1>3, JoinFields
<1> QED
  BY <1>5, <1>6 DEF fields, B, ConsumerSet, FilterOf

LEMMA PushedFields ==
  ASSUME NEW call, NEW A, OptionSet(A, Parse(call)), NEW ch,
         call.form # "pull", ~Parse(call).ordered, Target(ch) # "pull"
  PROVE  Fields(PushConfig(call, ConfigFields(call, Parse(call), ch)), PushSet(A, call, ch))
<1> DEFINE fields == ConfigFields(call, Parse(call), ch)
           B == Acked(A, ch)
           inbox == IF Inboxed(A, call) THEN <<InboxField>> ELSE << >>
           I == IF Inboxed(A, call) THEN {InboxField} ELSE {}
           grouped == call.queue # ""
           group == IF grouped THEN <<GroupOf(call)>> ELSE << >>
           G == IF grouped THEN {GroupOf(call)} ELSE {}
<1>1. Fields(fields, B)
  BY AckedParts, ConfigFieldsSet DEF OptionSet
<1>2. Fields(<<FilterOf(call)>>, {FilterOf(call)})
  BY OneFields
<1>3. \A f \in B : f.name \notin Unset
  BY AckedParts DEF Settable
<1>4. "DeliverSubject" \in Names(fields) <=> \E f \in A : f.name = "DeliverSubject"
  <2>1. "DeliverSubject" \in Names(fields) <=> \E f \in B : f.name = "DeliverSubject"
    BY <1>1, FieldsNames
  <2>2. (\E f \in B : f.name = "DeliverSubject") <=> \E f \in A : f.name = "DeliverSubject"
    BY AckedParts
  <2> QED
    BY <2>1, <2>2
<1>5. PushConfig(call, fields) = ((fields \o inbox) \o group) \o <<FilterOf(call)>>
  BY <1>4 DEF PushConfig, FilterOf, InboxField, GroupOf, Inboxed
<1>6. Inboxed(A, call) => \A g \in B : g.name # InboxField.name
  <2> SUFFICES ASSUME Inboxed(A, call), NEW g \in B PROVE g.name # "DeliverSubject"
    BY AddedNames
  <2> QED
    BY AckedParts DEF Inboxed
<1> HIDE DEF fields, B
<1>7. Fields(fields \o inbox, B \cup I)
  BY <1>1, <1>6, MoreFields
<1>8. "DeliverGroup" \in Unset /\ "FilterSubject" \in Unset /\ "DeliverSubject" \notin Unset /\ "DeliverGroup" # "FilterSubject"
  BY DEF Unset
<1>9. \A g \in B \cup I : g.name # GroupOf(call).name /\ g.name # FilterOf(call).name
  BY <1>3, <1>8, AddedNames
<1> DEFINE s == fields \o inbox
           C == B \cup I
<1>10. Fields(s, C) /\ \A g \in C : g.name # GroupOf(call).name /\ g.name # FilterOf(call).name
  BY <1>7, <1>9
<1> HIDE DEF s, C, inbox, I, grouped
<1>11. Fields(s \o group, C \cup G)
  BY <1>10, MoreFields
<1>12. \A f \in C \cup G : f.name # FilterOf(call).name
  BY <1>8, <1>10, AddedNames
<1> DEFINE t == s \o group
           E == C \cup G
<1>13. Fields(t, E) /\ \A f \in E : \A g \in {FilterOf(call)} : f.name # g.name
  BY <1>11, <1>12
<1> HIDE DEF t, E
<1>14. Fields(t \o <<FilterOf(call)>>, E \cup {FilterOf(call)})
  BY <1>2, <1>13, JoinFields
<1> QED
  BY <1>5, <1>14 DEF t, s, E, C, B, I, fields, grouped, PushSet

LEMMA OrderedFieldsOf ==
  ASSUME NEW call, NEW A, OptionSet(A, Parse(call)), NEW ch,
         call.form # "pull", Parse(call).ordered
  PROVE  Fields(OrderedConfig(ConfigFields(call, Parse(call), ch), call.subject), OrderedSet(A, call))
<1> DEFINE fields == ConfigFields(call, Parse(call), ch)
           of(B) == {f \in B : f.name \in OrderedFields \ {"FilterSubjects"}}
           first == Field("FilterSubjects", <<call.subject>>)
           rest == Filter(fields, LAMBDA f : f.name \in OrderedFields \ {"FilterSubjects"})
<1>1. PICK B : Fields(fields, B) /\ (B = A \/ B = Pulled(A))
  BY AckedParts, ConfigFieldsSet DEF OptionSet
<1>2. (OrderedFields \ {"FilterSubjects"}) \cap PushFields = {}
  BY DEF OrderedFields, PushFields
<1>3. \A f \in A : f.name \notin PushFields => f \in Pulled(A)
  BY DEF OptionSet, Settable, Pulled
<1>4. of(B) = of(A) /\ B \subseteq A
  BY <1>1, <1>2, <1>3 DEF Pulled
<1>5. Fields(rest, of(B))
  <2>1. \A f \in B : f.pushOnly \in BOOLEAN
    BY <1>4, AckedParts
  <2> HIDE DEF fields
  <2> QED
    BY <1>1, <2>1, FilterFields
<1>6. "FilterSubjects" \notin Names(fields)
  <2> HIDE DEF fields
  <2> QED
    BY <1>1, <1>4, FieldsNames DEF OptionSet
<1>7. OrderedConfig(fields, call.subject) = <<first>> \o rest
  BY <1>6 DEF OrderedConfig
<1>8. Fields(<<first>>, {first})
  BY OneFields
<1>9. \A f \in {first} : \A g \in of(B) : f.name # g.name
  <2>1. first.name = "FilterSubjects"
    BY DEF Field
  <2> HIDE DEF first
  <2> QED
    BY <2>1
<1> HIDE DEF rest, first, fields, of
<1>10. Fields(<<first>> \o rest, {first} \cup of(B))
  BY <1>5, <1>8, <1>9, JoinFields
<1> QED
  BY <1>4, <1>7, <1>10 DEF OrderedSet, first, of, fields

(* Names that options, edits and the legacy library do not share.          *)
LEMMA NamesApart ==
  /\ "FilterSubject" \notin PushFields /\ "Durable" \notin PushFields /\ "AckPolicy" \notin PushFields
  /\ "DeliverSubject" \in PushFields /\ "FilterSubject" \in Unset /\ "Durable" \notin Unset
  /\ "DeliverSubject" \notin Unset /\ "AckPolicy" \notin Unset /\ "DeliverGroup" \in Unset
  /\ "Replicas" \in Unset /\ "MaxRequestExpires" \in Unset
  /\ "Replicas" \notin PushFields /\ "MaxRequestExpires" \notin PushFields
BY DEF PushFields, Unset

(* A pull consumer keeps what the legacy one had, but for the fields of a  *)
(* push consumer and the policy of acks.                                   *)
LEMMA PullSame ==
  ASSUME NEW c, NEW A, OptionSet(A, Parse(Call(c))), Call(c).form = "pull",
         NEW b, Gives(b, PullSet(A, Call(c), Parse(Call(c))))
  PROVE  PullOf(b, LegacyConfig(c))
<1> DEFINE call == Call(c)
           sc == Parse(call)
           X == LegacySet(A, call, sc)
           Y == PullSet(A, call, sc)
<1>1. \A f \in X : f \in A \/ f = FilterOf(call) \/ (f = DurableOf(call) /\ Durably(call, sc))
  BY DEF LegacySet, Inboxed
<1>2. A \subseteq X /\ FilterOf(call) \in X /\ (Durably(call, sc) => DurableOf(call) \in X)
  BY DEF LegacySet
<1>3. \A f \in Y : f \in Pulled(A) \/ f = FilterOf(call) \/ (f = DurableOf(call) /\ Durably(call, sc))
  BY DEF PullSet
<1>4. Pulled(A) \subseteq Y /\ FilterOf(call) \in Y /\ (Durably(call, sc) => DurableOf(call) \in Y)
  BY DEF PullSet
<1>5. \A f \in A : f \in Pulled(A) <=> f.name \notin PushFields
  BY DEF OptionSet, Settable, Pulled
<1>6. Pulled(A) \subseteq A /\ \A f \in A : f.name \notin Unset
  BY DEF Pulled, OptionSet, Settable
<1>7. Gives(LegacyConfig(c), X)
  BY LegacyGives
<1> HIDE DEF X, Y
<1>8. \A n : n \notin PushFields => Alike(X, Y, n)
  BY <1>1, <1>2, <1>3, <1>4, <1>5, <1>6 DEF Alike
<1>9. \A n : n \notin PushFields \cup {"AckPolicy"} => Same(LegacyConfig(c), b, n)
  BY <1>7, <1>8, AlikeSame DEF Y
<1>10. ASSUME NEW n \in PushFields \cup {"Replicas", "MaxRequestExpires"}, n \in DOMAIN b PROVE FALSE
  <2>1. PICK f \in Y : f.name = n
    BY <1>10 DEF Gives, Y
  <2> QED
    BY <1>3, <1>5, <1>6, <1>10, <2>1, AddedNames, NamesApart
<1> QED
  BY <1>9, <1>10 DEF PullOf

LEMMA ConsumerSame ==
  ASSUME NEW c, NEW A, OptionSet(A, Parse(Call(c))), NEW ch, Call(c).form # "pull",
         NEW b, Gives(b, ConsumerSet(A, Call(c), ch))
  PROVE  PullOf(b, LegacyConfig(c))
<1> DEFINE call == Call(c)
           sc == Parse(call)
           X == LegacySet(A, call, sc)
           Y == ConsumerSet(A, call, ch)
           B == Acked(A, ch)
<1>1. \A f \in X : f \in A \/ f = FilterOf(call) \/ f = InboxField
  BY DEF LegacySet, Durably
<1>2. A \subseteq X /\ FilterOf(call) \in X
  BY DEF LegacySet
<1>3. \A f : f \in Y <=> (f \in B /\ f.pushOnly # TRUE) \/ f = FilterOf(call)
  BY DEF ConsumerSet, Pulled
<1>4. /\ \A f \in B : f.name # "AckPolicy" => f \in A
      /\ \A f \in A : f.name # "AckPolicy" => f \in B
      /\ \A f \in B : Settable(f)
  BY AckedParts
<1>5. /\ \A f \in B : f.pushOnly # TRUE <=> f.name \notin PushFields
      /\ \A f \in A \cup B : f.name \notin Unset
  BY <1>4 DEF OptionSet, Settable
<1>6. Gives(LegacyConfig(c), X)
  BY LegacyGives
<1> HIDE DEF X, Y, B
<1>7. \A n : n \notin PushFields \cup {"AckPolicy"} => Alike(X, Y, n)
  BY <1>1, <1>2, <1>3, <1>4, <1>5, AddedNames, NamesApart DEF Alike
<1>8. \A n : n \notin PushFields \cup {"AckPolicy"} => Same(LegacyConfig(c), b, n)
  BY <1>6, <1>7, AlikeSame DEF Y
<1>9. ASSUME NEW n \in PushFields \cup {"Replicas", "MaxRequestExpires"}, n \in DOMAIN b PROVE FALSE
  <2>1. PICK f \in Y : f.name = n
    BY <1>9 DEF Gives, Y
  <2> QED
    BY <1>3, <1>5, <1>9, <2>1, AddedNames, NamesApart
<1> QED
  BY <1>8, <1>9 DEF PullOf

(* A push consumer keeps all of it, but for an answer not to ack, which    *)
(* does not come with a limit of pending acks; and it may be in a group.   *)
LEMMA PushSame ==
  ASSUME NEW c, NEW A, OptionSet(A, Parse(Call(c))), NEW ch, Call(c).form # "pull",
         ch.ack = "none" => \A f \in A : f.name # "MaxAckPending",
         NEW b, Gives(b, PushSet(A, Call(c), ch))
  PROVE  PushOf(b, LegacyConfig(c))
<1> DEFINE call == Call(c)
           sc == Parse(call)
           X == LegacySet(A, call, sc)
           Y == PushSet(A, call, ch)
           B == Acked(A, ch)
<1>1. \A f : f \in X <=> f \in A \/ f = FilterOf(call) \/ (f = InboxField /\ Inboxed(A, call))
  BY DEF LegacySet, Durably
<1>2. \A f : f \in Y <=> f \in B \/ f = FilterOf(call) \/ (f = InboxField /\ Inboxed(A, call))
                          \/ (f = GroupOf(call) /\ call.queue # "")
  BY DEF PushSet
<1>3. /\ \A f \in B : f.name # "AckPolicy" => f \in A
      /\ \A f \in A : f.name # "AckPolicy" => f \in B
      /\ ch.ack # "none" => B = A
  BY AckedParts DEF Acked
<1>4. Gives(LegacyConfig(c), X)
  BY LegacyGives
<1> HIDE DEF X, Y, B
<1>5. \A n : n \notin {"AckPolicy", "DeliverGroup"} => Alike(X, Y, n)
  BY <1>1, <1>2, <1>3, AddedNames DEF Alike
<1>6. ch.ack # "none" => Alike(X, Y, "AckPolicy")
  BY <1>1, <1>2, <1>3, AddedNames DEF Alike
<1>7. \A n : n \notin {"AckPolicy", "DeliverGroup"} => Same(LegacyConfig(c), b, n)
  BY <1>4, <1>5, AlikeSame DEF Y
<1>8. ch.ack # "none" => Same(LegacyConfig(c), b, "AckPolicy")
  BY <1>4, <1>6, AlikeSame DEF Y
<1>9. ASSUME ch.ack = "none", "MaxAckPending" \in DOMAIN b PROVE FALSE
  <2>1. PICK f \in Y : f.name = "MaxAckPending"
    BY <1>9 DEF Gives, Y
  <2> QED
    BY <1>2, <1>3, <1>9, <2>1, AddedNames
<1> QED
  BY <1>7, <1>8, <1>9 DEF PushOf

(* An ordered one has where to start, and its subject as the one filter.   *)
LEMMA OrderedSame ==
  ASSUME NEW c, NEW A, OptionSet(A, Parse(Call(c))), Call(c).form # "pull",
         NEW b, Gives(b, OrderedSet(A, Call(c)))
  PROVE  OrderedOf(b, LegacyConfig(c), Call(c).subject)
<1> DEFINE call == Call(c)
           sc == Parse(call)
           X == LegacySet(A, call, sc)
           Y == OrderedSet(A, call)
           first == Field("FilterSubjects", <<call.subject>>)
<1>1. first.name = "FilterSubjects" /\ first.value = <<call.subject>>
  BY DEF Field
<1>2. \A f : f \in X <=> f \in A \/ f = FilterOf(call) \/ (f = InboxField /\ Inboxed(A, call))
  BY DEF LegacySet, Durably
<1>3. \A f : f \in Y <=> f = first \/ (f \in A /\ f.name \in OrderedFields \ {"FilterSubjects"})
  BY DEF OrderedSet
<1>4. Gives(LegacyConfig(c), X)
  BY LegacyGives
<1>5. {"DeliverPolicy", "OptStartSeq", "OptStartTime", "FilterSubjects"} \subseteq OrderedFields
  BY DEF OrderedFields
<1> HIDE DEF X, Y, first
<1>6. \A n \in {"DeliverPolicy", "OptStartSeq", "OptStartTime"} : Alike(X, Y, n)
  <2> SUFFICES ASSUME NEW n \in {"DeliverPolicy", "OptStartSeq", "OptStartTime"},
                      NEW f, f.name = n
               PROVE  f \in X <=> f \in Y
    BY DEF Alike
  <2>1. f.name \notin {"FilterSubject", "DeliverSubject", "FilterSubjects"} /\ f.name \in OrderedFields
    BY <1>5
  <2>2. f # first /\ f # FilterOf(call) /\ f # InboxField
    BY <1>1, <2>1, AddedNames
  <2> QED
    BY <1>2, <1>3, <2>1, <2>2
<1>7. \A n \in {"DeliverPolicy", "OptStartSeq", "OptStartTime"} : Same(LegacyConfig(c), b, n)
  BY <1>4, <1>6, AlikeSame DEF Y
<1>8. DOMAIN b \subseteq OrderedFields
  BY <1>1, <1>3, <1>5 DEF Gives, Y
<1>9. "FilterSubjects" \in DOMAIN b /\ b["FilterSubjects"] = <<call.subject>>
  BY <1>1, <1>3 DEF Gives, Y
<1> QED
  BY <1>7, <1>8, <1>9 DEF OrderedOf

(* The fields of a call that sets each once, and no filters, are such.     *)
LEMMA OptionsSet ==
  ASSUME NEW call, call.opts \in Seq(RangeOf(call.opts)), OnceEach(Parse(call).fields),
         "FilterSubjects" \notin Names(Parse(call).fields)
  PROVE  OptionSet(RangeOf(Parse(call).fields), Parse(call))
<1> DEFINE sc == Parse(call)
           A == RangeOf(sc.fields)
<1>1. sc.fields \in Seq(A)
  BY ParseRange
<1>2. \A f \in A : Settable(f) /\ (f.name = "Durable" => sc.durable)
  BY ParseSettable
<1>3. \A f \in A : f.name # "FilterSubjects"
  BY DEF Names, RangeOf
<1>4. Fields(sc.fields, A)
  BY <1>1, SetFields
<1> QED
  BY <1>2, <1>3, <1>4 DEF OptionSet

-----------------------------------------------------------------------------
(* What natsvet reports of configs that say the same. *)

LEMMA SameValue ==
  ASSUME NEW a, NEW b, NEW n, Same(a, b, n)
  PROVE  Value(b, n) = Value(a, n) /\ (Known(b, n) <=> Known(a, n)) /\ (On(b, n) <=> On(a, n))
BY DEF Same, Value, Known, On

LEMMA AbsentValue ==
  ASSUME NEW b, NEW n, n \notin DOMAIN b
  PROVE  Value(b, n) = Zero(n) /\ ~On(b, n)
BY DEF Value, On

LEMMA ZeroNumbers ==
  /\ \A n \in Numbers : Zero(n) = 0
  /\ {"Replicas", "MaxAckPending", "RateLimit", "IdleHeartbeat", "MaxRequestExpires"} \subseteq Numbers
  /\ Zero("DeliverSubject") = << >> /\ Zero("FilterSubject") = << >>
BY DEF Zero, Numbers, Lists

LEMMA SameNegatives ==
  ASSUME NEW a, NEW b, \A n \in {"BackOff", "AckWait"} : Same(a, b, n),
         Same(a, b, "Replicas") \/ "Replicas" \notin DOMAIN b, CheckNegatives(a) = {}
  PROVE  CheckNegatives(b) = {}
<1> DEFINE below(x) == /\ Sure(x, "BackOff", NotEmpty)
                       /\ \E i \in DOMAIN Value(x, "BackOff") : Value(x, "BackOff")[i] < 0
<1>1. below(b) => below(a)
  BY SameValue DEF Sure, NotEmpty
<1>2. Sure(b, "AckWait", Negative) => Sure(a, "AckWait", Negative)
  BY SameValue DEF Sure
<1>3. Sure(b, "Replicas", Negative) => Sure(a, "Replicas", Negative)
  <2>1. Same(a, b, "Replicas") => (Sure(b, "Replicas", Negative) => Sure(a, "Replicas", Negative))
    BY SameValue DEF Sure
  <2>2. "Replicas" \notin DOMAIN b => ~Sure(b, "Replicas", Negative)
    BY AbsentValue, ZeroNumbers DEF Sure, Negative
  <2> QED
    BY <2>1, <2>2
<1>4. ASSUME NEW x
      PROVE  CheckNegatives(x) = {} <=> ~Sure(x, "Replicas", Negative) /\ ~below(x) /\ ~Sure(x, "AckWait", Negative)
  BY DEF CheckNegatives, Complain
<1> HIDE DEF below
<1> QED
  BY <1>1, <1>2, <1>3, <1>4

LEMMA SameBackOff ==
  ASSUME NEW a, NEW b, \A n \in {"BackOff", "MaxDeliver"} : Same(a, b, n), CheckBackOff(a) = {}
  PROVE  CheckBackOff(b) = {}
<1>1. Value(b, "BackOff") = Value(a, "BackOff") /\ (Known(b, "BackOff") <=> Known(a, "BackOff"))
  BY SameValue
<1>2. Value(b, "MaxDeliver") = Value(a, "MaxDeliver") /\ (Known(b, "MaxDeliver") <=> Known(a, "MaxDeliver"))
  BY SameValue
<1> QED
  BY <1>1, <1>2 DEF CheckBackOff, Complain, Sure, NotEmpty, Positive

LEMMA SamePush ==
  ASSUME NEW a, NEW b, \A n \in {"DeliverSubject", "MaxWaiting", "MaxAckPending", "IdleHeartbeat"} : Same(a, b, n),
         Same(a, b, "AckPolicy") \/ "MaxAckPending" \notin DOMAIN b, CheckPush(a) = {}
  PROVE  CheckPush(b) = {}
<1>1. Value(b, "DeliverSubject") = Value(a, "DeliverSubject") /\ (Push(b) <=> Push(a))
  BY SameValue DEF Push, Sure
<1>2. Sure(b, "MaxWaiting", NonZero) <=> Sure(a, "MaxWaiting", NonZero)
  BY SameValue DEF Sure
<1>3. Sure(b, "MaxAckPending", Positive) <=> Sure(a, "MaxAckPending", Positive)
  BY SameValue DEF Sure
<1>4. /\ Value(b, "IdleHeartbeat") = Value(a, "IdleHeartbeat")
      /\ Sure(b, "IdleHeartbeat", Positive) <=> Sure(a, "IdleHeartbeat", Positive)
  BY SameValue DEF Sure
<1>5. AckPolicy(b) = AckPolicy(a) \/ ~Sure(b, "MaxAckPending", Positive)
  <2>1. Same(a, b, "AckPolicy") => AckPolicy(b) = AckPolicy(a)
    BY DEF Same, AckPolicy
  <2>2. "MaxAckPending" \notin DOMAIN b => ~Sure(b, "MaxAckPending", Positive)
    BY AbsentValue, ZeroNumbers DEF Sure, Positive
  <2> QED
    BY <2>1, <2>2
<1> HIDE DEF Push, Sure, AckPolicy
<1> QED
  BY <1>1, <1>2, <1>3, <1>4, <1>5 DEF CheckPush, Complain

LEMMA SamePull ==
  ASSUME NEW a, NEW b,
         \A n \in {"DeliverSubject", "RateLimit", "MaxWaiting", "IdleHeartbeat", "FlowControl",
                   "MaxRequestBatch", "MaxRequestExpires"} : Same(a, b, n), CheckPull(a) = {}
  PROVE  CheckPull(b) = {}
<1>1. Pull(b) <=> Pull(a)
  BY SameValue DEF Pull, Push, Sure
<1>2. Sure(b, "RateLimit", Positive) <=> Sure(a, "RateLimit", Positive)
  BY SameValue DEF Sure
<1>3. Sure(b, "MaxWaiting", Negative) <=> Sure(a, "MaxWaiting", Negative)
  BY SameValue DEF Sure
<1>4. Sure(b, "IdleHeartbeat", Positive) <=> Sure(a, "IdleHeartbeat", Positive)
  BY SameValue DEF Sure
<1>5. On(b, "FlowControl") <=> On(a, "FlowControl")
  BY SameValue
<1>6. Sure(b, "MaxRequestBatch", Negative) <=> Sure(a, "MaxRequestBatch", Negative)
  BY SameValue DEF Sure
<1>7. /\ Value(b, "MaxRequestExpires") = Value(a, "MaxRequestExpires")
      /\ Sure(b, "MaxRequestExpires", NonZero) <=> Sure(a, "MaxRequestExpires", NonZero)
  BY SameValue DEF Sure
<1> QED
  BY <1>1, <1>2, <1>3, <1>4, <1>5, <1>6, <1>7 DEF CheckPull, Complain

(* The filters of a config by their values. *)
Filtered(value, list) ==
  LET single == value # Unknown /\ value # << >>
      multi  == IF list # Unknown THEN list ELSE << >>
      all    == (IF single THEN <<value>> ELSE << >>) \o multi IN
    /\ single => multi = << >> /\ IsValidSubject(value)
    /\ \A i \in DOMAIN multi : multi[i] # << >> /\ IsValidSubject(multi[i])
    /\ list # Unknown => \A i, j \in DOMAIN all :
         i # j /\ all[i] # << >> /\ all[j] # << >> => ~SubjectIsSubsetMatch(all[i], all[j])

LEMMA FilterValues ==
  ASSUME NEW c
  PROVE  CheckFilters(c) = {} <=> Filtered(Value(c, "FilterSubject"), Value(c, "FilterSubjects"))
<1> DEFINE value == Value(c, "FilterSubject")
           list  == Value(c, "FilterSubjects")
           single == value # Unknown /\ value # << >>
           multi  == IF list # Unknown THEN list ELSE << >>
           all    == (IF single THEN <<value>> ELSE << >>) \o multi
           both == single /\ multi # << >>
           bad == single /\ ~IsValidSubject(value)
           empty == \E i \in DOMAIN multi : multi[i] = << >>
           worse == \E i \in DOMAIN multi : multi[i] # << >> /\ ~IsValidSubject(multi[i])
           overlap == /\ list # Unknown
                      /\ \E i, j \in DOMAIN all :
                           /\ i # j /\ all[i] # << >> /\ all[j] # << >>
                           /\ SubjectIsSubsetMatch(all[i], all[j])
<1>1. CheckFilters(c) = Complain(both, "both filters") \cup Complain(bad, "filter")
        \cup Complain(empty, "empty filter") \cup Complain(worse, "filter")
        \cup Complain(overlap, "filters overlap")
  BY Zenon DEF CheckFilters, Known
<1>2. Filtered(value, list) <=> ~both /\ ~bad /\ ~empty /\ ~worse /\ ~overlap
  BY Zenon DEF Filtered
<1> HIDE DEF both, bad, empty, worse, overlap, value, list
<1>3. CheckFilters(c) = {} <=> ~both /\ ~bad /\ ~empty /\ ~worse /\ ~overlap
  BY <1>1 DEF Complain
<1> QED
  BY <1>2, <1>3 DEF value, list

LEMMA SameFilters ==
  ASSUME NEW a, NEW b, \A n \in {"FilterSubject", "FilterSubjects"} : Same(a, b, n), CheckFilters(a) = {}
  PROVE  CheckFilters(b) = {}
<1>1. Value(b, "FilterSubject") = Value(a, "FilterSubject") /\ Value(b, "FilterSubjects") = Value(a, "FilterSubjects")
  BY SameValue
<1> QED
  BY <1>1, FilterValues

LEMMA SameDeliverPolicy ==
  ASSUME NEW a, NEW b, CheckDeliverPolicy(a) = {},
         \A n \in {"DeliverPolicy", "OptStartSeq", "OptStartTime"} : Same(a, b, n),
         \/ \A n \in {"FilterSubject", "FilterSubjects"} : Same(a, b, n)
         \/ Value(b, "FilterSubjects") # << >>
  PROVE  CheckDeliverPolicy(b) = {}
<1>1. DeliverPolicy(b) = DeliverPolicy(a)
  BY DEF Same, DeliverPolicy
<1>2. /\ Value(b, "OptStartSeq") = Value(a, "OptStartSeq")
      /\ Sure(b, "OptStartSeq", Positive) <=> Sure(a, "OptStartSeq", Positive)
      /\ Sure(b, "OptStartSeq", NonZero) <=> Sure(a, "OptStartSeq", NonZero)
  BY SameValue DEF Sure
<1>3. "OptStartTime" \in DOMAIN b <=> "OptStartTime" \in DOMAIN a
  BY DEF Same
<1>4. \/ /\ Value(b, "FilterSubject") = Value(a, "FilterSubject")
         /\ Value(b, "FilterSubjects") = Value(a, "FilterSubjects")
      \/ Value(b, "FilterSubjects") # << >>
  BY SameValue
<1> QED
  BY <1>1, <1>2, <1>3, <1>4 DEF CheckDeliverPolicy, Complain

LEMMA SameFlowControl ==
  ASSUME NEW a, NEW b, \A n \in {"FlowControl", "IdleHeartbeat"} : Same(a, b, n),
         CheckFlowControlHeartbeat(a) = {}
  PROVE  CheckFlowControlHeartbeat(b) = {}
BY SameValue DEF CheckFlowControlHeartbeat, Complain

LEMMA SameDurableName ==
  ASSUME NEW a, NEW b, \A n \in {"Durable", "Name"} : Same(a, b, n), CheckDurableName(a) = {}
  PROVE  CheckDurableName(b) = {}
BY SameValue DEF CheckDurableName, Complain

LEMMA AllReports ==
  ASSUME NEW c
  PROVE  Reports(c) = {} <=> /\ CheckNegatives(c) = {} /\ CheckBackOff(c) = {} /\ CheckPush(c) = {}
                             /\ CheckPull(c) = {} /\ CheckFilters(c) = {} /\ CheckDeliverPolicy(c) = {}
                             /\ CheckFlowControlHeartbeat(c) = {} /\ CheckDurableName(c) = {}
BY DEF Reports

(* A pull consumer is not checked for what only a push consumer has, but   *)
(* for the limits of its requests.                                         *)
LEMMA PullAccepted ==
  ASSUME NEW a, Reports(a) = {}, NEW b, PullOf(b, a),
         ~Sure(a, "MaxWaiting", Negative), ~Sure(a, "MaxRequestBatch", Negative)
  PROVE  Reports(b) = {}
<1>1. \A n \in {"BackOff", "AckWait", "MaxDeliver", "MaxWaiting", "MaxRequestBatch", "FilterSubject",
                "FilterSubjects", "DeliverPolicy", "OptStartSeq", "OptStartTime", "Durable", "Name"} :
        Same(a, b, n)
  BY DEF PullOf, PushFields
<1>2. \A n \in {"RateLimit", "DeliverSubject", "FlowControl", "IdleHeartbeat", "Replicas", "MaxRequestExpires"} :
        n \notin DOMAIN b
  BY DEF PullOf, PushFields
<1>3. CheckNegatives(b) = {} /\ CheckBackOff(b) = {}
  BY <1>1, <1>2, AllReports, SameNegatives, SameBackOff
<1>4. CheckPush(b) = {}
  <2>1. Value(b, "DeliverSubject") = << >>
    BY <1>2, AbsentValue, ZeroNumbers
  <2>2. ~Push(b)
    BY <2>1 DEF Push, Sure, NotEmpty
  <2> QED
    BY <2>2 DEF CheckPush
<1>5. CheckPull(b) = {}
  <2>1. ~Sure(b, "MaxWaiting", Negative) /\ ~Sure(b, "MaxRequestBatch", Negative)
    BY <1>1, SameValue DEF Sure
  <2>2. Value(b, "RateLimit") = 0 /\ Value(b, "IdleHeartbeat") = 0 /\ Value(b, "MaxRequestExpires") = 0
    BY <1>2, AbsentValue, ZeroNumbers
  <2>3. ~Sure(b, "RateLimit", Positive) /\ ~Sure(b, "IdleHeartbeat", Positive) /\ ~Sure(b, "MaxRequestExpires", NonZero)
    BY <2>2 DEF Sure, Positive, NonZero
  <2>4. ~On(b, "FlowControl")
    BY <1>2, AbsentValue
  <2> QED
    BY <2>1, <2>3, <2>4 DEF CheckPull, Complain
<1>6. CheckFilters(b) = {} /\ CheckDeliverPolicy(b) = {}
  BY <1>1, AllReports, SameFilters, SameDeliverPolicy
<1>7. CheckFlowControlHeartbeat(b) = {}
  <2>1. ~On(b, "FlowControl")
    BY <1>2, AbsentValue
  <2> QED
    BY <2>1 DEF CheckFlowControlHeartbeat, Complain
<1>8. CheckDurableName(b) = {}
  BY <1>1, AllReports, SameDurableName
<1> QED
  BY <1>3, <1>4, <1>5, <1>6, <1>7, <1>8, AllReports

LEMMA PushAccepted ==
  ASSUME NEW a, Reports(a) = {}, NEW b, PushOf(b, a)
  PROVE  Reports(b) = {}
<1>1. \A n \in {"BackOff", "AckWait", "Replicas", "MaxDeliver", "DeliverSubject", "MaxWaiting", "MaxAckPending",
                "IdleHeartbeat", "RateLimit", "FlowControl", "MaxRequestBatch", "MaxRequestExpires",
                "FilterSubject", "FilterSubjects", "DeliverPolicy", "OptStartSeq", "OptStartTime",
                "Durable", "Name"} : Same(a, b, n)
  BY DEF PushOf
<1>2. Same(a, b, "AckPolicy") \/ "MaxAckPending" \notin DOMAIN b
  BY DEF PushOf
<1>3. CheckNegatives(b) = {} /\ CheckBackOff(b) = {}
  BY <1>1, AllReports, SameNegatives, SameBackOff
<1>4. CheckPush(b) = {}
  BY <1>1, <1>2, AllReports, SamePush
<1>5. CheckPull(b) = {}
  BY <1>1, AllReports, SamePull
<1>6. CheckFilters(b) = {} /\ CheckDeliverPolicy(b) = {}
  BY <1>1, AllReports, SameFilters, SameDeliverPolicy
<1>7. CheckFlowControlHeartbeat(b) = {} /\ CheckDurableName(b) = {}
  BY <1>1, AllReports, SameFlowControl, SameDurableName
<1> QED
  BY <1>3, <1>4, <1>5, <1>6, <1>7, AllReports

LEMMA OrderedAccepted ==
  ASSUME NEW a, Reports(a) = {}, NEW b, NEW subject, OrderedOf(b, a, subject),
         IsValidSubject(subject)
  PROVE  Reports(b) = {}
<1>1. \A n \in {"DeliverPolicy", "OptStartSeq", "OptStartTime"} : Same(a, b, n)
  BY DEF OrderedOf
<1>2. \A n \in {"BackOff", "AckWait", "Replicas", "MaxDeliver", "DeliverSubject", "MaxWaiting",
                "IdleHeartbeat", "RateLimit", "FlowControl", "MaxRequestBatch", "MaxRequestExpires",
                "FilterSubject", "Durable", "Name"} : n \notin DOMAIN b
  BY DEF OrderedOf, OrderedFields
<1>3. Value(b, "FilterSubjects") = <<subject>>
  BY DEF OrderedOf, Value
<1>4. \A n \in {"AckWait", "Replicas", "MaxDeliver", "MaxWaiting", "IdleHeartbeat", "RateLimit", "MaxRequestBatch",
                "MaxRequestExpires"} : Value(b, n) = 0
  BY <1>2, AbsentValue DEF Zero, Numbers
<1>5. \A n \in {"BackOff", "DeliverSubject", "FilterSubject"} : Value(b, n) = << >>
  BY <1>2, AbsentValue DEF Zero, Numbers, Lists
<1>6. ~On(b, "FlowControl") /\ Value(b, "Durable") = ""
  BY <1>2, AbsentValue DEF Zero, Numbers, Lists
<1>7. ~Sure(b, "BackOff", NotEmpty) /\ ~Push(b)
  BY <1>5 DEF Sure, NotEmpty, Push
<1>8. /\ ~Sure(b, "AckWait", Negative) /\ ~Sure(b, "Replicas", Negative) /\ ~Sure(b, "MaxWaiting", Negative)
      /\ ~Sure(b, "MaxRequestBatch", Negative) /\ ~Sure(b, "RateLimit", Positive)
      /\ ~Sure(b, "IdleHeartbeat", Positive) /\ ~Sure(b, "MaxRequestExpires", NonZero)
  BY <1>4 DEF Sure, Negative, Positive, NonZero
<1>9. CheckNegatives(b) = {} /\ CheckBackOff(b) = {}
  BY <1>7, <1>8 DEF CheckNegatives, CheckBackOff, Complain
<1>10. CheckPush(b) = {} /\ CheckPull(b) = {}
  BY <1>6, <1>7, <1>8 DEF CheckPush, CheckPull, Complain
<1>11. CheckFilters(b) = {}
  <2>1. Filtered(<< >>, <<subject>>)
    <3> DEFINE multi == IF <<subject>> # Unknown THEN <<subject>> ELSE << >>
    <3>1. DOMAIN multi \subseteq {1} /\ \A i \in DOMAIN multi : multi[i] = subject
      OBVIOUS
    <3>2. << >> \o multi = multi
      OBVIOUS
    <3>3. subject # << >>
      BY DEF IsValidSubject
    <3> HIDE DEF multi
    <3>4. /\ \A i \in DOMAIN multi : multi[i] # << >> /\ IsValidSubject(multi[i])
          /\ \A i, j \in DOMAIN multi : i = j
      BY <3>1, <3>3
    <3> QED
      BY <3>2, <3>4 DEF Filtered, multi
  <2> QED
    BY <1>3, <1>5, <2>1, FilterValues
<1>12. CheckDeliverPolicy(b) = {}
  <2>1. Value(b, "FilterSubjects") # << >>
    BY <1>3
  <2> QED
    BY <1>1, <2>1, AllReports, SameDeliverPolicy
<1>13. CheckFlowControlHeartbeat(b) = {} /\ CheckDurableName(b) = {}
  BY <1>6 DEF CheckFlowControlHeartbeat, CheckDurableName, Complain
<1> QED
  BY <1>9, <1>10, <1>11, <1>12, <1>13, AllReports

(* An edit makes a pull consumer of a call that is asked for its target,   *)
(* or a push consumer.                                                     *)
LEMMA TargetChosen ==
  ASSUME Made, NEW c \in ByMachine, Call(c).form # "pull", ~Parse(Call(c)).ordered,
         Target(Chosen(c)) \notin {"push", "defer"}
  PROVE  Target(Chosen(c)) = "pull"
<1>1. PICK ans : Read(ans) /\ Chosen(c) = Choices(Decisions(program, ans, c))
  BY ByMachineParts
<1>2. ChoiceFits(Chosen(c), program, c, "target") /\ AsksOf(program, c, "target")
  BY <1>1, ChoiceParts DEF Askable, AsksOf, Call
<1>3. Choices(Decisions(program, ans, c))["target"] \in {"pull", "push", "defer"}
  BY <1>1, <1>2, OptionNames DEF ChoiceFits
<1> QED
  BY <1>1, <1>3 DEF Target

(***************************************************************************)
(* The config that an edit writes sets each field once and is accepted     *)
(* when the legacy one was (buildSubscribe): its fields are those of the   *)
(* legacy config, but for what the kind of consumer drops or adds, and     *)
(* every check of consumerconfig comes out as it did, or has nothing left  *)
(* to look at.                                                             *)
(***************************************************************************)
LEMMA MadeConfigs == Made => ConfigAccepted
<1> SUFFICES ASSUME Made, NEW c \in ByMachine, To(c).config # << >>, ~NotCarried(c),
                    Reports(LegacyConfig(c)) = {}
             PROVE  OnceEach(To(c).config) /\ Reports(ConfigOf(To(c).config)) = {}
  BY DEF ConfigAccepted
<1> DEFINE call == Call(c)
           sc == Parse(call)
           A == RangeOf(sc.fields)
           ch == Chosen(c)
           a == LegacyConfig(c)
           b == ConfigOf(To(c).config)
<1>1. PICK live, k : To(c) = Build(program, live, c, k, Chosen(c))
  BY ByMachineParts
<1>2. "guided" \notin To(c).problems /\ CallFollowed(program, c)
  BY ByMachineParts
<1>3. call.opts \in Seq(RangeOf(call.opts)) /\ call.subject \in PlainSubjects
  BY <1>2 DEF CallFollowed, Call
<1>4. /\ OnceEach(sc.fields) /\ "FilterSubjects" \notin Names(sc.fields)
      /\ ch.ack = "none" => "MaxAckPending" \notin Names(sc.fields)
      /\ ~Sure(a, "MaxWaiting", Negative) /\ ~Sure(a, "MaxRequestBatch", Negative)
  BY DEF NotCarried
<1>5. OptionSet(A, sc)
  BY <1>3, <1>4, OptionsSet
<1>6. IsValidSubject(call.subject)
  BY <1>3 DEF PlainSubjects
<1>7. LET fields == ConfigFields(call, sc, ch) IN
        \/ call.form = "pull" /\ To(c).config = PullConfig(call, sc, fields)
        \/ call.form # "pull" /\ sc.ordered /\ To(c).config = OrderedConfig(fields, call.subject)
        \/ /\ call.form # "pull" /\ ~sc.ordered /\ Target(ch) = "push"
           /\ To(c).config = PushConfig(call, fields)
        \/ /\ call.form # "pull" /\ ~sc.ordered /\ Target(ch) \notin {"push", "defer"}
           /\ To(c).config = Append(fields, Field("FilterSubject", call.subject))
  BY <1>1, <1>2, BuildKinds DEF Call
<1> HIDE DEF A, ch
<1>8. CASE call.form = "pull" /\ To(c).config = PullConfig(call, sc, ConfigFields(call, sc, ch))
  <2>1. Fields(To(c).config, PullSet(A, call, sc))
    BY <1>5, <1>8, PullFields
  <2>2. OnceEach(To(c).config) /\ Gives(b, PullSet(A, call, sc))
    BY <2>1, FieldsConfig
  <2>3. PullOf(b, a)
    BY <1>5, <1>8, <2>2, PullSame
  <2> QED
    BY <1>4, <2>2, <2>3, PullAccepted
<1>9. CASE /\ call.form # "pull" /\ sc.ordered
           /\ To(c).config = OrderedConfig(ConfigFields(call, sc, ch), call.subject)
  <2>1. Fields(To(c).config, OrderedSet(A, call))
    BY <1>5, <1>9, OrderedFieldsOf
  <2>2. OnceEach(To(c).config) /\ Gives(b, OrderedSet(A, call))
    BY <2>1, FieldsConfig
  <2>3. OrderedOf(b, a, call.subject)
    BY <1>5, <1>9, <2>2, OrderedSame
  <2> QED
    BY <1>6, <2>2, <2>3, OrderedAccepted
<1>10. CASE /\ call.form # "pull" /\ ~sc.ordered /\ Target(ch) = "push"
            /\ To(c).config = PushConfig(call, ConfigFields(call, sc, ch))
  <2>1. Fields(To(c).config, PushSet(A, call, ch))
    BY <1>5, <1>10, PushedFields
  <2>2. OnceEach(To(c).config) /\ Gives(b, PushSet(A, call, ch))
    BY <2>1, FieldsConfig
  <2>3. ch.ack = "none" => \A f \in A : f.name # "MaxAckPending"
    BY <1>4 DEF Names, RangeOf, A
  <2>4. PushOf(b, a)
    BY <1>5, <1>10, <2>2, <2>3, PushSame
  <2> QED
    BY <2>2, <2>4, PushAccepted
<1>11. CASE /\ call.form # "pull" /\ ~sc.ordered /\ Target(ch) \notin {"push", "defer"}
            /\ To(c).config = Append(ConfigFields(call, sc, ch), Field("FilterSubject", call.subject))
  <2>1. Target(ch) = "pull"
    BY <1>11, TargetChosen DEF ch
  <2>2. Fields(To(c).config, ConsumerSet(A, call, ch))
    BY <1>5, <1>11, <2>1, ConsumerFields
  <2>3. OnceEach(To(c).config) /\ Gives(b, ConsumerSet(A, call, ch))
    BY <2>2, FieldsConfig
  <2>4. PullOf(b, a)
    BY <1>5, <1>11, <2>3, ConsumerSame
  <2> QED
    BY <1>4, <2>3, <2>4, PullAccepted
<1> QED
  BY <1>7, <1>8, <1>9, <1>10, <1>11 DEF ch

(* The configs of edits are accepted, always.                              *)
THEOREM ConfigAlwaysAccepted == Spec => []ConfigAccepted
<1> QED
  BY AlwaysMade, MadeConfigs, PTL
=============================================================================

------------------------------- MODULE Subjects -------------------------------
(***************************************************************************)
(* Subjects (natsapi/subject.go) and which of them a stream pattern covers *)
(* (subscribe.go).  A subject is a sequence of tokens: "*" matches one     *)
(* token and ">" what is left; a longer token is itself, with "*a" one     *)
(* that begins as a wildcard does; "" is what two dots enclose.            *)
(***************************************************************************)
EXTENDS Naturals, Sequences, FiniteSets

CONSTANTS Words  \* the tokens that are neither wildcards nor empty

(* There are tokens to tell apart. *)
ASSUME WordsAssumption ==
  /\ Words \cap {"*", "*a", ">", ""} = {}
  /\ \A w \in Words : \E v \in Words : v # w
  /\ Words # {}

BeginsPwc(t) == t \in {"*", "*a"}
Wildcards    == {"*", ">"}

(* Tokens are not empty, and only the last is ">". *)
IsValidSubject(s) ==
  s # << >> /\ \A i \in DOMAIN s : s[i] # "" /\ (s[i] = ">" => i = Len(s))

SubjectIsLiteral(s) == \A i \in DOMAIN s : s[i] \notin Wildcards

-----------------------------------------------------------------------------
(* isSubsetMatchTokenized: token i of s is one that token i of t matches,  *)
(* whichever tokens s's stands for.                                        *)
TokenInside(s, t, i) ==
  /\ i <= Len(s) /\ t[i] # "" /\ s[i] \notin {"", ">"}
  /\ IF s[i] = "*" THEN t[i] = "*" ELSE BeginsPwc(t[i]) \/ s[i] = t[i]

SubjectIsSubsetMatch(s, t) ==
  \/ \E i \in DOMAIN t : t[i] = ">" /\ i <= Len(s) /\ \A j \in 1 .. i - 1 : TokenInside(s, t, j)
  \/ Len(s) = Len(t) /\ \A j \in DOMAIN t : t[j] # ">" /\ TokenInside(s, t, j)

TokensCanMatch(a, b) ==
  a # "" /\ b # "" /\ (BeginsPwc(a) \/ BeginsPwc(b) \/ ">" \in {a, b} \/ a = b)

Has(s, token) == \E i \in DOMAIN s : s[i] = token

(* A literal subject collides with what matches it; two with wildcards     *)
(* when their common tokens can match and the shorter ends with ">", or    *)
(* they have as many tokens.                                               *)
SubjectsCollide(s, t) ==
  LET l1 == SubjectIsLiteral(s)  l2 == SubjectIsLiteral(t)
      common == IF Len(s) < Len(t) THEN Len(s) ELSE Len(t) IN
    \/ s = t
    \/ l1 /\ ~l2 /\ SubjectIsSubsetMatch(s, t)
    \/ l2 /\ ~l1 /\ SubjectIsSubsetMatch(t, s)
    \/ /\ ~l1 /\ ~l2
       /\ Len(s) < Len(t) => Has(s, ">")
       /\ Len(t) < Len(s) => Has(t, ">")
       /\ \A i \in 1 .. common : TokensCanMatch(s[i], t[i])

-----------------------------------------------------------------------------
(* Mutant: a ">" of the subject is taken for a token "*" matches. *)
SubjectCoversTail(pat, subj) ==
  \/ \E i \in DOMAIN pat : /\ pat[i] = ">" /\ Len(subj) >= i
                           /\ \A j \in 1 .. i - 1 : pat[j] \in {"*", subj[j]}
  \/ Len(pat) = Len(subj) /\ \A j \in DOMAIN pat : pat[j] # ">" /\ pat[j] \in {"*", subj[j]}

(* subjectCovers: what subj matches, pat matches too. *)
TokenCovered(pat, subj, j) ==
  j <= Len(subj) /\ IF pat[j] = "*" THEN subj[j] # ">" ELSE pat[j] = subj[j]

SubjectCovers(pat, subj) ==
  \/ \E i \in DOMAIN pat : /\ pat[i] = ">" /\ Len(subj) >= i
                           /\ \A j \in 1 .. i - 1 : pat[j] # ">" /\ TokenCovered(pat, subj, j)
  \/ Len(pat) = Len(subj) /\ \A j \in DOMAIN pat : pat[j] # ">" /\ TokenCovered(pat, subj, j)

-----------------------------------------------------------------------------
(* What the server means by it: the subjects of published messages, and    *)
(* those that a subject with wildcards matches.                            *)
Published(n) == UNION {[1 .. k -> Words] : k \in 1 .. n}

Matches(pat, m) ==
  /\ \A i \in DOMAIN pat : i <= Len(m) /\ (pat[i] \in Wildcards \/ pat[i] = m[i])
  /\ Len(pat) < Len(m) => pat[Len(pat)] = ">"

MatchedBy(pat, n) == {m \in Published(n) : Matches(pat, m)}
=============================================================================

-------------------------------- MODULE Listing --------------------------------
(* Lists put together in a loop: what each element gives is appended; and   *)
(* lists put in order.                                                      *)
EXTENDS Naturals, Sequences, FiniteSets

(* The sequences of a sequence, one after the other. *)
Concat(seqs) ==
  LET upTo[i \in 0 .. Len(seqs)] == IF i = 0 THEN << >> ELSE upTo[i - 1] \o seqs[i]
  IN  upTo[Len(seqs)]

(* The elements of a sequence that are to be kept, in its order. *)
Filter(seq, keep(_)) == Concat([i \in DOMAIN seq |-> IF keep(seq[i]) THEN <<seq[i]>> ELSE << >>])

(* The elements of a sequence in order; those of which none is ahead of    *)
(* the other keep their order.                                             *)
Sort(seq, ahead(_, _)) ==
  LET First(j, i) == ahead(seq[j], seq[i]) \/ (~ahead(seq[i], seq[j]) /\ j < i)
      Rank(i) == Cardinality({j \in DOMAIN seq : First(j, i)})
  IN  Concat([k \in DOMAIN seq |-> <<seq[CHOOSE i \in DOMAIN seq : Rank(i) = k - 1]>>])
=============================================================================

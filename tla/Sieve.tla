------------------------------- MODULE Sieve -------------------------------
EXTENDS Naturals, Sequences

(* erase(remove_if(..)): what is left of seq, in its order, when only the  *)
(* elements at the places in keep stay.                                    *)
Sifted(seq, keep) ==
  LET upTo[n \in 0..Len(seq)] ==
        IF n = 0 THEN <<>>
        ELSE IF n \in keep THEN Append(upTo[n - 1], seq[n]) ELSE upTo[n - 1]
  IN  upTo[Len(seq)]
============================================================================

------------------------------- MODULE Subsequences --------------------------------
(*****************************************************************************)
(* What is left of a sequence when some of its positions are dropped.  It    *)
(* says what SelectSeq says, of positions instead of a test, and as a        *)
(* recursive function.                                                       *)
(*****************************************************************************)
EXTENDS Integers, Sequences

(* The members of s at the positions in kept, in their order.                *)
Kept(s, kept) ==
    LET upTo[n \in 0..Len(s)] ==
            IF n = 0 THEN <<>>
            ELSE IF n \in kept THEN Append(upTo[n - 1], s[n])
            ELSE upTo[n - 1]
    IN  upTo[Len(s)]
=============================================================================

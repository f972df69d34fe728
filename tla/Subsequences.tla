---------------------------- MODULE Subsequences ----------------------------
(***************************************************************************)
(* The elements of a sequence at some of its positions, in their order:    *)
(* what Array.prototype.filter returns, with the positions that pass given *)
(* as a set.  SelectSeq and the folds take an operator, and nothing can be *)
(* proved here about an operator that does.                                *)
(***************************************************************************)
EXTENDS Integers, Sequences

Picked(s, positions) ==
    LET upTo[n \in 0 .. Len(s)] ==
            IF n = 0 THEN <<>>
            ELSE IF n \in positions THEN Append(upTo[n - 1], s[n])
            ELSE upTo[n - 1]
    IN upTo[Len(s)]
=============================================================================

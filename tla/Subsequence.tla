---------------------------- MODULE Subsequence ----------------------------
(***************************************************************************)
(* A sequence without some of its elements, the others in their order:     *)
(* what message_buf_remove_topic leaves in the ring, a DELETE in a table   *)
(* and a SELECT gives.                                                     *)
(***************************************************************************)
EXTENDS Naturals, Sequences

(* What is kept of the first i elements, for every i. *)
KeptUpTo(s, K) ==
    LET upTo[i \in 0 .. Len(s)] ==
            IF i = 0 THEN <<>>
            ELSE IF i \in K THEN Append(upTo[i - 1], s[i]) ELSE upTo[i - 1]
    IN  upTo

(* The elements of s at the positions in K. *)
Kept(s, K) == KeptUpTo(s, K)[Len(s)]
=============================================================================

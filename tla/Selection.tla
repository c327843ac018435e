------------------------------ MODULE Selection ------------------------------
(***************************************************************************)
(* What Vec::retain and Iterator::filter leave of a sequence, which the    *)
(* lists and queues of the UI thread are thinned out with.  SelectSeq      *)
(* takes an operator; with a set the facts about it can be proved          *)
(* (Selection_proofs).                                                     *)
(***************************************************************************)
EXTENDS Naturals, Sequences

(* The elements of s that are in S, in their order.                         *)
Only(s, S) ==
  LET kept[i \in 0 .. Len(s)] ==
        IF i = 0 THEN <<>>
        ELSE IF s[i] \in S THEN Append(kept[i - 1], s[i]) ELSE kept[i - 1]
  IN kept[Len(s)]
=============================================================================

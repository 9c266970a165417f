----------------------------- MODULE Selection -----------------------------
(***************************************************************************)
(* The part of a sequence that matters: SelectSeq for a set, as a function *)
(* of the length read, so that it can be proved about (SelectionProofs).   *)
(***************************************************************************)
EXTENDS Integers, Sequences

(* the elements of s that are in S, in their order *)
Among(s, S) ==
  LET read[n \in 0..Len(s)] ==
        IF n = 0 THEN <<>>
        ELSE IF s[n] \in S THEN Append(read[n - 1], s[n]) ELSE read[n - 1]
  IN  read[Len(s)]
=============================================================================

-------------------------------- MODULE Lists --------------------------------
(****************************************************************************)
(* What list comprehensions do to the lists of the history.                 *)
(****************************************************************************)
EXTENDS Integers, Sequences

\* [x for x in s if x not in S].  (Not by SelectSeq, of which the provers know
\* nothing.)
Without(s, S) ==
  LET kept[n \in 0..Len(s)] ==
        IF n = 0 THEN <<>>
        ELSE IF s[n] \in S THEN kept[n - 1] ELSE Append(kept[n - 1], s[n])
  IN  kept[Len(s)]
=============================================================================

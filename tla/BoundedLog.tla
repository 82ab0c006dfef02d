----------------------------- MODULE BoundedLog -----------------------------
(***************************************************************************)
(* What a history of NetCheck promises: the newest Keep reports or repairs,*)
(* in the order in which they came, less those that were deleted.  A disk  *)
(* error may leave the new one out, may leave more than Keep, and may leave*)
(* a part of what was to be cleared; the repairs do better (FailureKeeps). *)
(***************************************************************************)
EXTENDS Lists

CONSTANTS Items, Keep

VARIABLES log, failed   \* the reports; whether the last operation failed

Last(s, n) == SubSeq(s, IF Len(s) > n THEN Len(s) - n + 1 ELSE 1, Len(s))

Init == log \in Seq(Items) /\ Len(log) <= Keep /\ failed = FALSE

Add(x) == log' = Last(Append(log, x), Keep) /\ failed' = FALSE

Delete(x) == log' = Without(log, {x}) /\ failed' = FALSE

Clear == log' = <<>> /\ failed' = FALSE

Fail ==
  /\ failed' = TRUE
  /\ \/ UNCHANGED log
     \/ \E x \in Items, n \in Keep..(Len(log) + 1) : log' = Last(Append(log, x), n)
     \/ \E S \in SUBSET Items : log' = Without(log, S)

Next == (\E x \in Items : Add(x) \/ Delete(x)) \/ Clear \/ Fail

Spec == Init /\ [][Next]_<<log, failed>>
=============================================================================

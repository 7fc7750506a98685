----------------------------- MODULE BoundedLog -----------------------------
(* What a ring buffer promises: the last Size events, oldest first.        *)
EXTENDS Integers, Sequences

CONSTANTS Events, Size

VARIABLE recent

LastOf(seq, n) == IF Len(seq) <= n THEN seq ELSE SubSeq(seq, Len(seq) - n + 1, Len(seq))

Init   == recent = <<>>
Add(e) == recent' = LastOf(Append(recent, e), Size)
Next   == \E e \in Events : Add(e)

Spec == Init /\ [][Next]_recent
=============================================================================

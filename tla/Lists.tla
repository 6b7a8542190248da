------------------------------- MODULE Lists -------------------------------
(***************************************************************************)
(* The linked lists of the firmware as sequences: what is in one, that it  *)
(* holds nothing twice, and linking and unlinking at a position.           *)
(***************************************************************************)
EXTENDS Integers, Sequences

InList(s) == { s[i] : i \in 1 .. Len(s) }
Distinct(s) == \A i, j \in 1 .. Len(s) : s[i] = s[j] => i = j

Position(s, x) == CHOOSE i \in 1 .. Len(s) : s[i] = x
InsertAfter(s, k, x) == SubSeq(s, 1, k) \o <<x>> \o SubSeq(s, k + 1, Len(s))
Without(s, k) == SubSeq(s, 1, k - 1) \o SubSeq(s, k + 1, Len(s))

=============================================================================

----------------------------- MODULE IdlestKeys -----------------------------
(***************************************************************************)
(* What the eviction pool promises: of the candidates it was offered it    *)
(* keeps the Size with the highest score, in ascending order.              *)
(***************************************************************************)
EXTENDS Integers, Sequences

CONSTANTS Size, Candidate   \* candidates are records with a field idle

VARIABLE best

Init == best = <<>>

(* The list without its first element, if it is too long. *)
Cut(s) == IF Len(s) > Size THEN Tail(s) ELSE s

(* c is put before the first candidate that is at least as idle. *)
Offer(c) ==
  \E n \in 0 .. Len(best) :
    /\ \A i \in 1 .. n : best[i].idle < c.idle
    /\ \A i \in n + 1 .. Len(best) : best[i].idle >= c.idle
    /\ best' = Cut(SubSeq(best, 1, n) \o <<c>> \o SubSeq(best, n + 1, Len(best)))

Next == \E c \in Candidate : Offer(c)

Spec == Init /\ [][Next]_best
=============================================================================

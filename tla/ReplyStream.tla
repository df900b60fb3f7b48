---------------------------- MODULE ReplyStream ----------------------------
(***************************************************************************)
(* What the reply list of a connection promises: every handler adds one    *)
(* complete RESP reply behind what is queued, and the socket is given what *)
(* is queued from the front.                                               *)
(***************************************************************************)
EXTENDS Integers, Sequences

CONSTANTS EOL, PLUS, MINUS, COLON, DOLLAR, STAR

VARIABLE pending

Init == pending = <<>>

EndsAt(r) == {i \in 1 .. Len(r) : r[i] = EOL}

(* A status, an error or a number: one line. *)
IsLine(r) == r[1] \in {PLUS, MINUS, COLON} /\ EndsAt(r) = {Len(r)}

(* A text preceded by its length. *)
IsBulk(r) ==
  /\ Len(r) >= 4
  /\ r[1] = DOLLAR /\ r[3] = EOL
  /\ r[2] = Len(r) - 4
  /\ r[Len(r)] = EOL

(* How many lines r is. *)
LineCount(r) ==
  LET upto[i \in 0 .. Len(r)] == IF i = 0 THEN 0 ELSE upto[i - 1] + (IF r[i] = EOL THEN 1 ELSE 0)
  IN  upto[Len(r)]

(* An array of lines preceded by their number, or the null array. *)
IsArray(r) ==
  /\ Len(r) >= 3
  /\ r[1] = STAR /\ r[3] = EOL
  /\ \/ r[2] = -1 /\ Len(r) = 3
     \/ /\ r[2] = LineCount(r) - 1
        /\ r[Len(r)] = EOL
        /\ \A i \in EndsAt(r) : i < Len(r) => r[i + 1] \in {PLUS, MINUS, COLON}

IsReply(r) == r # <<>> /\ (IsLine(r) \/ IsBulk(r) \/ IsArray(r))

Respond ==
  /\ Len(pending') > Len(pending)
  /\ SubSeq(pending', 1, Len(pending)) = pending
  /\ IsReply(SubSeq(pending', Len(pending) + 1, Len(pending')))

Write ==
  \E n \in 1 .. Len(pending) : pending' = SubSeq(pending, n + 1, Len(pending))

Next == Respond \/ Write

Spec == Init /\ [][Next]_pending
=============================================================================

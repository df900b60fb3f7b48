----------------------------- MODULE RespStream -----------------------------
(***************************************************************************)
(* What the request parser promises: it turns a stream into commands as if *)
(* the whole stream were there from the start.  There are no reads, no     *)
(* query buffer and no incomplete request here; what is executed is a      *)
(* function of the stream alone.                                           *)
(***************************************************************************)
EXTENDS Integers, Sequences

CONSTANTS Streams, KnownNames, QuitName, MaxMultiBulk, MaxBulk, sds_split_args(_)

VARIABLES
  stream,     \* what the peer sends
  pos,        \* how much of it is turned into requests
  type,       \* how the symbols after pos are read
  need,       \* arguments the current request still lacks
  argv, executed, closing,
  phase,      \* "parse" or "run"
  proc

vars == <<stream, pos, type, need, argv, executed, closing, phase, proc>>

INLINE == 1
MULTIBULK == 2

(* A request is of the multibulk kind when it starts with '*'. *)
TypeAt(p) ==
  IF p \in 0 .. Len(stream) - 1 /\ stream[p + 1].t = "*" THEN MULTIBULK ELSE INLINE

Length(p, t) == p + 3 <= Len(stream) /\ stream[p + 1].t = t /\ stream[p + 2].t = "CR"

Init ==
  /\ stream \in Streams
  /\ pos = 0 /\ type = TypeAt(0) /\ need = 0
  /\ argv = <<>> /\ executed = <<>>
  /\ closing = "no" /\ phase = "parse" /\ proc = "up"

Parsing(t) == proc = "up" /\ phase = "parse" /\ closing = "no" /\ type = t

(* A line of words. *)
Line(p) ==
  /\ Parsing(INLINE)
  /\ p \in pos + 1 .. Len(stream)
  /\ stream[p].t = "LF"
  /\ \A i \in pos + 1 .. p - 1 : stream[i].t # "LF" /\ stream[i].t # "QUOTE"
  /\ argv' = sds_split_args(SubSeq(stream, pos + 1,
               IF p - 1 > pos /\ stream[p - 1].t = "CR" THEN p - 2 ELSE p - 1))
  /\ pos' = p
  /\ phase' = "run"
  /\ UNCHANGED <<stream, type, need, executed, closing, proc>>

(* The header of a multibulk request, then its arguments one by one. *)
Header ==
  /\ Parsing(MULTIBULK) /\ need = 0 /\ argv = <<>>
  /\ Length(pos, "*") /\ stream[pos + 1].n <= MaxMultiBulk
  /\ pos' = pos + 3
  /\ IF stream[pos + 1].n <= 0
       THEN phase' = "run" /\ need' = need
       ELSE phase' = phase /\ need' = stream[pos + 1].n
  /\ UNCHANGED <<stream, type, argv, executed, closing, proc>>

Argument ==
  /\ Parsing(MULTIBULK) /\ need # 0
  /\ Length(pos, "$") /\ stream[pos + 1].n \in 0 .. MaxBulk
  /\ pos + 3 + stream[pos + 1].n + 2 <= Len(stream)
  /\ argv' = Append(argv, SubSeq(stream, pos + 4, pos + 3 + stream[pos + 1].n))
  /\ pos' = pos + 3 + stream[pos + 1].n + 2
  /\ need' = need - 1
  /\ phase' = IF need' = 0 THEN "run" ELSE "parse"
  /\ UNCHANGED <<stream, type, executed, closing, proc>>

(* A request that follows one that was not reset, or that does not start   *)
(* with '*', stops the server.                                             *)
Abort ==
  /\ Parsing(MULTIBULK) /\ need = 0
  /\ pos < Len(stream)
  /\ argv = <<>> => stream[pos + 1].t # "*"
  /\ proc' = "aborted"
  /\ UNCHANGED <<stream, pos, type, need, argv, executed, closing, phase>>

Run ==
  /\ proc = "up" /\ phase = "run"
  /\ phase' = "parse"
  /\ IF argv # <<>> /\ argv[1] \notin KnownNames
       THEN UNCHANGED <<type, argv, executed, closing>>
       ELSE /\ executed' = IF argv = <<>> THEN executed ELSE Append(executed, argv)
            /\ closing' = IF argv # <<>> /\ argv[1] = QuitName THEN "yes" ELSE closing
            /\ argv' = <<>>
            /\ type' = TypeAt(pos)
  /\ UNCHANGED <<stream, pos, need, proc>>

Next == (\E p \in 1 .. Len(stream) : Line(p)) \/ Header \/ Argument \/ Abort \/ Run

Spec == Init /\ [][Next]_vars
=============================================================================

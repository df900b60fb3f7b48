----------------------------- MODULE RespScript -----------------------------
(***************************************************************************)
(* What RespClient owes a peer that keeps to the protocol.  Such a peer    *)
(* sends a script: a sequence of requests, each a sequence of arguments.   *)
(* A request is its number of arguments on a line and then, for every      *)
(* argument, its length on a line, its symbols and a line end.             *)
(***************************************************************************)
EXTENDS RespClient

CONSTANT Script     \* the script each well-formed stream carries

(* Where the first j arguments of a request end, from its start. *)
ArgsEnd(req) ==
  LET at[j \in 0 .. Len(req)] == IF j = 0 THEN 3 ELSE at[j - 1] + (Len(req[j]) + 5)
  IN  at

(* Where the first i requests of a script end. *)
RequestsEnd(script) ==
  LET at[i \in 0 .. Len(script)] ==
        IF i = 0 THEN 0 ELSE at[i - 1] + ArgsEnd(script[i])[Len(script[i])]
  IN  at

(* A length line behind the first p symbols.  The symbol after its CR is   *)
(* not looked at, and neither are the two after an argument.               *)
LengthLine(s, p, type, n) ==
  s[p + 1].t = type /\ s[p + 1].n = n /\ s[p + 2].t = "CR"

Argument(s, p, arg) ==
  /\ LengthLine(s, p, "$", Len(arg))
  /\ SubSeq(s, p + 4, p + 3 + Len(arg)) = arg

Carries(s, script) ==
  /\ Len(s) = RequestsEnd(script)[Len(script)]
  /\ \A i \in 1 .. Len(script) :
       LET start == RequestsEnd(script)[i - 1]
           req == script[i]
       IN  /\ LengthLine(s, start, "*", Len(req))
           /\ \A j \in 1 .. Len(req) : Argument(s, start + ArgsEnd(req)[j - 1], req[j])

(* A request that is within the limits and names a command. *)
IsRequest(req) ==
  /\ req \in Seq(Seq(Symbol)) /\ Len(req) <= MaxMultiBulk
  /\ \A j \in 1 .. Len(req) : Len(req[j]) <= MaxBulk
  /\ req # <<>> => req[1] \in KnownNames

ASSUME ScriptAssumption ==
  \A s \in DOMAIN Script :
    /\ Script[s] \in Seq(Seq(Seq(Symbol)))
    /\ \A i \in 1 .. Len(Script[s]) : IsRequest(Script[s][i])
    /\ Carries(s, Script[s])

(* What the first i requests of a script make the server execute: each of  *)
(* them, without the empty ones and those behind a QUIT.                   *)
Quits(req) == req # <<>> /\ req[1] = QuitName
QuitWithin(script, i) == \E k \in 1 .. i : Quits(script[k])

Effect(script) ==
  LET done[i \in 0 .. Len(script)] ==
        IF i = 0 THEN <<>>
        ELSE IF script[i] = <<>> \/ QuitWithin(script, i - 1) THEN done[i - 1]
             ELSE Append(done[i - 1], script[i])
  IN  done

WellFormed == stream \in DOMAIN Script
-----------------------------------------------------------------------------
(* Commands are executed with the arguments and in the order in which the  *)
(* peer sent them, none twice and none made up, however the stream is cut  *)
(* into reads (client.c:208-353, 359-443).                                 *)
ExecutedInOrder ==
  WellFormed => \E i \in 0 .. Len(Script[stream]) : executed = Effect(Script[stream])[i]

(* When all of the stream was read and the handler is done, every request  *)
(* of it was executed: no complete request waits in querybuf for bytes     *)
(* that never come.                                                        *)
NothingLeftBehind ==
  WellFormed /\ pc = "idle" /\ delivered = Len(stream)
    => executed = Effect(Script[stream])[Len(Script[stream])]

(* Every request is eventually executed, and the handler always returns to *)
(* the event loop.                                                         *)
AllExecuted ==
  <>[](WellFormed =>
         pc = "idle" /\ executed = Effect(Script[stream])[Len(Script[stream])])
=============================================================================

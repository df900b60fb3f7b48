--------------------------- MODULE MCRespClient ---------------------------
(***************************************************************************)
(* Small streams for RespClient: what a peer puts on the wire for a list   *)
(* of requests, well formed or not.                                        *)
(***************************************************************************)
EXTENDS RespScript, SequencesExt, TLC

Star(n) == [t |-> "*", n |-> n]
Dollar(n) == [t |-> "$", n |-> n]
CR == [t |-> "CR", n |-> 0]
LF == [t |-> "LF", n |-> 0]
D(i) == [t |-> "D", n |-> i]
QUOTE == [t |-> "QUOTE", n |-> 0]

Cmd == <<D(1)>>
Quit == <<D(2)>>
Unknown == <<D(3)>>
Names == {Cmd, Quit}

(* sds_split_args: one argument per word; a CR is white space. *)
SplitArgs(line) == LET w == SelectSeq(line, LAMBDA s : s.t # "CR")
                   IN [i \in 1 .. Len(w) |-> <<w[i]>>]

Bulk(arg) == <<Dollar(Len(arg)), CR, LF>> \o arg \o <<CR, LF>>
Frame(req) == <<Star(Len(req)), CR, LF>>
  \o FlattenSeq([i \in 1 .. Len(req) |-> Bulk(req[i])])
Encode(script) == FlattenSeq([i \in 1 .. Len(script) |-> Frame(script[i])])

(* Requests without arguments, with an empty one, with one that looks like *)
(* the end of a line and is big, and one that ends the connection.         *)
Requests == {<<>>, <<Cmd>>, <<Cmd, <<CR, LF>>>>, <<Cmd, <<D(1), CR, LF>>, <<>>>>, <<Quit>>}
ScriptsUpTo(n) == UNION {[1 .. k -> Requests] : k \in 1 .. n}
Scripts == ScriptsUpTo(3)

ScriptStreams == {Encode(s) : s \in Scripts}
ScriptOf == [st \in ScriptStreams |-> CHOOSE s \in Scripts : Encode(s) = st]
Sent == ScriptOf

NoGarbage == {1}
AnyGarbage == {0, 1, 2}
Sign == -1

(* Streams the parser rejects at each of its checks, inline requests,      *)
(* unknown commands, and each of them followed by a valid request.         *)
Inline(words) == words \o <<CR, LF>>
Faulty == {
  Frame(<<Cmd>>),
  <<Star(9), CR, LF>>, <<Star(Sign), CR, LF>>, <<Star(1), D(1), CR, LF>>,
  <<Star(1), CR, LF, D(1), CR, LF>>, <<Star(1), CR, LF, Dollar(Sign), CR, LF>>,
  <<Star(2), CR, LF, Dollar(9), CR, LF>>, <<Star(1), CR, LF, Dollar(1), D(1), CR, LF>>,
  <<Star(1), D(1), D(1), D(1), D(1)>>,
  <<Star(1), CR, LF, Dollar(1), D(1), D(1), D(1), D(1)>>,
  Inline(<<D(1), D(3)>>), Inline(<<D(2)>>), Inline(<<D(1), QUOTE>>), Inline(<<>>),
  <<D(1), D(1), D(1), D(1), D(1), D(1), LF>>,
  Frame(<<Unknown>>), Inline(<<D(3)>>), Frame(<<Quit>>)}
FaultyThenValid == Faulty \cup {f \o Frame(<<Cmd, Cmd>>) : f \in Faulty}
FaultyStreams == {f \o g : f \in Faulty, g \in Faulty}
AllStreams == ScriptStreams \cup FaultyStreams
UnknownThenKnown == {Frame(<<Unknown>>) \o Frame(<<Cmd>>), Frame(<<Cmd>>) \o Frame(<<Cmd>>)}
InlineScript == {Inline(<<D(1)>>) \o Inline(<<D(1), D(1)>>)}

(* An inline request starts where the line before it ended: the words of   *)
(* the two lines are executed as two commands (client.c:180).              *)
InlineLinesInOrder == IsPrefix(executed, <<<<Cmd>>, <<Cmd, Cmd>>>>)
=============================================================================

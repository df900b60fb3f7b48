----------------------------- MODULE RespClient -----------------------------
(***************************************************************************)
(* The request parser of one connection (client.c): the event loop reads   *)
(* whatever part of the peer's byte stream has arrived, appends it to      *)
(* querybuf and runs redis_process_input_buffer, which parses and executes *)
(* as many requests as are complete and leaves the rest for the next read. *)
(*                                                                         *)
(* The stream is a sequence of symbols.  The start of a length line, "*n"  *)
(* or "$n", is one symbol with its number; CR, LF, a payload byte, a word  *)
(* of an inline request and an unbalanced quote are one symbol each.  A    *)
(* number that string2ll rejects is one that is out of range: the code     *)
(* answers both alike.  querybuf is the part of the stream from base up    *)
(* to delivered, so that trimming it moves base.                           *)
(*                                                                         *)
(* The handler is split into the steps of its loops; pc makes them follow  *)
(* each other, and no other step happens before pc is "idle" again.        *)
(***************************************************************************)
EXTENDS Integers, Sequences

CONSTANTS
  Streams,          \* the symbol sequences a peer may send
  KnownNames,       \* first arguments that command_manager_lookup finds
  QuitName,         \* the one of them that is QUIT
  MaxMultiBulk,     \* 1024*1024, largest number of arguments
  MaxBulk,          \* proto_max_bulk_len
  BigArg,           \* PROTO_MBULK_BIG_ARG
  InlineMax,        \* PROTO_INLINE_MAX_SIZE
  sds_split_args(_),\* the words of a line (library function)
  LinefeedGarbage,  \* values the uninitialised linefeed_chars may hold
  MaxConnections    \* bound on the number of connections in a behaviour

Symbol == [t : {"*", "$", "CR", "LF", "D", "QUOTE"}, n : Int]

ASSUME RespAssumption ==
  /\ Streams \subseteq Seq(Symbol)
  /\ MaxMultiBulk \in Nat /\ MaxBulk \in Nat /\ BigArg \in Nat
  /\ InlineMax \in Nat /\ InlineMax >= 2
  /\ LinefeedGarbage \subseteq Int
  /\ MaxConnections \in Nat
  /\ \A s \in Streams : \A i, j \in 0 .. Len(s) :
       sds_split_args(SubSeq(s, i + 1, j)) \in Seq(Seq(Symbol))

VARIABLES
  stream,           \* what the peer of this connection sends
  delivered,        \* how much of it was read from the socket
  base,             \* where in the stream querybuf starts
  qb_pos,           \* parse position in querybuf
  req_type, multi_bulk_len, bulk_len,
  argv,             \* arguments parsed so far; argc is its length
  argv_size,        \* number of pointers the argv array has room for
  closing,          \* client.flags has CLIENT_CLOSE_AFTER_REPLY
  executed,         \* the commands run on this connection, in order
  err,              \* the last protocol error answered on this connection
  connections,      \* connections accepted so far
  pc,               \* place in the handler
  proc              \* "up", or "aborted" once an assertion failed

conn == <<stream, connections>>
buffer == <<delivered, base, qb_pos>>
request == <<req_type, multi_bulk_len, bulk_len, argv, argv_size>>
outcome == <<closing, executed, err>>
vars == <<conn, buffer, request, outcome, pc, proc>>

NONE == 0
PROTO_REQ_INLINE == 1
PROTO_REQ_MULTIBULK == 2

(* The stream index of the last symbol that was parsed, and the symbol     *)
(* parsed next.                                                            *)
Parsed == base + qb_pos
Unparsed == delivered - Parsed

(* strchr(querybuf + qb_pos, '\r') finds nothing; finds one with at least  *)
(* one symbol after it; and the line it ends is a single length symbol.    *)
NoCR == \A i \in Parsed + 1 .. delivered : stream[i].t # "CR"
HasLine == \E i \in Parsed + 1 .. delivered - 1 : stream[i].t = "CR"
LineIsLength(type) == stream[Parsed + 1].t = type /\ stream[Parsed + 2].t = "CR"
LengthRead == stream[Parsed + 1].n
ValidHeader == LineIsLength("*") /\ LengthRead <= MaxMultiBulk
ValidBulkLen == LineIsLength("$") /\ LengthRead \in 0 .. MaxBulk

Init ==
  /\ stream \in Streams
  /\ delivered = 0 /\ base = 0 /\ qb_pos = 0
  /\ req_type = NONE /\ multi_bulk_len = 0 /\ bulk_len = -1
  /\ argv = <<>> /\ argv_size = 0
  /\ closing = "no" /\ executed = <<>> /\ err = "none"
  /\ connections = 1
  /\ pc = "idle" /\ proc = "up"

-----------------------------------------------------------------------------
(* The event loop reads from the socket and calls redis_client_handle. *)
Read(n) ==
  /\ proc = "up" /\ pc = "idle"
  /\ delivered + n <= Len(stream)
  /\ delivered' = delivered + n
  /\ pc' = "loop"
  /\ UNCHANGED <<conn, base, qb_pos, request, outcome, proc>>

(* The loop of redis_process_input_buffer ends: everything is parsed, or   *)
(* the client is closing.                                                  *)
LoopEnd ==
  /\ proc = "up" /\ pc = "loop"
  /\ Unparsed <= 0 \/ closing = "yes"
  /\ pc' = "end"
  /\ UNCHANGED <<conn, buffer, request, outcome, proc>>

(* Variant: the type is taken anew on every read. *)
RequestType_again ==
  IF stream[Parsed + 1].t = "*" THEN PROTO_REQ_MULTIBULK ELSE PROTO_REQ_INLINE

(* The request type is taken from the first symbol, if none is set. *)
RequestType ==
  IF req_type # NONE THEN req_type
  ELSE IF stream[Parsed + 1].t = "*" THEN PROTO_REQ_MULTIBULK ELSE PROTO_REQ_INLINE

(* Variant: a closing client is served on. *)
LoopBody_closing(type) ==
  /\ proc = "up" /\ pc = "loop"
  /\ Unparsed > 0
  /\ RequestType = type
  /\ req_type' = type

(* The loop body starts on a request of the given type. *)
LoopBody(type) ==
  /\ proc = "up" /\ pc = "loop"
  /\ Unparsed > 0 /\ closing = "no"
  /\ RequestType = type
  /\ req_type' = type

(* The loop is left to wait for the next read, with or without an error    *)
(* reply.  set_protocol_error only logs: the connection stays open.        *)
Break(e) ==
  /\ pc' = "end"
  /\ err' = IF e = "none" THEN err ELSE e
  /\ UNCHANGED <<conn, buffer, multi_bulk_len, bulk_len, argv, argv_size, closing, executed, proc>>
-----------------------------------------------------------------------------
(* process_inline_buffer *)

InlineIncomplete ==
  /\ LoopBody(PROTO_REQ_INLINE)
  /\ \A i \in Parsed + 1 .. delivered : stream[i].t # "LF"
  /\ Break(IF Unparsed > InlineMax THEN "too big inline request" ELSE "none")

FirstLF(p) ==
  /\ p \in Parsed + 1 .. delivered
  /\ stream[p].t = "LF"
  /\ \A i \in Parsed + 1 .. p - 1 : stream[i].t # "LF"

(* query_len: the line without its LF and without a CR before it. *)
QueryLen(p) ==
  LET n == p - 1 - Parsed
  IN IF n > 0 /\ stream[p - 1].t = "CR" THEN n - 1 ELSE n

(* sds_split_args returns NULL: the quotes of the line are not balanced. *)
InlineUnbalanced(p) ==
  /\ LoopBody(PROTO_REQ_INLINE)
  /\ FirstLF(p)
  /\ \E i \in Parsed + 1 .. Parsed + QueryLen(p) : stream[i].t = "QUOTE"
  /\ Break("unbalanced quotes in request")

(* linefeed_chars is never given a first value.  A sum outside querybuf    *)
(* ends the loop, and the caller then trims the whole buffer.              *)
InlineRequest(p) ==
  /\ LoopBody(PROTO_REQ_INLINE)
  /\ FirstLF(p)
  /\ \A i \in Parsed + 1 .. Parsed + QueryLen(p) : stream[i].t # "QUOTE"
  /\ \E g \in LinefeedGarbage :
       LET crlf == IF QueryLen(p) < p - 1 - Parsed THEN 1 ELSE 0
           q == qb_pos + QueryLen(p) + g + crlf
       IN qb_pos' = IF q \in 0 .. delivered - base THEN q ELSE delivered - base
  /\ argv' = sds_split_args(SubSeq(stream, Parsed + 1, Parsed + QueryLen(p)))
  /\ argv_size' = IF Len(argv') > 0 THEN Len(argv') ELSE argv_size
  /\ pc' = "run"
  /\ UNCHANGED <<conn, delivered, base, multi_bulk_len, bulk_len, outcome, proc>>
-----------------------------------------------------------------------------
(* process_multibulk_buffer: the header *)

(* latte_assert_with_info(rc->argc == 0): a request starts while the       *)
(* arguments of an earlier one are still there.                            *)
HeaderNotReset ==
  /\ LoopBody(PROTO_REQ_MULTIBULK)
  /\ multi_bulk_len = 0 /\ argv # <<>>
  /\ proc' = "aborted"
  /\ UNCHANGED <<conn, buffer, multi_bulk_len, bulk_len, argv, argv_size, outcome, pc>>

HeaderIncomplete ==
  /\ LoopBody(PROTO_REQ_MULTIBULK)
  /\ multi_bulk_len = 0 /\ argv = <<>>
  /\ ~HasLine
  /\ Break(IF NoCR /\ Unparsed > InlineMax THEN "too big mbulk count string" ELSE "none")

(* The assertion that the line starts with '*'. *)
HeaderNotStar ==
  /\ LoopBody(PROTO_REQ_MULTIBULK)
  /\ multi_bulk_len = 0 /\ argv = <<>>
  /\ HasLine
  /\ stream[Parsed + 1].t # "*"
  /\ proc' = "aborted"
  /\ UNCHANGED <<conn, buffer, multi_bulk_len, bulk_len, argv, argv_size, outcome, pc>>

(* Variant: the line with the invalid length is skipped. *)
HeaderInvalid_skip ==
  /\ LoopBody(PROTO_REQ_MULTIBULK)
  /\ multi_bulk_len = 0 /\ argv = <<>>
  /\ HasLine
  /\ LineIsLength("*") /\ ~ValidHeader
  /\ qb_pos' = qb_pos + 3 /\ err' = "invalid multibulk length" /\ pc' = "run"
  /\ UNCHANGED <<conn, delivered, base, multi_bulk_len, bulk_len, argv, argv_size,
                  closing, executed, proc>>

HeaderInvalid ==
  /\ LoopBody(PROTO_REQ_MULTIBULK)
  /\ multi_bulk_len = 0 /\ argv = <<>>
  /\ HasLine
  /\ stream[Parsed + 1].t = "*"
  /\ ~ValidHeader
  /\ Break("invalid multibulk length")

(* Variants: only zero is a request without arguments; an argv array that  *)
(* exists is used again.                                                   *)
HeaderRead_zero ==
  /\ LoopBody(PROTO_REQ_MULTIBULK)
  /\ multi_bulk_len = 0 /\ argv = <<>>
  /\ HasLine /\ ValidHeader
  /\ qb_pos' = qb_pos + 3
  /\ IF LengthRead = 0
       THEN pc' = "run" /\ UNCHANGED <<multi_bulk_len, argv_size>>
       ELSE pc' = "args" /\ multi_bulk_len' = LengthRead /\ argv_size' = LengthRead
  /\ UNCHANGED <<conn, delivered, base, bulk_len, argv, outcome, proc>>

HeaderRead_reuse ==
  /\ LoopBody(PROTO_REQ_MULTIBULK)
  /\ multi_bulk_len = 0 /\ argv = <<>>
  /\ HasLine /\ ValidHeader
  /\ qb_pos' = qb_pos + 3
  /\ IF LengthRead <= 0
       THEN pc' = "run" /\ UNCHANGED <<multi_bulk_len, argv_size>>
       ELSE /\ pc' = "args" /\ multi_bulk_len' = LengthRead
            /\ argv_size' = IF argv_size = 0 THEN LengthRead ELSE argv_size
  /\ UNCHANGED <<conn, delivered, base, bulk_len, argv, outcome, proc>>

(* A length of zero or less is a request without arguments. *)
HeaderRead ==
  /\ LoopBody(PROTO_REQ_MULTIBULK)
  /\ multi_bulk_len = 0 /\ argv = <<>>
  /\ HasLine
  /\ ValidHeader
  /\ qb_pos' = qb_pos + 3
  /\ IF LengthRead <= 0
       THEN pc' = "run" /\ UNCHANGED <<multi_bulk_len, argv_size>>
       ELSE pc' = "args" /\ multi_bulk_len' = LengthRead /\ argv_size' = LengthRead
  /\ UNCHANGED <<conn, delivered, base, bulk_len, argv, outcome, proc>>

HeaderAlreadyRead ==
  /\ LoopBody(PROTO_REQ_MULTIBULK)
  /\ multi_bulk_len # 0
  /\ pc' = "args"
  /\ UNCHANGED <<conn, buffer, multi_bulk_len, bulk_len, argv, argv_size, outcome, proc>>
-----------------------------------------------------------------------------
(* process_multibulk_buffer: the loop over the arguments *)

ArgLoop == proc = "up" /\ pc = "args" /\ UNCHANGED req_type

BulkLenIncomplete ==
  /\ ArgLoop /\ bulk_len = -1
  /\ ~HasLine
  /\ Break(IF NoCR /\ Unparsed > InlineMax THEN "too big bulk count string" ELSE "none")

BulkLenInvalid ==
  /\ ArgLoop /\ bulk_len = -1
  /\ HasLine
  /\ \/ stream[Parsed + 1].t # "$" /\ Break("expected '$'")
     \/ /\ stream[Parsed + 1].t = "$"
        /\ ~ValidBulkLen
        /\ Break("invalid bulk length")

(* Before a big argument querybuf is trimmed to start with it, unless it   *)
(* already holds more than that argument.                                  *)
BulkLenRead ==
  /\ ArgLoop /\ bulk_len = -1
  /\ HasLine
  /\ ValidBulkLen
  /\ bulk_len' = LengthRead
  /\ IF LengthRead >= BigArg /\ Unparsed - 3 <= LengthRead + 2
       THEN base' = Parsed + 3 /\ qb_pos' = 0
       ELSE base' = base /\ qb_pos' = qb_pos + 3
  /\ UNCHANGED <<conn, delivered, multi_bulk_len, argv, argv_size, outcome, pc, proc>>

BulkIncomplete ==
  /\ ArgLoop /\ bulk_len # -1
  /\ Unparsed < bulk_len + 2
  /\ Break("none")

(* Variants: the CR and LF after the argument are not waited for; a big    *)
(* argument takes the whole buffer whatever else is in it.                 *)
BulkRead_early ==
  /\ ArgLoop /\ bulk_len # -1
  /\ Unparsed >= bulk_len
  /\ argv' = Append(argv, SubSeq(stream, Parsed + 1, Parsed + bulk_len))
  /\ base' = base /\ qb_pos' = qb_pos + bulk_len + 2
  /\ bulk_len' = -1
  /\ multi_bulk_len' = multi_bulk_len - 1
  /\ pc' = IF multi_bulk_len' = 0 THEN "run" ELSE "args"
  /\ UNCHANGED <<conn, delivered, argv_size, outcome, proc>>

BulkRead_greedy ==
  /\ ArgLoop /\ bulk_len # -1
  /\ Unparsed >= bulk_len + 2
  /\ argv' = Append(argv, SubSeq(stream, Parsed + 1, Parsed + bulk_len))
  /\ IF qb_pos = 0 /\ bulk_len >= BigArg
       THEN base' = delivered /\ qb_pos' = qb_pos
       ELSE base' = base /\ qb_pos' = qb_pos + bulk_len + 2
  /\ bulk_len' = -1
  /\ multi_bulk_len' = multi_bulk_len - 1
  /\ pc' = IF multi_bulk_len' = 0 THEN "run" ELSE "args"
  /\ UNCHANGED <<conn, delivered, argv_size, outcome, proc>>

(* An argument is complete.  A big one that fills querybuf takes the whole *)
(* buffer and leaves an empty one; any other is copied.                    *)
BulkRead ==
  /\ ArgLoop /\ bulk_len # -1
  /\ Unparsed >= bulk_len + 2
  /\ argv' = Append(argv, SubSeq(stream, Parsed + 1, Parsed + bulk_len))
  /\ IF qb_pos = 0 /\ bulk_len >= BigArg /\ Unparsed = bulk_len + 2
       THEN base' = delivered /\ qb_pos' = qb_pos
       ELSE base' = base /\ qb_pos' = qb_pos + bulk_len + 2
  /\ bulk_len' = -1
  /\ multi_bulk_len' = multi_bulk_len - 1
  /\ pc' = IF multi_bulk_len' = 0 THEN "run" ELSE "args"
  /\ UNCHANGED <<conn, delivered, argv_size, outcome, proc>>
-----------------------------------------------------------------------------
(* The request is parsed: redis_process_input_buffer resets the client or  *)
(* calls process_command_and_reset_client.                                 *)

reset_redis_client ==
  /\ argv' = <<>>
  /\ req_type' = NONE /\ multi_bulk_len' = 0 /\ bulk_len' = -1

EmptyRequest ==
  /\ proc = "up" /\ pc = "run"
  /\ argv = <<>>
  /\ reset_redis_client
  /\ pc' = "loop"
  /\ UNCHANGED <<conn, buffer, argv_size, outcome, proc>>

(* Variant: one command per read. *)
process_command_once ==
  /\ proc = "up" /\ pc = "run"
  /\ argv # <<>> /\ argv[1] \in KnownNames
  /\ executed' = Append(executed, argv)
  /\ closing' = IF argv[1] = QuitName THEN "yes" ELSE closing
  /\ reset_redis_client
  /\ pc' = "end"
  /\ UNCHANGED <<conn, buffer, argv_size, err, proc>>

process_command ==
  /\ proc = "up" /\ pc = "run"
  /\ argv # <<>> /\ argv[1] \in KnownNames
  /\ executed' = Append(executed, argv)
  /\ closing' = IF argv[1] = QuitName THEN "yes" ELSE closing
  /\ reset_redis_client
  /\ pc' = "loop"
  /\ UNCHANGED <<conn, buffer, argv_size, err, proc>>

(* An unknown command is logged.  There is no reply and no reset. *)
unknown_command ==
  /\ proc = "up" /\ pc = "run"
  /\ argv # <<>> /\ argv[1] \notin KnownNames
  /\ pc' = "loop"
  /\ UNCHANGED <<conn, buffer, request, outcome, proc>>

(* Variant: the buffer is not trimmed. *)
HandlerReturns_untrimmed ==
  /\ proc = "up" /\ pc = "end"
  /\ base' = base /\ qb_pos' = 0
  /\ pc' = "idle"
  /\ UNCHANGED <<conn, delivered, request, outcome, proc>>

(* redis_process_input_buffer returns; when it consumed anything, its      *)
(* caller trims querybuf.                                                  *)
HandlerReturns ==
  /\ proc = "up" /\ pc = "end"
  /\ base' = Parsed /\ qb_pos' = 0
  /\ pc' = "idle"
  /\ UNCHANGED <<conn, delivered, request, outcome, proc>>

(* The peer disconnects and the next one is accepted.  redis_client_delete *)
(* only frees the structure; create_redis_client does not set req_type,    *)
(* argc and argv, so that they are whatever the memory holds: zero, or     *)
(* what the last client left.                                              *)
Reconnect ==
  /\ proc = "up" /\ pc = "idle"
  /\ connections < MaxConnections
  /\ connections' = connections + 1
  /\ stream' \in Streams
  /\ delivered' = 0 /\ base' = 0 /\ qb_pos' = 0
  /\ multi_bulk_len' = 0 /\ bulk_len' = -1
  /\ closing' = "no" /\ executed' = <<>> /\ err' = "none"
  /\ \/ req_type' = NONE /\ argv' = <<>> /\ argv_size' = 0
     \/ UNCHANGED <<req_type, argv, argv_size>>
  /\ UNCHANGED <<pc, proc>>

Step ==
  \/ LoopEnd
  \/ InlineIncomplete
  \/ \E p \in 1 .. Len(stream) : InlineUnbalanced(p) \/ InlineRequest(p)
  \/ HeaderNotReset \/ HeaderIncomplete \/ HeaderNotStar \/ HeaderInvalid
  \/ HeaderRead \/ HeaderAlreadyRead
  \/ BulkLenIncomplete \/ BulkLenInvalid \/ BulkLenRead \/ BulkIncomplete \/ BulkRead
  \/ EmptyRequest \/ process_command \/ unknown_command
  \/ HandlerReturns

Receive == \E n \in 1 .. Len(stream) : Read(n)

Next == Receive \/ Step \/ Reconnect

Spec == Init /\ [][Next]_vars

(* The event loop is fair: a handler that was called runs to its end, and  *)
(* bytes that are on the way are read.                                     *)
FairSpec == Spec /\ WF_vars(Step) /\ WF_vars(Receive)
-----------------------------------------------------------------------------
Errors == {"none", "too big inline request", "unbalanced quotes in request",
  "too big mbulk count string", "invalid multibulk length", "too big bulk count string",
  "expected '$'", "invalid bulk length"}

TypeOK ==
  /\ stream \in Seq(Symbol)
  /\ delivered \in Nat /\ base \in Nat /\ qb_pos \in Nat
  /\ req_type \in {NONE, PROTO_REQ_INLINE, PROTO_REQ_MULTIBULK}
  /\ multi_bulk_len \in 0 .. MaxMultiBulk /\ bulk_len \in -1 .. MaxBulk
  /\ argv \in Seq(Seq(Symbol)) /\ argv_size \in Nat
  /\ closing \in {"no", "yes"} /\ executed \in Seq(Seq(Seq(Symbol)))
  /\ err \in Errors /\ connections \in Nat
  /\ pc \in {"idle", "loop", "args", "run", "end"} /\ proc \in {"up", "aborted"}

(* The parse position never passes the end of what was read: no length     *)
(* line, argument, trim of a big argument or inline line makes the parser  *)
(* consume symbols that have not arrived (client.c:245, 296, 308, 341).    *)
ParsesOnlyWhatArrived ==
  /\ base <= Parsed /\ Parsed <= delivered
  /\ delivered <= Len(stream)

(* While a multibulk request is being read, across any number of reads,    *)
(* the arguments stored and those still missing make up exactly the array  *)
(* that was allocated for its header (client.c:252, 330, 338), and         *)
(* multi_bulk_len is positive in the argument loop (assert client.c:256).  *)
ArgvFits ==
  /\ Len(argv) <= argv_size
  /\ multi_bulk_len > 0 => Len(argv) + multi_bulk_len = argv_size
  /\ pc = "args" => multi_bulk_len > 0
  /\ bulk_len # -1 => multi_bulk_len > 0 /\ req_type = PROTO_REQ_MULTIBULK

(* Once a command asked for the connection to be closed nothing more is    *)
(* executed on it, whatever else is in the buffer or arrives later         *)
(* (client.c:380-388).                                                     *)
QuitIsFinal ==
  [][closing = "yes" /\ connections' = connections => executed' = executed]_vars

(* After a protocol error nothing more is executed on the connection,      *)
(* although set_protocol_error does not close it: the parser stays in      *)
(* front of the bytes it rejected and never takes up the stream at some    *)
(* later point.  A too long inline request is no such error: it is         *)
(* executed when its end arrives.                                          *)
ErrorIsFinal ==
  [][err \notin {"none", "too big inline request"} /\ connections' = connections
       => executed' = executed]_vars

(* No assertion of the parser fails. *)
NoAssertFails == proc = "up"

(* What is executed, and whether an assertion fails, does not depend on    *)
(* how the stream is cut into reads: every behaviour of the parser is one  *)
(* of the parser that has the whole stream at once.                        *)
StreamType ==
  IF req_type # NONE THEN req_type
  ELSE IF Parsed \in 0 .. Len(stream) - 1 /\ stream[Parsed + 1].t = "*"
       THEN PROTO_REQ_MULTIBULK ELSE PROTO_REQ_INLINE

Whole == INSTANCE RespStream WITH
  pos <- IF bulk_len = -1 THEN Parsed ELSE Parsed - 3,
  type <- StreamType,
  need <- multi_bulk_len,
  phase <- IF pc = "run" THEN "run" ELSE "parse"

ReadsDoNotMatter == Whole!Spec

(* One connection, on which linefeed_chars happens to start from one.      *)
OneOrdinaryConnection == MaxConnections = 1 /\ LinefeedGarbage = {1}
=============================================================================

-------------------------- MODULE RespClientProofs --------------------------
(***************************************************************************)
(* Proofs about RespClient, for every set of streams and all limits.       *)
(***************************************************************************)
EXTENDS RespScript, Induction, TLAPS

(* Where the handler may be in which state of the request: the type is set *)
(* in the argument loop and when a command is run, nothing is missing when *)
(* a command is run, and a closing client is in neither place.             *)
Places ==
  /\ pc = "args" => req_type = PROTO_REQ_MULTIBULK /\ closing = "no"
  /\ pc = "run" => multi_bulk_len = 0 /\ bulk_len = -1 /\ req_type # NONE /\ closing = "no"
  /\ multi_bulk_len > 0 => req_type = PROTO_REQ_MULTIBULK

(* A known bulk length is the one of the length line just before the parse *)
(* position.                                                               *)
LengthLineBehind ==
  bulk_len # -1 =>
    /\ Parsed >= 3
    /\ stream[Parsed - 2].t = "$" /\ stream[Parsed - 2].n = bulk_len
    /\ stream[Parsed - 1].t = "CR"

(* After an error the parser stands in front of symbols it can never       *)
(* accept, all of which have arrived.                                      *)
BadHeader ==
  /\ multi_bulk_len = 0 /\ argv = <<>>
  /\ ~ValidHeader
BadBulkLen ==
  /\ multi_bulk_len > 0 /\ bulk_len = -1
  /\ ~ValidBulkLen
BadLine ==
  \E p \in Parsed + 1 .. delivered :
    /\ FirstLF(p)
    /\ \E i \in Parsed + 1 .. Parsed + QueryLen(p) : stream[i].t = "QUOTE"
Wedged ==
  err \notin {"none", "too big inline request"} =>
    /\ pc # "run"
    /\ \/ req_type = PROTO_REQ_MULTIBULK /\ Unparsed >= 2 /\ (BadHeader \/ BadBulkLen)
       \/ req_type = PROTO_REQ_INLINE /\ BadLine

Streaming == stream \in Streams

IInv ==
  /\ TypeOK /\ ParsesOnlyWhatArrived /\ ArgvFits
  /\ Streaming /\ Places /\ LengthLineBehind
-----------------------------------------------------------------------------
(* An initial state satisfies the invariant (create_redis_client). *)
LEMMA InitIInv == Init => IInv
BY RespAssumption
DEF Init, IInv, TypeOK, ParsesOnlyWhatArrived, ArgvFits, Streaming, Places, LengthLineBehind,
    Parsed, Errors, NONE, PROTO_REQ_INLINE, PROTO_REQ_MULTIBULK

(* A valid length line, with its CR and the symbol after it, has arrived   *)
(* as a whole (client.c:228, 272).                                         *)
LEMMA LengthLineArrived ==
  ASSUME IInv, HasLine, NEW type \in {"*", "$"}, LineIsLength(type)
  PROVE  Parsed + 3 <= delivered /\ LengthRead \in Int
<1>1. /\ Parsed \in Nat /\ delivered \in Nat /\ Parsed <= delivered /\ delivered <= Len(stream)
      /\ stream \in Seq(Symbol)
  BY DEF IInv, TypeOK, ParsesOnlyWhatArrived, Parsed
<1>2. PICK i \in Parsed + 1 .. delivered - 1 : stream[i].t = "CR"
  BY DEF HasLine
<1>3. i # Parsed + 1
  BY <1>2 DEF LineIsLength
<1>4. Parsed + 3 <= delivered
  BY <1>1, <1>2, <1>3
<1>5. stream[Parsed + 1] \in Symbol
  BY <1>1, <1>4
<1> QED
  BY <1>4, <1>5 DEF LengthRead, Symbol

(* A break of the handler's loops leaves everything but pc, req_type and   *)
(* err alone.                                                              *)
LEMMA BreakPreserves ==
  ASSUME IInv, NEW e \in Errors, Break(e),
         req_type' \in {PROTO_REQ_INLINE, PROTO_REQ_MULTIBULK},
         req_type = NONE \/ req_type' = req_type
  PROVE  IInv'
BY DEF IInv, TypeOK, ParsesOnlyWhatArrived, ArgvFits, Streaming, Places, LengthLineBehind,
       Break, conn, buffer, Parsed, NONE, PROTO_REQ_INLINE, PROTO_REQ_MULTIBULK

(* The loop body fixes the type of the request, and keeps one that is set. *)
LEMMA LoopBodyType ==
  ASSUME IInv, NEW type \in {PROTO_REQ_INLINE, PROTO_REQ_MULTIBULK}, LoopBody(type)
  PROVE  /\ req_type' = type
         /\ req_type = NONE \/ req_type' = req_type
BY DEF LoopBody, RequestType

(* The steps of the loop that do not parse a request. *)
LEMMA LoopPreserves ==
  ASSUME IInv, (\E n \in 1 .. Len(stream) : Read(n)) \/ LoopEnd \/ HandlerReturns
  PROVE  IInv'
<1> USE DEF IInv, TypeOK, ParsesOnlyWhatArrived, ArgvFits, Streaming, Places, LengthLineBehind,
        Parsed, Unparsed, conn, buffer, request, outcome
<1>1. ASSUME NEW n \in 1 .. Len(stream), Read(n) PROVE IInv'
  <2>1. n \in Nat /\ delivered \in Nat /\ Len(stream) \in Nat
    OBVIOUS
  <2>2. delivered' = delivered + n /\ delivered + n <= Len(stream)
    BY <1>1, Zenon DEF Read
  <2> HIDE DEF IInv
  <2>3. delivered' \in Nat /\ delivered <= delivered' /\ delivered' <= Len(stream)
    BY <2>1, <2>2
  <2> QED
    BY <1>1, <2>1, <2>3 DEF Read, IInv
<1>2. CASE LoopEnd
  BY <1>2 DEF LoopEnd
<1>3. CASE HandlerReturns
  <2>1. base \in Nat /\ qb_pos \in Nat
    OBVIOUS
  <2>2. base' = base + qb_pos /\ qb_pos' = 0
    BY <1>3 DEF HandlerReturns
  <2> HIDE DEF IInv
  <2>3. base' \in Nat /\ qb_pos' \in Nat /\ base' + qb_pos' = base + qb_pos
        /\ base' <= base' + qb_pos'
    BY <2>1, <2>2
  <2> QED
    BY <1>3, <2>3, Zenon DEF HandlerReturns, IInv
<1> QED
  BY <1>1, <1>2, <1>3

(* Inline requests. *)
LEMMA InlinePreserves ==
  ASSUME IInv, InlineIncomplete \/ (\E p \in 1 .. Len(stream) : InlineUnbalanced(p) \/ InlineRequest(p))
  PROVE  IInv'
<1>1. CASE InlineIncomplete
  BY <1>1, LoopBodyType, BreakPreserves, Zenon DEF InlineIncomplete, Errors
<1>2. ASSUME NEW p \in 1 .. Len(stream), InlineUnbalanced(p) PROVE IInv'
  BY <1>2, LoopBodyType, BreakPreserves, Zenon DEF InlineUnbalanced, Errors
<1>3. ASSUME NEW p \in 1 .. Len(stream), InlineRequest(p) PROVE IInv'
  <2>1. /\ req_type' = PROTO_REQ_INLINE
        /\ req_type = NONE \/ req_type' = req_type
        /\ closing = "no"
    BY <1>3, LoopBodyType DEF InlineRequest, LoopBody
  <2>2. multi_bulk_len = 0 /\ bulk_len = -1
    BY <2>1 DEF IInv, TypeOK, ArgvFits, Places, NONE, PROTO_REQ_INLINE, PROTO_REQ_MULTIBULK
  <2>3. /\ Parsed \in 0 .. Len(stream)
        /\ Parsed + QueryLen(p) \in 0 .. Len(stream)
    <3>1. /\ Parsed \in Nat /\ delivered \in Nat /\ delivered <= Len(stream)
          /\ Parsed <= delivered /\ Len(stream) \in Nat
      BY DEF IInv, TypeOK, ParsesOnlyWhatArrived, Parsed
    <3>2. p \in Parsed + 1 .. delivered
      BY <1>3 DEF InlineRequest, FirstLF
    <3>3. QueryLen(p) \in 0 .. p - 1 - Parsed
      BY <3>1, <3>2 DEF QueryLen
    <3> QED
      BY <3>1, <3>2, <3>3
  <2>4. argv' \in Seq(Seq(Symbol))
    BY <1>3, <2>3, RespAssumption DEF InlineRequest, IInv, Streaming
  <2>5. qb_pos' \in 0 .. delivered - base
    <3>1. base \in Nat /\ qb_pos \in Nat /\ delivered \in Nat /\ base + qb_pos <= delivered
      BY DEF IInv, TypeOK, ParsesOnlyWhatArrived, Parsed
    <3>2. PICK q : qb_pos' = IF q \in 0 .. delivered - base THEN q ELSE delivered - base
      BY <1>3, Zenon DEF InlineRequest
    <3> QED
      BY <3>1, <3>2
  <2>6. Len(argv') \in Nat /\ argv_size' \in Nat /\ Len(argv') <= argv_size'
    BY <1>3, <2>4 DEF InlineRequest, IInv, TypeOK
  <2>7. /\ stream' = stream /\ delivered' = delivered /\ base' = base
        /\ multi_bulk_len' = 0 /\ bulk_len' = -1 /\ closing' = closing /\ executed' = executed
        /\ err' = err /\ connections' = connections /\ pc' = "run" /\ proc' = proc
    BY <1>3, <2>2 DEF InlineRequest, conn, outcome
  <2>8. TypeOK'
    BY <2>1, <2>4, <2>5, <2>6, <2>7, RespAssumption DEF IInv, TypeOK
  <2>9. ParsesOnlyWhatArrived'
    <3>1. base \in Nat /\ delivered \in Nat /\ delivered <= Len(stream)
      BY DEF IInv, TypeOK, ParsesOnlyWhatArrived
    <3>2. \A b, d \in Nat : \A q \in 0 .. d - b : b <= b + q /\ b + q <= d
      OBVIOUS
    <3>3. base <= base + qb_pos' /\ base + qb_pos' <= delivered
      BY <2>5, <3>1, <3>2, Zenon
    <3> QED
      BY <2>7, <3>1, <3>3 DEF ParsesOnlyWhatArrived, Parsed
  <2>10. ArgvFits' /\ Places' /\ LengthLineBehind' /\ Streaming'
    BY <2>1, <2>6, <2>7
    DEF IInv, ArgvFits, Places, LengthLineBehind, Streaming, NONE, PROTO_REQ_INLINE
  <2> QED
    BY <2>8, <2>9, <2>10 DEF IInv
<1> QED
  BY <1>1, <1>2, <1>3

(* The header of a multibulk request. *)
LEMMA HeaderPreserves ==
  ASSUME IInv,
         \/ HeaderNotReset \/ HeaderIncomplete \/ HeaderNotStar \/ HeaderInvalid
         \/ HeaderRead \/ HeaderAlreadyRead
  PROVE  IInv'
<1>1. CASE HeaderNotReset \/ HeaderNotStar
  BY <1>1, LoopBodyType, Zenon
  DEF HeaderNotReset, HeaderNotStar, LoopBody, IInv, TypeOK, ParsesOnlyWhatArrived, ArgvFits,
      Streaming, Places, LengthLineBehind, Parsed, conn, buffer, outcome, NONE,
      PROTO_REQ_INLINE, PROTO_REQ_MULTIBULK
<1>2. CASE HeaderIncomplete
  BY <1>2, LoopBodyType, BreakPreserves, Zenon DEF HeaderIncomplete, Errors
<1>3. CASE HeaderInvalid
  BY <1>3, LoopBodyType, BreakPreserves, Zenon DEF HeaderInvalid, Errors
<1>4. CASE HeaderRead
  <2>1. /\ req_type' = PROTO_REQ_MULTIBULK /\ closing = "no"
        /\ Parsed + 3 <= delivered /\ LengthRead \in Int /\ LengthRead <= MaxMultiBulk
        /\ bulk_len = -1 /\ multi_bulk_len = 0 /\ argv = <<>>
    BY <1>4, LengthLineArrived, LoopBodyType
    DEF HeaderRead, ValidHeader, LoopBody, IInv, ArgvFits, TypeOK
  <2>2. base \in Nat /\ qb_pos \in Nat /\ delivered \in Nat
    BY DEF IInv, TypeOK
  <2>3. /\ base' = base /\ delivered' = delivered /\ qb_pos' = qb_pos + 3
        /\ stream' = stream /\ bulk_len' = bulk_len /\ argv' = <<>>
    BY <1>4, <2>1 DEF HeaderRead, conn
  <2>4. qb_pos' \in Nat /\ Parsed' = Parsed + 3 /\ base' <= Parsed' /\ Parsed' <= delivered'
    BY <2>1, <2>2, <2>3 DEF Parsed
  <2>5. TypeOK' /\ ArgvFits'
    BY <1>4, <2>1, <2>3, <2>4, RespAssumption
    DEF HeaderRead, IInv, TypeOK, ArgvFits, conn, outcome, NONE, PROTO_REQ_INLINE, PROTO_REQ_MULTIBULK
  <2>6. ParsesOnlyWhatArrived' /\ Streaming' /\ LengthLineBehind'
    BY <2>1, <2>3, <2>4, Zenon DEF IInv, ParsesOnlyWhatArrived, Streaming, LengthLineBehind
  <2>7. Places'
    BY <1>4, <2>1, <2>3 DEF HeaderRead, Places, outcome, NONE, PROTO_REQ_MULTIBULK
  <2> QED
    BY <2>5, <2>6, <2>7, Zenon DEF IInv
<1>5. CASE HeaderAlreadyRead
  BY <1>5, LoopBodyType
  DEF HeaderAlreadyRead, LoopBody, IInv, TypeOK, ParsesOnlyWhatArrived, ArgvFits,
      Streaming, Places, LengthLineBehind, Parsed, conn, buffer, outcome, NONE,
      PROTO_REQ_INLINE, PROTO_REQ_MULTIBULK
<1> QED
  BY <1>1, <1>2, <1>3, <1>4, <1>5

(* The arguments of a multibulk request. *)
LEMMA ArgsPreserve ==
  ASSUME IInv,
         \/ BulkLenIncomplete \/ BulkLenInvalid \/ BulkLenRead
         \/ BulkIncomplete \/ BulkRead
  PROVE  IInv'
<1>0. /\ base \in Nat /\ qb_pos \in Nat /\ delivered \in Nat /\ Parsed = base + qb_pos
      /\ Parsed \in Nat /\ Parsed <= delivered /\ delivered <= Len(stream)
      /\ multi_bulk_len \in 0 .. MaxMultiBulk /\ bulk_len \in -1 .. MaxBulk
      /\ Len(stream) \in Nat /\ Len(argv) \in Nat /\ argv_size \in Nat
  BY DEF IInv, TypeOK, ParsesOnlyWhatArrived, Parsed
<1>1. ASSUME ArgLoop
      PROVE  /\ req_type = PROTO_REQ_MULTIBULK /\ req_type' = req_type
             /\ closing = "no" /\ multi_bulk_len > 0
             /\ Len(argv) + multi_bulk_len = argv_size
  BY <1>1 DEF ArgLoop, IInv, Places, ArgvFits
<1>2. CASE BulkLenIncomplete
  BY <1>1, <1>2, BreakPreserves, Zenon DEF BulkLenIncomplete, Errors
<1>3. CASE BulkLenInvalid
  BY <1>1, <1>3, BreakPreserves, Zenon DEF BulkLenInvalid, Errors
<1>4. CASE BulkIncomplete
  BY <1>1, <1>4, BreakPreserves DEF BulkIncomplete, Errors
<1>5. CASE BulkLenRead
  <2>1. /\ Parsed + 3 <= delivered /\ LengthRead \in 0 .. MaxBulk
        /\ LineIsLength("$") /\ pc = "args"
    BY <1>5, LengthLineArrived DEF BulkLenRead, ValidBulkLen, ArgLoop
  <2>2. /\ base' \in Nat /\ qb_pos' \in Nat /\ base' + qb_pos' = Parsed + 3
        /\ base' <= base' + qb_pos'
    <3>1. (base' = Parsed + 3 /\ qb_pos' = 0) \/ (base' = base /\ qb_pos' = qb_pos + 3)
      BY <1>5 DEF BulkLenRead
    <3> QED
      BY <1>0, <3>1
  <2>3. /\ stream' = stream /\ delivered' = delivered /\ bulk_len' = LengthRead
        /\ req_type' = PROTO_REQ_MULTIBULK /\ closing' = "no" /\ multi_bulk_len' = multi_bulk_len
        /\ argv' = argv /\ argv_size' = argv_size /\ executed' = executed /\ err' = err
        /\ connections' = connections /\ pc' = "args" /\ proc' = proc
    BY <1>1, <1>5, <2>1 DEF BulkLenRead, conn, outcome
  <2>4. TypeOK'
    BY <2>1, <2>2, <2>3, RespAssumption DEF IInv, TypeOK
  <2>5. ParsesOnlyWhatArrived'
    BY <1>0, <2>1, <2>2, <2>3, Zenon DEF ParsesOnlyWhatArrived, Parsed
  <2>6. ArgvFits' /\ Places' /\ Streaming'
    BY <1>0, <1>1, <1>5, <2>3 DEF BulkLenRead, IInv, ArgvFits, Places, Streaming
  <2>7. LengthLineBehind'
    <3>1. Parsed' = Parsed + 3
      BY <2>2 DEF Parsed
    <3> QED
      BY <1>0, <2>1, <2>3, <3>1 DEF LengthLineBehind, LineIsLength, LengthRead
  <2> QED
    BY <2>4, <2>5, <2>6, <2>7 DEF IInv
<1>6. CASE BulkRead
  <2>1. /\ bulk_len \in 0 .. MaxBulk /\ Parsed + bulk_len + 2 <= delivered /\ pc = "args"
    BY <1>0, <1>6, RespAssumption DEF BulkRead, ArgLoop, Unparsed
  <2>2. /\ base' \in Nat /\ qb_pos' \in Nat /\ base' + qb_pos' = Parsed + bulk_len + 2
        /\ base' <= base' + qb_pos'
    BY <1>0, <1>6, <2>1 DEF BulkRead, Unparsed
  <2>3. SubSeq(stream, Parsed + 1, Parsed + bulk_len) \in Seq(Symbol)
    BY <1>0, <2>1 DEF IInv, TypeOK
  <2>4. argv' \in Seq(Seq(Symbol)) /\ Len(argv') = Len(argv) + 1
    BY <1>6, <2>3 DEF BulkRead, IInv, TypeOK
  <2>5. /\ stream' = stream /\ delivered' = delivered /\ bulk_len' = -1
        /\ req_type' = PROTO_REQ_MULTIBULK /\ closing' = "no"
        /\ multi_bulk_len' = multi_bulk_len - 1
        /\ argv_size' = argv_size /\ executed' = executed /\ err' = err
        /\ connections' = connections /\ proc' = proc
        /\ pc' = IF multi_bulk_len' = 0 THEN "run" ELSE "args"
    BY <1>1, <1>6 DEF BulkRead, conn, outcome
  <2>6. multi_bulk_len \in 1 .. MaxMultiBulk
    BY <1>0, <1>1, <1>6, RespAssumption DEF BulkRead
  <2>7. TypeOK'
    BY <2>2, <2>4, <2>5, <2>6, RespAssumption DEF IInv, TypeOK
  <2>8. ParsesOnlyWhatArrived'
    BY <1>0, <2>1, <2>2, <2>5, Zenon DEF ParsesOnlyWhatArrived, Parsed
  <2>9. Len(argv) + multi_bulk_len = argv_size
    BY <1>1, <1>6 DEF BulkRead
  <2>10. ArgvFits'
    <3>1. /\ Len(argv') + multi_bulk_len' = argv_size' /\ Len(argv') <= argv_size'
          /\ multi_bulk_len' # 0 => multi_bulk_len' > 0
      <4>1. \A l, z, m \in Nat : m > 0 /\ l + m = z =>
              (l + 1) + (m - 1) = z /\ l + 1 <= z /\ (m - 1 # 0 => m - 1 > 0)
        OBVIOUS
      <4>2. multi_bulk_len \in Nat /\ multi_bulk_len > 0
        BY <2>6, RespAssumption
      <4>3. /\ (Len(argv) + 1) + (multi_bulk_len - 1) = argv_size /\ Len(argv) + 1 <= argv_size
            /\ multi_bulk_len - 1 # 0 => multi_bulk_len - 1 > 0
        BY <1>0, <2>9, <4>1, <4>2
      <4> QED
        BY <2>4, <2>5, <4>3
    <3> QED
      BY <2>5, <3>1 DEF ArgvFits
  <2>11. Places' /\ Streaming' /\ LengthLineBehind'
    BY <2>5 DEF IInv, Places, Streaming, LengthLineBehind, NONE, PROTO_REQ_MULTIBULK
  <2> QED
    BY <2>7, <2>8, <2>10, <2>11 DEF IInv
<1> QED
  BY <1>2, <1>3, <1>4, <1>5, <1>6

(* Running a command, and the next connection. *)
LEMMA RunPreserves ==
  ASSUME IInv, EmptyRequest \/ process_command \/ unknown_command \/ Reconnect
  PROVE  IInv'
<1>1. CASE EmptyRequest
  BY <1>1, RespAssumption
  DEF EmptyRequest, reset_redis_client, IInv, TypeOK, ParsesOnlyWhatArrived, ArgvFits, Streaming,
      Places, LengthLineBehind, Parsed, conn, buffer, outcome, NONE
<1>2. CASE process_command
  <2>1. executed' \in Seq(Seq(Seq(Symbol)))
    BY <1>2 DEF process_command, IInv, TypeOK
  <2> QED
    BY <1>2, <2>1, RespAssumption
    DEF process_command, reset_redis_client, IInv, TypeOK, ParsesOnlyWhatArrived, ArgvFits,
        Streaming, Places, LengthLineBehind, Parsed, conn, buffer, NONE
<1>3. CASE unknown_command
  BY <1>3
  DEF unknown_command, IInv, TypeOK, ParsesOnlyWhatArrived, ArgvFits,
      Streaming, Places, LengthLineBehind, Parsed, conn, buffer, request, outcome
<1>4. CASE Reconnect
  <2>1. stream' \in Seq(Symbol) /\ Len(stream') \in Nat
    BY <1>4, RespAssumption DEF Reconnect
  <2>2. /\ req_type' \in {NONE, PROTO_REQ_INLINE, PROTO_REQ_MULTIBULK}
        /\ argv' \in Seq(Seq(Symbol)) /\ argv_size' \in Nat /\ Len(argv') <= argv_size'
    <3>1. CASE UNCHANGED <<req_type, argv, argv_size>>
      BY <3>1 DEF IInv, TypeOK, ArgvFits
    <3>2. CASE req_type' = NONE /\ argv' = <<>> /\ argv_size' = 0
      BY <3>2
    <3> QED
      BY <1>4, <3>1, <3>2 DEF Reconnect
  <2>3. TypeOK'
    <3>1. connections' \in Nat
      BY <1>4 DEF Reconnect, IInv, TypeOK
    <3>2. /\ delivered' = 0 /\ base' = 0 /\ qb_pos' = 0 /\ multi_bulk_len' = 0 /\ bulk_len' = -1
          /\ closing' = "no" /\ executed' = <<>> /\ err' = "none" /\ pc' = pc /\ proc' = proc
      BY <1>4 DEF Reconnect
    <3>3. multi_bulk_len' \in 0 .. MaxMultiBulk /\ bulk_len' \in -1 .. MaxBulk
      BY <3>2, RespAssumption
    <3>4. delivered' \in Nat /\ base' \in Nat /\ qb_pos' \in Nat
      BY <3>2
    <3>5. executed' \in Seq(Seq(Seq(Symbol))) /\ err' \in Errors /\ closing' \in {"no", "yes"}
      BY <3>2 DEF Errors
    <3>6. /\ pc' \in {"idle", "loop", "args", "run", "end"} /\ proc' \in {"up", "aborted"}
      BY <3>2 DEF IInv, TypeOK
    <3> QED
      BY <2>1, <2>2, <3>1, <3>3, <3>4, <3>5, <3>6 DEF TypeOK
  <2>4. ParsesOnlyWhatArrived' /\ Streaming'
    BY <1>4, <2>1 DEF Reconnect, ParsesOnlyWhatArrived, Parsed, Streaming
  <2>5. ArgvFits' /\ Places' /\ LengthLineBehind'
    BY <1>4, <2>2 DEF Reconnect, ArgvFits, Places, LengthLineBehind
  <2> QED
    BY <2>3, <2>4, <2>5 DEF IInv
<1> QED
  BY <1>1, <1>2, <1>3, <1>4

(* Every step of the event loop preserves the invariant. *)
LEMMA NextPreserves == IInv /\ [Next]_vars => IInv'
<1> SUFFICES ASSUME IInv, [Next]_vars PROVE IInv'
  OBVIOUS
<1>1. CASE UNCHANGED vars
  BY <1>1
  DEF vars, conn, buffer, request, outcome, IInv, TypeOK, ParsesOnlyWhatArrived, ArgvFits,
      Streaming, Places, LengthLineBehind, Parsed
<1>2. CASE Next
  BY <1>2, LoopPreserves, InlinePreserves, HeaderPreserves, ArgsPreserve, RunPreserves
  DEF Next, Step, Receive
<1> QED
  BY <1>1, <1>2

(* The invariant holds in every state. *)
LEMMA ParserInvariant == Spec => []IInv
BY InitIInv, NextPreserves, PTL DEF Spec
-----------------------------------------------------------------------------
(* Every variable of the parser stays in its type. *)
THEOREM ParserTypeCorrect == Spec => []TypeOK
BY ParserInvariant, PTL DEF IInv

(* For every stream and every way to cut it into reads, the parse position *)
(* stays inside querybuf (client.c:245, 296, 308, 341).                    *)
THEOREM PositionInBuffer == Spec => []ParsesOnlyWhatArrived
BY ParserInvariant, PTL DEF IInv

(* The arguments stored never exceed the array allocated for them, and the *)
(* assertion that multi_bulk_len is positive holds (client.c:252-256,      *)
(* 330-344).                                                               *)
THEOREM ArgvNeverOverrun == Spec => []ArgvFits
BY ParserInvariant, PTL DEF IInv

(* Only process_command executes something. *)
LEMMA OnlyRunExecutes ==
  ASSUME [Next]_vars, ~process_command, ~Reconnect
  PROVE  executed' = executed
BY Zenon DEF Next, Step, Receive, vars, conn, buffer, request, outcome, Read, LoopEnd, Break,
  InlineIncomplete, InlineUnbalanced, InlineRequest, HeaderNotReset, HeaderIncomplete,
  HeaderNotStar, HeaderInvalid, HeaderRead, HeaderAlreadyRead, BulkLenIncomplete, BulkLenInvalid,
  BulkLenRead, BulkIncomplete, BulkRead, EmptyRequest, unknown_command, HandlerReturns

(* A new connection is counted. *)
LEMMA ReconnectCounts == ASSUME IInv, Reconnect PROVE connections' # connections
BY DEF Reconnect, IInv, TypeOK

(* Nothing is executed on a connection after QUIT (client.c:380-388). *)
THEOREM QuitEndsExecution == Spec => QuitIsFinal
<1>1. ASSUME IInv, [Next]_vars, closing = "yes", connections' = connections
      PROVE  executed' = executed
  <2>1. ~process_command
    BY <1>1 DEF process_command, IInv, Places
  <2> QED
    BY <1>1, <2>1, OnlyRunExecutes, ReconnectCounts
<1> QED
  BY <1>1, ParserInvariant, PTL DEF Spec, QuitIsFinal
-----------------------------------------------------------------------------
(* The parser stays in front of what it rejected: each kind of step.       *)
MultibulkWedge == req_type = PROTO_REQ_MULTIBULK /\ Unparsed >= 2 /\ (BadHeader \/ BadBulkLen)
InlineWedge == req_type = PROTO_REQ_INLINE /\ BadLine
Fatal == err \notin {"none", "too big inline request"}

(* A new connection had no protocol error. *)
LEMMA InitWedged == Init => Wedged
BY DEF Init, Wedged

(* A step that leaves the request, the stream and the parse position as    *)
(* they are keeps both kinds of wedge, however much has been read since.   *)
LEMMA WedgeKept ==
  ASSUME IInv, MultibulkWedge \/ InlineWedge,
         stream' = stream, Parsed' = Parsed, delivered' \in Nat, delivered' >= delivered,
         UNCHANGED <<req_type, multi_bulk_len, bulk_len, argv>>
  PROVE  (MultibulkWedge \/ InlineWedge)'
<1>1. Parsed \in Nat /\ delivered \in Nat
  BY DEF IInv, TypeOK, Parsed
<1>2. CASE MultibulkWedge
  <2>1. \A a, b, c \in Nat : a - c >= 2 /\ b >= a => b - c >= 2
    OBVIOUS
  <2>2. delivered' - Parsed >= 2
    BY <1>1, <1>2, <2>1, Zenon DEF MultibulkWedge, Unparsed
  <2>3. Unparsed' >= 2 /\ ValidHeader' = ValidHeader /\ ValidBulkLen' = ValidBulkLen
    BY <2>2 DEF Unparsed, ValidHeader, ValidBulkLen, LineIsLength, LengthRead
  <2> QED
    BY <1>2, <2>3 DEF MultibulkWedge, BadHeader, BadBulkLen
<1>3. CASE InlineWedge
  <2>1. PICK p \in Parsed + 1 .. delivered :
          FirstLF(p) /\ \E i \in Parsed + 1 .. Parsed + QueryLen(p) : stream[i].t = "QUOTE"
    BY <1>3 DEF InlineWedge, BadLine
  <2>2. p \in Parsed + 1 .. delivered'
    BY <1>1, <2>1
  <2>3. FirstLF(p)' /\ QueryLen(p)' = QueryLen(p)
    BY <2>1, <2>2 DEF FirstLF, QueryLen
  <2> QED
    BY <1>3, <2>1, <2>2, <2>3 DEF InlineWedge, BadLine
<1> QED
  BY <1>2, <1>3

(* No request is recognised by a wedged parser. *)
LEMMA WedgeBlocks ==
  ASSUME IInv, Wedged, Fatal
  PROVE  /\ ~HeaderRead /\ ~BulkLenRead /\ ~BulkRead /\ ~HeaderNotReset
         /\ ~EmptyRequest /\ ~process_command /\ ~unknown_command
         /\ \A p \in 1 .. Len(stream) : ~InlineRequest(p)
<1>1. pc # "run" /\ (MultibulkWedge \/ InlineWedge)
  BY Zenon DEF Wedged, Fatal, MultibulkWedge, InlineWedge
<1>2. ~EmptyRequest /\ ~process_command /\ ~unknown_command
  BY <1>1 DEF EmptyRequest, process_command, unknown_command
<1>3. ~HeaderRead /\ ~HeaderNotReset
  <2>1. LoopBody(PROTO_REQ_MULTIBULK) => MultibulkWedge
    BY <1>1 DEF LoopBody, RequestType, InlineWedge, NONE, PROTO_REQ_INLINE, PROTO_REQ_MULTIBULK
  <2>2. MultibulkWedge /\ multi_bulk_len = 0 => argv = <<>> /\ ~ValidHeader
    BY DEF MultibulkWedge, BadHeader, BadBulkLen
  <2> QED
    BY <2>1, <2>2 DEF HeaderRead, HeaderNotReset
<1>4. ~BulkLenRead /\ ~BulkRead
  BY <1>1
  DEF BulkLenRead, BulkRead, ArgLoop, MultibulkWedge, InlineWedge, BadHeader, BadBulkLen, IInv,
      Places, ArgvFits, PROTO_REQ_INLINE, PROTO_REQ_MULTIBULK
<1>5. ASSUME NEW p \in 1 .. Len(stream), InlineRequest(p) PROVE FALSE
  <2>1. InlineWedge /\ FirstLF(p)
    BY <1>1, <1>5
    DEF InlineRequest, LoopBody, RequestType, MultibulkWedge, NONE, PROTO_REQ_INLINE,
        PROTO_REQ_MULTIBULK
  <2>2. PICK r \in Parsed + 1 .. delivered :
          FirstLF(r) /\ \E i \in Parsed + 1 .. Parsed + QueryLen(r) : stream[i].t = "QUOTE"
    BY <2>1 DEF InlineWedge, BadLine
  <2>3. Parsed \in Nat /\ delivered \in Nat
    BY DEF IInv, TypeOK, Parsed
  <2>4. p = r
    <3>1. p \in Int /\ r \in Int /\ p > Parsed /\ r > Parsed
      BY <2>1, <2>2, <2>3 DEF FirstLF
    <3>2. ~(p < r) /\ ~(r < p)
      BY <2>1, <2>2, <2>3, <3>1 DEF FirstLF
    <3> QED
      BY <3>1, <3>2
  <2> QED
    BY <1>5, <2>2, <2>4 DEF InlineRequest
<1> QED
  BY <1>2, <1>3, <1>4, <1>5

(* Each error is answered in front of symbols that can never be accepted. *)
LEMMA ErrorWedges ==
  ASSUME IInv, [Next]_vars, Fatal', ~Fatal
  PROVE  Wedged'
<1>0. /\ Parsed \in Nat /\ delivered \in Nat /\ stream \in Seq(Symbol)
      /\ multi_bulk_len \in Nat
  BY RespAssumption DEF IInv, TypeOK, Parsed
<1>1. ASSUME NEW e, Break(e)
      PROVE  /\ pc' = "end" /\ stream' = stream /\ delivered' = delivered /\ Parsed' = Parsed
             /\ UNCHANGED <<multi_bulk_len, bulk_len, argv>>
             /\ Unparsed' = Unparsed /\ ValidHeader' = ValidHeader /\ ValidBulkLen' = ValidBulkLen
  BY <1>1 DEF Break, conn, buffer, Parsed, Unparsed, ValidHeader, ValidBulkLen, LineIsLength,
              LengthRead
<1>2. HasLine => Unparsed >= 2
  BY <1>0 DEF HasLine, Unparsed
<1>3. NoCR /\ Unparsed > InlineMax => Unparsed >= 2 /\ ~ValidHeader /\ ~ValidBulkLen
  BY <1>0, RespAssumption DEF NoCR, Unparsed, ValidHeader, ValidBulkLen, LineIsLength
<1>4. CASE InlineIncomplete
  BY <1>4, Zenon DEF InlineIncomplete, Break, Fatal
<1>5. ASSUME NEW p \in 1 .. Len(stream), InlineUnbalanced(p) PROVE Wedged'
  <2>1. /\ FirstLF(p) /\ req_type' = PROTO_REQ_INLINE /\ p \in Parsed + 1 .. delivered
        /\ \E i \in Parsed + 1 .. Parsed + QueryLen(p) : stream[i].t = "QUOTE"
    BY <1>5, Zenon DEF InlineUnbalanced, LoopBody, FirstLF
  <2>2. /\ pc' = "end" /\ stream' = stream /\ delivered' = delivered /\ Parsed' = Parsed
    BY <1>1, <1>5, Zenon DEF InlineUnbalanced
  <2>3. FirstLF(p)' /\ QueryLen(p)' = QueryLen(p)
    BY <2>1, <2>2 DEF FirstLF, QueryLen
  <2>4. BadLine'
    BY <2>1, <2>2, <2>3 DEF BadLine
  <2> QED
    BY <2>1, <2>2, <2>4, Zenon DEF Wedged
<1>6. CASE HeaderIncomplete
  <2>1. NoCR /\ Unparsed > InlineMax
    BY <1>6, Zenon DEF HeaderIncomplete, Break, Fatal
  <2>2. multi_bulk_len = 0 /\ argv = <<>> /\ req_type' = PROTO_REQ_MULTIBULK
    BY <1>6, Zenon DEF HeaderIncomplete, LoopBody
  <2>3. \E e : Break(e)
    BY <1>6, Zenon DEF HeaderIncomplete
  <2> QED
    BY <1>1, <1>3, <2>1, <2>2, <2>3, Zenon DEF Wedged, BadHeader
<1>7. CASE HeaderInvalid
  BY <1>1, <1>2, <1>7, Zenon DEF HeaderInvalid, LoopBody, Wedged, BadHeader
<1>8. CASE BulkLenIncomplete
  <2>1. NoCR /\ Unparsed > InlineMax
    BY <1>8, Zenon DEF BulkLenIncomplete, Break, Fatal
  <2>2. multi_bulk_len > 0 /\ bulk_len = -1 /\ req_type' = PROTO_REQ_MULTIBULK
    BY <1>8, Zenon DEF BulkLenIncomplete, ArgLoop, IInv, ArgvFits, Places
  <2>3. \E e : Break(e)
    BY <1>8, Zenon DEF BulkLenIncomplete
  <2> QED
    BY <1>1, <1>3, <2>1, <2>2, <2>3, Zenon DEF Wedged, BadBulkLen
<1>9. CASE BulkLenInvalid
  <2>1. multi_bulk_len > 0 /\ bulk_len = -1 /\ req_type' = PROTO_REQ_MULTIBULK
    BY <1>9, Zenon DEF BulkLenInvalid, ArgLoop, IInv, ArgvFits, Places
  <2>2. Unparsed >= 2 /\ ~ValidBulkLen /\ \E e : Break(e)
    BY <1>2, <1>9, Zenon DEF BulkLenInvalid, ValidBulkLen, LineIsLength
  <2> QED
    BY <1>1, <2>1, <2>2, Zenon DEF Wedged, BadBulkLen
<1>10. CASE BulkIncomplete
  BY <1>10, Zenon DEF BulkIncomplete, Break, Fatal
<1>11. CASE err' = err \/ err' = "none"
  BY <1>11, Zenon DEF Fatal
<1> QED
  BY <1>4, <1>5, <1>6, <1>7, <1>8, <1>9, <1>10, <1>11, Zenon
  DEF Next, Step, Receive, vars, outcome, Read, LoopEnd, InlineRequest, HeaderNotReset,
      HeaderNotStar, HeaderRead, HeaderAlreadyRead, BulkLenRead, BulkRead, EmptyRequest,
      process_command, unknown_command, HandlerReturns, Reconnect

(* After a protocol error the parser stays where it stopped. *)
LEMMA NextWedged == IInv /\ Wedged /\ [Next]_vars => Wedged'
<1> SUFFICES ASSUME IInv, Wedged, [Next]_vars, Fatal, Fatal' PROVE Wedged'
  BY ErrorWedges, Zenon DEF Wedged, Fatal
<1>1. /\ ~HeaderRead /\ ~BulkLenRead /\ ~BulkRead /\ ~HeaderNotReset
      /\ ~EmptyRequest /\ ~process_command /\ ~unknown_command
      /\ \A p \in 1 .. Len(stream) : ~InlineRequest(p)
  BY WedgeBlocks
<1>2. ~Reconnect
  BY Zenon DEF Reconnect, Fatal
<1>3. pc # "run" /\ (MultibulkWedge \/ InlineWedge)
  BY Zenon DEF Wedged, Fatal, MultibulkWedge, InlineWedge
<1>4. /\ base \in Nat /\ qb_pos \in Nat /\ delivered \in Nat /\ req_type # NONE
  BY <1>3 DEF IInv, TypeOK, MultibulkWedge, InlineWedge, NONE, PROTO_REQ_INLINE, PROTO_REQ_MULTIBULK
<1>5. ASSUME NEW type, LoopBody(type) PROVE req_type' = req_type
  BY <1>4, <1>5 DEF LoopBody, RequestType
<1>6. /\ stream' = stream /\ Parsed' = Parsed /\ delivered' \in Nat /\ delivered' >= delivered
      /\ UNCHANGED <<req_type, multi_bulk_len, bulk_len, argv>> /\ pc' # "run"
  <2> USE DEF conn, buffer, request, outcome, Parsed
  <2>1. ASSUME NEW n \in 1 .. Len(stream), Read(n)
        PROVE  delivered' \in Nat /\ delivered' >= delivered
    <3>1. n \in Nat /\ delivered' = delivered + n
      BY <2>1 DEF Read
    <3> QED
      BY <1>4, <3>1
  <2>0. ASSUME NEW e, Break(e)
        PROVE  /\ stream' = stream /\ Parsed' = Parsed /\ delivered' = delivered
               /\ UNCHANGED <<multi_bulk_len, bulk_len, argv>> /\ pc' # "run"
    BY <2>0 DEF Break
  <2>2. CASE Receive
    BY <2>1, <2>2 DEF Receive, Read
  <2>3. CASE LoopEnd \/ HandlerReturns \/ UNCHANGED vars
    <3>1. /\ stream' = stream /\ delivered' = delivered
          /\ UNCHANGED <<req_type, multi_bulk_len, bulk_len, argv>>
      BY <2>3 DEF LoopEnd, HandlerReturns, vars
    <3>2. pc' # "run"
      BY <1>3, <2>3 DEF LoopEnd, HandlerReturns, vars
    <3>3. (base' = base /\ qb_pos' = qb_pos) \/ (base' = base + qb_pos /\ qb_pos' = 0)
      BY <2>3 DEF LoopEnd, HandlerReturns, vars
    <3>4. Parsed' = Parsed
      BY <1>4, <3>3
    <3> QED
      BY <1>4, <3>1, <3>2, <3>4
  <2>4. CASE InlineIncomplete \/ (\E p \in 1 .. Len(stream) : InlineUnbalanced(p))
    <3>1. (\E type : LoopBody(type)) /\ (\E e : Break(e))
      BY <2>4, Zenon DEF InlineIncomplete, InlineUnbalanced
    <3> QED
      BY <1>4, <1>5, <2>0, <3>1
  <2>5. CASE HeaderIncomplete \/ HeaderInvalid
    <3>1. (\E type : LoopBody(type)) /\ (\E e : Break(e))
      BY <2>5, Zenon DEF HeaderIncomplete, HeaderInvalid
    <3> QED
      BY <1>4, <1>5, <2>0, <3>1
  <2>6. CASE HeaderNotStar \/ HeaderAlreadyRead
    <3>1. /\ \E type : LoopBody(type)
          /\ UNCHANGED <<conn, buffer, multi_bulk_len, bulk_len, argv>>
          /\ pc' = pc \/ pc' = "args"
      BY <2>6 DEF HeaderNotStar, HeaderAlreadyRead
    <3>2. req_type' = req_type
      BY <1>5, <3>1
    <3>3. delivered' \in Nat /\ delivered' >= delivered
      BY <1>4, <3>1
    <3> QED
      BY <1>3, <3>1, <3>2, <3>3
  <2>7. CASE BulkLenIncomplete \/ BulkLenInvalid \/ BulkIncomplete
    <3>1. req_type' = req_type /\ \E e : Break(e)
      BY <2>7, Zenon DEF BulkLenIncomplete, BulkLenInvalid, BulkIncomplete, ArgLoop
    <3> QED
      BY <1>4, <2>0, <3>1
  <2> QED
    BY <1>1, <1>2, <2>2, <2>3, <2>4, <2>5, <2>6, <2>7 DEF Next, Step
<1>7. (MultibulkWedge \/ InlineWedge)'
  BY <1>3, <1>6, WedgeKept
<1> QED
  BY <1>6, <1>7, Zenon DEF Wedged, MultibulkWedge, InlineWedge

(* After a protocol error nothing more is executed on the connection,      *)
(* although it stays open (client.c:125-127, 235-238, 275-289).            *)
THEOREM ErrorEndsExecution == Spec => ErrorIsFinal
<1>1. ASSUME IInv, Wedged, [Next]_vars,
             err \notin {"none", "too big inline request"}, connections' = connections
      PROVE  executed' = executed
  <2>1. ~process_command
    BY <1>1, WedgeBlocks, Zenon DEF Fatal
  <2> QED
    BY <1>1, <2>1, OnlyRunExecutes, ReconnectCounts, Zenon
<1> QED
  BY <1>1, InitWedged, NextWedged, ParserInvariant, PTL DEF Spec, ErrorIsFinal
-----------------------------------------------------------------------------
(* The refinement mapping: how a state of the parser looks to one that has *)
(* the whole stream.                                                       *)
Pos == IF bulk_len = -1 THEN Parsed ELSE Parsed - 3
Phase == IF pc = "run" THEN "run" ELSE "parse"
wholeVars == <<stream, Pos, StreamType, multi_bulk_len, argv, executed, closing, Phase, proc>>

(* The variables of RespStream under the refinement mapping. *)
LEMMA WholeVars == Whole!vars = wholeVars
BY DEF Whole!vars, wholeVars, Pos, Phase

(* The initial states agree. *)
LEMMA InitRefines == Init => Whole!Init
BY DEF Init, Whole!Init, Whole!TypeAt, StreamType, Parsed, NONE, PROTO_REQ_INLINE,
       PROTO_REQ_MULTIBULK, Whole!INLINE, Whole!MULTIBULK

(* The type fixed from the symbols that arrived is the one the whole       *)
(* stream shows.                                                           *)
LEMMA TypeSeen ==
  ASSUME IInv, NEW type \in {PROTO_REQ_INLINE, PROTO_REQ_MULTIBULK}, LoopBody(type)
  PROVE  StreamType = type /\ StreamType' = type
<1>1. Parsed \in Nat /\ delivered \in Nat /\ delivered <= Len(stream) /\ Len(stream) \in Nat
  BY DEF IInv, TypeOK, ParsesOnlyWhatArrived, Parsed
<1>2. Parsed < delivered
  BY <1>1 DEF LoopBody, Unparsed
<1>3. Parsed \in 0 .. Len(stream) - 1
  BY <1>1, <1>2
<1> QED
  BY <1>3 DEF LoopBody, RequestType, StreamType, NONE, PROTO_REQ_INLINE, PROTO_REQ_MULTIBULK

(* Reading, waiting for more, answering an error and trimming querybuf are *)
(* invisible.                                                              *)
LEMMA BreakStutters ==
  ASSUME IInv, NEW e, Break(e), pc # "run", StreamType' = StreamType
  PROVE  UNCHANGED wholeVars
BY DEF Break, wholeVars, Pos, Phase, Parsed, conn, buffer

(* Nor does any step that only waits, fails or finishes change what is seen. *)
LEMMA Stutters ==
  ASSUME IInv,
         \/ Receive \/ LoopEnd \/ HandlerReturns \/ InlineIncomplete
         \/ \E p \in 1 .. Len(stream) : InlineUnbalanced(p)
         \/ HeaderIncomplete \/ HeaderInvalid \/ HeaderAlreadyRead
         \/ BulkLenIncomplete \/ BulkLenInvalid \/ BulkIncomplete
         \/ UNCHANGED vars
  PROVE  UNCHANGED wholeVars
<1>0. base \in Nat /\ qb_pos \in Nat
  BY DEF IInv, TypeOK
<1>1. CASE Receive \/ LoopEnd \/ UNCHANGED vars
  BY <1>1
  DEF Receive, Read, LoopEnd, vars, conn, buffer, request, outcome, wholeVars, Pos, Phase, Parsed,
      StreamType
<1>2. CASE HandlerReturns
  <2>1. Parsed' = Parsed
    BY <1>0, <1>2 DEF HandlerReturns, Parsed
  <2> QED
    BY <1>2, <2>1, Zenon
    DEF HandlerReturns, conn, request, outcome, wholeVars, Pos, Phase, StreamType
<1>3. CASE InlineIncomplete \/ \E p \in 1 .. Len(stream) : InlineUnbalanced(p)
  <2>1. LoopBody(PROTO_REQ_INLINE) /\ \E e : Break(e)
    BY <1>3, Zenon DEF InlineIncomplete, InlineUnbalanced
  <2>2. StreamType' = StreamType /\ pc # "run"
    BY <2>1, TypeSeen DEF LoopBody
  <2> QED
    BY <2>1, <2>2, BreakStutters, Zenon
<1>4. CASE HeaderIncomplete \/ HeaderInvalid
  <2>1. LoopBody(PROTO_REQ_MULTIBULK) /\ \E e : Break(e)
    BY <1>4, Zenon DEF HeaderIncomplete, HeaderInvalid
  <2>2. StreamType' = StreamType /\ pc # "run"
    BY <2>1, TypeSeen DEF LoopBody
  <2> QED
    BY <2>1, <2>2, BreakStutters, Zenon
<1>5. CASE HeaderAlreadyRead
  <2>1. StreamType' = StreamType /\ pc # "run"
    BY <1>5, TypeSeen DEF HeaderAlreadyRead, LoopBody
  <2> QED
    BY <1>5, <2>1 DEF HeaderAlreadyRead, conn, buffer, outcome, wholeVars, Pos, Phase, Parsed
<1>6. CASE BulkLenIncomplete \/ BulkLenInvalid \/ BulkIncomplete
  <2>1. ArgLoop /\ \E e : Break(e)
    BY <1>6, Zenon DEF BulkLenIncomplete, BulkLenInvalid, BulkIncomplete
  <2>2. StreamType' = StreamType /\ pc # "run"
    BY <2>1 DEF ArgLoop, IInv, Places, StreamType, NONE, PROTO_REQ_MULTIBULK
  <2> QED
    BY <2>1, <2>2, BreakStutters, Zenon
<1> QED
  BY <1>1, <1>2, <1>3, <1>4, <1>5, <1>6

(* A line of words is consumed with its line end, when linefeed_chars      *)
(* starts from one.                                                        *)
LEMMA LineRefines ==
  ASSUME IInv, OneOrdinaryConnection, NEW p \in 1 .. Len(stream), InlineRequest(p)
  PROVE  Whole!Line(p)
<1>1. /\ base \in Nat /\ qb_pos \in Nat /\ Parsed \in Nat /\ Parsed = base + qb_pos
      /\ delivered \in Nat /\ delivered <= Len(stream) /\ Len(stream) \in Nat
  BY DEF IInv, TypeOK, ParsesOnlyWhatArrived, Parsed
<1>2. /\ p \in Parsed + 1 .. delivered /\ stream[p].t = "LF"
      /\ \A i \in Parsed + 1 .. p - 1 : stream[i].t # "LF"
      /\ \A i \in Parsed + 1 .. Parsed + QueryLen(p) : stream[i].t # "QUOTE"
  BY DEF InlineRequest, FirstLF
<1>3. LoopBody(PROTO_REQ_INLINE) /\ StreamType = PROTO_REQ_INLINE /\ StreamType' = PROTO_REQ_INLINE
  BY TypeSeen DEF InlineRequest
<1>4. bulk_len = -1 /\ bulk_len' = -1
  <2>1. RequestType = PROTO_REQ_INLINE
    BY <1>3 DEF LoopBody
  <2>2. req_type # PROTO_REQ_MULTIBULK
    BY <2>1 DEF RequestType, NONE, PROTO_REQ_INLINE, PROTO_REQ_MULTIBULK
  <2>3. bulk_len # -1 => req_type = PROTO_REQ_MULTIBULK
    BY DEF IInv, ArgvFits
  <2>4. bulk_len' = bulk_len
    BY DEF InlineRequest
  <2> QED
    BY <2>2, <2>3, <2>4
<1>5. Parsed + QueryLen(p) = IF p - 1 > Parsed /\ stream[p - 1].t = "CR" THEN p - 2 ELSE p - 1
  BY <1>1, <1>2 DEF QueryLen
<1>6. \A i \in Parsed + 1 .. p - 1 : stream[i].t # "QUOTE"
  <2>1. ASSUME NEW i \in Parsed + 1 .. p - 1 PROVE stream[i].t # "QUOTE"
    <3>1. CASE i <= Parsed + QueryLen(p)
      <4>1. i \in Parsed + 1 .. Parsed + QueryLen(p)
        BY <1>1, <1>2, <1>5, <3>1
      <4> QED
        BY <1>2, <4>1
    <3>2. CASE ~(i <= Parsed + QueryLen(p))
      BY <1>1, <1>2, <1>5, <3>2
    <3> QED
      BY <3>1, <3>2
  <2> QED
    BY <2>1
<1>7. Parsed' = p
  <2> DEFINE crlf == IF QueryLen(p) < p - 1 - Parsed THEN 1 ELSE 0
             q == qb_pos + QueryLen(p) + 1 + crlf
  <2>1. qb_pos' = IF q \in 0 .. delivered - base THEN q ELSE delivered - base
    BY DEF InlineRequest, OneOrdinaryConnection
  <2>2. QueryLen(p) \in Int /\ QueryLen(p) + crlf = p - 1 - Parsed
    <3>1. \/ QueryLen(p) = p - 1 - Parsed
          \/ QueryLen(p) = p - 1 - Parsed - 1
      BY DEF QueryLen
    <3>2. p \in Int
      BY <1>1
    <3> QED
      BY <1>1, <3>1, <3>2
  <2> HIDE DEF crlf
  <2>3. crlf \in Int
    BY DEF crlf
  <2>4. q = p - base
    <3>1. q = qb_pos + (QueryLen(p) + crlf) + 1 /\ p \in Int
      BY <1>1, <2>2, <2>3
    <3> HIDE DEF q
    <3> QED
      BY <1>1, <2>2, <3>1
  <2>5. p - base \in 0 .. delivered - base
    BY <1>1, <1>2
  <2>6. qb_pos' = p - base /\ base' = base
    BY <2>1, <2>4, <2>5 DEF InlineRequest
  <2> QED
    BY <1>1, <2>6 DEF Parsed
<1>8. /\ stream' = stream /\ multi_bulk_len' = multi_bulk_len /\ executed' = executed
      /\ closing' = closing /\ proc' = proc /\ pc' = "run"
      /\ argv' = sds_split_args(SubSeq(stream, Parsed + 1, Parsed + QueryLen(p)))
  BY DEF InlineRequest, conn, outcome
<1>9. proc = "up" /\ pc # "run" /\ closing = "no"
  BY <1>3 DEF LoopBody
<1>10. p \in Parsed + 1 .. Len(stream)
  BY <1>1, <1>2
<1> QED
  BY <1>2, <1>3, <1>4, <1>5, <1>6, <1>7, <1>8, <1>9, <1>10
  DEF Whole!Line, Whole!Parsing, Whole!INLINE, PROTO_REQ_INLINE

(* Reading a header is the Header step of RespStream. *)
LEMMA HeaderRefines == ASSUME IInv, HeaderRead PROVE Whole!Header
<1>1. /\ Parsed \in Nat /\ delivered \in Nat /\ delivered <= Len(stream) /\ Len(stream) \in Nat
      /\ base \in Nat /\ qb_pos \in Nat
  BY DEF IInv, TypeOK, ParsesOnlyWhatArrived, Parsed
<1>2. /\ LoopBody(PROTO_REQ_MULTIBULK)
      /\ StreamType = PROTO_REQ_MULTIBULK /\ StreamType' = PROTO_REQ_MULTIBULK
  BY TypeSeen DEF HeaderRead
<1>3. Parsed + 3 <= delivered /\ LineIsLength("*") /\ LengthRead \in Int
  BY LengthLineArrived DEF HeaderRead, ValidHeader
<1>4. bulk_len = -1 /\ bulk_len' = -1 /\ Parsed' = Parsed + 3
  BY <1>1 DEF HeaderRead, IInv, TypeOK, ArgvFits, Parsed
<1>5. Whole!Length(Parsed, "*")
  BY <1>1, <1>3 DEF Whole!Length, LineIsLength
<1> QED
  BY <1>2, <1>3, <1>4, <1>5
  DEF HeaderRead, ValidHeader, LengthRead, LoopBody, Whole!Header, Whole!Parsing,
      Whole!MULTIBULK, PROTO_REQ_MULTIBULK, conn, outcome

(* The two parts of an argument, its length line and its bytes, may arrive *)
(* in different reads; the argument is visible once it is complete.        *)
LEMMA LengthStutters == ASSUME IInv, BulkLenRead PROVE UNCHANGED wholeVars
<1>1. /\ base \in Nat /\ qb_pos \in Nat /\ Parsed \in Nat /\ Parsed = base + qb_pos
  BY DEF IInv, TypeOK, Parsed
<1>2. bulk_len = -1 /\ bulk_len' # -1
  BY DEF BulkLenRead, ValidBulkLen
<1>3. Parsed' = Parsed + 3
  <2>1. (base' = Parsed + 3 /\ qb_pos' = 0) \/ (base' = base /\ qb_pos' = qb_pos + 3)
    BY DEF BulkLenRead
  <2>2. Parsed' = base' + qb_pos'
    BY DEF Parsed
  <2> QED
    BY <1>1, <2>1, <2>2
<1>4. Pos' = Pos
  BY <1>1, <1>2, <1>3 DEF Pos
<1>5. StreamType' = StreamType
  BY DEF BulkLenRead, ArgLoop, IInv, Places, StreamType, NONE, PROTO_REQ_MULTIBULK
<1> QED
  BY <1>4, <1>5 DEF BulkLenRead, ArgLoop, wholeVars, Phase, conn, outcome

(* Storing an argument is its Argument step. *)
LEMMA ArgumentRefines == ASSUME IInv, BulkRead PROVE Whole!Argument
<1>1. /\ base \in Nat /\ qb_pos \in Nat /\ Parsed \in Nat /\ Parsed = base + qb_pos
      /\ delivered \in Nat /\ delivered <= Len(stream) /\ Len(stream) \in Nat
      /\ bulk_len \in 0 .. MaxBulk
  BY RespAssumption DEF BulkRead, IInv, TypeOK, ParsesOnlyWhatArrived, Parsed
<1>2. /\ Parsed >= 3
      /\ stream[Parsed - 2].t = "$" /\ stream[Parsed - 2].n = bulk_len
      /\ stream[Parsed - 1].t = "CR"
  BY DEF BulkRead, IInv, LengthLineBehind
<1>3. bulk_len \in Nat /\ Parsed + bulk_len + 2 <= Len(stream)
  BY <1>1, RespAssumption DEF BulkRead, Unparsed
<1>4. /\ Pos = Parsed - 3 /\ Pos + 1 = Parsed - 2 /\ Pos + 2 = Parsed - 1
      /\ Pos + 3 = Parsed /\ Pos + 4 = Parsed + 1
  BY <1>1, <1>2, RespAssumption DEF Pos
<1>5. bulk_len' = -1 /\ Pos' = Parsed + bulk_len + 2
  <2>1. bulk_len' = -1
    BY DEF BulkRead
  <2>2. Parsed' = Parsed + bulk_len + 2
    <3>1. Parsed + bulk_len + 2 <= delivered
      BY <1>1 DEF BulkRead, Unparsed
    <3>2. base' + qb_pos' = Parsed + bulk_len + 2
      BY <1>1, <3>1 DEF BulkRead, Unparsed
    <3> QED
      BY <3>2 DEF Parsed
  <2> QED
    BY <2>1, <2>2 DEF Pos
<1>6. /\ pc = "args" /\ closing = "no" /\ StreamType = PROTO_REQ_MULTIBULK
      /\ StreamType' = StreamType /\ multi_bulk_len # 0
  <2>1. pc = "args" /\ req_type' = req_type /\ Places /\ ArgvFits
    BY DEF BulkRead, ArgLoop, IInv
  <2>2. req_type = PROTO_REQ_MULTIBULK /\ closing = "no" /\ multi_bulk_len # 0
    BY <2>1 DEF Places, ArgvFits
  <2> QED
    BY <2>1, <2>2 DEF StreamType, NONE, PROTO_REQ_MULTIBULK
<1>7. Whole!Length(Pos, "$") /\ stream[Pos + 1].n = bulk_len
  BY <1>1, <1>2, <1>3, <1>4 DEF Whole!Length
<1>8. /\ proc = "up" /\ argv' = Append(argv, SubSeq(stream, Parsed + 1, Parsed + bulk_len))
      /\ multi_bulk_len' = multi_bulk_len - 1
      /\ pc' = IF multi_bulk_len' = 0 THEN "run" ELSE "args"
      /\ stream' = stream /\ executed' = executed /\ closing' = closing /\ proc' = proc
  BY DEF BulkRead, ArgLoop, conn, outcome
<1> QED
  BY <1>1, <1>3, <1>4, <1>5, <1>6, <1>7, <1>8
  DEF Whole!Argument, Whole!Parsing, Whole!MULTIBULK, PROTO_REQ_MULTIBULK, Pos

(* A failed assertion or a header without a star is its Abort step. *)
LEMMA AbortRefines == ASSUME IInv, HeaderNotReset \/ HeaderNotStar PROVE Whole!Abort
<1>1. /\ Parsed \in Nat /\ delivered \in Nat /\ delivered <= Len(stream) /\ Len(stream) \in Nat
  BY DEF IInv, TypeOK, ParsesOnlyWhatArrived, Parsed
<1>2. /\ LoopBody(PROTO_REQ_MULTIBULK)
      /\ StreamType = PROTO_REQ_MULTIBULK /\ StreamType' = PROTO_REQ_MULTIBULK
  BY TypeSeen DEF HeaderNotReset, HeaderNotStar
<1>3. Parsed < Len(stream) /\ bulk_len = -1
  <2>1. Unparsed > 0 /\ multi_bulk_len = 0 /\ ArgvFits
    BY <1>2 DEF LoopBody, HeaderNotReset, HeaderNotStar, IInv
  <2>2. bulk_len = -1
    BY <2>1 DEF ArgvFits
  <2>3. Unparsed = delivered - Parsed
    BY DEF Unparsed
  <2> QED
    BY <1>1, <2>1, <2>2, <2>3
<1> QED
  BY <1>2, <1>3
  DEF HeaderNotReset, HeaderNotStar, LoopBody, Whole!Abort, Whole!Parsing, Whole!MULTIBULK,
      PROTO_REQ_MULTIBULK, conn, buffer, outcome, Parsed

(* Executing a request is its Run step. *)
LEMMA RunRefines ==
  ASSUME IInv, EmptyRequest \/ process_command \/ unknown_command
  PROVE  Whole!Run
<1>1. bulk_len = -1 /\ bulk_len' = -1 /\ multi_bulk_len = 0 /\ multi_bulk_len' = 0
  BY DEF EmptyRequest, process_command, unknown_command, reset_redis_client, request, IInv, Places
<1>2. stream' = stream /\ Parsed' = Parsed
  BY DEF EmptyRequest, process_command, unknown_command, conn, buffer, Parsed
<1>3. CASE EmptyRequest \/ process_command
  <2>1. StreamType' = Whole!TypeAt(Parsed)
    BY <1>2, <1>3
    DEF EmptyRequest, process_command, reset_redis_client, StreamType, Whole!TypeAt, NONE,
        PROTO_REQ_INLINE, PROTO_REQ_MULTIBULK, Whole!INLINE, Whole!MULTIBULK
  <2>2. pc = "run" /\ pc' = "loop" /\ argv' = <<>>
    BY <1>3 DEF EmptyRequest, process_command, reset_redis_client
  <2> QED
    BY <1>1, <1>2, <1>3, <2>1, <2>2
    DEF EmptyRequest, process_command, reset_redis_client, Whole!Run, outcome
<1>4. CASE unknown_command
  <2>1. StreamType' = StreamType
    BY <1>2, <1>4 DEF unknown_command, request, StreamType
  <2> QED
    BY <1>1, <1>2, <1>4, <2>1 DEF unknown_command, Whole!Run, request, outcome
<1> QED
  BY <1>3, <1>4

(* Every step of the handler is a step of RespStream or a stutter. *)
LEMMA StepRefines ==
  ASSUME IInv, OneOrdinaryConnection, connections = 1, [Next]_vars
  PROVE  [Whole!Next]_(Whole!vars)
<1>1. ~Reconnect
  BY DEF Reconnect, OneOrdinaryConnection
<1>2. CASE UNCHANGED wholeVars
  BY <1>2, WholeVars DEF Whole!vars, wholeVars, Pos, Phase
<1>3. ASSUME NEW p \in 1 .. Len(stream), InlineRequest(p) PROVE Whole!Next
  BY <1>3, LineRefines DEF Whole!Next
<1>4. CASE HeaderRead \/ BulkRead \/ HeaderNotReset \/ HeaderNotStar
  BY <1>4, HeaderRefines, ArgumentRefines, AbortRefines DEF Whole!Next
<1>5. CASE EmptyRequest \/ process_command \/ unknown_command
  BY <1>5, RunRefines, Zenon DEF Whole!Next
<1> QED
  BY <1>1, <1>2, <1>3, <1>4, <1>5, Stutters, LengthStutters DEF Next, Step

(* There is only one connection when the bound is one. *)
LEMMA OnlyReconnectCounts ==
  ASSUME [Next]_vars, ~Reconnect PROVE connections' = connections
BY Zenon DEF Next, Step, Receive, vars, conn, buffer, request, outcome, Read, LoopEnd, Break,
  InlineIncomplete, InlineUnbalanced, InlineRequest, HeaderNotReset, HeaderIncomplete,
  HeaderNotStar, HeaderInvalid, HeaderRead, HeaderAlreadyRead, BulkLenIncomplete, BulkLenInvalid,
  BulkLenRead, BulkIncomplete, BulkRead, EmptyRequest, process_command, unknown_command,
  HandlerReturns

(* Without reconnects there is only the first connection. *)
LEMMA OneConnection == MaxConnections = 1 => (Spec => [](connections = 1))
<1> SUFFICES ASSUME MaxConnections = 1 PROVE Spec => [](connections = 1)
  OBVIOUS
<1>1. Init => connections = 1
  BY DEF Init
<1>2. connections = 1 /\ [Next]_vars => (connections = 1)'
  <2>1. connections = 1 => ~Reconnect
    BY DEF Reconnect
  <2> QED
    BY <2>1, OnlyReconnectCounts
<1> QED
  BY <1>1, <1>2, PTL DEF Spec

(* What is executed does not depend on how the stream is cut into reads:   *)
(* for every set of streams and all limits the parser implements the one   *)
(* that has the whole stream at once (client.c:129-443).                   *)
THEOREM ReadsAreInvisible == OneOrdinaryConnection => (Spec => ReadsDoNotMatter)
<1> SUFFICES ASSUME OneOrdinaryConnection PROVE Spec => ReadsDoNotMatter
  OBVIOUS
<1>1. IInv /\ connections = 1 /\ [Next]_vars => [Whole!Next]_(Whole!vars)
  BY StepRefines
<1>2. Spec => [](connections = 1)
  BY OneConnection DEF OneOrdinaryConnection
<1> QED
  BY <1>1, <1>2, InitRefines, ParserInvariant, PTL
  DEF Spec, ReadsDoNotMatter, Whole!Spec
-----------------------------------------------------------------------------
(* Where the parser is in a well-formed stream.  Between two requests, i   *)
(* of them are behind it and nothing of the next is stored; within request *)
(* i it has stored the first arguments and stands in front of the length   *)
(* line or, when bulk_len is known, of the symbols of the next one; at the *)
(* end of request i all of its arguments are stored.                       *)
Between(s, i) ==
  /\ pc \in {"idle", "loop", "end"} /\ req_type # PROTO_REQ_INLINE
  /\ multi_bulk_len = 0 /\ bulk_len = -1 /\ argv = <<>>
  /\ Parsed = RequestsEnd(s)[i]

Within(s, i) ==
  /\ pc \in {"idle", "loop", "args", "end"} /\ req_type = PROTO_REQ_MULTIBULK
  /\ multi_bulk_len > 0 /\ Len(argv) + multi_bulk_len = Len(s[i])
  /\ argv = SubSeq(s[i], 1, Len(argv))
  /\ bulk_len \in {-1, Len(s[i][Len(argv) + 1])}
  /\ Parsed = RequestsEnd(s)[i - 1] + ArgsEnd(s[i])[Len(argv)] + (IF bulk_len = -1 THEN 0 ELSE 3)

Complete(s, i) ==
  /\ pc = "run" /\ req_type = PROTO_REQ_MULTIBULK
  /\ multi_bulk_len = 0 /\ bulk_len = -1 /\ argv = s[i]
  /\ Parsed = RequestsEnd(s)[i]

Done(s, i) ==
  /\ closing = IF QuitWithin(s, i) THEN "yes" ELSE "no"
  /\ executed = Effect(s)[i]

Place(s, i) ==
  /\ Done(s, i)
  /\ \/ Between(s, i)
     \/ i < Len(s) /\ closing = "no" /\ (Within(s, i + 1) \/ Complete(s, i + 1))

(* The handler has gone as far as it could: what it waits for has not      *)
(* arrived.                                                                *)
Waits ==
  pc \in {"idle", "end"} /\ closing = "no" =>
    Unparsed < IF bulk_len = -1 THEN 3 ELSE bulk_len + 2

Follows ==
  WellFormed => Waits /\ \E i \in 0 .. Len(Script[stream]) : Place(Script[stream], i)
(* The recursive definitions of RespScript have their equations. *)
LEMMA ArgsEndIs ==
  ASSUME NEW req \in Seq(Seq(Symbol))
  PROVE  /\ \A j \in 0 .. Len(req) : ArgsEnd(req)[j] \in Nat
         /\ ArgsEnd(req)[0] = 3
         /\ \A j \in 1 .. Len(req) : ArgsEnd(req)[j] = ArgsEnd(req)[j - 1] + (Len(req[j]) + 5)
<1> DEFINE n == Len(req)
           d == [j \in 1 .. n |-> Len(req[j]) + 5]
           at == CHOOSE u : u = [j \in 0 .. n |-> IF j = 0 THEN 3 ELSE u[j - 1] + (Len(req[j]) + 5)]
<1>1. n \in Nat /\ n = Len(req)
  OBVIOUS
<1>2. d \in [1 .. n -> Nat] /\ \A j \in 1 .. n : d[j] = Len(req[j]) + 5
  <2>1. \A j \in 1 .. n : req[j] \in Seq(Symbol)
    OBVIOUS
  <2>2. \A j \in 1 .. n : Len(req[j]) + 5 \in Nat
    BY <2>1
  <2> QED BY <2>2
<1>3. ArgsEnd(req) = at
  BY DEF ArgsEnd
<1> HIDE DEF n, d
<1>4. PICK f \in [0 .. n -> Nat] : f[0] = 3 /\ \A i \in 1 .. n : f[i] = f[i - 1] + d[i]
  <2>1. n \in Nat /\ 3 \in Nat /\ d \in [1 .. n -> Nat]
    BY <1>1, <1>2
  <2> QED BY <2>1, RunningTotal, Zenon
<1>5. \A j \in 0 .. n : f[j] = IF j = 0 THEN 3 ELSE f[j - 1] + (Len(req[j]) + 5)
  <2>1. \A j \in 0 .. n : j = 0 \/ j \in 1 .. n
    BY <1>1
  <2> QED BY <1>2, <1>4, <2>1
<1>6. f = [j \in 0 .. n |-> IF j = 0 THEN 3 ELSE f[j - 1] + (Len(req[j]) + 5)]
  BY <1>5, Zenon
<1>7. at = [j \in 0 .. n |-> IF j = 0 THEN 3 ELSE at[j - 1] + (Len(req[j]) + 5)]
  BY <1>6, Zenon
<1> HIDE DEF at
<1>8. \A j \in 0 .. n : at[j] = IF j = 0 THEN 3 ELSE at[j - 1] + (Len(req[j]) + 5)
  BY <1>7, Zenon
<1>9. 0 \in 0 .. n /\ \A j \in 1 .. n : j \in 0 .. n /\ j # 0
  BY <1>1
<1> DEFINE T == {j \in 0 .. n : at[j] = f[j]}
<1>10. \A j \in 0 .. n : j \in T
  <2>1. 0 \in T
    BY <1>4, <1>8, <1>9
  <2>2. ASSUME NEW j \in 1 .. n, j - 1 \in T PROVE j \in T
    <3>1. at[j] = at[j - 1] + (Len(req[j]) + 5) /\ f[j] = f[j - 1] + (Len(req[j]) + 5)
      BY <1>5, <1>8, <1>9
    <3> QED BY <1>9, <2>2, <3>1
  <2> HIDE DEF T
  <2> QED BY <1>1, <2>1, <2>2, UpwardInduction, Zenon
<1>11. \A j \in 0 .. n : at[j] \in Nat
  BY <1>10
<1>12. at[0] = 3 /\ \A j \in 1 .. n : at[j] = at[j - 1] + (Len(req[j]) + 5)
  BY <1>8, <1>9
<1> QED BY <1>1, <1>3, <1>11, <1>12

IsScript(s) == s \in Seq(Seq(Seq(Symbol)))

(* A request takes its header and its arguments. *)
LEMMA RequestsEndIs ==
  ASSUME NEW s, IsScript(s)
  PROVE  /\ \A i \in 0 .. Len(s) : RequestsEnd(s)[i] \in Nat
         /\ RequestsEnd(s)[0] = 0
         /\ \A i \in 1 .. Len(s) : RequestsEnd(s)[i] = RequestsEnd(s)[i - 1] + ArgsEnd(s[i])[Len(s[i])]
<1> DEFINE n == Len(s)
           size(i) == ArgsEnd(s[i])[Len(s[i])]
           d == [i \in 1 .. n |-> size(i)]
           at == CHOOSE u : u = [i \in 0 .. n |-> IF i = 0 THEN 0 ELSE u[i - 1] + size(i)]
<1>1. n \in Nat /\ n = Len(s)
  BY DEF IsScript
<1>2. d \in [1 .. n -> Nat] /\ \A i \in 1 .. n : d[i] = size(i)
  <2>1. ASSUME NEW i \in 1 .. n PROVE size(i) \in Nat
    <3>1. s[i] \in Seq(Seq(Symbol))
      BY DEF IsScript
    <3>2. Len(s[i]) \in 0 .. Len(s[i])
      BY <3>1
    <3> QED BY <3>1, <3>2, ArgsEndIs
  <2> HIDE DEF size
  <2> QED BY <2>1
<1>3. RequestsEnd(s) = at
  BY DEF RequestsEnd
<1> HIDE DEF n, d, size
<1>4. PICK f \in [0 .. n -> Nat] : f[0] = 0 /\ \A i \in 1 .. n : f[i] = f[i - 1] + d[i]
  <2>1. 0 \in Nat
    OBVIOUS
  <2> QED BY <1>1, <1>2, <2>1, RunningTotal, ZenonT(30)
<1>5. \A i \in 0 .. n : f[i] = IF i = 0 THEN 0 ELSE f[i - 1] + size(i)
  <2>1. \A i \in 0 .. n : i = 0 \/ i \in 1 .. n
    BY <1>1
  <2> QED BY <1>2, <1>4, <2>1
<1>6. f = [i \in 0 .. n |-> IF i = 0 THEN 0 ELSE f[i - 1] + size(i)]
  BY <1>5, Zenon
<1>7. at = [i \in 0 .. n |-> IF i = 0 THEN 0 ELSE at[i - 1] + size(i)]
  BY <1>6, Zenon
<1> HIDE DEF at
<1>8. \A i \in 0 .. n : at[i] = IF i = 0 THEN 0 ELSE at[i - 1] + size(i)
  BY <1>7, Zenon
<1>9. 0 \in 0 .. n /\ \A i \in 1 .. n : i \in 0 .. n /\ i # 0
  BY <1>1
<1> DEFINE T == {i \in 0 .. n : at[i] = f[i]}
<1>10. \A i \in 0 .. n : i \in T
  <2>1. 0 \in T
    BY <1>4, <1>8, <1>9
  <2>2. ASSUME NEW i \in 1 .. n, i - 1 \in T PROVE i \in T
    <3>1. at[i] = at[i - 1] + size(i) /\ f[i] = f[i - 1] + size(i)
      BY <1>5, <1>8, <1>9
    <3> QED BY <1>9, <2>2, <3>1
  <2> HIDE DEF T
  <2> QED BY <1>1, <2>1, <2>2, UpwardInduction, Zenon
<1>11. \A i \in 0 .. n : at[i] \in Nat
  BY <1>10
<1>12. at[0] = 0 /\ \A i \in 1 .. n : at[i] = at[i - 1] + size(i)
  BY <1>8, <1>9
<1> QED BY <1>1, <1>3, <1>11, <1>12 DEF size

(* An empty request, or one behind a QUIT, has no effect. *)
LEMMA EffectIs ==
  ASSUME NEW s, IsScript(s)
  PROVE  /\ Effect(s)[0] = <<>>
         /\ \A i \in 1 .. Len(s) :
              Effect(s)[i] = IF s[i] = <<>> \/ QuitWithin(s, i - 1) THEN Effect(s)[i - 1]
                             ELSE Append(Effect(s)[i - 1], s[i])
<1> DEFINE n == Len(s)
           S == Seq(Seq(Seq(Symbol)))
           skip(i) == s[i] = <<>> \/ QuitWithin(s, i - 1)
           step == [i \in 1 .. n |-> [q \in S |-> IF skip(i) THEN q ELSE Append(q, s[i])]]
           done == CHOOSE u : u = [i \in 0 .. n |-> IF i = 0 THEN <<>>
                                                   ELSE IF skip(i) THEN u[i - 1] ELSE Append(u[i - 1], s[i])]
<1>1. n \in Nat /\ n = Len(s) /\ <<>> \in S
  BY DEF IsScript
<1>2. \A i \in 1 .. n : \A q \in S : Append(q, s[i]) \in S
  BY DEF IsScript
<1>3. Effect(s) = done
  BY DEF Effect
<1> HIDE DEF n, skip, S
<1>4. step \in [1 .. n -> [S -> S]]
      /\ \A i \in 1 .. n : \A q \in S : step[i][q] = IF skip(i) THEN q ELSE Append(q, s[i])
  BY <1>2
<1> HIDE DEF step
<1>5. PICK f \in [0 .. n -> S] : Iterates(f, n, <<>>, step)
  BY <1>1, <1>4, IterationExists, Zenon
<1>6. \A i \in 0 .. n :
        f[i] = IF i = 0 THEN <<>> ELSE IF skip(i) THEN f[i - 1] ELSE Append(f[i - 1], s[i])
  <2>1. f[0] = <<>> /\ \A i \in 1 .. n : f[i] = step[i][f[i - 1]]
    BY <1>5 DEF Iterates
  <2>2. \A i \in 0 .. n : i = 0 \/ i \in 1 .. n
    BY <1>1
  <2>3. \A i \in 1 .. n : f[i - 1] \in S
    BY <1>1
  <2> QED BY <1>4, <2>1, <2>2, <2>3, Zenon
<1>7. f = [i \in 0 .. n |-> IF i = 0 THEN <<>> ELSE IF skip(i) THEN f[i - 1] ELSE Append(f[i - 1], s[i])]
  BY <1>6, Zenon
<1>8. done = [i \in 0 .. n |-> IF i = 0 THEN <<>>
                              ELSE IF skip(i) THEN done[i - 1] ELSE Append(done[i - 1], s[i])]
  BY <1>7, Zenon
<1> HIDE DEF done
<1>9. 0 \in 0 .. n /\ \A i \in 1 .. n : i \in 0 .. n /\ i # 0
  BY <1>1
<1>10. done[0] = <<>> /\ \A i \in 1 .. n : done[i] = IF skip(i) THEN done[i - 1] ELSE Append(done[i - 1], s[i])
  BY <1>8, <1>9, Zenon
<1> QED BY <1>1, <1>3, <1>10 DEF skip

(* A QUIT is within the first i requests when it is one of them. *)
LEMMA QuitSteps ==
  /\ \A s : ~QuitWithin(s, 0)
  /\ \A s : \A i \in Nat : QuitWithin(s, i + 1) <=> QuitWithin(s, i) \/ Quits(s[i + 1])
<1>1. \A s : ~QuitWithin(s, 0)
  BY DEF QuitWithin
<1>2. ASSUME NEW s, NEW i \in Nat PROVE QuitWithin(s, i + 1) <=> QuitWithin(s, i) \/ Quits(s[i + 1])
  <2>1. \A k \in 1 .. i + 1 : k \in 1 .. i \/ k = i + 1
    OBVIOUS
  <2>2. i + 1 \in 1 .. i + 1 /\ \A k \in 1 .. i : k \in 1 .. i + 1
    OBVIOUS
  <2> QED BY <2>1, <2>2, Zenon DEF QuitWithin
<1> QED BY <1>1, <1>2

(* Behind a QUIT nothing more happens. *)
LEMMA QuitEndsScript ==
  ASSUME NEW s, IsScript(s), NEW i \in 0 .. Len(s), QuitWithin(s, i)
  PROVE  Effect(s)[Len(s)] = Effect(s)[i]
<1> DEFINE n == Len(s)
           T == {m \in 0 .. n : m >= i => QuitWithin(s, m) /\ Effect(s)[m] = Effect(s)[i]}
<1>1. n \in Nat
  BY DEF IsScript
<1>2. 0 \in T
  BY <1>1
<1>3. ASSUME NEW m \in 1 .. n, m - 1 \in T PROVE m \in T
  <2>1. CASE m > i
    <3>1. QuitWithin(s, m - 1) /\ Effect(s)[m - 1] = Effect(s)[i]
      BY <1>3, <2>1
    <3>2. m - 1 \in Nat /\ (m - 1) + 1 = m
      BY <1>1
    <3>3. QuitWithin(s, m)
      BY <3>1, <3>2, QuitSteps
    <3>4. Effect(s)[m] = Effect(s)[m - 1]
      BY <3>1, EffectIs
    <3> QED BY <1>1, <3>1, <3>3, <3>4
  <2>2. CASE m = i
    BY <1>1, <2>2
  <2>3. CASE m < i
    BY <1>1, <2>3
  <2> QED BY <1>1, <2>1, <2>2, <2>3
<1> HIDE DEF T
<1>4. \A m \in 0 .. n : m \in T
  BY <1>1, <1>2, <1>3, UpwardInduction, Zenon
<1>5. n \in 0 .. n /\ n >= i
  BY <1>1
<1> QED BY <1>4, <1>5 DEF T

(* Where requests and arguments end: none reaches into the next. *)
LEMMA ArgumentsFit ==
  ASSUME NEW req \in Seq(Seq(Symbol)), NEW j \in 0 .. Len(req)
  PROVE  3 <= ArgsEnd(req)[j] /\ ArgsEnd(req)[j] <= ArgsEnd(req)[Len(req)]
<1> DEFINE n == Len(req)
           f == [k \in 0 .. n |-> ArgsEnd(req)[k]]
<1>1. n \in Nat /\ n = Len(req) /\ j \in 0 .. n
  OBVIOUS
<1>2. f \in [0 .. n -> Nat] /\ \A k \in 0 .. n : f[k] = ArgsEnd(req)[k]
  BY <1>1, ArgsEndIs
<1>3. f[0] = 3
  BY <1>1, <1>2, ArgsEndIs
<1>4. ASSUME NEW k \in 1 .. n PROVE f[k - 1] <= f[k]
  <2>1. req[k] \in Seq(Symbol) /\ k \in 0 .. n /\ k - 1 \in 0 .. n
    BY <1>1
  <2>2. Len(req[k]) \in Nat
    BY <2>1
  <2>3. ArgsEnd(req)[k] = ArgsEnd(req)[k - 1] + (Len(req[k]) + 5)
    BY <1>1, ArgsEndIs
  <2>4. f[k] = f[k - 1] + (Len(req[k]) + 5) /\ f[k - 1] \in Nat
    BY <1>2, <2>1, <2>3, Zenon
  <2> QED BY <2>2, <2>4
<1> HIDE DEF f, n
<1>5. 0 \in 0 .. n /\ j \in 0 .. n /\ n \in j .. n
  BY <1>1
<1>6. f[0] <= f[j] /\ f[j] <= f[n]
  BY <1>1, <1>2, <1>4, <1>5, NeverFalls, Zenon
<1> QED BY <1>1, <1>2, <1>3, <1>5, <1>6

(* The same for the requests of a script. *)
LEMMA RequestsFit ==
  ASSUME NEW s, IsScript(s), NEW i \in 1 .. Len(s)
  PROVE  /\ RequestsEnd(s)[i - 1] \in Nat /\ RequestsEnd(s)[i] \in Nat
         /\ RequestsEnd(s)[i - 1] + 3 <= RequestsEnd(s)[i]
         /\ RequestsEnd(s)[i] <= RequestsEnd(s)[Len(s)]
<1> DEFINE n == Len(s)
           f == [k \in 0 .. n |-> RequestsEnd(s)[k]]
<1>1. n \in Nat /\ n = Len(s) /\ i \in 1 .. n
  BY DEF IsScript
<1>2. f \in [0 .. n -> Nat] /\ \A k \in 0 .. n : f[k] = RequestsEnd(s)[k]
  BY <1>1, RequestsEndIs
<1>3. ASSUME NEW k \in 1 .. n PROVE f[k - 1] + 3 <= f[k]
  <2>1. s[k] \in Seq(Seq(Symbol)) /\ k \in 0 .. n /\ k - 1 \in 0 .. n
    BY <1>1 DEF IsScript
  <2>2. Len(s[k]) \in 0 .. Len(s[k])
    BY <2>1
  <2>3. 3 <= ArgsEnd(s[k])[Len(s[k])] /\ ArgsEnd(s[k])[Len(s[k])] \in Nat
    BY <2>1, <2>2, ArgumentsFit, ArgsEndIs
  <2>4. RequestsEnd(s)[k] = RequestsEnd(s)[k - 1] + ArgsEnd(s[k])[Len(s[k])]
    BY <1>1, RequestsEndIs
  <2>5. f[k] = f[k - 1] + ArgsEnd(s[k])[Len(s[k])] /\ f[k - 1] \in Nat
    BY <1>2, <2>1, <2>4
  <2> QED BY <2>3, <2>5
<1> HIDE DEF f, n
<1>4. i - 1 \in 0 .. n /\ i \in 0 .. n /\ n \in i .. n /\ n \in 0 .. n
  BY <1>1
<1>5. \A k \in 1 .. n : f[k - 1] <= f[k]
  <2>1. \A k \in 1 .. n : k - 1 \in 0 .. n /\ k \in 0 .. n
    BY <1>1
  <2>2. \A k \in 1 .. n : f[k - 1] \in Nat /\ f[k] \in Nat
    BY <1>2, <2>1
  <2> QED BY <1>3, <2>2
<1>6. f[i] <= f[n]
  BY <1>1, <1>2, <1>4, <1>5, NeverFalls, Zenon
<1> QED BY <1>1, <1>2, <1>3, <1>4, <1>6
-----------------------------------------------------------------------------
(* The peer sends the script s. *)
Sends(s) ==
  /\ IsScript(s) /\ \A i \in 1 .. Len(s) : IsRequest(s[i])
  /\ Carries(stream, s)

(* A stream with a script carries it. *)
LEMMA WellFormedSends == ASSUME WellFormed PROVE Sends(Script[stream])
BY ScriptAssumption DEF WellFormed, Sends, IsScript

(* What the parse position is in numbers. *)
LEMMA Numbers ==
  ASSUME IInv
  PROVE  /\ base \in Nat /\ qb_pos \in Nat /\ delivered \in Nat /\ Parsed \in Nat /\ Unparsed \in Nat
         /\ Parsed = base + qb_pos /\ Unparsed = delivered - Parsed
         /\ Len(stream) \in Nat /\ delivered <= Len(stream)
         /\ multi_bulk_len \in Nat /\ bulk_len \in -1 .. MaxBulk /\ MaxBulk \in Nat
         /\ Len(argv) \in Nat
<1>1. stream \in Seq(Symbol) /\ argv \in Seq(Seq(Symbol))
  BY DEF IInv, TypeOK
<1>2. Len(stream) \in Nat /\ Len(argv) \in Nat
  BY <1>1
<1>3. multi_bulk_len \in 0 .. MaxMultiBulk /\ bulk_len \in -1 .. MaxBulk /\ MaxBulk \in Nat /\ MaxMultiBulk \in Nat
  BY RespAssumption DEF IInv, TypeOK
<1>4. base \in Nat /\ qb_pos \in Nat /\ delivered \in Nat /\ Parsed <= delivered /\ delivered <= Len(stream)
  BY DEF IInv, TypeOK, ParsesOnlyWhatArrived
<1>5. Parsed = base + qb_pos /\ Unparsed = delivered - Parsed
  BY DEF Parsed, Unparsed
<1> QED BY <1>2, <1>3, <1>4, <1>5

(* A length line is there as soon as three symbols are. *)
LEMMA LineArrives ==
  ASSUME IInv, stream[Parsed + 2].t = "CR", Unparsed >= 3
  PROVE  HasLine
<1>0. Parsed \in Nat /\ Unparsed \in Nat /\ delivered \in Nat /\ Unparsed = delivered - Parsed
  BY Numbers
<1>1. Parsed + 2 \in Parsed + 1 .. delivered - 1
  BY <1>0
<1> QED BY <1>1 DEF HasLine

(* In front of a request stands its number of arguments. *)
LEMMA AtHeader ==
  ASSUME IInv, NEW s, Sends(s), NEW i \in 1 .. Len(s), Parsed = RequestsEnd(s)[i - 1]
  PROVE  /\ stream[Parsed + 1].t = "*" /\ ValidHeader /\ LengthRead = Len(s[i])
         /\ Len(s[i]) \in Nat
         /\ Unparsed >= 3 => HasLine
         /\ Parsed + 3 <= Len(stream)
<1>1. IsScript(s) /\ IsRequest(s[i]) /\ Carries(stream, s)
  BY DEF Sends
<1>2. LengthLine(stream, Parsed, "*", Len(s[i])) /\ Len(stream) = RequestsEnd(s)[Len(s)]
  BY <1>1 DEF Carries
<1>3. Parsed + 3 <= Len(stream)
  <2>1. /\ RequestsEnd(s)[i - 1] \in Nat /\ RequestsEnd(s)[i] \in Nat
        /\ RequestsEnd(s)[i - 1] + 3 <= RequestsEnd(s)[i]
        /\ RequestsEnd(s)[i] <= RequestsEnd(s)[Len(s)]
    BY <1>1, RequestsFit
  <2>2. RequestsEnd(s)[Len(s)] \in Nat
    BY <1>2, Numbers
  <2> QED BY <1>2, <2>1, <2>2
<1>4. Len(s[i]) <= MaxMultiBulk /\ Len(s[i]) \in Nat
  BY <1>1 DEF IsRequest
<1>5. stream[Parsed + 1].t = "*" /\ LengthRead = Len(s[i]) /\ stream[Parsed + 2].t = "CR"
  BY <1>2 DEF LengthLine, LengthRead
<1>6. ValidHeader
  BY <1>4, <1>5 DEF ValidHeader, LineIsLength
<1> QED BY <1>3, <1>4, <1>5, <1>6, LineArrives

(* Where the argument behind the first k of request i starts. *)
ArgumentAt(s, i, k) == RequestsEnd(s)[i - 1] + ArgsEnd(s[i])[k]

(* Its length line and its symbols are there, and the next one follows. *)
LEMMA ArgumentLies ==
  ASSUME IInv, NEW s, Sends(s), NEW i \in 1 .. Len(s), NEW k \in 0 .. Len(s[i]) - 1
  PROVE  /\ ArgumentAt(s, i, k) \in Nat
         /\ k + 1 \in 1 .. Len(s[i])
         /\ Len(s[i][k + 1]) \in 0 .. MaxBulk
         /\ Argument(stream, ArgumentAt(s, i, k), s[i][k + 1])
         /\ ArgumentAt(s, i, k + 1) = ArgumentAt(s, i, k) + (Len(s[i][k + 1]) + 5)
         /\ ArgumentAt(s, i, k + 1) <= Len(stream)
<1>1. IsScript(s) /\ IsRequest(s[i]) /\ Carries(stream, s)
  BY DEF Sends
<1>2. s[i] \in Seq(Seq(Symbol)) /\ Len(s[i]) \in Nat /\ k + 1 \in 1 .. Len(s[i]) /\ (k + 1) - 1 = k
      /\ k \in 0 .. Len(s[i]) /\ k + 1 \in 0 .. Len(s[i]) /\ i \in 1 .. Len(s)
  <2>1. s[i] \in Seq(Seq(Symbol))
    BY <1>1 DEF IsRequest
  <2>2. Len(s[i]) \in Nat
    BY <2>1
  <2> QED BY <2>1, <2>2
<1>3. Len(s[i][k + 1]) \in 0 .. MaxBulk
  <2>1. s[i][k + 1] \in Seq(Symbol)
    BY <1>2
  <2>2. Len(s[i][k + 1]) <= MaxBulk
    BY <1>1, <1>2, Zenon DEF IsRequest
  <2>3. Len(s[i][k + 1]) \in Nat /\ MaxBulk \in Nat
    BY <2>1, RespAssumption
  <2> QED BY <2>2, <2>3
<1>4. Argument(stream, ArgumentAt(s, i, k), s[i][k + 1])
  <2>1. \A j \in 1 .. Len(s[i]) :
          Argument(stream, RequestsEnd(s)[i - 1] + ArgsEnd(s[i])[j - 1], s[i][j])
    BY <1>1, Zenon DEF Carries
  <2>2. Argument(stream, RequestsEnd(s)[i - 1] + ArgsEnd(s[i])[(k + 1) - 1], s[i][k + 1])
    BY <1>2, <2>1
  <2> QED BY <1>2, <2>2 DEF ArgumentAt
<1>5. /\ RequestsEnd(s)[i - 1] \in Nat /\ RequestsEnd(s)[i] \in Nat
      /\ RequestsEnd(s)[i] <= RequestsEnd(s)[Len(s)]
  BY <1>1, RequestsFit
<1>6. /\ ArgsEnd(s[i])[k] \in Nat /\ ArgsEnd(s[i])[k + 1] \in Nat
      /\ ArgsEnd(s[i])[k + 1] = ArgsEnd(s[i])[k] + (Len(s[i][k + 1]) + 5)
  <2> DEFINE r == s[i]
             j == k + 1
  <2>1. r \in Seq(Seq(Symbol)) /\ j \in 1 .. Len(r) /\ j \in 0 .. Len(r) /\ k \in 0 .. Len(r) /\ j - 1 = k
    BY <1>2
  <2> HIDE DEF r, j
  <2>2. ArgsEnd(r)[k] \in Nat /\ ArgsEnd(r)[j] \in Nat /\ ArgsEnd(r)[j] = ArgsEnd(r)[j - 1] + (Len(r[j]) + 5)
    BY <2>1, ArgsEndIs
  <2> QED BY <2>1, <2>2 DEF r, j
<1>7. ArgsEnd(s[i])[k + 1] <= ArgsEnd(s[i])[Len(s[i])]
  BY <1>2, ArgumentsFit
<1>8. RequestsEnd(s)[i] = RequestsEnd(s)[i - 1] + ArgsEnd(s[i])[Len(s[i])]
  BY <1>1, RequestsEndIs
<1>9. Len(stream) = RequestsEnd(s)[Len(s)] /\ RequestsEnd(s)[Len(s)] \in Nat
  <2>1. Len(stream) = RequestsEnd(s)[Len(s)]
    BY <1>1, Zenon DEF Carries
  <2>2. Len(stream) \in Nat
    BY Numbers
  <2> QED BY <2>1, <2>2
<1>10. ArgsEnd(s[i])[Len(s[i])] \in Nat
  <2>1. Len(s[i]) \in 0 .. Len(s[i])
    BY <1>2
  <2> QED BY <1>2, <2>1, ArgsEndIs
<1> DEFINE b == RequestsEnd(s)[i - 1]
           c == ArgsEnd(s[i])[k]
           d == ArgsEnd(s[i])[k + 1]
           e == ArgsEnd(s[i])[Len(s[i])]
           x == Len(s[i][k + 1])
           y == RequestsEnd(s)[i]
<1>11. /\ b \in Nat /\ c \in Nat /\ d \in Nat /\ e \in Nat /\ x \in Nat /\ y \in Nat /\ Len(stream) \in Nat
       /\ d = c + (x + 5) /\ d <= e /\ y = b + e /\ y <= Len(stream)
  <2>1. x \in Nat
    BY <1>3, RespAssumption
  <2> HIDE DEF x
  <2> QED BY <1>5, <1>6, <1>7, <1>8, <1>9, <1>10, <2>1 DEF x
<1>12. ArgumentAt(s, i, k) = b + c /\ ArgumentAt(s, i, k + 1) = b + d
  BY DEF ArgumentAt
<1> HIDE DEF b, c, d, e, x, y
<1>13. b + c \in Nat /\ b + d = (b + c) + (x + 5) /\ b + d <= Len(stream)
  BY <1>11
<1> QED BY <1>2, <1>3, <1>4, <1>12, <1>13 DEF x

(* In front of an argument stands its length ... *)
LEMMA AtLength ==
  ASSUME IInv, NEW s, Sends(s), NEW i \in 1 .. Len(s), NEW k \in 0 .. Len(s[i]) - 1,
         Parsed = ArgumentAt(s, i, k)
  PROVE  /\ ValidBulkLen /\ LengthRead = Len(s[i][k + 1])
         /\ Unparsed >= 3 => HasLine
         /\ Parsed + 5 <= Len(stream)
<1> DEFINE x == Len(s[i][k + 1])
<1>0. Parsed \in Nat /\ Len(stream) \in Nat /\ MaxBulk \in Nat
  BY Numbers
<1>1. Argument(stream, Parsed, s[i][k + 1]) /\ x \in 0 .. MaxBulk /\ Parsed + (x + 5) <= Len(stream)
  BY ArgumentLies
<1>2. stream[Parsed + 1].t = "$" /\ LengthRead = Len(s[i][k + 1]) /\ stream[Parsed + 2].t = "CR"
  BY <1>1 DEF Argument, LengthLine, LengthRead
<1>3. ValidBulkLen
  BY <1>1, <1>2 DEF ValidBulkLen, LineIsLength
<1>4. Parsed + 5 <= Len(stream)
  <2> HIDE DEF x
  <2> QED BY <1>0, <1>1
<1> QED BY <1>2, <1>3, <1>4, LineArrives

(* ... and behind that its symbols. *)
LEMMA AtSymbols ==
  ASSUME IInv, NEW s, Sends(s), NEW i \in 1 .. Len(s), NEW k \in 0 .. Len(s[i]) - 1,
         Parsed = ArgumentAt(s, i, k) + 3, bulk_len = Len(s[i][k + 1])
  PROVE  /\ SubSeq(stream, Parsed + 1, Parsed + bulk_len) = s[i][k + 1]
         /\ Parsed + bulk_len + 2 = ArgumentAt(s, i, k + 1)
         /\ Parsed + bulk_len + 2 <= Len(stream)
<1> DEFINE p == ArgumentAt(s, i, k)
           a == s[i][k + 1]
           q == ArgumentAt(s, i, k + 1)
<1>1. /\ p \in Nat /\ Len(a) \in 0 .. MaxBulk /\ Argument(stream, p, a)
      /\ q = p + (Len(a) + 5) /\ q <= Len(stream)
  BY ArgumentLies
<1>2. Parsed = p + 3 /\ bulk_len = Len(a)
  OBVIOUS
<1> HIDE DEF p, a, q
<1>3. SubSeq(stream, p + 4, p + 3 + Len(a)) = a
  BY <1>1 DEF Argument
<1>4. p + 4 = Parsed + 1 /\ p + 3 + Len(a) = Parsed + bulk_len /\ Parsed + bulk_len + 2 = q
  <2> DEFINE x == Len(a)
  <2>1. MaxBulk \in Nat
    BY Numbers
  <2>2. x \in Nat /\ p \in Nat /\ q = p + (x + 5) /\ Parsed = p + 3 /\ bulk_len = x
    BY <1>1, <1>2, <2>1
  <2> HIDE DEF x
  <2>3. p + 4 = Parsed + 1 /\ p + 3 + x = Parsed + bulk_len /\ Parsed + bulk_len + 2 = q
    BY <2>2
  <2> QED BY <2>3 DEF x
<1> QED BY <1>1, <1>3, <1>4, Zenon DEF a, q
-----------------------------------------------------------------------------
(* The next state is a place of the script. *)
Onward(s) == Waits' /\ \E k \in 0 .. Len(s) : Place(s, k)'

(* The parser stays where it is when a step only moves pc, inside the      *)
(* places of a request that are open to it.                                *)
LEMMA Stays ==
  ASSUME NEW s, NEW i \in 0 .. Len(s), Place(s, i), Waits', pc # "run",
         UNCHANGED <<multi_bulk_len, bulk_len, argv, closing, executed>>, Parsed' = Parsed,
         pc' \in {"idle", "loop", "end"},
         req_type' = req_type \/ req_type' = PROTO_REQ_MULTIBULK
  PROVE  Onward(s)
<1>1. Done(s, i)'
  BY DEF Place, Done
<1>2. CASE Between(s, i)
  <2>1. Between(s, i)'
    BY <1>2 DEF Between, PROTO_REQ_INLINE, PROTO_REQ_MULTIBULK
  <2> QED BY <1>1, <2>1 DEF Place, Onward
<1>3. CASE i < Len(s) /\ closing = "no" /\ Within(s, i + 1)
  <2>1. Within(s, i + 1)'
    BY <1>3 DEF Within
  <2> QED BY <1>1, <1>3, <2>1 DEF Place, Onward
<1> QED BY <1>2, <1>3 DEF Place, Complete

(* Reading, the end of the loop, and the return to the event loop. *)
LEMMA FollowsHandler ==
  ASSUME IInv, NEW s, Sends(s), NEW i \in 0 .. Len(s), Place(s, i), Waits,
         Receive \/ LoopEnd \/ HandlerReturns \/ UNCHANGED vars
  PROVE  Onward(s)
<1>0. /\ Parsed \in Nat /\ delivered \in Nat /\ Unparsed = delivered - Parsed /\ bulk_len \in -1 .. MaxBulk
      /\ MaxBulk \in Nat /\ base \in Nat /\ qb_pos \in Nat
  BY Numbers
<1>1. CASE Receive
  <2>1. /\ pc = "idle" /\ pc' = "loop" /\ Parsed' = Parsed
        /\ UNCHANGED <<multi_bulk_len, bulk_len, argv, closing, executed, req_type>>
    BY <1>1 DEF Receive, Read, Parsed, request, outcome
  <2>2. Waits'
    BY <2>1 DEF Waits
  <2> QED BY <2>1, <2>2, Stays
<1>2. CASE LoopEnd
  <2>1. /\ pc = "loop" /\ pc' = "end" /\ Parsed' = Parsed /\ delivered' = delivered
        /\ UNCHANGED <<multi_bulk_len, bulk_len, argv, closing, executed, req_type>>
    BY <1>2 DEF LoopEnd, Parsed, request, outcome, buffer
  <2>2. closing = "no" => Unparsed <= 0
    BY <1>2 DEF LoopEnd
  <2>3. Unparsed' = Unparsed
    BY <2>1 DEF Unparsed
  <2>4. Waits'
    BY <1>0, <2>1, <2>2, <2>3 DEF Waits
  <2> QED BY <2>1, <2>4, Stays
<1>3. CASE HandlerReturns
  <2>1. /\ pc = "end" /\ pc' = "idle" /\ delivered' = delivered
        /\ UNCHANGED <<multi_bulk_len, bulk_len, argv, closing, executed, req_type>>
    BY <1>3 DEF HandlerReturns, request, outcome
  <2>2. Parsed' = Parsed
    BY <1>0, <1>3 DEF HandlerReturns, Parsed
  <2>3. Unparsed' = Unparsed
    BY <2>1, <2>2 DEF Unparsed
  <2>4. Waits'
    BY <2>1, <2>3 DEF Waits
  <2> QED BY <2>1, <2>2, <2>4, Stays
<1>4. CASE UNCHANGED vars
  <2>1. Waits' /\ Place(s, i)'
    BY <1>4, Zenon
    DEF vars, conn, buffer, request, outcome, Waits, Unparsed, Parsed, Place, Done, Between, Within, Complete
  <2> QED BY <2>1 DEF Onward
<1> QED BY <1>1, <1>2, <1>3, <1>4

(* The loop body finds the parser in front of a request or within one. *)
LEMMA LoopPlace ==
  ASSUME IInv, NEW s, Sends(s), NEW i \in 0 .. Len(s), Place(s, i),
         NEW type \in {PROTO_REQ_INLINE, PROTO_REQ_MULTIBULK}, LoopBody(type)
  PROVE  /\ type = PROTO_REQ_MULTIBULK /\ pc = "loop" /\ closing = "no"
         /\ i < Len(s) /\ (Between(s, i) \/ Within(s, i + 1))
<1>0. /\ Parsed \in Nat /\ delivered \in Nat /\ Unparsed = delivered - Parsed
      /\ Len(stream) \in Nat /\ delivered <= Len(stream)
  BY Numbers
<1>1. pc = "loop" /\ closing = "no" /\ Unparsed > 0 /\ RequestType = type
  BY DEF LoopBody
<1>2. CASE i < Len(s) /\ Within(s, i + 1)
  BY <1>1, <1>2 DEF Within, RequestType, NONE, PROTO_REQ_MULTIBULK
<1>3. CASE Between(s, i)
  <2>1. Len(s) \in Nat /\ Len(stream) = RequestsEnd(s)[Len(s)]
    <3>1. IsScript(s) /\ Carries(stream, s)
      BY Zenon DEF Sends
    <3>2. Len(s) \in Nat
      BY <3>1 DEF IsScript
    <3> QED BY <3>1, <3>2, Zenon DEF Carries
  <2>2. i # Len(s)
    BY <1>0, <1>1, <1>3, <2>1 DEF Between
  <2>3. i + 1 \in 1 .. Len(s) /\ (i + 1) - 1 = i /\ i < Len(s)
    BY <2>1, <2>2
  <2>4. Parsed = RequestsEnd(s)[(i + 1) - 1]
    BY <1>3, <2>3 DEF Between
  <2>5. stream[Parsed + 1].t = "*"
    BY <2>3, <2>4, AtHeader
  <2>6. req_type # PROTO_REQ_INLINE
    BY <1>3 DEF Between
  <2> QED BY <1>1, <1>3, <2>3, <2>5, <2>6, Zenon DEF RequestType, IInv, TypeOK
<1> QED BY <1>1, <1>2, <1>3 DEF Place, Complete

(* No inline request and no fault is found, and a header is taken when     *)
(* its line is there.                                                      *)
LEMMA FollowsHeader ==
  ASSUME IInv, NEW s, Sends(s), NEW i \in 0 .. Len(s), Place(s, i), Waits,
         \/ InlineIncomplete \/ \E p \in 1 .. Len(stream) : InlineUnbalanced(p) \/ InlineRequest(p)
         \/ HeaderNotReset \/ HeaderIncomplete \/ HeaderNotStar \/ HeaderInvalid
         \/ HeaderRead \/ HeaderAlreadyRead
  PROVE  Onward(s)
<1> DEFINE j == i + 1
<1>0. /\ Parsed \in Nat /\ delivered \in Nat /\ Unparsed = delivered - Parsed
      /\ base \in Nat /\ qb_pos \in Nat /\ Parsed = base + qb_pos
  BY Numbers
<1>1. LoopBody(PROTO_REQ_MULTIBULK)
  <2>1. \E t \in {PROTO_REQ_INLINE, PROTO_REQ_MULTIBULK} : LoopBody(t)
    BY Zenon DEF InlineIncomplete, InlineUnbalanced, InlineRequest, HeaderNotReset, HeaderIncomplete,
           HeaderNotStar, HeaderInvalid, HeaderRead, HeaderAlreadyRead
  <2> QED BY <2>1, LoopPlace
<1>2. /\ pc = "loop" /\ closing = "no" /\ i < Len(s) /\ (Between(s, i) \/ Within(s, j))
      /\ req_type' = PROTO_REQ_MULTIBULK
  BY <1>1, LoopPlace DEF LoopBody
<1>3. ~LoopBody(PROTO_REQ_INLINE)
  BY LoopPlace DEF PROTO_REQ_INLINE, PROTO_REQ_MULTIBULK
<1>4. j \in 1 .. Len(s) /\ j - 1 = i /\ j \in 0 .. Len(s) /\ Len(s) \in Nat
  BY <1>2 DEF Sends, IsScript
<1>5. Done(s, i)
  BY DEF Place
<1>6. CASE Within(s, j)
  <2>0. multi_bulk_len # 0
    <3>1. multi_bulk_len \in Nat /\ multi_bulk_len > 0
      <4>1. multi_bulk_len \in Nat
        BY Numbers
      <4> QED BY <1>6, <4>1 DEF Within
    <3> QED BY <3>1
  <2>1. HeaderAlreadyRead
    BY <1>3, <2>0, Zenon
    DEF InlineIncomplete, InlineUnbalanced, InlineRequest, HeaderNotReset, HeaderIncomplete,
        HeaderNotStar, HeaderInvalid, HeaderRead
  <2>2. /\ pc' = "args" /\ Parsed' = Parsed /\ delivered' = delivered
        /\ UNCHANGED <<multi_bulk_len, bulk_len, argv, closing, executed>>
    BY <2>1 DEF HeaderAlreadyRead, Parsed, buffer, outcome
  <2>3. Within(s, j)' /\ Done(s, i)' /\ closing' = "no"
    BY <1>2, <1>5, <1>6, <2>2 DEF Within, Done
  <2>4. Waits'
    BY <2>2 DEF Waits
  <2> QED BY <1>2, <2>3, <2>4 DEF Place, Onward
<1>7. CASE Between(s, i)
  <2>1. multi_bulk_len = 0 /\ bulk_len = -1 /\ argv = <<>> /\ Parsed = RequestsEnd(s)[j - 1]
    BY <1>4, <1>7 DEF Between
  <2>2. /\ stream[Parsed + 1].t = "*" /\ ValidHeader /\ LengthRead = Len(s[j])
        /\ Len(s[j]) \in Nat /\ (Unparsed >= 3 => HasLine)
    <3> HIDE DEF j
    <3> QED BY <1>4, <2>1, AtHeader, Zenon
  <2>3. HeaderIncomplete \/ HeaderRead
    BY <1>3, <2>1, <2>2, Zenon
    DEF InlineIncomplete, InlineUnbalanced, InlineRequest, HeaderNotReset, HeaderNotStar, HeaderInvalid,
        HeaderAlreadyRead
  <2>4. CASE HeaderIncomplete
    <3>1. /\ pc' = "end" /\ Parsed' = Parsed /\ delivered' = delivered
          /\ UNCHANGED <<multi_bulk_len, bulk_len, argv, closing, executed>>
      BY <2>4, Zenon DEF HeaderIncomplete, Break, Parsed, buffer
    <3>2. Unparsed < 3
      <4>1. ~HasLine
        BY <2>4, Zenon DEF HeaderIncomplete
      <4> QED BY <1>0, <2>2, <4>1
    <3>3. Unparsed' = Unparsed
      BY <3>1 DEF Unparsed
    <3>4. Waits'
      BY <2>1, <3>1, <3>2, <3>3 DEF Waits
    <3> QED BY <1>2, <3>1, <3>4, Stays
  <2>5. CASE HeaderRead
    <3> DEFINE req == s[j]
    <3>0. req \in Seq(Seq(Symbol)) /\ Len(req) \in Nat /\ LengthRead = Len(req)
      BY <1>4, <2>2 DEF Sends, IsRequest
    <3>1. qb_pos' = qb_pos + 3 /\ base' = base /\ UNCHANGED <<bulk_len, argv, closing, executed>>
      BY <2>5 DEF HeaderRead, outcome
    <3>2. Parsed' = Parsed + 3
      BY <1>0, <3>1 DEF Parsed
    <3>3. ArgsEnd(req)[0] = 3
      <4> HIDE DEF req
      <4> QED BY <3>0, ArgsEndIs
    <3>4. RequestsEnd(s)[j] = RequestsEnd(s)[j - 1] + ArgsEnd(req)[Len(req)]
      <4> HIDE DEF j
      <4> QED BY <1>4, RequestsEndIs DEF Sends
    <3>5. Done(s, i)' /\ closing' = "no"
      BY <1>2, <1>5, <3>1 DEF Done
    <3>6. CASE Len(req) = 0
      <4>1. pc' = "run" /\ multi_bulk_len' = multi_bulk_len
        BY <2>5, <3>0, <3>6 DEF HeaderRead
      <4>2. req = <<>>
        BY <3>0, <3>6
      <4>3. Parsed' = RequestsEnd(s)[j]
        BY <2>1, <3>2, <3>3, <3>4, <3>6
      <4> HIDE DEF j
      <4>4. Complete(s, j)'
        BY <1>2, <2>1, <3>1, <4>1, <4>2, <4>3 DEF Complete
      <4>5. Waits'
        BY <4>1 DEF Waits
      <4> QED BY <1>2, <3>5, <4>4, <4>5 DEF Place, Onward, j
    <3>7. CASE Len(req) # 0
      <4>1. pc' = "args" /\ multi_bulk_len' = Len(req)
        BY <2>5, <3>0, <3>7 DEF HeaderRead
      <4>2. argv' = <<>> /\ Len(argv') = 0 /\ SubSeq(req, 1, 0) = <<>> /\ bulk_len' = -1
        BY <2>1, <3>1
      <4>3. Parsed' = RequestsEnd(s)[j - 1] + ArgsEnd(req)[0] + 0
        BY <1>0, <2>1, <3>2, <3>3
      <4> HIDE DEF j
      <4>4. Within(s, j)'
        <5>1. multi_bulk_len' > 0 /\ Len(argv') + multi_bulk_len' = Len(req)
          BY <3>0, <3>7, <4>1, <4>2
        <5>2. argv' = SubSeq(req, 1, Len(argv'))
          BY <4>2
        <5> QED BY <1>2, <4>1, <4>2, <4>3, <5>1, <5>2 DEF Within
      <4>5. Waits'
        BY <4>1 DEF Waits
      <4> QED BY <1>2, <3>5, <4>4, <4>5 DEF Place, Onward, j
    <3> QED BY <3>6, <3>7
  <2> QED BY <2>3, <2>4, <2>5
<1> QED BY <1>2, <1>6, <1>7

(* The argument loop takes the length and the symbols of the next argument *)
(* when they are there, and otherwise waits for them.                      *)
LEMMA FollowsArguments ==
  ASSUME IInv, NEW s, Sends(s), NEW i \in 0 .. Len(s), Place(s, i), Waits,
         \/ BulkLenIncomplete \/ BulkLenInvalid \/ BulkLenRead \/ BulkIncomplete \/ BulkRead
  PROVE  Onward(s)
<1> DEFINE j == i + 1
           k == Len(argv)
           req == s[j]
           x == Len(req[k + 1])
<1>0. /\ Parsed \in Nat /\ delivered \in Nat /\ Unparsed = delivered - Parsed
      /\ base \in Nat /\ qb_pos \in Nat /\ Parsed = base + qb_pos /\ multi_bulk_len \in Nat
      /\ k \in Nat /\ bulk_len \in -1 .. MaxBulk /\ MaxBulk \in Nat
  BY Numbers
<1>1. ArgLoop /\ pc = "args" /\ req_type' = req_type
  BY Zenon DEF BulkLenIncomplete, BulkLenInvalid, BulkLenRead, BulkIncomplete, BulkRead, ArgLoop
<1>2. i < Len(s) /\ closing = "no" /\ Within(s, j) /\ Done(s, i)
  BY <1>1 DEF Place, Between, Complete
<1>3. j \in 1 .. Len(s) /\ j - 1 = i /\ Len(s) \in Nat
  BY <1>2 DEF Sends, IsScript
<1> HIDE DEF j
<1>4. req \in Seq(Seq(Symbol)) /\ Len(req) \in Nat
  <2>1. req \in Seq(Seq(Symbol))
    BY <1>3 DEF Sends, IsRequest
  <2> QED BY <2>1
<1>5. /\ req_type = PROTO_REQ_MULTIBULK /\ multi_bulk_len > 0 /\ k + multi_bulk_len = Len(req)
      /\ argv = SubSeq(req, 1, k) /\ bulk_len \in {-1, x}
      /\ Parsed = ArgumentAt(s, j, k) + (IF bulk_len = -1 THEN 0 ELSE 3)
  BY <1>2 DEF Within, ArgumentAt
<1>6. k \in 0 .. Len(req) - 1 /\ k + 1 \in 1 .. Len(req)
  BY <1>0, <1>4, <1>5
<1>7. ArgumentAt(s, j, k) \in Nat /\ x \in 0 .. MaxBulk
  <2> HIDE DEF k
  <2> QED BY <1>3, <1>6, ArgumentLies, Zenon DEF req, x
<1> HIDE DEF k, req, x
<1>8. ASSUME NEW e, Break(e), Unparsed < IF bulk_len = -1 THEN 3 ELSE bulk_len + 2 PROVE Onward(s)
  <2>1. /\ pc' = "end" /\ Parsed' = Parsed /\ delivered' = delivered
        /\ UNCHANGED <<multi_bulk_len, bulk_len, argv, closing, executed>>
    BY <1>8 DEF Break, Parsed, buffer
  <2>2. Unparsed' = Unparsed
    BY <2>1 DEF Unparsed
  <2>3. Waits'
    BY <1>8, <2>1, <2>2 DEF Waits
  <2> QED BY <1>1, <2>1, <2>3, Stays
<1>9. CASE bulk_len = -1
  <2>1. Parsed = ArgumentAt(s, j, k)
    BY <1>5, <1>7, <1>9
  <2>2. ValidBulkLen /\ LengthRead = x /\ (Unparsed >= 3 => HasLine)
    BY <1>3, <1>6, <2>1, AtLength DEF req, x
  <2>3. BulkLenIncomplete \/ BulkLenRead
    BY <1>9, <2>2, Zenon DEF BulkLenInvalid, BulkIncomplete, BulkRead, ValidBulkLen, LineIsLength
  <2>4. CASE BulkLenIncomplete
    <3>1. ~HasLine /\ \E e : Break(e)
      BY <2>4, Zenon DEF BulkLenIncomplete
    <3>2. Unparsed < 3
      BY <1>0, <2>2, <3>1
    <3> QED BY <1>8, <1>9, <3>1, <3>2
  <2>5. CASE BulkLenRead
    <3>1. /\ bulk_len' = x /\ pc' = "args" /\ UNCHANGED <<multi_bulk_len, argv, closing, executed>>
          /\ \/ base' = Parsed + 3 /\ qb_pos' = 0
             \/ base' = base /\ qb_pos' = qb_pos + 3
      BY <1>1, <2>2, <2>5 DEF BulkLenRead, outcome
    <3>2. Parsed' = Parsed + 3
      BY <1>0, <3>1 DEF Parsed
    <3>3. bulk_len' # -1
      BY <1>0, <1>7, <3>1
    <3>4. Parsed' = ArgumentAt(s, j, k) + 3
      BY <2>1, <3>2
    <3>5. Len(argv') = k
      BY <3>1 DEF k
    <3>6. Within(s, j)'
      BY <1>1, <1>5, <3>1, <3>3, <3>4, <3>5, Zenon DEF Within, ArgumentAt, req, x
    <3>7. Waits'
      BY <3>1 DEF Waits
    <3>8. Done(s, i)' /\ closing' = "no"
      BY <1>2, <3>1 DEF Done
    <3> QED BY <1>2, <3>6, <3>7, <3>8 DEF Place, Onward, j
  <2> QED BY <2>3, <2>4, <2>5
<1>10. CASE bulk_len # -1
  <2>1. bulk_len = x /\ Parsed = ArgumentAt(s, j, k) + 3
    BY <1>5, <1>10
  <2>2. /\ SubSeq(stream, Parsed + 1, Parsed + bulk_len) = req[k + 1]
        /\ Parsed + bulk_len + 2 = ArgumentAt(s, j, k + 1)
    BY <1>3, <1>6, <2>1, AtSymbols DEF req, x
  <2>3. BulkIncomplete \/ BulkRead
    BY <1>10, Zenon DEF BulkLenIncomplete, BulkLenInvalid, BulkLenRead
  <2>4. CASE BulkIncomplete
    <3>1. Unparsed < bulk_len + 2 /\ Break("none")
      BY <2>4 DEF BulkIncomplete
    <3> QED BY <1>8, <1>10, <3>1
  <2>5. CASE BulkRead
    <3>1. /\ argv' = Append(argv, req[k + 1]) /\ bulk_len' = -1 /\ multi_bulk_len' = multi_bulk_len - 1
          /\ pc' = (IF multi_bulk_len' = 0 THEN "run" ELSE "args") /\ UNCHANGED <<closing, executed>>
          /\ \/ base' = delivered /\ qb_pos' = qb_pos /\ qb_pos = 0 /\ Unparsed = bulk_len + 2
             \/ base' = base /\ qb_pos' = qb_pos + bulk_len + 2
      BY <2>2, <2>5, Zenon DEF BulkRead, outcome
    <3>2. Parsed' = ArgumentAt(s, j, k + 1)
      <4>1. Parsed' = Parsed + bulk_len + 2
        BY <1>0, <3>1 DEF Parsed
      <4> QED BY <2>2, <4>1
    <3>3. argv' = SubSeq(req, 1, k + 1) /\ Len(argv') = k + 1
      <4>1. k + 1 \in 1 .. Len(req) /\ req \in Seq(Seq(Symbol)) /\ (k + 1) - 1 = k
        BY <1>0, <1>4, <1>6
      <4>2. SubSeq(req, 1, k + 1) = Append(SubSeq(req, 1, k), req[k + 1])
        BY <1>4, <1>6, SubSeqGrows
      <4>3. Len(SubSeq(req, 1, k + 1)) = k + 1
        BY <4>1
      <4> QED BY <1>5, <3>1, <4>2, <4>3, Zenon
    <3>4. Done(s, i)' /\ closing' = "no"
      BY <1>2, <3>1 DEF Done
    <3>5. Waits'
      BY <3>1 DEF Waits
    <3>6. CASE multi_bulk_len = 1
      <4>1. multi_bulk_len' = 0 /\ pc' = "run" /\ k + 1 = Len(req)
        BY <1>0, <1>5, <3>1, <3>6
      <4>2. argv' = req
        BY <1>4, <3>3, <4>1
      <4>3. Parsed' = RequestsEnd(s)[j]
        <5>1. RequestsEnd(s)[j] = RequestsEnd(s)[j - 1] + ArgsEnd(s[j])[Len(s[j])]
          BY <1>3, RequestsEndIs, Zenon DEF Sends
        <5> QED BY <3>2, <4>1, <5>1 DEF ArgumentAt, req
      <4>4. Complete(s, j)'
        BY <1>1, <1>5, <3>1, <4>1, <4>2, <4>3, Zenon DEF Complete, req
      <4> QED BY <1>2, <3>4, <3>5, <4>4 DEF Place, Onward, j
    <3>7. CASE multi_bulk_len # 1
      <4>1. /\ multi_bulk_len' > 0 /\ multi_bulk_len' # 0 /\ pc' = "args"
            /\ (k + 1) + multi_bulk_len' = Len(req)
        <5>1. /\ multi_bulk_len' = multi_bulk_len - 1 /\ multi_bulk_len \in Nat /\ multi_bulk_len > 0
              /\ k \in Nat /\ Len(req) \in Nat /\ k + multi_bulk_len = Len(req)
          BY <1>0, <1>4, <1>5, <3>1
        <5>2. multi_bulk_len' > 0 /\ multi_bulk_len' # 0 /\ (k + 1) + multi_bulk_len' = Len(req)
          BY <3>7, <5>1
        <5> QED BY <3>1, <5>2
      <4>2. Parsed' = ArgumentAt(s, j, k + 1) + 0
        <5>1. ArgumentAt(s, j, k + 1) \in Nat
          BY <1>0, <1>7, <2>1, <2>2
        <5> QED BY <3>2, <5>1
      <4>3. Within(s, j)'
        <5>1. Len(argv') + multi_bulk_len' = Len(req) /\ argv' = SubSeq(req, 1, Len(argv'))
          BY <3>3, <4>1, Zenon
        <5>2. Parsed' = RequestsEnd(s)[j - 1] + ArgsEnd(req)[Len(argv')] + 0
          BY <3>3, <4>2, Zenon DEF ArgumentAt, req
        <5> QED BY <1>1, <1>5, <3>1, <4>1, <5>1, <5>2, Zenon DEF Within, req
      <4> QED BY <1>2, <3>4, <3>5, <4>3 DEF Place, Onward, j
    <3> QED BY <3>6, <3>7
  <2> QED BY <2>3, <2>4, <2>5
<1> QED BY <1>9, <1>10

(* A complete request is executed, unless it is empty, and the parser is   *)
(* between requests again.                                                 *)
LEMMA FollowsRun ==
  ASSUME IInv, NEW s, Sends(s), NEW i \in 0 .. Len(s), Place(s, i), Waits,
         EmptyRequest \/ process_command \/ unknown_command
  PROVE  Onward(s)
<1> DEFINE j == i + 1
<1>1. pc = "run"
  BY DEF EmptyRequest, process_command, unknown_command
<1>2. i < Len(s) /\ closing = "no" /\ Complete(s, j) /\ Done(s, i)
  BY <1>1 DEF Place, Between, Within
<1>3. j \in 1 .. Len(s) /\ j \in 0 .. Len(s) /\ j - 1 = i /\ i \in Nat
  BY <1>2 DEF Sends, IsScript
<1>4. argv = s[j] /\ Parsed = RequestsEnd(s)[j] /\ executed = Effect(s)[i] /\ ~QuitWithin(s, i)
  BY <1>2 DEF Complete, Done
<1>5. QuitWithin(s, j) <=> Quits(argv)
  BY <1>3, <1>4, QuitSteps
<1>6. Effect(s)[j] = IF argv = <<>> THEN executed ELSE Append(executed, argv)
  <2> HIDE DEF j
  <2>1. Effect(s)[j] = IF s[j] = <<>> \/ QuitWithin(s, j - 1) THEN Effect(s)[j - 1] ELSE Append(Effect(s)[j - 1], s[j])
    <3>1. IsScript(s)
      BY Zenon DEF Sends
    <3> QED BY <1>3, <3>1, EffectIs
  <2> QED BY <1>3, <1>4, <2>1, ZenonT(30)
<1>7. argv # <<>> => argv[1] \in KnownNames
  BY <1>3, <1>4, Zenon DEF Sends, IsRequest
<1>8. /\ Parsed' = Parsed /\ argv' = <<>> /\ req_type' = NONE /\ multi_bulk_len' = 0 /\ bulk_len' = -1
      /\ pc' = "loop"
  BY <1>7 DEF EmptyRequest, process_command, unknown_command, reset_redis_client, Parsed, buffer
<1>9. executed' = Effect(s)[j] /\ closing' = IF QuitWithin(s, j) THEN "yes" ELSE "no"
  BY <1>2, <1>5, <1>6, <1>7 DEF EmptyRequest, process_command, unknown_command, outcome, Quits
<1> HIDE DEF j
<1>10. Between(s, j)' /\ Done(s, j)' /\ Waits'
  BY <1>4, <1>8, <1>9 DEF Between, Done, Waits, NONE, PROTO_REQ_INLINE
<1> QED BY <1>3, <1>10 DEF Place, Onward

(* The parser starts in front of the first request. *)
LEMMA InitFollows == Init => Follows
<1> SUFFICES ASSUME Init, WellFormed PROVE Waits /\ \E i \in 0 .. Len(Script[stream]) : Place(Script[stream], i)
  BY DEF Follows
<1>1. PICK s : s = Script[stream]
  OBVIOUS
<1>2. Sends(s) /\ IsScript(s) /\ 0 \in 0 .. Len(s)
  <2>1. Sends(s)
    BY <1>1, WellFormedSends, Zenon
  <2>2. IsScript(s)
    BY <2>1, Zenon DEF Sends
  <2>3. Len(s) \in Nat
    BY <2>2 DEF IsScript
  <2> QED BY <2>1, <2>2, <2>3
<1>3. Effect(s)[0] = <<>> /\ RequestsEnd(s)[0] = 0 /\ ~QuitWithin(s, 0)
  <2>1. Effect(s)[0] = <<>>
    BY <1>2, EffectIs
  <2>2. RequestsEnd(s)[0] = 0
    BY <1>2, RequestsEndIs
  <2>3. ~QuitWithin(s, 0)
    BY DEF QuitWithin
  <2> QED BY <2>1, <2>2, <2>3
<1>4. Waits /\ Done(s, 0) /\ Between(s, 0)
  <2>1. /\ pc = "idle" /\ req_type = NONE /\ multi_bulk_len = 0 /\ bulk_len = -1 /\ argv = <<>>
        /\ base = 0 /\ qb_pos = 0 /\ delivered = 0 /\ closing = "no" /\ executed = <<>>
    BY Zenon DEF Init
  <2>2. Parsed = 0 /\ Unparsed = 0
    BY <2>1 DEF Parsed, Unparsed
  <2>3. Waits
    BY <2>1, <2>2 DEF Waits
  <2>4. Done(s, 0)
    BY <1>3, <2>1 DEF Done
  <2>5. Between(s, 0)
    BY <1>3, <2>1, <2>2 DEF Between, NONE, PROTO_REQ_INLINE
  <2> QED BY <2>3, <2>4, <2>5
<1> QED BY <1>1, <1>2, <1>4 DEF Place

(* The stream of a connection is that of its peer. *)
LEMMA StreamStays == ASSUME ~Reconnect, [Next]_vars PROVE stream' = stream
BY Zenon DEF Next, Step, Receive, vars, conn, buffer, request, outcome, Read, LoopEnd, Break,
  InlineIncomplete, InlineUnbalanced, InlineRequest, HeaderNotReset, HeaderIncomplete,
  HeaderNotStar, HeaderInvalid, HeaderRead, HeaderAlreadyRead, BulkLenIncomplete, BulkLenInvalid,
  BulkLenRead, BulkIncomplete, BulkRead, EmptyRequest, process_command, unknown_command,
  HandlerReturns

(* Every step of the handler leaves it at a place of the script. *)
LEMMA NextFollows ==
  ASSUME IInv, Follows, ~Reconnect, [Next]_vars PROVE Follows'
<1>1. stream' = stream
  BY StreamStays, Zenon
<1> SUFFICES ASSUME WellFormed
             PROVE  Waits' /\ \E i \in 0 .. Len(Script[stream]) : Place(Script[stream], i)'
  BY <1>1 DEF Follows, WellFormed
<1>2. PICK s : s = Script[stream]
  OBVIOUS
<1>3. Sends(s) /\ Waits
  BY <1>2, WellFormedSends DEF Follows
<1>4. PICK i \in 0 .. Len(s) : Place(s, i)
  BY <1>2 DEF Follows
<1>5. Onward(s)
  BY <1>3, <1>4, FollowsHandler, FollowsHeader, FollowsArguments, FollowsRun DEF Next, Step
<1>6. s = Script[stream']
  BY <1>1, <1>2
<1>7. Waits' /\ \E i0 \in 0 .. Len(s) : Place(s, i0)'
  BY <1>5, Zenon DEF Onward
<1> QED BY <1>2, <1>6, <1>7, Zenon

(* The parser follows the script. *)
LEMMA ParserFollows == MaxConnections = 1 => (Spec => []Follows)
<1> SUFFICES ASSUME MaxConnections = 1 PROVE Spec => []Follows
  OBVIOUS
<1>1. IInv /\ connections = 1 /\ Follows /\ [Next]_vars => Follows'
  <2>1. connections = 1 => ~Reconnect
    BY DEF Reconnect
  <2> QED BY <2>1, NextFollows
<1>2. Spec => [](connections = 1)
  BY OneConnection
<1> QED BY <1>1, <1>2, InitFollows, ParserInvariant, PTL DEF Spec

(* Whatever a peer that keeps to the protocol sends, with any arguments,   *)
(* cut into reads in any way, the server executes its requests in order,   *)
(* none twice and none made up, up to some request (client.c:208-443).     *)
THEOREM RequestsRunInOrder == MaxConnections = 1 => (Spec => []ExecutedInOrder)
<1>1. Follows => ExecutedInOrder
  BY DEF Follows, ExecutedInOrder, Place, Done
<1> QED BY <1>1, ParserFollows, PTL

(* And when it has read everything and returned to the event loop, it has  *)
(* executed all of them: none waits in querybuf (client.c:208-443).        *)
THEOREM AllRequestsRun == MaxConnections = 1 => (Spec => []NothingLeftBehind)
<1>1. ASSUME IInv, Follows PROVE NothingLeftBehind
  <2> SUFFICES ASSUME WellFormed, pc = "idle", delivered = Len(stream)
               PROVE  executed = Effect(Script[stream])[Len(Script[stream])]
    BY DEF NothingLeftBehind
  <2>1. PICK s : s = Script[stream]
    OBVIOUS
  <2>2. PICK i \in 0 .. Len(s) : Place(s, i)
    BY <1>1, <2>1 DEF Follows
  <2>3. Sends(s) /\ IsScript(s) /\ Len(s) \in Nat /\ Waits /\ executed = Effect(s)[i]
    <3>1. Sends(s) /\ Waits
      BY <1>1, <2>1, WellFormedSends, Zenon DEF Follows
    <3>2. IsScript(s)
      BY <3>1, Zenon DEF Sends
    <3>3. Len(s) \in Nat
      BY <3>2 DEF IsScript
    <3>4. executed = Effect(s)[i]
      BY <2>2, Zenon DEF Place, Done
    <3> QED BY <3>1, <3>2, <3>3, <3>4
  <2>4. CASE QuitWithin(s, i)
    BY <2>1, <2>3, <2>4, QuitEndsScript
  <2>5. CASE ~QuitWithin(s, i)
    <3>0. /\ Parsed \in Nat /\ delivered \in Nat /\ Unparsed = delivered - Parsed
          /\ bulk_len \in -1 .. MaxBulk /\ MaxBulk \in Nat /\ multi_bulk_len \in Nat /\ Len(argv) \in Nat
      BY <1>1, Numbers
    <3>1. Unparsed < IF bulk_len = -1 THEN 3 ELSE bulk_len + 2
      BY <2>2, <2>3, <2>5 DEF Waits, Place, Done
    <3> DEFINE j == i + 1
    <3>2. ASSUME i # Len(s), Between(s, i) PROVE FALSE
      <4>1. j \in 1 .. Len(s) /\ j - 1 = i
        BY <2>3, <3>2
      <4>2. Parsed = RequestsEnd(s)[j - 1] /\ bulk_len = -1
        BY <3>2, <4>1 DEF Between
      <4> HIDE DEF j
      <4>3. Parsed + 3 <= Len(stream)
        BY <1>1, <2>3, <4>1, <4>2, AtHeader
      <4> QED BY <3>0, <3>1, <4>2, <4>3
    <3>3. ASSUME i < Len(s), Within(s, j) PROVE FALSE
      <4> DEFINE k == Len(argv)
      <4>1. j \in 1 .. Len(s)
        BY <2>3, <3>3
      <4> HIDE DEF j
      <4>2. Len(s[j]) \in Nat
        BY <2>3, <4>1 DEF IsScript
      <4>3. multi_bulk_len > 0 /\ k + multi_bulk_len = Len(s[j])
        BY <3>3 DEF Within
      <4>4. k \in 0 .. Len(s[j]) - 1
        BY <3>0, <4>2, <4>3
      <4>5. ArgumentAt(s, j, k) \in Nat
        BY <1>1, <2>3, <4>1, <4>4, ArgumentLies
      <4>6. /\ bulk_len \in {-1, Len(s[j][k + 1])}
            /\ Parsed = ArgumentAt(s, j, k) + (IF bulk_len = -1 THEN 0 ELSE 3)
        BY <3>3 DEF Within, ArgumentAt
      <4> HIDE DEF k
      <4>7. CASE bulk_len = -1
        <5>1. Parsed = ArgumentAt(s, j, k)
          BY <4>5, <4>6, <4>7
        <5>2. Parsed + 5 <= Len(stream)
          BY <1>1, <2>3, <4>1, <4>4, <5>1, AtLength
        <5> QED BY <3>0, <3>1, <4>7, <5>2
      <4>8. CASE bulk_len # -1
        <5>1. Parsed = ArgumentAt(s, j, k) + 3 /\ bulk_len = Len(s[j][k + 1])
          BY <4>6, <4>8
        <5>2. Parsed + bulk_len + 2 <= Len(stream)
          BY <1>1, <2>3, <4>1, <4>4, <5>1, AtSymbols
        <5> QED BY <3>0, <3>1, <4>8, <5>2
      <4> QED BY <4>7, <4>8
    <3>4. i = Len(s)
      BY <2>2, <3>2, <3>3 DEF Place, Complete
    <3> QED BY <2>1, <2>3, <3>4
  <2> QED BY <2>4, <2>5
<1>2. IInv /\ Follows => NothingLeftBehind
  BY <1>1
<1> QED BY <1>2, ParserFollows, ParserInvariant, PTL
-----------------------------------------------------------------------------
(* Between two requests the client is as reset_redis_client leaves it, or  *)
(* its type is set and the "*" it was taken from is still in front of it.  *)
Clean ==
  /\ proc = "up"
  /\ pc \in {"idle", "loop", "end"} /\ multi_bulk_len = 0 =>
       /\ argv = <<>>
       /\ req_type = PROTO_REQ_MULTIBULK => Unparsed > 0 /\ stream[Parsed + 1].t = "*"

(* What has arrived stays ahead of the parser when more arrives. *)
LEMMA MoreArrived ==
  \A p, d, e \in Nat : e >= d /\ d - p > 0 => e - p > 0
OBVIOUS

(* Steps that leave the request alone and do not take symbols away. *)
LEMMA CleanStays ==
  ASSUME IInv, Clean, pc \in {"idle", "loop", "end"}, proc' = proc,
         stream' = stream, Parsed' = Parsed, delivered' \in Nat, delivered' >= delivered,
         UNCHANGED <<multi_bulk_len, argv>>,
         req_type' = PROTO_REQ_MULTIBULK =>
           \/ req_type = PROTO_REQ_MULTIBULK
           \/ Unparsed > 0 /\ stream[Parsed + 1].t = "*"
  PROVE  Clean'
<1>1. Parsed \in Nat /\ delivered \in Nat
  BY DEF IInv, TypeOK, Parsed
<1>2. Unparsed > 0 => Unparsed' > 0
  <2>1. Unparsed = delivered - Parsed /\ Unparsed' = delivered' - Parsed
    BY Zenon DEF Unparsed
  <2> QED
    BY <1>1, <2>1, MoreArrived, Zenon
<1>3. (stream[Parsed + 1].t = "*")' <=> stream[Parsed + 1].t = "*"
  OBVIOUS
<1>4. ASSUME multi_bulk_len' = 0
      PROVE  /\ argv' = <<>>
             /\ req_type' = PROTO_REQ_MULTIBULK => Unparsed > 0 /\ stream[Parsed + 1].t = "*"
  BY <1>4, Zenon DEF Clean
<1>5. proc' = "up"
  BY Zenon DEF Clean
<1> QED
  BY <1>2, <1>3, <1>4, <1>5, Zenon DEF Clean, PROTO_REQ_MULTIBULK

(* While no unknown command is met the assertions hold at each step. *)
LEMMA NextClean ==
  ASSUME IInv, Clean, [Next]_vars, ~unknown_command, ~Reconnect
  PROVE  Clean'
<1>1. /\ delivered \in Nat /\ base \in Nat /\ qb_pos \in Nat /\ Parsed = base + qb_pos
      /\ Parsed \in Nat /\ Len(stream) \in Nat
  BY DEF IInv, TypeOK, Parsed
<1>2. CASE Receive \/ LoopEnd \/ HandlerReturns \/ UNCHANGED vars
  <2>1. CASE UNCHANGED vars
    BY <2>1, Zenon DEF vars, conn, buffer, request, outcome, Clean, Unparsed, Parsed
  <2>2. CASE Receive
    <3>1. PICK n \in 1 .. Len(stream) : Read(n)
      BY <2>2 DEF Receive
    <3>2. delivered' = delivered + n /\ n \in Nat
      BY <1>1, <3>1 DEF Read
    <3>3. delivered' \in Nat /\ delivered' >= delivered
      BY <1>1, <3>2
    <3> QED
      BY <3>1, <3>3, CleanStays, Zenon DEF Read, conn, request, Parsed
  <2>3. CASE LoopEnd
    <3>1. delivered' \in Nat /\ delivered' >= delivered
      BY <1>1, <2>3 DEF LoopEnd, buffer
    <3> QED
      BY <2>3, <3>1, CleanStays, Zenon DEF LoopEnd, conn, buffer, request, Parsed
  <2>4. CASE HandlerReturns
    <3>1. Parsed' = Parsed /\ delivered' \in Nat /\ delivered' >= delivered
      BY <1>1, <2>4 DEF HandlerReturns, Parsed
    <3> QED
      BY <2>4, <3>1, CleanStays, Zenon DEF HandlerReturns, conn, request
  <2> QED
    BY <1>2, <2>1, <2>2, <2>3, <2>4
<1>3. ASSUME LoopBody(PROTO_REQ_MULTIBULK)
      PROVE  Unparsed > 0 /\ (multi_bulk_len = 0 => stream[Parsed + 1].t = "*" /\ argv = <<>>)
  BY <1>3 DEF LoopBody, RequestType, Clean, NONE, PROTO_REQ_INLINE, PROTO_REQ_MULTIBULK
<1>4. CASE HeaderNotReset \/ HeaderNotStar
  BY <1>3, <1>4, Zenon DEF HeaderNotReset, HeaderNotStar
<1>5. CASE InlineIncomplete \/ \E p \in 1 .. Len(stream) : InlineUnbalanced(p)
  <2>1. LoopBody(PROTO_REQ_INLINE) /\ \E e : Break(e)
    BY <1>5, Zenon DEF InlineIncomplete, InlineUnbalanced
  <2>2. delivered' \in Nat /\ delivered' >= delivered
    BY <1>1, <2>1 DEF Break, buffer
  <2>3. req_type' # PROTO_REQ_MULTIBULK
    BY <2>1 DEF LoopBody, PROTO_REQ_INLINE, PROTO_REQ_MULTIBULK
  <2> QED
    BY <2>1, <2>2, <2>3, CleanStays, Zenon DEF LoopBody, Break, conn, buffer, Parsed
<1>6. CASE HeaderIncomplete \/ HeaderInvalid
  <2>1. LoopBody(PROTO_REQ_MULTIBULK) /\ multi_bulk_len = 0 /\ \E e : Break(e)
    BY <1>6, Zenon DEF HeaderIncomplete, HeaderInvalid
  <2>2. delivered' \in Nat /\ delivered' >= delivered
    BY <1>1, <2>1 DEF Break, buffer
  <2> QED
    BY <1>3, <2>1, <2>2, CleanStays, Zenon DEF LoopBody, Break, conn, buffer, Parsed
<1>7. CASE \/ \E p \in 1 .. Len(stream) : InlineRequest(p)
           \/ HeaderRead \/ HeaderAlreadyRead \/ BulkLenRead \/ BulkRead
  <2>1. proc' = proc /\ pc' \in {"run", "args"}
    BY <1>7 DEF InlineRequest, HeaderRead, HeaderAlreadyRead, BulkLenRead, BulkRead, ArgLoop
  <2> QED
    BY <2>1, Zenon DEF Clean
<1>8. CASE BulkLenIncomplete \/ BulkLenInvalid \/ BulkIncomplete
  <2>1. ArgLoop /\ \E e : Break(e)
    BY <1>8, Zenon DEF BulkLenIncomplete, BulkLenInvalid, BulkIncomplete
  <2>2. multi_bulk_len > 0 /\ multi_bulk_len' = multi_bulk_len /\ proc' = proc
    BY <2>1, Zenon DEF ArgLoop, Break, IInv, ArgvFits
  <2>3. multi_bulk_len \in Nat
    BY RespAssumption DEF IInv, TypeOK
  <2>4. multi_bulk_len' # 0
    BY <2>2, <2>3
  <2> QED
    BY <2>2, <2>4, Zenon DEF Clean
<1>9. CASE EmptyRequest \/ process_command
  BY <1>9 DEF EmptyRequest, process_command, reset_redis_client, Clean, NONE, PROTO_REQ_MULTIBULK
<1> QED
  BY <1>2, <1>4, <1>5, <1>6, <1>7, <1>8, <1>9, Zenon DEF Next, Step

(* Whatever bytes a peer sends, valid or not, and however they are cut     *)
(* into reads, the assertions of the parser (client.c:216, 232) hold until *)
(* the first unknown command or the first client that gets used memory:    *)
(* those two, and nothing else, lead to the failed assertion of run        *)
(* resp_unknown.                                                           *)
THEOREM AssertionsHoldUntil ==
  Spec /\ [][~unknown_command /\ ~Reconnect]_vars => []NoAssertFails
<1>1. Init => Clean
  BY DEF Init, Clean, NONE, PROTO_REQ_MULTIBULK
<1>2. IInv /\ Clean /\ [Next]_vars /\ [~unknown_command /\ ~Reconnect]_vars => Clean'
  <2>1. UNCHANGED vars /\ Clean => Clean'
    BY Zenon DEF vars, conn, buffer, request, outcome, Clean, Unparsed, Parsed
  <2> QED
    BY <2>1, NextClean
<1>3. Clean => NoAssertFails
  BY Zenon DEF Clean, NoAssertFails
<1> QED
  BY <1>1, <1>2, <1>3, ParserInvariant, PTL DEF Spec
-----------------------------------------------------------------------------
(* On the places of a script no step finds a fault. *)
LEMMA FaultlessStep ==
  ASSUME IInv, NEW s, Sends(s), NEW i \in 0 .. Len(s), Place(s, i), Next, ~Reconnect
  PROVE  err' = err /\ proc' = proc
<1> DEFINE j == i + 1
<1>0. Unparsed \in Nat /\ multi_bulk_len \in Nat /\ Len(argv) \in Nat
  BY Numbers
<1>1. ASSUME ~(Unparsed >= 3) PROVE ~(Unparsed > InlineMax)
  <2>1. InlineMax \in Nat /\ InlineMax >= 2
    BY RespAssumption
  <2> QED BY <1>0, <1>1, <2>1
<1>2. ASSUME Break("none") PROVE err' = err /\ proc' = proc
  BY <1>2, Zenon DEF Break
<1>3. ~LoopBody(PROTO_REQ_INLINE)
  BY LoopPlace DEF PROTO_REQ_INLINE, PROTO_REQ_MULTIBULK
<1>4. CASE HeaderNotReset \/ HeaderIncomplete \/ HeaderNotStar \/ HeaderInvalid
  <2>1. LoopBody(PROTO_REQ_MULTIBULK) /\ multi_bulk_len = 0
    BY <1>4, Zenon DEF HeaderNotReset, HeaderIncomplete, HeaderNotStar, HeaderInvalid
  <2>2. i < Len(s) /\ (Between(s, i) \/ Within(s, j))
    BY <2>1, LoopPlace
  <2>3. Between(s, i)
    BY <1>0, <2>1, <2>2 DEF Within
  <2>4. j \in 1 .. Len(s) /\ j - 1 = i
    BY <2>2 DEF Sends, IsScript
  <2>5. argv = <<>> /\ Parsed = RequestsEnd(s)[j - 1]
    BY <2>3, <2>4 DEF Between
  <2> HIDE DEF j
  <2>6. stream[Parsed + 1].t = "*" /\ ValidHeader /\ (Unparsed >= 3 => HasLine)
    BY <2>4, <2>5, AtHeader, Zenon
  <2>7. HeaderIncomplete
    BY <1>4, <2>5, <2>6, Zenon DEF HeaderNotReset, HeaderNotStar, HeaderInvalid
  <2>8. ~(Unparsed > InlineMax)
    BY <1>1, <2>6, <2>7, Zenon DEF HeaderIncomplete
  <2> QED BY <1>2, <2>7, <2>8, Zenon DEF HeaderIncomplete
<1>5. CASE BulkLenIncomplete \/ BulkLenInvalid
  <2> DEFINE k == Len(argv)
  <2>1. pc = "args" /\ bulk_len = -1
    BY <1>5, Zenon DEF BulkLenIncomplete, BulkLenInvalid, ArgLoop
  <2>2. i < Len(s) /\ Within(s, j)
    BY <2>1 DEF Place, Between, Complete
  <2>3. j \in 1 .. Len(s)
    BY <2>2 DEF Sends, IsScript
  <2> HIDE DEF j
  <2>4. Len(s[j]) \in Nat
    BY <2>3 DEF Sends, IsScript
  <2>5. multi_bulk_len > 0 /\ k + multi_bulk_len = Len(s[j]) /\ Parsed = ArgumentAt(s, j, k) + 0
    BY <2>1, <2>2 DEF Within, ArgumentAt
  <2>6. k \in 0 .. Len(s[j]) - 1
    BY <1>0, <2>4, <2>5
  <2>7. ArgumentAt(s, j, k) \in Nat
    BY <2>3, <2>6, ArgumentLies, Zenon
  <2>8. Parsed = ArgumentAt(s, j, k)
    BY <2>5, <2>7
  <2> HIDE DEF k
  <2>9. ValidBulkLen /\ (Unparsed >= 3 => HasLine)
    BY <2>3, <2>6, <2>8, AtLength, Zenon
  <2>10. BulkLenIncomplete
    BY <1>5, <2>9, Zenon DEF BulkLenInvalid, ValidBulkLen, LineIsLength
  <2>11. ~(Unparsed > InlineMax)
    BY <1>1, <2>9, <2>10, Zenon DEF BulkLenIncomplete
  <2> QED BY <1>2, <2>10, <2>11, Zenon DEF BulkLenIncomplete
<1>6. CASE BulkIncomplete
  BY <1>2, <1>6, Zenon DEF BulkIncomplete
<1>7. CASE \/ Receive \/ LoopEnd \/ HandlerReturns \/ HeaderRead \/ HeaderAlreadyRead \/ BulkLenRead
           \/ BulkRead \/ EmptyRequest \/ process_command \/ unknown_command
  BY <1>7, Zenon
  DEF Receive, Read, LoopEnd, HandlerReturns, HeaderRead, HeaderAlreadyRead, BulkLenRead, BulkRead,
      EmptyRequest, process_command, unknown_command, outcome
<1> QED BY <1>3, <1>4, <1>5, <1>6, <1>7, Zenon
  DEF Next, Step, InlineIncomplete, InlineUnbalanced, InlineRequest

(* A peer that sends requests of the protocol for known commands is never  *)
(* answered a protocol error and never fails an assertion, wherever the    *)
(* requests are cut and whatever their arguments look like                 *)
(* (client.c:208-353).                                                     *)
THEOREM NoFaultIsFound ==
  MaxConnections = 1 => (Spec => [](WellFormed => err = "none" /\ NoAssertFails))
<1> SUFFICES ASSUME MaxConnections = 1
             PROVE  Spec => [](WellFormed => err = "none" /\ NoAssertFails)
  OBVIOUS
<1> DEFINE Faultless == WellFormed => err = "none" /\ proc = "up"
<1>1. Init => Faultless
  BY Zenon DEF Init
<1>2. IInv /\ connections = 1 /\ Follows /\ Faultless /\ [Next]_vars => Faultless'
  <2> SUFFICES ASSUME IInv, connections = 1, Follows, Faultless, [Next]_vars PROVE Faultless'
    BY Zenon
  <2>1. CASE UNCHANGED vars
    BY <2>1, Zenon DEF vars, conn, outcome, WellFormed
  <2>2. CASE Next
    <3>1. ~Reconnect
      BY DEF Reconnect
    <3>2. stream' = stream
      BY <2>2, <3>1, StreamStays, Zenon
    <3>3. ASSUME WellFormed PROVE err' = err /\ proc' = proc
      <4>1. PICK s : s = Script[stream]
        OBVIOUS
      <4>2. Sends(s) /\ \E i \in 0 .. Len(s) : Place(s, i)
        BY <3>3, <4>1, WellFormedSends, Zenon DEF Follows
      <4> QED BY <2>2, <3>1, <4>2, FaultlessStep, Zenon
    <3> QED BY <3>2, <3>3, Zenon DEF WellFormed
  <2> QED BY <2>1, <2>2
<1>3. Spec => [](connections = 1)
  BY OneConnection
<1>4. Faultless => (WellFormed => err = "none" /\ NoAssertFails)
  BY Zenon DEF NoAssertFails
<1> HIDE DEF Faultless
<1> QED BY <1>1, <1>2, <1>3, <1>4, ParserFollows, ParserInvariant, PTL DEF Spec
=============================================================================

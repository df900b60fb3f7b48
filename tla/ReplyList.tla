----------------------------- MODULE ReplyList -----------------------------
(***************************************************************************)
(* The reply list of one connection (client_reply.c).  A command handler   *)
(* makes a sequence of calls that append pieces of its reply to the blocks *)
(* of client.reply; between handlers the event loop writes blocks from the *)
(* front of the list to the socket.  The length of an array that is not    *)
(* known when its reply starts is left as a node whose value is NULL and   *)
(* filled in at the end of the handler, in whatever space the neighbouring *)
(* blocks have.                                                            *)
(*                                                                         *)
(* A reply is a sequence of units: a type character, a number, a piece of  *)
(* text and the end of a line are one unit each, and sizes count units.    *)
(* c->reply_bytes is left out: it is never initialised, the library that   *)
(* adds and writes blocks does not know it, and nothing that runs reads it.*)
(***************************************************************************)
EXTENDS Integers, Sequences

CONSTANTS
  Chunk,       \* PROTO_REPLY_CHUNK_BYTES
  Slack,       \* by how much an allocation may exceed what was asked for
  HelpLines,   \* how many lines the help of MODULE has
  Args,        \* texts: what PING, SET and error messages bring along
  MaxQueued,   \* bound on the nodes queued when a handler starts,
  MaxUnits     \* and on what each of them holds

ASSUME ReplyAssumption ==
  /\ Chunk \in Nat \ {0}
  /\ Slack \subseteq Nat
  /\ HelpLines \in Nat
  /\ Args \subseteq Seq(Int)
  /\ MaxQueued \in Nat /\ MaxUnits \in Nat

VARIABLES
  reply,        \* client.reply, the list of blocks
  todo,         \* the calls the running handler has still to make
  node,         \* the node that add_reply_deferred_len returned, or 0
  before        \* the list when the running handler started (history)

vars == <<reply, todo, node, before>>

(* Units.  Numbers from -1 on stand for themselves. *)
EOL == -2
TEXT == -3
SPACE == -4
PLUS == -5
MINUS == -6
COLON == -7
DOLLAR == -8
STAR == -9

Block == [size : Nat, buf : Seq(Int)]
NullNode == [size |-> -1, buf |-> <<>>]
Least(a, b) == IF a < b THEN a ELSE b

Init ==
  /\ reply = <<>>
  /\ todo = <<>>
  /\ node = 0
  /\ before = <<>>

-----------------------------------------------------------------------------
(* The calls of the handlers. *)

Call == [op : {"proto", "deferred", "set"}, s : Seq(Int)]
Proto(s) == <<[op |-> "proto", s |-> s]>>

(* The shared objects ok, pong and wrongtypeerr and the null array. *)
SharedReplies == {<<PLUS, TEXT, EOL>>, <<MINUS, TEXT, EOL>>, <<STAR, -1, EOL>>}

add_reply_long_long_with_prefix(ll, prefix) == Proto(<<prefix, ll, EOL>>)

add_reply_bulk(obj) ==
  add_reply_long_long_with_prefix(Len(obj), DOLLAR) \o Proto(obj) \o Proto(<<EOL>>)

(* "-ERR " goes first unless the message brings its own code. *)
add_reply_error_length(s) ==
  (IF s # <<>> /\ s[1] = MINUS THEN <<>> ELSE Proto(<<MINUS, TEXT>>))
    \o Proto(s) \o Proto(<<EOL>>)

(* sds_map_chars: a line end becomes a space. *)
OneLine(s) == [i \in 1 .. Len(s) |-> IF s[i] = EOL THEN SPACE ELSE s[i]]

(* The messages have the argument inside fixed text, so that sds_trim      *)
(* finds no line end at either end.                                        *)
add_reply_error_format(arg) == add_reply_error_length(OneLine(<<TEXT>> \o arg \o <<TEXT>>))

add_reply_status(s) == Proto(<<PLUS>>) \o Proto(s) \o Proto(<<EOL>>)

Statuses(n) ==
  [i \in 1 .. 3 * n |->
     add_reply_status(<<TEXT>>)[IF i % 3 = 0 THEN 3 ELSE i % 3]]

(* add_reply_help: the header, the lines and two lines of footer, then the *)
(* number of them in the place kept at the start.                          *)
add_reply_help(lines) ==
  <<[op |-> "deferred", s |-> <<>>]>> \o Statuses(1 + lines + 2)
    \o <<[op |-> "set", s |-> <<STAR, lines + 3, EOL>>]>>

(* PING, QUIT, SET, GET, EXPIRE, MODULE LOAD and MODULE HELP, and the      *)
(* protocol errors.  INFO is left out: it is not implemented.              *)
Handlers ==
  {Proto(s) : s \in SharedReplies}
    \cup {add_reply_long_long_with_prefix(n, COLON) : n \in {0, 1}}
    \cup {add_reply_status(<<TEXT>>), add_reply_error_length(<<TEXT>>)}
    \cup {add_reply_bulk(a) : a \in Args}
    \cup {add_reply_error_format(a) : a \in Args}
    \cup {add_reply_help(HelpLines)}

(* The event loop calls a handler, which runs to its end. *)
handle(calls) ==
  /\ todo = <<>>
  /\ Len(reply) < MaxQueued
  /\ \A i \in 1 .. Len(reply) : Len(reply[i].buf) <= MaxUnits
  /\ todo' = calls
  /\ before' = reply
  /\ UNCHANGED <<reply, node>>

Returns ==
  /\ todo' = Tail(todo)
  /\ before' = IF Len(todo) = 1 THEN <<>> ELSE before

Calling(op) == todo # <<>> /\ Head(todo).op = op

-----------------------------------------------------------------------------
(* Room in a block; none in a placeholder. *)
Room(b) == IF b = NullNode THEN 0 ELSE b.size - Len(b.buf)

(* add_reply_proto, a function of the library: what fits goes to the last  *)
(* block, the rest to a new one.                                           *)
add_reply_proto(x) ==
  LET s == Head(todo).s
      n == Len(reply)
      fits == IF n = 0 THEN 0 ELSE Least(Room(reply[n]), Len(s))
      filled == IF fits = 0 THEN reply
                ELSE [reply EXCEPT ![n] = [size |-> reply[n].size,
                                           buf |-> reply[n].buf \o SubSeq(s, 1, fits)]]
      rest == SubSeq(s, fits + 1, Len(s))
      block == [size |-> (IF Len(rest) < Chunk THEN Chunk ELSE Len(rest)) + x, buf |-> rest]
  IN /\ Calling("proto")
     /\ IF fits = Len(s)
        THEN reply' = filled
        ELSE reply' = Append(filled, block)
     /\ UNCHANGED node
     /\ Returns

(* trim_reply_unused_tail_space: a last block that is more than a quarter  *)
(* free is reallocated to what it holds.                                   *)
Trimmable(b) ==
  /\ b # NullNode
  /\ b.size - Len(b.buf) > b.size \div 4
  /\ Len(b.buf) < Chunk

trim_reply_unused_tail_space(x) ==
  LET n == Len(reply)
      tail == reply[n]
  IN IF n > 0 /\ Trimmable(tail)
     THEN [reply EXCEPT ![n] = [size |-> Len(tail.buf) + x, buf |-> tail.buf]]
     ELSE reply

(* Wrong variant: the last node is taken before the placeholder is added. *)
add_reply_deferred_len_early(x) ==
  /\ Calling("deferred")
  /\ reply' = Append(trim_reply_unused_tail_space(x), NullNode)
  /\ node' = Len(reply)
  /\ Returns

(* add_reply_deferred_len: trims the last block, then adds the placeholder. *)
add_reply_deferred_len(x) ==
  /\ Calling("deferred")
  /\ reply' = Append(trim_reply_unused_tail_space(x), NullNode)
  /\ node' = Len(reply) + 1
  /\ Returns

list_del_node(l, i) == SubSeq(l, 1, i - 1) \o SubSeq(l, i + 1, Len(l))

(* How much of s the block before the placeholder takes. *)
ToPrev(s) == IF node = 1 THEN 0 ELSE Least(Room(reply[node - 1]), Len(s))

WithPrev(s) ==
  IF ToPrev(s) = 0 THEN reply
  ELSE [reply EXCEPT ![node - 1] = [size |-> @.size, buf |-> @.buf \o SubSeq(s, 1, ToPrev(s))]]

(* Wrong variant: a block with any room takes the rest of s. *)
NextTakesAny(rest) ==
  /\ node < Len(reply)
  /\ reply[node + 1] # NullNode
  /\ Room(reply[node + 1]) > 0

(* The block after the placeholder has room for the rest of s and is not   *)
(* too large to be moved.                                                  *)
NextTakes(rest) ==
  /\ node < Len(reply)
  /\ reply[node + 1] # NullNode
  /\ Room(reply[node + 1]) >= Len(rest)
  /\ Len(reply[node + 1].buf) < Chunk * 4

(* Wrong variant: after a copy to the block before, s is not advanced. *)
RestRepeated(s) == s

(* What is left of s after the copy to the block before. *)
Rest(s) == SubSeq(s, ToPrev(s) + 1, Len(s))

(* set_deferred_reply *)
set_deferred_reply(x) ==
  LET s == Head(todo).s
      rest == Rest(s)
      block == [size |-> Len(rest) + x, buf |-> rest]
      next == reply[node + 1]
      glued == [WithPrev(s) EXCEPT ![node + 1] = [size |-> next.size, buf |-> rest \o next.buf]]
  IN /\ Calling("set")
     /\ \/ /\ ToPrev(s) = Len(s)
           /\ reply' = list_del_node(WithPrev(s), node)
        \/ /\ ToPrev(s) # Len(s) /\ NextTakes(rest)
           /\ reply' = list_del_node(glued, node)
        \/ /\ ToPrev(s) # Len(s) /\ ~NextTakes(rest)
           /\ reply' = [WithPrev(s) EXCEPT ![node] = block]
     /\ node' = 0
     /\ Returns

(* The library writes the first block to the socket and frees it. *)
write_to_client ==
  /\ todo = <<>> /\ reply # <<>>
  /\ reply' = Tail(reply)
  /\ UNCHANGED <<todo, node, before>>

Next ==
  \/ \E calls \in Handlers : handle(calls)
  \/ \E x \in Slack :
       add_reply_proto(x) \/ add_reply_deferred_len(x) \/ set_deferred_reply(x)
  \/ write_to_client

Spec == Init /\ [][Next]_vars
-----------------------------------------------------------------------------
(* Properties *)

TypeOK ==
  /\ reply \in Seq([size : Int, buf : Seq(Int)])
  /\ todo \in Seq(Call)
  /\ node \in 0 .. Len(reply)
  /\ before \in Seq([size : Int, buf : Seq(Int)])

(* No copy in add_reply_proto or set_deferred_reply goes past the end of   *)
(* the block it copies to: every node but the placeholder is a block that  *)
(* holds at most what it was allocated for.                                *)
BlocksFit ==
  \A i \in 1 .. Len(reply) :
    i # node => reply[i] \in Block /\ Len(reply[i].buf) <= reply[i].size

(* The assertion of set_deferred_reply holds, and a placeholder never      *)
(* outlives its handler, so that the socket is never given a NULL block:   *)
(* a node that was returned is NULL until it is filled, and a handler that *)
(* has a length still to fill in is running.                               *)
PlaceholderIsFilled ==
  /\ node # 0 => reply[node] = NullNode
  /\ node # 0 <=> todo # <<>> /\ todo[Len(todo)].op = "set" /\ todo[1].op # "deferred"

(* What the nodes of a list hold, one after the other. *)
Contents(l) ==
  LET upto[i \in 0 .. Len(l)] == IF i = 0 THEN <<>> ELSE upto[i - 1] \o l[i].buf
  IN upto[Len(l)]

(* What is queued for the socket: a handler's reply counts when it ends. *)
Pending == IF todo = <<>> THEN Contents(reply) ELSE Contents(before)

RS == INSTANCE ReplyStream WITH pending <- Pending

(* Whatever the neighbours of a placeholder take, a handler adds exactly   *)
(* one RESP reply behind those queued before, and blocks are written in    *)
(* order: the list implements ReplyStream.                                 *)
ImplementsReplyStream == RS!Spec
=============================================================================

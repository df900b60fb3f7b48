-------------------------- MODULE ReplyListProofs --------------------------
(***************************************************************************)
(* No copy leaves its block, no placeholder outlives its handler, and the  *)
(* blocks hold one whole reply of each handler in order, for every chunk   *)
(* size, every allocator and every length of the help.                     *)
(***************************************************************************)
EXTENDS ReplyList, Induction, TLAPS

Node == [size : Int, buf : Seq(Int)]

(* A list of calls fills a length in at its very end or not at all, and    *)
(* keeps the place for it at its very start.                               *)
WellOrdered(t) ==
  /\ \A i \in 1 .. Len(t) : t[i].op = "set" => i = Len(t)
  /\ \A i \in 1 .. Len(t) : t[i].op = "deferred" => i = 1 /\ t[Len(t)].op = "set"

(* Before a handler starts no place is kept yet. *)
KeepsFirst(t) == t # <<>> /\ (t[Len(t)].op = "set" => t[1].op = "deferred")

OnlyProto(t) ==
  /\ t \in Seq(Call)
  /\ \A i \in 1 .. Len(t) : t[i].op = "proto"

IInv ==
  /\ TypeOK
  /\ BlocksFit
  /\ PlaceholderIsFilled
  /\ WellOrdered(todo)

(* What a prefix of a sequence is. *)
LEMMA PrefixFacts ==
  ASSUME NEW s \in Seq(Int), NEW n \in 0 .. Len(s)
  PROVE  SubSeq(s, 1, n) \in Seq(Int) /\ Len(SubSeq(s, 1, n)) = n
<1>1. Len(s) \in Nat /\ 1 \in 1 .. Len(s) + 1 /\ 1 <= n + 1 /\ n - 1 + 1 = n
  OBVIOUS
<1> QED BY <1>1, SubSeqIs

-----------------------------------------------------------------------------
(* One call of add_reply_proto (client_reply.c) is a list of such calls. *)
LEMMA ProtoOnly ==
  ASSUME NEW s \in Seq(Int)
  PROVE  OnlyProto(Proto(s)) /\ Proto(s) # <<>> /\ Len(Proto(s)) = 1
BY DEF OnlyProto, Proto, Call

(* Two handlers' lists of such calls, one after the other, are one. *)
LEMMA ConcatOnly ==
  ASSUME NEW s, NEW t, OnlyProto(s), OnlyProto(t)
  PROVE  OnlyProto(s \o t) /\ (t # <<>> => s \o t # <<>>)
<1>1. s \o t \in Seq(Call) /\ Len(s \o t) = Len(s) + Len(t)
  BY ConcatIs DEF OnlyProto
<1>2. ASSUME NEW i \in 1 .. Len(s \o t) PROVE (s \o t)[i].op = "proto"
  <2>1. Len(s) \in Nat /\ Len(t) \in Nat BY DEF OnlyProto
  <2>2. CASE i <= Len(s)
    BY <1>1, <2>1, <2>2, ConcatIs DEF OnlyProto
  <2>3. CASE i > Len(s)
    BY <1>1, <2>1, <2>3, ConcatIs DEF OnlyProto
  <2> QED BY <1>1, <2>1, <2>2, <2>3
<1>3. t # <<>> => s \o t # <<>>
  BY <1>1 DEF OnlyProto
<1> QED BY <1>1, <1>2, <1>3 DEF OnlyProto

(* The handlers without a length to fill in (all but MODULE HELP) are well *)
(* ordered.                                                                *)
LEMMA OnlyProtoOrdered ==
  ASSUME NEW t, OnlyProto(t), t # <<>>
  PROVE  t \in Seq(Call) /\ WellOrdered(t) /\ KeepsFirst(t)
BY DEF OnlyProto, WellOrdered, KeepsFirst

(* A status, as add_reply_status_length makes it, is three calls. *)
LEMMA StatusOnly ==
  ASSUME NEW s \in Seq(Int)
  PROVE  /\ OnlyProto(add_reply_status(s)) /\ add_reply_status(s) # <<>>
         /\ Len(add_reply_status(s)) = 3
<1>1. <<PLUS>> \in Seq(Int) /\ <<EOL>> \in Seq(Int) BY DEF PLUS, EOL
<1>2. OnlyProto(Proto(<<PLUS>>) \o Proto(s)) BY <1>1, ProtoOnly, ConcatOnly, Zenon
<1>3. OnlyProto(add_reply_status(s)) /\ add_reply_status(s) # <<>>
  BY <1>1, <1>2, ProtoOnly, ConcatOnly, Zenon DEF add_reply_status
<1>4. Len(add_reply_status(s)) = 3
  BY <1>1, ProtoOnly DEF add_reply_status, Proto
<1> QED BY <1>3, <1>4

(* So is an error, with or without a code of its own. *)
LEMMA ErrorOnly ==
  ASSUME NEW s \in Seq(Int)
  PROVE  OnlyProto(add_reply_error_length(s)) /\ add_reply_error_length(s) # <<>>
<1>1. <<MINUS, TEXT>> \in Seq(Int) /\ <<EOL>> \in Seq(Int) BY DEF MINUS, TEXT, EOL
<1> DEFINE code == IF s # <<>> /\ s[1] = MINUS THEN <<>> ELSE Proto(<<MINUS, TEXT>>)
<1>2. OnlyProto(code)
  <2>1. OnlyProto(<<>>) BY DEF OnlyProto
  <2> QED BY <1>1, <2>1, ProtoOnly, Zenon
<1>3. OnlyProto(Proto(s)) /\ OnlyProto(Proto(<<EOL>>)) /\ Proto(<<EOL>>) # <<>>
  BY <1>1, ProtoOnly, Zenon
<1>4. add_reply_error_length(s) = code \o Proto(s) \o Proto(<<EOL>>)
  BY DEF add_reply_error_length
<1> HIDE DEF code
<1>5. OnlyProto(code \o Proto(s)) BY <1>2, <1>3, ConcatOnly
<1> QED BY <1>3, <1>4, <1>5, ConcatOnly

(* And a bulk reply: its length, its text and the end of the line. *)
LEMMA BulkOnly ==
  ASSUME NEW s \in Seq(Int)
  PROVE  OnlyProto(add_reply_bulk(s)) /\ add_reply_bulk(s) # <<>>
<1>1. <<DOLLAR, Len(s), EOL>> \in Seq(Int) /\ <<EOL>> \in Seq(Int) BY DEF DOLLAR, EOL
<1>2. OnlyProto(Proto(<<DOLLAR, Len(s), EOL>>) \o Proto(s)) BY <1>1, ProtoOnly, ConcatOnly, Zenon
<1> QED BY <1>1, <1>2, ProtoOnly, ConcatOnly, Zenon
      DEF add_reply_bulk, add_reply_long_long_with_prefix

(* The help of a command, for any number of lines. *)
LEMMA HelpOrdered ==
  ASSUME NEW n \in Nat
  PROVE  /\ add_reply_help(n) \in Seq(Call)
         /\ WellOrdered(add_reply_help(n)) /\ KeepsFirst(add_reply_help(n))
<1> DEFINE first == <<[op |-> "deferred", s |-> <<>>]>>
           lines == Statuses(1 + n + 2)
           last == <<[op |-> "set", s |-> <<STAR, n + 3, EOL>>]>>
           m == 3 * (1 + n + 2)
<1>1. m \in Nat OBVIOUS
<1>2. <<TEXT>> \in Seq(Int) BY DEF TEXT
<1>3. lines = [i \in 1 .. m |-> add_reply_status(<<TEXT>>)[IF i % 3 = 0 THEN 3 ELSE i % 3]]
  BY DEF Statuses
<1>4. ASSUME NEW i \in 1 .. m
      PROVE lines[i] \in Call /\ lines[i].op = "proto"
  <2> DEFINE k == IF i % 3 = 0 THEN 3 ELSE i % 3
  <2>1. k \in 1 .. 3 OBVIOUS
  <2>2. lines[i] = add_reply_status(<<TEXT>>)[k] BY <1>3
  <2> DEFINE st == add_reply_status(<<TEXT>>)
  <2>3. st \in Seq(Call) /\ Len(st) = 3 /\ \A j \in 1 .. Len(st) : st[j].op = "proto"
    BY <1>2, StatusOnly, Zenon DEF OnlyProto
  <2>4. lines[i] = st[k] BY <2>2
  <2> HIDE DEF k, st, lines
  <2>5. k \in 1 .. Len(st) BY <2>1, <2>3
  <2>6. st \in [1 .. Len(st) -> Call] BY <2>3, SeqIsFunction, Zenon
  <2>7. st[k].op = "proto" BY <2>3, <2>5
  <2> QED BY <2>4, <2>5, <2>6, <2>7
<1>5. lines \in Seq(Call) /\ Len(lines) = m
  <2>1. \A i \in 1 .. m : lines[i] \in Call BY <1>4
  <2>2. lines \in [1 .. m -> Call] BY <1>3, <2>1
  <2> HIDE DEF lines, m
  <2> QED BY <1>1, <2>2, FunctionIsSeq
<1>6. first \in Seq(Call) /\ Len(first) = 1 /\ first[1].op = "deferred"
  BY DEF Call
<1>7. last \in Seq(Call) /\ Len(last) = 1 /\ last[1].op = "set"
  <2>1. <<STAR, n + 3, EOL>> \in Seq(Int) BY DEF STAR, EOL
  <2> QED BY <2>1 DEF Call
<1>8. add_reply_help(n) = first \o lines \o last BY DEF add_reply_help
<1>9. \A i \in 1 .. m : lines[i].op = "proto" BY <1>4
<1> HIDE DEF first, lines, last, m
<1> DEFINE start == first \o lines
           t == start \o last
<1>10. /\ start \in Seq(Call)
       /\ Len(start) = Len(first) + Len(lines)
       /\ \A i \in 1 .. Len(first) + Len(lines) :
            start[i] = IF i <= Len(first) THEN first[i] ELSE lines[i - Len(first)]
  BY <1>5, <1>6, ConcatIs, Zenon
<1> HIDE DEF start
<1>11a. /\ t \in Seq(Call)
        /\ Len(t) = Len(start) + Len(last)
        /\ \A i \in 1 .. Len(start) + Len(last) :
             t[i] = IF i <= Len(start) THEN start[i] ELSE last[i - Len(start)]
  <2>1. start \in Seq(Call) /\ last \in Seq(Call)
    BY <1>7, <1>10
  <2> QED BY <2>1, ConcatIs
<1> HIDE DEF t
<1>11. t \in Seq(Call) /\ Len(t) = m + 2
  BY <1>1, <1>5, <1>6, <1>7, <1>10, <1>11a
<1>12. t[1].op = "deferred"
  BY <1>1, <1>5, <1>6, <1>7, <1>10, <1>11a
<1>13. t[m + 2].op = "set"
  BY <1>1, <1>5, <1>6, <1>7, <1>10, <1>11a
<1>14. ASSUME NEW i \in 2 .. m + 1 PROVE t[i].op = "proto"
  <2>1. t[i] = start[i] BY <1>1, <1>5, <1>6, <1>7, <1>10, <1>11a
  <2>2. start[i] = lines[i - 1]
    <3>1. i \in 1 .. Len(first) + Len(lines) /\ ~(i <= Len(first)) BY <1>1, <1>5, <1>6
    <3>2. start[i] = lines[i - Len(first)] BY <1>10, <3>1
    <3> QED BY <1>6, <3>2
  <2>3. i - 1 \in 1 .. m BY <1>1
  <2> QED BY <1>9, <2>1, <2>2, <2>3
<1>15. t # <<>> BY <1>1, <1>11
<1>16. \A i \in 1 .. m + 2 : i = 1 \/ i = m + 2 \/ i \in 2 .. m + 1 BY <1>1
<1>17. WellOrdered(t) /\ KeepsFirst(t)
  BY <1>1, <1>11, <1>12, <1>13, <1>14, <1>15, <1>16 DEF WellOrdered, KeepsFirst
<1> QED BY <1>8, <1>11, <1>17 DEF t, start

(* Every handler is well ordered and starts with no place kept. *)
LEMMA HandlersOrdered ==
  ASSUME NEW calls \in Handlers
  PROVE  calls \in Seq(Call) /\ WellOrdered(calls) /\ KeepsFirst(calls)
<1> USE ReplyAssumption
<1>1. ASSUME NEW s \in SharedReplies, calls = Proto(s) PROVE OnlyProto(calls) /\ calls # <<>>
  <2>1. /\ <<PLUS, TEXT, EOL>> \in Seq(Int) /\ <<MINUS, TEXT, EOL>> \in Seq(Int)
        /\ <<STAR, -1, EOL>> \in Seq(Int)
    BY DEF PLUS, MINUS, STAR, TEXT, EOL
  <2>2. s \in Seq(Int) BY <1>1, <2>1, Zenon DEF SharedReplies
  <2> QED BY <1>1, <2>2, ProtoOnly
<1>2. ASSUME NEW n \in {0, 1}, calls = add_reply_long_long_with_prefix(n, COLON)
      PROVE OnlyProto(calls) /\ calls # <<>>
  <2>1. <<COLON, n, EOL>> \in Seq(Int) BY DEF COLON, EOL
  <2> QED BY <1>2, <2>1, ProtoOnly, Zenon DEF add_reply_long_long_with_prefix
<1>3. <<TEXT>> \in Seq(Int) BY DEF TEXT
<1>4. ASSUME NEW a \in Args, calls = add_reply_bulk(a) PROVE OnlyProto(calls) /\ calls # <<>>
  BY <1>4, BulkOnly
<1>5. ASSUME NEW a \in Args, calls = add_reply_error_format(a)
      PROVE OnlyProto(calls) /\ calls # <<>>
  <2> DEFINE text == <<TEXT>> \o a \o <<TEXT>>
  <2>1. text \in Seq(Int) BY <1>3, ConcatIs
  <2>2. add_reply_error_format(a) = add_reply_error_length(OneLine(text))
    BY DEF add_reply_error_format
  <2> HIDE DEF text
  <2>3. OneLine(text) \in [1 .. Len(text) -> Int]
    BY <2>1 DEF OneLine, EOL, SPACE
  <2>4. OneLine(text) \in Seq(Int) BY <2>1, <2>3, FunctionIsSeq
  <2> QED BY <1>5, <2>2, <2>4, ErrorOnly
<1>6. CASE calls = add_reply_help(HelpLines) BY <1>6, HelpOrdered
<1>7. CASE calls \in {add_reply_status(<<TEXT>>), add_reply_error_length(<<TEXT>>)}
  BY <1>3, <1>7, StatusOnly, ErrorOnly, OnlyProtoOrdered
<1> QED BY <1>1, <1>2, <1>4, <1>5, <1>6, <1>7, OnlyProtoOrdered DEF Handlers

-----------------------------------------------------------------------------
GoodBlock(b) == b \in Block /\ Len(b.buf) <= b.size

(* A list with its placeholder at p, or without one if p is 0. *)
Good(l, p) ==
  /\ l \in Seq(Node)
  /\ p \in 0 .. Len(l)
  /\ p # 0 => l[p] = NullNode
  /\ \A i \in 1 .. Len(l) : i # p => GoodBlock(l[i])

(* The part of the invariant about the list. *)
LEMMA GoodIs ==
  (reply \in Seq(Node) /\ node \in 0 .. Len(reply) /\ BlocksFit /\ (node # 0 => reply[node] = NullNode))
    <=> Good(reply, node)
BY DEF Good, GoodBlock, BlocksFit

(* Both a block and the placeholder are nodes. *)
LEMMA Nodes == (\A b : GoodBlock(b) => b \in Node) /\ NullNode \in Node
BY DEF GoodBlock, Block, Node, NullNode

(* A new block at the end of the list (add_reply_proto). *)
LEMMA GoodAppend ==
  ASSUME NEW l, NEW p, Good(l, p), NEW b, GoodBlock(b)
  PROVE  Good(Append(l, b), p)
<1>1. b \in Node BY Nodes
<1>2. /\ Append(l, b) \in Seq(Node) /\ Len(Append(l, b)) = Len(l) + 1
      /\ \A i \in 1 .. Len(l) : Append(l, b)[i] = l[i]
      /\ Append(l, b)[Len(l) + 1] = b
  BY <1>1, AppendIs DEF Good
<1> DEFINE r == Append(l, b)
<1>3. Len(l) \in Nat BY DEF Good
<1> HIDE DEF r
<1>4. p \in 0 .. Len(r) /\ (p # 0 => r[p] = NullNode) BY <1>2, <1>3 DEF r, Good
<1>5. ASSUME NEW i \in 1 .. Len(r), i # p PROVE GoodBlock(r[i])
  <2>1. CASE i \in 1 .. Len(l) BY <1>2, <1>5, <2>1 DEF r, Good
  <2>2. CASE i = Len(l) + 1 BY <1>2, <2>2 DEF r
  <2> QED BY <1>2, <1>3, <2>1, <2>2 DEF r
<1> QED BY <1>2, <1>4, <1>5 DEF r, Good

(* The placeholder at the end of a list without one                        *)
(* (add_reply_deferred_len).                                               *)
LEMMA GoodPlaceholder ==
  ASSUME NEW l, Good(l, 0)
  PROVE  Good(Append(l, NullNode), Len(l) + 1)
<1>2. /\ Append(l, NullNode) \in Seq(Node) /\ Len(Append(l, NullNode)) = Len(l) + 1
      /\ \A i \in 1 .. Len(l) : Append(l, NullNode)[i] = l[i]
      /\ Append(l, NullNode)[Len(l) + 1] = NullNode
  BY Nodes, AppendIs DEF Good
<1> DEFINE r == Append(l, NullNode)
<1>3. Len(l) \in Nat BY DEF Good
<1> HIDE DEF r
<1>4. Len(l) + 1 \in 0 .. Len(r) BY <1>2, <1>3 DEF r
<1>5. ASSUME NEW i \in 1 .. Len(r), i # Len(l) + 1 PROVE GoodBlock(r[i])
  <2>1. i \in 1 .. Len(l) /\ i # 0 BY <1>2, <1>3, <1>5 DEF r
  <2> QED BY <1>2, <2>1 DEF r, Good
<1> QED BY <1>2, <1>4, <1>5 DEF r, Good

(* A block of the list grows in place. *)
LEMMA GoodExcept ==
  ASSUME NEW l, NEW p, Good(l, p), NEW j \in 1 .. Len(l), j # p, NEW b, GoodBlock(b)
  PROVE  Good([l EXCEPT ![j] = b], p) /\ Len([l EXCEPT ![j] = b]) = Len(l)
<1>1. b \in Node BY Nodes
<1> DEFINE r == [l EXCEPT ![j] = b]
<1>2. /\ r \in Seq(Node) /\ Len(r) = Len(l)
      /\ \A i \in 1 .. Len(l) : r[i] = IF i = j THEN b ELSE l[i]
  BY <1>1, ExceptIs DEF Good
<1> HIDE DEF r
<1>3. p \in 0 .. Len(r) /\ (p # 0 => r[p] = NullNode) BY <1>2 DEF Good
<1>4. \A i \in 1 .. Len(r) : i # p => GoodBlock(r[i]) BY <1>2 DEF Good
<1> QED BY <1>2, <1>3, <1>4 DEF Good, r

(* The placeholder becomes a block (the end of set_deferred_reply). *)
LEMMA GoodFill ==
  ASSUME NEW l, NEW p, Good(l, p), p # 0, NEW b, GoodBlock(b)
  PROVE  Good([l EXCEPT ![p] = b], 0)
<1>1. b \in Node BY Nodes
<1> DEFINE r == [l EXCEPT ![p] = b]
<1>0. p \in 1 .. Len(l) BY DEF Good
<1>2. /\ r \in Seq(Node) /\ Len(r) = Len(l)
      /\ \A i \in 1 .. Len(l) : r[i] = IF i = p THEN b ELSE l[i]
  BY <1>0, <1>1, ExceptIs DEF Good
<1> HIDE DEF r
<1>3. \A i \in 1 .. Len(r) : GoodBlock(r[i]) BY <1>2 DEF Good
<1>4. 0 \in 0 .. Len(r) BY <1>2, <1>0
<1> QED BY <1>2, <1>3, <1>4 DEF Good, r

(* The placeholder is removed (list_del_node in set_deferred_reply). *)
LEMMA GoodDelete ==
  ASSUME NEW l, NEW p, Good(l, p), p # 0
  PROVE  Good(list_del_node(l, p), 0)
<1>1. l \in Seq(Node) /\ Len(l) \in Nat /\ p \in 1 .. Len(l) BY DEF Good
<1> DEFINE a == SubSeq(l, 1, p - 1)
           c == SubSeq(l, p + 1, Len(l))
<1>2. a \in Seq(Node) /\ Len(a) = p - 1 /\ \A i \in 1 .. p - 1 : a[i] = l[i]
  BY <1>1
<1>3. c \in Seq(Node) /\ Len(c) = Len(l) - p /\ \A i \in 1 .. Len(l) - p : c[i] = l[p + i]
  BY <1>1
<1>4. list_del_node(l, p) = a \o c BY DEF list_del_node
<1> HIDE DEF a, c
<1> DEFINE r == a \o c
<1>5. /\ r \in Seq(Node) /\ Len(r) = Len(a) + Len(c)
      /\ \A i \in 1 .. Len(a) + Len(c) : r[i] = IF i <= Len(a) THEN a[i] ELSE c[i - Len(a)]
  BY <1>2, <1>3, ConcatIs, Zenon
<1> HIDE DEF r
<1>6. ASSUME NEW i \in 1 .. Len(r) PROVE GoodBlock(r[i])
  <2>1. CASE i <= p - 1
    <3>1. i \in 1 .. p - 1 /\ r[i] = l[i] BY <1>1, <1>2, <1>3, <1>5, <2>1
    <3>2. i \in 1 .. Len(l) /\ i # p BY <1>1, <3>1
    <3> QED BY <3>1, <3>2 DEF Good
  <2>2. CASE ~(i <= p - 1)
    <3>1. r[i] = c[i - Len(a)] /\ i - Len(a) \in 1 .. Len(l) - p
      BY <1>1, <1>2, <1>3, <1>5, <2>2
    <3>2. c[i - Len(a)] = l[p + (i - Len(a))] BY <1>3, <3>1
    <3>3. p + (i - Len(a)) \in 1 .. Len(l) /\ p + (i - Len(a)) # p BY <1>1, <3>1
    <3> QED BY <3>1, <3>2, <3>3 DEF Good
  <2> QED BY <2>1, <2>2
<1>7. 0 \in 0 .. Len(r) BY <1>1, <1>2, <1>3, <1>5
<1> QED BY <1>4, <1>5, <1>6, <1>7 DEF Good, r

(* Text that fits in the room of a block leaves a good block. *)
LEMMA GoodGrow ==
  ASSUME NEW b, GoodBlock(b), NEW s \in Seq(Int), Len(s) <= Room(b)
  PROVE  /\ GoodBlock([size |-> b.size, buf |-> b.buf \o s])
         /\ GoodBlock([size |-> b.size, buf |-> s \o b.buf])
<1>1. b.size \in Nat /\ b.buf \in Seq(Int) /\ Len(b.buf) <= b.size
  BY DEF GoodBlock, Block
<1>2. b # NullNode BY <1>1 DEF NullNode
<1>3. Len(s) + Len(b.buf) <= b.size BY <1>1, <1>2 DEF Room
<1>4. /\ b.buf \o s \in Seq(Int) /\ Len(b.buf \o s) = Len(b.buf) + Len(s)
      /\ s \o b.buf \in Seq(Int) /\ Len(s \o b.buf) = Len(b.buf) + Len(s)
  BY <1>1
<1> DEFINE x == b.buf \o s
           y == s \o b.buf
<1> HIDE DEF x, y
<1>5. GoodBlock([size |-> b.size, buf |-> x]) BY <1>1, <1>3, <1>4 DEF GoodBlock, Block, x
<1>6. GoodBlock([size |-> b.size, buf |-> y]) BY <1>1, <1>3, <1>4 DEF GoodBlock, Block, y
<1> QED BY <1>5, <1>6 DEF x, y

(* A call that returns leaves a list of calls in the same order. *)
LEMMA TailOrdered ==
  ASSUME NEW t \in Seq(Call), t # <<>>, WellOrdered(t)
  PROVE  /\ Tail(t) \in Seq(Call) /\ WellOrdered(Tail(t))
         /\ Len(t) = 1 => Tail(t) = <<>>
         /\ Len(t) # 1 => /\ Tail(t) # <<>>
                          /\ Tail(t)[Len(Tail(t))] = t[Len(t)]
                          /\ Tail(t)[1].op # "deferred"
<1> DEFINE u == Tail(t)
<1>1. /\ u \in Seq(Call) /\ Len(t) \in Nat /\ Len(t) >= 1 /\ Len(u) = Len(t) - 1
      /\ \A i \in 1 .. Len(u) : u[i] = t[i + 1]
  BY TailIs
<1> HIDE DEF u
<1>2. \A i \in 1 .. Len(u) : u[i].op = "set" => i = Len(u)
  BY <1>1 DEF WellOrdered
<1>3. \A i \in 1 .. Len(u) : u[i].op # "deferred"
  BY <1>1 DEF WellOrdered
<1>4. Len(t) = 1 => u = <<>> BY <1>1
<1>5. Len(t) # 1 => u # <<>> /\ u[Len(u)] = t[Len(t)] /\ u[1].op # "deferred"
  BY <1>1, <1>3
<1> QED BY <1>1, <1>2, <1>3, <1>4, <1>5, Zenon DEF WellOrdered, u

(* The calls and the history after any call returned. *)
LEMMA ReturnsOrdered ==
  ASSUME IInv, todo # <<>>, Returns
  PROVE  todo' \in Seq(Call) /\ WellOrdered(todo') /\ before' \in Seq(Node)
<1>1. todo \in Seq(Call) /\ WellOrdered(todo) /\ before \in Seq(Node)
  BY DEF IInv, TypeOK, Node
<1> QED BY <1>1, TailOrdered DEF Returns

(* What is left to prove about a call: the list and its placeholder. *)
LEMMA CallPreserves ==
  ASSUME IInv, todo # <<>>, Returns, Good(reply', node'),
         node' # 0 <=> todo' # <<>> /\ todo'[Len(todo')].op = "set" /\ todo'[1].op # "deferred"
  PROVE  IInv'
<1>1. todo' \in Seq(Call) /\ WellOrdered(todo') /\ before' \in Seq(Node)
  BY ReturnsOrdered
<1>2. reply' \in Seq(Node) /\ node' \in 0 .. Len(reply') /\ (node' # 0 => reply'[node'] = NullNode)
  BY DEF Good
<1>3. BlocksFit' BY DEF BlocksFit, Good, GoodBlock
<1>4. TypeOK' BY <1>1, <1>2 DEF TypeOK, Node
<1>5. PlaceholderIsFilled' BY <1>2 DEF PlaceholderIsFilled
<1>6. WellOrdered(todo)' BY <1>1 DEF WellOrdered
<1> QED BY <1>3, <1>4, <1>5, <1>6 DEF IInv

(* The facts every call starts from. *)
LEMMA CallStarts ==
  ASSUME IInv, NEW op, Calling(op)
  PROVE  /\ todo # <<>> /\ todo \in Seq(Call) /\ todo[1].op = op
         /\ WellOrdered(todo) /\ Head(todo).s \in Seq(Int)
         /\ Good(reply, node)
         /\ node # 0 <=> todo[Len(todo)].op = "set" /\ op # "deferred"
<1>1. todo # <<>> /\ todo \in Seq(Call) /\ Head(todo).op = op
  BY DEF IInv, TypeOK, Calling
<1>2. Head(todo) = todo[1] /\ Head(todo) \in Call BY <1>1, TailIs
<1>3. Head(todo).s \in Seq(Int) BY <1>2 DEF Call
<1>4. Good(reply, node) BY GoodIs DEF IInv, TypeOK, PlaceholderIsFilled, Node
<1>5. node # 0 <=> todo[Len(todo)].op = "set" /\ op # "deferred"
  BY <1>1, <1>2 DEF IInv, PlaceholderIsFilled
<1> QED BY <1>1, <1>2, <1>3, <1>4, <1>5 DEF IInv, TypeOK

(* How much of s the last block takes (add_reply_proto): none goes past    *)
(* its end, and none to the placeholder.                                   *)
LEMMA Fits ==
  ASSUME NEW s \in Seq(Int), Good(reply, node)
  PROVE  LET n == Len(reply)
             fits == IF n = 0 THEN 0 ELSE Least(Room(reply[n]), Len(s))
         IN /\ fits \in 0 .. Len(s)
            /\ fits # 0 => n \in 1 .. Len(reply) /\ n # node /\ GoodBlock(reply[n]) /\ fits <= Room(reply[n])
<1> DEFINE n == Len(reply)
           fits == IF n = 0 THEN 0 ELSE Least(Room(reply[n]), Len(s))
<1>0. n \in Nat /\ Len(s) \in Nat BY DEF Good
<1>1. CASE n = 0 BY <1>0, <1>1
<1>2. CASE n # 0 /\ n = node
  <2>1. Room(reply[n]) = 0 BY <1>2 DEF Good, Room
  <2>2. fits = 0 BY <1>0, <1>2, <2>1 DEF Least
  <2> QED BY <1>0, <2>2
<1>3. CASE n # 0 /\ n # node
  <2>1. n \in 1 .. Len(reply) BY <1>0, <1>3
  <2>2. GoodBlock(reply[n]) BY <1>3, <2>1 DEF Good
  <2>3. Room(reply[n]) \in Nat
    <3>1. reply[n].size \in Nat /\ Len(reply[n].buf) \in Nat /\ Len(reply[n].buf) <= reply[n].size
      BY <2>2 DEF GoodBlock, Block
    <3> QED BY <3>1 DEF Room
  <2>4. fits = Least(Room(reply[n]), Len(s)) BY <1>3
  <2>5. fits \in 0 .. Len(s) /\ fits <= Room(reply[n]) BY <1>0, <2>3, <2>4 DEF Least
  <2> QED BY <1>3, <2>1, <2>2, <2>5
<1> QED BY <1>1, <1>2, <1>3

(* How much of s the block before the placeholder takes                    *)
(* (set_deferred_reply): none goes past its end.                           *)
LEMMA Preceding ==
  ASSUME NEW s \in Seq(Int), Good(reply, node), node # 0
  PROVE  /\ ToPrev(s) \in 0 .. Len(s)
         /\ ToPrev(s) # 0 => /\ node - 1 \in 1 .. Len(reply) /\ node - 1 # node
                             /\ GoodBlock(reply[node - 1])
                             /\ ToPrev(s) <= Room(reply[node - 1])
<1>0. node \in 1 .. Len(reply) /\ Len(reply) \in Nat /\ Len(s) \in Nat BY DEF Good
<1>1. CASE node = 1 BY <1>0, <1>1 DEF ToPrev
<1>2. CASE node # 1
  <2>1. node - 1 \in 1 .. Len(reply) /\ node - 1 # node BY <1>0, <1>2
  <2>2. GoodBlock(reply[node - 1]) BY <2>1 DEF Good
  <2> DEFINE b == reply[node - 1]
  <2>3. b.size \in Nat /\ Len(b.buf) \in Nat /\ Len(b.buf) <= b.size
    BY <2>2 DEF GoodBlock, Block
  <2> HIDE DEF b
  <2>4. Room(b) \in Nat BY <2>3 DEF Room
  <2>5. ToPrev(s) = Least(Room(b), Len(s)) BY <1>2 DEF ToPrev, b
  <2>6. ToPrev(s) \in 0 .. Len(s) /\ ToPrev(s) <= Room(b) BY <1>0, <2>4, <2>5 DEF Least
  <2> QED BY <2>1, <2>2, <2>6 DEF b
<1> QED BY <1>1, <1>2

(* add_reply_proto *)
LEMMA ProtoPreserves ==
  ASSUME IInv, NEW x \in Slack, add_reply_proto(x)
  PROVE  IInv'
<1> DEFINE s == Head(todo).s
           n == Len(reply)
           fits == IF n = 0 THEN 0 ELSE Least(Room(reply[n]), Len(s))
           filled == IF fits = 0 THEN reply
                     ELSE [reply EXCEPT ![n] = [size |-> reply[n].size,
                                                buf |-> reply[n].buf \o SubSeq(s, 1, fits)]]
           rest == SubSeq(s, fits + 1, Len(s))
           block == [size |-> (IF Len(rest) < Chunk THEN Chunk ELSE Len(rest)) + x, buf |-> rest]
<1>1. /\ Calling("proto") /\ node' = node /\ Returns
      /\ \/ reply' = filled
         \/ reply' = Append(filled, block)
  BY Zenon DEF add_reply_proto
<1>2. /\ todo # <<>> /\ todo \in Seq(Call) /\ todo[1].op = "proto" /\ WellOrdered(todo)
      /\ s \in Seq(Int) /\ Good(reply, node)
      /\ node # 0 <=> todo[Len(todo)].op = "set"
  <2>1. /\ todo # <<>> /\ todo \in Seq(Call) /\ todo[1].op = "proto" /\ WellOrdered(todo)
        /\ s \in Seq(Int) /\ Good(reply, node)
        /\ node # 0 <=> todo[Len(todo)].op = "set" /\ "proto" # "deferred"
    BY <1>1, CallStarts, Zenon
  <2>2. "proto" # "deferred" OBVIOUS
  <2> QED BY <2>1, <2>2
<1>3. x \in Nat /\ Chunk \in Nat BY ReplyAssumption
<1> HIDE DEF s
<1>4. n \in Nat /\ Len(s) \in Nat BY <1>2 DEF Good
<1>5. /\ fits \in 0 .. Len(s)
      /\ fits # 0 => n \in 1 .. Len(reply) /\ n # node /\ GoodBlock(reply[n]) /\ fits <= Room(reply[n])
  BY <1>2, Fits
<1> HIDE DEF fits
<1>6. SubSeq(s, 1, fits) \in Seq(Int) /\ Len(SubSeq(s, 1, fits)) = fits
  BY <1>2, <1>4, <1>5, PrefixFacts
<1>7. Good(filled, node)
  <2>1. CASE fits = 0 BY <1>2, <2>1
  <2>2. CASE fits # 0
    <3> DEFINE b == [size |-> reply[n].size, buf |-> reply[n].buf \o SubSeq(s, 1, fits)]
    <3>1. GoodBlock(b) BY <1>5, <1>6, <2>2, GoodGrow, Zenon
    <3>2. filled = [reply EXCEPT ![n] = b] BY <2>2
    <3> HIDE DEF b, n, filled
    <3>3. n \in 1 .. Len(reply) /\ n # node BY <1>5, <2>2
    <3> QED BY <1>2, <3>1, <3>2, <3>3, GoodExcept, Zenon
  <2> QED BY <2>1, <2>2
<1>8. rest \in Seq(Int) /\ Len(rest) \in Nat BY <1>2, <1>4, <1>5
<1> HIDE DEF rest
<1>9. GoodBlock(block) /\ block.size \in Nat
  <2> DEFINE z == (IF Len(rest) < Chunk THEN Chunk ELSE Len(rest)) + x
  <2>1. z \in Nat /\ Len(rest) <= z BY <1>3, <1>8
  <2>2. block = [size |-> z, buf |-> rest] OBVIOUS
  <2> HIDE DEF z, block
  <2> QED BY <1>8, <2>1, <2>2 DEF GoodBlock, Block
<1> HIDE DEF block, filled
<1>10. Good(Append(filled, block), node) BY <1>7, <1>9, GoodAppend
<1>11. Good(reply', node') BY <1>1, <1>7, <1>10, Zenon
<1>12. todo' = Tail(todo) BY <1>1 DEF Returns
<1>13. node' # 0 <=> todo' # <<>> /\ todo'[Len(todo')].op = "set" /\ todo'[1].op # "deferred"
  <2>1. CASE Len(todo) = 1
    BY <1>1, <1>2, <1>12, <2>1, TailOrdered
  <2>2. CASE Len(todo) # 1
    BY <1>1, <1>2, <1>12, <2>2, TailOrdered
  <2> QED BY <2>1, <2>2
<1> QED BY <1>1, <1>2, <1>11, <1>13, CallPreserves

(* add_reply_deferred_len *)
LEMMA DeferredPreserves ==
  ASSUME IInv, NEW x \in Slack, add_reply_deferred_len(x)
  PROVE  IInv'
<1> DEFINE n == Len(reply)
           tail == reply[n]
           b == [size |-> Len(tail.buf) + x, buf |-> tail.buf]
<1>1. /\ Calling("deferred") /\ node' = n + 1 /\ Returns
      /\ reply' = Append(trim_reply_unused_tail_space(x), NullNode)
  BY DEF add_reply_deferred_len
<1>2. /\ todo # <<>> /\ todo \in Seq(Call) /\ todo[1].op = "deferred" /\ WellOrdered(todo)
      /\ Good(reply, node) /\ node = 0
  BY <1>1, CallStarts
<1>3. x \in Nat BY ReplyAssumption
<1>4. n \in Nat BY <1>2 DEF Good
<1>5. \/ /\ n > 0
         /\ reply' = Append([reply EXCEPT ![n] = b], NullNode)
      \/ reply' = Append(reply, NullNode)
  BY <1>1 DEF trim_reply_unused_tail_space
<1>6. ASSUME n > 0
      PROVE GoodBlock(b) /\ n \in 1 .. Len(reply)
  <2>1. n \in 1 .. Len(reply) /\ n # node BY <1>2, <1>4, <1>6
  <2>2. GoodBlock(tail) BY <1>2, <2>1 DEF Good
  <2>3. tail.size \in Nat /\ tail.buf \in Seq(Int) /\ Len(tail.buf) \in Nat
    BY <2>2 DEF GoodBlock, Block
  <2> HIDE DEF tail
  <2>4. GoodBlock(b) BY <1>3, <2>3 DEF GoodBlock, Block
  <2> QED BY <2>1, <2>4
<1> HIDE DEF b, tail
<1>7. Good(reply', node')
  <2>1. CASE /\ n > 0
             /\ reply' = Append([reply EXCEPT ![n] = b], NullNode)
    <3>1. Good([reply EXCEPT ![n] = b], 0) /\ Len([reply EXCEPT ![n] = b]) = n
      <4> HIDE DEF n
      <4>1. n \in 1 .. Len(reply) /\ n # 0 /\ GoodBlock(b) BY <1>4, <1>6, <2>1
      <4>2. Len([reply EXCEPT ![n] = b]) = Len(reply) /\ Good([reply EXCEPT ![n] = b], 0)
        BY <1>2, <4>1, GoodExcept
      <4> QED BY <4>2 DEF n
    <3> HIDE DEF n
    <3> QED BY <1>1, <2>1, <3>1, GoodPlaceholder, Zenon
  <2>2. CASE reply' = Append(reply, NullNode)
    BY <1>1, <1>2, <2>2, GoodPlaceholder
  <2> QED BY <1>5, <2>1, <2>2
<1>8. todo' = Tail(todo) BY <1>1 DEF Returns
<1>9. Len(todo) \in Nat /\ Len(todo) # 1 /\ todo[Len(todo)].op = "set"
  BY <1>2 DEF WellOrdered
<1>10. node' # 0 BY <1>1, <1>4
<1>11. todo' # <<>> /\ todo'[Len(todo')].op = "set" /\ todo'[1].op # "deferred"
  BY <1>2, <1>8, <1>9, TailOrdered
<1> QED BY <1>1, <1>2, <1>7, <1>10, <1>11, CallPreserves

(* set_deferred_reply *)
LEMMA SetPreserves ==
  ASSUME IInv, NEW x \in Slack, set_deferred_reply(x)
  PROVE  IInv'
<1> DEFINE s == Head(todo).s
           rest == Rest(s)
           block == [size |-> Len(rest) + x, buf |-> rest]
           next == reply[node + 1]
           grown == [size |-> next.size, buf |-> rest \o next.buf]
           list == WithPrev(s)
<1>1. /\ Calling("set") /\ node' = 0 /\ Returns
      /\ \/ reply' = list_del_node(list, node)
         \/ /\ NextTakes(rest)
            /\ reply' = list_del_node([list EXCEPT ![node + 1] = grown], node)
         \/ reply' = [list EXCEPT ![node] = block]
  BY DEF set_deferred_reply
<1>2. /\ todo # <<>> /\ todo \in Seq(Call) /\ todo[1].op = "set" /\ WellOrdered(todo)
      /\ s \in Seq(Int) /\ Good(reply, node)
      /\ node # 0 <=> todo[Len(todo)].op = "set" /\ "set" # "deferred"
  BY <1>1, CallStarts
<1>3. Len(todo) = 1 /\ todo[Len(todo)].op = "set"
  <2>1. todo # <<>> /\ todo \in Seq(Call) /\ todo[1].op = "set" /\ WellOrdered(todo) BY <1>2
  <2>2. 1 \in 1 .. Len(todo) BY <2>1
  <2>3. 1 = Len(todo) BY <2>1, <2>2, Zenon DEF WellOrdered
  <2> QED BY <2>1, <2>3, Zenon
<1>4. node # 0
  <2>1. "set" # "deferred" OBVIOUS
  <2> QED BY <1>2, <1>3, <2>1
<1>5. x \in Nat BY ReplyAssumption
<1> HIDE DEF s
<1>6. node \in 1 .. Len(reply) /\ Len(reply) \in Nat /\ Len(s) \in Nat BY <1>2, <1>4 DEF Good
<1>7. /\ ToPrev(s) \in 0 .. Len(s)
      /\ ToPrev(s) # 0 => /\ node - 1 \in 1 .. Len(reply) /\ node - 1 # node
                          /\ GoodBlock(reply[node - 1])
                          /\ ToPrev(s) <= Room(reply[node - 1])
  BY <1>2, <1>4, Preceding
<1>8. Good(list, node) /\ Len(list) = Len(reply)
      /\ (node < Len(reply) => list[node + 1] = reply[node + 1])
  <2>1. CASE ToPrev(s) = 0 BY <1>2, <2>1 DEF WithPrev
  <2>2. CASE ToPrev(s) # 0
    <3> DEFINE j == node - 1
               t == SubSeq(s, 1, ToPrev(s))
               b == [size |-> reply[j].size, buf |-> reply[j].buf \o t]
    <3>1. t \in Seq(Int) /\ Len(t) = ToPrev(s)
      <4>1. s \in Seq(Int) BY <1>2
      <4>2. ToPrev(s) \in 0 .. Len(s) BY <1>6, <1>7
      <4> QED BY <4>1, <4>2, PrefixFacts
    <3> HIDE DEF t
    <3>2. GoodBlock(b) BY <1>7, <2>2, <3>1, GoodGrow, Zenon
    <3>3. list = [reply EXCEPT ![j] = b] BY <2>2 DEF WithPrev, t
    <3>4. j \in 1 .. Len(reply) /\ j # node BY <1>7, <2>2
    <3> HIDE DEF b, list
    <3>5. node < Len(reply) => node + 1 \in 1 .. Len(reply) /\ node + 1 # j BY <1>6
    <3> HIDE DEF j
    <3>6. Good(list, node) /\ Len(list) = Len(reply)
      <4>1. Good(reply, node) BY <1>2
      <4>2. Good([reply EXCEPT ![j] = b], node) /\ Len([reply EXCEPT ![j] = b]) = Len(reply)
        BY <3>2, <3>4, <4>1, GoodExcept
      <4> QED BY <3>3, <4>2
    <3>7. node < Len(reply) => list[node + 1] = reply[node + 1]
      <4>1. reply \in [1 .. Len(reply) -> Node] BY <1>2, SeqIsFunction DEF Good
      <4> QED BY <3>3, <3>4, <3>5, <4>1
    <3> QED BY <3>6, <3>7
  <2> QED BY <2>1, <2>2
<1>9. rest \in Seq(Int) /\ Len(rest) \in Nat BY <1>2, <1>6, <1>7 DEF Rest
<1> HIDE DEF rest, list
<1>10. GoodBlock(block) /\ block.size \in Nat
  <2> DEFINE z == Len(rest) + x
  <2>1. z \in Nat /\ Len(rest) <= z BY <1>5, <1>9
  <2>2. block = [size |-> z, buf |-> rest] OBVIOUS
  <2> HIDE DEF z, block
  <2> QED BY <1>9, <2>1, <2>2 DEF GoodBlock, Block
<1>11. ASSUME NextTakes(rest) PROVE Good([list EXCEPT ![node + 1] = grown], node)
  <2>1. node + 1 \in 1 .. Len(list) /\ node + 1 # node /\ node + 1 \in 1 .. Len(reply)
    BY <1>6, <1>8, <1>11 DEF NextTakes
  <2>2. GoodBlock(next) /\ Len(rest) <= Room(next)
    <3>1. GoodBlock(next) BY <1>2, <2>1 DEF Good
    <3>2. Room(next) >= Len(rest) BY <1>11 DEF NextTakes
    <3>3. Room(next) \in Int
      <4>1. next.size \in Nat /\ Len(next.buf) \in Nat BY <3>1 DEF GoodBlock, Block
      <4> HIDE DEF next
      <4> QED BY <4>1 DEF Room
    <3> QED BY <1>9, <3>1, <3>2, <3>3
  <2> HIDE DEF next
  <2>3. GoodBlock(grown) BY <1>9, <2>2, GoodGrow, Zenon
  <2> HIDE DEF grown
  <2> DEFINE j == node + 1
  <2>4. j \in 1 .. Len(list) /\ j # node BY <2>1
  <2> HIDE DEF j
  <2>5. Good([list EXCEPT ![j] = grown], node) BY <1>8, <2>3, <2>4, GoodExcept
  <2> QED BY <2>5 DEF j
<1> HIDE DEF block, grown
<1>12. Good(reply', 0)
  <2>1. Good(list_del_node(list, node), 0) BY <1>4, <1>8, GoodDelete
  <2>2. Good([list EXCEPT ![node] = block], 0) BY <1>4, <1>8, <1>10, GoodFill
  <2>3. NextTakes(rest) => Good(list_del_node([list EXCEPT ![node + 1] = grown], node), 0)
    BY <1>4, <1>11, GoodDelete
  <2> QED BY <1>1, <2>1, <2>2, <2>3
<1>13. todo' = <<>> BY <1>1, <1>2, <1>3, TailOrdered DEF Returns
<1>14. Good(reply', node') BY <1>1, <1>12
<1> QED BY <1>1, <1>2, <1>13, <1>14, CallPreserves

(* The library writes a block when no handler runs. *)
LEMMA WritePreserves ==
  ASSUME IInv, write_to_client
  PROVE  IInv'
<1>1. /\ todo = <<>> /\ reply # <<>> /\ reply' = Tail(reply)
      /\ todo' = todo /\ node' = node /\ before' = before
  BY DEF write_to_client
<1>2. Good(reply, node) /\ node = 0
  BY <1>1, GoodIs DEF IInv, TypeOK, PlaceholderIsFilled, Node
<1>3. /\ reply' \in Seq(Node) /\ Len(reply') = Len(reply) - 1 /\ Head(reply) \in Node
      /\ \A i \in 1 .. Len(reply') : reply'[i] = reply[i + 1]
      /\ Len(reply) \in Nat /\ Len(reply) >= 1
  BY <1>1, <1>2, TailIs DEF Good
<1>4. Good(reply', node')
  <2>1. node' = 0 /\ 0 \in 0 .. Len(reply') BY <1>1, <1>2, <1>3
  <2>2. ASSUME NEW i \in 1 .. Len(reply') PROVE GoodBlock(reply'[i])
    <3>1. i + 1 \in 1 .. Len(reply) /\ i + 1 # 0 BY <1>3
    <3> QED BY <1>2, <1>3, <3>1 DEF Good
  <2> QED BY <1>3, <2>1, <2>2 DEF Good
<1>5. BlocksFit' BY <1>4 DEF Good, GoodBlock, BlocksFit
<1>6. TypeOK' BY <1>1, <1>4 DEF IInv, TypeOK, Good, Node
<1>7. PlaceholderIsFilled' BY <1>1, <1>2 DEF PlaceholderIsFilled
<1>8. WellOrdered(todo)' BY <1>1 DEF IInv, WellOrdered
<1> QED BY <1>5, <1>6, <1>7, <1>8 DEF IInv

(* A handler starts. *)
LEMMA HandlePreserves ==
  ASSUME IInv, NEW calls \in Handlers, handle(calls)
  PROVE  IInv'
<1>1. /\ todo = <<>> /\ todo' = calls /\ before' = reply
      /\ reply' = reply /\ node' = node
  BY DEF handle
<1>2. calls \in Seq(Call) /\ WellOrdered(calls) /\ KeepsFirst(calls) BY HandlersOrdered
<1>3. node = 0 BY <1>1 DEF IInv, PlaceholderIsFilled
<1>4. TypeOK' BY <1>1, <1>2 DEF IInv, TypeOK
<1>5. BlocksFit' BY <1>1 DEF IInv, BlocksFit
<1>6. PlaceholderIsFilled' BY <1>1, <1>2, <1>3 DEF PlaceholderIsFilled, KeepsFirst
<1>7. WellOrdered(todo)' BY <1>1, <1>2 DEF WellOrdered
<1> QED BY <1>4, <1>5, <1>6, <1>7 DEF IInv

(* Every step keeps the inductive invariant. *)
LEMMA ReplyNextPreserves == IInv /\ [Next]_vars => IInv'
<1> SUFFICES ASSUME IInv, [Next]_vars PROVE IInv' OBVIOUS
<1>1. CASE \E calls \in Handlers : handle(calls) BY <1>1, HandlePreserves
<1>2. CASE \E x \in Slack : add_reply_proto(x) BY <1>2, ProtoPreserves
<1>3. CASE \E x \in Slack : add_reply_deferred_len(x) BY <1>3, DeferredPreserves
<1>4. CASE \E x \in Slack : set_deferred_reply(x) BY <1>4, SetPreserves
<1>5. CASE write_to_client BY <1>5, WritePreserves
<1>6. CASE UNCHANGED vars
  BY <1>6 DEF vars, IInv, TypeOK, BlocksFit, PlaceholderIsFilled, WellOrdered
<1> QED BY <1>1, <1>2, <1>3, <1>4, <1>5, <1>6 DEF Next

(* It holds of a connection that was just accepted. *)
LEMMA ReplyInit == Init => IInv
BY DEF Init, IInv, TypeOK, BlocksFit, PlaceholderIsFilled, WellOrdered

(* The reply list keeps its types, for every allocator, chunk size and     *)
(* help: the node of a placeholder is always in the list.                  *)
THEOREM ReplyTypeCorrect == Spec => []TypeOK
<1>1. IInv => TypeOK BY DEF IInv
<1> QED BY <1>1, ReplyInit, ReplyNextPreserves, PTL DEF Spec

(* No copy of add_reply_proto or set_deferred_reply goes past the end of   *)
(* its block.                                                              *)
THEOREM CopiesStayInBlocks == Spec => []BlocksFit
<1>1. IInv => BlocksFit BY DEF IInv
<1> QED BY <1>1, ReplyInit, ReplyNextPreserves, PTL DEF Spec

(* The assertion of set_deferred_reply holds and the socket is never given *)
(* a placeholder.                                                          *)
THEOREM LengthsAreFilledIn == Spec => []PlaceholderIsFilled
<1>1. IInv => PlaceholderIsFilled BY DEF IInv
<1> QED BY <1>1, ReplyInit, ReplyNextPreserves, PTL DEF Spec

-----------------------------------------------------------------------------
(* Concatenation of units. *)
LEMMA Units ==
  /\ <<>> \in Seq(Int)
  /\ \A a, b \in Seq(Int) : a \o b \in Seq(Int) /\ Len(a \o b) = Len(a) + Len(b)
  /\ \A a \in Seq(Int) : a \o <<>> = a /\ <<>> \o a = a
<1>2. ASSUME NEW a \in Seq(Int) PROVE a \o <<>> = a /\ <<>> \o a = a
  OBVIOUS
<1>3. ASSUME NEW a \in Seq(Int), NEW b \in Seq(Int)
      PROVE  a \o b \in Seq(Int) /\ Len(a \o b) = Len(a) + Len(b)
  OBVIOUS
<1> QED BY <1>2, <1>3

(* It does not matter in which order three pieces are put together. *)
LEMMA Regroup == \A a, b, c \in Seq(Int) : (a \o b) \o c = a \o (b \o c)
<1> SUFFICES ASSUME NEW a \in Seq(Int), NEW b \in Seq(Int), NEW c \in Seq(Int)
             PROVE  (a \o b) \o c = a \o (b \o c)
  BY Zenon
<1> QED BY ConcatAssoc

(* What the nodes of a list hold.  A walk along the list has collected     *)
(* w[i] when it has passed i nodes.                                        *)
IsCollected(w, l) ==
  /\ w \in [0 .. Len(l) -> Seq(Int)]
  /\ w[0] = <<>>
  /\ \A i \in 1 .. Len(l) : w[i] = w[i - 1] \o l[i].buf

(* There is such a walk, and it ends with the contents of the list. *)
LEMMA ContentsCollected ==
  ASSUME NEW l \in Seq(Node)
  PROVE  \E w : IsCollected(w, l) /\ Contents(l) = w[Len(l)]
<1> DEFINE n == Len(l)
           S == Seq(Int)
           step == [i \in 1 .. n |-> [q \in S |-> q \o l[i].buf]]
           upto == CHOOSE u : u = [i \in 0 .. n |-> IF i = 0 THEN <<>> ELSE u[i - 1] \o l[i].buf]
<1>1. n \in Nat /\ <<>> \in S /\ n = Len(l) /\ S = Seq(Int)
  OBVIOUS
<1>2. \A i \in 1 .. n : \A q \in S : q \o l[i].buf \in S
  <2>1. ASSUME NEW i \in 1 .. n, NEW q \in S PROVE q \o l[i].buf \in S
    <3>1. l[i] \in Node
      OBVIOUS
    <3>2. l[i].buf \in Seq(Int)
      BY <3>1 DEF Node
    <3> QED BY <3>2, ConcatIs
  <2> QED BY <2>1
<1>3. step \in [1 .. n -> [S -> S]] /\ \A i \in 1 .. n : \A q \in S : step[i][q] = q \o l[i].buf
  BY <1>2
<1>4. Contents(l) = upto[n]
  BY DEF Contents
<1> HIDE DEF n, S, step
<1>5. PICK f \in [0 .. n -> S] : Iterates(f, n, <<>>, step)
  BY <1>1, <1>3, IterationExists, Zenon
<1>6. ASSUME NEW i \in 0 .. n PROVE f[i] = IF i = 0 THEN <<>> ELSE f[i - 1] \o l[i].buf
  <2>1. CASE i = 0
    BY <1>5, <2>1 DEF Iterates
  <2>2. CASE i # 0
    <3>1. i \in 1 .. n /\ i - 1 \in 0 .. n
      BY <1>1, <2>2
    <3>2. f[i - 1] \in S
      BY <3>1
    <3>3. f[i] = step[i][f[i - 1]]
      BY <1>5, <3>1 DEF Iterates
    <3> QED BY <1>3, <2>2, <3>1, <3>2, <3>3, Zenon
  <2> QED BY <2>1, <2>2, Zenon
<1>7. f = [i \in 0 .. n |-> IF i = 0 THEN <<>> ELSE f[i - 1] \o l[i].buf]
  BY <1>6, Zenon
<1>8. upto = [i \in 0 .. n |-> IF i = 0 THEN <<>> ELSE upto[i - 1] \o l[i].buf]
  BY <1>7, Zenon
<1> HIDE DEF upto
<1>9. upto[0] = <<>> /\ \A i \in 1 .. n : upto[i] = upto[i - 1] \o l[i].buf
  <2>1. 0 \in 0 .. n /\ \A i \in 1 .. n : i \in 0 .. n /\ i # 0
    BY <1>1
  <2>2. \A i \in 0 .. n : upto[i] = IF i = 0 THEN <<>> ELSE upto[i - 1] \o l[i].buf
    BY <1>8, Zenon
  <2> QED BY <2>1, <2>2, Zenon
<1> DEFINE T == {i \in 0 .. n : upto[i] \in S}
<1>10. \A i \in 0 .. n : i \in T
  <2>1. 0 \in T
    <3>1. 0 \in 0 .. n
      BY <1>1
    <3> QED BY <1>1, <1>9, <3>1, Zenon
  <2>2. ASSUME NEW i \in 1 .. n, i - 1 \in T PROVE i \in T
    <3>1. i \in 0 .. n /\ upto[i - 1] \in S
      BY <1>1, <2>2
    <3>2. upto[i] \in S
      BY <1>2, <1>9, <3>1, Zenon
    <3> QED BY <3>1, <3>2
  <2> HIDE DEF T
  <2> QED BY <1>1, <2>1, <2>2, UpwardInduction, Zenon
<1>11. upto \in [0 .. n -> S]
  BY <1>8, <1>10
<1> QED BY <1>1, <1>4, <1>9, <1>11, Zenon DEF IsCollected

(* There is only one, so that what any of them ends with is the contents. *)
LEMMA CollectedIsContents ==
  ASSUME NEW l \in Seq(Node), NEW w, IsCollected(w, l)
  PROVE  Contents(l) = w[Len(l)]
<1>1. PICK v : IsCollected(v, l) /\ Contents(l) = v[Len(l)]
  BY ContentsCollected
<1> DEFINE n == Len(l)
           T == {i \in 0 .. n : v[i] = w[i]}
<1>2. n \in Nat
  OBVIOUS
<1>3. 0 \in T
  BY <1>1, <1>2 DEF IsCollected
<1>4. ASSUME NEW i \in 1 .. n, i - 1 \in T PROVE i \in T
  <2>1. i \in 0 .. n /\ v[i - 1] = w[i - 1]
    BY <1>2, <1>4
  <2>2. v[i] = v[i - 1] \o l[i].buf /\ w[i] = w[i - 1] \o l[i].buf
    BY <1>1, Zenon DEF IsCollected
  <2>3. v[i] = w[i]
    BY <2>1, <2>2, Zenon
  <2> QED BY <2>1, <2>3
<1>5. \A i \in 0 .. n : i \in T
  <2> HIDE DEF T, n
  <2> QED BY <1>2, <1>3, <1>4, UpwardInduction
<1> QED BY <1>1, <1>2, <1>5

(* An empty list holds nothing, and one more node its contents more. *)
LEMMA ContentsSteps ==
  /\ Contents(<<>>) = <<>>
  /\ \A l \in Seq(Node) : Contents(l) \in Seq(Int)
  /\ \A l \in Seq(Node), b \in Node : Contents(Append(l, b)) = Contents(l) \o b.buf
<1>1. Contents(<<>>) = <<>>
  <2>1. <<>> \in Seq(Node) /\ Len(<<>>) = 0
    OBVIOUS
  <2>2. PICK w : IsCollected(w, <<>>) /\ Contents(<<>>) = w[Len(<<>>)]
    BY <2>1, ContentsCollected, Zenon
  <2> QED BY <2>1, <2>2 DEF IsCollected
<1>2. ASSUME NEW l \in Seq(Node) PROVE Contents(l) \in Seq(Int)
  <2>1. PICK w : IsCollected(w, l) /\ Contents(l) = w[Len(l)]
    BY ContentsCollected
  <2>2. Len(l) \in 0 .. Len(l)
    OBVIOUS
  <2> QED BY <2>1, <2>2 DEF IsCollected
<1>3. ASSUME NEW l \in Seq(Node), NEW b \in Node
      PROVE  Contents(Append(l, b)) = Contents(l) \o b.buf
  <2> DEFINE r == Append(l, b)
             n == Len(l)
  <2>1. r \in Seq(Node) /\ Len(r) = n + 1 /\ n \in Nat
        /\ r[n + 1] = b /\ \A i \in 1 .. n : r[i] = l[i]
    OBVIOUS
  <2> HIDE DEF r
  <2>2. PICK w : IsCollected(w, r) /\ Contents(r) = w[Len(r)]
    BY <2>1, ContentsCollected
  <2> DEFINE v == [i \in 0 .. n |-> w[i]]
  <2>3. IsCollected(v, l)
    <3>1. 0 .. n \subseteq 0 .. n + 1 /\ 1 .. n \subseteq 1 .. n + 1 /\ 0 \in 0 .. n
          /\ \A i \in 1 .. n : i \in 0 .. n /\ i - 1 \in 0 .. n
      BY <2>1
    <3>2. v \in [0 .. n -> Seq(Int)]
      BY <2>1, <2>2, <3>1 DEF IsCollected
    <3>3. ASSUME NEW i \in 1 .. n PROVE v[i] = v[i - 1] \o l[i].buf
      BY <2>1, <2>2, <3>1, Zenon DEF IsCollected
    <3> QED BY <2>1, <2>2, <3>1, <3>2, <3>3, Zenon DEF IsCollected
  <2>4. v[n] = w[n]
    BY <2>1
  <2> HIDE DEF v
  <2>5. Contents(l) = w[n]
    BY <2>3, <2>4, CollectedIsContents
  <2>6. w[n + 1] = w[n] \o b.buf
    <3>1. n + 1 \in 1 .. Len(r) /\ (n + 1) - 1 = n
      BY <2>1
    <3>2. w[n + 1] = w[(n + 1) - 1] \o r[n + 1].buf
      BY <2>2, <3>1, Zenon DEF IsCollected
    <3> QED BY <2>1, <3>1, <3>2, Zenon
  <2> QED BY <2>1, <2>2, <2>5, <2>6 DEF r
<1> QED BY <1>1, <1>2, <1>3

(* What two lists hold one after the other. *)
LEMMA ContentsConcat ==
  ASSUME NEW l \in Seq(Node), NEW m \in Seq(Node)
  PROVE  Contents(l \o m) = Contents(l) \o Contents(m)
<1> DEFINE n == Len(m)
           p(i) == SubSeq(m, 1, i)
           T == {i \in 0 .. n : Contents(l \o p(i)) = Contents(l) \o Contents(p(i))}
<1>0. n \in Nat
  OBVIOUS
<1>1. 0 \in T
  <2>1. p(0) = <<>> /\ l \o <<>> = l
    OBVIOUS
  <2>2. Contents(l) \in Seq(Int)
    BY ContentsSteps
  <2>3. Contents(l) \o <<>> = Contents(l)
    BY <2>2
  <2>4. Contents(l \o p(0)) = Contents(l) \o Contents(p(0))
    BY <2>1, <2>3, ContentsSteps, Zenon
  <2> QED BY <1>0, <2>4
<1>2. ASSUME NEW i \in 1 .. n, i - 1 \in T PROVE i \in T
  <2> DEFINE q == SubSeq(m, 1, i - 1)
             b == m[i]
  <2>1. Contents(l \o q) = Contents(l) \o Contents(q)
    BY <1>2
  <2>2. q \in Seq(Node) /\ b \in Node /\ p(i) = Append(q, b)
    <3>1. q \in Seq(Node) /\ Len(q) = i - 1 /\ \A j \in 1 .. i - 1 : q[j] = m[j]
      BY <1>0
    <3>2. p(i) \in Seq(Node) /\ Len(p(i)) = i /\ \A j \in 1 .. i : p(i)[j] = m[j]
      BY <1>0
    <3>3. b \in Node
      OBVIOUS
    <3> DEFINE x == p(i)
               y == Append(q, b)
    <3>4. y \in Seq(Node) /\ Len(y) = i /\ y[i] = b /\ \A j \in 1 .. i - 1 : y[j] = q[j]
      <4> HIDE DEF q, b
      <4> QED BY <1>0, <3>1, <3>3
    <3> HIDE DEF x, y, q
    <3>5. x \in Seq(Node) /\ Len(x) = i /\ \A j \in 1 .. i : x[j] = m[j]
      BY <3>2 DEF x
    <3>6. \A j \in 1 .. i : x[j] = y[j]
      BY <1>0, <3>1, <3>4, <3>5
    <3>7. x = y
      BY <3>4, <3>5, <3>6, EqualSequences
    <3> QED BY <3>1, <3>3, <3>7 DEF x, y
  <2> HIDE DEF q, b
  <2>3. l \o p(i) = Append(l \o q, b) /\ l \o q \in Seq(Node)
    <3>1. l \o Append(q, b) = Append(l \o q, b) /\ l \o q \in Seq(Node)
      BY <2>2
    <3> QED BY <2>2, <3>1, Zenon
  <2>4. Contents(l \o p(i)) = (Contents(l) \o Contents(q)) \o b.buf
    BY <2>1, <2>2, <2>3, ContentsSteps, Zenon
  <2>5. Contents(p(i)) = Contents(q) \o b.buf
    BY <2>2, ContentsSteps, Zenon
  <2>6. Contents(l) \in Seq(Int) /\ Contents(q) \in Seq(Int) /\ b.buf \in Seq(Int)
    BY <2>2, ContentsSteps DEF Node
  <2>7. (Contents(l) \o Contents(q)) \o b.buf = Contents(l) \o (Contents(q) \o b.buf)
    BY <2>6, Regroup, Zenon
  <2>8. Contents(l \o p(i)) = Contents(l) \o Contents(p(i))
    BY <2>4, <2>5, <2>7, Zenon
  <2>9. i \in 0 .. n
    BY <1>0
  <2> QED BY <2>8, <2>9
<1>3. n \in T
  <2> HIDE DEF T, n
  <2>1. \A i \in 0 .. n : i \in T
    BY <1>0, <1>1, <1>2, UpwardInduction, Zenon
  <2> QED BY <1>0, <2>1
<1>4. p(n) = m
  BY WholeSubSeq
<1> QED BY <1>3, <1>4, Zenon

(* The nodes before the placeholder and those behind it. *)
Ahead(l, p) == SubSeq(l, 1, p - 1)
Behind(l, p) == SubSeq(l, p + 1, Len(l))

(* The two parts of a list, node by node. *)
LEMMA Parts ==
  ASSUME NEW l \in Seq(Node), NEW p \in 0 .. Len(l)
  PROVE  /\ Behind(l, p) \in Seq(Node) /\ Len(Behind(l, p)) = Len(l) - p
         /\ \A i \in 1 .. Len(l) - p : Behind(l, p)[i] = l[p + i]
         /\ p # 0 => /\ Ahead(l, p) \in Seq(Node) /\ Len(Ahead(l, p)) = p - 1
                     /\ \A i \in 1 .. p - 1 : Ahead(l, p)[i] = l[i]
<1>0. Len(l) \in Nat
  OBVIOUS
<1>1. /\ Behind(l, p) \in Seq(Node) /\ Len(Behind(l, p)) = Len(l) - p
      /\ \A i \in 1 .. Len(l) - p : Behind(l, p)[i] = l[p + i]
  <2> DEFINE m == p + 1
             n == Len(l)
  <2>1. m \in 1 .. Len(l) + 1 /\ n \in 0 .. Len(l) /\ m <= n + 1 /\ n - m + 1 = Len(l) - p
        /\ \A i \in 1 .. Len(l) - p : m + i - 1 = p + i
    BY <1>0
  <2>2. Behind(l, p) = SubSeq(l, m, n)
    BY DEF Behind
  <2> HIDE DEF m, n
  <2>3. /\ SubSeq(l, m, n) \in Seq(Node) /\ Len(SubSeq(l, m, n)) = n - m + 1
        /\ \A i \in 1 .. n - m + 1 : SubSeq(l, m, n)[i] = l[m + i - 1]
    BY <2>1, SubSeqIs
  <2> QED BY <2>1, <2>2, <2>3, Zenon
<1>2. ASSUME p # 0
      PROVE /\ Ahead(l, p) \in Seq(Node) /\ Len(Ahead(l, p)) = p - 1
            /\ \A i \in 1 .. p - 1 : Ahead(l, p)[i] = l[i]
  <2> DEFINE n == p - 1
  <2>1. 1 \in 1 .. Len(l) + 1 /\ n \in 0 .. Len(l) /\ 1 <= n + 1 /\ n - 1 + 1 = n
        /\ \A i \in 1 .. n : 1 + i - 1 = i
    BY <1>0, <1>2
  <2>2. Ahead(l, p) = SubSeq(l, 1, n)
    BY DEF Ahead
  <2> HIDE DEF n
  <2>3. /\ SubSeq(l, 1, n) \in Seq(Node) /\ Len(SubSeq(l, 1, n)) = n - 1 + 1
        /\ \A i \in 1 .. n - 1 + 1 : SubSeq(l, 1, n)[i] = l[1 + i - 1]
    BY <2>1, SubSeqIs
  <2>4. n = p - 1
    BY DEF n
  <2> QED BY <2>1, <2>2, <2>3, <2>4
<1> QED BY <1>1, <1>2

(* A list with one node replaced, node by node. *)
LEMMA Replaced ==
  ASSUME NEW l \in Seq(Node), NEW j \in 1 .. Len(l), NEW b \in Node
  PROVE  /\ [l EXCEPT ![j] = b] \in Seq(Node) /\ Len([l EXCEPT ![j] = b]) = Len(l)
         /\ \A i \in 1 .. Len(l) : [l EXCEPT ![j] = b][i] = IF i = j THEN b ELSE l[i]
BY ExceptIs

(* What a list with one node replaced holds. *)
LEMMA ContentsAt ==
  ASSUME NEW l \in Seq(Node), NEW j \in 1 .. Len(l), NEW b \in Node
  PROVE  /\ Contents([l EXCEPT ![j] = b]) = (Contents(Ahead(l, j)) \o b.buf) \o Contents(Behind(l, j))
         /\ Contents(l) = (Contents(Ahead(l, j)) \o l[j].buf) \o Contents(Behind(l, j))
<1> DEFINE a == Ahead(l, j)
           c == Behind(l, j)
           n == Len(l)
<1>0. n \in Nat /\ j \in 1 .. n /\ n = Len(l)
  OBVIOUS
<1>1. /\ c \in Seq(Node) /\ Len(c) = n - j /\ \A i \in 1 .. n - j : c[i] = l[j + i]
      /\ a \in Seq(Node) /\ Len(a) = j - 1 /\ \A i \in 1 .. j - 1 : a[i] = l[i]
  <2>1. j \in 0 .. Len(l) /\ j # 0
    BY <1>0
  <2> QED BY <2>1, Parts
<1> HIDE DEF a, c, n
<1>2. ASSUME NEW d \in Node PROVE Contents([l EXCEPT ![j] = d]) = (Contents(a) \o d.buf) \o Contents(c)
  <2> DEFINE r == [l EXCEPT ![j] = d]
             e == Append(a, d)
             t == e \o c
  <2>1. r \in Seq(Node) /\ Len(r) = n /\ \A i \in 1 .. n : r[i] = IF i = j THEN d ELSE l[i]
    BY <1>0, Replaced
  <2>2. e \in Seq(Node) /\ Len(e) = j /\ e[j] = d /\ \A i \in 1 .. j - 1 : e[i] = l[i]
    BY <1>0, <1>1
  <2> HIDE DEF r, e
  <2>3. /\ t \in Seq(Node) /\ Len(t) = j + (n - j)
        /\ \A i \in 1 .. j + (n - j) : t[i] = IF i <= j THEN e[i] ELSE c[i - j]
    <3>1. e \in Seq(Node) /\ c \in Seq(Node)
      BY <1>1, <2>2
    <3>2. /\ e \o c \in Seq(Node) /\ Len(e \o c) = Len(e) + Len(c)
          /\ \A i \in 1 .. Len(e) + Len(c) : (e \o c)[i] = IF i <= Len(e) THEN e[i] ELSE c[i - Len(e)]
      BY <3>1, ConcatIs, Zenon
    <3> QED BY <1>1, <2>2, <3>2
  <2> HIDE DEF t
  <2>4. ASSUME NEW i \in 1 .. n PROVE r[i] = t[i]
    <3>0. i \in 1 .. j + (n - j) /\ j \in Nat
      BY <1>0
    <3>1. CASE i < j
      <4>1. i \in 1 .. j - 1 /\ i <= j /\ i # j
        BY <1>0, <3>1
      <4>2. t[i] = e[i] /\ r[i] = l[i]
        BY <2>1, <2>3, <3>0, <4>1
      <4> QED BY <2>2, <4>1, <4>2
    <3>2. CASE i = j
      BY <1>0, <2>1, <2>2, <2>3, <3>0, <3>2
    <3>3. CASE i > j
      <4>1. i - j \in 1 .. n - j /\ j + (i - j) = i
        BY <1>0, <3>3
      <4>2. c[i - j] = l[j + (i - j)]
        BY <1>1, <4>1
      <4>3. ~(i <= j) /\ i # j
        BY <1>0, <3>3
      <4>4. t[i] = c[i - j] /\ r[i] = l[i]
        BY <2>1, <2>3, <3>0, <4>3
      <4> QED BY <4>1, <4>2, <4>4
    <3>4. i < j \/ i = j \/ i > j
      BY <1>0
    <3> QED BY <3>1, <3>2, <3>3, <3>4
  <2>5. r = t
    <3>1. Len(r) = Len(t)
      BY <1>0, <2>1, <2>3
    <3>2. \A i \in 1 .. Len(r) : r[i] = t[i]
      BY <2>1, <2>4
    <3> QED BY <2>1, <2>3, <3>1, <3>2, EqualSequences, Zenon
  <2>6. Contents(t) = Contents(e) \o Contents(c)
    BY <1>1, <2>2, ContentsConcat DEF t
  <2>7. Contents(e) = Contents(a) \o d.buf
    BY <1>1, ContentsSteps DEF e
  <2> QED BY <2>5, <2>6, <2>7, Zenon DEF r
<1>3. l = [l EXCEPT ![j] = l[j]] /\ l[j] \in Node
  OBVIOUS
<1>4. Contents([l EXCEPT ![j] = l[j]]) = (Contents(a) \o l[j].buf) \o Contents(c)
  BY <1>2, <1>3, Zenon
<1> QED BY <1>2, <1>3, <1>4, Zenon DEF a, c

(* A node behind position p is replaced. *)
LEMMA BehindReplaced ==
  ASSUME NEW l \in Seq(Node), NEW p \in 0 .. Len(l), NEW j \in p + 1 .. Len(l), NEW b \in Node
  PROVE  /\ Behind([l EXCEPT ![j] = b], p) = [Behind(l, p) EXCEPT ![j - p] = b]
         /\ j - p \in 1 .. Len(Behind(l, p)) /\ Behind(l, p)[j - p] = l[j]
         /\ p # 0 => Ahead([l EXCEPT ![j] = b], p) = Ahead(l, p)
<1> DEFINE r == [l EXCEPT ![j] = b]
           n == Len(l)
           k == j - p
           m == Behind(l, p)
           x == Behind(r, p)
           y == [m EXCEPT ![k] = b]
<1>0. n \in Nat /\ p \in 0 .. n /\ j \in 1 .. n /\ n = Len(l) /\ k \in 1 .. n - p /\ p + k = j
  OBVIOUS
<1>1. r \in Seq(Node) /\ Len(r) = n /\ \A i \in 1 .. n : r[i] = IF i = j THEN b ELSE l[i]
  BY <1>0, Replaced
<1>2. m \in Seq(Node) /\ Len(m) = n - p /\ \A i \in 1 .. n - p : m[i] = l[p + i]
  BY Parts
<1> HIDE DEF r, n, k, m
<1>3. x \in Seq(Node) /\ Len(x) = n - p /\ \A i \in 1 .. n - p : x[i] = r[p + i]
  <2>1. p \in 0 .. Len(r) /\ r \in Seq(Node)
    BY <1>0, <1>1
  <2>2. Len(r) = n
    BY <1>1
  <2>3. Behind(r, p) \in Seq(Node) /\ Len(Behind(r, p)) = Len(r) - p
        /\ \A i \in 1 .. Len(r) - p : Behind(r, p)[i] = r[p + i]
    BY <2>1, Parts, Zenon
  <2> QED BY <2>2, <2>3
<1>4. y \in Seq(Node) /\ Len(y) = n - p /\ \A i \in 1 .. n - p : y[i] = IF i = k THEN b ELSE m[i]
  <2>1. k \in 1 .. Len(m)
    BY <1>0, <1>2
  <2> QED BY <1>2, <2>1, Replaced
<1> HIDE DEF x, y
<1>5. ASSUME NEW i \in 1 .. n - p PROVE x[i] = y[i]
  <2>1. p + i \in 1 .. n /\ (p + i = j <=> i = k)
    BY <1>0
  <2>2. x[i] = IF p + i = j THEN b ELSE l[p + i]
    BY <1>1, <1>3, <2>1
  <2> QED BY <1>2, <1>4, <2>1, <2>2
<1>6. x = y
  BY <1>3, <1>4, <1>5, EqualSequences
<1>7. ASSUME p # 0 PROVE Ahead(r, p) = Ahead(l, p)
  <2> DEFINE u == Ahead(r, p)
             v == Ahead(l, p)
  <2>1. u \in Seq(Node) /\ Len(u) = p - 1 /\ \A i \in 1 .. p - 1 : u[i] = r[i]
    BY <1>0, <1>1, <1>7, Parts
  <2>2. v \in Seq(Node) /\ Len(v) = p - 1 /\ \A i \in 1 .. p - 1 : v[i] = l[i]
    BY <1>0, <1>7, Parts, Zenon
  <2> HIDE DEF u, v
  <2>3. \A i \in 1 .. p - 1 : i \in 1 .. n /\ i # j
    BY <1>0
  <2>4. \A i \in 1 .. p - 1 : u[i] = v[i]
    BY <1>1, <2>1, <2>2, <2>3
  <2>5. u = v
    BY <2>1, <2>2, <2>4, EqualSequences
  <2> QED BY <2>5 DEF u, v
<1> QED BY <1>0, <1>2, <1>6, <1>7 DEF r, k, m, x, y

(* A node before position p is replaced. *)
LEMMA AheadReplaced ==
  ASSUME NEW l \in Seq(Node), NEW p \in 1 .. Len(l), NEW j \in 1 .. p - 1, NEW b \in Node
  PROVE  /\ Ahead([l EXCEPT ![j] = b], p) = [Ahead(l, p) EXCEPT ![j] = b]
         /\ j \in 1 .. Len(Ahead(l, p)) /\ Ahead(l, p)[j] = l[j]
         /\ Behind([l EXCEPT ![j] = b], p) = Behind(l, p)
<1> DEFINE r == [l EXCEPT ![j] = b]
           n == Len(l)
           m == Ahead(l, p)
           x == Ahead(r, p)
           y == [m EXCEPT ![j] = b]
           u == Behind(r, p)
           v == Behind(l, p)
<1>0. n \in Nat /\ p \in 0 .. n /\ p # 0 /\ j \in 1 .. n /\ n = Len(l)
  OBVIOUS
<1>1. r \in Seq(Node) /\ Len(r) = n /\ \A i \in 1 .. n : r[i] = IF i = j THEN b ELSE l[i]
  BY <1>0, Replaced
<1>2. /\ m \in Seq(Node) /\ Len(m) = p - 1 /\ \A i \in 1 .. p - 1 : m[i] = l[i]
      /\ v \in Seq(Node) /\ Len(v) = n - p /\ \A i \in 1 .. n - p : v[i] = l[p + i]
  BY <1>0, Parts, Zenon
<1> HIDE DEF r, n, m, v
<1>3. /\ x \in Seq(Node) /\ Len(x) = p - 1 /\ \A i \in 1 .. p - 1 : x[i] = r[i]
      /\ u \in Seq(Node) /\ Len(u) = n - p /\ \A i \in 1 .. n - p : u[i] = r[p + i]
  <2>1. p \in 0 .. Len(r) /\ r \in Seq(Node)
    BY <1>0, <1>1
  <2>2. Len(r) = n
    BY <1>1
  <2>3. /\ Behind(r, p) \in Seq(Node) /\ Len(Behind(r, p)) = Len(r) - p
        /\ \A i \in 1 .. Len(r) - p : Behind(r, p)[i] = r[p + i]
    BY <2>1, Parts, Zenon
  <2>4. /\ Ahead(r, p) \in Seq(Node) /\ Len(Ahead(r, p)) = p - 1
        /\ \A i \in 1 .. p - 1 : Ahead(r, p)[i] = r[i]
    BY <1>0, <2>1, Parts
  <2> QED BY <2>2, <2>3, <2>4
<1>4. y \in Seq(Node) /\ Len(y) = p - 1 /\ \A i \in 1 .. p - 1 : y[i] = IF i = j THEN b ELSE m[i]
  BY <1>2, Replaced
<1> HIDE DEF x, y, u
<1>5. \A i \in 1 .. p - 1 : x[i] = y[i]
  <2>1. \A i \in 1 .. p - 1 : i \in 1 .. n
    BY <1>0
  <2> QED BY <1>1, <1>2, <1>3, <1>4, <2>1, Zenon
<1>6. \A i \in 1 .. n - p : u[i] = v[i]
  <2>1. \A i \in 1 .. n - p : p + i \in 1 .. n /\ p + i # j
    BY <1>0
  <2> QED BY <1>1, <1>2, <1>3, <2>1, Zenon
<1>7. x = y
  BY <1>3, <1>4, <1>5, EqualSequences
<1>8. u = v
  BY <1>2, <1>3, <1>6, EqualSequences
<1> QED BY <1>0, <1>2, <1>7, <1>8 DEF r, m, x, y, u, v

(* A block that is replaced by one that holds more: at the end of the last *)
(* node, or at the start of the first.                                     *)
LEMMA ContentsGrow ==
  ASSUME NEW m \in Seq(Node), NEW k \in 1 .. Len(m), NEW b \in Node, NEW u \in Seq(Int)
  PROVE  /\ k = Len(m) /\ b.buf = m[k].buf \o u => Contents([m EXCEPT ![k] = b]) = Contents(m) \o u
         /\ k = 1 /\ b.buf = u \o m[k].buf => Contents([m EXCEPT ![k] = b]) = u \o Contents(m)
<1> DEFINE a == Contents(Ahead(m, k))
           c == Contents(Behind(m, k))
           f == m[k].buf
<1>0. k \in 0 .. Len(m) /\ k # 0 /\ Len(m) \in Nat
  OBVIOUS
<1>1. Contents([m EXCEPT ![k] = b]) = (a \o b.buf) \o c /\ Contents(m) = (a \o f) \o c
  BY ContentsAt, Zenon
<1>2. a \in Seq(Int) /\ c \in Seq(Int) /\ f \in Seq(Int)
  <2>1. m[k] \in Node
    OBVIOUS
  <2> QED BY <1>0, <2>1, Parts, ContentsSteps, Zenon DEF Node
<1>3. ASSUME k = Len(m), b.buf = f \o u PROVE Contents([m EXCEPT ![k] = b]) = Contents(m) \o u
  <2>1. Behind(m, k) = <<>>
    BY <1>0, <1>3, Parts
  <2>2. c = <<>>
    BY <2>1, ContentsSteps
  <2> HIDE DEF a, c, f
  <2>3. (a \o (f \o u)) \o <<>> = ((a \o f) \o <<>>) \o u
    <3>1. f \o u \in Seq(Int) /\ a \o f \in Seq(Int)
      BY <1>2, Units
    <3>2. (a \o f) \o u = a \o (f \o u)
      BY <1>2, Regroup, ZenonT(30)
    <3>3. a \o (f \o u) \in Seq(Int)
      BY <1>2, <3>1, Units
    <3>4. (a \o (f \o u)) \o <<>> = a \o (f \o u) /\ (a \o f) \o <<>> = a \o f
      BY <3>1, <3>3, Units
    <3> QED BY <3>2, <3>4
  <2> QED BY <1>1, <1>3, <2>2, <2>3, Zenon
<1>4. ASSUME k = 1, b.buf = u \o f PROVE Contents([m EXCEPT ![k] = b]) = u \o Contents(m)
  <2>1. Ahead(m, k) = <<>>
    BY <1>0, <1>4, Parts
  <2>2. a = <<>>
    BY <2>1, ContentsSteps
  <2> HIDE DEF a, c, f
  <2>3. (<<>> \o (u \o f)) \o c = u \o ((<<>> \o f) \o c)
    <3>1. u \o f \in Seq(Int)
      BY <1>2, Units
    <3>2. <<>> \o (u \o f) = u \o f /\ <<>> \o f = f
      BY <1>2, <3>1, Units
    <3>3. (u \o f) \o c = u \o (f \o c)
      BY <1>2, Regroup, Zenon
    <3> QED BY <3>2, <3>3
  <2> QED BY <1>1, <1>4, <2>2, <2>3, Zenon
<1> QED BY <1>3, <1>4, Zenon

(* A node is added at the end. *)
LEMMA BehindAppend ==
  ASSUME NEW l \in Seq(Node), NEW p \in 0 .. Len(l), NEW b \in Node
  PROVE  /\ Behind(Append(l, b), p) = Append(Behind(l, p), b)
         /\ p # 0 => Ahead(Append(l, b), p) = Ahead(l, p)
<1> DEFINE r == Append(l, b)
           n == Len(l)
           m == Behind(l, p)
           x == Behind(r, p)
           y == Append(m, b)
<1>0. n \in Nat /\ p \in 0 .. n /\ n = Len(l)
  OBVIOUS
<1>1. r \in Seq(Node) /\ Len(r) = n + 1 /\ r[n + 1] = b /\ \A i \in 1 .. n : r[i] = l[i]
  BY AppendIs
<1>2. m \in Seq(Node) /\ Len(m) = n - p /\ \A i \in 1 .. n - p : m[i] = l[p + i]
  BY Parts
<1> HIDE DEF r, n, m
<1>3. p \in 0 .. Len(r) /\ r \in Seq(Node) /\ Len(r) = n + 1
  BY <1>0, <1>1
<1>4. x \in Seq(Node) /\ Len(x) = (n + 1) - p /\ \A i \in 1 .. (n + 1) - p : x[i] = r[p + i]
  <2>1. Behind(r, p) \in Seq(Node) /\ Len(Behind(r, p)) = Len(r) - p
        /\ \A i \in 1 .. Len(r) - p : Behind(r, p)[i] = r[p + i]
    BY <1>3, Parts, Zenon
  <2> QED BY <1>3, <2>1
<1>5. y \in Seq(Node) /\ Len(y) = (n - p) + 1 /\ y[(n - p) + 1] = b
      /\ \A i \in 1 .. n - p : y[i] = m[i]
  <2>1. /\ Append(m, b) \in Seq(Node) /\ Len(Append(m, b)) = Len(m) + 1
        /\ \A i \in 1 .. Len(m) : Append(m, b)[i] = m[i]
        /\ Append(m, b)[Len(m) + 1] = b
    BY <1>2, AppendIs
  <2> QED BY <1>2, <2>1
<1> HIDE DEF x, y
<1>6. ASSUME NEW i \in 1 .. (n + 1) - p PROVE x[i] = y[i]
  <2>1. CASE i = (n - p) + 1
    <3>1. p + i = n + 1
      BY <1>0, <2>1
    <3> QED BY <1>1, <1>4, <1>5, <2>1, <3>1
  <2>2. CASE i # (n - p) + 1
    <3>1. i \in 1 .. n - p /\ p + i \in 1 .. n
      BY <1>0, <2>2
    <3> QED BY <1>1, <1>2, <1>4, <1>5, <3>1
  <2> QED BY <2>1, <2>2
<1>7. x = y
  <2>1. Len(x) = Len(y) /\ Len(x) = (n + 1) - p
    BY <1>0, <1>4, <1>5
  <2> QED BY <1>4, <1>5, <1>6, <2>1, EqualSequences
<1>8. ASSUME p # 0 PROVE Ahead(r, p) = Ahead(l, p)
  <2> DEFINE u == Ahead(r, p)
             v == Ahead(l, p)
  <2>1. u \in Seq(Node) /\ Len(u) = p - 1 /\ \A i \in 1 .. p - 1 : u[i] = r[i]
    BY <1>3, <1>8, Parts, Zenon
  <2>2. v \in Seq(Node) /\ Len(v) = p - 1 /\ \A i \in 1 .. p - 1 : v[i] = l[i]
    BY <1>0, <1>8, Parts, Zenon
  <2> HIDE DEF u, v
  <2>3. \A i \in 1 .. p - 1 : i \in 1 .. n
    BY <1>0
  <2>4. \A i \in 1 .. p - 1 : u[i] = v[i]
    BY <1>1, <2>1, <2>2, <2>3
  <2>5. u = v
    BY <2>1, <2>2, <2>4, EqualSequences
  <2> QED BY <2>5 DEF u, v
<1> QED BY <1>7, <1>8 DEF r, m, x, y

(* The node of the placeholder is removed (list_del_node). *)
LEMMA ContentsDelete ==
  ASSUME NEW l \in Seq(Node), NEW p \in 1 .. Len(l)
  PROVE  Contents(list_del_node(l, p)) = Contents(Ahead(l, p)) \o Contents(Behind(l, p))
<1>1. p \in 0 .. Len(l) /\ p # 0
  OBVIOUS
<1>2. Ahead(l, p) \in Seq(Node) /\ Behind(l, p) \in Seq(Node)
  BY <1>1, Parts
<1>3. list_del_node(l, p) = Ahead(l, p) \o Behind(l, p)
  BY DEF list_del_node, Ahead, Behind
<1> QED BY <1>2, <1>3, ContentsConcat

-----------------------------------------------------------------------------
(* What the calls of a list add behind the others, and what they fill in. *)
Piece(c) == [size |-> 0, buf |-> IF c.op = "proto" THEN c.s ELSE <<>>]
Pieces(t) == [i \in 1 .. Len(t) |-> Piece(t[i])]
Added(t) == Contents(Pieces(t))
FilledIn(t) == IF t # <<>> /\ t[Len(t)].op = "set" THEN t[Len(t)].s ELSE <<>>

(* What a list holds once the calls have been made. *)
Total(l, p, t) ==
  IF p = 0 THEN Contents(l) \o (FilledIn(t) \o Added(t))
  ELSE (Contents(Ahead(l, p)) \o FilledIn(t)) \o (Contents(Behind(l, p)) \o Added(t))

(* Calls bring units. *)
LEMMA CallUnits ==
  ASSUME NEW t \in Seq(Call)
  PROVE  /\ Pieces(t) \in Seq(Node) /\ Len(Pieces(t)) = Len(t)
         /\ \A i \in 1 .. Len(t) : Pieces(t)[i] = Piece(t[i])
         /\ Added(t) \in Seq(Int) /\ FilledIn(t) \in Seq(Int)
<1>0. Len(t) \in Nat
  OBVIOUS
<1>1. ASSUME NEW i \in 1 .. Len(t) PROVE Piece(t[i]) \in Node
  <2> DEFINE c == t[i]
  <2>1. c \in Call
    OBVIOUS
  <2> HIDE DEF c
  <2>2. c.s \in Seq(Int)
    BY <2>1 DEF Call
  <2>3. Piece(c) \in Node
    BY <2>2 DEF Piece, Node
  <2> QED BY <2>3 DEF c
<1>2. /\ Pieces(t) \in [1 .. Len(t) -> Node]
      /\ \A i \in 1 .. Len(t) : Pieces(t)[i] = Piece(t[i])
  BY <1>1 DEF Pieces
<1>3. Pieces(t) \in Seq(Node) /\ Len(Pieces(t)) = Len(t)
  BY <1>0, <1>2, FunctionIsSeq
<1>4. Added(t) \in Seq(Int)
  BY <1>3, ContentsSteps DEF Added
<1>5. FilledIn(t) \in Seq(Int)
  <2>1. t # <<>> => t[Len(t)] \in Call
    OBVIOUS
  <2> QED BY <2>1 DEF Call, FilledIn
<1> QED BY <1>2, <1>3, <1>4, <1>5

(* Two lists of calls one after the other. *)
LEMMA AddedConcat ==
  ASSUME NEW t \in Seq(Call), NEW u \in Seq(Call)
  PROVE  t \o u \in Seq(Call) /\ Added(t \o u) = Added(t) \o Added(u)
<1> DEFINE w == t \o u
           x == Pieces(w)
           a == Pieces(t)
           b == Pieces(u)
           y == a \o b
<1>0. Len(t) \in Nat /\ Len(u) \in Nat
  OBVIOUS
<1>1. w \in Seq(Call) /\ Len(w) = Len(t) + Len(u)
      /\ \A i \in 1 .. Len(t) + Len(u) : w[i] = IF i <= Len(t) THEN t[i] ELSE u[i - Len(t)]
  BY ConcatIs
<1> HIDE DEF w
<1>2. x \in Seq(Node) /\ Len(x) = Len(w) /\ \A i \in 1 .. Len(w) : x[i] = Piece(w[i])
  BY <1>1, CallUnits, Zenon
<1>3. /\ a \in Seq(Node) /\ Len(a) = Len(t) /\ \A i \in 1 .. Len(t) : a[i] = Piece(t[i])
      /\ b \in Seq(Node) /\ Len(b) = Len(u) /\ \A i \in 1 .. Len(u) : b[i] = Piece(u[i])
  BY CallUnits
<1> HIDE DEF a, b, x
<1>4. y \in Seq(Node) /\ Len(y) = Len(a) + Len(b)
      /\ \A i \in 1 .. Len(a) + Len(b) : y[i] = IF i <= Len(a) THEN a[i] ELSE b[i - Len(a)]
  <2>1. a \in Seq(Node) /\ b \in Seq(Node)
    BY <1>3
  <2> QED BY <2>1, ConcatIs
<1> HIDE DEF y
<1>5. ASSUME NEW i \in 1 .. Len(t) + Len(u) PROVE x[i] = y[i]
  <2>1. x[i] = Piece(w[i])
    BY <1>1, <1>2
  <2>2. CASE i <= Len(t)
    <3>1. i \in 1 .. Len(t)
      BY <1>0, <2>2
    <3>2. w[i] = t[i] /\ y[i] = a[i]
      BY <1>1, <1>3, <1>4, <2>2
    <3> QED BY <1>3, <2>1, <3>1, <3>2
  <2>3. CASE ~(i <= Len(t))
    <3>1. i - Len(t) \in 1 .. Len(u)
      BY <1>0, <2>3
    <3>2. w[i] = u[i - Len(t)] /\ y[i] = b[i - Len(t)]
      BY <1>1, <1>3, <1>4, <2>3
    <3> QED BY <1>3, <2>1, <3>1, <3>2
  <2> QED BY <2>2, <2>3
<1>6. x = y
  <2>1. Len(x) = Len(y) /\ Len(x) = Len(t) + Len(u)
    BY <1>1, <1>2, <1>3, <1>4
  <2> QED BY <1>2, <1>4, <1>5, <2>1, EqualSequences
<1>7. Contents(y) = Contents(a) \o Contents(b)
  BY <1>3, ContentsConcat DEF y
<1> QED BY <1>1, <1>6, <1>7 DEF Added, w, x, a, b

(* One call. *)
LEMMA AddedOne ==
  ASSUME NEW c \in Call
  PROVE  <<c>> \in Seq(Call) /\ Added(<<c>>) = IF c.op = "proto" THEN c.s ELSE <<>>
<1> DEFINE p == Piece(c)
           x == Pieces(<<c>>)
<1>1. <<c>> \in Seq(Call) /\ Len(<<c>>) = 1 /\ <<c>>[1] = c
  OBVIOUS
<1>2. x \in Seq(Node) /\ Len(x) = 1 /\ x[1] = p
  <2> DEFINE t == <<c>>
  <2>1. t \in Seq(Call) /\ Len(t) = 1 /\ t[1] = c /\ 1 \in 1 .. 1
    BY <1>1
  <2> HIDE DEF t
  <2>2. Pieces(t) \in Seq(Node) /\ Len(Pieces(t)) = Len(t) /\ \A i \in 1 .. Len(t) : Pieces(t)[i] = Piece(t[i])
    BY <2>1, CallUnits
  <2> QED BY <2>1, <2>2 DEF t
<1>3. p \in Node /\ p.buf \in Seq(Int) /\ p.buf = IF c.op = "proto" THEN c.s ELSE <<>>
  BY DEF Call, Node, Piece
<1> HIDE DEF x, p
<1>4. x = Append(<<>>, p)
  <2>1. Append(<<>>, p) \in Seq(Node) /\ Len(Append(<<>>, p)) = 1 /\ Append(<<>>, p)[1] = p
    BY <1>3
  <2> DEFINE y == Append(<<>>, p)
  <2> HIDE DEF y
  <2>2. y \in Seq(Node) /\ Len(y) = 1 /\ y[1] = p
    BY <2>1 DEF y
  <2>3. \A i \in 1 .. Len(x) : x[i] = y[i]
    BY <1>2, <2>2
  <2>4. x = y
    BY <1>2, <2>2, <2>3, EqualSequences
  <2> QED BY <2>4 DEF y
<1>5. <<>> \in Seq(Node)
  OBVIOUS
<1>6. Contents(x) = <<>> \o p.buf
  BY <1>3, <1>4, <1>5, ContentsSteps, Zenon
<1>7. Contents(x) = p.buf
  BY <1>3, <1>6, Units
<1> QED BY <1>1, <1>3, <1>7 DEF Added, x

(* The first call and the others. *)
LEMMA AddedRest ==
  ASSUME NEW t \in Seq(Call), t # <<>>
  PROVE  /\ Tail(t) \in Seq(Call)
         /\ Added(t) = (IF t[1].op = "proto" THEN t[1].s ELSE <<>>) \o Added(Tail(t))
         /\ Len(t) # 1 => FilledIn(Tail(t)) = FilledIn(t)
         /\ Len(t) = 1 => Tail(t) = <<>>
         /\ Added(<<>>) = <<>> /\ FilledIn(<<>>) = <<>>
<1>1. t[1] \in Call /\ Tail(t) \in Seq(Call) /\ t = <<t[1]>> \o Tail(t)
  OBVIOUS
<1>2. Added(<<t[1]>> \o Tail(t)) = Added(<<t[1]>>) \o Added(Tail(t))
  BY <1>1, AddedOne, AddedConcat, Zenon
<1>3. Added(t) = (IF t[1].op = "proto" THEN t[1].s ELSE <<>>) \o Added(Tail(t))
  BY <1>1, <1>2, AddedOne, Zenon
<1>4. /\ Len(t) # 1 => Tail(t) # <<>> /\ Tail(t)[Len(Tail(t))] = t[Len(t)]
      /\ Len(t) = 1 => Tail(t) = <<>>
  <2>1. Len(t) \in Nat /\ Len(t) >= 1
    OBVIOUS
  <2>2. Len(Tail(t)) = Len(t) - 1 /\ \A i \in 1 .. Len(Tail(t)) : Tail(t)[i] = t[i + 1]
    BY TailIs
  <2>3. ASSUME Len(t) # 1 PROVE Tail(t) # <<>> /\ Tail(t)[Len(Tail(t))] = t[Len(t)]
    <3> DEFINE k == Len(Tail(t))
    <3>1. k \in 1 .. Len(Tail(t)) /\ k + 1 = Len(t) /\ k # 0
      BY <2>1, <2>2, <2>3
    <3>2. Tail(t)[k] = t[k + 1]
      BY <2>2, <3>1
    <3> HIDE DEF k
    <3>3. Tail(t)[k] = t[Len(t)] /\ Len(Tail(t)) = k
      BY <3>1, <3>2 DEF k
    <3>4. Tail(t) # <<>>
      <4>1. Len(<<>>) = 0
        OBVIOUS
      <4> QED BY <3>1, <3>3, <4>1, Zenon
    <3> QED BY <3>3, <3>4, Zenon
  <2>4. ASSUME Len(t) = 1 PROVE Tail(t) = <<>>
    <3> DEFINE u == Tail(t)
    <3>0. u \in Seq(Call) /\ Len(u) = Len(t) - 1
      BY <1>1, <2>2, Zenon
    <3> HIDE DEF u
    <3>1. Len(u) = 0
      BY <2>4, <3>0
    <3>2. u = <<>>
      BY <3>0, <3>1
    <3> QED BY <3>2 DEF u
  <2> QED BY <2>3, <2>4
<1>5. Len(t) # 1 => FilledIn(Tail(t)) = FilledIn(t)
  BY <1>4 DEF FilledIn
<1>6. Pieces(<<>>) = <<>>
  <2>1. <<>> \in Seq(Call) /\ Len(<<>>) = 0
    OBVIOUS
  <2>2. Pieces(<<>>) \in Seq(Node) /\ Len(Pieces(<<>>)) = 0
    BY <2>1, CallUnits, Zenon
  <2> QED BY <2>2
<1>7. Added(<<>>) = <<>> /\ FilledIn(<<>>) = <<>>
  BY <1>6, ContentsSteps DEF Added, FilledIn
<1> QED BY <1>1, <1>3, <1>4, <1>5, <1>7

(* A text in two parts. *)
LEMMA SplitUnits ==
  ASSUME NEW s \in Seq(Int), NEW k \in 0 .. Len(s)
  PROVE  LET first == SubSeq(s, 1, k)
             rest == SubSeq(s, k + 1, Len(s))
         IN /\ first \in Seq(Int) /\ rest \in Seq(Int) /\ first \o rest = s /\ Len(rest) \in Int
            /\ k = Len(s) => first = s /\ rest = <<>>
            /\ k = 0 => first = <<>> /\ rest = s
<1> DEFINE first == SubSeq(s, 1, k)
           rest == SubSeq(s, k + 1, Len(s))
           n == Len(s)
<1>0. n \in Nat /\ k \in 0 .. n /\ n = Len(s)
  OBVIOUS
<1>1. first \in Seq(Int) /\ Len(first) = k /\ \A i \in 1 .. k : first[i] = s[i]
  <2>1. 1 \in 1 .. Len(s) + 1 /\ 1 <= k + 1 /\ k - 1 + 1 = k /\ \A i \in 1 .. k : 1 + i - 1 = i
    BY <1>0
  <2>2. /\ first \in Seq(Int) /\ Len(first) = k - 1 + 1
        /\ \A i \in 1 .. k - 1 + 1 : first[i] = s[1 + i - 1]
    BY <2>1, SubSeqIs
  <2> HIDE DEF first
  <2> QED BY <2>1, <2>2
<1>2. rest \in Seq(Int) /\ Len(rest) = n - k /\ \A i \in 1 .. n - k : rest[i] = s[k + i]
  <2> DEFINE j == k + 1
  <2>1. j \in 1 .. Len(s) + 1 /\ n \in 0 .. Len(s) /\ j <= n + 1 /\ n - j + 1 = n - k
        /\ \A i \in 1 .. n - k : j + i - 1 = k + i
    BY <1>0
  <2>2. rest = SubSeq(s, j, n)
    OBVIOUS
  <2> HIDE DEF j, n, rest
  <2>3. /\ SubSeq(s, j, n) \in Seq(Int) /\ Len(SubSeq(s, j, n)) = n - j + 1
        /\ \A i \in 1 .. n - j + 1 : SubSeq(s, j, n)[i] = s[j + i - 1]
    BY <2>1, SubSeqIs
  <2> QED BY <2>1, <2>2, <2>3, Zenon
<1> HIDE DEF first, rest, n
<1> DEFINE t == first \o rest
<1>3. t \in Seq(Int) /\ Len(t) = Len(first) + Len(rest)
      /\ \A i \in 1 .. Len(first) + Len(rest) : t[i] = IF i <= Len(first) THEN first[i] ELSE rest[i - Len(first)]
  <2>1. first \in Seq(Int) /\ rest \in Seq(Int)
    BY <1>1, <1>2
  <2> QED BY <2>1, ConcatIs
<1> HIDE DEF t
<1>4. Len(t) = n
  BY <1>0, <1>1, <1>2, <1>3
<1>5. ASSUME NEW i \in 1 .. n PROVE t[i] = s[i]
  <2>1. t[i] = IF i <= k THEN first[i] ELSE rest[i - k]
    BY <1>0, <1>1, <1>2, <1>3
  <2>2. CASE i <= k
    BY <1>0, <1>1, <2>1, <2>2
  <2>3. CASE ~(i <= k)
    <3>1. i - k \in 1 .. n - k /\ k + (i - k) = i
      BY <1>0, <2>3
    <3>2. rest[i - k] = s[k + (i - k)]
      BY <1>2, <3>1
    <3> QED BY <2>1, <2>3, <3>1, <3>2
  <2> QED BY <2>2, <2>3
<1>6. t = s
  BY <1>0, <1>3, <1>4, <1>5, EqualSequences, Zenon
<1>7. Len(rest) \in Int
  BY <1>0, <1>2
<1>8. (Len(rest) = 0 => rest = <<>>) /\ (Len(first) = 0 => first = <<>>)
  BY <1>1, <1>2
<1>9. ASSUME k = n PROVE first = s /\ rest = <<>>
  <2>1. rest = <<>>
    BY <1>0, <1>2, <1>8, <1>9
  <2>2. first \o <<>> = first
    BY <1>1, Units
  <2> QED BY <1>6, <2>1, <2>2 DEF t
<1>10. ASSUME k = 0 PROVE first = <<>> /\ rest = s
  <2>1. first = <<>>
    BY <1>1, <1>8, <1>10
  <2>2. <<>> \o rest = rest
    BY <1>2, Units
  <2> QED BY <1>6, <2>1, <2>2 DEF t
<1> QED BY <1>0, <1>1, <1>2, <1>6, <1>7, <1>9, <1>10, Zenon DEF t, first, rest

(* add_reply_proto puts all of s behind what the list holds, and leaves    *)
(* what is before the placeholder alone.                                   *)
LEMMA ProtoGrows ==
  ASSUME Good(reply, node), Head(todo).s \in Seq(Int), NEW x \in Slack, add_reply_proto(x)
  PROVE  /\ Contents(Behind(reply', node)) = Contents(Behind(reply, node)) \o Head(todo).s
         /\ node # 0 => Ahead(reply', node) = Ahead(reply, node)
<1> DEFINE s == Head(todo).s
           n == Len(reply)
           fits == IF n = 0 THEN 0 ELSE Least(Room(reply[n]), Len(s))
           first == SubSeq(s, 1, fits)
           b == [size |-> reply[n].size, buf |-> reply[n].buf \o first]
           filled == IF fits = 0 THEN reply ELSE [reply EXCEPT ![n] = b]
           rest == SubSeq(s, fits + 1, Len(s))
           block == [size |-> (IF Len(rest) < Chunk THEN Chunk ELSE Len(rest)) + x, buf |-> rest]
<1>1. IF fits = Len(s) THEN reply' = filled ELSE reply' = Append(filled, block)
  BY Zenon DEF add_reply_proto
<1>2. /\ fits \in 0 .. Len(s)
      /\ fits # 0 => n \in 1 .. Len(reply) /\ n # node /\ GoodBlock(reply[n])
  BY Fits
<1>3. x \in Int /\ Chunk \in Int
  BY ReplyAssumption
<1>4. s \in Seq(Int) /\ reply \in Seq(Node) /\ n = Len(reply) /\ n \in Nat /\ node \in 0 .. Len(reply)
  BY DEF Good
<1> HIDE DEF s, fits, n
<1>5. first \in Seq(Int) /\ rest \in Seq(Int) /\ first \o rest = s
      /\ (fits = Len(s) => first = s) /\ (fits = 0 => first = <<>>) /\ Len(rest) \in Int
  BY <1>2, <1>4, SplitUnits, Zenon
<1> HIDE DEF first, rest
<1>6. /\ filled \in Seq(Node) /\ Len(filled) = n
      /\ Contents(Behind(filled, node)) = Contents(Behind(reply, node)) \o first
      /\ node # 0 => Ahead(filled, node) = Ahead(reply, node)
  <2>0. Behind(reply, node) \in Seq(Node)
    BY <1>4, Parts
  <2>1. CASE fits = 0
    <3>1. Contents(Behind(reply, node)) \o <<>> = Contents(Behind(reply, node))
      BY <2>0, ContentsSteps, Units
    <3> QED BY <1>4, <1>5, <2>1, <3>1, Zenon
  <2>2. CASE fits # 0
    <3> DEFINE m == Behind(reply, node)
               k == n - node
    <3>1. b \in Node /\ b.buf = reply[n].buf \o first
      <4>1. reply[n].size \in Int /\ reply[n].buf \in Seq(Int)
        BY <1>2, <2>2 DEF GoodBlock, Block
      <4>2. reply[n].buf \o first \in Seq(Int)
        BY <1>5, <4>1, Units
      <4> QED BY <4>1, <4>2 DEF Node
    <3>2. n \in node + 1 .. Len(reply) /\ n \in 1 .. Len(reply) /\ k = Len(reply) - node
      BY <1>2, <1>4, <2>2
    <3>3. filled = [reply EXCEPT ![n] = b]
      BY <2>2
    <3> HIDE DEF b, filled
    <3>4. /\ Behind(filled, node) = [m EXCEPT ![k] = b]
          /\ k \in 1 .. Len(m) /\ m[k] = reply[n]
          /\ node # 0 => Ahead(filled, node) = Ahead(reply, node)
      <4>1. b \in Node
        BY <3>1
      <4>2. /\ Behind([reply EXCEPT ![n] = b], node) = [Behind(reply, node) EXCEPT ![n - node] = b]
            /\ n - node \in 1 .. Len(Behind(reply, node)) /\ Behind(reply, node)[n - node] = reply[n]
            /\ node # 0 => Ahead([reply EXCEPT ![n] = b], node) = Ahead(reply, node)
        <5>1. reply \in Seq(Node) /\ node \in 0 .. Len(reply) /\ n \in node + 1 .. Len(reply) /\ b \in Node
          BY <1>4, <3>2, <4>1
        <5> QED BY <5>1, BehindReplaced
      <4> QED BY <3>3, <4>2
    <3>5. m \in Seq(Node) /\ Len(m) = Len(reply) - node
      BY <1>4, Parts
    <3> HIDE DEF m, k
    <3>6. Contents([m EXCEPT ![k] = b]) = Contents(m) \o first
      <4>1. k = Len(m) /\ b.buf = m[k].buf \o first
        BY <3>1, <3>2, <3>4, <3>5
      <4> QED BY <1>5, <3>1, <3>4, <3>5, <4>1, ContentsGrow, Zenon
    <3>7. filled \in Seq(Node) /\ Len(filled) = n
      BY <1>4, <3>1, <3>2, <3>3, Replaced
    <3> QED BY <3>4, <3>6, <3>7, Zenon DEF m
  <2> QED BY <2>1, <2>2, Zenon
<1> HIDE DEF filled, b
<1>7. CASE fits = Len(s)
  BY <1>1, <1>5, <1>6, <1>7, Zenon DEF s
<1>8. CASE fits # Len(s)
  <2>1. block \in Node /\ block.buf = rest
    <3> DEFINE z == (IF Len(rest) < Chunk THEN Chunk ELSE Len(rest)) + x
    <3>1. z \in Int
      BY <1>3, <1>5, <1>8
    <3>2. block = [size |-> z, buf |-> rest]
      OBVIOUS
    <3> HIDE DEF z, block
    <3> QED BY <1>5, <3>1, <3>2 DEF Node
  <2> HIDE DEF block
  <2>2. reply' = Append(filled, block)
    BY <1>1, <1>8
  <2>3. node \in 0 .. Len(filled)
    BY <1>4, <1>6
  <2>4. /\ Behind(reply', node) = Append(Behind(filled, node), block)
        /\ node # 0 => Ahead(reply', node) = Ahead(filled, node)
    BY <1>6, <2>1, <2>2, <2>3, BehindAppend
  <2>5. Behind(filled, node) \in Seq(Node) /\ Behind(reply, node) \in Seq(Node)
    BY <1>4, <1>6, <2>3, Parts
  <2>6. Contents(Behind(reply', node)) = Contents(Behind(filled, node)) \o rest
    BY <2>1, <2>4, <2>5, ContentsSteps, Zenon
  <2> DEFINE c == Contents(Behind(reply, node))
  <2>7. c \in Seq(Int)
    BY <2>5, ContentsSteps
  <2> HIDE DEF c
  <2>8. (c \o first) \o rest = c \o (first \o rest)
    BY <1>5, <2>7, Regroup, Zenon
  <2>9. Contents(Behind(reply', node)) = c \o s
    BY <1>5, <1>6, <2>6, <2>8 DEF c
  <2> QED BY <1>6, <2>4, <2>9 DEF c, s
<1> QED BY <1>7, <1>8

(* A list without a placeholder is all behind. *)
LEMMA AllBehind ==
  ASSUME NEW l \in Seq(Node)
  PROVE  Behind(l, 0) = l
<1>1. Behind(l, 0) = SubSeq(l, 1, Len(l))
  BY DEF Behind
<1> QED BY <1>1, WholeSubSeq

(* add_reply_proto makes of the total what it was. *)
LEMMA ProtoTotal ==
  ASSUME IInv, NEW x \in Slack, add_reply_proto(x)
  PROVE  Total(reply', node', todo') = Total(reply, node, todo)
<1> DEFINE s == Head(todo).s
           f == FilledIn(todo)
           g == FilledIn(todo')
           r == Added(todo')
           h == Contents(Ahead(reply, node))
           c == Contents(Behind(reply, node))
<1>1. /\ Calling("proto") /\ node' = node /\ todo' = Tail(todo)
  BY DEF add_reply_proto, Returns
<1>2. /\ todo # <<>> /\ todo \in Seq(Call) /\ todo[1].op = "proto" /\ WellOrdered(todo)
      /\ s \in Seq(Int) /\ Good(reply, node)
      /\ node # 0 <=> todo[Len(todo)].op = "set"
  <2>1. "proto" # "deferred"
    OBVIOUS
  <2> QED BY <1>1, <2>1, CallStarts
<1>3. /\ Contents(Behind(reply', node)) = c \o s
      /\ node # 0 => Ahead(reply', node) = Ahead(reply, node)
  BY <1>2, ProtoGrows
<1>4. Added(todo) = s \o r
  <2>1. s = todo[1].s
    BY <1>2
  <2> QED BY <1>1, <1>2, <2>1, AddedRest, Zenon
<1>5. g = f
  <2>1. CASE Len(todo) # 1
    BY <1>1, <1>2, <2>1, AddedRest
  <2>2. CASE Len(todo) = 1
    <3>1. todo[Len(todo)].op = "proto"
      BY <1>2, <2>2
    <3>2. f = <<>>
      BY <3>1 DEF FilledIn
    <3>3. todo' = <<>> /\ FilledIn(<<>>) = <<>>
      BY <1>1, <1>2, <2>2, AddedRest
    <3> QED BY <3>2, <3>3
  <2> QED BY <2>1, <2>2
<1>6. s \in Seq(Int) /\ f \in Seq(Int) /\ r \in Seq(Int) /\ c \in Seq(Int) /\ (node # 0 => h \in Seq(Int))
      /\ reply \in Seq(Node) /\ node \in 0 .. Len(reply)
  <2>1. todo' \in Seq(Call)
    BY <1>1, <1>2, AddedRest
  <2>2. f \in Seq(Int) /\ r \in Seq(Int)
    BY <1>2, <2>1, CallUnits
  <2>3. reply \in Seq(Node) /\ node \in 0 .. Len(reply)
    BY <1>2 DEF Good
  <2>4. Behind(reply, node) \in Seq(Node) /\ (node # 0 => Ahead(reply, node) \in Seq(Node))
    BY <2>3, Parts
  <2> QED BY <1>2, <2>2, <2>3, <2>4, ContentsSteps
<1>7. (c \o s) \o r = c \o (s \o r)
  <2> HIDE DEF c, s, r
  <2> QED BY <1>6, Regroup, Zenon
<1>8. CASE node = 0
  <2>1. f = <<>>
    BY <1>2, <1>8 DEF FilledIn
  <2>2. Behind(reply, 0) = reply /\ Behind(reply', 0) = reply'
    <3>1. reply' \in Seq(Node)
      <4>1. IInv'
        BY ProtoPreserves
      <4> QED BY <4>1 DEF IInv, TypeOK, Node
    <3> QED BY <1>6, <3>1, AllBehind
  <2>3. Total(reply, node, todo) = c \o (<<>> \o (s \o r))
    BY <1>4, <1>8, <2>1, <2>2, Zenon DEF Total
  <2>4. Total(reply', node', todo') = (c \o s) \o (<<>> \o r)
    BY <1>1, <1>3, <1>5, <1>8, <2>1, <2>2, Zenon DEF Total
  <2> HIDE DEF c, s, r
  <2>5. s \o r \in Seq(Int)
    BY <1>6, Units
  <2>6. <<>> \o (s \o r) = s \o r /\ <<>> \o r = r
    BY <1>6, <2>5, Units
  <2> QED BY <1>7, <2>3, <2>4, <2>6
<1>9. CASE node # 0
  <2>1. Total(reply, node, todo) = (h \o f) \o (c \o (s \o r))
    BY <1>4, <1>9, Zenon DEF Total
  <2>2. Total(reply', node', todo') = (h \o f) \o ((c \o s) \o r)
    BY <1>1, <1>3, <1>5, <1>9, Zenon DEF Total
  <2> QED BY <1>7, <2>1, <2>2, Zenon
<1> QED BY <1>8, <1>9

(* A node added at the end has the whole list before it and nothing behind *)
(* it.                                                                     *)
LEMMA AtTheEnd ==
  ASSUME NEW l \in Seq(Node), NEW b \in Node
  PROVE  Ahead(Append(l, b), Len(l) + 1) = l /\ Behind(Append(l, b), Len(l) + 1) = <<>>
<1> DEFINE r == Append(l, b)
           n == Len(l)
           p == n + 1
           u == Ahead(r, p)
           v == Behind(r, p)
<1>0. n \in Nat /\ n = Len(l)
  OBVIOUS
<1>1. r \in Seq(Node) /\ Len(r) = n + 1 /\ \A i \in 1 .. n : r[i] = l[i]
  BY AppendIs
<1> HIDE DEF r, n
<1>2. p \in 0 .. Len(r) /\ p # 0 /\ p - 1 = n /\ Len(r) - p = 0
  BY <1>0, <1>1
<1> HIDE DEF p
<1>3. /\ u \in Seq(Node) /\ Len(u) = p - 1 /\ \A i \in 1 .. p - 1 : u[i] = r[i]
      /\ v \in Seq(Node) /\ Len(v) = Len(r) - p
  BY <1>1, <1>2, Parts, Zenon
<1> HIDE DEF u, v
<1>4. \A i \in 1 .. n : u[i] = l[i]
  BY <1>1, <1>2, <1>3
<1>5. u = l
  BY <1>0, <1>2, <1>3, <1>4, EqualSequences
<1>6. v = <<>>
  BY <1>2, <1>3
<1> QED BY <1>5, <1>6 DEF u, v, r, p, n

(* trim_reply_unused_tail_space keeps what the list holds. *)
LEMMA TrimKeeps ==
  ASSUME Good(reply, 0), NEW x \in Slack
  PROVE  LET l == trim_reply_unused_tail_space(x)
         IN l \in Seq(Node) /\ Len(l) = Len(reply) /\ Contents(l) = Contents(reply)
<1> DEFINE n == Len(reply)
           b == [size |-> Len(reply[n].buf) + x, buf |-> reply[n].buf]
           l == trim_reply_unused_tail_space(x)
<1>0. n \in Nat /\ reply \in Seq(Node) /\ x \in Nat
  BY ReplyAssumption DEF Good
<1>1. \/ l = reply
      \/ n > 0 /\ l = [reply EXCEPT ![n] = b]
  BY DEF trim_reply_unused_tail_space
<1>2. CASE l = reply
  BY <1>0, <1>2
<1>3. CASE n > 0 /\ l = [reply EXCEPT ![n] = b]
  <2>1. n \in 1 .. Len(reply) /\ n # 0
    BY <1>0, <1>3
  <2>2. reply[n] \in Node
    BY <1>0, <2>1
  <2>3. b \in Node /\ b.buf = reply[n].buf \o <<>>
    <3> DEFINE t == reply[n]
    <3>1. t.buf \in Seq(Int)
      BY <2>2 DEF Node
    <3> HIDE DEF t
    <3>2. Len(t.buf) \in Nat
      BY <3>1
    <3>3. t.buf \o <<>> = t.buf
      BY <3>1, Units
    <3>4. [size |-> Len(t.buf) + x, buf |-> t.buf] \in Node
      BY <1>0, <3>1, <3>2 DEF Node
    <3> QED BY <3>3, <3>4 DEF t
  <2> HIDE DEF b, l, n
  <2>4. n = Len(reply)
    BY DEF n
  <2>5. Contents([reply EXCEPT ![n] = b]) = Contents(reply) \o <<>>
    <3>1. reply \in Seq(Node) /\ n \in 1 .. Len(reply) /\ b \in Node /\ <<>> \in Seq(Int)
      BY <1>0, <2>1, <2>3, Units
    <3>2. n = Len(reply) /\ b.buf = reply[n].buf \o <<>> =>
            Contents([reply EXCEPT ![n] = b]) = Contents(reply) \o <<>>
      BY <3>1, ContentsGrow, Zenon
    <3> QED BY <2>3, <2>4, <3>2
  <2>6. Contents(reply) \o <<>> = Contents(reply)
    BY <1>0, ContentsSteps, Units
  <2>7. l \in Seq(Node) /\ Len(l) = Len(reply)
    BY <1>0, <1>3, <2>1, <2>3, Replaced
  <2> QED BY <1>3, <2>5, <2>6, <2>7 DEF l
<1> QED BY <1>1, <1>2, <1>3

(* add_reply_deferred_len makes of the total what it was. *)
LEMMA DeferredTotal ==
  ASSUME IInv, NEW x \in Slack, add_reply_deferred_len(x)
  PROVE  Total(reply', node', todo') = Total(reply, node, todo)
<1> DEFINE l == trim_reply_unused_tail_space(x)
           f == FilledIn(todo)
           r == Added(todo')
           c == Contents(reply)
<1>1. /\ Calling("deferred") /\ node' = Len(reply) + 1 /\ todo' = Tail(todo)
      /\ reply' = Append(l, NullNode)
  BY DEF add_reply_deferred_len, Returns
<1>2. /\ todo # <<>> /\ todo \in Seq(Call) /\ todo[1].op = "deferred" /\ WellOrdered(todo)
      /\ Good(reply, node) /\ node = 0
  BY <1>1, CallStarts
<1>3. l \in Seq(Node) /\ Len(l) = Len(reply) /\ Contents(l) = c
  BY <1>2, TrimKeeps
<1> HIDE DEF l
<1>4. Ahead(reply', node') = l /\ Behind(reply', node') = <<>>
  BY <1>1, <1>3, Nodes, AtTheEnd
<1>5. Len(todo) # 1
  BY <1>2 DEF WellOrdered
<1>6. Tail(todo) \in Seq(Call) /\ Added(todo) = <<>> \o r /\ FilledIn(todo') = f
  <2>1. todo[1].op # "proto"
    BY <1>2
  <2> QED BY <1>1, <1>2, <1>5, <2>1, AddedRest, Zenon
<1>7. f \in Seq(Int) /\ r \in Seq(Int) /\ c \in Seq(Int)
  <2>1. f \in Seq(Int) /\ r \in Seq(Int)
    BY <1>1, <1>2, <1>6, CallUnits
  <2> QED BY <1>2, <2>1, ContentsSteps DEF Good
<1>8. Total(reply, node, todo) = c \o (f \o (<<>> \o r))
  BY <1>2, <1>6 DEF Total
<1>9. Total(reply', node', todo') = (c \o f) \o (<<>> \o r)
  <2>1. node' # 0
    <3>1. Len(reply) \in Nat
      BY <1>2 DEF Good
    <3> QED BY <1>1, <3>1
  <2> QED BY <1>3, <1>4, <1>6, <2>1, ContentsSteps, Zenon DEF Total
<1> HIDE DEF c, f, r
<1>10. <<>> \o r = r
  BY <1>7, Units
<1>11. (c \o f) \o r = c \o (f \o r)
  BY <1>7, Regroup, Zenon
<1> QED BY <1>8, <1>9, <1>10, <1>11

(* The block before the placeholder takes its part of s at its end         *)
(* (set_deferred_reply).                                                   *)
LEMMA PrecedingGrows ==
  ASSUME NEW s \in Seq(Int), Good(reply, node), node # 0
  PROVE  LET l == WithPrev(s)
         IN /\ l \in Seq(Node) /\ Len(l) = Len(reply)
            /\ Contents(Ahead(l, node)) = Contents(Ahead(reply, node)) \o SubSeq(s, 1, ToPrev(s))
            /\ Behind(l, node) = Behind(reply, node)
<1> DEFINE k == ToPrev(s)
           u == SubSeq(s, 1, k)
           j == node - 1
           b == [size |-> reply[j].size, buf |-> reply[j].buf \o u]
           l == WithPrev(s)
           a == Ahead(reply, node)
<1>1. /\ k \in 0 .. Len(s)
      /\ k # 0 => j \in 1 .. Len(reply) /\ GoodBlock(reply[j])
  BY Preceding
<1>2. reply \in Seq(Node) /\ node \in 0 .. Len(reply) /\ Len(reply) \in Nat
  BY DEF Good
<1>3. k = 0 => l = reply
  BY DEF WithPrev
<1>4. k # 0 => l = [reply EXCEPT ![j] = b]
  BY DEF WithPrev
<1> HIDE DEF k
<1>5. u \in Seq(Int) /\ (k = 0 => u = <<>>)
  BY <1>1, SplitUnits
<1>6. a \in Seq(Node) /\ Len(a) = node - 1 /\ Contents(a) \in Seq(Int)
  BY <1>2, Parts, ContentsSteps, Zenon
<1> HIDE DEF l, u
<1>7. CASE k = 0
  <2>1. Contents(a) \o <<>> = Contents(a)
    BY <1>6, Units
  <2> QED BY <1>2, <1>3, <1>5, <1>7, <2>1, Zenon DEF u, l, k
<1>8. CASE k # 0
  <2>1. b \in Node /\ b.buf = reply[j].buf \o u
    <3>1. reply[j].size \in Int /\ reply[j].buf \in Seq(Int)
      BY <1>1, <1>8 DEF GoodBlock, Block
    <3>2. reply[j].buf \o u \in Seq(Int)
      BY <1>5, <3>1, Units
    <3> QED BY <3>1, <3>2 DEF Node
  <2>2. j \in 1 .. node - 1 /\ node \in 1 .. Len(reply) /\ j \in 1 .. Len(reply) /\ j = Len(a)
    BY <1>1, <1>2, <1>6, <1>8
  <2> HIDE DEF j, b
  <2>3. /\ Ahead([reply EXCEPT ![j] = b], node) = [a EXCEPT ![j] = b]
        /\ j \in 1 .. Len(a) /\ a[j] = reply[j]
        /\ Behind([reply EXCEPT ![j] = b], node) = Behind(reply, node)
    <3>1. reply \in Seq(Node) /\ node \in 1 .. Len(reply) /\ j \in 1 .. node - 1 /\ b \in Node
      BY <1>2, <2>1, <2>2
    <3> QED BY <3>1, AheadReplaced
  <2> HIDE DEF a
  <2>4. Contents([a EXCEPT ![j] = b]) = Contents(a) \o u
    <3>1. a \in Seq(Node) /\ j \in 1 .. Len(a) /\ b \in Node
      BY <1>6, <2>1, <2>3
    <3>2. j = Len(a) /\ b.buf = a[j].buf \o u
      BY <2>1, <2>2, <2>3
    <3> QED BY <1>5, <3>1, <3>2, ContentsGrow, Zenon
  <2>5. l \in Seq(Node) /\ Len(l) = Len(reply)
    <3>1. reply \in Seq(Node) /\ j \in 1 .. Len(reply) /\ b \in Node
      BY <1>2, <2>1, <2>2
    <3>2. [reply EXCEPT ![j] = b] \in Seq(Node) /\ Len([reply EXCEPT ![j] = b]) = Len(reply)
      BY <3>1, Replaced
    <3> QED BY <1>4, <1>8, <3>2, Zenon
  <2>6. Contents(Ahead(l, node)) = Contents(a) \o u /\ Behind(l, node) = Behind(reply, node)
    BY <1>4, <1>8, <2>3, <2>4, Zenon
  <2> QED BY <2>5, <2>6 DEF l, a, u, k
<1> QED BY <1>7, <1>8, Zenon

(* set_deferred_reply makes of the total what it was, whichever of the     *)
(* neighbours takes s.                                                     *)
LEMMA SetTotal ==
  ASSUME IInv, NEW x \in Slack, set_deferred_reply(x)
  PROVE  Total(reply', node', todo') = Total(reply, node, todo)
<1> DEFINE s == Head(todo).s
           first == SubSeq(s, 1, ToPrev(s))
           rest == Rest(s)
           block == [size |-> Len(rest) + x, buf |-> rest]
           next == reply[node + 1]
           grown == [size |-> next.size, buf |-> rest \o next.buf]
           list == WithPrev(s)
           h == Contents(Ahead(reply, node))
           c == Contents(Behind(reply, node))
<1>1. /\ Calling("set") /\ node' = 0 /\ todo' = Tail(todo)
      /\ \/ ToPrev(s) = Len(s) /\ reply' = list_del_node(list, node)
         \/ /\ NextTakes(rest)
            /\ reply' = list_del_node([list EXCEPT ![node + 1] = grown], node)
         \/ reply' = [list EXCEPT ![node] = block]
  BY DEF set_deferred_reply, Returns
<1>2. /\ todo # <<>> /\ todo \in Seq(Call) /\ todo[1].op = "set" /\ WellOrdered(todo)
      /\ s \in Seq(Int) /\ Good(reply, node)
      /\ node # 0 <=> todo[Len(todo)].op = "set" /\ "set" # "deferred"
  BY <1>1, CallStarts
<1>3. Len(todo) = 1
  <2>1. 1 \in 1 .. Len(todo)
    BY <1>2
  <2> QED BY <1>2, <2>1, Zenon DEF WellOrdered
<1>4. node # 0 /\ "set" # "proto"
  <2>1. "set" # "deferred" /\ "set" # "proto"
    OBVIOUS
  <2> QED BY <1>2, <1>3, <2>1
<1>5. todo' = <<>> /\ Added(todo) = <<>> /\ FilledIn(todo) = s /\ Added(todo') = <<>> /\ FilledIn(todo') = <<>>
  <2>1. /\ Added(todo) = (IF todo[1].op = "proto" THEN todo[1].s ELSE <<>>) \o Added(Tail(todo))
        /\ Tail(todo) = <<>> /\ Added(<<>>) = <<>> /\ FilledIn(<<>>) = <<>>
    BY <1>2, <1>3, AddedRest, Zenon
  <2>2. Added(todo) = <<>> \o <<>>
    BY <1>2, <1>4, <2>1, Zenon
  <2>3. <<>> \o <<>> = <<>>
    BY Units
  <2>4. FilledIn(todo) = s
    BY <1>2, <1>3 DEF FilledIn
  <2> QED BY <1>1, <2>1, <2>2, <2>3, <2>4, Zenon
<1>6. /\ list \in Seq(Node) /\ Len(list) = Len(reply)
      /\ Contents(Ahead(list, node)) = h \o first
      /\ Behind(list, node) = Behind(reply, node)
  BY <1>2, <1>4, PrecedingGrows, Zenon
<1>7. first \in Seq(Int) /\ rest \in Seq(Int) /\ first \o rest = s /\ Len(rest) \in Int
      /\ (ToPrev(s) = Len(s) => rest = <<>>)
  <2> HIDE DEF s
  <2> DEFINE k == ToPrev(s)
  <2>1. k \in 0 .. Len(s)
    BY <1>2, <1>4, Preceding
  <2>2. rest = SubSeq(s, k + 1, Len(s)) /\ first = SubSeq(s, 1, k)
    BY DEF Rest
  <2> HIDE DEF k
  <2>3. /\ SubSeq(s, 1, k) \in Seq(Int) /\ SubSeq(s, k + 1, Len(s)) \in Seq(Int)
        /\ SubSeq(s, 1, k) \o SubSeq(s, k + 1, Len(s)) = s /\ Len(SubSeq(s, k + 1, Len(s))) \in Int
        /\ k = Len(s) => SubSeq(s, k + 1, Len(s)) = <<>>
    BY <1>2, <2>1, SplitUnits, Zenon
  <2> QED BY <2>2, <2>3, Zenon DEF k
<1>8. /\ reply \in Seq(Node) /\ node \in 1 .. Len(reply) /\ node \in 0 .. Len(reply) /\ Len(reply) \in Nat
      /\ x \in Int
  BY <1>2, <1>4, ReplyAssumption DEF Good
<1>9. h \in Seq(Int) /\ c \in Seq(Int) /\ Behind(reply, node) \in Seq(Node) /\ Len(Behind(reply, node)) = Len(reply) - node
      /\ \A i \in 1 .. Len(reply) - node : Behind(reply, node)[i] = reply[node + i]
  BY <1>4, <1>8, Parts, ContentsSteps
<1> HIDE DEF s, first, rest, list, h
<1>10. Contents(reply') = ((h \o first) \o rest) \o c
  <2>1. CASE ToPrev(s) = Len(s) /\ reply' = list_del_node(list, node)
    <3>1. Contents(reply') = (h \o first) \o c
      BY <1>6, <1>8, <2>1, ContentsDelete, Zenon
    <3>2. (h \o first) \o <<>> = h \o first
      <4>1. h \o first \in Seq(Int)
        BY <1>7, <1>9, Units
      <4> QED BY <4>1, Units
    <3> QED BY <1>7, <2>1, <3>1, <3>2
  <2>2. CASE /\ NextTakes(rest)
             /\ reply' = list_del_node([list EXCEPT ![node + 1] = grown], node)
    <3> DEFINE m == Behind(reply, node)
               g == [list EXCEPT ![node + 1] = grown]
               i == node + 1
    <3>1. i \in node + 1 .. Len(list) /\ i \in 1 .. Len(reply) /\ i - node = 1 /\ 1 \in 1 .. Len(reply) - node
      BY <1>6, <1>8, <2>2 DEF NextTakes
    <3>2. grown \in Node /\ grown.buf = rest \o m[1].buf
      <4>1. next \in Node
        BY <1>8, <3>1
      <4>2. next.size \in Int /\ next.buf \in Seq(Int)
        BY <4>1 DEF Node
      <4>3. m[1] = next
        BY <1>9, <3>1
      <4> HIDE DEF next, m
      <4>4. rest \o next.buf \in Seq(Int)
        BY <1>7, <4>2, Units
      <4> QED BY <4>2, <4>3, <4>4 DEF Node
    <3> HIDE DEF grown
    <3>3. g \in Seq(Node) /\ Len(g) = Len(list)
      BY <1>6, <1>8, <3>1, <3>2, Replaced
    <3>4. Behind(g, node) = [m EXCEPT ![1] = grown] /\ Ahead(g, node) = Ahead(list, node)
      <4>1. list \in Seq(Node) /\ node \in 0 .. Len(list) /\ i \in node + 1 .. Len(list) /\ grown \in Node
        BY <1>6, <1>8, <3>1, <3>2
      <4>2. g = [list EXCEPT ![i] = grown]
        OBVIOUS
      <4> HIDE DEF i, g
      <4>3. /\ Behind([list EXCEPT ![i] = grown], node) = [Behind(list, node) EXCEPT ![i - node] = grown]
            /\ node # 0 => Ahead([list EXCEPT ![i] = grown], node) = Ahead(list, node)
        BY <4>1, BehindReplaced
      <4> QED BY <1>4, <1>6, <3>1, <4>2, <4>3, Zenon
    <3>5. node \in 1 .. Len(g)
      BY <1>6, <1>8, <3>3
    <3> HIDE DEF g
    <3>6. Contents(list_del_node(g, node)) = Contents(Ahead(g, node)) \o Contents(Behind(g, node))
      BY <3>3, <3>5, ContentsDelete
    <3>7. Contents([m EXCEPT ![1] = grown]) = rest \o Contents(m)
      <4>1. m \in Seq(Node) /\ 1 \in 1 .. Len(m)
        BY <1>9, <3>1
      <4> HIDE DEF m
      <4> QED BY <1>7, <3>2, <4>1, ContentsGrow, Zenon
    <3>8. Contents(reply') = (h \o first) \o (rest \o c)
      BY <1>6, <2>2, <3>4, <3>6, <3>7, Zenon DEF g
    <3> HIDE DEF c
    <3>9. h \o first \in Seq(Int)
      BY <1>7, <1>9, Units
    <3> DEFINE hf == h \o first
    <3> HIDE DEF hf
    <3>10. (hf \o rest) \o c = hf \o (rest \o c)
      <4>1. hf \in Seq(Int)
        BY <3>9 DEF hf
      <4> QED BY <1>7, <1>9, <4>1, Regroup, Zenon
    <3> QED BY <3>8, <3>10 DEF hf
  <2>3. CASE reply' = [list EXCEPT ![node] = block]
    <3>1. block \in Node /\ block.buf = rest
      <4> DEFINE z == Len(rest) + x
      <4>1. z \in Int
        BY <1>7, <1>8
      <4>2. block = [size |-> z, buf |-> rest]
        OBVIOUS
      <4> HIDE DEF z, block
      <4> QED BY <1>7, <4>1, <4>2 DEF Node
    <3> HIDE DEF block
    <3>2. node \in 1 .. Len(list)
      BY <1>6, <1>8
    <3>3. Contents([list EXCEPT ![node] = block]) = (Contents(Ahead(list, node)) \o block.buf) \o Contents(Behind(list, node))
      BY <1>6, <3>1, <3>2, ContentsAt, Zenon
    <3> QED BY <1>6, <2>3, <3>1, <3>3, Zenon
  <2> QED BY <1>1, <2>1, <2>2, <2>3
<1>11. Total(reply, node, todo) = (h \o s) \o (c \o <<>>)
  BY <1>4, <1>5 DEF Total, h
<1>12. Total(reply', node', todo') = Contents(reply') \o (<<>> \o <<>>)
  BY <1>1, <1>5, Zenon DEF Total
<1> HIDE DEF c
<1>13. (h \o first) \o rest = h \o s
  BY <1>7, <1>9, Regroup, Zenon
<1>14. c \o <<>> = c /\ <<>> \o <<>> = <<>>
  BY <1>9, Units
<1>15. Contents(reply') \o <<>> = Contents(reply')
  <2>1. IInv'
    BY SetPreserves
  <2>2. Contents(reply') \in Seq(Int)
    BY <2>1, ContentsSteps DEF IInv, TypeOK, Node
  <2> QED BY <2>2, Units
<1> QED BY <1>10, <1>11, <1>12, <1>13, <1>14, <1>15

-----------------------------------------------------------------------------
(* The replies of the handlers are RESP. *)

(* A line ends where its only line end is. *)
LEMMA LineIsReply ==
  ASSUME NEW w \in Seq(Int), w # <<>>, w[1] \in {PLUS, MINUS, COLON}, w[Len(w)] = EOL,
         \A i \in 1 .. Len(w) - 1 : w[i] # EOL
  PROVE  RS!IsReply(w)
<1>1. Len(w) \in Nat /\ Len(w) >= 1
  OBVIOUS
<1>2. ASSUME NEW i \in 1 .. Len(w) PROVE w[i] = EOL <=> i = Len(w)
  <2>1. i # Len(w) => i \in 1 .. Len(w) - 1
    BY <1>1
  <2> QED BY <2>1
<1>3. RS!EndsAt(w) = {i \in 1 .. Len(w) : w[i] = EOL}
  BY DEF RS!EndsAt
<1>4. Len(w) \in 1 .. Len(w)
  BY <1>1
<1>5. RS!EndsAt(w) = {Len(w)}
  BY <1>2, <1>3, <1>4, Zenon
<1> QED BY <1>5 DEF RS!IsReply, RS!IsLine

(* The calls of add_reply_proto alone fill nothing in. *)
LEMMA OnlyProtoFills ==
  ASSUME NEW t, OnlyProto(t)
  PROVE  FilledIn(t) = <<>>
<1>1. t # <<>> => Len(t) \in 1 .. Len(t)
  BY DEF OnlyProto
<1>2. t # <<>> => t[Len(t)].op = "proto"
  BY <1>1 DEF OnlyProto
<1> QED BY <1>2 DEF FilledIn

(* _addReplyProtoToList, called once, adds its bytes. *)
LEMMA ProtoAdds ==
  ASSUME NEW s \in Seq(Int)
  PROVE  Proto(s) \in Seq(Call) /\ Added(Proto(s)) = s
<1> DEFINE c == [op |-> "proto", s |-> s]
<1>1. c \in Call /\ c.op = "proto" /\ c.s = s
  BY DEF Call
<1>2. Proto(s) = <<c>>
  BY DEF Proto
<1> HIDE DEF c
<1> QED BY <1>1, <1>2, AddedOne

(* Three calls in a row. *)
LEMMA ThreeAdd ==
  ASSUME NEW s \in Seq(Int), NEW t \in Seq(Int), NEW u \in Seq(Int)
  PROVE  Added(Proto(s) \o Proto(t) \o Proto(u)) = (s \o t) \o u
<1> DEFINE p == Proto(s)
           q == Proto(t)
           r == Proto(u)
           v == p \o q
<1>1. p \in Seq(Call) /\ q \in Seq(Call) /\ r \in Seq(Call)
  BY ProtoAdds
<1>2. Added(p) = s /\ Added(q) = t /\ Added(r) = u
  BY ProtoAdds
<1> HIDE DEF p, q, r
<1>3. v \in Seq(Call) /\ Added(v) = Added(p) \o Added(q)
  BY <1>1, AddedConcat
<1> HIDE DEF v
<1>4. Added(v \o r) = Added(v) \o Added(r)
  BY <1>1, <1>3, AddedConcat, Zenon
<1> QED BY <1>2, <1>3, <1>4 DEF p, q, r, v

(* A line made of a start, a text without line ends and the end. *)
LEMMA JoinedLine ==
  ASSUME NEW a \in Seq(Int), a # <<>>, NEW b \in Seq(Int), a[1] \in {PLUS, MINUS, COLON},
         \A i \in 1 .. Len(a) : a[i] # EOL, \A i \in 1 .. Len(b) : b[i] # EOL
  PROVE  RS!IsReply((a \o b) \o <<EOL>>)
<1> DEFINE v == a \o b
           w == Append(v, EOL)
<1>0. Len(a) \in Nat /\ Len(b) \in Nat /\ Len(a) >= 1 /\ EOL \in Int
  BY DEF EOL
<1>1. v \in Seq(Int) /\ Len(v) = Len(a) + Len(b)
      /\ \A i \in 1 .. Len(a) + Len(b) : v[i] = IF i <= Len(a) THEN a[i] ELSE b[i - Len(a)]
  BY ConcatIs
<1> HIDE DEF v
<1>2. \A i \in 1 .. Len(v) : v[i] # EOL
  <2>1. ASSUME NEW i \in 1 .. Len(v) PROVE v[i] # EOL
    <3>1. CASE i <= Len(a)
      <4>1. i \in 1 .. Len(a)
        BY <1>0, <3>1
      <4>2. v[i] = a[i]
        BY <1>1, <3>1
      <4> QED BY <4>1, <4>2
    <3>2. CASE ~(i <= Len(a))
      <4>1. i - Len(a) \in 1 .. Len(b)
        BY <1>0, <1>1, <3>2
      <4>2. v[i] = b[i - Len(a)]
        BY <1>1, <3>2
      <4> QED BY <4>1, <4>2
    <3> QED BY <3>1, <3>2
  <2> QED BY <2>1
<1>3. v[1] = a[1] /\ Len(v) >= 1 /\ Len(v) \in Nat
  BY <1>0, <1>1
<1>4. w \in Seq(Int) /\ Len(w) = Len(v) + 1 /\ w[Len(v) + 1] = EOL /\ \A i \in 1 .. Len(v) : w[i] = v[i]
  <2>1. v \in Seq(Int)
    BY <1>1
  <2> QED BY <1>0, <2>1, AppendIs
<1>5. v \o <<EOL>> = w
  BY <1>0, <1>1, AppendAsConcat
<1> HIDE DEF w
<1>6. w # <<>> /\ w[1] = a[1] /\ w[Len(w)] = EOL
  BY <1>3, <1>4
<1>7. \A i \in 1 .. Len(w) - 1 : w[i] # EOL
  <2>1. 1 .. Len(w) - 1 = 1 .. Len(v)
    BY <1>3, <1>4
  <2> QED BY <1>2, <1>4, <2>1, Zenon
<1>8. RS!IsReply(w)
  BY <1>4, <1>6, <1>7, LineIsReply, Zenon
<1> QED BY <1>5, <1>8, Zenon DEF v

(* add_reply_bulk: the length is that of the text, whatever is in it. *)
LEMMA BulkIsReply ==
  ASSUME NEW a \in Seq(Int)
  PROVE  RS!IsReply((<<DOLLAR, Len(a), EOL>> \o a) \o <<EOL>>)
<1> DEFINE h == <<DOLLAR, Len(a), EOL>>
           v == h \o a
           w == Append(v, EOL)
<1>0. Len(a) \in Nat /\ EOL \in Int
  BY DEF EOL
<1>1. h \in Seq(Int) /\ Len(h) = 3 /\ h[1] = DOLLAR /\ h[2] = Len(a) /\ h[3] = EOL
  BY DEF DOLLAR, EOL
<1> HIDE DEF h
<1>2. v \in Seq(Int) /\ Len(v) = Len(h) + Len(a)
      /\ \A i \in 1 .. Len(h) + Len(a) : v[i] = IF i <= Len(h) THEN h[i] ELSE a[i - Len(h)]
  BY <1>1, ConcatIs, Zenon
<1> HIDE DEF v
<1>3. Len(v) = Len(a) + 3 /\ v[1] = DOLLAR /\ v[2] = Len(a) /\ v[3] = EOL
  BY <1>0, <1>1, <1>2
<1>4. w \in Seq(Int) /\ Len(w) = Len(v) + 1 /\ w[Len(v) + 1] = EOL /\ \A i \in 1 .. Len(v) : w[i] = v[i]
  <2>1. v \in Seq(Int)
    BY <1>2
  <2> QED BY <1>0, <2>1, AppendIs
<1>5. v \o <<EOL>> = w
  BY <1>0, <1>2, AppendAsConcat
<1> HIDE DEF w
<1>6. Len(w) = Len(a) + 4 /\ w[1] = DOLLAR /\ w[2] = Len(a) /\ w[3] = EOL /\ w[Len(w)] = EOL
  BY <1>0, <1>3, <1>4
<1>7. Len(w) >= 4 /\ w[2] = Len(w) - 4 /\ w # <<>>
  BY <1>0, <1>6
<1>8. RS!IsReply(w)
  BY <1>6, <1>7 DEF RS!IsReply, RS!IsBulk
<1> QED BY <1>5, <1>8, Zenon DEF v, h

(* What calls of one unit each add. *)
LEMMA SinglesAdd ==
  ASSUME NEW t \in Seq(Call), NEW e \in Seq(Int), Len(e) = Len(t),
         \A i \in 1 .. Len(t) : t[i].op = "proto" /\ t[i].s = <<e[i]>>
  PROVE  Added(t) = e
<1> DEFINE l == Pieces(t)
           n == Len(t)
           w == [i \in 0 .. n |-> SubSeq(e, 1, i)]
<1>0. n \in Nat /\ n = Len(t) /\ n = Len(e)
  OBVIOUS
<1>1. l \in Seq(Node) /\ Len(l) = n /\ \A i \in 1 .. n : l[i] = Piece(t[i])
  BY CallUnits
<1>2. ASSUME NEW i \in 1 .. n PROVE l[i].buf = <<e[i]>>
  <2>1. t[i].op = "proto" /\ t[i].s = <<e[i]>> /\ l[i] = Piece(t[i])
    BY <1>1
  <2>2. Piece(t[i]).buf = t[i].s
    BY <2>1 DEF Piece
  <2> QED BY <2>1, <2>2
<1> HIDE DEF l, n
<1>3. w \in [0 .. n -> Seq(Int)]
  <2>1. ASSUME NEW i \in 0 .. n PROVE SubSeq(e, 1, i) \in Seq(Int)
    BY <1>0, PrefixFacts
  <2> QED BY <2>1
<1>4. w[0] = <<>> /\ w[n] = e
  <2>1. 0 \in 0 .. n /\ n \in 0 .. n
    BY <1>0
  <2>2. SubSeq(e, 1, 0) = <<>> /\ SubSeq(e, 1, n) = e
    BY <1>0
  <2> QED BY <2>1, <2>2
<1>5. ASSUME NEW i \in 1 .. n PROVE w[i] = w[i - 1] \o l[i].buf
  <2> DEFINE x == SubSeq(e, 1, i)
             q == SubSeq(e, 1, i - 1)
             y == Append(q, e[i])
  <2>1. i \in 0 .. n /\ i - 1 \in 0 .. n
    BY <1>0
  <2>2. w[i] = x /\ w[i - 1] = q
    BY <2>1
  <2>3. e[i] \in Int
    BY <1>0
  <2>4. q \in Seq(Int) /\ Len(q) = i - 1 /\ \A j \in 1 .. i - 1 : q[j] = e[j]
    BY <1>0
  <2>5. x \in Seq(Int) /\ Len(x) = i /\ \A j \in 1 .. i : x[j] = e[j]
    BY <1>0
  <2> HIDE DEF x, q
  <2>6. y \in Seq(Int) /\ Len(y) = i /\ y[i] = e[i] /\ \A j \in 1 .. i - 1 : y[j] = e[j]
    BY <1>0, <2>3, <2>4
  <2>7. y = q \o <<e[i]>>
    <3>1. q \in Seq(Int) /\ e[i] \in Int
      BY <2>3, <2>4
    <3> QED BY <3>1, AppendAsConcat
  <2> HIDE DEF y, w
  <2>8. \A j \in 1 .. i : x[j] = y[j]
    <3>1. \A j \in 1 .. i : j \in 1 .. i - 1 \/ j = i
      BY <1>0
    <3> QED BY <2>5, <2>6, <3>1, Zenon
  <2>9. x = y
    BY <2>5, <2>6, <2>8, EqualSequences
  <2> QED BY <1>2, <2>2, <2>7, <2>9, Zenon
<1> HIDE DEF w
<1>6. IsCollected(w, l)
  BY <1>1, <1>3, <1>4, <1>5 DEF IsCollected
<1>7. Contents(l) = e
  BY <1>1, <1>4, <1>6, CollectedIsContents
<1> QED BY <1>7 DEF Added, l

(* The units of status lines one after the other. *)
LineUnit(i) == IF i % 3 = 0 THEN EOL ELSE IF i % 3 = 1 THEN PLUS ELSE TEXT

(* A handler that adds m status replies adds their m lines. *)
LEMMA StatusesAdd ==
  ASSUME NEW m \in Nat
  PROVE  Statuses(m) \in Seq(Call) /\ Added(Statuses(m)) = [i \in 1 .. 3 * m |-> LineUnit(i)]
<1> DEFINE n == 3 * m
           st == add_reply_status(<<TEXT>>)
           t == Statuses(m)
           e == [i \in 1 .. n |-> LineUnit(i)]
<1>0. n \in Nat
  OBVIOUS
<1>1. /\ st[1] = [op |-> "proto", s |-> <<PLUS>>]
      /\ st[2] = [op |-> "proto", s |-> <<TEXT>>]
      /\ st[3] = [op |-> "proto", s |-> <<EOL>>]
  BY DEF add_reply_status, Proto
<1>2. t = [i \in 1 .. n |-> st[IF i % 3 = 0 THEN 3 ELSE i % 3]]
  BY DEF Statuses
<1> HIDE DEF st, t, n
<1>3. ASSUME NEW i \in 1 .. n
      PROVE  t[i] = [op |-> "proto", s |-> <<LineUnit(i)>>]
  <2>1. t[i] = st[IF i % 3 = 0 THEN 3 ELSE i % 3]
    BY <1>2
  <2>2. i % 3 \in {0, 1, 2}
    BY <1>0
  <2>3. CASE i % 3 = 0
    BY <1>1, <2>1, <2>3 DEF LineUnit
  <2>4. CASE i % 3 = 1
    BY <1>1, <2>1, <2>4 DEF LineUnit
  <2>5. CASE i % 3 = 2
    BY <1>1, <2>1, <2>5 DEF LineUnit
  <2> QED BY <2>2, <2>3, <2>4, <2>5
<1>4. \A i \in 1 .. n : LineUnit(i) \in Int
  BY DEF LineUnit, EOL, PLUS, TEXT
<1>5. e \in [1 .. n -> Int] /\ \A i \in 1 .. n : e[i] = LineUnit(i)
  BY <1>4
<1> HIDE DEF e
<1>6. e \in Seq(Int) /\ Len(e) = n
  BY <1>0, <1>5, FunctionIsSeq
<1>7. ASSUME NEW i \in 1 .. n PROVE t[i] \in Call /\ t[i].op = "proto" /\ t[i].s = <<e[i]>>
  <2> DEFINE u == LineUnit(i)
  <2>1. u \in Int /\ e[i] = u /\ t[i] = [op |-> "proto", s |-> <<u>>]
    BY <1>3, <1>4, <1>5
  <2> HIDE DEF u
  <2>2. <<u>> \in Seq(Int)
    BY <2>1
  <2> QED BY <2>1, <2>2 DEF Call
<1>8. t \in [1 .. n -> Call]
  BY <1>2, <1>7
<1>9. t \in Seq(Call) /\ Len(t) = n
  BY <1>0, <1>8, FunctionIsSeq
<1>10. Added(t) = e
  BY <1>6, <1>7, <1>9, SinglesAdd
<1> QED BY <1>9, <1>10 DEF t, e, n

(* What ends a line at every third unit is a third as many lines. *)
LEMMA CountThrees ==
  ASSUME NEW w \in Seq(Int), NEW p \in Nat, Len(w) = 3 * p, \A i \in 1 .. Len(w) : w[i] = EOL <=> i % 3 = 0
  PROVE  RS!LineCount(w) = p
<1> DEFINE n == Len(w)
           one(i) == IF w[i] = EOL THEN 1 ELSE 0
           upto == CHOOSE u : u = [i \in 0 .. n |-> IF i = 0 THEN 0 ELSE u[i - 1] + one(i)]
           f == [i \in 0 .. n |-> i \div 3]
<1>1. n \in Nat /\ n = 3 * p
  OBVIOUS
<1>2. RS!LineCount(w) = upto[n]
  BY DEF RS!LineCount
<1>3. \A i \in 1 .. n : one(i) = IF i % 3 = 0 THEN 1 ELSE 0
  OBVIOUS
<1> HIDE DEF n, one
<1>4. ASSUME NEW i \in 1 .. n PROVE i \div 3 = ((i - 1) \div 3) + one(i)
  <2>1. i \in Nat /\ i >= 1
    BY <1>1
  <2>2. i \div 3 = ((i - 1) \div 3) + (IF i % 3 = 0 THEN 1 ELSE 0)
    BY <2>1
  <2> QED BY <1>3, <2>2
<1>5. \A i \in 0 .. n : f[i] = IF i = 0 THEN 0 ELSE f[i - 1] + one(i)
  <2>1. ASSUME NEW i \in 0 .. n, i # 0 PROVE f[i] = f[i - 1] + one(i)
    <3>1. i \in 1 .. n /\ i - 1 \in 0 .. n
      BY <1>1, <2>1
    <3>2. f[i] = i \div 3 /\ f[i - 1] = (i - 1) \div 3
      BY <3>1
    <3> QED BY <1>4, <3>1, <3>2
  <2>2. f[0] = 0
    BY <1>1
  <2> QED BY <2>1, <2>2, Zenon
<1>6. f = [i \in 0 .. n |-> IF i = 0 THEN 0 ELSE f[i - 1] + one(i)]
  BY <1>5, Zenon
<1>7. upto = [i \in 0 .. n |-> IF i = 0 THEN 0 ELSE upto[i - 1] + one(i)]
  BY <1>6, Zenon
<1> HIDE DEF upto, f
<1> DEFINE T == {i \in 0 .. n : upto[i] = i \div 3}
<1>8. \A i \in 0 .. n : i \in T
  <2>1. 0 \in T
    <3>1. upto[0] = 0 /\ 0 \in 0 .. n
      BY <1>1, <1>7
    <3> QED BY <3>1
  <2>2. ASSUME NEW i \in 1 .. n, i - 1 \in T PROVE i \in T
    <3>1. i \in 0 .. n /\ i # 0 /\ upto[i - 1] = (i - 1) \div 3
      BY <1>1, <2>2
    <3>2. upto[i] = upto[i - 1] + one(i)
      BY <1>7, <3>1, Zenon
    <3> QED BY <1>4, <3>1, <3>2
  <2> HIDE DEF T
  <2> QED BY <1>1, <2>1, <2>2, UpwardInduction, Zenon
<1>9. n \in 0 .. n /\ n \div 3 = p
  BY <1>1
<1> QED BY <1>2, <1>8, <1>9

(* add_reply_help: the number filled in at the end is that of the lines. *)
LEMMA HelpIsReply ==
  ASSUME NEW lines \in Nat
  PROVE  RS!IsReply(FilledIn(add_reply_help(lines)) \o Added(add_reply_help(lines)))
<1> DEFINE m == lines + 3
           a == [op |-> "deferred", s |-> <<>>]
           t == Statuses(m)
           h == <<STAR, m, EOL>>
           z == [op |-> "set", s |-> h]
           calls == add_reply_help(lines)
           e == [i \in 1 .. 3 * m |-> LineUnit(i)]
           w == h \o e
<1>0. m \in Nat /\ 3 * m \in Nat /\ m >= 1
  OBVIOUS
<1>1. h \in Seq(Int) /\ Len(h) = 3 /\ h[1] = STAR /\ h[2] = m /\ h[3] = EOL
  BY <1>0 DEF STAR, EOL
<1>2. a \in Call /\ a.op # "proto" /\ z \in Call /\ z.op = "set" /\ z.op # "proto" /\ z.s = h
  <2> HIDE DEF h
  <2> QED BY <1>1 DEF Call
<1>3. t \in Seq(Call) /\ Added(t) = e
  BY <1>0, StatusesAdd, Zenon
<1>4. calls = <<a>> \o t \o <<z>>
  <2>1. 1 + lines + 2 = m
    OBVIOUS
  <2> QED BY <2>1 DEF add_reply_help
<1> HIDE DEF a, t, h, z, calls, e, m
<1>5. e \in Seq(Int) /\ Len(e) = 3 * m /\ \A i \in 1 .. 3 * m : e[i] = LineUnit(i)
  <2>1. \A i \in 1 .. 3 * m : LineUnit(i) \in Int
    BY DEF LineUnit, EOL, PLUS, TEXT
  <2>2. e \in [1 .. 3 * m -> Int] /\ \A i \in 1 .. 3 * m : e[i] = LineUnit(i)
    BY <2>1 DEF e
  <2> QED BY <1>0, <2>2, FunctionIsSeq
<1>6. FilledIn(calls) = h /\ Added(calls) = e
  <2> DEFINE b == <<a>>
             c == <<z>>
             v == b \o t
  <2>1. b \in Seq(Call) /\ Added(b) = <<>> /\ c \in Seq(Call) /\ Added(c) = <<>> /\ Len(c) = 1 /\ c[1] = z
    BY <1>2, AddedOne
  <2>2. calls = v \o c
    BY <1>4
  <2> HIDE DEF b, c
  <2>3. v \in Seq(Call) /\ Added(v) = <<>> \o e
    BY <1>3, <2>1, AddedConcat, Zenon
  <2> HIDE DEF v
  <2>4. v \o c \in Seq(Call) /\ Added(v \o c) = (<<>> \o e) \o <<>>
    BY <2>1, <2>3, AddedConcat, Zenon
  <2>5. <<>> \o e = e /\ e \o <<>> = e
    BY <1>5, Units
  <2>6. Len(v \o c) = Len(v) + 1 /\ (v \o c)[Len(v) + 1] = z /\ Len(v) \in Nat
    <3>1. v \in Seq(Call) /\ c \in Seq(Call)
      BY <2>1, <2>3
    <3>2. Len(v \o c) = Len(v) + Len(c)
          /\ \A i \in 1 .. Len(v) + Len(c) : (v \o c)[i] = IF i <= Len(v) THEN v[i] ELSE c[i - Len(v)]
      BY <3>1, ConcatIs
    <3>3. Len(v) \in Nat /\ Len(c) = 1 /\ Len(v) + 1 \in 1 .. Len(v) + 1 /\ ~(Len(v) + 1 <= Len(v))
          /\ (Len(v) + 1) - Len(v) = 1
      BY <2>1, <3>1
    <3>4. (v \o c)[Len(v) + 1] = c[(Len(v) + 1) - Len(v)]
      BY <3>2, <3>3
    <3> QED BY <2>1, <3>2, <3>3, <3>4
  <2>7. calls # <<>> /\ calls[Len(calls)] = z
    BY <2>2, <2>6
  <2>8. FilledIn(calls) = h
    BY <1>2, <2>7 DEF FilledIn
  <2> QED BY <2>2, <2>4, <2>5, <2>8
<1>7. w \in Seq(Int) /\ Len(w) = 3 + 3 * m
      /\ \A i \in 1 .. 3 + 3 * m : w[i] = IF i <= 3 THEN h[i] ELSE e[i - 3]
  <2>1. /\ h \o e \in Seq(Int) /\ Len(h \o e) = Len(h) + Len(e)
        /\ \A i \in 1 .. Len(h) + Len(e) : (h \o e)[i] = IF i <= Len(h) THEN h[i] ELSE e[i - Len(h)]
    BY <1>1, <1>5, ConcatIs, Zenon
  <2> QED BY <1>1, <1>5, <2>1
<1> HIDE DEF w
<1>8. w[1] = STAR /\ w[2] = m /\ w[3] = EOL
  BY <1>0, <1>1, <1>7
<1>9. ASSUME NEW i \in 4 .. 3 + 3 * m PROVE w[i] = LineUnit(i)
  <2>1. i - 3 \in 1 .. 3 * m /\ ~(i <= 3) /\ i \in 1 .. 3 + 3 * m
    BY <1>0
  <2>2. w[i] = LineUnit(i - 3)
    BY <1>5, <1>7, <2>1
  <2>3. (i - 3) % 3 = i % 3
    BY <1>0
  <2> QED BY <2>2, <2>3 DEF LineUnit
<1>10. ASSUME NEW i \in 1 .. Len(w) PROVE w[i] = EOL <=> i % 3 = 0
  <2>0. Len(w) = 3 + 3 * m
    BY <1>7
  <2>1. CASE i \in 1 .. 3
    <3>1. i = 1 \/ i = 2 \/ i = 3
      BY <2>1
    <3>2. STAR # EOL /\ m # EOL
      BY <1>0 DEF STAR, EOL
    <3> QED BY <1>8, <3>1, <3>2
  <2>2. CASE i \in 4 .. 3 + 3 * m
    <3>1. w[i] = LineUnit(i)
      BY <1>9, <2>2
    <3>2. PLUS # EOL /\ TEXT # EOL
      BY DEF PLUS, TEXT, EOL
    <3> QED BY <3>1, <3>2 DEF LineUnit
  <2>3. i \in 1 .. 3 \/ i \in 4 .. 3 + 3 * m
    BY <1>0, <2>0
  <2> QED BY <2>1, <2>2, <2>3
<1>11. \A i \in RS!EndsAt(w) : i \in 1 .. Len(w) /\ i % 3 = 0
  BY <1>10 DEF RS!EndsAt
<1>12. RS!LineCount(w) = m + 1
  <2>1. m + 1 \in Nat /\ Len(w) = 3 * (m + 1)
    BY <1>0, <1>7
  <2> QED BY <1>7, <1>10, <2>1, CountThrees
<1>13. w[Len(w)] = EOL
  <2>1. Len(w) \in 1 .. Len(w) /\ Len(w) % 3 = 0
    BY <1>0, <1>7
  <2> QED BY <1>10, <2>1
<1>14. ASSUME NEW i \in RS!EndsAt(w), i < Len(w) PROVE w[i + 1] \in {PLUS, MINUS, COLON}
  <2>1. i \in 1 .. Len(w) /\ i % 3 = 0
    BY <1>11
  <2>2. Len(w) = 3 + 3 * m /\ i < Len(w)
    BY <1>7, <1>14
  <2>3. i >= 3 /\ (i + 1) % 3 = 1
    BY <2>1, <2>2, <1>0
  <2>4. i + 1 \in 4 .. 3 + 3 * m
    BY <1>0, <2>1, <2>2, <2>3
  <2>5. w[i + 1] = PLUS
    BY <1>9, <2>3, <2>4 DEF LineUnit
  <2> QED BY <2>5
<1>15. RS!IsArray(w)
  <2>1. Len(w) >= 3
    BY <1>0, <1>7
  <2>2. w[2] = RS!LineCount(w) - 1
    BY <1>0, <1>8, <1>12
  <2> QED BY <1>8, <1>13, <1>14, <2>1, <2>2 DEF RS!IsArray
<1>16. w # <<>>
  BY <1>0, <1>7
<1>17. RS!IsReply(w)
  BY <1>15, <1>16 DEF RS!IsReply
<1> QED BY <1>6, <1>17 DEF w, calls

(* What a handler adds is one reply. *)
LEMMA HandlerReplies ==
  ASSUME NEW calls \in Handlers
  PROVE  RS!IsReply(FilledIn(calls) \o Added(calls))
<1> USE ReplyAssumption
<1>0. /\ <<PLUS, TEXT, EOL>> \in Seq(Int) /\ <<MINUS, TEXT, EOL>> \in Seq(Int)
      /\ <<STAR, -1, EOL>> \in Seq(Int) /\ <<TEXT>> \in Seq(Int) /\ <<PLUS>> \in Seq(Int)
      /\ <<EOL>> \in Seq(Int) /\ <<MINUS, TEXT>> \in Seq(Int)
  BY DEF PLUS, MINUS, STAR, TEXT, EOL
<1>1. ASSUME NEW t, OnlyProto(t), NEW w \in Seq(Int), Added(t) = w, RS!IsReply(w)
      PROVE  RS!IsReply(FilledIn(t) \o Added(t))
  <2>1. FilledIn(t) = <<>>
    BY <1>1, OnlyProtoFills
  <2>2. <<>> \o w = w
    BY Units
  <2> QED BY <1>1, <2>1, <2>2
<1>2. ASSUME NEW s \in SharedReplies, calls = Proto(s) PROVE RS!IsReply(FilledIn(calls) \o Added(calls))
  <2>1. s \in Seq(Int)
    BY <1>0, Zenon DEF SharedReplies
  <2>2. RS!IsReply(s)
    <3>1. CASE s \in {<<PLUS, TEXT, EOL>>, <<MINUS, TEXT, EOL>>}
      <4>1. s # <<>> /\ Len(s) = 3 /\ s[1] \in {PLUS, MINUS} /\ s[2] = TEXT /\ s[3] = EOL
        BY <3>1
      <4>2. \A i \in 1 .. Len(s) - 1 : s[i] # EOL
        <5>1. \A i \in 1 .. Len(s) - 1 : i = 1 \/ i = 2
          BY <4>1
        <5>2. PLUS # EOL /\ MINUS # EOL /\ TEXT # EOL
          BY DEF PLUS, MINUS, TEXT, EOL
        <5> QED BY <4>1, <5>1, <5>2
      <4>3. s[Len(s)] = EOL /\ s[1] \in {PLUS, MINUS, COLON}
        BY <4>1
      <4> QED BY <2>1, <4>1, <4>2, <4>3, LineIsReply, Zenon
    <3>2. CASE s = <<STAR, -1, EOL>>
      <4>1. s # <<>> /\ Len(s) = 3 /\ s[1] = STAR /\ s[2] = -1 /\ s[3] = EOL
        BY <3>2
      <4>2. Len(s) >= 3
        BY <4>1
      <4>3. RS!IsArray(s)
        BY <4>1, <4>2 DEF RS!IsArray
      <4> QED BY <4>1, <4>3 DEF RS!IsReply
    <3> QED BY <3>1, <3>2 DEF SharedReplies
  <2> QED BY <1>1, <1>2, <2>1, <2>2, ProtoOnly, ProtoAdds
<1>3. ASSUME NEW n \in {0, 1}, calls = add_reply_long_long_with_prefix(n, COLON)
      PROVE  RS!IsReply(FilledIn(calls) \o Added(calls))
  <2> DEFINE s == <<COLON, n, EOL>>
  <2>1. s \in Seq(Int) /\ s # <<>> /\ Len(s) = 3 /\ s[1] = COLON /\ s[2] = n /\ s[3] = EOL
    BY DEF COLON, EOL
  <2>2. calls = Proto(s)
    BY <1>3 DEF add_reply_long_long_with_prefix
  <2> HIDE DEF s
  <2>3. \A i \in 1 .. Len(s) - 1 : s[i] # EOL
    <3>1. \A i \in 1 .. Len(s) - 1 : i = 1 \/ i = 2
      BY <2>1
    <3>2. COLON # EOL /\ n # EOL
      BY DEF COLON, EOL
    <3> QED BY <2>1, <3>1, <3>2
  <2>4. s[Len(s)] = EOL /\ s[1] \in {PLUS, MINUS, COLON}
    BY <2>1
  <2>5. RS!IsReply(s)
    BY <2>1, <2>3, <2>4, LineIsReply, Zenon
  <2> QED BY <1>1, <2>1, <2>2, <2>5, ProtoOnly, ProtoAdds
<1>4. ASSUME NEW a \in Args, calls = add_reply_bulk(a) PROVE RS!IsReply(FilledIn(calls) \o Added(calls))
  <2> DEFINE h == <<DOLLAR, Len(a), EOL>>
             w == (h \o a) \o <<EOL>>
  <2>1. a \in Seq(Int)
    OBVIOUS
  <2>2. h \in Seq(Int)
    BY <2>1 DEF DOLLAR, EOL
  <2>3. calls = Proto(h) \o Proto(a) \o Proto(<<EOL>>)
    BY <1>4 DEF add_reply_bulk, add_reply_long_long_with_prefix
  <2>4. Added(calls) = w
    BY <1>0, <2>1, <2>2, <2>3, ThreeAdd, Zenon
  <2>5. w \in Seq(Int)
    <3> HIDE DEF h
    <3>1. h \o a \in Seq(Int)
      BY <2>1, <2>2, Units
    <3> QED BY <1>0, <3>1, Units
  <2>6. RS!IsReply(w)
    BY <2>1, BulkIsReply
  <2>7. OnlyProto(calls)
    BY <1>4, BulkOnly
  <2> QED BY <1>1, <2>4, <2>5, <2>6, <2>7, Zenon
<1>5. ASSUME NEW b \in Seq(Int), NEW c \in Seq(Int), b # <<>>, b[1] \in {PLUS, MINUS, COLON},
             \A i \in 1 .. Len(b) : b[i] # EOL, \A i \in 1 .. Len(c) : c[i] # EOL,
             calls = Proto(b) \o Proto(c) \o Proto(<<EOL>>), OnlyProto(calls)
      PROVE  RS!IsReply(FilledIn(calls) \o Added(calls))
  <2> DEFINE w == (b \o c) \o <<EOL>>
  <2>1. Added(calls) = w
    <3>1. Added(Proto(b) \o Proto(c) \o Proto(<<EOL>>)) = w
      <4> DEFINE z == <<EOL>>
      <4>1. z \in Seq(Int)
        BY <1>0
      <4> HIDE DEF z
      <4>2. Added(Proto(b) \o Proto(c) \o Proto(z)) = (b \o c) \o z
        BY <4>1, ThreeAdd
      <4> QED BY <4>2 DEF z
    <3> QED BY <1>5, <3>1, Zenon
  <2>2. w \in Seq(Int)
    <3>1. b \o c \in Seq(Int)
      BY Units
    <3> QED BY <1>0, <3>1, Units
  <2>3. RS!IsReply(w)
    BY <1>5, JoinedLine, Zenon
  <2> QED BY <1>1, <1>5, <2>1, <2>2, <2>3, Zenon
<1>6. /\ \A i \in 1 .. Len(<<TEXT>>) : <<TEXT>>[i] # EOL
      /\ \A i \in 1 .. Len(<<PLUS>>) : <<PLUS>>[i] # EOL
      /\ \A i \in 1 .. Len(<<MINUS, TEXT>>) : <<MINUS, TEXT>>[i] # EOL
  BY DEF TEXT, PLUS, MINUS, EOL
<1>7. <<PLUS>> # <<>> /\ <<PLUS>>[1] = PLUS /\ <<MINUS, TEXT>> # <<>> /\ <<MINUS, TEXT>>[1] = MINUS
  OBVIOUS
<1>8. ASSUME calls = add_reply_status(<<TEXT>>) PROVE RS!IsReply(FilledIn(calls) \o Added(calls))
  <2>1. OnlyProto(calls)
    BY <1>0, <1>8, StatusOnly, Zenon
  <2>2. calls = Proto(<<PLUS>>) \o Proto(<<TEXT>>) \o Proto(<<EOL>>)
    BY <1>8 DEF add_reply_status
  <2> DEFINE b == <<PLUS>>
             c == <<TEXT>>
  <2>3. /\ b \in Seq(Int) /\ c \in Seq(Int) /\ b # <<>> /\ b[1] \in {PLUS, MINUS, COLON}
        /\ \A i \in 1 .. Len(b) : b[i] # EOL
        /\ \A i \in 1 .. Len(c) : c[i] # EOL
        /\ calls = Proto(b) \o Proto(c) \o Proto(<<EOL>>)
    BY <1>0, <1>6, <1>7, <2>2
  <2> HIDE DEF b, c
  <2> QED BY <1>5, <2>1, <2>3, Zenon
<1>9. ASSUME NEW c \in Seq(Int), c # <<>>, c[1] # MINUS, \A i \in 1 .. Len(c) : c[i] # EOL,
             calls = add_reply_error_length(c)
      PROVE  RS!IsReply(FilledIn(calls) \o Added(calls))
  <2>1. OnlyProto(calls)
    BY <1>9, ErrorOnly
  <2>2. calls = Proto(<<MINUS, TEXT>>) \o Proto(c) \o Proto(<<EOL>>)
    BY <1>9 DEF add_reply_error_length
  <2> DEFINE b == <<MINUS, TEXT>>
  <2>3. /\ b \in Seq(Int) /\ b # <<>> /\ b[1] \in {PLUS, MINUS, COLON}
        /\ \A i \in 1 .. Len(b) : b[i] # EOL
        /\ calls = Proto(b) \o Proto(c) \o Proto(<<EOL>>)
    BY <1>0, <1>6, <1>7, <2>2
  <2> HIDE DEF b
  <2> QED BY <1>5, <1>9, <2>1, <2>3, Zenon
<1>10. ASSUME calls = add_reply_error_length(<<TEXT>>) PROVE RS!IsReply(FilledIn(calls) \o Added(calls))
  <2> DEFINE c == <<TEXT>>
  <2>1. c \in Seq(Int) /\ c # <<>> /\ c[1] = TEXT /\ \A i \in 1 .. Len(c) : c[i] # EOL
    BY <1>0, <1>6
  <2>2. TEXT # MINUS
    BY DEF TEXT, MINUS
  <2>3. calls = add_reply_error_length(c)
    BY <1>10
  <2> HIDE DEF c
  <2> QED BY <1>9, <2>1, <2>2, <2>3
<1>11. ASSUME NEW a \in Args, calls = add_reply_error_format(a)
       PROVE  RS!IsReply(FilledIn(calls) \o Added(calls))
  <2> DEFINE text == (<<TEXT>> \o a) \o <<TEXT>>
             c == OneLine(text)
  <2>1. text \in Seq(Int) /\ Len(text) \in Nat /\ Len(text) >= 1 /\ text[1] = TEXT
    <3>1. a \in Seq(Int) /\ TEXT \in Int
      BY DEF TEXT
    <3> QED BY <3>1
  <2>2. calls = add_reply_error_length(c)
    BY <1>11 DEF add_reply_error_format
  <2> HIDE DEF text
  <2>3. c = [i \in 1 .. Len(text) |-> IF text[i] = EOL THEN SPACE ELSE text[i]]
    BY DEF OneLine
  <2>4. TEXT # MINUS /\ TEXT # EOL /\ SPACE # EOL /\ SPACE \in Int
    BY DEF TEXT, MINUS, SPACE, EOL
  <2>5. c \in [1 .. Len(text) -> Int] /\ \A i \in 1 .. Len(text) : c[i] # EOL
    BY <2>1, <2>3, <2>4
  <2>6. c[1] = TEXT
    BY <2>1, <2>3, <2>4
  <2> HIDE DEF c
  <2>7. c \in Seq(Int) /\ Len(c) = Len(text)
    BY <2>1, <2>5, FunctionIsSeq, Zenon
  <2>8. c # <<>> /\ c[1] # MINUS /\ \A i \in 1 .. Len(c) : c[i] # EOL
    BY <2>1, <2>4, <2>5, <2>6, <2>7
  <2> QED BY <1>9, <2>2, <2>7, <2>8
<1>12. CASE calls = add_reply_help(HelpLines)
  BY <1>12, HelpIsReply
<1> QED BY <1>2, <1>3, <1>4, <1>8, <1>10, <1>11, <1>12 DEF Handlers

-----------------------------------------------------------------------------
(* A handler that runs makes of what was queued when it started that and   *)
(* one reply.                                                              *)
AddsOneReply ==
  todo # <<>> => \E r \in Seq(Int) :
                   RS!IsReply(r) /\ Total(reply, node, todo) = Contents(before) \o r

(* One reply behind what is queued is a step of ReplyStream. *)
LEMMA RespondIs ==
  ASSUME NEW c \in Seq(Int), NEW r \in Seq(Int), r # <<>>
  PROVE  /\ Len(c \o r) > Len(c)
         /\ SubSeq(c \o r, 1, Len(c)) = c
         /\ SubSeq(c \o r, Len(c) + 1, Len(c \o r)) = r
<1> DEFINE w == c \o r
           k == Len(c)
           n == Len(w)
           x == SubSeq(w, 1, k)
           y == SubSeq(w, k + 1, n)
<1>0. k \in Nat /\ Len(r) \in Nat /\ Len(r) > 0
  OBVIOUS
<1>1. w \in Seq(Int) /\ n = k + Len(r)
      /\ \A i \in 1 .. k + Len(r) : w[i] = IF i <= k THEN c[i] ELSE r[i - k]
  BY ConcatIs
<1> HIDE DEF w
<1>2. x \in Seq(Int) /\ Len(x) = k /\ \A i \in 1 .. k : x[i] = w[i]
  <2> HIDE DEF k, n
  <2>1. k \in 0 .. Len(w) /\ 1 \in 1 .. Len(w) + 1 /\ 1 <= k + 1 /\ k - 1 + 1 = k /\ \A i \in 1 .. k : 1 + i - 1 = i
    BY <1>0, <1>1 DEF n
  <2>2. x \in Seq(Int) /\ Len(x) = k - 1 + 1 /\ \A i \in 1 .. k - 1 + 1 : x[i] = w[1 + i - 1]
    BY <1>1, <2>1, SubSeqIs
  <2> HIDE DEF x
  <2> QED BY <2>1, <2>2
<1>3. y \in Seq(Int) /\ Len(y) = Len(r) /\ \A i \in 1 .. Len(r) : y[i] = w[k + i]
  <2> DEFINE j == k + 1
  <2> HIDE DEF k, n
  <2>1. j \in 1 .. Len(w) + 1 /\ n \in 0 .. Len(w) /\ j <= n + 1 /\ n - j + 1 = Len(r)
        /\ \A i \in 1 .. Len(r) : j + i - 1 = k + i
    BY <1>0, <1>1 DEF n
  <2>2. y = SubSeq(w, j, n)
    OBVIOUS
  <2> HIDE DEF y, j
  <2>3. /\ SubSeq(w, j, n) \in Seq(Int) /\ Len(SubSeq(w, j, n)) = n - j + 1
        /\ \A i \in 1 .. n - j + 1 : SubSeq(w, j, n)[i] = w[j + i - 1]
    <3>1. w \in Seq(Int) /\ j \in 1 .. Len(w) + 1 /\ n \in 0 .. Len(w) /\ j <= n + 1
      BY <1>1, <2>1
    <3> QED BY <3>1, SubSeqIs
  <2> QED BY <2>1, <2>2, <2>3
<1> HIDE DEF x, y
<1>4. \A i \in 1 .. k : x[i] = c[i]
  <2>1. \A i \in 1 .. k : i \in 1 .. k + Len(r) /\ i <= k
    BY <1>0
  <2> QED BY <1>1, <1>2, <2>1, Zenon
<1>5. \A i \in 1 .. Len(r) : y[i] = r[i]
  <2>1. \A i \in 1 .. Len(r) : k + i \in 1 .. k + Len(r) /\ ~(k + i <= k) /\ (k + i) - k = i
    BY <1>0
  <2>2. ASSUME NEW i \in 1 .. Len(r) PROVE y[i] = r[i]
    <3>1. w[k + i] = r[(k + i) - k]
      BY <1>1, <2>1
    <3> QED BY <1>3, <2>1, <3>1
  <2> QED BY <2>2
<1>6. x = c
  BY <1>2, <1>4, EqualSequences, Zenon
<1>7. y = r
  BY <1>3, <1>5, EqualSequences
<1> QED BY <1>0, <1>1, <1>6, <1>7 DEF x, y, w

(* A call that leaves the total alone: the last one of a handler adds the  *)
(* reply, the others add nothing yet.                                      *)
LEMMA CallRefines ==
  ASSUME IInv, IInv', AddsOneReply, todo # <<>>, Returns,
         Total(reply', node', todo') = Total(reply, node, todo)
  PROVE  AddsOneReply' /\ [RS!Next]_Pending
<1>1. PICK r \in Seq(Int) : RS!IsReply(r) /\ Total(reply, node, todo) = Contents(before) \o r
  BY DEF AddsOneReply
<1>2. todo \in Seq(Call) /\ todo' = Tail(todo) /\ before' = IF Len(todo) = 1 THEN <<>> ELSE before
  BY DEF Returns, IInv, TypeOK
<1>3. Pending = Contents(before) /\ Contents(before) \in Seq(Int)
  <2>1. before \in Seq(Node)
    BY DEF IInv, TypeOK, Node
  <2> QED BY <2>1, ContentsSteps DEF Pending
<1>4. CASE Len(todo) # 1
  <2>1. todo' # <<>> /\ before' = before
    <3>1. Len(todo) \in Nat /\ Len(Tail(todo)) = Len(todo) - 1
      BY <1>2, TailIs
    <3>2. Len(todo) # 0
      BY <1>2
    <3>3. Len(Tail(todo)) # 0 /\ Len(<<>>) = 0
      BY <1>4, <3>1, <3>2
    <3>4. Tail(todo) # <<>>
      BY <3>3, Zenon
    <3> QED BY <1>2, <1>4, <3>4
  <2>2. AddsOneReply'
    BY <1>1, <2>1, Zenon DEF AddsOneReply
  <2>3. Pending' = Pending
    BY <1>3, <2>1 DEF Pending
  <2> QED BY <2>2, <2>3
<1>5. CASE Len(todo) = 1
  <2>1. todo' = <<>> /\ Added(<<>>) = <<>> /\ FilledIn(<<>>) = <<>>
    BY <1>2, <1>5, AddedRest
  <2>2. node' = 0
    BY <2>1 DEF IInv, PlaceholderIsFilled
  <2>3. Contents(reply') \in Seq(Int)
    <3>1. reply' \in Seq(Node)
      BY DEF IInv, TypeOK, Node
    <3> QED BY <3>1, ContentsSteps
  <2>4. Total(reply', node', todo') = Contents(reply')
    <3>1. Total(reply', node', todo') = Contents(reply') \o (<<>> \o <<>>)
      BY <2>1, <2>2, Zenon DEF Total
    <3>2. <<>> \o <<>> = <<>> /\ Contents(reply') \o <<>> = Contents(reply')
      BY <2>3, Units
    <3> QED BY <3>1, <3>2
  <2>5. Pending' = Contents(before) \o r
    BY <1>1, <2>1, <2>4 DEF Pending
  <2>6. r # <<>>
    BY <1>1 DEF RS!IsReply
  <2> DEFINE c == Contents(before)
  <2>7. c \in Seq(Int) /\ Pending = c /\ Pending' = c \o r
    BY <1>3, <2>5
  <2> HIDE DEF c
  <2>8. /\ Len(c \o r) > Len(c)
        /\ SubSeq(c \o r, 1, Len(c)) = c
        /\ SubSeq(c \o r, Len(c) + 1, Len(c \o r)) = r
    BY <2>6, <2>7, RespondIs
  <2>9. RS!Respond
    BY <1>1, <2>7, <2>8, Zenon DEF RS!Respond
  <2>10. AddsOneReply'
    BY <2>1 DEF AddsOneReply
  <2> QED BY <2>9, <2>10 DEF RS!Next
<1> QED BY <1>4, <1>5

(* A handler starts: nothing is added yet. *)
LEMMA HandleRefines ==
  ASSUME IInv, NEW calls \in Handlers, handle(calls)
  PROVE  AddsOneReply' /\ [RS!Next]_Pending
<1>1. /\ todo = <<>> /\ todo' = calls /\ before' = reply
      /\ reply' = reply /\ node' = node
  BY DEF handle
<1>2. calls \in Seq(Call) /\ calls # <<>>
  BY HandlersOrdered DEF KeepsFirst
<1>3. node' = 0
  BY <1>1 DEF IInv, PlaceholderIsFilled
<1> DEFINE r == FilledIn(calls) \o Added(calls)
<1>4. r \in Seq(Int)
  BY <1>2, CallUnits, Units
<1>5. RS!IsReply(r)
  BY HandlerReplies
<1>6. Total(reply', node', todo') = Contents(before') \o r
  BY <1>1, <1>3 DEF Total
<1>7. AddsOneReply'
  BY <1>4, <1>5, <1>6, Zenon DEF AddsOneReply
<1>8. Pending' = Pending
  BY <1>1, <1>2 DEF Pending
<1> QED BY <1>7, <1>8

(* The library writes a block: what it holds leaves from the front. *)
LEMMA WriteRefines ==
  ASSUME IInv, write_to_client
  PROVE  AddsOneReply' /\ [RS!Next]_Pending
<1>1. /\ todo = <<>> /\ reply # <<>> /\ reply' = Tail(reply) /\ todo' = <<>>
  BY DEF write_to_client
<1>2. reply \in Seq(Node) /\ Len(reply) \in Nat /\ 1 \in 1 .. Len(reply)
  <2>1. reply \in Seq(Node)
    BY DEF IInv, TypeOK, Node
  <2> QED BY <1>1, <2>1
<1> DEFINE a == reply[1].buf
           c == Contents(Tail(reply))
<1>3. Tail(reply) \in Seq(Node) /\ Len(Tail(reply)) = Len(reply) - 1
      /\ \A i \in 1 .. Len(Tail(reply)) : Tail(reply)[i] = reply[i + 1]
  BY <1>1, <1>2, TailIs
<1>4. a \in Seq(Int) /\ c \in Seq(Int)
  <2>1. reply[1] \in Node
    BY <1>2
  <2> QED BY <1>3, <2>1, ContentsSteps, Zenon DEF Node
<1>5. Contents(reply) = a \o c
  <2>1. Contents(reply) = (Contents(Ahead(reply, 1)) \o a) \o Contents(Behind(reply, 1))
    <3>1. reply[1] \in Node
      BY <1>2
    <3> QED BY <1>2, <3>1, ContentsAt
  <2> DEFINE x == Ahead(reply, 1)
             y == Behind(reply, 1)
             z == Tail(reply)
  <2>2. /\ x \in Seq(Node) /\ Len(x) = 1 - 1
        /\ y \in Seq(Node) /\ Len(y) = Len(reply) - 1
        /\ \A i \in 1 .. Len(reply) - 1 : y[i] = reply[1 + i]
    <3>1. 1 \in 0 .. Len(reply) /\ 1 # 0
      BY <1>2
    <3> QED BY <1>2, <3>1, Parts
  <2>3. z \in Seq(Node) /\ Len(z) = Len(reply) - 1 /\ \A i \in 1 .. Len(reply) - 1 : z[i] = reply[i + 1]
    BY <1>3
  <2> HIDE DEF x, y, z
  <2>4. x = <<>>
    BY <2>2
  <2>5. \A i \in 1 .. Len(reply) - 1 : 1 + i = i + 1
    BY <1>2
  <2>6. \A i \in 1 .. Len(reply) - 1 : y[i] = z[i]
    BY <2>2, <2>3, <2>5
  <2>7. y = z
    BY <2>2, <2>3, <2>6, EqualSequences
  <2>8. <<>> \o a = a
    BY <1>4, Units
  <2> QED BY <2>1, <2>4, <2>7, <2>8, ContentsSteps, Zenon DEF x, y, z
<1>6. Pending = a \o c /\ Pending' = c
  BY <1>1, <1>5 DEF Pending
<1>7. AddsOneReply'
  BY <1>1 DEF AddsOneReply
<1> HIDE DEF a, c
<1>8. CASE a = <<>>
  <2>1. <<>> \o c = c
    BY <1>4, Units
  <2> QED BY <1>6, <1>7, <1>8, <2>1
<1>9. CASE a # <<>>
  <2>1. Len(a) \in 1 .. Len(a \o c) /\ SubSeq(a \o c, Len(a) + 1, Len(a \o c)) = c
    <3>1. Len(a \o c) = Len(a) + Len(c) /\ Len(a) \in Nat /\ Len(c) \in Nat /\ Len(a) >= 1
      <4>1. Len(a \o c) = Len(a) + Len(c)
        BY <1>4, Units
      <4> QED BY <1>4, <1>9, <4>1
    <3>2. Len(a) \in 1 .. Len(a \o c)
      BY <3>1
    <3>3. CASE c # <<>>
      BY <1>4, <3>2, <3>3, RespondIs
    <3>4. CASE c = <<>>
      <4>1. a \o c = a
        BY <1>4, <3>4, Units
      <4>2. SubSeq(a, Len(a) + 1, Len(a)) = <<>>
        BY <1>4
      <4> QED BY <3>2, <3>4, <4>1, <4>2
    <3> QED BY <3>3, <3>4
  <2>2. RS!Write
    BY <1>6, <2>1, Zenon DEF RS!Write
  <2> QED BY <1>7, <2>2 DEF RS!Next
<1> QED BY <1>8, <1>9

(* Whatever the sizes of the blocks, what the allocator gives and which    *)
(* neighbour of a placeholder takes a length: every handler of             *)
(* client_reply.c adds exactly one RESP reply, and it leaves in order.     *)
THEOREM RepliesAreAStream == Spec => ImplementsReplyStream
<1>1. Init => RS!Init /\ AddsOneReply
  BY ContentsSteps DEF Init, RS!Init, Pending, AddsOneReply
<1>2. IInv /\ IInv' /\ AddsOneReply /\ [Next]_vars => AddsOneReply' /\ [RS!Next]_Pending
  <2> SUFFICES ASSUME IInv, IInv', AddsOneReply, [Next]_vars
               PROVE  AddsOneReply' /\ [RS!Next]_Pending
    OBVIOUS
  <2>1. CASE \E calls \in Handlers : handle(calls)
    BY <2>1, HandleRefines
  <2>2. ASSUME NEW x \in Slack, add_reply_proto(x) PROVE AddsOneReply' /\ [RS!Next]_Pending
    <3>1. todo # <<>> /\ Returns
      BY <2>2 DEF add_reply_proto, Calling
    <3> QED BY <2>2, <3>1, ProtoTotal, CallRefines
  <2>3. ASSUME NEW x \in Slack, add_reply_deferred_len(x) PROVE AddsOneReply' /\ [RS!Next]_Pending
    <3>1. todo # <<>> /\ Returns
      BY <2>3 DEF add_reply_deferred_len, Calling
    <3> QED BY <2>3, <3>1, DeferredTotal, CallRefines
  <2>4. ASSUME NEW x \in Slack, set_deferred_reply(x) PROVE AddsOneReply' /\ [RS!Next]_Pending
    <3>1. todo # <<>> /\ Returns
      BY <2>4 DEF set_deferred_reply, Calling
    <3> QED BY <2>4, <3>1, SetTotal, CallRefines
  <2>5. CASE write_to_client
    BY <2>5, WriteRefines
  <2>6. CASE UNCHANGED vars
    BY <2>6 DEF vars, AddsOneReply, Pending
  <2> QED BY <2>1, <2>2, <2>3, <2>4, <2>5, <2>6 DEF Next
<1> QED
  BY <1>1, <1>2, ReplyInit, ReplyNextPreserves, PTL DEF Spec, ImplementsReplyStream, RS!Spec
=============================================================================

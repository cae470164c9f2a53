--------------------------- MODULE CompanionCodec ---------------------------
(***************************************************************************)
(* Frames of the companion protocol (meshstar-companion/src/lib.rs): the   *)
(* writer W and the reader R, the layout of every request and response,    *)
(* and the Framer that cuts the byte stream of the link into frames.       *)
(*                                                                         *)
(* A stream is a sequence of symbols.  A symbol is a byte, or an integer   *)
(* of any width: what is split in the middle of an integer reads like what *)
(* is split before it.  Bytes that matter have their own values: START,    *)
(* and LEAD, which with START as second byte makes one UTF-8 character.    *)
(* The value of a field is a sequence of symbols; addresses are shorter    *)
(* than the real ones.                                                     *)
(***************************************************************************)
EXTENDS Integers, Sequences, SequencesExt, FiniteSets

CONSTANTS MaxFrame,  \* the Framer's max
          MaxStr     \* the most bytes of a string (255)

ASSUME CodecAssumption == {MaxFrame, MaxStr} \subseteq Nat \ {0}

START == 170
LEAD == 194

Native == 0
Modes == 0 .. 3      \* native, MeshCore, Meshtastic, scan

\* Lengths of an identity on each of the three networks.
IdLens(p) == CASE p = 0 -> {2} [] p = 1 -> {1} [] p = 2 -> 1 .. 3 [] OTHER -> {}

\* op applied n times, from the left.
Iterate(op(_, _), base, n) ==
    LET f[i \in 0 .. n] == IF i = 0 THEN base ELSE op(f[i - 1], i)
    IN  f[n]

-----------------------------------------------------------------------------
(* Layouts: the leading symbols of a frame, and the kinds of its fields    *)

settings == <<"str", "num", "num", "num", "mode", "num">>

Request ==
    [GetInfo      |-> [code |-> <<1>>, fields |-> <<>>],
     GetNodes     |-> [code |-> <<2>>, fields |-> <<>>],
     SendText     |-> [code |-> <<3>>, fields |-> <<"id", "num", "str">>],
     GetNetworks  |-> [code |-> <<4>>, fields |-> <<>>],
     SetMode      |-> [code |-> <<5>>, fields |-> <<"mode">>],
     GetStatus    |-> [code |-> <<6>>, fields |-> <<>>],
     SetName      |-> [code |-> <<7>>, fields |-> <<"str">>],
     SetRole      |-> [code |-> <<8>>, fields |-> <<"num">>],
     Announce     |-> [code |-> <<9>>, fields |-> <<>>],
     GetMessages  |-> [code |-> <<10>>, fields |-> <<"num">>],
     SetTime      |-> [code |-> <<11>>, fields |-> <<"num">>],
     Reboot       |-> [code |-> <<12>>, fields |-> <<>>],
     Ping         |-> [code |-> <<13>>, fields |-> <<"num">>],
     GetSettings  |-> [code |-> <<14>>, fields |-> <<>>],
     SetSettings  |-> [code |-> <<15>>, fields |-> settings],
     SetPosition  |-> [code |-> <<16>>, fields |-> <<"num", "num">>],
     Trace        |-> [code |-> <<17>>, fields |-> <<"id">>],
     SendImage    |-> [code |-> <<18>>, fields |-> <<"id", "num", "bytes">>],
     SetProfilePhoto |-> [code |-> <<19>>, fields |-> <<"bytes">>]]

Response ==
    [Info         |-> [code |-> <<129>>, fields |-> <<"num", "str", "id", "key", "num", "str">>
                                                     \o <<"num", "num", "num", "num", "num", "num">>],
     Node         |-> [code |-> <<130>>, fields |-> <<"id", "str", "num", "num", "num", "num">>
                                                     \o <<"num", "num", "num_or", "num_or">>],
     SendResult   |-> [code |-> <<131>>, fields |-> <<"num", "num", "num">>],
     Message      |-> [code |-> <<132>>, fields |-> <<"num", "id", "str", "str", "str", "num">>
                                                     \o <<"num", "num", "num", "num", "str_or">>],
     DeliveryUpdate |-> [code |-> <<133>>, fields |-> <<"num", "delivery", "num">>],
     Network      |-> [code |-> <<134>>, fields |-> <<"num", "str", "num", "num", "num", "num">>],
     Status       |-> [code |-> <<135>>, fields |-> <<"mode">> \o [i \in 1 .. 11 |-> "num"]],
     NeighborUp   |-> [code |-> <<136, 1>>, fields |-> <<"id">>],
     NeighborDown |-> [code |-> <<136, 2>>, fields |-> <<"id">>],
     SessionEstablished |-> [code |-> <<136, 3>>, fields |-> <<"id">>],
     RouteFound   |-> [code |-> <<136, 4>>, fields |-> <<"id", "num">>],
     RouteLost    |-> [code |-> <<136, 5>>, fields |-> <<"id">>],
     ModeChanged  |-> [code |-> <<136, 6>>, fields |-> <<"mode">>],
     Settings     |-> [code |-> <<137>>, fields |-> settings],
     Trace        |-> [code |-> <<138>>, fields |-> <<"id", "num", "num", "ids">>],
     Image        |-> [code |-> <<139>>, fields |-> <<"num", "id", "str", "num", "num", "num">>
                                                     \o <<"num", "bytes">>],
     Pong         |-> [code |-> <<141>>, fields |-> <<"num">>],
     End          |-> [code |-> <<143>>, fields |-> <<"num">>],
     Error        |-> [code |-> <<255>>, fields |-> <<"num", "str">>]]

-----------------------------------------------------------------------------
(* The writer                                                              *)

\* START is a continuation byte, LEAD the one lead byte that occurs here.
Utf8(s) == \A i \in DOMAIN s : /\ s[i] = START => i > 1 /\ s[i - 1] = LEAD
                               /\ s[i] = LEAD => i < Len(s) /\ s[i + 1] = START

\* Cut on a character boundary.
Cut(s) == LET n == IF Len(s) < MaxStr THEN Len(s) ELSE MaxStr
          IN  IF n > 0 /\ n < Len(s) /\ s[n] = LEAD THEN n - 1 ELSE n

WriteId(v) == <<v[1], Len(v) - 1>> \o Tail(v)

Write(kind, v) ==
    CASE kind \in {"str", "str_or"} -> <<Cut(v)>> \o SubSeq(v, 1, Cut(v))
      [] kind \in {"bytes", "key"} -> <<Len(v)>> \o v
      [] kind = "id" -> WriteId(v)
      [] kind = "ids" -> <<Len(v) \div 2>>
                         \o FlattenSeq([i \in 1 .. Len(v) \div 2 |-> WriteId(<<0, v[2 * i - 1], v[2 * i]>>)])
      [] OTHER -> v

body(layouts, m) ==
    layouts[m.type].code
      \o FlattenSeq([i \in DOMAIN m.vals |-> Write(layouts[m.type].fields[i], m.vals[i])])

encode(layouts, m) == LET b == body(layouts, m) IN <<START, Len(b)>> \o b

-----------------------------------------------------------------------------
(* The reader: what a field takes off the front of s, or a failure         *)

Failed == [ok |-> FALSE, v |-> <<>>, rest |-> <<>>]
Took(v, rest) == [ok |-> TRUE, v |-> v, rest |-> rest]

take(s, n) == IF Len(s) < n THEN Failed ELSE Took(SubSeq(s, 1, n), SubSeq(s, n + 1, Len(s)))

Counted(s) == LET n == take(s, 1) IN IF n.ok THEN take(n.rest, n.v[1]) ELSE Failed

Only(r, good) == IF r.ok /\ good THEN r ELSE Failed

ReadId(s) ==
    LET p == take(s, 1)
        b == Counted(p.rest)
    IN  IF p.ok /\ b.ok /\ Len(b.v) \in {0} \cup IdLens(p.v[1])
        THEN Took((IF p.v[1] \in 0 .. 2 THEN p.v ELSE <<255>>) \o b.v, b.rest)
        ELSE Failed

\* Hop ids: only their addresses are kept, and only MeshStar nodes relay.
ReadIds(s) ==
    LET n == take(s, 1)
        more(acc, i) == LET r == ReadId(acc.rest)
                        IN  IF acc.ok /\ r.ok THEN Took(acc.v \o Tail(r.v), r.rest) ELSE Failed
    IN  IF n.ok THEN Iterate(more, Took(<<>>, n.rest), n.v[1]) ELSE Failed

Read(kind, s) ==
    CASE kind = "num" -> take(s, 1)
      [] kind = "mode" -> LET r == take(s, 1) IN Only(r, r.ok /\ r.v[1] \in Modes)
      [] kind = "delivery" -> LET r == take(s, 1) IN Only(r, r.ok /\ r.v[1] \in 0 .. 5)
      [] kind = "num_or" -> IF s = <<>> THEN Took(<<0>>, s) ELSE take(s, 1)
      [] kind = "str" -> LET r == Counted(s) IN Only(r, Utf8(r.v))
      [] kind = "str_or" -> LET r == Counted(s) IN IF r.ok /\ Utf8(r.v) THEN r ELSE Took(<<>>, <<>>)
      [] kind = "bytes" -> Counted(s)
      [] kind = "key" -> LET r == Counted(s) IN Only(r, Len(r.v) = 1)
      [] kind = "id" -> ReadId(s)
      [] kind = "ids" -> ReadIds(s)

Undecodable == [type |-> "DecodeError", vals |-> <<>>]

\* Trailing symbols are tolerated.
decode(layouts, b) ==
    LET types == {t \in DOMAIN layouts : IsPrefix(layouts[t].code, b)}
        t == CHOOSE x \in types : TRUE
        field(acc, i) == LET r == Read(layouts[t].fields[i], acc.rest)
                         IN  IF acc.ok /\ r.ok THEN Took(Append(acc.v, r.v), r.rest) ELSE Failed
    IN  IF types = {} THEN Undecodable
        ELSE LET read == Iterate(field, Took(<<>>, SubSeq(b, Len(layouts[t].code) + 1, Len(b))), Len(layouts[t].fields))
             IN  IF read.ok THEN [type |-> t, vals |-> read.v] ELSE Undecodable

DecodeRequest(b) == decode(Request, b)
DecodeResponse(b) == decode(Response, b)
EncodeRequest(r) == encode(Request, r)
EncodeResponse(r) == encode(Response, r)

-----------------------------------------------------------------------------
(* The Framer                                                              *)

\* Up to the first START; nothing when there is none.
Resync(s) == IF \E i \in DOMAIN s : s[i] = START
             THEN SubSeq(s, SelectInSeq(s, LAMBDA b : b = START), Len(s))
             ELSE <<>>

IsHeader(s) == s[2] > 0 /\ s[2] <= MaxFrame

FramerTurn_DropsRest(f) ==      \* mutant: the buffer is emptied after a frame
    LET s == Resync(f.buf)
    IN  IF f.done \/ Len(s) < 2 THEN [f EXCEPT !.buf = s, !.done = TRUE]
        ELSE IF ~IsHeader(s) THEN [f EXCEPT !.buf = Tail(s)]
        ELSE IF Len(s) < 2 + s[2] THEN [f EXCEPT !.buf = s, !.done = TRUE]
        ELSE [f EXCEPT !.buf = <<>>, !.out = Append(@, SubSeq(s, 3, 2 + s[2]))]

\* One turn of the loop: a frame is cut off, a false start is skipped, or
\* the loop ends because the rest is still to come.
FramerTurn(f) ==
    LET s == Resync(f.buf)
    IN  IF f.done \/ Len(s) < 2 THEN [f EXCEPT !.buf = s, !.done = TRUE]
        ELSE IF ~IsHeader(s) THEN [f EXCEPT !.buf = Tail(s)]
        ELSE IF Len(s) < 2 + s[2] THEN [f EXCEPT !.buf = s, !.done = TRUE]
        ELSE [f EXCEPT !.buf = SubSeq(s, 3 + s[2], Len(s)), !.out = Append(@, SubSeq(s, 3, 2 + s[2]))]

\* Every turn but the last consumes a START.
push(buf, bytes) ==
    LET s == buf \o bytes
        turns == 1 + Cardinality({i \in DOMAIN s : s[i] = START})
    IN  Iterate(LAMBDA f, i : FramerTurn(f), [buf |-> s, out |-> <<>>, done |-> FALSE], turns)

\* chunks: what one packet of n symbols carries, and what is left for the next.
Chunk(s, n) == SubSeq(s, 1, IF Len(s) < n THEN Len(s) ELSE n)
AfterChunk(s, n) == SubSeq(s, n + 1, Len(s))
=============================================================================

------------------------- MODULE FragmentedSession -------------------------
(***************************************************************************)
(* A session direction whose long messages travel in fragments:            *)
(* send_session_packet (node/tx.rs) seals a message and splits it,         *)
(* open_session_payload (node/rx.rs) reassembles and opens it, with the    *)
(* bounded Reassembler of fragmentation/mod.rs in between.                 *)
(*                                                                         *)
(* Lengths are in units of a few bytes.  A packet may arrive any number of *)
(* times (the seen cache forgets), damaged or not, in any order, or never; *)
(* the reassembler also serves another node, of which one fragment comes.  *)
(* air is the set of the frames that were sealed.                          *)
(***************************************************************************)
EXTENDS SessionTransport, Sequences, FiniteSets, Functions

CONSTANTS Lengths,     \* the lengths each sealed message, and one refused, may have
          Single,      \* max_payload: what one packet carries
          Chunk,       \* what a fragment carries: Single less the sub-header
          MaxFrags,    \* 255, the widest total
          FragSpace,   \* 2^16 fragment ids
          MaxSets,     \* ReassemblyConfig::max_sets
          MaxBytes,    \* ReassemblyConfig::max_bytes
          Peer, Other  \* the sender of the session, and another node

ASSUME FragmentAssumption ==
    /\ {Single, Chunk, MaxFrags, FragSpace, MaxSets, MaxBytes} \subseteq Nat \ {0}
    /\ Chunk < Single /\ Peer # Other
    /\ Lengths \in [0 .. COUNTER_REKEY_THRESHOLD -> SUBSET (Nat \ {0})]

VARIABLES frag_id,     \* the sender's last fragment id
          packets,     \* what was transmitted
          sets,        \* Reassembler.sets, in the order they were started
          bytes,       \* Reassembler.bytes
          came,        \* history: intact fragments that came of messages neither handed nor excused
          excused      \* history: messages that lost a fragment to a limit, a timeout or a clash

fragVars == <<frag_id, packets, sets, bytes, came, excused>>

Whole == -1    \* no fragment id

Unknown == [ctr |-> 0, plain |-> -1, intact |-> TRUE]

Fragment(src, fid, index, total, size, frame) ==
    [src |-> src, fid |-> fid, index |-> index, total |-> total, size |-> size, of |-> frame]

\* split: full chunks and a last one with the rest.
Total(len) == (len + Chunk - 1) \div Chunk

split(fid, len, frame) ==
    {Fragment(Peer, fid, i, Total(len), IF i < Total(len) - 1 THEN Chunk ELSE len - Chunk * i, frame) :
        i \in 0 .. Total(len) - 1}

FragInit ==
    /\ Init
    /\ frag_id \in 0 .. FragSpace - 1
    /\ packets = {Fragment(Other, 1, 0, 2, Chunk, Unknown)}
    /\ sets = <<>> /\ bytes = 0
    /\ came = {} /\ excused = {}

\* send_session_packet.  The id is taken before encrypt may refuse, and the
\* counter before split may find the message too large.
send_session_packet(len) ==
    LET frame == [ctr |-> WireCounter(send_ctr), plain |-> send_ctr, intact |-> TRUE]
        fragmented == len > Single
    IN /\ frag_id' = IF fragmented THEN (frag_id + 1) % FragSpace ELSE frag_id
       /\ \/ send_ctr >= COUNTER_REKEY_THRESHOLD /\ UNCHANGED <<vars, packets>>
          \/ /\ encrypt
             /\ packets' = packets \cup
                    IF ~fragmented THEN {Fragment(Peer, Whole, 0, 1, len, frame)}
                    ELSE IF Total(len) > MaxFrags THEN {}
                    ELSE split(frag_id', len, frame)
       /\ UNCHANGED <<sets, bytes, came, excused>>

-----------------------------------------------------------------------------
(* Reassembler.  A set maps the indices that came to their pieces.         *)

Key(p) == <<p.src, p.fid>>
Has(ss, k) == \E i \in DOMAIN ss : ss[i].key = k
IndexOf(ss, k) == CHOOSE i \in DOMAIN ss : ss[i].key = k

Without(ss, i) == SubSeq(ss, 1, i - 1) \o SubSeq(ss, i + 1, Len(ss))

NewSet(p) == [key |-> Key(p), total |-> p.total, parts |-> <<>>, bytes |-> 0]

\* Mutant: an evicted set keeps its share of the budget.
evict_oldest_Leaks(rs) == [rs EXCEPT !.sets = Tail(@)]

evict_oldest(rs) == [sets |-> Tail(rs.sets), bytes |-> rs.bytes - Head(rs.sets).bytes]

\* Mutant: a full table makes room before it looks for the set.
Started_EvictsFirst(rs, p) ==
    LET room == IF Len(rs.sets) >= MaxSets THEN evict_oldest(rs) ELSE rs
    IN IF Has(room.sets, Key(p)) THEN room
       ELSE [sets |-> Append(room.sets, NewSet(p)), bytes |-> room.bytes]

\* The set of p, started if need be.
Started(rs, p) ==
    LET room == IF Len(rs.sets) >= MaxSets THEN evict_oldest(rs) ELSE rs
    IN IF Has(rs.sets, Key(p)) THEN rs
       ELSE [sets |-> Append(room.sets, NewSet(p)), bytes |-> room.bytes]

\* push: the reassembler afterwards, and the pieces of a set that is complete.
push(rs, p) ==
    LET now == Started(rs, p)
        i == IndexOf(now.sets, Key(p))
        set == now.sets[i]
        parts == [j \in DOMAIN set.parts \cup {p.index} |-> IF j = p.index THEN p ELSE set.parts[j]]
        Dropped == [sets |-> Without(now.sets, i), bytes |-> now.bytes - set.bytes]
        larger == [key |-> Key(p), total |-> p.total, parts |-> parts, bytes |-> set.bytes + p.size]
        Grown == [sets |-> [now.sets EXCEPT ![i] = larger], bytes |-> now.bytes + p.size]
    IN CASE set.total # p.total -> [rs |-> Dropped, full |-> <<>>]
         [] set.total = p.total /\ p.index \in DOMAIN set.parts -> [rs |-> now, full |-> <<>>]
         [] OTHER ->
              IF now.bytes + p.size > MaxBytes THEN [rs |-> Dropped, full |-> <<>>]
              ELSE IF Cardinality(DOMAIN parts) = set.total THEN [rs |-> Dropped, full |-> parts]
              ELSE [rs |-> Grown, full |-> <<>>]

-----------------------------------------------------------------------------
(* Which messages may lose a fragment, from what the sets really hold.     *)

MessagesIn(set) == {set.parts[i].of.plain : i \in DOMAIN set.parts} \ {Unknown.plain}
SizeOf(set) == SumFunction([i \in DOMAIN set.parts |-> set.parts[i].size])
Held(ss) == SumFunction([i \in DOMAIN ss |-> SizeOf(ss[i])])

\* The oldest set gives way to a new one; pieces of two messages meet in a
\* set; a piece comes when its slot is taken, or when there is no room.
Harmed(p) ==
    LET crowded == ~Has(sets, Key(p)) /\ Len(sets) >= MaxSets
        ss == IF crowded THEN Tail(sets) ELSE sets
        set == IF Has(sets, Key(p)) THEN sets[IndexOf(sets, Key(p))] ELSE NewSet(p)
        taken == p.index \in DOMAIN set.parts
        clash == set.total # p.total \/ (~taken /\ \E i \in DOMAIN set.parts : set.parts[i].of # p.of)
        own == {p.of.plain} \ {Unknown.plain}
    IN (IF crowded THEN MessagesIn(Head(sets)) ELSE {}) \cup
       (IF clash \/ (~taken /\ Held(ss) + p.size > MaxBytes) THEN own \cup MessagesIn(set)
        ELSE IF taken /\ p.of.intact /\ set.parts[p.index].of # p.of THEN own ELSE {})

-----------------------------------------------------------------------------
\* Session::decrypt of what was put together: pieces of one frame, or of
\* several, which do not authenticate (the fragment id is bound as well).
Open(pieces) ==
    LET frames == {pieces[i].of : i \in DOMAIN pieces}
    IN IF Cardinality(frames) = 1 THEN \A f \in frames : decrypt(f) \/ decryptFails(f)
       ELSE UNCHANGED vars

\* on_radio_rx up to open_session_payload, for a packet that was damaged or
\* not.
open_session_payload(q, intact) ==
    LET p == Fragment(q.src, q.fid, q.index, q.total, q.size,
                      [ctr |-> q.of.ctr, plain |-> q.of.plain, intact |-> intact])
        done == push([sets |-> sets, bytes |-> bytes], p)
        gone == excused \cup Harmed(p)
    IN /\ IF p.fid = Whole
          THEN Open(<<p>>) /\ UNCHANGED <<sets, bytes, came, excused>>
          ELSE /\ sets' = done.rs.sets /\ bytes' = done.rs.bytes
               /\ IF p.src = Peer /\ DOMAIN done.full # {} THEN Open(done.full) ELSE UNCHANGED vars
               /\ excused' = gone
               /\ came' = {c \in came \cup (IF intact /\ q.src = Peer THEN {<<q.of.plain, q.index>>} ELSE {}) :
                             c[1] \notin gone /\ \A i \in DOMAIN done.full : done.full[i].of.plain # c[1]}
       /\ UNCHANGED <<frag_id, packets>>

\* Reassembler::expire: the sets that were started more than the timeout ago.
expire(n) ==
    LET stale == SubSeq(sets, 1, n)
    IN /\ sets' = SubSeq(sets, n + 1, Len(sets))
       /\ bytes' = bytes - SumFunction([i \in 1 .. n |-> sets[i].bytes])
       /\ excused' = excused \cup UNION {MessagesIn(s) : s \in Range(stale)}
       /\ came' = {c \in came : c[1] \notin excused'}
       /\ UNCHANGED <<vars, frag_id, packets>>

\* Bound: one damaged piece is held at a time.
NoneDamaged == \A set \in Range(sets) : \A i \in DOMAIN set.parts : set.parts[i].of.intact

FragNext ==
    \/ \E len \in Lengths[send_ctr] : send_session_packet(len)
    \/ \E q \in packets : open_session_payload(q, TRUE)
    \/ \E q \in packets : NoneDamaged /\ open_session_payload(q, FALSE)
    \/ \E n \in DOMAIN sets : expire(n)

FragSpec == FragInit /\ [][FragNext]_<<vars, fragVars>>
-----------------------------------------------------------------------------
(* Properties                                                              *)

\* The reassembler's byte count is what it holds, whichever way sets left
\* (push has four, expire a fifth), and stays within both limits: a count
\* that leaks would refuse every long message in the end, one that runs
\* below would wrap.
HeldWithinLimits ==
    /\ bytes = Held(sets) /\ bytes <= MaxBytes
    /\ Len(sets) <= MaxSets

\* No message waits although all its fragments came: it has been handed to
\* the session, unless the timeout, a limit or another message under its id
\* took one of them.
Reassembled ==
    \A p \in packets : p.fid # Whole => \E i \in 0 .. p.total - 1 : <<p.of.plain, i>> \notin came
=============================================================================

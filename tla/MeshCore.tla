------------------------------ MODULE MeshCore ------------------------------
(***************************************************************************)
(* The MeshCore adapter (meshstar-protocols/src/meshcore): packet framing, *)
(* adverts, the text and data formats, encryption, detection, decoding,    *)
(* encoding and replies.                                                   *)
(*                                                                         *)
(* A payload is the record of its fields with its length n in bytes.       *)
(* Encryption is symbolic: a sealed blob opens under its own secret only   *)
(* (a chance match of the two-byte MAC is left out).  One-byte hashes do   *)
(* collide: Prefix and KeyHash map keys to few values.                     *)
(***************************************************************************)
EXTENDS UnifiedMessage

CONSTANTS Prefix,    \* first byte of a node's public key
          KeyHash    \* hash byte of a channel key

MAX_TRANS_UNIT == 255
MAX_PACKET_PAYLOAD == 184
MAX_PATH_SIZE == 64
MAX_HOP_COUNT == 63
MAX_TEXT_LEN == 160
MAX_GROUP_DATA_LENGTH == 165
MAX_ADVERT_DATA_SIZE == 32
ADVERT_MIN_LEN == 100
MAC == 2
BLOCK == 16

-----------------------------------------------------------------------------
(* Encryption                                                              *)

\* group_secret: a channel key of 16 or 32 bytes.
group_secret(key) == IF KeyLen[key] \in {16, 32} THEN Some([group |-> key]) ELSE None

\* ed25519_key_exchange: the same secret at both ends.
shared_secret(a, b) == [pair |-> {a, b}]

\* encrypt_then_mac: zero padding to whole blocks, MAC in front.
encrypt_then_mac(secret, plain) ==
    [secret |-> secret, plain |-> plain, n |-> MAC + BLOCK * ((plain.n + BLOCK - 1) \div BLOCK)]

mac_then_decrypt(secret, blob) ==
    IF blob.n > MAC /\ (blob.n - MAC) % BLOCK = 0 /\ blob.secret = secret
    THEN Some(blob.plain) ELSE None

max_plaintext_for(budget) == ((budget - MAC) \div BLOCK) * BLOCK

ack_code(plain, key) == [ts |-> plain.ts, body |-> plain.body, key |-> key]

-----------------------------------------------------------------------------
(* Message formats                                                         *)

\* The text up to the terminating NUL.
UpToNul(body) ==
    IF Contains(body, Nul)
    THEN SubSeq(body, 1, (CHOOSE i \in 1..Len(body) :
                            body[i] = Nul /\ \A j \in 1..(i - 1) : body[j] # Nul) - 1)
    ELSE body

\* compose_text_plain: a NUL inside the text would cut it, so it is refused.
compose_text_plain(ts, txt_type, text) ==
    IF Bytes(text) > MAX_TEXT_LEN \/ Contains(text, Nul) THEN None
    ELSE Some([ts |-> ts, txt_type |-> txt_type, body |-> Append(text, Nul), n |-> 6 + Bytes(text)])

\* parse_text_plain; what the ACK hash covers excludes the NUL.
parse_text_plain(plain) ==
    [ts |-> plain.ts, txt_type |-> plain.txt_type, text |-> UpToNul(plain.body),
     covered |-> [ts |-> plain.ts, body |-> UpToNul(plain.body)]]

\* compose_group_text: "name: text".
compose_group_text(ts, name, text) ==
    IF \/ Bytes(name) + 2 + Bytes(text) > MAX_TEXT_LEN
       \/ Contains(name, Nul) \/ Contains(text, Nul)
    THEN None
    ELSE Some([ts |-> ts, txt_type |-> "plain", body |-> name \o <<Sep>> \o text,
               n |-> 5 + Bytes(name) + 2 + Bytes(text)])

\* parse_group_text: the sender's name ends at the first ": ".
parse_group_text(plain) ==
    LET t == parse_text_plain(plain).text IN
    IF Contains(t, Sep)
    THEN LET i == CHOOSE k \in 1..Len(t) : t[k] = Sep /\ \A j \in 1..(k - 1) : t[j] # Sep
         IN [ts |-> plain.ts, name |-> Some(SubSeq(t, 1, i - 1)), text |-> SubSeq(t, i + 1, Len(t))]
    ELSE [ts |-> plain.ts, name |-> None, text |-> t]

compose_group_data(data) ==
    IF Bytes(data) > MAX_GROUP_DATA_LENGTH THEN None
    ELSE Some([body |-> data, n |-> 3 + Bytes(data)])

\* parse_group_data: the declared length keeps the zero padding out.
parse_group_data(plain) == plain.body

\* looks_like_text, of what parse_group_text finds.
looks_like_text(t) == t # <<>> /\ ~Contains(t, Nul)

\* build_group_datagram
build_group_datagram(secret, plain) ==
    IF plain.n > max_plaintext_for(MAX_PACKET_PAYLOAD - 3) THEN None
    ELSE LET blob == encrypt_then_mac(secret, plain)
         IN Some([hash |-> KeyHash[secret.group], blob |-> blob, n |-> 1 + blob.n])

\* build_datagram
build_datagram(secret, dest, src, plain) ==
    IF plain.n > max_plaintext_for(MAX_PACKET_PAYLOAD - 4) THEN None
    ELSE LET blob == encrypt_then_mac(secret, plain)
         IN Some([dest |-> dest, src |-> src, blob |-> blob, n |-> 2 + blob.n])

is_ack_len(n) == n \in {4, 6}

-----------------------------------------------------------------------------
(* Adverts                                                                 *)

\* AdvertData::encode: the name gets the room the position leaves; a cut name
\* is another name.
AdvertData(name, located) ==
    LET room == MAX_ADVERT_DATA_SIZE - (IF located THEN 9 ELSE 1) IN
    [name |-> IF Bytes(name) <= room THEN Some(name) ELSE None, located |-> located,
     n |-> MAX_ADVERT_DATA_SIZE - room + (IF Bytes(name) <= room THEN Bytes(name) ELSE room)]

\* Advert::build and encode: signed over key, timestamp and data.
Advert(key, ts, data) ==
    [key |-> key, ts |-> ts, data |-> data, sig |-> [by |-> key, ts |-> ts, data |-> data],
     n |-> ADVERT_MIN_LEN + data.n]

\* Advert::verify
Verifies(adv) == adv.sig = [by |-> adv.key, ts |-> adv.ts, data |-> adv.data]

-----------------------------------------------------------------------------
(* Packets                                                                 *)

Flood == "FLOOD"
Direct == "DIRECT"
GroupTypes == {"GRP_TXT", "GRP_DATA"}
DatagramTypes == {"TXT_MSG", "REQ", "RESPONSE", "PATH"}

Packet(route, ptype, payload) ==
    [net |-> "meshcore", route |-> route, ptype |-> ptype, codes |-> FALSE,
     hash_size |-> 1, path |-> <<>>, payload |-> payload]

\* raw_len, with the path_len byte and the header byte.
raw_len(p) == 2 + Len(p.path) * p.hash_size + p.payload.n + (IF p.codes THEN 4 ELSE 0)

\* encode_path_len and decode_path_len accept the same paths.
PathFits(hops, hash_size) ==
    hops <= MAX_HOP_COUNT /\ hash_size \in 1..3 /\ hops * hash_size <= MAX_PATH_SIZE

\* Packet::encode
Encode(p) ==
    IF p.payload.n \in 1..MAX_PACKET_PAYLOAD /\ PathFits(Len(p.path), p.hash_size)
       /\ raw_len(p) <= MAX_TRANS_UNIT
    THEN Some(p) ELSE None

\* Packet::parse
Parses(p) ==
    /\ raw_len(p) \in 3..MAX_TRANS_UNIT
    /\ PathFits(Len(p.path), p.hash_size)
    /\ p.payload.n \in 1..MAX_PACKET_PAYLOAD

\* packet_hash: neither the route nor the path of a packet is part of it.
packet_hash(p) == [ptype |-> p.ptype, payload |-> p.payload]

-----------------------------------------------------------------------------
(* Encoding                                                                *)

\* local_key; the secret of another network's identity is another key.
HasKey(ctx) == IsSome(ctx.local) /\ Unwrap(ctx.local).secret /\ Unwrap(ctx.local).net = "meshcore"

Timestamp(msg, ctx) == IF IsSome(msg.ts) THEN Unwrap(msg.ts) ELSE ctx.unix

\* find: the first channel that satisfies P.
FirstChannel(ctx, P(_)) ==
    IF \E i \in 1..Len(ctx.channels) : P(ctx.channels[i])
    THEN Some(ctx.channels[CHOOSE i \in 1..Len(ctx.channels) :
                P(ctx.channels[i]) /\ \A j \in 1..(i - 1) : ~P(ctx.channels[j])])
    ELSE None

\* The zero_hop metadata: DIRECT with an empty path reaches neighbours only.
ZeroHop(msg) == msg.hint = Some(<<>>)

\* build_advert
build_advert(ctx, ts, located, zero_hop) ==
    IF ~HasKey(ctx) THEN None
    ELSE LET me == Unwrap(ctx.local)
         IN Encode(Packet(IF zero_hop THEN Direct ELSE Flood, "ADVERT", Advert(me.node, ts, AdvertData(me.name, located))))

GroupPlain(msg, ctx) ==
    CASE msg.ctype = "Text" ->
           IF ctx.local = None THEN None
           ELSE compose_group_text(Timestamp(msg, ctx), Unwrap(ctx.local).name, msg.text)
      [] msg.ctype = "Binary" -> compose_group_data(msg.text)
      [] OTHER -> None

\* encode_group: on the named channel, or on the public one.
encode_group(msg, ctx) ==
    LET name == IF IsSome(msg.channel) THEN Unwrap(msg.channel) ELSE "Public"
        ch == FirstChannel(ctx, LAMBDA c : c.name = name)
        secret == IF ch = None THEN None ELSE group_secret(Unwrap(ch).key)
        plain == GroupPlain(msg, ctx)
        payload == IF secret = None \/ plain = None THEN None
                   ELSE build_group_datagram(Unwrap(secret), Unwrap(plain))
    IN IF payload = None THEN None
       ELSE Encode(Packet(IF ZeroHop(msg) THEN Direct ELSE Flood,
                          IF msg.ctype = "Text" THEN "GRP_TXT" ELSE "GRP_DATA", Unwrap(payload)))

\* resolve_peer: a prefix must name one known key only.
resolve_peer(dst, ctx) ==
    LET known == {k \in ctx.peers : Prefix[k] = dst.n}
    IN CASE dst.kind = "key" -> Some(dst.n)
         [] dst.kind = "prefix" /\ \E k \in known : known = {k} -> Some(CHOOSE k \in known : TRUE)
         [] OTHER -> None

\* route_and_path: along the path of the message, if it carries one.
Along(p, msg) ==
    IF msg.hint = None THEN p ELSE [p EXCEPT !.route = Direct, !.path = Unwrap(msg.hint)]

\* encode_direct_text
encode_direct_text(msg, ctx) ==
    LET peer == resolve_peer(msg.dst, ctx)
        plain == compose_text_plain(Timestamp(msg, ctx), "plain", msg.text)
    IN IF ~HasKey(ctx) \/ peer = None \/ plain = None THEN None
       ELSE LET me == Unwrap(ctx.local).node
                to == Unwrap(peer)
                payload == build_datagram(shared_secret(me, to), Prefix[to], Prefix[me], Unwrap(plain))
            IN IF payload = None THEN None
               ELSE Encode(Along(Packet(Flood, "TXT_MSG", Unwrap(payload)), msg))

\* encode_ack
encode_ack(msg) ==
    IF msg.ack = None THEN None
    ELSE Encode(Along(Packet(Flood, "ACK", [code |-> Unwrap(msg.ack), n |-> 4]), msg))

\* encode_advert_msg: a position needs one to announce.
encode_advert_msg(msg, ctx) ==
    IF msg.ctype = "Position" /\ ~msg.located THEN None
    ELSE build_advert(ctx, Timestamp(msg, ctx), msg.located, ZeroHop(msg))

\* RadioProtocol::encode
MeshCoreEncode(msg, ctx) ==
    CASE msg.ctype = "Text" /\ msg.dst.kind \in {"key", "prefix"} -> encode_direct_text(msg, ctx)
      [] msg.ctype \in {"Text", "Binary"} /\ IsBroadcast(msg.dst) -> encode_group(msg, ctx)
      [] msg.ctype \in {"Advert", "Position"} -> encode_advert_msg(msg, ctx)
      [] msg.ctype = "Ack" -> encode_ack(msg)
      [] OTHER -> None

-----------------------------------------------------------------------------
(* Decoding                                                                *)

\* base_message
base_message(p) ==
    [Message("meshcore", "Opaque", Unknown, Broadcast, <<>>) EXCEPT
        !.id = packet_hash(p), !.path = p.path,
        !.travelled = IF p.route = Flood THEN Len(p.path) ELSE 0,
        !.one_byte = p.hash_size = 1]

opaque(msg) == [msg EXCEPT !.ctype = "Opaque", !.security = Undecryptable]

\* decode_advert
decode_advert(p) ==
    LET adv == p.payload IN
    IF adv.n < ADVERT_MIN_LEN \/ ~Verifies(adv) THEN None
    ELSE Some([base_message(p) EXCEPT !.ctype = "Advert", !.src = IdentityRef("key", adv.key),
                                      !.ts = Some(adv.ts), !.name = adv.data.name,
                                      !.located = adv.data.located])

\* The channels that decode_group tries: same hash byte, in order, until the
\* MAC verifies.
Opening(p, ctx) ==
    FirstChannel(ctx, LAMBDA c : /\ IsSome(group_secret(c.key))
                                 /\ KeyHash[c.key] = p.payload.hash
                                 /\ IsSome(mac_then_decrypt(Unwrap(group_secret(c.key)), p.payload.blob)))

\* decode_group
decode_group(p, ctx) ==
    LET ch == Opening(p, ctx)
        msg == base_message(p)
    IN CASE p.payload.n <= 3 \/ (p.payload.blob.n - MAC) % BLOCK # 0 -> None
         [] ch = None -> Some(opaque(msg))
         [] p.ptype = "GRP_TXT" /\ p.payload.blob.plain.txt_type # "plain" ->
              Some([msg EXCEPT !.channel = Some(Unwrap(ch).name),
                               !.security = ForeignSharedKey(Unwrap(ch).name)])
         [] p.ptype = "GRP_TXT" ->
              LET g == parse_group_text(p.payload.blob.plain)
              IN Some([msg EXCEPT !.channel = Some(Unwrap(ch).name), !.ctype = "Text", !.ts = Some(g.ts),
                                  !.text = g.text, !.name = g.name,
                                  !.security = ForeignSharedKey(Unwrap(ch).name)])
         [] OTHER ->
              Some([msg EXCEPT !.channel = Some(Unwrap(ch).name), !.ctype = "Binary",
                               !.text = parse_group_data(p.payload.blob.plain),
                               !.security = ForeignSharedKey(Unwrap(ch).name)])

\* Mutant: a known key with the sender's prefix is taken for the sender's.
decode_txt_AnyKey(p, ctx) ==
    LET d == p.payload
        me == Unwrap(ctx.local).node
        by == {k \in ctx.peers : Prefix[k] = d.src}
        msg == [base_message(p) EXCEPT !.dst = IdentityRef("prefix", d.dest)]
    IN IF ~HasKey(ctx) \/ Prefix[me] # d.dest \/ by = {} THEN Some(opaque(msg))
       ELSE Some([msg EXCEPT !.src = IdentityRef("key", CHOOSE k \in by : TRUE), !.ctype = "Text",
                             !.text = parse_text_plain(d.blob.plain).text, !.security = ForeignDirect])

\* decode_txt: every known key with the sender's prefix is tried.  A signed
\* post is acknowledged with the receiver's key.
decode_txt(p, ctx) ==
    LET d == p.payload
        msg == [base_message(p) EXCEPT !.src = IdentityRef("prefix", d.src),
                                       !.dst = IdentityRef("prefix", d.dest), !.wants_ack = TRUE]
    IN IF d.n <= 4 \/ (d.blob.n - MAC) % BLOCK # 0 THEN None
       ELSE IF ~HasKey(ctx) THEN Some(opaque(msg))
       ELSE LET me == Unwrap(ctx.local).node
                by == {k \in ctx.peers : /\ Prefix[k] = d.src
                                         /\ IsSome(mac_then_decrypt(shared_secret(me, k), d.blob))}
            IN IF Prefix[me] # d.dest \/ by = {} THEN Some(opaque(msg))
               ELSE LET k == CHOOSE x \in by : TRUE
                        t == parse_text_plain(d.blob.plain)
                        author == IF t.txt_type = "signed" THEN me ELSE k
                    IN Some([msg EXCEPT !.src = IdentityRef("key", k), !.dst = IdentityRef("key", me),
                                        !.ctype = "Text", !.ts = Some(t.ts), !.text = t.text,
                                        !.ack = Some(ack_code(t.covered, author)),
                                        !.security = ForeignDirect])

\* decode_ack
decode_ack(p) ==
    IF ~is_ack_len(p.payload.n) THEN None
    ELSE Some([base_message(p) EXCEPT !.ctype = "Ack", !.ack = Some(p.payload.code)])

\* decode_other: requests, responses and paths stay closed; the rest is said
\* in the clear.
decode_other(p) ==
    Some([base_message(p) EXCEPT
            !.ctype = IF p.ptype \in {"PATH", "TRACE", "CONTROL"} THEN "RouteControl" ELSE "Other",
            !.security = IF p.ptype \in {"REQ", "RESPONSE", "PATH", "ANON_REQ"}
                         THEN Undecryptable ELSE Plaintext])

\* RadioProtocol::decode
MeshCoreDecode(p, ctx) ==
    CASE ~Parses(p) -> None
      [] p.ptype = "ADVERT" -> decode_advert(p)
      [] p.ptype \in GroupTypes -> decode_group(p, ctx)
      [] p.ptype = "TXT_MSG" -> decode_txt(p, ctx)
      [] p.ptype = "ACK" -> decode_ack(p)
      [] OTHER -> decode_other(p)

-----------------------------------------------------------------------------
(* Detection                                                               *)

\* Of the channels with the packet's hash byte, detect looks at the first.
GroupPoints(p, ctx) ==
    LET ch == FirstChannel(ctx, LAMBDA c : /\ IsSome(group_secret(c.key))
                                           /\ KeyHash[c.key] = p.payload.hash)
        opens == IsSome(ch) /\ IsSome(mac_then_decrypt(Unwrap(group_secret(Unwrap(ch).key)), p.payload.blob))
        sane == opens /\ (p.ptype = "GRP_TXT" =>
                            /\ p.payload.blob.plain.txt_type = "plain"
                            /\ looks_like_text(parse_group_text(p.payload.blob.plain).text))
    IN 15 + (IF IsSome(ch) THEN 10 ELSE 0) + (IF opens THEN 30 ELSE 0) + (IF sane THEN 10 ELSE 0)

\* The points for a payload that has the shape of its type.
TypePoints(p, ctx) ==
    CASE p.ptype = "ADVERT" -> 65
      [] p.ptype \in GroupTypes -> GroupPoints(p, ctx)
      [] p.ptype = "ANON_REQ" -> 20
      [] p.ptype = "RAW_CUSTOM" -> 5
      [] OTHER -> 15

\* The shapes detect insists on; any other packet of the type is rejected.
Plausible(p) ==
    LET n == p.payload.n IN
    CASE p.ptype = "ADVERT" -> n >= ADVERT_MIN_LEN /\ Verifies(p.payload)
      [] p.ptype \in GroupTypes -> n >= 19 /\ (n - 3) % BLOCK = 0
      [] p.ptype \in DatagramTypes -> n >= 20 /\ (n - 4) % BLOCK = 0
      [] p.ptype = "ANON_REQ" -> n >= 36 /\ (n - 35) % BLOCK = 0
      [] p.ptype = "ACK" -> is_ack_len(n)
      [] p.ptype = "TRACE" -> p.route = Direct /\ n >= 9 /\ (n - 9) % p.payload.unit = 0
      [] p.ptype = "MULTIPART" -> n >= 5 /\ p.payload.lead % 16 = 3
      [] p.ptype = "CONTROL" -> p.route = Direct /\ p.path = <<>> /\ p.payload.lead \div 16 \in {8, 9}
      [] OTHER -> TRUE

\* RadioProtocol::detect, of a MeshCore packet.
MeshCoreDetect(p, ctx) ==
    IF ~Parses(p) \/ ~Plausible(p) THEN 0
    ELSE Score(25 + (IF p.hash_size = 1 THEN 5 ELSE 0)
                  + (IF p.route = Flood /\ p.path # <<>> /\ \A i \in 1..Len(p.path) : p.path[i] \notin {0, 255}
                     THEN 5 ELSE 0)
                  + TypePoints(p, ctx)
                  + (IF ctx.sync = "meshcore" THEN 10 ELSE 0))

-----------------------------------------------------------------------------
(* Replies                                                                 *)

\* reply_context: on the channel, or to the sender's key along the reversed
\* path.
MeshCoreReplyContext(msg) ==
    LET back == [i \in 1..Len(msg.path) |-> msg.path[Len(msg.path) + 1 - i]]
        hint == IF msg.travelled > 0 /\ msg.one_byte THEN Some(back) ELSE None
    IN CASE msg.ctype \in {"Text", "Binary"} /\ IsSome(msg.channel) ->
              Some([to |-> Broadcast, channel |-> msg.channel, reply_to |-> 0, hint |-> None])
         [] msg.ctype \in {"Text", "Advert"} /\ msg.channel = None /\ msg.src.kind = "key" ->
              Some([to |-> msg.src, channel |-> None, reply_to |-> 0, hint |-> hint])
         [] OTHER -> None

\* can_reply
MeshCoreCanReply(msg, ctx) ==
    LET rc == MeshCoreReplyContext(msg) IN
    /\ IsSome(rc)
    /\ IF IsSome(Unwrap(rc).channel)
       THEN /\ IsSome(ctx.local)
            /\ \E i \in 1..Len(ctx.channels) : /\ ctx.channels[i].name = Unwrap(Unwrap(rc).channel)
                                               /\ IsSome(group_secret(ctx.channels[i].key))
       ELSE HasKey(ctx)
=============================================================================

----------------------------- MODULE Meshtastic -----------------------------
(***************************************************************************)
(* The Meshtastic adapter (meshstar-protocols/src/meshtastic): the packet  *)
(* header, channel and PKI encryption, detection, decoding, encoding and   *)
(* replies.                                                                *)
(*                                                                         *)
(* Encryption is symbolic.  Channels have no MAC: under a wrong key the    *)
(* bytes are taken not to parse as a Data message (the chance that they do *)
(* is left out).  Channel hashes collide: ChannelHash maps to few values.  *)
(***************************************************************************)
EXTENDS UnifiedMessage, Protobuf

CONSTANTS Shorthand,     \* value of a one-byte key
          ChannelHash,   \* hash byte of a channel's name and expanded key
          PresetHashes,  \* those of the stock channels
          Lower,         \* a channel name in lower case
          LastByte       \* last byte of a node number, 255 for 0

HEADER_LEN == 16
MAX_FRAME_LEN == 255
PKC_OVERHEAD == 12
HOP_MAX == 7
HOP_RELIABLE == 3
DATA_PAYLOAD_LEN == 233
BROADCAST == 0

TEXT_MESSAGE_APP == 1
POSITION_APP == 3
NODEINFO_APP == 4
ROUTING_APP == 5
TELEMETRY_APP == 67
TRACEROUTE_APP == 70
PRIVATE_APP == 256
MaxPort == 511
TextPorts == {TEXT_MESSAGE_APP, 10, 11}

-----------------------------------------------------------------------------
(* Channels and keys                                                       *)

NoKey == "no key"
DefaultPsk == "defaultpsk"

\* expand_psk: no key, a one-byte shorthand, or the key itself padded.
expand_psk(key) ==
    CASE KeyLen[key] = 0 -> NoKey
      [] KeyLen[key] = 1 -> (CASE Shorthand[key] = 1 -> DefaultPsk
                               [] Shorthand[key] \in 2..10 -> key
                               [] OTHER -> NoKey)
      [] OTHER -> key

\* known_channels: the stock channel if none is configured.
known_channels(ctx) ==
    LET source == IF ctx.channels = <<>> THEN <<[name |-> "LongFast", key |-> DefaultPsk]>> ELSE ctx.channels
    IN [i \in 1..Len(source) |->
          LET name == IF source[i].name = "" THEN "LongFast" ELSE source[i].name
              key == expand_psk(source[i].key)
          IN [name |-> name, key |-> key, hash |-> ChannelHash[name][key]]]

FirstOf(s, P(_)) ==
    IF \E i \in 1..Len(s) : P(s[i])
    THEN Some(s[CHOOSE i \in 1..Len(s) : P(s[i]) /\ \A j \in 1..(i - 1) : ~P(s[j])])
    ELSE None

\* resolve_channel: by name in any case, else the first.
resolve_channel(ctx, name) ==
    IF name = None THEN Some(known_channels(ctx)[1])
    ELSE FirstOf(known_channels(ctx), LAMBDA c : Lower[c.name] = Lower[Unwrap(name)])

\* local_node and local_secret
local_node(ctx) ==
    IF IsSome(ctx.local) /\ Unwrap(ctx.local).net = "meshtastic" THEN Some(Unwrap(ctx.local).node) ELSE None
HasSecret(ctx) == IsSome(ctx.local) /\ Unwrap(ctx.local).secret

PkiKey(a, b) == [pki |-> {a, b}]
PskKey(key) == [psk |-> key]

\* psk_crypt and pki_encrypt: the nonce is made of sender and packet id.
Crypt(key, from, id, fields) ==
    [key |-> key, nonce |-> <<from, id>>, fields |-> fields,
     n |-> ProtoLen(fields) + (IF "pki" \in DOMAIN key THEN PKC_OVERHEAD ELSE 0)]

Opens(body, key, h) == body.key = key /\ body.nonce = <<h.from, h.id>>

-----------------------------------------------------------------------------
(* Header                                                                  *)

ToAll(h) == h.to = BROADCAST

\* parse_raw: without hop_start the two relay bytes mean nothing.
ParsedHeader(h) ==
    IF h.hop_start = 0 THEN [h EXCEPT !.next_hop = 0, !.relay_node = 0] ELSE h

\* validate
ValidHeader(h) ==
    /\ h.from # BROADCAST
    /\ h.hop_limit <= HOP_MAX /\ h.hop_start <= HOP_MAX
    /\ h.hop_start # 0 => h.hop_start >= h.hop_limit

\* parse
FrameParses(f) == HEADER_LEN + f.body.n <= MAX_FRAME_LEN /\ ValidHeader(ParsedHeader(f.h))

hops_away(h) == IF h.hop_start = 0 THEN 0 ELSE h.hop_start - h.hop_limit

-----------------------------------------------------------------------------
(* Decryption                                                              *)

\* Channel hash 0 and one receiver: the shape of a PKI message.
PkiShape(h, body) == h.channel = 0 /\ ~ToAll(h) /\ body.n > PKC_OVERHEAD

Port(data) == Field(data, 1, 0)

\* A readable Data message: port 0 means a wrong key.
Readable(body) ==
    LET d == DecodeProto(DataSchema, body.fields) IN
    IsSome(d) /\ Port(Unwrap(d)) \in 1..MaxPort

\* try_decrypt: a PKI message whose tag fails is an error, no channel is tried.
try_decrypt(h, body, ctx) ==
    LET usePki == /\ PkiShape(h, body) /\ local_node(ctx) = Some(h.to)
                  /\ HasSecret(ctx) /\ PeerKey(ctx, h.from)
        ch == FirstOf(known_channels(ctx),
                      LAMBDA c : c.hash = h.channel /\ Opens(body, PskKey(c.key), h) /\ Readable(body))
        data == Unwrap(DecodeProto(DataSchema, body.fields))
    IN CASE body.n = 0 -> [how |-> "malformed"]
         [] usePki /\ ~Opens(body, PkiKey(h.to, h.from), h) -> [how |-> "auth failed"]
         [] usePki /\ ~Readable(body) -> [how |-> "malformed"]
         [] usePki -> [how |-> "pki", data |-> data]
         [] ~usePki /\ ch = None -> [how |-> "no key"]
         [] OTHER -> [how |-> "psk", channel |-> Unwrap(ch), data |-> data]

-----------------------------------------------------------------------------
(* Decoding                                                                *)

Payload(data) == Field(data, 2, [n |-> 0, v |-> <<>>]).v

\* Routing::is_ack
IsAck(payload) ==
    LET r == DecodeProto(RoutingSchema, payload) IN
    /\ IsSome(r)
    /\ DOMAIN Unwrap(r) \cap {1, 2} = {}
    /\ Field(Unwrap(r), 3, 0) = 0

\* The content type of a port, in map_content.
ContentOf(data) ==
    CASE Port(data) \in TextPorts -> "Text"
      [] Port(data) = POSITION_APP -> "Position"
      [] Port(data) = NODEINFO_APP -> "NodeInfo"
      [] Port(data) = ROUTING_APP -> IF IsAck(Payload(data)) /\ Field(data, 6, 0) # 0 THEN "Ack" ELSE "RouteControl"
      [] Port(data) = TELEMETRY_APP -> "Telemetry"
      [] Port(data) = PRIVATE_APP -> "Binary"
      [] OTHER -> "Other"

\* map_content
map_content(msg, data) ==
    LET ctype == ContentOf(data)
        user == DecodeProto(UserSchema, Payload(data))
        position == DecodeProto(PositionSchema, Payload(data))
    IN [msg EXCEPT !.ctype = ctype, !.reply_to = Field(data, 7, 0),
          !.text = IF ctype \in {"Text", "Binary"} THEN Payload(data) ELSE <<>>,
          !.ack = IF ctype = "Ack" THEN Some(Field(data, 6, 0)) ELSE None,
          !.name = IF ctype = "NodeInfo" /\ IsSome(user) /\ 2 \in DOMAIN Unwrap(user)
                   THEN Some(Unwrap(user)[2].v) ELSE None,
          !.located = ctype = "Position" /\ IsSome(position) /\ {1, 2} \subseteq DOMAIN Unwrap(position),
          !.ts = IF ctype = "Position" /\ IsSome(position) /\ Field(Unwrap(position), 4, 0) # 0
                 THEN Some(Unwrap(position)[4]) ELSE None]

\* base_message
mt_base_message(h) ==
    [Message("meshtastic", "Text", IdentityRef("node", h.from),
             IF ToAll(h) THEN Broadcast ELSE IdentityRef("node", h.to), <<>>)
       EXCEPT !.id = h.id, !.travelled = hops_away(h), !.wants_ack = h.want_ack]

\* decode_opaque: the channel is named from its hash alone.
decode_opaque(h, ctx) ==
    LET ch == FirstOf(known_channels(ctx), LAMBDA c : c.hash = h.channel) IN
    [mt_base_message(h) EXCEPT !.ctype = "Opaque", !.security = Undecryptable,
        !.channel = IF IsSome(ch) THEN Some(Unwrap(ch).name) ELSE None]

\* decode and decode_strict
MeshtasticDecode(f, ctx) ==
    LET h == ParsedHeader(f.h)
        d == try_decrypt(h, f.body, ctx)
    IN CASE ~FrameParses(f) \/ d.how \in {"malformed", "auth failed"} -> None
         [] FrameParses(f) /\ d.how = "no key" -> Some(decode_opaque(h, ctx))
         [] FrameParses(f) /\ d.how = "pki" ->
              Some([map_content(mt_base_message(h), d.data) EXCEPT !.security = ForeignDirect])
         [] OTHER ->
              Some([map_content(mt_base_message(h), d.data) EXCEPT
                      !.channel = Some(d.channel.name),
                      !.security = IF d.channel.key = NoKey THEN Plaintext
                                   ELSE ForeignSharedKey(d.channel.name)])

-----------------------------------------------------------------------------
(* Detection                                                               *)

\* detect, of a Meshtastic frame
MeshtasticDetect(f, ctx) ==
    LET h == ParsedHeader(f.h)
        known == \E i \in 1..Len(known_channels(ctx)) : known_channels(ctx)[i].hash = h.channel
        shape == CASE known -> 25
                   [] ~known /\ (h.channel \in PresetHashes \/ PkiShape(h, f.body)) -> 15
                   [] OTHER -> 0
        phy == IF ctx.sync = "meshtastic" THEN 15 ELSE 0
        direct == h.hop_start = h.hop_limit /\ h.relay_node = LastByte[h.from]
        relay == IF h.hop_start = 0 THEN 0
                 ELSE 5 + (IF h.relay_node = 0 THEN 0 ELSE IF direct THEN 7 ELSE 3)
    IN IF ~FrameParses(f) THEN 0
       ELSE Score(shape + phy + (IF shape + phy > 0 THEN relay ELSE 0)
                  + (IF try_decrypt(h, f.body, ctx).how \in {"pki", "psk"} THEN 50 ELSE 0))

-----------------------------------------------------------------------------
(* Encoding                                                                *)

Delimited(text) == [n |-> Bytes(text), v |-> text]
Nested(fields) == [n |-> ProtoLen(fields), v |-> fields]

\* local_user: the long name cut at 24 bytes, the key if there is one.
local_user(ctx) ==
    LET me == Unwrap(ctx.local)
        long == IF Bytes(me.name) <= 24 THEN Delimited(me.name) ELSE [n |-> 24, v |-> <<"cut">>]
    IN [f \in {1, 2, 3, 5} \union (IF me.secret THEN {8} ELSE {}) |->
          CASE f = 1 -> [n |-> 9, v |-> <<"!">>]
            [] f = 2 -> long
            [] f = 3 -> [n |-> 4, v |-> <<"short">>]
            [] f = 5 -> 255
            [] f = 8 -> [n |-> 32, v |-> <<"key">>]]

\* The fields of a position built from lat/lon metadata.
PositionOf(msg, ctx) ==
    [f \in {1, 2, 4} |-> IF f = 4 THEN IF IsSome(msg.ts) THEN Unwrap(msg.ts) ELSE ctx.unix ELSE 1]

\* build_data: port and payload of the message, bitfield always present.
build_data(msg, ctx) ==
    LET data(port, payload, more) == Some([f \in {1, 2, 9} \union DOMAIN more |->
            CASE f = 1 -> port [] f = 2 -> payload [] f = 9 -> 0 [] OTHER -> more[f]])
        reply == [f \in {7} |-> msg.reply_to]
    IN CASE msg.ctype \in {"Text", "Binary"} /\ Bytes(msg.text) <= DATA_PAYLOAD_LEN ->
              data(IF msg.ctype = "Text" THEN TEXT_MESSAGE_APP ELSE PRIVATE_APP, Delimited(msg.text), reply)
         [] msg.ctype = "Ack" /\ IsSome(msg.ack) ->
              data(ROUTING_APP, Nested(EncodeProto(RoutingSchema, [f \in {3} |-> 0])),
                   [f \in {6} |-> Unwrap(msg.ack)])
         [] msg.ctype = "Position" /\ msg.located ->
              data(POSITION_APP, Nested(EncodeProto(PositionSchema, PositionOf(msg, ctx))), reply)
         [] msg.ctype = "NodeInfo" ->
              data(NODEINFO_APP, Nested(EncodeProto(UserSchema, local_user(ctx))), reply)
         [] OTHER -> None

\* pki_eligible_port
PkiEligible(port) == port \notin {TRACEROUTE_APP, NODEINFO_APP, ROUTING_APP, POSITION_APP}

\* encode
MeshtasticEncode(msg, ctx) ==
    LET me == local_node(ctx)
        data == build_data(msg, ctx)
        to == IF IsBroadcast(msg.dst) THEN BROADCAST ELSE msg.dst.n
        fields == EncodeProto(DataSchema, Unwrap(data))
        pki == /\ to # BROADCAST /\ PkiEligible(Unwrap(data)[1])
               /\ HasSecret(ctx) /\ PeerKey(ctx, to)
        channel == resolve_channel(ctx, msg.channel)
        key == IF pki THEN PkiKey(Unwrap(me), to) ELSE PskKey(Unwrap(channel).key)
        body == Crypt(key, Unwrap(me), ctx.rand, fields)
        h == [to |-> to, from |-> Unwrap(me), id |-> ctx.rand, hop_limit |-> HOP_RELIABLE,
              want_ack |-> msg.wants_ack /\ to # BROADCAST, hop_start |-> HOP_RELIABLE,
              channel |-> IF pki THEN 0 ELSE Unwrap(channel).hash,
              next_hop |-> 0, relay_node |-> LastByte[Unwrap(me)]]
    IN CASE me = None \/ msg.dst.kind \notin {"all", "node"} -> None
         [] IsSome(me) /\ data = None -> None
         [] IsSome(me) /\ IsSome(data) /\ ~pki /\ channel = None -> None
         [] OTHER -> IF HEADER_LEN + body.n > MAX_FRAME_LEN THEN None
                     ELSE Some([net |-> "meshtastic", h |-> h, body |-> body])

-----------------------------------------------------------------------------
(* Replies                                                                 *)

\* can_reply
MeshtasticCanReply(msg, ctx) ==
    /\ IsSome(local_node(ctx))
    /\ CASE msg.security.level = "ForeignDirect" -> HasSecret(ctx) /\ PeerKey(ctx, msg.src.n)
         [] msg.security.level = "Undecryptable" -> FALSE
         [] OTHER -> IsSome(resolve_channel(ctx, msg.channel))

\* reply_context: to the sender alone, on the channel of the message.
MeshtasticReplyContext(msg) ==
    Some([to |-> msg.src, channel |-> msg.channel, reply_to |-> msg.id, hint |-> None])
=============================================================================

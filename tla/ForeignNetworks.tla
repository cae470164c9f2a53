-------------------------- MODULE ForeignNetworks --------------------------
(***************************************************************************)
(* A MeshStar node on the MeshCore and Meshtastic networks: the Detector   *)
(* (meshstar-protocols/src/detector), the on-device compatibility layer    *)
(* (examples/common/compat.rs), replies through the network a message came *)
(* from (Gateway::reply_frame) and the periodic announcements of the two   *)
(* adapters, among stock nodes and repeaters of those networks.            *)
(*                                                                         *)
(* One frame is on the air at a time, and is over before the node's loop   *)
(* does anything else.  Stock nodes are external: they use the formats     *)
(* that the adapters encode, and drop an advert that is not newer than the *)
(* last one of its sender.  The native adapter rejects foreign frames (its *)
(* header holds the exact length).  By chance the bytes of a frame may     *)
(* have the shape of the other foreign protocol.                           *)
(***************************************************************************)
EXTENDS MeshCore, Meshtastic, FiniteSets

CONSTANTS Me, Name,            \* the node and its display name
          Configs,             \* its channels, known peer keys, and whether it has a PKI secret
          Peers, Line,         \* stock nodes, and the repeaters a flood meets in turn
          PeerContext(_, _),   \* what a stock node of a network knows
          Speech,              \* what stock nodes send: [by, msg, frame]
          Words,               \* what the node's user sends
          AdvertInterval, InfoFirstDelay, InfoInterval,
          Epoch,               \* wall clock of a node that was never told the time
          MaxU32,
          AppTimes,            \* wall clocks the app may set
          MaxNow, MaxRestarts, \* bounds
          TalkUntil            \* people talk up to this uptime of the first run (bound)

Modes == {"meshcore", "meshtastic"}
Threshold == 55
AmbiguityMargin == 15

VARIABLES now,        \* uptime
          restarts,
          config,     \* what the node was configured with
          compat,     \* the compatibility layer and the adapters' timers
          air,        \* the last frame, who sent it, what it means, its hops
          got,        \* what the node made of it
          peerGot,    \* what a stock node made of it
          newest      \* newest advert of the node that stock nodes accepted

vars == <<now, restarts, config, compat, air, got, peerGot, newest>>

Identity(mode) ==
    [net |-> mode, node |-> Me, name |-> Name,
     secret |-> mode = "meshcore" \/ config.secret]

\* Compat::new: no time, the native profile, the MeshCore identity.
NewCompat ==
    [time_base |-> None, sync |-> "meshstar", local |-> "meshcore",
     last_advert_ms |-> None, last_advert_ts |-> 0,
     started_ms |-> None, last_nodeinfo_ms |-> None]

Init == /\ now = 0 /\ restarts = 0
        /\ config \in Configs
        /\ compat = NewCompat
        /\ air = None /\ got = None /\ peerGot = None /\ newest = None

-----------------------------------------------------------------------------
(* Detector                                                                *)

\* The most an adapter gives to bytes that have its shape by chance and that
\* none of its keys opens.
ByChance(net, ctx) ==
    IF net = "meshcore" THEN 60 + (IF ctx.sync = "meshcore" THEN 10 ELSE 0)
    ELSE 37 + (IF ctx.sync = "meshtastic" THEN 15 ELSE 0)

Points(net, frame, ctx, chance) ==
    CASE net # frame.net -> IF chance THEN ByChance(net, ctx) ELSE 0
      [] net = frame.net /\ net = "meshcore" -> MeshCoreDetect(frame, ctx)
      [] OTHER -> MeshtasticDetect(frame, ctx)

\* Mutant: a score at the threshold is not enough.
detect_Above(frame, ctx, chance) ==
    LET score == [net \in Modes |-> Points(net, frame, ctx, chance)]
        best == CHOOSE n \in Modes : \A m \in Modes : score[m] <= score[n]
    IN IF score[best] <= Threshold THEN "unknown" ELSE best

\* detect: the best score, if it is high enough and the other is not close.
detect(frame, ctx, chance) ==
    LET score == [net \in Modes |-> Points(net, frame, ctx, chance)]
        best == CHOOSE n \in Modes : \A m \in Modes : score[m] <= score[n]
        runner == CHOOSE n \in Modes : n # best
    IN IF \/ score[best] < Threshold
          \/ score[runner] >= Threshold /\ score[best] - score[runner] < AmbiguityMargin
       THEN "unknown" ELSE best

Decode(frame, ctx) ==
    IF frame.net = "meshcore" THEN MeshCoreDecode(frame, ctx) ELSE MeshtasticDecode(frame, ctx)

\* classify: what the other network's adapter makes of the bytes is left out.
classify(frame, ctx, chance) ==
    LET net == detect(frame, ctx, chance)
    IN [net |-> net, msg |-> IF net = frame.net THEN Decode(frame, ctx) ELSE None]

-----------------------------------------------------------------------------
(* Compatibility layer                                                     *)

\* unix_time
UnixTime ==
    IF compat.time_base = None THEN Epoch + now
    ELSE (Unwrap(compat.time_base).unix + (now - Unwrap(compat.time_base).at)) % (MaxU32 + 1)

PacketId == 1

\* The context that an adapter is given.
Context(c) ==
    [sync |-> c.sync, local |-> Some(Identity(c.local)), channels |-> config.channels,
     peers |-> config.peers, unix |-> UnixTime, rand |-> PacketId]

\* Mutant: the identity stays that of the network used before.
Select_KeepsIdentity(mode) == [compat EXCEPT !.sync = mode]

\* What encode_text and periodic set before they use an adapter: the profile
\* and, with select_identity, the local identity.
Select(mode) == [compat EXCEPT !.sync = mode, !.local = mode]

AdapterEncode(msg, ctx) ==
    IF msg.protocol = "meshcore" THEN MeshCoreEncode(msg, ctx) ELSE MeshtasticEncode(msg, ctx)

\* A frame of the node goes on the air, or nobody will hear what it means.
Transmit(frame, msg) ==
    /\ air' = IF frame = None THEN None
              ELSE Some([frame |-> Unwrap(frame), by |-> Me, msg |-> msg, hops |-> 0])
    /\ peerGot' = IF frame = None THEN Some([who |-> Me, msg |-> None, meant |-> msg, fresh |-> TRUE])
                  ELSE None
    /\ got' = None

\* set_time
SetTime(unix) ==
    /\ air = None
    /\ compat' = [compat EXCEPT !.time_base = Some([unix |-> unix, at |-> now])]
    /\ UNCHANGED <<now, restarts, config, air, got, peerGot, newest>>

Talk == now <= TalkUntil /\ restarts = 0

\* encode_text: a text for everybody on the network's public channel.
SendText(mode, text) ==
    \E msg \in {[Message(mode, "Text", Unknown, Broadcast, text) EXCEPT
                    !.channel = Some(IF mode = "meshcore" THEN "Public" ELSE "LongFast")]} :
        /\ Talk /\ air = None
        /\ compat' = Select(mode)
        /\ Transmit(AdapterEncode(msg, Context(compat')), msg)
        /\ UNCHANGED <<now, restarts, config, newest>>

\* The timestamp of a periodic advert: above the last one, whatever the clock.
AdvertTime ==
    LET above == IF compat.last_advert_ts = MaxU32 THEN MaxU32 ELSE compat.last_advert_ts + 1
    IN IF UnixTime >= above THEN UnixTime ELSE above

\* periodic of the MeshCore adapter: an advert, when it is due
AdvertDue == compat.last_advert_ms = None \/ now - Unwrap(compat.last_advert_ms) >= AdvertInterval

PeriodicAdvert ==
    \E msg \in {[Message("meshcore", "Advert", IdentityRef("key", Me), Broadcast, <<>>)
                   EXCEPT !.ts = Some(AdvertTime)]} :
    /\ air = None
    /\ IF AdvertDue
       THEN /\ compat' = [Select("meshcore") EXCEPT !.last_advert_ms = Some(now), !.last_advert_ts = AdvertTime]
            /\ Transmit(build_advert(Context(compat'), AdvertTime, FALSE, FALSE), msg)
       ELSE /\ compat' = Select("meshcore")
            /\ UNCHANGED <<air, got, peerGot>>
    /\ UNCHANGED <<now, restarts, config, newest>>

\* periodic of the Meshtastic adapter: the first call starts the clock.
Started == IF IsSome(compat.started_ms) THEN Unwrap(compat.started_ms) ELSE now
InfoDue ==
    IF compat.last_nodeinfo_ms = None THEN now - Started >= InfoFirstDelay
    ELSE now - Unwrap(compat.last_nodeinfo_ms) >= InfoInterval

PeriodicNodeInfo ==
    \E msg \in {Message("meshtastic", "NodeInfo", IdentityRef("node", Me), Broadcast, <<>>)} :
    /\ air = None
    /\ compat' = [Select("meshtastic") EXCEPT !.started_ms = Some(Started),
                    !.last_nodeinfo_ms = IF InfoDue THEN Some(now) ELSE @]
    /\ IF InfoDue THEN Transmit(MeshtasticEncode(msg, Context(compat')), msg)
       ELSE UNCHANGED <<air, got, peerGot>>
    /\ UNCHANGED <<now, restarts, config, newest>>

\* on_rx: profile and identity are still those of the last transmission.
OnRx ==
    /\ IsSome(air) /\ Unwrap(air).by # Me /\ got = None
    /\ \E chance \in BOOLEAN : \E c \in {classify(Unwrap(air).frame, Context(compat), chance)} :
         got' = Some([net |-> c.net, msg |-> c.msg, chance |-> chance, as |-> compat.local])
    /\ UNCHANGED <<now, restarts, config, compat, air, peerGot, newest>>

\* Gateway::reply_frame, to a message that the adapter says it can answer.
ReplyContextOf(msg) ==
    IF msg.protocol = "meshcore" THEN MeshCoreReplyContext(msg) ELSE MeshtasticReplyContext(msg)
CanReply(msg, ctx) ==
    IF msg.protocol = "meshcore" THEN MeshCoreCanReply(msg, ctx) ELSE MeshtasticCanReply(msg, ctx)

Reply(text) ==
    /\ IsSome(got) /\ IsSome(Unwrap(got).msg)
    /\ \E orig \in {Unwrap(Unwrap(got).msg)} :
         /\ compat' = Select(orig.protocol)
         /\ CanReply(orig, Context(compat'))
         /\ \E rc \in {Unwrap(ReplyContextOf(orig))} :
            \E msg \in {[Message(orig.protocol, "Text", Unknown, rc.to, text) EXCEPT
                           !.channel = rc.channel, !.reply_to = rc.reply_to, !.hint = rc.hint]} :
              Transmit(AdapterEncode(msg, Context(compat')), msg)
    /\ UNCHANGED <<now, restarts, config, newest>>

-----------------------------------------------------------------------------
(* The world                                                               *)

Tick ==
    /\ air = None /\ now < MaxNow
    /\ now' = now + 1
    /\ UNCHANGED <<restarts, config, compat, air, got, peerGot, newest>>

\* The frame is over; whoever has not heard it has lost it.
Silence ==
    /\ air # None \/ peerGot # None
    /\ air' = None /\ got' = None /\ peerGot' = None
    /\ UNCHANGED <<now, restarts, config, compat, newest>>

\* The node loses power: uptime, wall clock and timers start again.
Restart ==
    /\ air = None /\ restarts < MaxRestarts
    /\ restarts' = restarts + 1
    /\ now' = 0 /\ compat' = NewCompat
    /\ air' = None /\ got' = None /\ peerGot' = None
    /\ UNCHANGED <<config, newest>>

\* A stock node sends something.
PeerSends(s) ==
    /\ Talk /\ air = None
    /\ air' = Some([frame |-> s.frame, by |-> s.by, msg |-> s.msg, hops |-> 0])
    /\ got' = None /\ peerGot' = None
    /\ UNCHANGED <<now, restarts, config, compat, newest>>

\* A repeater of the network passes the frame on: a flood grows its path, a
\* direct packet loses the hash of the repeater it names.
Repeated(f, r) ==
    CASE f.net = "meshcore" /\ f.route = Flood -> [f EXCEPT !.path = Append(@, Prefix[r])]
      [] f.net = "meshcore" /\ f.route = Direct -> [f EXCEPT !.path = Tail(@)]
      [] OTHER -> [f EXCEPT !.h.hop_limit = @ - 1, !.h.relay_node = LastByte[r]]
Repeats(f, r) ==
    CASE f.net = "meshcore" /\ f.route = Flood -> PathFits(Len(f.path) + 1, f.hash_size)
      [] f.net = "meshcore" /\ f.route = Direct -> f.path # <<>> /\ Head(f.path) = Prefix[r]
      [] OTHER -> f.h.hop_limit > 0

Repeat(i) ==
    LET r == Line[i] IN
    /\ IsSome(air)
    /\ ~(Unwrap(air).frame.net = "meshcore" /\ Unwrap(air).frame.route = Direct) => i = Unwrap(air).hops + 1
    /\ got = None /\ peerGot = None
    /\ Repeats(Unwrap(air).frame, r)
    /\ air' = Some([Unwrap(air) EXCEPT !.frame = Repeated(@, r), !.hops = @ + 1])
    /\ UNCHANGED <<now, restarts, config, compat, got, peerGot, newest>>

\* A stock node hears the node.  A direct packet is for the end of its path;
\* an advert that is not newer is a replay.
PeerRx(p) ==
    /\ IsSome(air) /\ Unwrap(air).by = Me /\ peerGot = None
    /\ \E f \in {Unwrap(air).frame} :
         /\ ~(f.net = "meshcore" /\ f.route = Direct /\ f.path # <<>>)
         /\ \E fresh \in {f.net = "meshcore" /\ f.ptype = "ADVERT"
                            => newest = None \/ f.payload.ts > Unwrap(newest).ts} :
              /\ peerGot' = Some([who |-> p, msg |-> Decode(f, PeerContext(p, f.net)),
                                  meant |-> Unwrap(air).msg, fresh |-> fresh])
              /\ newest' = IF f.net = "meshcore" /\ f.ptype = "ADVERT" /\ fresh
                           THEN Some([ts |-> f.payload.ts, boot |-> restarts]) ELSE newest
    /\ UNCHANGED <<now, restarts, config, compat, air, got>>

Next ==
    \/ Tick \/ Silence \/ Restart \/ OnRx \/ PeriodicAdvert \/ PeriodicNodeInfo
    \/ \E t \in AppTimes : SetTime(t)
    \/ \E m \in Modes, w \in Words : SendText(m, w)
    \/ \E w \in Words : Reply(w)
    \/ \E s \in Speech : PeerSends(s)
    \/ \E i \in 1..Len(Line) : Repeat(i)
    \/ \E p \in Peers : PeerRx(p)

Spec == Init /\ [][Next]_vars

-----------------------------------------------------------------------------
(* Properties                                                              *)

\* What the node's keys open, whatever the order an adapter tries them in;
\* a direct message needs the identity that was in use.
Held(f, as) ==
    IF f.net = "meshcore"
    THEN CASE f.ptype \in GroupTypes ->
                \E i \in 1..Len(config.channels) : group_secret(config.channels[i].key) = Some(f.payload.blob.secret)
           [] f.ptype = "TXT_MSG" ->
                as = "meshcore" /\ \E k \in config.peers : f.payload.blob.secret = shared_secret(Me, k)
           [] OTHER -> f.ptype = "ADVERT"
    ELSE \/ \E i \in 1..Len(config.channels) :
              f.body.key = PskKey(expand_psk(config.channels[i].key))
         \/ as = "meshtastic" /\ config.secret /\ \E k \in config.peers : f.body.key = PkiKey(Me, k)

Named(f, channel) ==
    \E i \in 1..Len(config.channels) :
        /\ config.channels[i].name = channel
        /\ IF f.net = "meshcore" THEN group_secret(config.channels[i].key) = Some(f.payload.blob.secret)
           ELSE f.body.key = PskKey(expand_psk(config.channels[i].key))

(* What the node shows of a frame it decoded (Detector::classify, the      *)
(* decode functions of both adapters) is what the sender said: the sender, *)
(* the text although names and texts share one string, the number of hops; *)
(* a message is labelled with a channel only if it was sealed with that    *)
(* channel's key, as direct only if it was sealed between the sender and   *)
(* the node, and undecryptable only if the node holds no key for it.  A    *)
(* frame that one of the node's keys opens is never taken for the other    *)
(* network's.                                                              *)
HonestLabels ==
    IsSome(got) =>
      LET f == Unwrap(air).frame
          meant == Unwrap(air).msg
          net == Unwrap(got).net
          m == Unwrap(Unwrap(got).msg)
      IN /\ net \notin {f.net, "unknown"} => Unwrap(got).chance /\ ~Held(f, Unwrap(got).as)
         /\ IsSome(Unwrap(got).msg) =>
              /\ m.src.kind \in {"key", "node"} => m.src.n = Unwrap(air).by
              /\ m.ctype \in {"Text", "Binary"} => m.ctype = meant.ctype /\ m.text = meant.text
              /\ m.travelled = Unwrap(air).hops \/ (f.net = "meshtastic" /\ f.h.hop_start = 0)
              /\ m.security.level = "ForeignSharedKey" => Named(f, m.security.channel)
              /\ m.security.level = "ForeignDirect" =>
                    IF f.net = "meshcore" THEN f.payload.blob.secret = shared_secret(Me, Unwrap(air).by)
                    ELSE f.body.key = PkiKey(Me, Unwrap(air).by)
              /\ m.security.level = "Undecryptable" =>
                    ~Held(f, Unwrap(got).as)

(* An advert, or a text or data on a channel whose key the node holds, is  *)
(* classified and opened, although on_rx works with the profile and the    *)
(* identity of the last transmission, although another channel may have    *)
(* the same hash byte, and over any number of repeaters.  The exception is *)
(* a MeshCore packet with path hashes of several bytes whose channel has   *)
(* the hash of one configured before it: detect stops at that one.         *)
KnownIsHeard ==
    IsSome(got) /\ ~Unwrap(got).chance =>
      LET f == Unwrap(air).frame
          open == IF f.net = "meshcore" THEN f.ptype \in GroupTypes \union {"ADVERT"} /\ f.hash_size = 1
                  ELSE "psk" \in DOMAIN f.body.key
      IN Held(f, Unwrap(got).as) /\ open =>
           /\ IsSome(Unwrap(got).msg)
           /\ Unwrap(Unwrap(got).msg).security.level # "Undecryptable"

\* The longest text that encode takes for a message of the node.
Room(msg) ==
    CASE msg.protocol = "meshcore" /\ IsBroadcast(msg.dst) -> MAX_TEXT_LEN - 2 - Bytes(Name)
      [] msg.protocol = "meshcore" /\ ~IsBroadcast(msg.dst) -> MAX_TEXT_LEN
      [] OTHER -> 232 - (IF msg.reply_to = 0 THEN 0 ELSE 5) - (IF IsBroadcast(msg.dst) THEN 0 ELSE PKC_OVERHEAD)

(* What the node says is understood: a text (encode_text), an answer       *)
(* (reply_frame, whenever can_reply allowed it), an advert or node info of *)
(* a length that fits is not refused by the adapter, whatever network the  *)
(* node used before, and a stock node that it is for reads it, over any    *)
(* number of repeaters, with the node as its sender.  Node info goes out   *)
(* on the first configured channel, which must be one of Meshtastic.  And  *)
(* while the node runs, stock nodes take each of its adverts for a fresh   *)
(* one, whatever times the app sets in between, until the timestamp has    *)
(* reached the largest one.                                                *)
PeersUnderstand ==
    IsSome(peerGot) =>
      LET g == Unwrap(peerGot)
          m == Unwrap(g.msg)
      IN /\ (/\ g.who = Me \/ IsBroadcast(g.meant.dst) \/ g.meant.dst.n = g.who
             /\ Bytes(g.meant.text) <= Room(g.meant)
             /\ g.meant.ctype = "NodeInfo" => config.channels[1].name # "Public")
            => /\ IsSome(g.msg)
               /\ m.ctype = g.meant.ctype /\ m.text = g.meant.text
               /\ m.src.kind \in {"key", "node"} => m.src.n = Me
               /\ m.src.kind = "none" => m.name = Some(Name)
         /\ g.fresh \/ Unwrap(newest).boot < restarts \/ Unwrap(newest).ts = MaxU32 \/ air = None
=============================================================================

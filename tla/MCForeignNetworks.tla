------------------------- MODULE MCForeignNetworks -------------------------
(* Node 1 among the stock nodes 2 and 3, whose MeshCore keys begin with     *)
(* the same byte; 3 and 4 are repeaters.  MeshCore's Public and Ops have    *)
(* the same hash byte, and so have Meshtastic's LongFast and Ops.           *)
EXTENDS ForeignNetworks

MCByteLen == [t \in {"a", "b", "big", "huge", "name", ": ", "NUL", "!", "short", "key", "cut"} |->
                CASE t = "big" -> 150 [] t = "huge" -> 200 [] t = "name" -> 4 [] t = ": " -> 2 [] OTHER -> 1]
Channel(n, k) == [name |-> n, key |-> k]
MCKeyLen == [k \in {"pub", "one", "ops", "alien", "nil", "defaultpsk"} |->
               CASE k = "one" -> 1 [] k = "nil" -> 0 [] k = "ops" -> 32 [] OTHER -> 16]
MCKeyHash == [k \in {"pub", "ops", "alien", "defaultpsk"} |-> IF k = "defaultpsk" THEN 40 ELSE 17]
MCPrefix == <<10, 20, 20, 255>>
MCShorthand == [k \in {"one"} |-> 1]
MCChannelHash ==
    [n \in {"Public", "LongFast", "Ops", "Open", "Alien"} |->
       [k \in {"pub", "defaultpsk", "ops", "alien", "no key"} |->
          CASE n = "Public" -> 5 [] n = "LongFast" -> 8 [] n = "Ops" -> 8 [] n = "Alien" -> 9 [] OTHER -> 3]]
MCLower == [n \in {"Public", "LongFast", "Ops", "Open", "Alien"} |-> n]
MCLastByte == <<1, 2, 2, 4>>

Public == Channel("Public", "pub")
LongFast == Channel("LongFast", "defaultpsk")
ShortLongFast == Channel("LongFast", "one")
Ops == Channel("Ops", "ops")
Open == Channel("Open", "nil")
Alien == Channel("Alien", "alien")

Config(channels, peers, secret) == [channels |-> channels, peers |-> peers, secret |-> secret]
CompatConfig == Config(<<Public, LongFast>>, {}, FALSE)
MCConfigs == {CompatConfig,
              Config(<<LongFast, Ops, Public>>, {2, 3}, TRUE),
              Config(<<Ops, Open, ShortLongFast, Public>>, {2}, TRUE)}

MCPeerContext(p, net) ==
    [sync |-> net, local |-> Some([net |-> net, node |-> p, name |-> <<"b">>, secret |-> TRUE]),
     channels |-> IF net = "meshcore" THEN <<Alien, Public, Ops>> ELSE <<LongFast, Ops, Open, Alien>>,
     peers |-> {1, 4}, unix |-> 3, rand |-> 2]

On(net, ctype, channel, text) == [Message(net, ctype, Unknown, Broadcast, text) EXCEPT !.channel = Some(channel)]
To(net, kind, n, text) == Message(net, "Text", Unknown, IdentityRef(kind, n), text)
Announce(net, ctype) == [Message(net, ctype, Unknown, Broadcast, <<>>) EXCEPT !.located = ctype # "NodeInfo"]
Said(by, msg) == [by |-> by, msg |-> msg, frame |-> Unwrap(AdapterEncode(msg, MCPeerContext(by, msg.protocol)))]

Encodable ==
    { On("meshcore", "Text", "Public", <<"a">>), On("meshcore", "Text", "Ops", <<"a", ": ", "b">>),
      On("meshcore", "Text", "Alien", <<"a">>), On("meshcore", "Binary", "Ops", <<"big">>),
      To("meshcore", "key", 1, <<"a">>), To("meshcore", "key", 4, <<"b">>),
      Announce("meshcore", "Position"),
      [Announce("meshcore", "Ack") EXCEPT !.ack = Some("code")],
      On("meshtastic", "Text", "LongFast", <<"a", ": ", "b">>), On("meshtastic", "Text", "Ops", <<"big">>),
      On("meshtastic", "Text", "Open", <<"a">>), On("meshtastic", "Text", "Alien", <<"a">>),
      To("meshtastic", "node", 1, <<"a">>), To("meshtastic", "node", 4, <<"a">>),
      Announce("meshtastic", "Position"), Announce("meshtastic", "NodeInfo"),
      [Announce("meshtastic", "Ack") EXCEPT !.ack = Some(5), !.dst = IdentityRef("node", 1)] }

\* Frames that stock nodes send and the adapters do not encode.
Raw(route, ptype, payload) == [by |-> 2, msg |-> Message("meshcore", "Other", Unknown, Broadcast, <<>>),
                               frame |-> Packet(route, ptype, payload)]
Wide(s) == [s EXCEPT !.frame.hash_size = 2]
Legacy(s) == [s EXCEPT !.frame.h.hop_start = 0, !.frame.h.relay_node = 0]
Signed(s) == [s EXCEPT !.frame.payload.blob.plain.txt_type = "signed"]
Others ==
    { Raw(Direct, "TRACE", [n |-> 11, unit |-> 2]), Raw(Direct, "CONTROL", [n |-> 6, lead |-> 128]),
      Raw(Flood, "ANON_REQ", [n |-> 51]), Raw(Flood, "RAW_CUSTOM", [n |-> 9]),
      Raw(Flood, "MULTIPART", [n |-> 5, lead |-> 3]), Raw(Flood, "PATH", [n |-> 20]),
      Wide(Said(2, On("meshcore", "Text", "Ops", <<"b">>))),
      Signed(Said(2, To("meshcore", "key", 1, <<"b">>))),
      Legacy(Said(3, On("meshtastic", "Text", "LongFast", <<"b">>))) }

MCSpeech == {Said(2, m) : m \in Encodable} \union {Said(3, To("meshcore", "key", 1, <<"b">>))} \union Others
\* Every frame is one that its network can carry.
ASSUME SpeechFits ==
    \A s \in MCSpeech : /\ s = [s EXCEPT !.frame.net = s.msg.protocol]
                        /\ IF s.frame.net = "meshcore" THEN Parses(s.frame) ELSE FrameParses(s.frame)
MCLine == <<4, 3>>
MCName == <<"name">>
MCWords == {<<"a", ": ", "b">>, <<"big">>, <<"huge">>}
=============================================================================

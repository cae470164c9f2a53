----------------------------- MODULE MCCompanion -----------------------------
(* One request of every type, and some with values at their limits: a      *)
(* text with a start byte in it, an image over the Framer's limit, names   *)
(* that are blank or too long, settings out of range.                      *)
EXTENDS Companion, Functions

AllAsks ==
    [info |-> Msg("GetInfo", <<>>), nodes |-> Msg("GetNodes", <<>>), networks |-> Msg("GetNetworks", <<>>),
     text |-> Msg("SendText", << <<0, 6, 6>>, <<1>>, <<LEAD, START>> >>),
     toAll |-> Msg("SendText", << <<0>>, <<0>>, <<66>> >>),
     foreign |-> Msg("SendText", << <<1>>, <<0>>, <<67, 67, 67, 67, LEAD, START>> >>),
     nowhere |-> Msg("SendText", << <<255>>, <<0>>, <<66>> >>),
     mode |-> Msg("SetMode", << <<3>> >>), status |-> Msg("GetStatus", <<>>),
     name |-> Msg("SetName", << <<LEAD, START, 7, LEAD, START>> >>), blank |-> Msg("SetName", << <<32>> >>),
     role |-> Msg("SetRole", << <<1>> >>), announce |-> Msg("Announce", <<>>),
     messages |-> Msg("GetMessages", << <<0>> >>), time |-> Msg("SetTime", << <<9>> >>),
     reboot |-> Msg("Reboot", <<>>), ping |-> Msg("Ping", << <<START>> >>),
     getSettings |-> Msg("GetSettings", <<>>),
     set |-> Msg("SetSettings", << <<65>>, <<2>>, <<3>>, <<22>>, <<1>>, <<30>> >>),
     badSet |-> Msg("SetSettings", << <<65>>, <<3>>, <<0>>, <<0>>, <<0>>, <<30>> >>),
     position |-> Msg("SetPosition", << <<1>>, <<1>> >>), trace |-> Msg("Trace", << <<0, 6, 6>> >>),
     traceAll |-> Msg("Trace", << <<1>> >>),
     image |-> Msg("SendImage", << <<0, 6, 6>>, <<0>>, <<START, 3>> >>),
     bigImage |-> Msg("SendImage", << <<0, 6, 6>>, <<0>>, [i \in 1 .. MaxFrame |-> 9] >>),
     foreignImage |-> Msg("SendImage", << <<2, 1>>, <<0>>, <<1>> >>),
     photo |-> Msg("SetProfilePhoto", << <<1>> >>)]

\* One event of every type.
AllNews == << Msg("NeighborUp", << Peer >>), Msg("NeighborDown", << Peer >>), Msg("SessionEstablished", << Peer >>),
              Msg("RouteFound", << Peer, <<2>> >>), Msg("RouteLost", << Peer >>),
              Msg("Trace", << Peer, <<1>>, <<9>>, <<4, 4, 3, 3>> >>),
              Msg("Image", << <<1>>, Peer, <<1>>, <<0>>, <<0>>, <<1>>, <<0>>, <<START, 2, 8>> >>) >>

\* Those that the model tells apart.
SomeAsks == Restrict(AllAsks, {"text", "foreign", "mode", "set", "bigImage"})
SomeNews == SubSeq(AllNews, Len(AllNews), Len(AllNews))

\* Every request and every event reads back as it was written.
ASSUME RoundTrip ==
    /\ \A n \in DOMAIN AllAsks \ {"foreign"} : DecodeRequest(body(Request, AllAsks[n])) = AllAsks[n]
    /\ \A i \in DOMAIN AllNews : DecodeResponse(body(Response, AllNews[i])) = AllNews[i]

OneText == { <<65>> }
=============================================================================

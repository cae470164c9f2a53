------------------------------ MODULE Companion ------------------------------
(***************************************************************************)
(* The phone app, the BLE link and the companion service of a node         *)
(* (examples/common/companion.rs, the companion section of the main loop   *)
(* of examples/esp32-sx1262/src/main.rs, app/lib/ble/link.dart and         *)
(* app/lib/state/store.dart).                                              *)
(*                                                                         *)
(* The app writes requests in packets, the loop serves what has arrived    *)
(* and notifies its answers packet by packet.  The link may drop at any    *)
(* time; the node may restart.  The screen's message list is part of the   *)
(* service's state: it is what the app catches up from.                    *)
(***************************************************************************)
EXTENDS CompanionCodec

CONSTANTS Asks,         \* requests the user may make: a function from names to requests
          ConsoleModes, \* modes chosen at the console
          News,         \* a sequence of events the node may report
          Sync,         \* types of the requests sent on connecting
          Texts,        \* texts of arriving messages
          Keep,         \* messages the node keeps (8)
          NameMax,      \* of a name: characters taken, and bytes stored (31)
          Packet,       \* symbols per BLE packet
          MaxStimuli,   \* bound: requests of the user, mode switches and node events together
          MaxMsgs, MaxDrops, MaxRestarts,   \* bounds
          MaxTotal      \* bound: all of these together

ASSUME CompanionAssumption ==
    /\ {Keep, NameMax, Packet} \subseteq Nat \ {0}
    /\ {MaxStimuli, MaxMsgs, MaxDrops, MaxRestarts, MaxTotal} \subseteq Nat

VARIABLES link,     \* "down", "up" or "subscribed" (the app has enabled notifications)
          app,      \* the app's Framer buffer, unwritten symbols, and store
          ble_rx,   \* symbols written by the app, not yet taken by the loop
          svc,      \* Companion
          tx_pending,
          ui,       \* UiModel: msgs, newest first, and total_msgs
          radio,    \* the mode the radio runs in, and the node's message handles
          saved,    \* settings: the running copy and the flash
          spent,    \* how much of the bounds is used
          ghost     \* history: what is owed to either side, and what went wrong on the way;
                    \* cut: a frame was torn, by a drop or by another task's packet

vars == <<link, app, ble_rx, svc, tx_pending, ui, radio, saved, spent, ghost>>

Msg(type, vals) == [type |-> type, vals |-> vals]
Within(what, max) == /\ spent[what] < max
                     /\ spent.stimuli + spent.msgs + spent.drops + spent.restarts < MaxTotal
Spend(what) == spent' = [spent EXCEPT ![what] = @ + 1]

\* Addresses and names that occur in answers; what they are does not matter.
Self == <<0, 5, 5>>
Peer == <<0, 6, 6>>
DefaultName == <<77>>
DefaultSettings == << DefaultName, <<0>>, <<0>>, <<14>>, <<Native>>, <<120>> >>
NameOf(st) == st[1]
ModeOf(st) == st[5][1]
ForeignBase == 100
NoHandle == 0
Unknown == -1
Queued == 0
Sent == 1
Delivered == 3
Failure == 5

\* Companion::new; the mode is the saved one.
FreshService(st) ==
    [buf |-> <<>>, out |-> <<>>, mode |-> ModeOf(st), last_pushed_seq |-> 0, foreign |-> ForeignBase]

FreshRadio(st) == [mode |-> ModeOf(st), handle |-> 0, open |-> {}]

Init == /\ link = "down"
        /\ app = [buf |-> <<>>, todo |-> <<>>, lastSeq |-> 0, shown |-> <<>>, texts |-> <<>>, mode |-> Unknown]
        /\ ble_rx = <<>>
        /\ svc = FreshService(DefaultSettings)
        /\ tx_pending = <<>>
        /\ ui = [msgs |-> <<>>, total_msgs |-> 0]
        /\ radio = FreshRadio(DefaultSettings)
        /\ saved = [running |-> DefaultSettings, flash |-> DefaultSettings]
        /\ spent = [stimuli |-> 0, msgs |-> 0, drops |-> 0, restarts |-> 0]
        /\ ghost = [owedReq |-> <<>>, owedResp |-> <<>>, cut |-> FALSE, garbled |-> FALSE,
                    syncing |-> FALSE, interrupted |-> FALSE, carried |-> FALSE, overlapped |-> FALSE,
                    accepted |-> {}, delivered |-> {}]

-----------------------------------------------------------------------------
(* Settings                                                                *)

Blank(s) == \A i \in DOMAIN s : s[i] = 32

\* The first n characters; START only ever continues a character.
TakeChars(s, n) ==
    LET fits == {k \in 0 .. Len(s) : /\ k < Len(s) => s[k + 1] # START
                                     /\ Cardinality({i \in 1 .. k : s[i] # START}) <= n}
    IN  SubSeq(s, 1, CHOOSE k \in fits : \A j \in fits : j <= k)

CleanName(s) == TakeChars(SelectSeq(s, LAMBDA c : c >= 32), NameMax)

InRange(st) == /\ ~Blank(CleanName(NameOf(st)))
               /\ st[2][1] \in 0 .. 2 /\ st[3][1] \in 0 .. 3
               /\ st[4][1] \in -9 .. 22 /\ st[6][1] \in 30 .. 3600

\* save_settings stores the first NameMax bytes of the name.
Stored(st) == [st EXCEPT ![1] = Chunk(@, NameMax)]

\* load_settings: a name that is not UTF-8 is not read.
Loaded(st) == [st EXCEPT ![1] = IF Utf8(@) /\ ~Blank(@) THEN @ ELSE DefaultName]

-----------------------------------------------------------------------------
(* The service: handle, with the responses pushed so far in do.out         *)

End(type) == Msg("End", << Request[type].code >>)
Refusal(code) == Msg("Error", << <<code>>, <<>> >>)
Status(mode) == Msg("Status", << <<mode>> >> \o [i \in 1 .. 11 |-> <<0>>])
SendResult(h, ok, reason) == Msg("SendResult", << <<h>>, <<ok>>, <<reason>> >>)
DeliveryUpdate(h, state, reason) == Msg("DeliveryUpdate", << <<h>>, <<state>>, <<reason>> >>)

Info == Msg("Info", << <<1>>, DefaultName, Self, <<9>>, <<0>>, <<1>>, <<0>>, <<0>>, <<0>>, <<0>>, <<0>>, <<0>> >>)
Node == Msg("Node", << Peer, <<1>>, <<0>>, <<0>>, <<0>>, <<1>>, <<0>>, <<0>>, <<0>>, <<0>> >>)
Network == Msg("Network", << <<0>>, <<1>>, <<1>>, <<0>>, <<0>>, <<0>> >>)

to_message(m) ==
    Msg("Message", << <<m.seq>>, Peer, <<1>>, <<1>>, m.text, <<1>>, <<0>>, <<0>>, <<1>>, <<0>>, <<>> >>)

NewerThan_SkipsOne(seq) == SelectSeq(Reverse(ui.msgs), LAMBDA m : m.seq > seq + 1)      \* mutant

\* The screen lists newest first, the app gets oldest first.
NewerThan(seq) == SelectSeq(Reverse(ui.msgs), LAMBDA m : m.seq > seq)

Answer(do, responses) == [do EXCEPT !.out = @ \o responses]
Act(do, r) == [do EXCEPT !.acts = Append(@, r)]

IsUnicast(to) == Len(to) > 1

\* node.send_message or send_broadcast, which may have no room.
SendNative(do, text, ok) ==
    IF ok THEN [Answer(do, << SendResult(do.handle + 1, 1, 0) >>) EXCEPT
                    !.handle = @ + 1, !.native = Append(@, [handle |-> do.handle + 1, text |-> text])]
    ELSE Answer(do, << SendResult(NoHandle, 0, 4) >>)

SendForeign_PostIncrement(do, text) ==      \* mutant: answers with the handle before this one
    [Answer(do, << SendResult(do.foreign, 1, 0) >>) EXCEPT
         !.foreign = @ + 1, !.sends = Append(@, [handle |-> do.foreign + 1, text |-> text])]

SendForeign(do, text) ==
    [Answer(do, << SendResult(do.foreign + 1, 1, 0) >>) EXCEPT
         !.foreign = @ + 1, !.sends = Append(@, [handle |-> do.foreign + 1, text |-> text])]

SendText(do, to, text, ok) ==
    CASE to[1] = 0 -> SendNative(do, text, ok)
      [] to[1] \in {1, 2} -> SendForeign(do, text)
      [] OTHER -> Answer(do, << SendResult(NoHandle, 0, 5) >>)

SendImage(do, to, data, ok) == IF to[1] = 0 THEN SendNative(do, data, ok) ELSE Answer(do, << Refusal(5) >>)

Trace(do, r, to, ok) ==
    CASE to[1] = 0 /\ IsUnicast(to) /\ ok -> Act(do, r)
      [] to[1] = 0 /\ IsUnicast(to) /\ ~ok -> Answer(do, << Msg("Trace", << to, <<0>>, <<0>>, <<>> >>) >>)
      [] OTHER -> Answer(do, << Refusal(5) >>)

GetMessages(do, after) ==
    LET newer == NewerThan(after)
    IN  [Answer(do, [i \in DOMAIN newer |-> to_message(newer[i])] \o << End("GetMessages") >>) EXCEPT
             !.last = IF newer # <<>> /\ Last(newer).seq > @ THEN Last(newer).seq ELSE @]

SetName(do, r) ==
    IF Blank(CleanName(r.vals[1])) THEN Answer(do, << Refusal(1) >>)
    ELSE Act(Answer(do, << End("SetName") >>), [r EXCEPT !.vals[1] = CleanName(@)])

SetSettings(do, r) ==
    IF ~InRange(r.vals) THEN Answer(do, << Refusal(1) >>)
    ELSE Act(Answer(do, << End("SetSettings") >>), [r EXCEPT !.vals[1] = CleanName(@)])

handle(do, r, ok) ==
    CASE r.type = "DecodeError" -> Answer(do, << Refusal(1) >>)
      [] r.type = "GetInfo" -> Answer(do, << Info >>)
      [] r.type = "GetNodes" -> Answer(do, << Node, End("GetNodes") >>)
      [] r.type = "SendText" -> SendText(do, r.vals[1], r.vals[3], ok)
      [] r.type = "GetNetworks" -> Answer(do, << Network, End("GetNetworks") >>)
      [] r.type = "SetMode" -> Act(Answer([do EXCEPT !.mode = r.vals[1][1]], << Status(r.vals[1][1]) >>), r)
      [] r.type = "GetStatus" -> Answer(do, << Status(do.mode) >>)
      [] r.type = "SetName" -> SetName(do, r)
      [] r.type = "SetRole" -> Answer(do, << Refusal(5) >>)
      [] r.type = "GetMessages" -> GetMessages(do, r.vals[1][1])
      [] r.type \in {"Announce", "SetTime", "SetPosition", "SetProfilePhoto"} -> Act(Answer(do, << End(r.type) >>), r)
      [] r.type \in {"Reboot", "GetSettings"} -> Act(do, r)
      [] r.type = "SendImage" -> SendImage(do, r.vals[1], r.vals[3], ok)
      [] r.type = "Trace" -> Trace(do, r, r.vals[1], ok)
      [] r.type = "SetSettings" -> SetSettings(do, r)
      [] r.type = "Ping" -> Answer(do, << Msg("Pong", r.vals) >>)

-----------------------------------------------------------------------------
(* The app's store                                                         *)

\* A task of the app sends its requests one after the other, each cut into
\* packets of its own; two tasks do not wait for each other.
Enqueue(a, requests, text) ==
    IF requests = <<>> THEN a
    ELSE [a EXCEPT !.todo = Append(@, [rest |-> <<>>, text |-> text,
                                       frames |-> [i \in DOMAIN requests |-> EncodeRequest(requests[i])]])]

\* What was not written when the link went is not sent later; a text is
\* marked as failed.
Abandon(a) ==
    [a EXCEPT !.todo = <<>>,
              !.texts = [i \in DOMAIN @ |-> IF \E k \in DOMAIN a.todo : a.todo[k].text = i
                                             THEN [@[i] EXCEPT !.state = Failure] ELSE @[i]]]

OfTypes(requests, types) == SelectSeq(requests, LAMBDA r : r.type \in types)

Refresh == OfTypes(<< Msg("GetStatus", <<>>), Msg("GetNodes", <<>>), Msg("GetNetworks", <<>>) >>, Sync)

InitialSync(a) ==
    OfTypes(<< Msg("SetTime", << <<1>> >>), Msg("GetInfo", <<>>), Msg("GetSettings", <<>>) >>, Sync)
      \o Refresh \o OfTypes(<< Msg("GetMessages", << <<a.lastSeq>> >>) >>, Sync)

OnMessage_ShowsAgain(a, seq, text) ==      \* mutant: no look at what is shown
    [a EXCEPT !.lastSeq = IF seq > @ THEN seq ELSE @, !.shown = Append(@, [seq |-> seq, text |-> text])]

OnMessage(a, seq, text) ==
    IF seq <= a.lastSeq /\ \E i \in DOMAIN a.shown : a.shown[i] = [seq |-> seq, text |-> text] THEN a
    ELSE [a EXCEPT !.lastSeq = IF seq > @ THEN seq ELSE @, !.shown = Append(@, [seq |-> seq, text |-> text])]

\* The result goes to the last of the user's texts that has none.
OnSendResult(a, h, ok) ==
    LET waiting == {i \in DOMAIN a.texts : a.texts[i].handle = Unknown /\ a.texts[i].state = Queued}
        i == CHOOSE x \in waiting : \A y \in waiting : y <= x
        state == CASE ok = 0 -> Failure [] ok # 0 /\ a.texts[i].broadcast -> Sent [] OTHER -> Queued
    IN  IF waiting = {} THEN a
        ELSE [a EXCEPT !.texts[i] = [@ EXCEPT !.handle = h, !.state = state]]

OnDelivery(a, h, state) ==
    [a EXCEPT !.texts = [i \in DOMAIN @ |-> IF @[i].handle = h THEN [@[i] EXCEPT !.state = state] ELSE @[i]]]

OnResponse(a, r) ==
    CASE r.type = "Message" -> OnMessage(a, r.vals[1][1], r.vals[5])
      [] r.type = "SendResult" -> OnSendResult(a, r.vals[1][1], r.vals[2][1])
      [] r.type = "DeliveryUpdate" -> OnDelivery(a, r.vals[1][1], r.vals[2][1])
      [] r.type = "Status" -> [a EXCEPT !.mode = r.vals[1][1]]
      [] r.type = "ModeChanged" /\ a.mode # Unknown -> Enqueue(a, Refresh, 0)
      [] OTHER -> a

Received(a, f) ==
    Iterate(LAMBDA b, i : OnResponse(b, DecodeResponse(f.out[i])), [a EXCEPT !.buf = f.buf], Len(f.out))

-----------------------------------------------------------------------------
(* History: frames in the order they must come out at the other end        *)

Bodies(frames) == [i \in DOMAIN frames |-> SubSeq(frames[i], 3, Len(frames[i]))]

\* A frame over the limit is skipped by the Framer at the other end.
Fitting(bodies) == SelectSeq(bodies, LAMBDA b : Len(b) <= MaxFrame)

\* A request is owed from its first packet on, unless another one is under way.
OweRequest(g, frame, alone) ==
    CASE g.cut -> g
      [] ~g.cut /\ ~alone -> [g EXCEPT !.cut = TRUE, !.owedReq = <<>>, !.owedResp = <<>>]
      [] OTHER -> [g EXCEPT !.owedReq = @ \o Fitting(Bodies(<< frame >>))]

OweResponses(g, responses) ==
    IF g.cut THEN g
    ELSE [g EXCEPT !.owedResp = @ \o Fitting([i \in DOMAIN responses |-> body(Response, responses[i])])]

TakeRequests(g, frames) ==
    IF g.cut THEN g
    ELSE [g EXCEPT !.garbled = @ \/ ~IsPrefix(frames, g.owedReq),
                   !.owedReq = SubSeq(@, Len(frames) + 1, Len(@))]

TakeResponses(g, frames) ==
    IF g.cut THEN g
    ELSE [g EXCEPT !.garbled = @ \/ ~IsPrefix(frames, g.owedResp),
                   !.owedResp = SubSeq(@, Len(frames) + 1, Len(@))]

\* The link is gone: what is still owed is what is whole on either side.
Sever(g, half) ==
    IF g.cut \/ half THEN [g EXCEPT !.cut = TRUE, !.owedReq = <<>>, !.owedResp = <<>>]
    ELSE [g EXCEPT !.owedReq = push(svc.buf, ble_rx).out]

-----------------------------------------------------------------------------
(* The app and the link                                                    *)

Connect ==
    /\ link = "down"
    /\ link' = "up"
    /\ UNCHANGED <<app, ble_rx, svc, tx_pending, ui, radio, saved, spent, ghost>>

\* Notifications enabled: the link is usable and the first requests go out.
Subscribe ==
    /\ link = "up"
    /\ link' = "subscribed"
    /\ app' = Enqueue(app, InitialSync(app), 0)
    /\ ghost' = [ghost EXCEPT !.syncing = TRUE]
    /\ UNCHANGED <<ble_rx, svc, tx_pending, ui, radio, saved, spent>>

IsText(r) == r.type = "SendText"
Waiting(a) == \E i \in DOMAIN a.texts : a.texts[i].handle = Unknown /\ a.texts[i].state = Queued

Ask(name) ==
    LET r == Asks[name]
        mine == [text |-> r.vals[3], broadcast |-> ~IsUnicast(r.vals[1]), handle |-> Unknown, state |-> Queued]
        noted == IF IsText(r) THEN [app EXCEPT !.texts = Append(@, mine)] ELSE app
    IN  /\ link = "subscribed"
        /\ Within("stimuli", MaxStimuli)
        /\ app' = Enqueue(noted, << r >>, IF IsText(r) THEN Len(noted.texts) ELSE 0)
        /\ ghost' = [ghost EXCEPT !.overlapped = @ \/ (IsText(r) /\ Waiting(app))]
        /\ Spend("stimuli")
        /\ UNCHANGED <<link, ble_rx, svc, tx_pending, ui, radio, saved>>

\* One packet of the request that task i is at.
WritePacket(i) ==
    LET t == app.todo[i]
        starts == t.rest = <<>>
        frame == IF starts THEN Head(t.frames) ELSE t.rest
        rest == AfterChunk(frame, Packet)
        frames == IF starts THEN Tail(t.frames) ELSE t.frames
        alone == \A k \in DOMAIN app.todo \ {i} : app.todo[k].rest = <<>>
    IN  /\ link = "subscribed"
        /\ ble_rx' = ble_rx \o Chunk(frame, Packet)
        /\ app' = [app EXCEPT !.todo = IF rest = <<>> /\ frames = <<>> THEN RemoveAt(@, i)
                                       ELSE [@ EXCEPT ![i] = [t EXCEPT !.rest = rest, !.frames = frames]]]
        /\ ghost' = IF starts THEN OweRequest(ghost, frame, alone) ELSE ghost
        /\ UNCHANGED <<link, svc, tx_pending, ui, radio, saved, spent>>

GotMessagesEnd(frames) == \E i \in DOMAIN frames : frames[i] = body(Response, End("GetMessages"))

\* Out of range: whatever is under way is lost.
Drop ==
    /\ link \in {"up", "subscribed"}
    /\ Within("drops", MaxDrops)
    /\ link' = "lost"
    /\ app' = Abandon(app)
    /\ ghost' = [Sever(ghost, app.buf # <<>> \/ push(svc.buf, ble_rx).buf # <<>>) EXCEPT
                    !.interrupted = @ \/ ghost.syncing]
    /\ Spend("drops")
    /\ UNCHANGED <<ble_rx, svc, tx_pending, ui, radio, saved>>

-----------------------------------------------------------------------------
(* The node's loop                                                         *)

Encoded(responses) == FlattenSeq([i \in DOMAIN responses |-> EncodeResponse(responses[i])])

\* feed: every complete request in turn.
Fed(frames, ok) ==
    Iterate(LAMBDA do, i : handle(do, DecodeRequest(frames[i]), ok[i]),
            [out |-> <<>>, acts |-> <<>>, sends |-> <<>>, native |-> <<>>, mode |-> svc.mode,
             last |-> svc.last_pushed_seq, foreign |-> svc.foreign, handle |-> radio.handle],
            Len(frames))

\* Which requests the node itself accepts: sends and traces may fail.
Verdicts(frames) ==
    {ok \in [DOMAIN frames -> BOOLEAN] :
        \A i \in DOMAIN frames : ok[i] \/ DecodeRequest(frames[i]).type \in {"SendText", "SendImage", "Trace"}}

OneIf(P) == IF P THEN BOOLEAN ELSE {TRUE}

Save(fw, st, writes) == [fw EXCEPT !.running = st, !.flash = IF writes THEN Stored(st) ELSE @]

\* What the loop does for one action; after a reset nothing more is done.
\* The actions on the node's clock, position and photo do not show here.
perform(fw, r, writes) ==
    CASE fw.reset # "no" -> fw
      [] fw.reset = "no" /\ r.type = "SetMode" ->
           [Save(fw, [fw.running EXCEPT ![5] = r.vals[1]], writes) EXCEPT !.mode = r.vals[1][1]]
      [] fw.reset = "no" /\ r.type = "SetName" -> Save(fw, [fw.running EXCEPT ![1] = r.vals[1]], writes)
      [] fw.reset = "no" /\ r.type = "GetSettings" -> [fw EXCEPT !.out = Append(@, Msg("Settings", fw.running))]
      [] fw.reset = "no" /\ r.type = "SetSettings" -> [Save(fw, r.vals, writes) EXCEPT !.reset = "drained"]
      [] fw.reset = "no" /\ r.type = "Reboot" -> [fw EXCEPT !.reset = "now"]
      [] OTHER -> fw

Performed(acts, writes) ==
    Iterate(LAMBDA fw, i : perform(fw, acts[i], writes),
            [mode |-> radio.mode, running |-> saved.running, flash |-> saved.flash, out |-> <<>>, reset |-> "no"],
            Len(acts))

\* The foreign sends of a batch: encoded and put on the air, or not.
foreign_sent(sends, sent) ==
    [i \in DOMAIN sends |-> DeliveryUpdate(sends[i].handle, IF sent THEN Sent ELSE Failure, IF sent THEN 0 ELSE 6)]

\* The messages after the last one pushed.
push_new_messages(last) ==
    LET newer == NewerThan(last)
    IN  [out |-> [i \in DOMAIN newer |-> to_message(newer[i])],
         last |-> IF newer = <<>> THEN last ELSE Last(newer).seq]

Elements(seq) == {seq[i] : i \in DOMAIN seq}

\* Without one of these an iteration changes nothing.
HasWork == \/ <<ble_rx, svc.out, tx_pending>> # << <<>>, <<>>, <<>> >>
           \/ link = "lost"
           \/ ui.total_msgs > svc.last_pushed_seq

\* The queue that is sent from is refilled when it is empty; without a
\* subscriber, or on a lost link, it is emptied.  A packet notified is
\* received: losing it with the link is the same as a loss just before.
Serve ==
    /\ HasWork
    /\ \E f \in {push(svc.buf, ble_rx)} :
       \E ok \in Verdicts(f.out) :
       \E fed \in {Fed(f.out, ok)} :
       \E news \in {push_new_messages(fed.last)} :
       \E writes \in OneIf(fed.acts # <<>>), sent \in OneIf(fed.sends # <<>>) :
       \E did \in {Performed(fed.acts, writes)} :
       \E responses \in {fed.out \o did.out \o foreign_sent(fed.sends, sent) \o news.out} :
       \E out \in {svc.out \o Encoded(responses)} :
       \E queue \in {IF tx_pending = <<>> THEN out ELSE tx_pending},
          kept \in {IF tx_pending = <<>> THEN <<>> ELSE out},
          owed \in {OweResponses(TakeRequests(ghost, f.out), responses)} :
       \E got \in {push(app.buf, IF link = "subscribed" THEN Chunk(queue, Packet) ELSE <<>>)} :
           /\ did.reset = "no"
           /\ svc' = [buf |-> f.buf, out |-> kept, mode |-> fed.mode, last_pushed_seq |-> news.last,
                      foreign |-> fed.foreign]
           /\ ble_rx' = <<>>
           /\ saved' = [running |-> did.running, flash |-> did.flash]
           /\ radio' = [mode |-> did.mode, handle |-> fed.handle,
                        open |-> radio.open \cup {n.handle : n \in Elements(fed.native)}]
           /\ tx_pending' = IF link = "subscribed" THEN AfterChunk(queue, Packet) ELSE <<>>
           /\ app' = Received(app, got)
           /\ link' = IF link = "lost" THEN "down" ELSE link
           /\ ghost' = [TakeResponses(owed, got.out) EXCEPT
                !.owedResp = IF link = "subscribed" THEN @ ELSE IF owed.cut THEN <<>> ELSE push(<<>>, kept).out,
                !.syncing = @ /\ ~GotMessagesEnd(got.out),
                !.accepted = @ \cup Elements(fed.native) \cup Elements(fed.sends),
                !.delivered = @ \cup (IF sent THEN {n.handle : n \in Elements(fed.sends)} ELSE {})]
           /\ UNCHANGED <<ui, spent>>

\* A restart: everything but the flash and the app starts anew.
Reset(flash, a, g) ==
    /\ link' = "down"
    /\ app' = Abandon(a)
    /\ ble_rx' = <<>> /\ tx_pending' = <<>>
    /\ svc' = FreshService(Loaded(flash))
    /\ ui' = [msgs |-> <<>>, total_msgs |-> 0]
    /\ radio' = FreshRadio(Loaded(flash))
    /\ saved' = [running |-> Loaded(flash), flash |-> flash]
    /\ Spend("restarts")
    /\ ghost' = [g EXCEPT !.owedReq = <<>>, !.owedResp = <<>>, !.cut = @ \/ a.buf # <<>>, !.accepted = {},
                          !.delivered = {}, !.carried = @ \/ a.lastSeq > 0 \/ a.texts # <<>>,
                          !.syncing = FALSE]

\* A batch with a REBOOT or SET_SETTINGS in it: before the latter restarts
\* the node, the queued frames go out.
ServeAndRestart ==
    /\ Within("restarts", MaxRestarts)
    /\ \E f \in {push(svc.buf, ble_rx)} :
       \E fed \in {Fed(f.out, [i \in DOMAIN f.out |-> TRUE])}, writes \in BOOLEAN :
       \E did \in {Performed(fed.acts, writes)} :
       \E last \in {IF did.reset = "drained" /\ link = "subscribed"
                    THEN tx_pending \o svc.out \o Encoded(fed.out \o did.out) ELSE <<>>} :
       \E got \in {push(app.buf, last)} :
       \E a \in {Received(app, got)},
          g \in {OweResponses(TakeRequests(ghost, f.out), fed.out \o did.out)} :
           /\ did.reset # "no"
           /\ Reset(did.flash, a, TakeResponses(g, got.out))

Restart ==
    /\ Within("restarts", MaxRestarts)
    /\ Reset(saved.flash, app, ghost)

\* A text arrives by radio.
push_msg(text) ==
    /\ Within("msgs", MaxMsgs)
    /\ ui' = [total_msgs |-> ui.total_msgs + 1,
              msgs |-> << [seq |-> ui.total_msgs + 1, text |-> text] >> \o Chunk(ui.msgs, Keep - 1)]
    /\ Spend("msgs")
    /\ UNCHANGED <<link, app, ble_rx, svc, tx_pending, radio, saved, ghost>>

Push(response) ==
    /\ svc' = [svc EXCEPT !.out = @ \o EncodeResponse(response)]
    /\ UNCHANGED <<link, app, ble_rx, tx_pending, ui, saved>>

\* on_event for a message of ours.
Outcome(h, delivered) ==
    /\ h \in radio.open
    /\ LET r == DeliveryUpdate(h, IF delivered THEN Delivered ELSE Failure, IF delivered THEN 0 ELSE 10)
       IN  /\ Push(r)
           /\ ghost' = [OweResponses(ghost, << r >>) EXCEPT !.delivered = IF delivered THEN @ \cup {h} ELSE @]
    /\ radio' = [radio EXCEPT !.open = @ \ {h}]
    /\ UNCHANGED spent

\* on_event, on_trace and on_image.
on_event(r) ==
    /\ Within("stimuli", MaxStimuli)
    /\ Push(r)
    /\ ghost' = OweResponses(ghost, << r >>)
    /\ Spend("stimuli")
    /\ UNCHANGED radio

\* CycleCompat, by the button.
CycleCompat ==
    /\ Within("stimuli", MaxStimuli)
    /\ LET mode == (radio.mode + 1) % 4
           r == Msg("ModeChanged", << <<mode>> >>)
       IN  /\ radio' = [radio EXCEPT !.mode = mode]
           /\ svc' = [svc EXCEPT !.mode = mode, !.out = @ \o EncodeResponse(r)]
           /\ ghost' = OweResponses(ghost, << r >>)
    /\ Spend("stimuli")
    /\ UNCHANGED <<link, app, ble_rx, tx_pending, ui, saved>>

\* The console's compat command: the service is not told.
ConsoleCompat ==
    /\ Within("stimuli", MaxStimuli)
    /\ \E mode \in ConsoleModes \ {radio.mode} : radio' = [radio EXCEPT !.mode = mode]
    /\ Spend("stimuli")
    /\ UNCHANGED <<link, app, ble_rx, svc, tx_pending, ui, saved, ghost>>

Next == \/ Connect \/ Subscribe \/ Drop
        \/ \E i \in DOMAIN app.todo : WritePacket(i)
        \/ \E name \in DOMAIN Asks : Ask(name)
        \/ Serve \/ ServeAndRestart \/ Restart
        \/ \E text \in Texts : push_msg(text)
        \/ \E h \in radio.open, delivered \in BOOLEAN : Outcome(h, delivered)
        \/ \E i \in DOMAIN News : on_event(News[i])
        \/ CycleCompat \/ ConsoleCompat

Spec == Init /\ [][Next]_vars

-----------------------------------------------------------------------------
(* Properties                                                              *)

\* Whatever the packets are split into, and whatever bytes the payloads
\* hold, each side takes from the stream exactly the frames the other side
\* put into it, in order, skipping only those over the limit (Framer::push,
\* the codec, chunks) - until a link has dropped in the middle of a frame,
\* for neither side empties its Framer then, or two tasks of the app have
\* mixed the packets of two requests, for send() does not keep others out.
FramedWhole == ~ghost.garbled

Quiet == /\ link = "subscribed" /\ ~ghost.syncing
         /\ <<app.todo, ble_rx, svc.out, tx_pending>> = << <<>>, <<>>, <<>>, <<>> >>
         /\ svc.last_pushed_seq = ui.total_msgs

\* When the link has come to rest the app shows every message the node
\* keeps (push_new_messages, GET_MESSAGES), provided no link dropped in the
\* middle of a frame or of the catching up, and the node has not restarted
\* under an app that knew its numbers.
CaughtUp ==
    Quiet /\ ~ghost.cut /\ ~ghost.interrupted /\ ~ghost.carried =>
        \A m \in Elements(ui.msgs) : m \in Elements(app.shown)

\* History and live delivery overlap, but the app shows a message once.
ShownOnce == \A i, j \in DOMAIN app.shown : app.shown[i] = app.shown[j] => i = j

\* The handle the app files under a text is the one the node gave that text
\* (as far as a string goes),
\* and a text reported delivered was, provided the app never had two texts
\* waiting for their result, and handles were not reused after a restart.
HandleBelongsToText ==
    ~ghost.overlapped /\ ~ghost.carried /\ ~ghost.cut =>
        \A t \in Elements(app.texts) :
            /\ t.handle > NoHandle => [handle |-> t.handle, text |-> Chunk(t.text, Cut(t.text))] \in ghost.accepted
            /\ t.state = Delivered => t.handle \in ghost.delivered
=============================================================================

--------------------------- MODULE MailboxProofs ---------------------------
(***************************************************************************)
(* Proofs, for every set of hosts and envelopes, that Delivered means      *)
(* opened, that stored mail is kept until it is handed off, and that the   *)
(* leaf opens an envelope once while it can remember them all.             *)
(***************************************************************************)
EXTENDS Mailbox, FiniteSetTheorems, TLAPS

\* Time for the provers.
USE ZenonT(10), SMTT(15)

\* An envelope is safe: opened, or somewhere, or given up by a host that said so.
Safe(e) ==
    \/ received[e] > 0
    \/ e \in discarded \cup handedOff
    \/ \E h \in Hosts : e \in Kept(h)

\* What each kind of frame on the air implies.
FrameInv(f) ==
    /\ f.kind \in {"ACK", "MAILBOX_ACK"} => received[f.env] > 0
    /\ f.kind = "STORE_ACCEPTED" => Safe(f.env)
    /\ f.kind = "STORE" => f.env \in handedOff \/ f.from = Sender
    /\ f.kind = "STORE_ACCEPTED" => f.env \in handedOff \/ f.to = Sender
    /\ f.to = Sender => f.kind \in {"STORE_ACCEPTED", "STORE_REJECTED", "ACK"}

AirInv == \A f \in air : FrameInv(f)

SentInv == \A e \in Envelopes : /\ sent[e].state = "delivered" => received[e] > 0
                                /\ sent[e].state = "stored" => Safe(e)

OpenedInv == \A i \in 1 .. Len(opened) : received[opened[i]] > 0

\* The inductive invariant: that Delivered and Stored are true when they are
\* reported follows from what the answers under way say.
IInv == TypeOK /\ AirInv /\ SentInv /\ OpenedInv

LEMMA InitIInv == Init => IInv
<1> SUFFICES ASSUME Init PROVE IInv
    OBVIOUS
<1> USE MailboxAssumption DEF Init
<1>1. Empty \in [{} -> 0 .. max_delivery_attempts]
    BY DEF Empty
<1>2. Empty \in Boxes
    BY <1>1 DEF Boxes
<1>3. TypeOK
    BY <1>2, SMTT(15) DEF TypeOK, SentStates
<1>4. AirInv /\ SentInv /\ OpenedInv
    BY SMTT(15) DEF AirInv, SentInv, OpenedInv
<1> QED BY <1>3, <1>4 DEF IInv

\* The contents of a mailbox under the operations of hosts.
LEMMA BoxFacts ==
    ASSUME NEW m \in Boxes
    PROVE  /\ DOMAIN m \subseteq Envelopes
           /\ \A e \in DOMAIN m : m[e] \in 0 .. max_delivery_attempts
           /\ \A S : Without(m, S) \in Boxes /\ DOMAIN Without(m, S) = DOMAIN m \ S
           /\ \A e \in Envelopes : With(m, e) \in Boxes /\ DOMAIN With(m, e) = DOMAIN m \cup {e}
           /\ \A S \in SUBSET DeliverableIn(m) : Tried(m, S) \in Boxes /\ DOMAIN Tried(m, S) = DOMAIN m
<1> USE MailboxAssumption
<1>1. PICK D \in SUBSET Envelopes : m \in [D -> 0 .. max_delivery_attempts]
    BY DEF Boxes
<1>2. ASSUME NEW S PROVE Without(m, S) \in Boxes /\ DOMAIN Without(m, S) = DOMAIN m \ S
  <2>1. Without(m, S) \in [D \ S -> 0 .. max_delivery_attempts]
      BY <1>1 DEF Without
  <2> QED BY <2>1, <1>1 DEF Boxes
<1>3. ASSUME NEW e \in Envelopes PROVE With(m, e) \in Boxes /\ DOMAIN With(m, e) = DOMAIN m \cup {e}
  <2>1. With(m, e) \in [D \cup {e} -> 0 .. max_delivery_attempts]
      BY <1>1, SMTT(15) DEF With
  <2> QED BY <2>1, <1>1, SMTT(15) DEF Boxes
<1>4. ASSUME NEW S \in SUBSET DeliverableIn(m) PROVE Tried(m, S) \in Boxes /\ DOMAIN Tried(m, S) = DOMAIN m
  <2>1. Tried(m, S) \in [D -> 0 .. max_delivery_attempts]
      BY <1>1, SMTT(15) DEF Tried, DeliverableIn
  <2> QED BY <2>1, <1>1 DEF Boxes
<1> QED BY <1>1, <1>2, <1>3, <1>4

LEMMA FrameFields ==
    ASSUME NEW k, NEW x, NEW y, NEW e
    PROVE  /\ Frame(k, x, y, e).kind = k /\ Frame(k, x, y, e).from = x
           /\ Frame(k, x, y, e).to = y /\ Frame(k, x, y, e).env = e
           /\ k \in {"STORE", "DATA", "STORE_ACCEPTED", "STORE_REJECTED", "ACK", "MAILBOX_ACK"}
              /\ x \in Parties /\ y \in Parties /\ e \in Envelopes => Frame(k, x, y, e) \in Frames
    BY DEF Frame, Frames

\* The frames of sender and hosts that promise nothing.
LEMMA NewFrames ==
    /\ \A h \in Hosts, e \in Envelopes : Store(Sender, h, e) \in Frames /\ FrameInv(Store(Sender, h, e))'
    /\ \A x \in Hosts \cup {Sender}, e \in Envelopes : Data(x, e) \in Frames /\ FrameInv(Data(x, e))'
<1> USE MailboxAssumption
<1>1. ASSUME NEW h \in Hosts, NEW e \in Envelopes
      PROVE  Store(Sender, h, e) \in Frames /\ FrameInv(Store(Sender, h, e))'
    BY FrameFields, SMTT(15) DEF Store, FrameInv, Parties
<1>2. ASSUME NEW x \in Hosts \cup {Sender}, NEW e \in Envelopes
      PROVE  Data(x, e) \in Frames /\ FrameInv(Data(x, e))'
    BY FrameFields, SMTT(15) DEF Data, FrameInv, Parties
<1> QED BY <1>1, <1>2

\* While receipts, collected and handed-off mail only grow, and nothing else
\* that is kept disappears, what is safe stays safe and old frames stay true.
LEMMA SafeStays ==
    ASSUME TypeOK, \A e \in Envelopes : received[e] > 0 => received'[e] > 0,
           discarded \subseteq discarded', handedOff \subseteq handedOff',
           \A h \in Hosts : \A e \in DOMAIN mailbox[h] :
               e \in DOMAIN mailbox'[h] \/ received'[e] > 0 \/ e \in discarded' \cup handedOff'
    PROVE  /\ \A e \in Envelopes : Safe(e) => Safe(e)'
           /\ \A f \in Frames : FrameInv(f) => FrameInv(f)'
<1>1. ASSUME NEW e \in Envelopes, Safe(e) PROVE Safe(e)'
    BY <1>1 DEF Safe, Kept
<1>2. ASSUME NEW f \in Frames, FrameInv(f) PROVE FrameInv(f)'
  <2>1. f.env \in Envelopes
      BY DEF Frames
  <2> QED BY <1>1, <1>2, <2>1 DEF FrameInv
<1> QED BY <1>1, <1>2

\* Steps of the sender that expect no answer: what they send promises nothing,
\* and they report neither Delivered nor Stored.
LEMMA SenderKeeps ==
    ASSUME IInv, NEW e \in Envelopes,
           seal_and_send_envelope(e) \/ tick(e) \/ session_dropped(e) \/ on_discovery_failed(e)
    PROVE  IInv'
<1> USE MailboxAssumption
<1> DEFINE Sends == {Store(Sender, h, e) : h \in Hosts} \cup {Data(Sender, e)}
<1>1. /\ air' \subseteq air \cup Sends
      /\ UNCHANGED <<mailbox, hears, anchor_for, opened, received, discarded, handedOff>>
    BY DEF seal_and_send_envelope, tick, session_dropped, on_discovery_failed, deliver_envelope, leafVars, zoneVars
<1>2. /\ sent' \in [Envelopes -> [state : SentStates, attempts : 0 .. MaxAttempts]]
      /\ \A x \in Envelopes : sent'[x].state \in {"delivered", "stored"} => sent'[x].state = sent[x].state
  <2>1. /\ sent[e] \in [state : SentStates, attempts : 0 .. MaxAttempts]
        /\ sent \in [Envelopes -> [state : SentStates, attempts : 0 .. MaxAttempts]]
      BY DEF IInv, TypeOK
  <2>2. /\ sent' \in [Envelopes -> [state : SentStates, attempts : 0 .. MaxAttempts]]
        /\ sent'[e].state \in {"waiting", "failed", "lapsed", "forgotten"}
        /\ \A x \in Envelopes \ {e} : sent'[x] = sent[x]
    <3>1. CASE seal_and_send_envelope(e)
        BY <3>1, <2>1, SMTT(15) DEF seal_and_send_envelope, SentStates
    <3>2. CASE tick(e)
      <4>1. CASE sent[e].state = "waiting" /\ sent[e].attempts < MaxAttempts /\ sent' = [sent EXCEPT ![e].attempts = @ + 1]
          BY <4>1, <2>1, SMTT(15) DEF SentStates
      <4>2. CASE sent' = [sent EXCEPT ![e].state = "failed"] \/ sent' = [sent EXCEPT ![e].state = "lapsed"]
          BY <4>2, <2>1, SMTT(15) DEF SentStates
      <4> QED BY <3>2, <4>1, <4>2 DEF tick
    <3>3. CASE session_dropped(e) \/ on_discovery_failed(e)
        BY <3>3, <2>1, SMTT(15) DEF session_dropped, on_discovery_failed, SentStates
    <3> QED BY <3>1, <3>2, <3>3
  <2> QED BY <2>1, <2>2
<1>3. Sends \subseteq Frames /\ \A f \in Sends : FrameInv(f)'
    BY NewFrames
<1>4. /\ \A x \in Envelopes : Safe(x) => Safe(x)'
      /\ \A f \in Frames : FrameInv(f) => FrameInv(f)'
    BY <1>1, SafeStays DEF IInv
<1>5. TypeOK'
    BY <1>1, <1>2, <1>3 DEF IInv, TypeOK
<1>6. AirInv'
    BY <1>1, <1>3, <1>4 DEF IInv, TypeOK, AirInv
<1>7. SentInv' /\ OpenedInv'
    BY <1>1, <1>2, <1>4 DEF IInv, SentInv, OpenedInv
<1> QED BY <1>5, <1>6, <1>7 DEF IInv

\* An answer at the sender: what it reports is what the frame implies.
LEMMA SenderAnsweredKeeps == IInv /\ sender_answered => IInv'
<1> SUFFICES ASSUME IInv, sender_answered PROVE IInv'
    OBVIOUS
<1>1. PICK f \in air : /\ f.to = Sender /\ air' = air \ {f}
                       /\ sent' = IF sent[f.env].state \in {"waiting", "stored"}
                                  THEN [sent EXCEPT ![f.env].state = AckedStates(f.kind)] ELSE sent
    BY DEF sender_answered
<1>2. UNCHANGED <<mailbox, hears, anchor_for, opened, received, discarded, handedOff>>
    BY DEF sender_answered, leafVars, zoneVars
<1>3. /\ f \in Frames /\ f.env \in Envelopes /\ FrameInv(f)
      /\ f.kind \in {"STORE_ACCEPTED", "STORE_REJECTED", "ACK"}
    BY <1>1 DEF IInv, TypeOK, AirInv, FrameInv, Frames
<1>4. /\ AckedStates(f.kind) \in {"stored", "failed", "delivered"}
      /\ AckedStates(f.kind) = "delivered" => f.kind = "ACK"
      /\ AckedStates(f.kind) = "stored" => f.kind = "STORE_ACCEPTED"
    BY <1>3 DEF AckedStates
<1>5. /\ \A x \in Envelopes : Safe(x) => Safe(x)'
      /\ \A g \in Frames : FrameInv(g) => FrameInv(g)'
    BY <1>2, SafeStays DEF IInv
<1>6. sent' \in [Envelopes -> [state : SentStates, attempts : 0 .. MaxAttempts]]
    BY <1>1, <1>3, <1>4 DEF IInv, TypeOK, SentStates
<1>7. TypeOK'
    BY <1>1, <1>2, <1>6 DEF IInv, TypeOK
<1>8. AirInv' /\ OpenedInv'
    BY <1>1, <1>2, <1>5 DEF IInv, TypeOK, AirInv, OpenedInv
<1>9. SentInv'
  <2> SUFFICES ASSUME NEW x \in Envelopes
               PROVE  /\ sent'[x].state = "delivered" => received'[x] > 0
                      /\ sent'[x].state = "stored" => Safe(x)'
      BY DEF SentInv
  <2>1. CASE sent'[x] = sent[x]
      BY <2>1, <1>2, <1>5 DEF IInv, SentInv
  <2>2. CASE x = f.env /\ sent'[x].state = AckedStates(f.kind)
      BY <2>2, <1>2, <1>3, <1>4, <1>5 DEF FrameInv
  <2> QED BY <2>1, <2>2, <1>1, <1>3 DEF IInv, TypeOK
<1> QED BY <1>7, <1>8, <1>9 DEF IInv

\* A host that counts attempts and sends DATA, with frames that hold anyway.
LEMMA DeliveryKeeps ==
    ASSUME IInv, NEW h \in Hosts, NEW S \in SUBSET Deliverable(h), NEW more \in SUBSET Frames,
           \A f \in more : FrameInv(f)',
           mailbox' = [mailbox EXCEPT ![h] = Tried(@, S)], air' = air \cup more,
           hears' \in [Hosts -> BOOLEAN], handedOff' \subseteq Envelopes, handedOff \subseteq handedOff',
           UNCHANGED <<anchor_for, sent, opened, received, discarded>>
    PROVE  IInv'
<1>1. mailbox[h] \in Boxes
    BY DEF IInv, TypeOK
<1>2. Tried(mailbox[h], S) \in Boxes /\ DOMAIN Tried(mailbox[h], S) = DOMAIN mailbox[h]
    BY <1>1, BoxFacts DEF Deliverable
<1>3. mailbox' \in [Hosts -> Boxes] /\ \A g \in Hosts : DOMAIN mailbox'[g] = DOMAIN mailbox[g]
    BY <1>2 DEF IInv, TypeOK
<1>4. /\ \A x \in Envelopes : Safe(x) => Safe(x)'
      /\ \A g \in Frames : FrameInv(g) => FrameInv(g)'
    BY <1>3, SafeStays DEF IInv
<1>5. TypeOK'
    BY <1>3 DEF IInv, TypeOK
<1>6. AirInv' /\ SentInv' /\ OpenedInv'
    BY <1>4 DEF IInv, TypeOK, AirInv, SentInv, OpenedInv
<1> QED BY <1>5, <1>6 DEF IInv

LEMMA FlushKeeps ==
    ASSUME IInv, NEW h \in Hosts, flush_mailbox_to(h) \/ leaf_beacon(h)
    PROVE  IInv'
<1>1. PICK S \in SUBSET Deliverable(h) : /\ mailbox' = [mailbox EXCEPT ![h] = Tried(@, S)]
                                         /\ air' = air \cup {Data(h, e) : e \in S}
    BY DEF flush_mailbox_to, leaf_beacon
<1>2. UNCHANGED <<anchor_for, sent, opened, received, discarded, handedOff>>
    BY DEF flush_mailbox_to, leaf_beacon, zoneVars, leafVars
<1>3. hears' \in [Hosts -> BOOLEAN] /\ handedOff' \subseteq Envelopes
    BY <1>2 DEF flush_mailbox_to, leaf_beacon, zoneVars, IInv, TypeOK
<1>4. S \subseteq Envelopes
    BY BoxFacts DEF Deliverable, DeliverableIn, IInv, TypeOK
<1>5. {Data(h, e) : e \in S} \in SUBSET Frames /\ \A f \in {Data(h, e) : e \in S} : FrameInv(f)'
    BY <1>4, NewFrames
<1> QED BY <1>1, <1>2, <1>3, <1>5, DeliveryKeeps

\* A hand-off: the frames name mail that is recorded as handed off.
LEMMA HandOffKeeps ==
    ASSUME IInv, NEW h \in Hosts, hand_off(h)
    PROVE  IInv'
<1> USE MailboxAssumption
<1>1. PICK S \in SUBSET Deliverable(h) : /\ mailbox' = [mailbox EXCEPT ![h] = Tried(@, S)]
                                         /\ air' = air \cup {Store(h, anchor_for[h], e) : e \in S}
                                         /\ handedOff' = handedOff \cup S
    BY DEF hand_off
<1>2. UNCHANGED <<hears, anchor_for, sent, opened, received, discarded>>
    BY DEF hand_off, zoneVars, leafVars
<1>a. PICK a \in Hosts : a = anchor_for[h]
    BY DEF hand_off
<1>3. S \subseteq Envelopes
    BY BoxFacts DEF Deliverable, DeliverableIn, IInv, TypeOK
<1> DEFINE more == {Store(h, a, e) : e \in S}
<1>4. ASSUME NEW e \in S PROVE Store(h, a, e) \in Frames /\ FrameInv(Store(h, a, e))'
  <2>1. Store(h, a, e) \in Frames
      BY <1>3, FrameFields DEF Store, Parties
  <2>2. /\ Store(h, a, e).kind = "STORE" /\ Store(h, a, e).env = e
        /\ Store(h, a, e).to # Sender
      BY FrameFields, SMTT(15) DEF Store
  <2> QED BY <2>1, <2>2, <1>1 DEF FrameInv
<1>5. more \in SUBSET Frames /\ \A f \in more : FrameInv(f)'
    BY <1>4
<1>6. hears' \in [Hosts -> BOOLEAN] /\ handedOff' \subseteq Envelopes /\ handedOff \subseteq handedOff'
    BY <1>1, <1>2, <1>3 DEF IInv, TypeOK
<1>7. air' = air \cup more
    BY <1>1, <1>a
<1> HIDE DEF more
<1> QED BY <1>1, <1>2, <1>5, <1>6, <1>7, DeliveryKeeps

\* A deposit or a hand-off arrives; the answer is true of this host.
LEMMA StoreKeeps ==
    ASSUME IInv, NEW h \in Hosts, handle_store(h)
    PROVE  IInv'
<1> USE MailboxAssumption
<1>a. PICK f \in air : \E result \in StoreResults(h, f.env) :
          /\ f.kind = "STORE"
          /\ LET m == With(mailbox[h], f.env)
                 reply == Frame(IF result = "STORED" THEN "STORE_ACCEPTED" ELSE result, h, f.from, f.env)
             IN  \/ /\ result # "STORED"
                    /\ air' = (air \ {f}) \cup {reply}
                    /\ UNCHANGED mailbox
                 \/ /\ result = "STORED"
                    /\ \E S \in IF hears[h] THEN SUBSET DeliverableIn(m) ELSE {{}} :
                           /\ mailbox' = [mailbox EXCEPT ![h] = Tried(m, S)]
                           /\ air' = (air \ {f}) \cup {reply} \cup {Data(h, e) : e \in S}
    BY DEF handle_store
<1>1. PICK result \in StoreResults(h, f.env) :
          /\ f.kind = "STORE"
          /\ LET m == With(mailbox[h], f.env)
                 reply == Frame(IF result = "STORED" THEN "STORE_ACCEPTED" ELSE result, h, f.from, f.env)
             IN  \/ /\ result # "STORED"
                    /\ air' = (air \ {f}) \cup {reply}
                    /\ UNCHANGED mailbox
                 \/ /\ result = "STORED"
                    /\ \E S \in IF hears[h] THEN SUBSET DeliverableIn(m) ELSE {{}} :
                           /\ mailbox' = [mailbox EXCEPT ![h] = Tried(m, S)]
                           /\ air' = (air \ {f}) \cup {reply} \cup {Data(h, e) : e \in S}
    BY <1>a
<1>2. UNCHANGED <<hears, anchor_for, sent, opened, received, discarded, handedOff>>
    BY DEF handle_store, zoneVars, leafVars
<1>3. f \in Frames /\ f.env \in Envelopes /\ f.from \in Parties /\ FrameInv(f)
    BY DEF IInv, TypeOK, AirInv, Frames
<1>5. f.env \in handedOff \/ f.from = Sender
    BY <1>1, <1>3 DEF FrameInv
<1>6. mailbox[h] \in Boxes
    BY DEF IInv, TypeOK
<1> DEFINE kind == IF result = "STORED" THEN "STORE_ACCEPTED" ELSE result
           reply == Frame(kind, h, f.from, f.env)
<1>7. kind \in {"STORE_ACCEPTED", "STORE_REJECTED"} /\ (result = "STORE_ACCEPTED" => f.env \in DOMAIN mailbox[h])
    BY <1>1 DEF StoreResults, Kept
<1>8. /\ reply \in Frames /\ reply.kind = kind /\ reply.from = h /\ reply.to = f.from /\ reply.env = f.env
    BY <1>3, <1>7, FrameFields, SMTT(15) DEF Parties
<1>9. ASSUME \E g \in Hosts : kind = "STORE_ACCEPTED" => f.env \in DOMAIN mailbox'[g]
      PROVE  FrameInv(reply)'
    BY <1>2, <1>5, <1>7, <1>8, <1>9 DEF FrameInv, Safe, Kept
<1>10. CASE result # "STORED" /\ air' = (air \ {f}) \cup {reply} /\ UNCHANGED mailbox
  <2>1. FrameInv(reply)'
      BY <1>7, <1>9, <1>10
  <2>2. /\ \A x \in Envelopes : Safe(x) => Safe(x)'
        /\ \A g \in Frames : FrameInv(g) => FrameInv(g)'
      BY <1>2, <1>10, SafeStays DEF IInv
  <2>3. TypeOK'
      BY <1>2, <1>8, <1>10 DEF IInv, TypeOK
  <2>4. AirInv' /\ SentInv' /\ OpenedInv'
      BY <1>2, <1>10, <2>1, <2>2 DEF IInv, TypeOK, AirInv, SentInv, OpenedInv
  <2> QED BY <2>3, <2>4 DEF IInv
<1>11. CASE result = "STORED" /\ \E S \in IF hears[h] THEN SUBSET DeliverableIn(With(mailbox[h], f.env)) ELSE {{}} :
                /\ mailbox' = [mailbox EXCEPT ![h] = Tried(With(mailbox[h], f.env), S)]
                /\ air' = (air \ {f}) \cup {reply} \cup {Data(h, e) : e \in S}
  <2>1. PICK S \in SUBSET DeliverableIn(With(mailbox[h], f.env)) :
                /\ mailbox' = [mailbox EXCEPT ![h] = Tried(With(mailbox[h], f.env), S)]
                /\ air' = (air \ {f}) \cup {reply} \cup {Data(h, e) : e \in S}
      BY <1>11
  <2>2. With(mailbox[h], f.env) \in Boxes /\ DOMAIN With(mailbox[h], f.env) = DOMAIN mailbox[h] \cup {f.env}
      BY <1>3, <1>6, BoxFacts
  <2>3. /\ Tried(With(mailbox[h], f.env), S) \in Boxes
        /\ DOMAIN Tried(With(mailbox[h], f.env), S) = DOMAIN mailbox[h] \cup {f.env}
        /\ S \subseteq Envelopes
      BY <2>2, BoxFacts DEF DeliverableIn
  <2>4. /\ mailbox' \in [Hosts -> Boxes] /\ f.env \in DOMAIN mailbox'[h]
        /\ \A g \in Hosts : DOMAIN mailbox[g] \subseteq DOMAIN mailbox'[g]
      BY <2>1, <2>3 DEF IInv, TypeOK
  <2>5. FrameInv(reply)'
      BY <2>4, <1>9
  <2>6. {Data(h, e) : e \in S} \subseteq Frames /\ \A g \in {Data(h, e) : e \in S} : FrameInv(g)'
      BY <2>3, NewFrames
  <2>7. /\ \A x \in Envelopes : Safe(x) => Safe(x)'
        /\ \A g \in Frames : FrameInv(g) => FrameInv(g)'
      BY <1>2, <2>4, SafeStays DEF IInv
  <2> HIDE DEF reply
  <2>8. TypeOK'
      BY <1>2, <1>8, <2>1, <2>4, <2>6 DEF IInv, TypeOK
  <2>9. AirInv'
      BY <2>1, <2>5, <2>6, <2>7 DEF IInv, TypeOK, AirInv
  <2>10. SentInv' /\ OpenedInv'
      BY <1>2, <2>7 DEF IInv, SentInv, OpenedInv
  <2> QED BY <2>8, <2>9, <2>10 DEF IInv
<1> QED BY <1>1, <1>10, <1>11

\* A host deletes mail: it was opened, or handed off to whoever answered.
LEMMA HostAnsweredKeeps ==
    ASSUME IInv, NEW h \in Hosts, host_answered(h)
    PROVE  IInv'
<1> USE MailboxAssumption
<1>1. PICK f \in air : /\ f.to = h /\ f.kind # "STORE" /\ air' = air \ {f}
                       /\ mailbox' = IF f.kind \in Deletes THEN [mailbox EXCEPT ![h] = Without(@, {f.env})] ELSE mailbox
    BY DEF host_answered
<1>2. UNCHANGED <<hears, anchor_for, sent, opened, received, discarded, handedOff>>
    BY DEF host_answered, zoneVars, leafVars
<1>3. f \in Frames /\ f.env \in Envelopes /\ FrameInv(f)
    BY DEF IInv, TypeOK, AirInv, Frames
<1>4. f.kind = "MAILBOX_ACK" => received[f.env] > 0
    BY <1>3 DEF FrameInv
<1>5. f.kind = "STORE_ACCEPTED" => f.env \in handedOff
    BY <1>1, <1>3 DEF FrameInv
<1>6. mailbox[h] \in Boxes
    BY DEF IInv, TypeOK
<1>7. Without(mailbox[h], {f.env}) \in Boxes /\ DOMAIN Without(mailbox[h], {f.env}) = DOMAIN mailbox[h] \ {f.env}
    BY <1>6, BoxFacts
<1>8. mailbox' \in [Hosts -> Boxes]
    BY <1>1, <1>7 DEF IInv, TypeOK
<1>9. \A g \in Hosts : \A e \in DOMAIN mailbox[g] :
          e \in DOMAIN mailbox'[g] \/ received'[e] > 0 \/ e \in discarded' \cup handedOff'
    BY <1>1, <1>2, <1>4, <1>5, <1>7 DEF IInv, TypeOK, Deletes
<1>10. /\ \A x \in Envelopes : Safe(x) => Safe(x)'
       /\ \A g \in Frames : FrameInv(g) => FrameInv(g)'
    BY <1>2, <1>9, SafeStays DEF IInv
<1>11. TypeOK'
    BY <1>1, <1>2, <1>8 DEF IInv, TypeOK
<1>12. AirInv' /\ SentInv' /\ OpenedInv'
    BY <1>1, <1>2, <1>10 DEF IInv, TypeOK, AirInv, SentInv, OpenedInv
<1> QED BY <1>11, <1>12 DEF IInv

\* What gc deletes is recorded as collected.
LEMMA GcKeeps ==
    ASSUME IInv, NEW h \in Hosts, gc(h)
    PROVE  IInv'
<1>1. PICK S \in SUBSET Kept(h) : mailbox' = [mailbox EXCEPT ![h] = Without(@, S)] /\ discarded' = discarded \cup S
    BY DEF gc
<1>2. UNCHANGED <<hears, anchor_for, sent, opened, received, air, handedOff>>
    BY DEF gc, zoneVars, leafVars
<1>3. mailbox[h] \in Boxes
    BY DEF IInv, TypeOK
<1>4. /\ Without(mailbox[h], S) \in Boxes /\ DOMAIN Without(mailbox[h], S) = DOMAIN mailbox[h] \ S
      /\ S \subseteq Envelopes
    BY <1>3, BoxFacts DEF Kept
<1>5. /\ mailbox' \in [Hosts -> Boxes]
      /\ \A g \in Hosts : \A e \in DOMAIN mailbox[g] : e \in DOMAIN mailbox'[g] \/ e \in discarded'
    BY <1>1, <1>4 DEF IInv, TypeOK
<1>6. /\ \A x \in Envelopes : Safe(x) => Safe(x)'
      /\ \A g \in Frames : FrameInv(g) => FrameInv(g)'
    BY <1>1, <1>2, <1>5, SafeStays DEF IInv
<1>7. TypeOK'
    BY <1>1, <1>2, <1>4, <1>5 DEF IInv, TypeOK
<1>8. AirInv' /\ SentInv' /\ OpenedInv'
    BY <1>2, <1>6 DEF IInv, TypeOK, AirInv, SentInv, OpenedInv
<1> QED BY <1>7, <1>8 DEF IInv

LEMMA MoveKeeps ==
    ASSUME IInv, NEW h \in Hosts, leaf_lost(h) \/ zone_update(h)
    PROVE  IInv'
<1>1. UNCHANGED <<mailbox, sent, opened, received, air, discarded, handedOff>>
    BY DEF leaf_lost, zone_update, leafVars
<1>2. hears' \in [Hosts -> BOOLEAN] /\ anchor_for' \in [Hosts -> Hosts \cup {Nobody}]
    BY DEF leaf_lost, zone_update, IInv, TypeOK
<1>3. /\ \A x \in Envelopes : Safe(x) => Safe(x)'
      /\ \A g \in Frames : FrameInv(g) => FrameInv(g)'
    BY <1>1, SafeStays DEF IInv
<1>4. TypeOK'
    BY <1>1, <1>2 DEF IInv, TypeOK
<1>5. AirInv' /\ SentInv' /\ OpenedInv'
    BY <1>1, <1>3 DEF IInv, TypeOK, AirInv, SentInv, OpenedInv
<1> QED BY <1>4, <1>5 DEF IInv

\* The list of opened envelopes after one more: no element but the new one is new.
LEMMA Remembered ==
    ASSUME NEW ids \in Seq(Envelopes), NEW e \in Envelopes
    PROVE  /\ Remember(ids, e) \in Seq(Envelopes)
           /\ \A i \in 1 .. Len(Remember(ids, e)) :
                  Remember(ids, e)[i] = e \/ \E j \in 1 .. Len(ids) : Remember(ids, e)[i] = ids[j]
<1> USE MailboxAssumption
<1>1. CASE Len(ids) >= OpenedLimit
  <2>1. Len(ids) \in Nat \ {0} /\ ids # <<>>
      BY <1>1
  <2>2. /\ Tail(ids) \in Seq(Envelopes) /\ Len(Tail(ids)) = Len(ids) - 1
        /\ \A i \in 1 .. Len(ids) - 1 : Tail(ids)[i] = ids[i + 1]
      BY <2>1
  <2>3. /\ Append(Tail(ids), e) \in Seq(Envelopes) /\ Len(Append(Tail(ids), e)) = Len(ids)
        /\ \A i \in 1 .. Len(ids) - 1 : Append(Tail(ids), e)[i] = ids[i + 1]
        /\ Append(Tail(ids), e)[Len(ids)] = e
      BY <2>1, <2>2
  <2>4. Remember(ids, e) = Append(Tail(ids), e)
      BY <1>1 DEF Remember
  <2>5. ASSUME NEW i \in 1 .. Len(ids) PROVE Append(Tail(ids), e)[i] = e \/ \E j \in 1 .. Len(ids) : Append(Tail(ids), e)[i] = ids[j]
    <3>1. CASE i = Len(ids)
        BY <2>3, <3>1
    <3>2. CASE i < Len(ids)
      <4>1. i + 1 \in 1 .. Len(ids) /\ i \in 1 .. Len(ids) - 1
          BY <3>2, <2>1
      <4> QED BY <4>1, <2>3
    <3> QED BY <3>1, <3>2, <2>1, SMTT(15)
  <2> QED BY <2>3, <2>4, <2>5
<1>2. CASE ~(Len(ids) >= OpenedLimit)
    BY <1>2 DEF Remember
<1> QED BY <1>1, <1>2

\* The leaf opens an envelope, or has before: both answers are true.
LEMMA OpenKeeps == IInv /\ open_envelope => IInv'
<1> SUFFICES ASSUME IInv, open_envelope PROVE IInv'
    OBVIOUS
<1> USE MailboxAssumption
<1>1. PICK f \in air :
          /\ IF contains(opened, f.env)
             THEN UNCHANGED leafVars
             ELSE /\ opened' = Remember(opened, f.env)
                  /\ received' = [received EXCEPT ![f.env] = @ + 1]
          /\ air' = (air \ {f}) \cup {Frame("ACK", Nobody, Sender, f.env)}
                    \cup {Frame("MAILBOX_ACK", Nobody, h, f.env) : h \in {f.from} \ {Sender}}
    BY DEF open_envelope
<1>2. UNCHANGED <<mailbox, hears, anchor_for, sent, discarded, handedOff>>
    BY DEF open_envelope, zoneVars
<1>3. f.env \in Envelopes /\ f.from \in Parties
    BY DEF IInv, TypeOK, Frames
<1>4. /\ received' \in [Envelopes -> Nat] /\ received'[f.env] > 0
      /\ \A x \in Envelopes : received[x] > 0 => received'[x] > 0
      /\ opened' \in Seq(Envelopes) /\ OpenedInv'
  <2>1. CASE contains(opened, f.env)
    <3>a. PICK i \in 1 .. Len(opened) : opened[i] = f.env
        BY <2>1 DEF contains
    <3>b. UNCHANGED leafVars
        BY <1>1, <2>1
    <3>c. received[f.env] > 0
        BY <3>a DEF IInv, OpenedInv
    <3>1. UNCHANGED <<opened, received>> /\ received[f.env] > 0
        BY <3>b, <3>c DEF leafVars
    <3> QED BY <3>1 DEF IInv, TypeOK, OpenedInv
  <2>2. CASE ~contains(opened, f.env)
    <3>1. opened' = Remember(opened, f.env) /\ received' = [received EXCEPT ![f.env] = @ + 1]
        BY <1>1, <2>2
    <3>2. /\ received' \in [Envelopes -> Nat] /\ received'[f.env] > 0
          /\ \A x \in Envelopes : received[x] > 0 => received'[x] > 0
        BY <3>1, <1>3, SMTT(15) DEF IInv, TypeOK
    <3>3. /\ opened' \in Seq(Envelopes)
          /\ \A i \in 1 .. Len(opened') : opened'[i] = f.env \/ \E j \in 1 .. Len(opened) : opened'[i] = opened[j]
      <4>1. opened \in Seq(Envelopes)
          BY DEF IInv, TypeOK
      <4>2. /\ Remember(opened, f.env) \in Seq(Envelopes)
            /\ \A i \in 1 .. Len(Remember(opened, f.env)) :
                   Remember(opened, f.env)[i] = f.env \/ \E j \in 1 .. Len(opened) : Remember(opened, f.env)[i] = opened[j]
          BY <4>1, <1>3, Remembered, Zenon
      <4> QED BY <4>2, <3>1, Zenon
    <3>4. \A j \in 1 .. Len(opened) : opened[j] \in Envelopes /\ received[opened[j]] > 0
        BY SMTT(15) DEF IInv, TypeOK, OpenedInv
    <3> QED BY <3>2, <3>3, <3>4 DEF OpenedInv
  <2> QED BY <2>1, <2>2
<1> DEFINE answers == {Frame("ACK", Nobody, Sender, f.env)}
                      \cup {Frame("MAILBOX_ACK", Nobody, h, f.env) : h \in {f.from} \ {Sender}}
<1>5. ASSUME NEW g \in answers PROVE g \in Frames /\ FrameInv(g)'
  <2>1. CASE g = Frame("ACK", Nobody, Sender, f.env)
      BY <2>1, <1>3, <1>4, FrameFields, SMTT(15) DEF FrameInv, Parties
  <2>2. CASE g = Frame("MAILBOX_ACK", Nobody, f.from, f.env) /\ f.from # Sender
      BY <2>2, <1>3, <1>4, FrameFields, SMTT(15) DEF FrameInv, Parties
  <2> QED BY <2>1, <2>2
<1>6. /\ \A x \in Envelopes : Safe(x) => Safe(x)'
      /\ \A g \in Frames : FrameInv(g) => FrameInv(g)'
    BY <1>2, <1>4, SafeStays DEF IInv
<1>7. air' = (air \ {f}) \cup answers
    BY <1>1
<1> HIDE DEF answers
<1>8. TypeOK'
    BY <1>2, <1>4, <1>5, <1>7 DEF IInv, TypeOK
<1>9. AirInv'
    BY <1>5, <1>6, <1>7 DEF IInv, TypeOK, AirInv
<1>10. SentInv'
    BY <1>2, <1>4, <1>6 DEF IInv, SentInv
<1> QED BY <1>4, <1>8, <1>9, <1>10 DEF IInv

LEMMA NextIInv == IInv /\ [Next]_vars => IInv'
<1> SUFFICES ASSUME IInv, [Next]_vars PROVE IInv'
    OBVIOUS
<1>1. ASSUME NEW e \in Envelopes,
             seal_and_send_envelope(e) \/ tick(e) \/ session_dropped(e) \/ on_discovery_failed(e)
      PROVE  IInv'
    BY <1>1, SenderKeeps
<1>2. CASE sender_answered
    BY <1>2, SenderAnsweredKeeps
<1>3. ASSUME NEW h \in Hosts, flush_mailbox_to(h) \/ leaf_beacon(h) PROVE IInv'
    BY <1>3, FlushKeeps
<1>4. ASSUME NEW h \in Hosts, handle_store(h) PROVE IInv'
    BY <1>4, StoreKeeps
<1>5. ASSUME NEW h \in Hosts, hand_off(h) PROVE IInv'
    BY <1>5, HandOffKeeps
<1>6. ASSUME NEW h \in Hosts, host_answered(h) PROVE IInv'
    BY <1>6, HostAnsweredKeeps
<1>7. ASSUME NEW h \in Hosts, gc(h) PROVE IInv'
    BY <1>7, GcKeeps
<1>8. ASSUME NEW h \in Hosts, leaf_lost(h) \/ zone_update(h) PROVE IInv'
    BY <1>8, MoveKeeps
<1>9. CASE open_envelope
    BY <1>9, OpenKeeps
<1>10. CASE UNCHANGED vars
    BY <1>10 DEF vars, IInv, TypeOK, AirInv, FrameInv, Safe, Kept, SentInv, OpenedInv
<1> QED BY <1>1, <1>2, <1>3, <1>4, <1>5, <1>6, <1>7, <1>8, <1>9, <1>10 DEF Next

LEMMA Inductive == Spec => []IInv
    BY InitIInv, NextIInv, PTL DEF Spec

\* The types of the mailbox model (Mailbox, StoredEnvelope), among them that
\* no envelope is tried more often than max_delivery_attempts.
THEOREM TypeCorrect == Spec => []TypeOK
<1>1. IInv => TypeOK
    BY DEF IInv
<1> QED BY <1>1, Inductive, PTL

\* Delivered is reported only for what the leaf opened (handle_ack,
\* handle_control at the sender), for any number of hosts and envelopes.
THEOREM DeliveredWasOpenedHolds == Spec => []DeliveredWasOpened
<1>1. IInv => DeliveredWasOpened
    BY DEF IInv, SentInv, DeliveredWasOpened
<1> QED BY <1>1, Inductive, PTL

\* What is reported stored is in a mailbox, opened, collected or handed off
\* (handle_store, Mailbox::ack, Mailbox::gc).
THEOREM StoredIsKeptHolds == Spec => []StoredIsKept
<1>1. IInv => StoredIsKept
  <2> SUFFICES ASSUME IInv, NEW e \in Envelopes, Missing(e) PROVE e \in handedOff
      BY DEF StoredIsKept
  <2>1. Safe(e)
      BY DEF IInv, SentInv, Missing
  <2>2. ~(received[e] > 0) /\ e \notin discarded /\ ~\E h \in Hosts : e \in Kept(h)
      BY DEF Missing
  <2> QED BY <2>1, <2>2 DEF Safe
<1> QED BY <1>1, Inductive, PTL

-----------------------------------------------------------------------------
(* The leaf's list: 64 ids in the code.  While it has room for every       *)
(* envelope there is, nothing falls off it.                                *)

Remembers == IsFiniteSet(Envelopes) /\ Cardinality(Envelopes) <= OpenedLimit

OnceInv ==
    /\ \A e \in Envelopes : received[e] \in {0, 1} /\ (received[e] = 1 => contains(opened, e))
    /\ \A i, j \in 1 .. Len(opened) : opened[i] = opened[j] => i = j

\* A list without repetition that lacks an envelope is not full.
LEMMA RoomForOneMore ==
    ASSUME Remembers, TypeOK, OnceInv, NEW e \in Envelopes, ~contains(opened, e)
    PROVE  Len(opened) < OpenedLimit
<1> USE MailboxAssumption
<1>1. opened \in Seq(Envelopes) /\ Len(opened) \in Nat
    BY SMTT(15) DEF TypeOK
<1>2. \A i \in 1 .. Len(opened) : opened[i] \in Envelopes \ {e}
    BY <1>1, SMTT(15) DEF contains
<1> DEFINE g == [i \in 1 .. Len(opened) |-> opened[i]]
<1>3. g \in [1 .. Len(opened) -> Envelopes \ {e}]
    BY <1>2
<1>4. IsFiniteSet(Envelopes \ {e}) /\ Cardinality(Envelopes \ {e}) = Cardinality(Envelopes) - 1
    BY FS_RemoveElement DEF Remembers
<1>5. IsFiniteSet(1 .. Len(opened)) /\ Cardinality(1 .. Len(opened)) = Len(opened)
  <2>1. IsFiniteSet(1 .. Len(opened)) /\ Cardinality(1 .. Len(opened)) = IF 1 > Len(opened) THEN 0 ELSE Len(opened) - 1 + 1
    <3>1. 1 \in Int /\ Len(opened) \in Int
        BY <1>1
    <3> QED BY <3>1, FS_Interval, Zenon
  <2> QED BY <2>1, <1>1
<1>6. \A i, j \in 1 .. Len(opened) : g[i] = g[j] => i = j
    BY DEF OnceInv
<1>7. ~(Cardinality(Envelopes \ {e}) < Cardinality(1 .. Len(opened)))
  <2> SUFFICES ASSUME Cardinality(Envelopes \ {e}) < Cardinality(1 .. Len(opened)) PROVE FALSE
      OBVIOUS
  <2> HIDE DEF g
  <2>1. \E i, j \in 1 .. Len(opened) : i # j /\ g[i] = g[j]
      BY <1>3, <1>4, <1>5, FS_PigeonHole, SMTT(15)
  <2> QED BY <2>1, <1>6
<1>8. Cardinality(Envelopes) \in Nat
    BY FS_CardinalityType DEF Remembers
<1> QED BY <1>1, <1>4, <1>5, <1>7, <1>8 DEF Remembers

LEMMA InitOnce == Init => OnceInv
    BY SMTT(15) DEF Init, OnceInv

LEMMA NextOnce == Remembers /\ IInv /\ OnceInv /\ [Next]_vars => OnceInv'
<1> SUFFICES ASSUME Remembers, IInv, OnceInv, [Next]_vars PROVE OnceInv'
    OBVIOUS
<1>1. CASE UNCHANGED leafVars
    BY <1>1 DEF leafVars, OnceInv, contains
<1>2. CASE open_envelope
  <2>1. PICK f \in air : IF contains(opened, f.env)
                         THEN UNCHANGED leafVars
                         ELSE /\ opened' = Remember(opened, f.env)
                              /\ received' = [received EXCEPT ![f.env] = @ + 1]
      BY <1>2 DEF open_envelope
  <2>2. f.env \in Envelopes /\ opened \in Seq(Envelopes) /\ received \in [Envelopes -> Nat]
      BY DEF IInv, TypeOK, Frames
  <2>3. CASE ~contains(opened, f.env)
    <3>1. Len(opened) < OpenedLimit
        BY <2>2, <2>3, RoomForOneMore DEF IInv
    <3>2. opened' = Append(opened, f.env)
        BY <2>1, <2>3, <3>1, <2>2, MailboxAssumption, SMTT(15) DEF Remember
    <3>3. /\ Len(opened') = Len(opened) + 1 /\ opened'[Len(opened) + 1] = f.env
          /\ \A i \in 1 .. Len(opened) : opened'[i] = opened[i] /\ opened[i] # f.env
        BY <3>2, <2>2, <2>3 DEF contains
    <3>4. received' = [received EXCEPT ![f.env] = @ + 1] /\ received[f.env] = 0
        BY <2>1, <2>2, <2>3 DEF OnceInv
    <3>5. ASSUME NEW e \in Envelopes PROVE received'[e] \in {0, 1} /\ (received'[e] = 1 => contains(opened', e))
      <4>1. CASE e = f.env
        <5>1. Len(opened) + 1 \in 1 .. Len(opened')
            BY <3>3, <2>2
        <5>2. contains(opened', e)
            BY <5>1, <3>3, <4>1 DEF contains
        <5> QED BY <5>2, <3>4, <4>1, <2>2, SMTT(15)
      <4>2. CASE e # f.env
        <5>1. received'[e] = received[e]
            BY <3>4, <4>2, <2>2
        <5>2. contains(opened, e) => contains(opened', e)
          <6> SUFFICES ASSUME NEW i \in 1 .. Len(opened), opened[i] = e PROVE contains(opened', e)
              BY DEF contains
          <6>1. i \in 1 .. Len(opened')
              BY <3>3, <2>2, SMTT(15)
          <6> QED BY <6>1, <3>3 DEF contains
        <5> QED BY <5>1, <5>2 DEF OnceInv
      <4> QED BY <4>1, <4>2
    <3>6. ASSUME NEW i \in 1 .. Len(opened'), NEW j \in 1 .. Len(opened'), opened'[i] = opened'[j] PROVE i = j
        BY <3>3, <3>6, <2>2, SMTT(15) DEF OnceInv
    <3> QED BY <3>5, <3>6 DEF OnceInv
  <2> QED BY <2>1, <2>3, <1>1
<1>3. CASE UNCHANGED vars
    BY <1>3, <1>1 DEF vars, leafVars
<1>4. CASE Next /\ ~open_envelope
    BY <1>4, <1>1 DEF Next, seal_and_send_envelope, tick, session_dropped, on_discovery_failed, sender_answered,
                      flush_mailbox_to, handle_store, hand_off, host_answered, gc, leaf_beacon, leaf_lost, zone_update
<1> QED BY <1>2, <1>3, <1>4

\* The leaf's application sees an envelope once (handle_unicast_data), as
\* long as opened_envelopes has room for every envelope sent to it.
THEOREM OpenedOnceHolds == Remembers => (Spec => []OpenedOnce)
<1>1. Remembers /\ IInv /\ OnceInv /\ [Next]_vars => OnceInv'
    BY NextOnce
<1>2. OnceInv => OpenedOnce
    BY SMTT(15) DEF OnceInv, OpenedOnce
<1>3. Init => OnceInv
    BY InitOnce
<1> SUFFICES ASSUME Remembers PROVE Spec => []OpenedOnce
    OBVIOUS
<1>4. IInv /\ OnceInv /\ [Next]_vars => OnceInv'
    BY <1>1
<1> QED BY <1>2, <1>3, <1>4, Inductive, PTL DEF Spec
=============================================================================

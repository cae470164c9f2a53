--------------------------- MODULE HandshakeProofs ---------------------------
(***************************************************************************)
(* For any sends, bounds and epoch width: no session keys are installed    *)
(* twice, and the two ends of a session agree.                             *)
(*                                                                         *)
(* Why: an ephemeral is drawn once, for one node and one role, so message  *)
(* 1 frames with the same ephemeral are the same frame (AirInv).  A        *)
(* pending handshake's own ephemeral is in no key its node installed       *)
(* (HsInv): an initiator's first component, a responder's second.  Every   *)
(* pending handshake and every session can point to the message 1 that its *)
(* epoch comes from, which is one frame for both ends (HsInv, SessInv).    *)
(***************************************************************************)
EXTENDS Handshake, TLAPS

\* Time for the provers.
USE ZenonT(10), SMTT(15)

Inst(n) == {installed[n][i] : i \in DOMAIN installed[n]}

HsRecords == [role : {"Initiator", "Responder"}, e : Nat, re : Nat, epoch : Nat, queued : SUBSET Handles,
              attempts : Nat, garbled : BOOLEAN]
SessRecords == [key : Nat \X Nat, epoch : Nat, m3 : BOOLEAN, m3_resends : Nat, rekey : BOOLEAN]

Types == /\ hs \in [Nodes -> HsRecords \cup {NoHandshake}]
         /\ sess \in [Nodes -> SessRecords \cup {NoSession}]
         /\ installed \in [Nodes -> Seq(Nat \X Nat)]
         /\ drawn \in Nat

HsInv ==
    \A n \in Nodes :
        /\ hs[n].role = "Initiator" => /\ hs[n].e \in 1 .. drawn
                                       /\ \A k \in Inst(n) : k[1] # hs[n].e
                                       /\ M1(n, hs[n].e, hs[n].epoch) \in air
        /\ hs[n].role = "Responder" => /\ hs[n].e \in 1 .. drawn
                                       /\ \A k \in Inst(n) : k[2] # hs[n].e
                                       /\ M1(Peer(n), hs[n].re, hs[n].epoch) \in air

SessInv ==
    \A n \in Nodes : Connected(n) =>
        /\ sess[n].key \in Inst(n)
        /\ sess[n].m3 => M1(n, sess[n].key[1], sess[n].epoch) \in air
        /\ ~sess[n].m3 => /\ M1(Peer(n), sess[n].key[1], sess[n].epoch) \in air
                          /\ sess[n].key \in Inst(Peer(n))

AirInv ==
    \A m \in air :
        /\ m.kind = "m1" => /\ m.to \in Nodes /\ m.e \in 1 .. drawn /\ m.epoch \in Nat
                            /\ m = M1(Peer(m.to), m.e, m.epoch)
                            /\ \A x \in air : x.kind = "m1" /\ x.e = m.e => x = m
        /\ m.kind = "m2" => m.e \in 1 .. drawn /\ m.r \in 1 .. drawn
        /\ m.kind = "m3" => m.to \in Nodes /\ <<m.e, m.r>> \in Inst(Peer(m.to))

InstInv == \A n \in Nodes : \A k \in Inst(n) : k[1] \in 1 .. drawn /\ k[2] \in 1 .. drawn

IInv == Types /\ HsInv /\ SessInv /\ AirInv /\ InstInv /\ KeysInstalledOnce

LEMMA Ends == \A n \in Nodes : Peer(n) \in Nodes /\ Peer(n) # n /\ Peer(Peer(n)) = n
    BY DEF Nodes, Peer

LEMMA InitIInv == Init => IInv
<1> SUFFICES ASSUME Init PROVE IInv
    OBVIOUS
<1> USE DEF Init
<1>1. Types
    BY DEF Types
<1>2. \A n \in Nodes : Inst(n) = {} /\ DOMAIN installed[n] = {}
    BY DEF Inst
<1>3. HsInv /\ SessInv /\ AirInv
    BY DEF HsInv, SessInv, AirInv, NoHandshake, Connected
<1>4. InstInv /\ KeysInstalledOnce
    BY <1>2 DEF InstInv, KeysInstalledOnce
<1> QED BY <1>1, <1>3, <1>4 DEF IInv

\* What a step leaves of a pending handshake or of a session: nothing, or the
\* same one with other counters, flags or queue.
HsKept(n) ==
    \/ hs'[n] = NoHandshake
    \/ /\ hs'[n] \in HsRecords /\ hs'[n].role = hs[n].role /\ hs'[n].e = hs[n].e
       /\ hs'[n].re = hs[n].re /\ hs'[n].epoch = hs[n].epoch

SessKept(n) ==
    \/ sess'[n] = NoSession
    \/ /\ sess'[n] \in SessRecords /\ sess[n] # NoSession /\ sess'[n].key = sess[n].key
       /\ sess'[n].epoch = sess[n].epoch /\ sess'[n].m3 = sess[n].m3

\* A frame that follows from what is installed and drawn already.
Follows(m) ==
    /\ m.kind = "m1" => m \in air
    /\ m.kind = "m2" => m.e \in 1 .. drawn /\ m.r \in 1 .. drawn
    /\ m.kind = "m3" => m.to \in Nodes /\ <<m.e, m.r>> \in Inst(Peer(m.to))

LEMMA SessGrows ==
    ASSUME IInv, \A n \in Nodes : SessKept(n), air \subseteq air', installed' = installed
    PROVE  SessInv'
<1> SUFFICES ASSUME NEW n \in Nodes, Connected(n)'
             PROVE  (/\ sess[n].key \in Inst(n)
                     /\ sess[n].m3 => M1(n, sess[n].key[1], sess[n].epoch) \in air
                     /\ ~sess[n].m3 => /\ M1(Peer(n), sess[n].key[1], sess[n].epoch) \in air
                                       /\ sess[n].key \in Inst(Peer(n)))'
    BY DEF SessInv
<1>1. /\ sess[n] # NoSession /\ sess'[n].key = sess[n].key
      /\ sess'[n].epoch = sess[n].epoch /\ sess'[n].m3 = sess[n].m3
    BY DEF SessKept, Connected
<1>2. Inst(n)' = Inst(n) /\ Inst(Peer(n))' = Inst(Peer(n))
    BY DEF Inst
<1> QED BY <1>1, <1>2 DEF IInv, SessInv, Connected, M1

LEMMA QuietKeeps ==
    ASSUME IInv, hs' \in [Nodes -> HsRecords \cup {NoHandshake}], \A n \in Nodes : HsKept(n),
           sess' \in [Nodes -> SessRecords \cup {NoSession}], \A n \in Nodes : SessKept(n),
           UNCHANGED <<drawn, installed>>, air \subseteq air', \A m \in air' : m \in air \/ Follows(m)
    PROVE  IInv'
<1>1. Types'
    BY DEF IInv, Types
<1>2. \A n : Inst(n)' = Inst(n)
    BY DEF Inst
<1>3. HsInv'
    BY <1>2, SMTT(40) DEF IInv, HsInv, HsKept, NoHandshake, M1
<1>4. SessInv'
    BY SessGrows
<1>5. AirInv'
  <2>1. \A m \in air' : m.kind = "m1" => m \in air
      BY DEF Follows
  <2> SUFFICES ASSUME NEW m \in air'
               PROVE  (/\ m.kind = "m1" => /\ m.to \in Nodes /\ m.e \in 1 .. drawn /\ m.epoch \in Nat
                                           /\ m = M1(Peer(m.to), m.e, m.epoch)
                                           /\ \A x \in air : x.kind = "m1" /\ x.e = m.e => x = m
                       /\ m.kind = "m2" => m.e \in 1 .. drawn /\ m.r \in 1 .. drawn
                       /\ m.kind = "m3" => m.to \in Nodes /\ <<m.e, m.r>> \in Inst(Peer(m.to)))'
      BY DEF AirInv
  <2> QED BY <1>2, <2>1 DEF IInv, AirInv, Follows, M1
<1>6. InstInv' /\ KeysInstalledOnce'
    BY <1>2 DEF IInv, InstInv, KeysInstalledOnce
<1> QED BY <1>1, <1>3, <1>4, <1>5, <1>6 DEF IInv

\* A new ephemeral is drawn for message 1.
LEMMA StartKeeps ==
    ASSUME IInv, NEW n \in Nodes, NEW epoch \in Nat, NEW q \in SUBSET Handles,
           drawn' = drawn + 1, hs' = [hs EXCEPT ![n] = InitiatorState(drawn + 1, epoch, q)],
           air' = air \cup {M1(n, drawn + 1, epoch)},
           sess' \in [Nodes -> SessRecords \cup {NoSession}], \A k \in Nodes : SessKept(k), UNCHANGED installed
    PROVE  IInv'
<1>1. /\ hs'[n] \in HsRecords /\ hs'[n].role = "Initiator" /\ hs'[n].e = drawn + 1 /\ hs'[n].epoch = epoch
      /\ \A k \in Nodes : k # n => hs'[k] = hs[k]
    BY SMTT(15) DEF IInv, Types, InitiatorState, HsRecords
<1>2. Types'
  <2>1. hs' \in [Nodes -> HsRecords \cup {NoHandshake}]
    <3>1. hs \in [Nodes -> HsRecords \cup {NoHandshake}] /\ InitiatorState(drawn + 1, epoch, q) \in HsRecords
        BY SMTT(15) DEF IInv, Types, InitiatorState, HsRecords
    <3> QED BY <3>1
  <2>2. installed' \in [Nodes -> Seq(Nat \X Nat)] /\ drawn' \in Nat
      BY SMTT(15) DEF IInv, Types
  <2> QED BY <2>1, <2>2 DEF Types
<1>3. \A k : Inst(k)' = Inst(k)
    BY DEF Inst
<1>4. HsInv'
  <2> SUFFICES ASSUME NEW k \in Nodes
               PROVE  (/\ hs[k].role = "Initiator" => /\ hs[k].e \in 1 .. drawn
                                                      /\ \A x \in Inst(k) : x[1] # hs[k].e
                                                      /\ M1(k, hs[k].e, hs[k].epoch) \in air
                       /\ hs[k].role = "Responder" => /\ hs[k].e \in 1 .. drawn
                                                      /\ \A x \in Inst(k) : x[2] # hs[k].e
                                                      /\ M1(Peer(k), hs[k].re, hs[k].epoch) \in air)'
      BY DEF HsInv
  <2>1. CASE k = n
      BY <2>1, <1>1, <1>3, SMTT(15) DEF IInv, Types, InstInv, M1
  <2>2. CASE k # n
    <3>1. /\ hs[k].role = "Initiator" => /\ hs[k].e \in 1 .. drawn
                                         /\ \A x \in Inst(k) : x[1] # hs[k].e
                                         /\ M1(k, hs[k].e, hs[k].epoch) \in air
          /\ hs[k].role = "Responder" => /\ hs[k].e \in 1 .. drawn
                                         /\ \A x \in Inst(k) : x[2] # hs[k].e
                                         /\ M1(Peer(k), hs[k].re, hs[k].epoch) \in air
        BY DEF IInv, HsInv
    <3>2. drawn \in Nat /\ hs'[k] = hs[k] /\ Inst(k)' = Inst(k) /\ air \subseteq air' /\ drawn' = drawn + 1
        BY <2>2, <1>1, <1>3 DEF IInv, Types
    <3>3. \A y \in 1 .. drawn : y \in 1 .. drawn'
        BY <3>2, SMTT(15)
    <3> QED BY <3>1, <3>2, <3>3 DEF M1
  <2> QED BY <2>1, <2>2
<1>5. SessInv'
    BY SessGrows
<1>6. AirInv'
  <2>1. \A m \in air : m.kind = "m1" => m.e # drawn + 1
    <3> SUFFICES ASSUME NEW m \in air, m.kind = "m1" PROVE m.e # drawn + 1
        OBVIOUS
    <3>1. m.e \in 1 .. drawn /\ drawn \in Nat
        BY DEF IInv, AirInv, Types
    <3> QED BY <3>1
  <2>2. ASSUME NEW m \in air'
        PROVE  (/\ m.kind = "m1" => /\ m.to \in Nodes /\ m.e \in 1 .. drawn /\ m.epoch \in Nat
                                    /\ m = M1(Peer(m.to), m.e, m.epoch)
                                    /\ \A x \in air : x.kind = "m1" /\ x.e = m.e => x = m
                /\ m.kind = "m2" => m.e \in 1 .. drawn /\ m.r \in 1 .. drawn
                /\ m.kind = "m3" => m.to \in Nodes /\ <<m.e, m.r>> \in Inst(Peer(m.to)))'
    <3>1. CASE m \in air
        BY <3>1, <2>1, <1>3, SMTT(15) DEF IInv, Types, AirInv, M1
    <3>2. CASE m = M1(n, drawn + 1, epoch)
        BY <3>2, <2>1, <1>3, Ends, SMTT(15) DEF IInv, Types, M1
    <3> QED BY <3>1, <3>2
  <2> QED BY <2>2 DEF AirInv
<1>7. InstInv' /\ KeysInstalledOnce'
    BY <1>3, SMTT(15) DEF IInv, Types, InstInv, KeysInstalledOnce
<1> QED BY <1>2, <1>4, <1>5, <1>6, <1>7 DEF IInv

\* responder_start draws an ephemeral for message 2.
LEMMA RespondKeeps ==
    ASSUME IInv, NEW n \in Nodes, NEW m \in air, m.to = n, m.kind = "m1", responder_start(n, m)
    PROVE  IInv'
<1>1. /\ drawn' = drawn + 1 /\ UNCHANGED <<sess, installed>>
      /\ hs' = [hs EXCEPT ![n] = ResponderState(drawn + 1, m.e, m.epoch, QueuedBehind(n))]
      /\ air' = air \cup {M2(n, m.e, drawn + 1)}
    BY DEF responder_start, Respond
<1>2. QueuedBehind(n) \in SUBSET Handles
    BY DEF QueuedBehind, Pending, IInv, Types, HsRecords
<1>3. m.e \in 1 .. drawn /\ m.epoch \in Nat /\ m = M1(Peer(n), m.e, m.epoch)
    BY DEF IInv, AirInv
<1>4. /\ hs'[n] \in HsRecords /\ hs'[n].role = "Responder" /\ hs'[n].e = drawn + 1
      /\ hs'[n].re = m.e /\ hs'[n].epoch = m.epoch /\ \A k \in Nodes : k # n => hs'[k] = hs[k]
    BY <1>1, <1>2, <1>3, SMTT(15) DEF IInv, Types, ResponderState, HsRecords
<1>5. Types'
    BY <1>1, <1>4, SMTT(15) DEF IInv, Types
<1>6. \A k : Inst(k)' = Inst(k)
    BY <1>1 DEF Inst
<1>7. HsInv'
  <2> SUFFICES ASSUME NEW k \in Nodes
               PROVE  (/\ hs[k].role = "Initiator" => /\ hs[k].e \in 1 .. drawn
                                                      /\ \A x \in Inst(k) : x[1] # hs[k].e
                                                      /\ M1(k, hs[k].e, hs[k].epoch) \in air
                       /\ hs[k].role = "Responder" => /\ hs[k].e \in 1 .. drawn
                                                      /\ \A x \in Inst(k) : x[2] # hs[k].e
                                                      /\ M1(Peer(k), hs[k].re, hs[k].epoch) \in air)'
      BY DEF HsInv
  <2>1. CASE k = n
    <3>1. M1(Peer(n), hs'[n].re, hs'[n].epoch) \in air
        BY <1>3, <1>4
    <3>2. \A x \in Inst(n) : x[2] # drawn + 1
        BY DEF IInv, Types, InstInv
    <3> QED BY <3>1, <3>2, <2>1, <1>1, <1>4, <1>6, SMTT(15) DEF IInv, Types, M1
  <2>2. CASE k # n
    <3>1. /\ hs[k].role = "Initiator" => /\ hs[k].e \in 1 .. drawn
                                         /\ \A x \in Inst(k) : x[1] # hs[k].e
                                         /\ M1(k, hs[k].e, hs[k].epoch) \in air
          /\ hs[k].role = "Responder" => /\ hs[k].e \in 1 .. drawn
                                         /\ \A x \in Inst(k) : x[2] # hs[k].e
                                         /\ M1(Peer(k), hs[k].re, hs[k].epoch) \in air
        BY DEF IInv, HsInv
    <3>2. drawn \in Nat /\ hs'[k] = hs[k] /\ Inst(k)' = Inst(k) /\ air \subseteq air' /\ drawn' = drawn + 1
        BY <2>2, <1>1, <1>4, <1>6 DEF IInv, Types
    <3>3. \A y \in 1 .. drawn : y \in 1 .. drawn'
        BY <3>2
    <3> QED BY <3>1, <3>2, <3>3 DEF M1
  <2> QED BY <2>1, <2>2
<1>8. \A k \in Nodes : SessKept(k)
    BY <1>1 DEF SessKept, IInv, Types
<1>9. SessInv'
    BY <1>1, <1>8, SessGrows
<1>10. AirInv'
  <2>1. ASSUME NEW x \in air'
        PROVE  (/\ x.kind = "m1" => /\ x.to \in Nodes /\ x.e \in 1 .. drawn /\ x.epoch \in Nat
                                    /\ x = M1(Peer(x.to), x.e, x.epoch)
                                    /\ \A y \in air : y.kind = "m1" /\ y.e = x.e => y = x
                /\ x.kind = "m2" => x.e \in 1 .. drawn /\ x.r \in 1 .. drawn
                /\ x.kind = "m3" => x.to \in Nodes /\ <<x.e, x.r>> \in Inst(Peer(x.to)))'
    <3>1. CASE x \in air
      <4>1. \A y \in air' : y.kind = "m1" => y \in air
          BY <1>1 DEF M2
      <4> QED BY <3>1, <4>1, <1>1, <1>6, SMTT(15) DEF IInv, Types, AirInv, M1
    <3>2. CASE x = M2(n, m.e, drawn + 1)
        BY <3>2, <1>1, <1>3, SMTT(15) DEF IInv, Types, M2
    <3> QED BY <3>1, <3>2, <1>1
  <2> QED BY <2>1 DEF AirInv
<1>11. InstInv' /\ KeysInstalledOnce'
    BY <1>1, <1>6, SMTT(15) DEF IInv, Types, InstInv, KeysInstalledOnce
<1> QED BY <1>5, <1>7, <1>9, <1>10, <1>11 DEF IInv

\* Either end installs: the key is new to it, because its own ephemeral is.
LEMMA InstallKeeps ==
    ASSUME IInv, NEW n \in Nodes, NEW e \in 1 .. drawn, NEW r \in 1 .. drawn, NEW epoch \in Nat,
           NEW m3 \in BOOLEAN, NEW out, Install(n, <<e, r>>, epoch, m3, out), UNCHANGED drawn,
           <<e, r>> \notin Inst(n),
           m3 => M1(n, e, epoch) \in air /\ out = {M3(n, e, r)},
           ~m3 => M1(Peer(n), e, epoch) \in air /\ <<e, r>> \in Inst(Peer(n)) /\ out = {}
    PROVE  IInv'
<1> DEFINE key == <<e, r>>
           s == [key |-> key, epoch |-> epoch, m3 |-> m3, m3_resends |-> 0, rekey |-> FALSE]
           data == [kind |-> "data", to |-> Peer(n), key |-> key, epoch |-> epoch]
<1>1. /\ sess' = [sess EXCEPT ![n] = s]
      /\ installed' = [installed EXCEPT ![n] = Append(@, key)]
      /\ hs' = [hs EXCEPT ![n] = NoHandshake]
    BY DEF Install
<1>2. air \subseteq air' /\ air' \subseteq air \cup out \cup {data}
    BY DEF Install
<1>3. key \in Nat \X Nat /\ s \in SessRecords
    BY SMTT(15) DEF SessRecords
<1>4. Types'
    BY <1>1, <1>3, SMTT(15) DEF IInv, Types
<1>5. /\ installed[n] \in Seq(Nat \X Nat) /\ installed'[n] = Append(installed[n], key)
      /\ \A k \in Nodes : k # n => installed'[k] = installed[k]
    BY <1>1 DEF IInv, Types
<1>6. /\ DOMAIN installed'[n] = 1 .. Len(installed[n]) + 1 /\ DOMAIN installed[n] = 1 .. Len(installed[n])
      /\ \A i \in DOMAIN installed[n] : installed'[n][i] = installed[n][i]
      /\ installed'[n][Len(installed[n]) + 1] = key /\ Len(installed[n]) \in Nat
    BY <1>3, <1>5, SMTT(40)
<1>7. Inst(n)' = Inst(n) \cup {key} /\ \A k \in Nodes : k # n => Inst(k)' = Inst(k)
  <2>1. Inst(n)' \subseteq Inst(n) \cup {key}
      BY <1>6, SMTT(40) DEF Inst
  <2>2. Inst(n) \subseteq Inst(n)' /\ key \in Inst(n)'
      BY <1>6, SMTT(40) DEF Inst
  <2>3. \A k \in Nodes : k # n => Inst(k)' = Inst(k)
      BY <1>5 DEF Inst
  <2> QED BY <2>1, <2>2, <2>3
<1>8. HsInv'
    BY <1>1, <1>2, <1>7 DEF IInv, Types, HsInv, NoHandshake, M1
<1>9. SessInv'
  <2> SUFFICES ASSUME NEW k \in Nodes, Connected(k)'
               PROVE  (/\ sess[k].key \in Inst(k)
                       /\ sess[k].m3 => M1(k, sess[k].key[1], sess[k].epoch) \in air
                       /\ ~sess[k].m3 => /\ M1(Peer(k), sess[k].key[1], sess[k].epoch) \in air
                                         /\ sess[k].key \in Inst(Peer(k)))'
      BY DEF SessInv
  <2>1. CASE k = n
    <3>1. sess'[n] = s /\ s.key = key /\ s.m3 = m3 /\ s.epoch = epoch /\ key[1] = e
        BY <1>1 DEF IInv, Types
    <3> HIDE DEF s, key
    <3>2. sess'[n].key = key /\ sess'[n].m3 = m3 /\ sess'[n].epoch = epoch
        BY <3>1
    <3>3. m3 => M1(n, e, epoch) \in air'
        BY <1>2
    <3>4. ~m3 => M1(Peer(n), e, epoch) \in air' /\ key \in Inst(Peer(n))'
        BY <1>2, <1>7, Ends DEF key
    <3> QED BY <3>1, <3>2, <3>3, <3>4, <2>1, <1>7 DEF M1
  <2>2. CASE k # n
    <3>1. sess'[k] = sess[k] /\ sess[k] # NoSession
        BY <2>2, <1>1 DEF IInv, Types, Connected
    <3>2. Inst(k) \subseteq Inst(k)' /\ Inst(Peer(k)) \subseteq Inst(Peer(k))'
        BY <1>7, Ends
    <3> QED BY <3>1, <3>2, <1>2 DEF IInv, SessInv, Connected, M1
  <2> QED BY <2>1, <2>2
<1>10. AirInv'
  <2>1. \A x \in air' : x.kind = "m1" => x \in air
      BY <1>2, SMTT(15) DEF M3
  <2>2. \A k \in Nodes : Inst(k) \subseteq Inst(k)'
      BY <1>7
  <2>3. ASSUME NEW x \in air'
        PROVE  (/\ x.kind = "m1" => /\ x.to \in Nodes /\ x.e \in 1 .. drawn /\ x.epoch \in Nat
                                    /\ x = M1(Peer(x.to), x.e, x.epoch)
                                    /\ \A y \in air : y.kind = "m1" /\ y.e = x.e => y = x
                /\ x.kind = "m2" => x.e \in 1 .. drawn /\ x.r \in 1 .. drawn
                /\ x.kind = "m3" => x.to \in Nodes /\ <<x.e, x.r>> \in Inst(Peer(x.to)))'
    <3>1. CASE x \in air
        BY <3>1, <2>1, <2>2, Ends DEF IInv, AirInv, M1
    <3>2. CASE x = M3(n, e, r)
      <4>1. x.kind = "m3" /\ x.to = Peer(n) /\ x.e = e /\ x.r = r
          BY <3>2 DEF M3
      <4>2. Peer(n) \in Nodes /\ <<e, r>> \in Inst(Peer(Peer(n)))'
          BY <1>7, Ends
      <4> QED BY <4>1, <4>2
    <3>3. CASE x = data
        BY <3>3
    <3> QED BY <3>1, <3>2, <3>3, <1>2
  <2> QED BY <2>3 DEF AirInv
<1>11. InstInv'
    BY <1>7, SMTT(15) DEF IInv, InstInv
<1>12. KeysInstalledOnce'
  <2> SUFFICES ASSUME NEW k \in Nodes, NEW i \in DOMAIN installed'[k], NEW j \in DOMAIN installed'[k],
                      installed'[k][i] = installed'[k][j]
               PROVE  i = j
      BY DEF KeysInstalledOnce
  <2>1. CASE k # n
      BY <2>1, <1>5 DEF IInv, KeysInstalledOnce
  <2>2. CASE k = n
    <3>1. \A l \in DOMAIN installed[n] : installed[n][l] # key
        BY DEF Inst
    <3> HIDE DEF key
    <3>2. \A l, o \in DOMAIN installed[n] : installed[n][l] = installed[n][o] => l = o
        BY DEF IInv, KeysInstalledOnce
    <3>3. i \in 1 .. Len(installed[n]) + 1 /\ j \in 1 .. Len(installed[n]) + 1 /\ installed'[n][i] = installed'[n][j]
        BY <2>2, <1>6
    <3>4. CASE i \in DOMAIN installed[n] /\ j \in DOMAIN installed[n]
        BY <3>2, <3>3, <3>4, <1>6
    <3>5. CASE i \in DOMAIN installed[n] /\ j = Len(installed[n]) + 1
      <4>1. installed'[n][i] = installed[n][i] /\ installed'[n][j] = key
          BY <3>5, <1>6
      <4> QED BY <4>1, <3>1, <3>3, <3>5
    <3>6. CASE j \in DOMAIN installed[n] /\ i = Len(installed[n]) + 1
      <4>1. installed'[n][j] = installed[n][j] /\ installed'[n][i] = key
          BY <3>6, <1>6
      <4> QED BY <4>1, <3>1, <3>3, <3>6
    <3>7. CASE i = Len(installed[n]) + 1 /\ j = Len(installed[n]) + 1
        BY <3>7
    <3> QED BY <3>3, <3>4, <3>5, <3>6, <3>7, <1>6, SMTT(40)
  <2> QED BY <2>1, <2>2
<1> QED BY <1>4, <1>8, <1>9, <1>10, <1>11, <1>12 DEF IInv

LEMMA HsSame == ASSUME IInv, hs' = hs
                PROVE  hs' \in [Nodes -> HsRecords \cup {NoHandshake}] /\ \A k \in Nodes : HsKept(k)
    BY DEF IInv, Types, HsKept

LEMMA SessSame == ASSUME IInv, sess' = sess
                  PROVE  sess' \in [Nodes -> SessRecords \cup {NoSession}] /\ \A k \in Nodes : SessKept(k)
    BY DEF IInv, Types, SessKept

LEMMA HsGone == ASSUME IInv, NEW n \in Nodes, hs' = [hs EXCEPT ![n] = NoHandshake]
                PROVE  hs' \in [Nodes -> HsRecords \cup {NoHandshake}] /\ \A k \in Nodes : HsKept(k)
    BY DEF IInv, Types, HsKept

LEMMA SessGone == ASSUME IInv, NEW n \in Nodes, sess' = [sess EXCEPT ![n] = NoSession]
                  PROVE  sess' \in [Nodes -> SessRecords \cup {NoSession}] /\ \A k \in Nodes : SessKept(k)
    BY DEF IInv, Types, SessKept

LEMMA HsEdited ==
    ASSUME IInv, NEW n \in Nodes, hs[n] \in HsRecords,
           NEW q \in SUBSET Handles, NEW a \in Nat, NEW g \in BOOLEAN,
           hs' = [hs EXCEPT ![n] = [hs[n] EXCEPT !.queued = q, !.attempts = a, !.garbled = g]]
    PROVE  hs' \in [Nodes -> HsRecords \cup {NoHandshake}] /\ \A k \in Nodes : HsKept(k)
<1> DEFINE x == [hs[n] EXCEPT !.queued = q, !.attempts = a, !.garbled = g]
<1>1. /\ x \in HsRecords /\ x.role = hs[n].role /\ x.e = hs[n].e /\ x.re = hs[n].re /\ x.epoch = hs[n].epoch
    BY DEF HsRecords
<1>2. hs \in [Nodes -> HsRecords \cup {NoHandshake}]
    BY DEF IInv, Types
<1> HIDE DEF x
<1>3. hs' = [hs EXCEPT ![n] = x]
    BY DEF x
<1>4. hs' \in [Nodes -> HsRecords \cup {NoHandshake}] /\ hs'[n] = x /\ \A k \in Nodes : k # n => hs'[k] = hs[k]
    BY <1>1, <1>2, <1>3
<1> QED BY <1>1, <1>2, <1>4 DEF HsKept

LEMMA SessEdited ==
    ASSUME IInv, NEW n \in Nodes, sess[n] \in SessRecords, NEW c \in Nat, NEW b \in BOOLEAN,
           sess' = [sess EXCEPT ![n] = [sess[n] EXCEPT !.m3_resends = c, !.rekey = b]]
    PROVE  sess' \in [Nodes -> SessRecords \cup {NoSession}] /\ \A k \in Nodes : SessKept(k)
<1> DEFINE x == [sess[n] EXCEPT !.m3_resends = c, !.rekey = b]
<1>1. /\ x \in SessRecords /\ x.key = sess[n].key /\ x.m3 = sess[n].m3 /\ x.epoch = sess[n].epoch
    BY DEF SessRecords
<1>2. sess \in [Nodes -> SessRecords \cup {NoSession}] /\ sess[n] # NoSession
  <2>1. sess[n].epoch = sess[n].epoch /\ DOMAIN sess[n] = {"key", "epoch", "m3", "m3_resends", "rekey"}
      BY DEF SessRecords
  <2>2. DOMAIN NoSession = {"key"}
      BY DEF NoSession
  <2>3. sess[n] # NoSession
      BY <2>1, <2>2
  <2> QED BY <2>3 DEF IInv, Types
<1> HIDE DEF x
<1>3. sess' = [sess EXCEPT ![n] = x]
    BY DEF x
<1>4. sess' \in [Nodes -> SessRecords \cup {NoSession}] /\ sess'[n] = x /\ \A k \in Nodes : k # n => sess'[k] = sess[k]
    BY <1>1, <1>2, <1>3
<1> QED BY <1>1, <1>2, <1>4 DEF SessKept

\* What is pending or connected is a record with all its fields.
LEMMA Records ==
    ASSUME IInv, NEW n \in Nodes
    PROVE  /\ Pending(n) => hs[n] \in HsRecords
           /\ hs[n].role \in {"Initiator", "Responder"} => hs[n] \in HsRecords
           /\ Connected(n) => sess[n] \in SessRecords
    BY SMTT(15) DEF IInv, Types, Pending, Connected, NoHandshake

LEMMA NextEpochType == ASSUME IInv, NEW n \in Nodes PROVE NextEpoch(n) \in Nat
<1>1. CASE Connected(n)
  <2>1. sess[n].epoch \in Nat
      BY <1>1, Records DEF SessRecords
  <2> QED BY <1>1, <2>1, HandshakeAssumption DEF NextEpoch
<1>2. CASE ~Connected(n)
    BY <1>2 DEF NextEpoch
<1> QED BY <1>1, <1>2

LEMMA HsField ==
    ASSUME IInv, NEW n \in Nodes, hs[n] \in HsRecords
    PROVE  LET kept == hs' \in [Nodes -> HsRecords \cup {NoHandshake}] /\ \A k \in Nodes : HsKept(k)
           IN  /\ \A q \in SUBSET Handles : hs' = [hs EXCEPT ![n].queued = q] => kept
               /\ hs' = [hs EXCEPT ![n].attempts = @ + 1] => kept
               /\ hs' = [hs EXCEPT ![n].garbled = TRUE] => kept
<1>1. hs[n].queued \in SUBSET Handles /\ hs[n].attempts \in Nat /\ hs[n].garbled \in BOOLEAN
    BY DEF HsRecords
<1>2. ASSUME NEW q \in SUBSET Handles, hs' = [hs EXCEPT ![n].queued = q]
      PROVE  hs' \in [Nodes -> HsRecords \cup {NoHandshake}] /\ \A k \in Nodes : HsKept(k)
  <2>1. [hs[n] EXCEPT !.queued = q] = [hs[n] EXCEPT !.queued = q, !.attempts = hs[n].attempts, !.garbled = hs[n].garbled]
      BY DEF HsRecords
  <2>2. hs' = [hs EXCEPT ![n] = [hs[n] EXCEPT !.queued = q, !.attempts = hs[n].attempts, !.garbled = hs[n].garbled]]
      BY <1>2, <2>1 DEF IInv, Types
  <2> QED BY <1>1, <2>2, HsEdited
<1>3. ASSUME hs' = [hs EXCEPT ![n].attempts = @ + 1]
      PROVE  hs' \in [Nodes -> HsRecords \cup {NoHandshake}] /\ \A k \in Nodes : HsKept(k)
  <2>1. [hs[n] EXCEPT !.attempts = @ + 1] = [hs[n] EXCEPT !.queued = hs[n].queued, !.attempts = hs[n].attempts + 1, !.garbled = hs[n].garbled]
      BY DEF HsRecords
  <2>2. hs' = [hs EXCEPT ![n] = [hs[n] EXCEPT !.queued = hs[n].queued, !.attempts = hs[n].attempts + 1, !.garbled = hs[n].garbled]]
      BY <1>3, <2>1 DEF IInv, Types
  <2>3. hs[n].attempts + 1 \in Nat
      BY <1>1
  <2> QED BY <1>1, <2>2, <2>3, HsEdited
<1>4. ASSUME hs' = [hs EXCEPT ![n].garbled = TRUE]
      PROVE  hs' \in [Nodes -> HsRecords \cup {NoHandshake}] /\ \A k \in Nodes : HsKept(k)
  <2>1. [hs[n] EXCEPT !.garbled = TRUE] = [hs[n] EXCEPT !.queued = hs[n].queued, !.attempts = hs[n].attempts, !.garbled = TRUE]
      BY DEF HsRecords
  <2>2. hs' = [hs EXCEPT ![n] = [hs[n] EXCEPT !.queued = hs[n].queued, !.attempts = hs[n].attempts, !.garbled = TRUE]]
      BY <1>4, <2>1 DEF IInv, Types
  <2>3. TRUE \in BOOLEAN
      OBVIOUS
  <2> QED BY <1>1, <2>2, <2>3, HsEdited
<1> QED BY <1>2, <1>3, <1>4

LEMMA QueuedKeeps ==
    ASSUME IInv, NEW n \in Nodes, NEW h \in Handles, SendQueued(n, h)
    PROVE  IInv'
<1>1. /\ UNCHANGED <<sess, air, drawn, installed>> /\ hs[n] \in HsRecords
    BY Records DEF SendQueued
<1>2. hs' \in [Nodes -> HsRecords \cup {NoHandshake}] /\ \A k \in Nodes : HsKept(k)
  <2>1. CASE hs' = hs
      BY <2>1, HsSame
  <2>2. CASE hs' = [hs EXCEPT ![n].queued = @ \cup {h}]
    <3>1. hs[n].queued \cup {h} \in SUBSET Handles
        BY <1>1 DEF HsRecords
    <3>2. hs' = [hs EXCEPT ![n].queued = hs[n].queued \cup {h}]
        BY <2>2
    <3> QED BY <1>1, <3>1, <3>2, HsField
  <2> QED BY <2>1, <2>2 DEF SendQueued
<1> QED BY <1>1, <1>2, SessSame, QuietKeeps

LEMMA StartsKeeps ==
    ASSUME IInv, NEW n \in Nodes, NEW h \in Handles, SendStarts(n, h)
    PROVE  IInv'
<1>1. NextEpoch(n) \in Nat /\ {h} \in SUBSET Handles
    BY NextEpochType
<1>2. /\ drawn' = drawn + 1 /\ hs' = [hs EXCEPT ![n] = InitiatorState(drawn + 1, NextEpoch(n), {h})]
      /\ air' = air \cup {M1(n, drawn + 1, NextEpoch(n))} /\ UNCHANGED <<sess, installed>>
    BY DEF SendStarts, start_handshake
<1>3. sess' \in [Nodes -> SessRecords \cup {NoSession}] /\ \A k \in Nodes : SessKept(k)
    BY <1>2, SessSame
<1> QED BY <1>1, <1>2, <1>3, StartKeeps

\* Data, SESSION_CLOSE and notices carry nothing that AirInv speaks of.
LEMMA Plain ==
    ASSUME NEW n \in Nodes, NEW kind \in {"data", "close"}
    PROVE  Follows(Sealed(n, kind)) /\ Follows(Notice(n))
    BY DEF Follows, Sealed, Notice

LEMMA SendKeeps ==
    ASSUME IInv, NEW n \in Nodes, send_or_queue(n) \/ retry_outstanding(n) \/ session_traffic(n)
    PROVE  IInv'
<1>1. ASSUME UNCHANGED <<hs, sess, drawn, installed>>, air' = air \cup {Sealed(n, "data")} PROVE IInv'
  <2>1. \A m \in air' : m \in air \/ Follows(m)
      BY <1>1, Plain
  <2> QED BY <1>1, <2>1, HsSame, SessSame, QuietKeeps
<1>2. ASSUME NEW h \in HandlesOf(n), SendInSession(n, h) \/ SendQueued(n, h) \/ SendStarts(n, h) PROVE IInv'
  <2>1. h \in Handles
      BY <1>2 DEF HandlesOf, Handles
  <2> QED BY <1>1, <1>2, <2>1, QueuedKeeps, StartsKeeps DEF SendInSession
<1> QED BY <1>1, <1>2 DEF send_or_queue, retry_outstanding, session_traffic

\* Message 2 at the initiator: its ephemeral is in none of its keys yet.
LEMMA InitiatorKeeps ==
    ASSUME IInv, NEW n \in Nodes, NEW m \in air, m.kind = "m2", initiator_continue(n, m)
    PROVE  IInv'
<1>1. hs[n].role = "Initiator" /\ hs[n] \in HsRecords /\ m.e \in 1 .. drawn /\ m.r \in 1 .. drawn
    BY Records DEF initiator_continue, IInv, AirInv
<1>2. CASE Readable2(n, m)
  <2>1. m.e = hs[n].e /\ hs[n].epoch \in Nat
      BY <1>1, <1>2 DEF Readable2, HsRecords
  <2>2. <<m.e, m.r>> \notin Inst(n) /\ M1(n, m.e, hs[n].epoch) \in air
      BY <1>1, <2>1 DEF IInv, HsInv
  <2>3. Install(n, <<m.e, m.r>>, hs[n].epoch, TRUE, {M3(n, m.e, m.r)}) /\ UNCHANGED drawn
      BY <1>2 DEF initiator_continue
  <2>4. TRUE \in BOOLEAN
      OBVIOUS
  <2> QED BY <1>1, <2>1, <2>2, <2>3, <2>4, InstallKeeps
<1>3. CASE ~Readable2(n, m)
  <2>1. hs' = [hs EXCEPT ![n].garbled = TRUE] /\ UNCHANGED <<sess, air, drawn, installed>>
      BY <1>3 DEF initiator_continue
  <2> QED BY <1>1, <2>1, HsField, SessSame, QuietKeeps
<1> QED BY <1>2, <1>3

\* Message 3 at the responder: the initiator that sent it has installed.
LEMMA ResponderKeeps ==
    ASSUME IInv, NEW n \in Nodes, NEW m \in air, m.kind = "m3", m.to = n, responder_finish(n, m)
    PROVE  IInv'
<1>1. /\ hs[n].role = "Responder" /\ hs[n].re = m.e /\ hs[n].e = m.r /\ UNCHANGED drawn
      /\ Install(n, <<m.e, m.r>>, hs[n].epoch, FALSE, {})
    BY DEF responder_finish
<1>2. hs[n] \in HsRecords /\ hs[n].epoch \in Nat
    BY <1>1, Records DEF HsRecords
<1>3. <<m.e, m.r>> \in Inst(Peer(n)) /\ M1(Peer(n), m.e, hs[n].epoch) \in air
    BY <1>1 DEF IInv, AirInv, HsInv
<1>4. m.e \in 1 .. drawn /\ m.r \in 1 .. drawn
    BY <1>3, Ends DEF IInv, InstInv
<1>5. <<m.e, m.r>> \notin Inst(n)
    BY <1>1 DEF IInv, HsInv
<1>6. FALSE \in BOOLEAN
    OBVIOUS
<1> QED BY <1>1, <1>2, <1>3, <1>4, <1>5, <1>6, InstallKeeps

LEMMA HandshakeKeeps == ASSUME IInv, NEW n \in Nodes, handle_handshake(n) PROVE IInv'
<1>1. PICK m \in air : /\ m.to = n
                       /\ \/ m.kind = "m1" /\ (responder_start(n, m) \/ answer_again(n, m) \/ keep_ours(n, m))
                          \/ m.kind = "m2" /\ initiator_continue(n, m)
                          \/ m.kind = "m3" /\ responder_finish(n, m)
    BY DEF handle_handshake
<1>2. CASE m.kind = "m1" /\ responder_start(n, m)
    BY <1>1, <1>2, RespondKeeps
<1>3. CASE m.kind = "m1" /\ answer_again(n, m)
  <2>1. /\ hs[n].re = m.e /\ hs[n].role = "Responder" /\ air' = air \cup {M2(n, hs[n].re, hs[n].e)}
        /\ UNCHANGED <<hs, sess, drawn, installed>>
      BY <1>3 DEF answer_again, Retransmitted
  <2>2. hs[n].re \in 1 .. drawn /\ hs[n].e \in 1 .. drawn
      BY <1>3, <2>1 DEF IInv, AirInv, HsInv
  <2>3. Follows(M2(n, hs[n].re, hs[n].e))
      BY <2>2 DEF Follows, M2
  <2>4. air \subseteq air' /\ \A x \in air' : x \in air \/ Follows(x)
      BY <2>1, <2>3
  <2> QED BY <2>1, <2>4, HsSame, SessSame, QuietKeeps
<1>4. CASE keep_ours(n, m)
    BY <1>4, HsSame, SessSame, QuietKeeps DEF keep_ours, vars
<1>5. CASE m.kind = "m2" /\ initiator_continue(n, m)
    BY <1>5, InitiatorKeeps
<1>6. CASE m.kind = "m3" /\ responder_finish(n, m)
    BY <1>1, <1>6, ResponderKeeps
<1> QED BY <1>1, <1>2, <1>3, <1>4, <1>5, <1>6

\* A message 3 sent again is one of a key both ends may have.
LEMMA ResendKeeps == ASSUME IInv, NEW n \in Nodes, Connected(n), resend_m3(n) PROVE IInv'
<1>1. /\ sess' = [sess EXCEPT ![n].m3_resends = @ + 1] /\ UNCHANGED <<hs, drawn, installed>>
      /\ air' = air \cup {M3(n, sess[n].key[1], sess[n].key[2])}
    BY DEF resend_m3
<1>2. sess[n] \in SessRecords /\ sess[n].m3_resends + 1 \in Nat /\ sess[n].rekey \in BOOLEAN /\ sess[n].key \in Nat \X Nat
    BY Records, SMTT(15) DEF SessRecords
<1>3. [sess[n] EXCEPT !.m3_resends = @ + 1] = [sess[n] EXCEPT !.m3_resends = sess[n].m3_resends + 1, !.rekey = sess[n].rekey]
    BY <1>2 DEF SessRecords
<1>4. sess' = [sess EXCEPT ![n] = [sess[n] EXCEPT !.m3_resends = sess[n].m3_resends + 1, !.rekey = sess[n].rekey]]
    BY <1>1, <1>3 DEF IInv, Types
<1>5. sess' \in [Nodes -> SessRecords \cup {NoSession}] /\ \A k \in Nodes : SessKept(k)
    BY <1>2, <1>4, SessEdited
<1>6. <<sess[n].key[1], sess[n].key[2]>> \in Inst(n)
    BY <1>2 DEF IInv, SessInv
<1>7. Follows(M3(n, sess[n].key[1], sess[n].key[2]))
    BY <1>6, Ends DEF Follows, M3
<1>8. air \subseteq air' /\ \A x \in air' : x \in air \/ Follows(x)
    BY <1>1, <1>7
<1> QED BY <1>1, <1>5, <1>8, HsSame, QuietKeeps

LEMMA DropKeeps == ASSUME IInv, NEW n \in Nodes, drop_session(n) PROVE IInv'
<1>1. sess' = [sess EXCEPT ![n] = NoSession] /\ UNCHANGED installed
    BY DEF drop_session
<1>2. sess' \in [Nodes -> SessRecords \cup {NoSession}] /\ \A k \in Nodes : SessKept(k)
    BY <1>1, SessGone
<1>3. CASE UNCHANGED <<hs, air, drawn>>
    BY <1>1, <1>2, <1>3, HsSame, QuietKeeps
<1>4. ASSUME NEW S \in SUBSET {h \in HandlesOf(n) : status[h] = "sent"}, Requeue(n, S) PROVE IInv'
  <2>1. PICK kept \in SUBSET S :
            \/ /\ Pending(n)
               /\ hs' = [hs EXCEPT ![n].queued = @ \cup kept]
               /\ UNCHANGED <<air, drawn>>
            \/ /\ drawn' = drawn + 1
               /\ hs' = [hs EXCEPT ![n] = InitiatorState(drawn + 1, 0, kept)]
               /\ air' = air \cup {M1(n, drawn + 1, 0)}
      BY <1>4 DEF Requeue
  <2>2. kept \in SUBSET Handles /\ 0 \in Nat
      BY DEF HandlesOf, Handles
  <2>3. CASE Pending(n) /\ hs' = [hs EXCEPT ![n].queued = @ \cup kept] /\ UNCHANGED <<air, drawn>>
    <3>1. hs[n] \in HsRecords
        BY <2>3, Records
    <3>2. hs[n].queued \cup kept \in SUBSET Handles
        BY <2>2, <3>1 DEF HsRecords
    <3>3. hs' = [hs EXCEPT ![n].queued = hs[n].queued \cup kept]
        BY <2>3
    <3>4. hs' \in [Nodes -> HsRecords \cup {NoHandshake}] /\ \A k \in Nodes : HsKept(k)
        BY <3>1, <3>2, <3>3, HsField
    <3> QED BY <1>1, <1>2, <2>3, <3>4, QuietKeeps
  <2>4. CASE /\ drawn' = drawn + 1
             /\ hs' = [hs EXCEPT ![n] = InitiatorState(drawn + 1, 0, kept)]
             /\ air' = air \cup {M1(n, drawn + 1, 0)}
      BY <1>1, <1>2, <2>2, <2>4, StartKeeps
  <2> QED BY <2>1, <2>3, <2>4
<1> QED BY <1>3, <1>4 DEF drop_session

LEMMA RekeyKeeps == ASSUME IInv, NEW n \in Nodes, rekey(n) PROVE IInv'
<1>1. /\ Connected(n) /\ sess' = [sess EXCEPT ![n].rekey = TRUE] /\ UNCHANGED installed
    BY DEF rekey
<1>2. sess[n] \in SessRecords /\ sess[n].m3_resends \in Nat /\ TRUE \in BOOLEAN
    BY <1>1, Records DEF SessRecords
<1>3. [sess[n] EXCEPT !.rekey = TRUE] = [sess[n] EXCEPT !.m3_resends = sess[n].m3_resends, !.rekey = TRUE]
    BY <1>2 DEF SessRecords
<1>4. sess' = [sess EXCEPT ![n] = [sess[n] EXCEPT !.m3_resends = sess[n].m3_resends, !.rekey = TRUE]]
    BY <1>1, <1>3 DEF IInv, Types
<1>5. sess' \in [Nodes -> SessRecords \cup {NoSession}] /\ \A k \in Nodes : SessKept(k)
    BY <1>2, <1>4, SessEdited
<1>6. CASE UNCHANGED <<hs, air, drawn>>
    BY <1>1, <1>5, <1>6, HsSame, QuietKeeps
<1>7. CASE start_handshake(n, {})
  <2>1. /\ drawn' = drawn + 1 /\ hs' = [hs EXCEPT ![n] = InitiatorState(drawn + 1, NextEpoch(n), {})]
        /\ air' = air \cup {M1(n, drawn + 1, NextEpoch(n))}
      BY <1>7 DEF start_handshake
  <2>2. NextEpoch(n) \in Nat /\ {} \in SUBSET Handles
      BY NextEpochType
  <2> QED BY <1>1, <1>5, <2>1, <2>2, StartKeeps
<1> QED BY <1>6, <1>7 DEF rekey

\* Notices, timers, tear-down and reboot.
LEMMA TimerKeeps ==
    ASSUME IInv, NEW n \in Nodes,
           \/ notify_no_session(n) \/ peer_closed(n) \/ resend_m1(n) \/ expire_handshake(n)
           \/ expire_session(n) \/ close_session(n) \/ reboot(n)
    PROVE  IInv'
<1>1. CASE notify_no_session(n)
  <2>1. /\ hs[n].role = "Responder" /\ hs' = [hs EXCEPT ![n].attempts = @ + 1] /\ air' = air \cup {Notice(n)}
        /\ UNCHANGED <<sess, drawn, installed>>
      BY <1>1 DEF notify_no_session
  <2>2. hs[n] \in HsRecords
      BY <2>1, Records
  <2>3. air \subseteq air' /\ \A x \in air' : x \in air \/ Follows(x)
      BY <2>1, Plain
  <2> QED BY <2>1, <2>2, <2>3, HsField, SessSame, QuietKeeps
<1>2. CASE peer_closed(n) \/ expire_session(n)
    BY <1>2, HsSame, SessGone, QuietKeeps DEF peer_closed, expire_session
<1>3. CASE resend_m1(n)
  <2>1. /\ hs[n].role = "Initiator" /\ hs' = [hs EXCEPT ![n].attempts = @ + 1]
        /\ air' = air \cup {M1(n, hs[n].e, hs[n].epoch)} /\ UNCHANGED <<sess, drawn, installed>>
      BY <1>3 DEF resend_m1
  <2>2. hs[n] \in HsRecords
      BY <2>1, Records
  <2>3. air' = air
      BY <2>1 DEF IInv, HsInv
  <2> QED BY <2>1, <2>2, <2>3, HsField, SessSame, QuietKeeps
<1>4. CASE expire_handshake(n)
    BY <1>4, HsGone, SessSame, QuietKeeps DEF expire_handshake
<1>5. CASE close_session(n)
  <2>1. /\ sess' = [sess EXCEPT ![n] = NoSession] /\ UNCHANGED <<hs, drawn, installed>>
        /\ air' = air \cup {Sealed(n, "close")}
      BY <1>5 DEF close_session
  <2>2. air \subseteq air' /\ \A x \in air' : x \in air \/ Follows(x)
      BY <2>1, Plain
  <2> QED BY <2>1, <2>2, HsSame, SessGone, QuietKeeps
<1>6. CASE reboot(n)
    BY <1>6, HsGone, SessGone, QuietKeeps DEF reboot
<1> QED BY <1>1, <1>2, <1>3, <1>4, <1>5, <1>6

LEMMA NextIInv == IInv /\ [Next]_vars => IInv'
<1> SUFFICES ASSUME IInv, [Next]_vars PROVE IInv'
    OBVIOUS
<1>1. CASE UNCHANGED vars
    BY <1>1, HsSame, SessSame, QuietKeeps DEF vars
<1>2. ASSUME NEW n \in Nodes, on_no_session_notice(n) PROVE IInv'
    BY <1>2, ResendKeeps, DropKeeps DEF on_no_session_notice
<1> QED BY <1>1, <1>2, SendKeeps, HandshakeKeeps, RekeyKeeps, TimerKeeps DEF Next

LEMMA Inductive == Spec => []IInv
    BY InitIInv, NextIInv, PTL DEF Spec

\* No node installs the same session keys twice, whatever messages 2 and 3
\* are repeated, late or resent (initiator_continue, responder_finish,
\* install_session).
THEOREM KeysInstalledOnceHolds == Spec => []KeysInstalledOnce
<1>1. IInv => KeysInstalledOnce
    BY DEF IInv
<1> QED BY <1>1, Inductive, PTL

\* A responder runs only a session its initiator installed, and the two ends
\* of a session have one epoch and opposite roles (install_session).
THEOREM EndsAgreeHolds == Spec => []EndsAgree
<1>1. ASSUME IInv PROVE EndsAgree
  <2> SUFFICES ASSUME NEW n \in Nodes, Connected(n)
               PROVE  /\ ~sess[n].m3 => \E i \in DOMAIN installed[Peer(n)] : installed[Peer(n)][i] = sess[n].key
                      /\ Connected(Peer(n)) /\ sess[Peer(n)].key = sess[n].key =>
                             /\ sess[Peer(n)].epoch = sess[n].epoch
                             /\ sess[Peer(n)].m3 # sess[n].m3
      BY DEF EndsAgree
  <2>1. ~sess[n].m3 => \E i \in DOMAIN installed[Peer(n)] : installed[Peer(n)][i] = sess[n].key
      BY <1>1 DEF IInv, SessInv, Inst
  <2>2. ASSUME Connected(Peer(n)), sess[Peer(n)].key = sess[n].key
        PROVE  sess[Peer(n)].epoch = sess[n].epoch /\ sess[Peer(n)].m3 # sess[n].m3
    <3> DEFINE p == Peer(n)
               a == M1(IF sess[n].m3 THEN n ELSE p, sess[n].key[1], sess[n].epoch)
               b == M1(IF sess[p].m3 THEN p ELSE n, sess[n].key[1], sess[p].epoch)
    <3>1. p \in Nodes /\ p # n /\ Peer(p) = n /\ sess[p].m3 \in BOOLEAN /\ sess[n].m3 \in BOOLEAN
        BY <1>1, <2>2, Ends, Records DEF SessRecords
    <3>2. a \in air
        BY <1>1 DEF IInv, SessInv
    <3>3. b \in air
        BY <1>1, <2>2, <3>1 DEF IInv, SessInv
    <3>4. a.kind = "m1" /\ b.kind = "m1" /\ a.e = b.e
        BY DEF M1
    <3> HIDE DEF a, b
    <3>5. a = b
        BY <1>1, <3>2, <3>3, <3>4 DEF IInv, AirInv
    <3>6. a.epoch = sess[n].epoch /\ b.epoch = sess[p].epoch
        BY DEF a, b, M1
    <3>7. a.to = (IF sess[n].m3 THEN p ELSE n) /\ b.to = (IF sess[p].m3 THEN n ELSE p)
        BY <3>1 DEF a, b, M1
    <3> QED BY <3>1, <3>5, <3>6, <3>7
  <2> QED BY <2>1, <2>2
<1> QED BY <1>1, Inductive, PTL

\* Only responder_start makes a responder.
LEMMA RespondersOnly ==
    ASSUME IInv, Next, ~(\E n \in Nodes, m \in air : responder_start(n, m))
    PROVE  staleM1' = staleM1 /\ \A k \in Nodes : hs'[k].role = "Responder" => hs[k].role = "Responder"
<1>1. ASSUME NEW n \in Nodes, hs' = hs \/ hs' = [hs EXCEPT ![n] = NoHandshake]
      PROVE  \A k \in Nodes : hs'[k].role = "Responder" => hs[k].role = "Responder"
  <2>1. NoHandshake.role # "Responder"
      BY DEF NoHandshake
  <2>2. \A k \in Nodes : hs'[k] = hs[k] \/ hs'[k] = NoHandshake
      BY <1>1 DEF IInv, Types
  <2> QED BY <2>1, <2>2
<1>2. ASSUME NEW n \in Nodes, NEW e, NEW epoch, NEW q, hs' = [hs EXCEPT ![n] = InitiatorState(e, epoch, q)]
      PROVE  \A k \in Nodes : hs'[k].role = "Responder" => hs[k].role = "Responder"
    BY <1>2 DEF IInv, Types, InitiatorState
<1>3. ASSUME NEW n \in Nodes, NEW x, NEW y, NEW z,
             \/ hs' = [hs EXCEPT ![n].queued = x]
             \/ hs' = [hs EXCEPT ![n].attempts = y]
             \/ hs' = [hs EXCEPT ![n].garbled = z]
      PROVE  \A k \in Nodes : hs'[k].role = "Responder" => hs[k].role = "Responder"
  <2>1. hs[n] \in HsRecords \cup {NoHandshake}
      BY DEF IInv, Types
  <2>2. /\ [hs[n] EXCEPT !.queued = x].role = hs[n].role
        /\ [hs[n] EXCEPT !.attempts = y].role = hs[n].role
        /\ [hs[n] EXCEPT !.garbled = z].role = hs[n].role
      BY <2>1 DEF HsRecords, NoHandshake
  <2> QED BY <1>3, <2>2 DEF IInv, Types
<1>4. ASSUME NEW n \in Nodes, NEW h, SendInSession(n, h) \/ SendQueued(n, h) \/ SendStarts(n, h)
      PROVE  staleM1' = staleM1 /\ \A k \in Nodes : hs'[k].role = "Responder" => hs[k].role = "Responder"
    BY <1>1, <1>2, <1>3, <1>4, SMTT(15) DEF SendInSession, SendQueued, SendStarts, start_handshake
<1>5. ASSUME NEW n \in Nodes, send_or_queue(n) \/ retry_outstanding(n) \/ session_traffic(n)
      PROVE  staleM1' = staleM1 /\ \A k \in Nodes : hs'[k].role = "Responder" => hs[k].role = "Responder"
    BY <1>1, <1>4, <1>5 DEF send_or_queue, retry_outstanding, session_traffic
<1>6. ASSUME NEW n \in Nodes, handle_handshake(n)
      PROVE  staleM1' = staleM1 /\ \A k \in Nodes : hs'[k].role = "Responder" => hs[k].role = "Responder"
  <2>1. PICK m \in air : answer_again(n, m) \/ keep_ours(n, m) \/ initiator_continue(n, m) \/ responder_finish(n, m)
      BY <1>6 DEF handle_handshake
  <2> QED BY <2>1, <1>1, <1>3 DEF answer_again, keep_ours, vars, initiator_continue, responder_finish, Install
<1>7. ASSUME NEW n \in Nodes, on_no_session_notice(n)
      PROVE  staleM1' = staleM1 /\ \A k \in Nodes : hs'[k].role = "Responder" => hs[k].role = "Responder"
  <2>1. CASE resend_m3(n)
      BY <2>1, <1>1 DEF resend_m3
  <2>2. ASSUME NEW S, Requeue(n, S)
        PROVE  \A k \in Nodes : hs'[k].role = "Responder" => hs[k].role = "Responder"
    <3>1. PICK kept \in SUBSET S : \/ hs' = [hs EXCEPT ![n].queued = @ \cup kept]
                                   \/ hs' = [hs EXCEPT ![n] = InitiatorState(drawn + 1, 0, kept)]
        BY <2>2 DEF Requeue
    <3> QED BY <3>1, <1>2, <1>3
  <2>3. CASE drop_session(n)
      BY <2>2, <2>3, <1>1 DEF drop_session
  <2> QED BY <1>7, <2>1, <2>3 DEF on_no_session_notice
<1>8. ASSUME NEW n \in Nodes,
             \/ notify_no_session(n) \/ peer_closed(n) \/ resend_m1(n) \/ expire_handshake(n)
             \/ expire_session(n) \/ close_session(n) \/ reboot(n) \/ rekey(n)
      PROVE  staleM1' = staleM1 /\ \A k \in Nodes : hs'[k].role = "Responder" => hs[k].role = "Responder"
  <2>1. CASE notify_no_session(n) \/ resend_m1(n)
    <3>1. staleM1' = staleM1 /\ hs' = [hs EXCEPT ![n].attempts = hs[n].attempts + 1]
        BY <2>1 DEF notify_no_session, resend_m1
    <3> QED BY <3>1, <1>3
  <2>2. CASE peer_closed(n) \/ expire_handshake(n) \/ expire_session(n) \/ close_session(n) \/ reboot(n)
      BY <2>2, <1>1 DEF peer_closed, expire_handshake, expire_session, close_session, reboot
  <2>3. CASE rekey(n)
      BY <2>3, <1>1, <1>2 DEF rekey, start_handshake
  <2> QED BY <1>8, <2>1, <2>2, <2>3
<1> QED BY <1>5, <1>6, <1>7, <1>8 DEF Next

\* Both ends wait for a message 3 only after one answered an abandoned
\* message 1: the tie-break of responder_start resolves a simultaneous open.
THEOREM CrossedOpenResolvedHolds == Spec => []CrossedOpenResolved
<1>1. Init => CrossedOpenResolved
    BY SMTT(15) DEF Init, CrossedOpenResolved, Nodes, NoHandshake
<1>2. ASSUME IInv, CrossedOpenResolved, Next PROVE CrossedOpenResolved'
  <2>1. CASE ~(\E n \in Nodes, m \in air : responder_start(n, m))
      BY <1>2, <2>1, RespondersOnly DEF CrossedOpenResolved
  <2>2. ASSUME NEW n \in Nodes, NEW m \in air, responder_start(n, m) PROVE CrossedOpenResolved'
    <3> SUFFICES ASSUME \A k \in Nodes : hs'[k].role = "Responder" PROVE staleM1'
        BY DEF CrossedOpenResolved
    <3>1. Peer(n) \in Nodes /\ Peer(n) # n
        BY Ends
    <3>2. hs'[Peer(n)] = hs[Peer(n)]
        BY <1>2, <2>2, <3>1 DEF responder_start, Respond, IInv, Types
    <3>3. hs[Peer(n)].role = "Responder"
        BY <3>1, <3>2
    <3>4. GivenUp(n, m)
        BY <2>2, <3>3 DEF GivenUp, responder_start, Respond, KeepsOwn
    <3> QED BY <2>2, <3>4 DEF responder_start, Respond
  <2> QED BY <2>1, <2>2
<1>3. CrossedOpenResolved /\ UNCHANGED vars => CrossedOpenResolved'
    BY DEF CrossedOpenResolved, vars
<1> QED BY <1>1, <1>2, <1>3, Inductive, PTL DEF Spec
=============================================================================

-------------------------- MODULE TransportProofs --------------------------
(***************************************************************************)
(* Proofs, for any number of messages and any queue and retry limits, that *)
(* a message is in one place until its report, and that the application    *)
(* hears of it once; that Delivered means received while no number is used *)
(* again (NumbersSuffice); and that the receiver hands a message up once   *)
(* while its window remembers all numbers in use (WindowSuffices).         *)
(***************************************************************************)
EXTENDS Transport, FiniteSetTheorems, TLAPS

\* Time for the provers.
USE ZenonT(10), SMTT(15)

Final == {"delivered", "failed", "rebooted"}
Entries == [handle : Handles, seq : 1 .. SeqSpace - 1, attempts : 1 .. MaxAttempts]

SenderTypes ==
    /\ next_seq \in 1 .. SeqSpace - 1
    /\ outstanding \subseteq Entries
    /\ queued \subseteq Handles
    /\ report \in [Handles -> {"unsent", "pending"} \cup Final]
    /\ losses \in Nat /\ sessions \in Nat

\* A message is tracked once: otherwise the acknowledgement of one entry would
\* report a message that the other one goes on retrying.
TrackedOnce == \A o, p \in outstanding : o.handle = p.handle => o = p

\* Without a lost session nothing is in flight when there is no session, so
\* the retry that drops its neighbours (tick_without_session) finds none.
InFlightInSession == losses = 0 /\ session = 0 => outstanding = {}

\* The inductive invariant.
IInv == SenderTypes /\ TrackedOnce /\ InFlightInSession /\ Accounted

\* What a step may do to a message whose report is final: nothing.
KeepsReports ==
    \A h \in Handles : report[h] \in Final
        => h \notin queued' \cup HandlesOf(outstanding') /\ report'[h] = report[h]

LEMMA InitIInv == Init => IInv
<1> SUFFICES ASSUME Init PROVE IInv
    OBVIOUS
<1> USE SeqAssumption, TransportAssumption DEF Init
<1>1. SenderTypes
    BY DEF SenderTypes
<1>2. TrackedOnce /\ InFlightInSession
    BY DEF TrackedOnce, InFlightInSession
<1>3. Accounted
    BY DEF Accounted, HandlesOf
<1> QED BY <1>1, <1>2, <1>3 DEF IInv

LEMMA SeqAfterType ==
    ASSUME NEW q \in 1 .. SeqSpace - 1, NEW k \in Nat
    PROVE  SeqAfter(q, k) \in 1 .. SeqSpace - 1
<1> USE SeqAssumption
<1>1. SeqSpace - 1 \in Nat \ {0} /\ q - 1 + k \in Nat
    BY SMTT(15)
<1>2. (q - 1 + k) % (SeqSpace - 1) \in 0 .. SeqSpace - 2
    BY <1>1
<1> QED BY <1>2 DEF SeqAfter

\* Sending the messages H, none of which is tracked: some of them are tracked
\* now, all the others are reported failed.
LEMMA SendAllEffect ==
    ASSUME IInv, NEW H \in SUBSET Handles, NEW s, SendAll(H, s), H \cap HandlesOf(outstanding) = {}
    PROVE  /\ next_seq' \in 1 .. SeqSpace - 1
           /\ outstanding' \subseteq Entries
           /\ TrackedOnce'
           /\ outstanding \subseteq outstanding'
           /\ \A h \in Handles :
                 /\ h \notin H => /\ report'[h] = report[h]
                                  /\ h \in HandlesOf(outstanding') => h \in HandlesOf(outstanding)
                 /\ h \in H => report'[h] = IF h \in HandlesOf(outstanding') THEN "pending" ELSE "failed"
           /\ report' \in [Handles -> {"unsent", "pending"} \cup Final]
<1> USE SeqAssumption, TransportAssumption
<1>1. PICK place \in [H -> 0 .. Cardinality(H) - 1], ok \in SUBSET H :
        LET seq(h) == SeqAfter(next_seq, place[h])
            earlier(h) == {g \in ok : place[g] < place[h]}
            tracked == {h \in ok : Cardinality(outstanding) + Cardinality(earlier(h)) < MaxInFlight}
        IN  /\ next_seq' = SeqAfter(next_seq, Cardinality(H))
            /\ outstanding' = outstanding \cup
                   {[handle |-> h, seq |-> seq(h), attempts |-> 1] : h \in tracked}
            /\ report' = [h \in Handles |-> IF h \notin H THEN report[h]
                                           ELSE IF h \in tracked THEN "pending" ELSE "failed"]
    BY DEF SendAll
<1> DEFINE seq(h) == SeqAfter(next_seq, place[h])
           tracked == {h \in ok : Cardinality(outstanding) + Cardinality({g \in ok : place[g] < place[h]}) < MaxInFlight}
           entry(h) == [handle |-> h, seq |-> seq(h), attempts |-> 1]
<1>2. /\ next_seq' = SeqAfter(next_seq, Cardinality(H))
      /\ outstanding' = outstanding \cup {entry(h) : h \in tracked}
      /\ report' = [h \in Handles |-> IF h \notin H THEN report[h]
                                     ELSE IF h \in tracked THEN "pending" ELSE "failed"]
    BY <1>1
<1>3. Cardinality(H) \in Nat
    BY FS_Subset, FS_CardinalityType
<1>4. tracked \subseteq H
    OBVIOUS
<1>5. \A h \in H : seq(h) \in 1 .. SeqSpace - 1
  <2> SUFFICES ASSUME NEW h \in H PROVE seq(h) \in 1 .. SeqSpace - 1
      OBVIOUS
  <2>1. place[h] \in Nat
      BY <1>3, SMTT(15)
  <2> QED BY <2>1, SeqAfterType DEF IInv, SenderTypes
<1> HIDE DEF tracked, seq
<1>6. \A h \in H : entry(h) \in Entries /\ entry(h).handle = h
    BY <1>5, SMTT(15) DEF Entries
<1>7. next_seq' \in 1 .. SeqSpace - 1
    BY <1>2, <1>3, SeqAfterType DEF IInv, SenderTypes
<1>8. outstanding' \subseteq Entries /\ outstanding \subseteq outstanding'
    BY <1>2, <1>4, <1>6 DEF IInv, SenderTypes
<1>9. HandlesOf(outstanding') = HandlesOf(outstanding) \cup tracked
  <2>1. \A h \in tracked : entry(h).handle = h
      BY <1>4, <1>6
  <2>2. ASSUME NEW o \in outstanding' PROVE o.handle \in HandlesOf(outstanding) \cup tracked
      BY <1>2, <2>1, ZenonT(40) DEF HandlesOf
  <2>3. ASSUME NEW h \in tracked PROVE h \in HandlesOf(outstanding')
    <3>1. entry(h) \in outstanding' /\ entry(h).handle = h
        BY <1>2, <2>1
    <3> QED BY <3>1 DEF HandlesOf
  <2>4. HandlesOf(outstanding) \subseteq HandlesOf(outstanding')
      BY <1>8 DEF HandlesOf
  <2>5. HandlesOf(outstanding') \subseteq HandlesOf(outstanding) \cup tracked
      BY <2>2 DEF HandlesOf
  <2> QED BY <2>3, <2>4, <2>5
<1>10. TrackedOnce'
  <2> SUFFICES ASSUME NEW o \in outstanding', NEW p \in outstanding', o.handle = p.handle PROVE o = p
      BY DEF TrackedOnce
  <2>1. CASE o \in outstanding /\ p \in outstanding
      BY <2>1 DEF IInv, TrackedOnce
  <2>2. ASSUME NEW x \in outstanding, NEW h \in tracked PROVE x.handle # entry(h).handle
      BY <1>4, <1>6, SMTT(15) DEF HandlesOf
  <2>3. ASSUME NEW h \in tracked, NEW g \in tracked, entry(h).handle = entry(g).handle PROVE entry(h) = entry(g)
    <3>1. h = g
        BY <2>3, <1>4, <1>6
    <3> QED BY <3>1
  <2> QED BY <1>2, <2>1, <2>2, <2>3, SMTT(15)
<1>11. report' \in [Handles -> {"unsent", "pending"} \cup Final]
    BY <1>2 DEF IInv, SenderTypes, Final
<1>12. \A h \in Handles :
          /\ h \notin H => /\ report'[h] = report[h]
                           /\ h \in HandlesOf(outstanding') => h \in HandlesOf(outstanding)
          /\ h \in H => report'[h] = IF h \in HandlesOf(outstanding') THEN "pending" ELSE "failed"
  <2> SUFFICES ASSUME NEW h \in Handles
               PROVE  /\ h \notin H => /\ report'[h] = report[h]
                                       /\ h \in HandlesOf(outstanding') => h \in HandlesOf(outstanding)
                      /\ h \in H => report'[h] = IF h \in HandlesOf(outstanding') THEN "pending" ELSE "failed"
      OBVIOUS
  <2>1. CASE h \notin H
      BY <2>1, <1>2, <1>4, <1>9
  <2>2. CASE h \in H
    <3>1. h \notin HandlesOf(outstanding)
        BY <2>2
    <3>2. h \in HandlesOf(outstanding') <=> h \in tracked
        BY <3>1, <1>9
    <3>3. report'[h] = IF h \in tracked THEN "pending" ELSE "failed"
        BY <1>2, <2>2
    <3> QED BY <2>2, <3>2, <3>3
  <2> QED BY <2>1, <2>2
<1> QED BY <1>7, <1>8, <1>10, <1>11, <1>12

\* The invariant and the action property together, from what a step does to
\* one message at a time.
LEMMA Pieces ==
    ASSUME IInv, SenderTypes', TrackedOnce', InFlightInSession', losses <= losses',
           \A h \in Handles :
              LET held == h \in queued' \cup HandlesOf(outstanding')
              IN  /\ h \notin queued' \cap HandlesOf(outstanding')
                  /\ held => report'[h] = "pending"
                  /\ losses' = 0 /\ report'[h] = "pending" => held
                  /\ report[h] \in Final => report'[h] = report[h]
    PROVE  IInv' /\ KeepsReports
<1>1. Accounted'
    BY DEF Accounted
<1>2. KeepsReports
    BY DEF KeepsReports, Final, IInv, SenderTypes
<1> QED BY <1>1, <1>2 DEF IInv

\* One message, before a step.
LEMMA Message ==
    ASSUME IInv, NEW h \in Handles
    PROVE  /\ h \notin queued \cap HandlesOf(outstanding)
           /\ h \in queued \cup HandlesOf(outstanding) => report[h] = "pending"
           /\ losses = 0 /\ report[h] = "pending" => h \in queued \cup HandlesOf(outstanding)
           /\ report[h] \in {"unsent", "pending"} \cup Final
    BY DEF IInv, Accounted, SenderTypes

LEMMA SendKeeps ==
    ASSUME IInv, NEW m \in Handles, send_message(m)
    PROVE  IInv' /\ KeepsReports
<1> USE SeqAssumption, TransportAssumption
<1>1. report[m] = "unsent" /\ UNCHANGED <<session, losses, sessions>>
    BY DEF send_message, bounds
<1>2. m \notin queued \cup HandlesOf(outstanding)
    BY <1>1, Message
<1>3. CASE session # 0
  <2>1. SendAll({m}, session) /\ queued' = queued
      BY <1>3 DEF send_message
  <2>2. /\ next_seq' \in 1 .. SeqSpace - 1
        /\ outstanding' \subseteq Entries /\ TrackedOnce' /\ outstanding \subseteq outstanding'
        /\ \A h \in Handles :
              /\ h \notin {m} => /\ report'[h] = report[h]
                                 /\ h \in HandlesOf(outstanding') => h \in HandlesOf(outstanding)
              /\ h \in {m} => report'[h] = IF h \in HandlesOf(outstanding') THEN "pending" ELSE "failed"
        /\ report' \in [Handles -> {"unsent", "pending"} \cup Final]
    <3>1. {m} \in SUBSET Handles /\ {m} \cap HandlesOf(outstanding) = {}
        BY <1>2
    <3> QED BY <2>1, <3>1, SendAllEffect, Zenon
  <2>3. HandlesOf(outstanding) \subseteq HandlesOf(outstanding')
      BY <2>2 DEF HandlesOf
  <2>4. SenderTypes' /\ InFlightInSession'
      BY <1>1, <1>3, <2>1, <2>2 DEF SenderTypes, InFlightInSession, IInv
  <2>5. ASSUME NEW h \in Handles
        PROVE  LET held == h \in queued' \cup HandlesOf(outstanding')
               IN  /\ h \notin queued' \cap HandlesOf(outstanding')
                   /\ held => report'[h] = "pending"
                   /\ losses' = 0 /\ report'[h] = "pending" => held
                   /\ report[h] \in Final => report'[h] = report[h]
    <3>1. CASE h = m
        BY <3>1, <1>1, <1>2, <2>1, <2>2 DEF Final
    <3>2. CASE h # m
      <4>1. report'[h] = report[h] /\ (h \in HandlesOf(outstanding') <=> h \in HandlesOf(outstanding))
          BY <3>2, <2>2, <2>3
      <4> QED BY <4>1, <1>1, <2>1, Message
    <3> QED BY <3>1, <3>2
  <2> QED BY <1>1, <2>2, <2>4, <2>5, Pieces, SMTT(15) DEF IInv, SenderTypes
<1>4. CASE session = 0
  <2>1. /\ UNCHANGED <<next_seq, outstanding>>
        /\ \/ queued' = queued \cup {m} /\ report' = Reported({m}, "pending")
           \/ queued' = queued /\ report' = Reported({m}, "failed")
      BY <1>4 DEF send_message
  <2>2. SenderTypes' /\ InFlightInSession' /\ TrackedOnce'
      BY <1>1, <2>1 DEF IInv, SenderTypes, InFlightInSession, TrackedOnce, Reported, Final
  <2>3. HandlesOf(outstanding') = HandlesOf(outstanding)
      BY <2>1
  <2>4. ASSUME NEW h \in Handles
        PROVE  LET held == h \in queued' \cup HandlesOf(outstanding')
               IN  /\ h \notin queued' \cap HandlesOf(outstanding')
                   /\ held => report'[h] = "pending"
                   /\ losses' = 0 /\ report'[h] = "pending" => held
                   /\ report[h] \in Final => report'[h] = report[h]
    <3>1. CASE h = m
      <4>1. report' = Reported({m}, "pending") => report'[h] = "pending"
          BY <3>1 DEF Reported
      <4>2. report' = Reported({m}, "failed") => report'[h] = "failed"
          BY <3>1 DEF Reported
      <4> QED BY <3>1, <4>1, <4>2, <1>1, <1>2, <2>1, <2>3 DEF Final
    <3>2. CASE h # m
      <4>1. report'[h] = report[h] /\ (h \in queued' <=> h \in queued)
          BY <3>2, <2>1 DEF Reported
      <4> QED BY <4>1, <1>1, <2>3, Message
    <3> QED BY <3>1, <3>2
  <2> QED BY <1>1, <2>2, <2>4, Pieces, SMTT(15) DEF IInv, SenderTypes
<1> QED BY <1>3, <1>4

\* A session comes about: what was queued is sent in it.
LEMMA EstablishKeeps == IInv /\ establish => IInv' /\ KeepsReports
<1> SUFFICES ASSUME IInv, establish PROVE IInv' /\ KeepsReports
    OBVIOUS
<1>1. SendAll(queued, sessions + 1) /\ queued' = {} /\ losses' = losses /\ sessions' = sessions + 1
    BY DEF establish
<1>2. queued \in SUBSET Handles /\ queued \cap HandlesOf(outstanding) = {}
    BY Message DEF IInv, SenderTypes
<1>3. /\ next_seq' \in 1 .. SeqSpace - 1
      /\ outstanding' \subseteq Entries /\ TrackedOnce' /\ outstanding \subseteq outstanding'
      /\ \A h \in Handles :
            /\ h \notin queued => /\ report'[h] = report[h]
                                  /\ h \in HandlesOf(outstanding') => h \in HandlesOf(outstanding)
            /\ h \in queued => report'[h] = IF h \in HandlesOf(outstanding') THEN "pending" ELSE "failed"
      /\ report' \in [Handles -> {"unsent", "pending"} \cup Final]
    BY <1>1, <1>2, SendAllEffect, Zenon
<1>4. HandlesOf(outstanding) \subseteq HandlesOf(outstanding')
    BY <1>3 DEF HandlesOf
<1>5. SenderTypes'
    BY <1>1, <1>3 DEF SenderTypes, IInv
<1>6. InFlightInSession'
  <2>1. losses = 0 => session' # 0
      BY DEF establish, IInv, SenderTypes
  <2> QED BY <2>1, <1>1 DEF InFlightInSession
<1>7. ASSUME NEW h \in Handles
      PROVE  LET held == h \in queued' \cup HandlesOf(outstanding')
             IN  /\ h \notin queued' \cap HandlesOf(outstanding')
                 /\ held => report'[h] = "pending"
                 /\ losses' = 0 /\ report'[h] = "pending" => held
                 /\ report[h] \in Final => report'[h] = report[h]
  <2>1. CASE h \in queued
      BY <2>1, <1>1, <1>3, Message DEF Final
  <2>2. CASE h \notin queued
    <3>1. report'[h] = report[h] /\ (h \in HandlesOf(outstanding') <=> h \in HandlesOf(outstanding))
        BY <2>2, <1>3, <1>4
    <3> QED BY <3>1, <2>2, <1>1, Message
  <2> QED BY <2>1, <2>2
<1> QED BY <1>1, <1>3, <1>5, <1>6, <1>7, Pieces, SMTT(15) DEF IInv, SenderTypes

\* Messages given up: those of G leave their place and are reported.
LEMMA GiveUpKeeps ==
    ASSUME IInv, NEW G \in SUBSET Handles, NEW what \in Final,
           queued' \subseteq queued, outstanding' \subseteq outstanding,
           report' = Reported(G, what), UNCHANGED <<next_seq, losses, sessions>>,
           session' = session \/ outstanding' = {},
           G \subseteq queued \cup HandlesOf(outstanding),
           G \cap (queued' \cup HandlesOf(outstanding')) = {},
           losses = 0 => (queued \cup HandlesOf(outstanding)) \ G \subseteq queued' \cup HandlesOf(outstanding')
    PROVE  IInv' /\ KeepsReports
<1>1. SenderTypes'
    BY DEF IInv, SenderTypes, Reported
<1>2. TrackedOnce' /\ InFlightInSession'
    BY DEF IInv, TrackedOnce, InFlightInSession
<1>3. HandlesOf(outstanding') \subseteq HandlesOf(outstanding)
    BY DEF HandlesOf
<1>4. ASSUME NEW h \in Handles
      PROVE  LET held == h \in queued' \cup HandlesOf(outstanding')
             IN  /\ h \notin queued' \cap HandlesOf(outstanding')
                 /\ held => report'[h] = "pending"
                 /\ losses' = 0 /\ report'[h] = "pending" => held
                 /\ report[h] \in Final => report'[h] = report[h]
  <2>1. CASE h \in G
    <3>1. report'[h] = what /\ report[h] = "pending"
        BY <2>1, Message DEF Reported
    <3> QED BY <2>1, <3>1 DEF Final
  <2>2. CASE h \notin G
    <3>1. report'[h] = report[h]
        BY <2>2 DEF Reported
    <3> QED BY <2>2, <3>1, <1>3, Message
  <2> QED BY <2>1, <2>2
<1>5. losses <= losses'
    BY SMTT(15) DEF IInv, SenderTypes
<1> QED BY <1>1, <1>2, <1>4, <1>5, Pieces

LEMMA ExpiryKeeps ==
    ASSUME IInv, handshake_expired \/ on_discovery_failed
    PROVE  IInv' /\ KeepsReports
<1>1. queued \subseteq Handles /\ HandlesOf(outstanding) \subseteq Handles /\ HandlesOf({}) = {}
    BY DEF IInv, SenderTypes, Entries, HandlesOf
<1>2. CASE handshake_expired
  <2>1. /\ report' = Reported(queued, "failed") /\ queued' = {} /\ UNCHANGED <<next_seq, outstanding, session, losses, sessions>>
      BY <1>2 DEF handshake_expired, bounds
  <2>2. queued \cap HandlesOf(outstanding) = {}
      BY <1>1, Message
  <2>3. "failed" \in Final /\ queued \in SUBSET Handles
      BY <1>1 DEF Final
  <2>4. /\ queued' \subseteq queued /\ outstanding' \subseteq outstanding /\ queued \subseteq queued \cup HandlesOf(outstanding)
        /\ queued \cap (queued' \cup HandlesOf(outstanding')) = {}
        /\ (queued \cup HandlesOf(outstanding)) \ queued \subseteq queued' \cup HandlesOf(outstanding')
      BY <2>1, <2>2
  <2> QED BY <2>1, <2>3, <2>4, GiveUpKeeps, Zenon
<1>3. CASE on_discovery_failed
  <2> DEFINE G == queued \cup HandlesOf(outstanding)
  <2>1. /\ report' = Reported(G, "failed") /\ queued' = {} /\ outstanding' = {} /\ UNCHANGED <<next_seq, session, losses, sessions>>
      BY <1>3 DEF on_discovery_failed, bounds
  <2>2. "failed" \in Final /\ G \in SUBSET Handles
      BY <1>1 DEF Final
  <2>3. /\ queued' \subseteq queued /\ outstanding' \subseteq outstanding /\ G \subseteq queued \cup HandlesOf(outstanding)
        /\ G \cap (queued' \cup HandlesOf(outstanding')) = {}
        /\ (queued \cup HandlesOf(outstanding)) \ G \subseteq queued' \cup HandlesOf(outstanding')
      BY <2>1, <1>1
  <2> HIDE DEF G
  <2> QED BY <2>1, <2>2, <2>3, GiveUpKeeps, Zenon
<1> QED BY <1>2, <1>3

\* An acknowledgement: the one entry with its number is done.
LEMMA AckKeeps == IInv /\ handle_ack => IInv' /\ KeepsReports
<1> SUFFICES ASSUME IInv, handle_ack PROVE IInv' /\ KeepsReports
    OBVIOUS
<1>1. PICK f \in air : /\ outstanding' = outstanding \ OnAck(f)
                       /\ report' = Reported(HandlesOf(OnAck(f)), "delivered")
    BY DEF handle_ack
<1>2. UNCHANGED <<next_seq, queued, session, losses, sessions>>
    BY DEF handle_ack, bounds
<1>3. OnAck(f) \subseteq outstanding
    BY DEF OnAck
<1> DEFINE G == HandlesOf(OnAck(f))
<1>4. "delivered" \in Final /\ G \in SUBSET Handles /\ G \subseteq queued \cup HandlesOf(outstanding)
    BY <1>3 DEF Final, HandlesOf, IInv, SenderTypes, Entries
<1>5. G \cap HandlesOf(outstanding') = {}
    BY <1>1, <1>3 DEF HandlesOf, IInv, TrackedOnce
<1>6. G \cap queued = {}
    BY <1>3, <1>4, Message, SMTT(15) DEF HandlesOf
<1>7. HandlesOf(outstanding) \ G \subseteq HandlesOf(outstanding')
    BY <1>1 DEF HandlesOf
<1>8. /\ queued' \subseteq queued /\ outstanding' \subseteq outstanding
      /\ G \cap (queued' \cup HandlesOf(outstanding')) = {}
      /\ (queued \cup HandlesOf(outstanding)) \ G \subseteq queued' \cup HandlesOf(outstanding')
    BY <1>1, <1>2, <1>5, <1>6, <1>7
<1> HIDE DEF G
<1>9. report' = Reported(G, "delivered")
    BY <1>1 DEF G
<1> QED BY <1>2, <1>4, <1>8, <1>9, GiveUpKeeps, Zenon

\* Messages in flight go back to the queue, or are reported for lack of room.
LEMMA RequeueKeeps ==
    ASSUME IInv, NEW H \in SUBSET HandlesOf(outstanding), NEW others \in SUBSET HandlesOf(outstanding),
           H \cap others = {}, Requeue(H, others), outstanding' = {},
           UNCHANGED <<next_seq, losses, sessions>>,
           losses = 0 => HandlesOf(outstanding) \subseteq H \cup others
    PROVE  IInv' /\ KeepsReports
<1>1. PICK fits \in SUBSET H : /\ queued' = queued \cup fits
                               /\ report' = Reported((H \ fits) \cup others, "failed")
    BY DEF Requeue
<1>2. HandlesOf(outstanding) \subseteq Handles /\ HandlesOf(outstanding') = {}
    BY DEF IInv, SenderTypes, Entries, HandlesOf
<1>3. SenderTypes'
  <2>1. report' \in [Handles -> {"unsent", "pending"} \cup Final]
      BY <1>1 DEF IInv, SenderTypes, Reported, Final
  <2> QED BY <2>1, <1>1, <1>2 DEF IInv, SenderTypes
<1>4. TrackedOnce' /\ InFlightInSession'
    BY DEF TrackedOnce, InFlightInSession
<1>5. ASSUME NEW h \in Handles
      PROVE  LET held == h \in queued' \cup HandlesOf(outstanding')
             IN  /\ h \notin queued' \cap HandlesOf(outstanding')
                 /\ held => report'[h] = "pending"
                 /\ losses' = 0 /\ report'[h] = "pending" => held
                 /\ report[h] \in Final => report'[h] = report[h]
  <2>1. CASE h \in (H \ fits) \cup others
    <3>1. report'[h] = "failed"
        BY <2>1, <1>1 DEF Reported
    <3>2. h \in HandlesOf(outstanding) /\ h \notin fits
        BY <2>1, <1>1
    <3>3. report[h] = "pending" /\ h \notin queued
        BY <3>2, Message
    <3> QED BY <3>1, <3>2, <3>3, <1>1, <1>2 DEF Final
  <2>2. CASE h \notin (H \ fits) \cup others
    <3>1. report'[h] = report[h]
        BY <2>2, <1>1 DEF Reported
    <3>2. h \in queued' => report[h] = "pending"
        BY <1>1, Message
    <3>3. losses = 0 /\ report[h] = "pending" => h \in queued'
        BY <2>2, <1>1, Message
    <3> QED BY <3>1, <3>2, <3>3, <1>2
  <2> QED BY <2>1, <2>2
<1>6. losses <= losses'
    BY SMTT(15) DEF IInv, SenderTypes
<1> QED BY <1>3, <1>4, <1>5, <1>6, Pieces

\* Retry timers in a session: entries are replaced by ones with a higher count
\* or leave with a report.
LEMMA RetryKeeps ==
    ASSUME IInv, NEW due \in SUBSET outstanding, tick_in_session(due)
    PROVE  IInv' /\ KeepsReports
<1> USE TransportAssumption
<1> DEFINE retry == {o \in due : ~Exhausted(o)}
           G == HandlesOf(due \ retry)
           bump(o) == [o EXCEPT !.attempts = @ + 1]
<1>1. /\ session # 0 /\ outstanding' = (outstanding \ due) \cup Again(retry)
      /\ report' = Reported(G, "failed")
      /\ UNCHANGED <<next_seq, queued, session, losses, sessions>>
    BY DEF tick_in_session, bounds
<1>2. \A o \in retry : bump(o) \in Entries /\ bump(o).handle = o.handle /\ o \in outstanding
    BY SMTT(15) DEF IInv, SenderTypes, Entries, Exhausted
<1>3. Again(retry) = {bump(o) : o \in retry}
    BY DEF Again
<1> HIDE DEF bump
<1>4. SenderTypes'
  <2>1. outstanding' \subseteq Entries
      BY <1>1, <1>2, <1>3 DEF IInv, SenderTypes
  <2>2. report' \in [Handles -> {"unsent", "pending"} \cup Final]
      BY <1>1 DEF IInv, SenderTypes, Reported, Final
  <2> QED BY <1>1, <2>1, <2>2 DEF IInv, SenderTypes
<1>5. \A x \in outstanding' : \E o \in outstanding :
          /\ x.handle = o.handle
          /\ (o \in outstanding \ due /\ x = o) \/ (o \in retry /\ x = bump(o))
    BY <1>1, <1>2, <1>3
<1>6. TrackedOnce'
  <2> SUFFICES ASSUME NEW x \in outstanding', NEW y \in outstanding', x.handle = y.handle PROVE x = y
      BY DEF TrackedOnce
  <2>1. PICK o \in outstanding : /\ x.handle = o.handle
                                 /\ (o \in outstanding \ due /\ x = o) \/ (o \in retry /\ x = bump(o))
      BY <1>5
  <2>2. PICK p \in outstanding : /\ y.handle = p.handle
                                 /\ (p \in outstanding \ due /\ y = p) \/ (p \in retry /\ y = bump(p))
      BY <1>5
  <2>3. o = p
      BY <2>1, <2>2 DEF IInv, TrackedOnce
  <2> QED BY <2>1, <2>2, <2>3
<1>7. InFlightInSession'
    BY <1>1 DEF InFlightInSession
<1>8. G \cap HandlesOf(outstanding') = {}
  <2> SUFFICES ASSUME NEW p \in due \ retry, NEW x \in outstanding', x.handle = p.handle PROVE FALSE
      BY DEF HandlesOf
  <2>1. PICK o \in outstanding : /\ x.handle = o.handle
                                 /\ (o \in outstanding \ due /\ x = o) \/ (o \in retry /\ x = bump(o))
      BY <1>5
  <2>2. o = p
      BY <2>1 DEF IInv, TrackedOnce
  <2> QED BY <2>1, <2>2
<1>9. HandlesOf(outstanding') \subseteq HandlesOf(outstanding)
    BY <1>5, ZenonT(40) DEF HandlesOf
<1>10. HandlesOf(outstanding) \ G \subseteq HandlesOf(outstanding')
  <2> SUFFICES ASSUME NEW o \in outstanding, o.handle \notin G PROVE o.handle \in HandlesOf(outstanding')
      BY DEF HandlesOf
  <2>1. o \notin due \ retry
      BY DEF HandlesOf
  <2>2. CASE o \notin due
      BY <2>2, <1>1 DEF HandlesOf
  <2>3. CASE o \in retry
    <3>1. bump(o) \in outstanding' /\ bump(o).handle = o.handle
        BY <2>3, <1>1, <1>2, <1>3
    <3> QED BY <3>1 DEF HandlesOf
  <2> QED BY <2>1, <2>2, <2>3
<1>11. G \subseteq HandlesOf(outstanding)
    BY DEF HandlesOf
<1> HIDE DEF G
<1>12. ASSUME NEW h \in Handles
       PROVE  LET held == h \in queued' \cup HandlesOf(outstanding')
              IN  /\ h \notin queued' \cap HandlesOf(outstanding')
                  /\ held => report'[h] = "pending"
                  /\ losses' = 0 /\ report'[h] = "pending" => held
                  /\ report[h] \in Final => report'[h] = report[h]
  <2>1. CASE h \in G
    <3>1. report'[h] = "failed"
        BY <2>1, <1>1 DEF Reported
    <3>2. report[h] = "pending" /\ h \notin queued /\ h \notin HandlesOf(outstanding')
        BY <2>1, <1>8, <1>11, Message
    <3> QED BY <3>1, <3>2, <1>1 DEF Final
  <2>2. CASE h \notin G
    <3>1. report'[h] = report[h] /\ (h \in HandlesOf(outstanding') <=> h \in HandlesOf(outstanding))
        BY <2>2, <1>1, <1>9, <1>10 DEF Reported
    <3> QED BY <3>1, <1>1, Message
  <2> QED BY <2>1, <2>2
<1>13. losses <= losses'
    BY <1>1 DEF IInv, SenderTypes
<1> QED BY <1>4, <1>6, <1>7, <1>12, <1>13, Pieces

LEMMA TickKeeps == IInv /\ tick => IInv' /\ KeepsReports
<1> SUFFICES ASSUME IInv, tick PROVE IInv' /\ KeepsReports
    OBVIOUS
<1>1. PICK due \in SUBSET outstanding : due # {} /\ (tick_in_session(due) \/ tick_without_session(due) \/ tick_gives_up(due))
    BY DEF tick
<1>2. CASE tick_in_session(due)
    BY <1>2, RetryKeeps
<1>3. CASE tick_without_session(due)
  <2> DEFINE retry == {o \in due : ~Exhausted(o)}
             H == HandlesOf(retry)
             others == HandlesOf(due \ retry)
  <2>1. /\ session = 0 /\ outstanding' = {} /\ Requeue(H, others) /\ UNCHANGED <<next_seq, losses, sessions>>
      BY <1>3 DEF tick_without_session, bounds
  <2>2. H \in SUBSET HandlesOf(outstanding) /\ others \in SUBSET HandlesOf(outstanding)
      BY DEF HandlesOf
  <2>3. H \cap others = {}
      BY DEF HandlesOf, IInv, TrackedOnce
  <2>4. losses # 0
      BY <1>1, <2>1 DEF IInv, InFlightInSession
  <2> HIDE DEF H, others
  <2> QED BY <2>1, <2>2, <2>3, <2>4, RequeueKeeps
<1>4. CASE tick_gives_up(due)
  <2> DEFINE G == HandlesOf(due)
  <2>1. /\ outstanding' = outstanding \ due /\ report' = Reported(G, "failed")
        /\ UNCHANGED <<next_seq, queued, session, losses, sessions>>
      BY <1>4 DEF tick_gives_up, bounds
  <2>2. "failed" \in Final /\ G \in SUBSET Handles /\ G \subseteq queued \cup HandlesOf(outstanding)
      BY DEF Final, HandlesOf, IInv, SenderTypes, Entries
  <2>3. G \cap HandlesOf(outstanding') = {}
      BY <2>1 DEF HandlesOf, IInv, TrackedOnce
  <2>4. G \cap queued = {}
      BY <2>2, Message, SMTT(15) DEF HandlesOf
  <2>5. HandlesOf(outstanding) \ G \subseteq HandlesOf(outstanding')
      BY <2>1 DEF HandlesOf
  <2> HIDE DEF G
  <2>6. /\ queued' \subseteq queued /\ outstanding' \subseteq outstanding
        /\ G \cap (queued' \cup HandlesOf(outstanding')) = {}
        /\ (queued \cup HandlesOf(outstanding)) \ G \subseteq queued' \cup HandlesOf(outstanding')
      BY <2>1, <2>3, <2>4, <2>5
  <2> QED BY <2>1, <2>2, <2>6, GiveUpKeeps, Zenon
<1> QED BY <1>1, <1>2, <1>3, <1>4

\* The steps that touch no message: other traffic, the receiver's, and the
\* loss of a session at either end.
LEMMA ElsewhereKeeps ==
    ASSUME IInv, other_traffic \/ handle_unicast_data \/ notify_no_session \/ sender_loses_session \/ receiver_loses_session
    PROVE  IInv' /\ KeepsReports
<1> USE SeqAssumption
<1>1. UNCHANGED <<outstanding, queued, report, sessions>>
    BY DEF other_traffic, handle_unicast_data, notify_no_session, sender_loses_session, receiver_loses_session,
           senderVars, bounds
<1>2. next_seq' \in 1 .. SeqSpace - 1
  <2>1. CASE other_traffic
    <3>1. next_seq' = SeqAfter(next_seq, 1) /\ next_seq \in 1 .. SeqSpace - 1
        BY <2>1 DEF other_traffic, IInv, SenderTypes
    <3> QED BY <3>1, SeqAfterType
  <2>2. CASE ~other_traffic
      BY <2>2 DEF handle_unicast_data, notify_no_session, sender_loses_session, receiver_loses_session,
                  senderVars, IInv, SenderTypes
  <2> QED BY <2>1, <2>2
<1>3. losses' \in Nat /\ losses <= losses' /\ (losses' = 0 => session' = session)
    BY DEF other_traffic, handle_unicast_data, notify_no_session, sender_loses_session, receiver_loses_session,
           senderVars, bounds, IInv, SenderTypes
<1>4. losses' = 0 => losses = 0
    BY <1>3 DEF IInv, SenderTypes
<1>5. SenderTypes' /\ TrackedOnce' /\ InFlightInSession'
    BY <1>1, <1>2, <1>3, <1>4 DEF IInv, SenderTypes, TrackedOnce, InFlightInSession
<1>6. ASSUME NEW h \in Handles
      PROVE  LET held == h \in queued' \cup HandlesOf(outstanding')
             IN  /\ h \notin queued' \cap HandlesOf(outstanding')
                 /\ held => report'[h] = "pending"
                 /\ losses' = 0 /\ report'[h] = "pending" => held
                 /\ report[h] \in Final => report'[h] = report[h]
    BY <1>1, <1>4, Message
<1> QED BY <1>3, <1>5, <1>6, Pieces

LEMMA NoticeKeeps == IInv /\ on_no_session_notice => IInv' /\ KeepsReports
<1> SUFFICES ASSUME IInv, on_no_session_notice PROVE IInv' /\ KeepsReports
    OBVIOUS
<1>1. UNCHANGED <<next_seq, losses, sessions>>
    BY DEF on_no_session_notice, bounds
<1>2. CASE UNCHANGED <<session, outstanding, queued, report>>
  <2>1. SenderTypes' /\ TrackedOnce' /\ InFlightInSession'
      BY <1>1, <1>2 DEF IInv, SenderTypes, TrackedOnce, InFlightInSession
  <2>2. ASSUME NEW h \in Handles
        PROVE  LET held == h \in queued' \cup HandlesOf(outstanding')
               IN  /\ h \notin queued' \cap HandlesOf(outstanding')
                   /\ held => report'[h] = "pending"
                   /\ losses' = 0 /\ report'[h] = "pending" => held
                   /\ report[h] \in Final => report'[h] = report[h]
      BY <1>1, <1>2, Message
  <2>3. losses <= losses'
      BY <1>1 DEF IInv, SenderTypes
  <2> QED BY <2>1, <2>2, <2>3, Pieces
<1>3. CASE outstanding' = {} /\ Requeue(HandlesOf(outstanding), {})
  <2>1. HandlesOf(outstanding) \in SUBSET HandlesOf(outstanding) /\ {} \in SUBSET HandlesOf(outstanding)
      OBVIOUS
  <2> QED BY <1>1, <1>3, <2>1, RequeueKeeps
<1> QED BY <1>2, <1>3 DEF on_no_session_notice

LEMMA RebootKeeps == IInv /\ reboot => IInv' /\ KeepsReports
<1> SUFFICES ASSUME IInv, reboot PROVE IInv' /\ KeepsReports
    OBVIOUS
<1> USE SeqAssumption
<1>1. /\ next_seq' \in 1 .. SeqSpace - 1 /\ outstanding' = {} /\ queued' = {}
      /\ report' = [h \in Handles |-> IF report[h] = "pending" THEN "rebooted" ELSE report[h]]
      /\ UNCHANGED <<losses, sessions>>
    BY DEF reboot
<1>2. HandlesOf(outstanding') = {}
    BY <1>1 DEF HandlesOf
<1>3. SenderTypes' /\ TrackedOnce' /\ InFlightInSession'
    BY <1>1 DEF IInv, SenderTypes, TrackedOnce, InFlightInSession, Final
<1>4. ASSUME NEW h \in Handles
      PROVE  LET held == h \in queued' \cup HandlesOf(outstanding')
             IN  /\ h \notin queued' \cap HandlesOf(outstanding')
                 /\ held => report'[h] = "pending"
                 /\ losses' = 0 /\ report'[h] = "pending" => held
                 /\ report[h] \in Final => report'[h] = report[h]
    BY <1>1, <1>2, Message DEF Final
<1>5. losses <= losses'
    BY <1>1 DEF IInv, SenderTypes
<1> QED BY <1>3, <1>4, <1>5, Pieces

LEMMA NextIInv == IInv /\ [Next]_vars => IInv' /\ (KeepsReports \/ UNCHANGED vars)
<1> SUFFICES ASSUME IInv, [Next]_vars PROVE IInv' /\ (KeepsReports \/ UNCHANGED vars)
    OBVIOUS
<1>1. ASSUME NEW h \in Handles, send_message(h) PROVE IInv' /\ KeepsReports
    BY <1>1, SendKeeps
<1>2. CASE establish
    BY <1>2, EstablishKeeps
<1>3. CASE handshake_expired \/ on_discovery_failed
    BY <1>3, ExpiryKeeps
<1>4. CASE tick
    BY <1>4, TickKeeps
<1>5. CASE handle_ack
    BY <1>5, AckKeeps
<1>6. CASE other_traffic \/ handle_unicast_data \/ notify_no_session \/ sender_loses_session \/ receiver_loses_session
    BY <1>6, ElsewhereKeeps
<1>7. CASE on_no_session_notice
    BY <1>7, NoticeKeeps
<1>8. CASE reboot
    BY <1>8, RebootKeeps
<1>9. CASE UNCHANGED vars
    BY <1>9 DEF vars, IInv, SenderTypes, TrackedOnce, InFlightInSession, Accounted, HandlesOf
<1> QED BY <1>1, <1>2, <1>3, <1>4, <1>5, <1>6, <1>7, <1>8, <1>9 DEF Next

LEMMA Inductive == Spec => []IInv
    BY InitIInv, NextIInv, PTL DEF Spec

\* A message waits in the queue or is tracked, never both, only before its
\* report, and in one of the two while no session is lost (Outstanding, the
\* queue of a pending handshake).
THEOREM AccountedHolds == Spec => []Accounted
<1>1. IInv => Accounted
    BY DEF IInv
<1> QED BY <1>1, Inductive, PTL

\* A final report of a message is its last (Transport::tick, on_ack,
\* fail_all_to, drain_queued and the handlers that give up).
THEOREM ReportedOnceHolds == Spec => ReportedOnce
<1>1. IInv /\ [Next]_vars
        => [\A h \in Handles : report[h] \in {"delivered", "failed", "rebooted"}
               => h \notin queued' \cup HandlesOf(outstanding') /\ report'[h] = report[h]]_vars
    BY NextIInv DEF KeepsReports, Final
<1> QED BY <1>1, Inductive, PTL DEF Spec, ReportedOnce
-----------------------------------------------------------------------------
(* The numbers of messages.  next_seq has handed out n numbers, from b on;  *)
(* G holds <<q, h>> if q was given to the message h.                        *)

Numbers == 1 .. SeqSpace - 1

\* Some message that is known to be received has the number q.
Arrived(G, q) == \E h \in Handles : <<q, h>> \in G /\ received[h] > 0

Ledger(b, n, G) ==
    /\ b \in Numbers /\ n \in Nat /\ next_seq = SeqAfter(b, n)
    /\ G \subseteq Numbers \X Handles
    /\ \A p \in G : \E k \in 0 .. n - 1 : p[1] = SeqAfter(b, k)
    /\ \A p, q \in G : p[1] = q[1] => p = q

\* What is tracked, on the air or in the window goes by the numbers of G.
Owned(G) ==
    /\ \A o \in outstanding : <<o.seq, o.handle>> \in G
    /\ \A f \in air : f.kind = "data" => <<f.seq, f.handle>> \in G
    /\ \A f \in air : f.kind = "ack" => Arrived(G, f.seq)
    /\ window.any = TRUE => \A d \in window.bitmap : Arrived(G, Minus(window.top, d))

LEMMA Counted ==
    ASSUME NEW b \in Numbers, NEW k \in 0 .. SeqSpace - 1
    PROVE  SeqAfter(b, k) = IF b + k < SeqSpace THEN b + k ELSE b + k - (SeqSpace - 1)
<1> DEFINE M == SeqSpace - 1
           x == b - 1 + k
<1>1. M \in Nat /\ M > 0 /\ x \in Nat /\ x < 2 * M
    BY SeqAssumption DEF Numbers
<1>2. x < M => x % M = x
    BY <1>1
<1>3. M <= x => x % M = x - M
    BY <1>1
<1>4. SeqAfter(b, k) = (x % M) + 1
    BY DEF SeqAfter
<1> QED BY <1>1, <1>2, <1>3, <1>4, SeqAssumption DEF Numbers

LEMMA CountedOn ==
    ASSUME NEW b \in Numbers, NEW n \in Nat, NEW j \in Nat, n + j < SeqSpace
    PROVE  SeqAfter(b, n) \in Numbers /\ SeqAfter(SeqAfter(b, n), j) = SeqAfter(b, n + j)
<1> USE SeqAssumption
<1>1. n \in 0 .. SeqSpace - 1 /\ j \in 0 .. SeqSpace - 1 /\ n + j \in 0 .. SeqSpace - 1
    OBVIOUS
<1> DEFINE c == SeqAfter(b, n)
<1>2. c = IF b + n < SeqSpace THEN b + n ELSE b + n - (SeqSpace - 1)
    BY <1>1, Counted
<1>3. c \in Numbers
    BY <1>1, <1>2 DEF Numbers
<1> HIDE DEF c
<1>4. SeqAfter(c, j) = IF c + j < SeqSpace THEN c + j ELSE c + j - (SeqSpace - 1)
    BY <1>1, <1>3, Counted
<1>5. SeqAfter(b, n + j) = IF b + (n + j) < SeqSpace THEN b + (n + j) ELSE b + (n + j) - (SeqSpace - 1)
    BY <1>1, Counted
<1>6. SeqAfter(c, j) = SeqAfter(b, n + j)
    BY <1>1, <1>2, <1>4, <1>5 DEF Numbers
<1> QED BY <1>3, <1>6 DEF c

LEMMA CountedApart ==
    ASSUME NEW b \in Numbers, NEW j \in 0 .. SeqSpace - 2, NEW k \in 0 .. SeqSpace - 2,
           SeqAfter(b, j) = SeqAfter(b, k)
    PROVE  j = k
<1>1. SeqAfter(b, j) = IF b + j < SeqSpace THEN b + j ELSE b + j - (SeqSpace - 1)
    BY Counted, SeqAssumption
<1>2. SeqAfter(b, k) = IF b + k < SeqSpace THEN b + k ELSE b + k - (SeqSpace - 1)
    BY Counted, SeqAssumption
<1>3. (IF b + j < SeqSpace THEN b + j ELSE b + j - (SeqSpace - 1))
        = (IF b + k < SeqSpace THEN b + k ELSE b + k - (SeqSpace - 1))
    BY <1>1, <1>2
<1> QED BY <1>3, SeqAssumption DEF Numbers

\* The numbers SendAll gives out are new.
LEMMA Numbered ==
    ASSUME NEW b, NEW n, NEW G, Ledger(b, n, G), NEW H \in SUBSET Handles, NEW s, SendAll(H, s),
           n + Cardinality(H) < SeqSpace
    PROVE  \E N \in SUBSET (Numbers \X H) :
              /\ \A h \in H : \E q : <<q, h>> \in N
              /\ \A p, q \in N : p[2] = q[2] => p = q
              /\ \A p \in N : \E k \in n .. n + Cardinality(H) - 1 : p[1] = SeqAfter(b, k)
              /\ N \cap G = {}
              /\ Ledger(b, n + Cardinality(H), G \cup N)'
              /\ \A o \in outstanding' : o \in outstanding \/ <<o.seq, o.handle>> \in N
              /\ \A f \in air' : f \in air \/ (f.kind = "data" /\ <<f.seq, f.handle>> \in N)
              /\ air \subseteq air'
<1> DEFINE c == Cardinality(H)
<1>0. c \in Nat /\ n \in Nat /\ b \in Numbers /\ next_seq = SeqAfter(b, n) /\ SeqSpace \in Nat
    BY FS_Subset, FS_CardinalityType, TransportAssumption, SeqAssumption DEF Ledger
<1>1. PICK place \in [H -> 0 .. c - 1], ok \in SUBSET H :
          LET seq(h) == SeqAfter(next_seq, place[h])
              tracked == {h \in ok : Cardinality(outstanding) + Cardinality({g \in ok : place[g] < place[h]}) < MaxInFlight}
          IN  /\ \A g, h \in H : place[g] = place[h] => g = h
              /\ next_seq' = SeqAfter(next_seq, c)
              /\ air' = air \cup {Data(s, seq(h), h) : h \in ok}
              /\ outstanding' = outstanding \cup {[handle |-> h, seq |-> seq(h), attempts |-> 1] : h \in tracked}
    BY DEF SendAll
<1> DEFINE num(h) == SeqAfter(b, n + place[h])
           N == {<<num(h), h>> : h \in H}
<1>2. ASSUME NEW h \in H
      PROVE  /\ place[h] \in 0 .. c - 1
             /\ n + place[h] \in 0 .. SeqSpace - 2 /\ n + place[h] \in n .. n + c - 1
             /\ SeqAfter(next_seq, place[h]) = num(h) /\ num(h) \in Numbers
    <2>1. place[h] \in 0 .. c - 1
        BY <1>1
    <2>2. n + place[h] \in 0 .. SeqSpace - 2 /\ n + place[h] \in n .. n + c - 1 /\ place[h] \in Nat
        BY <1>0, <2>1
    <2>3. SeqAfter(SeqAfter(b, n), place[h]) = num(h)
        BY <1>0, <2>2, CountedOn, SMTT(15)
    <2>4. num(h) \in Numbers
        BY <1>0, <2>2, CountedOn, SMTT(15)
    <2> QED BY <1>0, <2>1, <2>2, <2>3, <2>4
<1>3. N \in SUBSET (Numbers \X H)
    BY <1>2, SMTT(15)
<1>4. \A g, h \in H : num(g) = num(h) => g = h
    <2> SUFFICES ASSUME NEW g \in H, NEW h \in H, num(g) = num(h) PROVE g = h
        OBVIOUS
    <2>1. n + place[g] = n + place[h]
        BY <1>0, <1>2, CountedApart
    <2>2. place[g] = place[h]
        BY <1>0, <1>2, <2>1
    <2> QED BY <1>1, <2>2
<1>5. \A p \in N : \E k \in n .. n + c - 1 : p[1] = SeqAfter(b, k)
    BY <1>2
<1>6. \A p \in G, q \in N : p[1] # q[1]
    <2> SUFFICES ASSUME NEW p \in G, NEW h \in H, p[1] = num(h) PROVE FALSE
        BY SMTT(15)
    <2>1. PICK k \in 0 .. n - 1 : p[1] = SeqAfter(b, k)
        BY DEF Ledger
    <2>2. k \in 0 .. SeqSpace - 2
        BY <1>0, <1>2
    <2>3. k = n + place[h]
        BY <1>0, <1>2, <2>1, <2>2, CountedApart, ZenonT(40)
    <2> QED BY <1>0, <1>2, <2>3
<1>7. next_seq' = SeqAfter(b, n + c)
    BY <1>0, <1>1, CountedOn
<1>8. /\ \A f \in air' : f \in air \/ (f.kind = "data" /\ <<f.seq, f.handle>> \in N)
      /\ air \subseteq air'
      /\ \A o \in outstanding' : o \in outstanding \/ <<o.seq, o.handle>> \in N
    <2> DEFINE tracked == {h \in ok : Cardinality(outstanding) + Cardinality({g \in ok : place[g] < place[h]}) < MaxInFlight}
    <2>1. /\ air' = air \cup {Data(s, SeqAfter(next_seq, place[h]), h) : h \in ok}
          /\ outstanding' = outstanding \cup {[handle |-> h, seq |-> SeqAfter(next_seq, place[h]), attempts |-> 1] : h \in tracked}
        BY <1>1
    <2>2. tracked \subseteq H /\ ok \subseteq H
        OBVIOUS
    <2> HIDE DEF tracked
    <2>3. ASSUME NEW h \in H PROVE <<SeqAfter(next_seq, place[h]), h>> \in N
        BY <1>2
    <2> HIDE DEF N
    <2> QED BY <2>1, <2>2, <2>3, SMTT(15) DEF Data
<1>9. Ledger(b, n + c, G \cup N)'
    <2>1. \A p \in G \cup N : \E k \in 0 .. (n + c) - 1 : p[1] = SeqAfter(b, k)
        BY <1>0, <1>5, SMTT(15) DEF Ledger
    <2>2. \A p, q \in N : p[1] = q[1] => p = q
        BY <1>4, SMTT(15)
    <2>3. \A p, q \in G \cup N : p[1] = q[1] => p = q
        BY <1>6, <2>2 DEF Ledger
    <2>4. G \cup N \subseteq Numbers \X Handles
        BY <1>3 DEF Ledger
    <2> HIDE DEF N, c
    <2> QED BY <1>0, <1>7, <2>1, <2>3, <2>4, SMTT(15) DEF Ledger
<1>10. /\ \A h \in H : \E q : <<q, h>> \in N
       /\ \A p, q \in N : p[2] = q[2] => p = q
       /\ N \cap G = {}
    BY <1>6, SMTT(15)
<1> HIDE DEF N
<1> QED BY <1>3, <1>5, <1>8, <1>9, <1>10
-----------------------------------------------------------------------------
(* Delivered was received, as long as no number is used again.             *)

SeqWindows == [top : 0 .. SeqSpace - 1, bitmap : SUBSET SeqPositions, any : BOOLEAN]

\* The numbers do not go round: 65535 of them for a window of 64.
NumbersSuffice ==
    /\ WINDOW <= SeqSpace
    /\ MaxSkips + Cardinality(Handles) * (MaxSessions + 1) < SeqSpace

Begun == {h \in Handles : report[h] # "unsent"}
\* The numbers there was a reason for.
Issued == skips + Cardinality(Begun) + sessions * Cardinality(Handles)

ReceiverTypes ==
    /\ window \in SeqWindows
    /\ received \in [Handles -> Nat]
    /\ skips \in 0 .. MaxSkips /\ sessions \in 0 .. MaxSessions

\* The inductive invariant, besides IInv.
NumberInv ==
    /\ reboots \in Nat
    /\ reboots = 0 => /\ ReceiverTypes
                      /\ \A h \in Handles : report[h] = "delivered" => received[h] > 0
                      /\ \E b, n, G : n <= Issued /\ Ledger(b, n, G) /\ Owned(G)

LEMMA MinusValue ==
    ASSUME NEW x \in 0 .. SeqSpace - 1, NEW y \in 0 .. SeqSpace - 1
    PROVE  Minus(x, y) = (IF y <= x THEN x - y ELSE x - y + SeqSpace) /\ Minus(x, y) \in 0 .. SeqSpace - 1
<1>1. SeqSpace \in Nat /\ SeqSpace > 0 /\ x - y \in Int
    BY SeqAssumption
<1>2. y <= x => (x - y) % SeqSpace = x - y
    BY <1>1
<1>3. ~(y <= x) => (x - y) % SeqSpace = x - y + SeqSpace
    BY <1>1
<1> QED BY <1>1, <1>2, <1>3 DEF Minus

LEMMA MinusTwice ==
    ASSUME NEW x \in 0 .. SeqSpace - 1, NEW y \in 0 .. SeqSpace - 1
    PROVE  Minus(x, Minus(x, y)) = y
<1>1. Minus(x, y) \in 0 .. SeqSpace - 1 /\ Minus(x, y) = (IF y <= x THEN x - y ELSE x - y + SeqSpace)
    BY MinusValue
<1>2. Minus(x, Minus(x, y)) = IF Minus(x, y) <= x THEN x - Minus(x, y) ELSE x - Minus(x, y) + SeqSpace
    BY <1>1, MinusValue
<1> QED BY <1>1, <1>2, SeqAssumption

\* Shifting the window keeps what its bits stand for.
LEMMA MinusShift ==
    ASSUME NEW x \in 0 .. SeqSpace - 1, NEW t \in 0 .. SeqSpace - 1, NEW d \in 0 .. SeqSpace - 1,
           NEW e \in 0 .. SeqSpace - 1, e = d - Minus(x, t)
    PROVE  Minus(x, d) = Minus(t, e)
<1>1. Minus(x, t) = (IF t <= x THEN x - t ELSE x - t + SeqSpace)
    BY MinusValue
<1>2. Minus(x, d) = (IF d <= x THEN x - d ELSE x - d + SeqSpace)
    BY MinusValue
<1>3. Minus(t, e) = (IF e <= t THEN t - e ELSE t - e + SeqSpace)
    BY MinusValue
<1> QED BY <1>1, <1>2, <1>3, SeqAssumption

\* The bits of the window after a number was accepted stand for this number
\* and for numbers of before.
LEMMA Accepted ==
    ASSUME WINDOW <= SeqSpace, NEW w \in SeqWindows, NEW q \in Numbers
    PROVE  LET v == AfterAccept(w, q)
           IN  /\ v \in SeqWindows /\ v.any = TRUE
               /\ \A d \in v.bitmap : \/ Minus(v.top, d) = q
                                      \/ w.any = TRUE /\ \E e \in w.bitmap : Minus(v.top, d) = Minus(w.top, e)
<1> USE SeqAssumption
<1>0. /\ SeqPositions \subseteq 0 .. SeqSpace - 1 /\ 0 \in SeqPositions
      /\ q \in 0 .. SeqSpace - 1 /\ w.top \in 0 .. SeqSpace - 1 /\ w.bitmap \subseteq SeqPositions
      /\ w.any \in BOOLEAN
    BY SMTT(15) DEF SeqPositions, Numbers, SeqWindows
<1>1. Minus(q, 0) = q
    BY <1>0, MinusValue, SMTT(15)
<1>2. CASE ~w.any
    <2> DEFINE v == [top |-> q, bitmap |-> {0}, any |-> TRUE]
    <2>1. AfterAccept(w, q) = v
        BY <1>2 DEF AfterAccept
    <2>2. v \in SeqWindows /\ v.any = TRUE /\ v.bitmap = {0} /\ v.top = q
        BY <1>0 DEF SeqWindows
    <2> HIDE DEF v
    <2> QED BY <1>1, <2>1, <2>2
<1>3. CASE w.any /\ Newer(w, q)
    <2> DEFINE B == {d \in SeqPositions : d - Minus(q, w.top) \in w.bitmap} \cup {0}
               v == [w EXCEPT !.top = q, !.bitmap = B]
    <2>1. AfterAccept(w, q) = v
        BY <1>3 DEF AfterAccept
    <2>2. B \in SUBSET SeqPositions
        BY <1>0
    <2>3. ASSUME NEW d \in B PROVE Minus(q, d) = q \/ \E e \in w.bitmap : Minus(q, d) = Minus(w.top, e)
        <3>1. CASE d = 0
            BY <1>1, <3>1
        <3>2. CASE d \in SeqPositions /\ d - Minus(q, w.top) \in w.bitmap
            <4>1. d \in 0 .. SeqSpace - 1 /\ d - Minus(q, w.top) \in 0 .. SeqSpace - 1
                BY <1>0, <3>2
            <4>2. Minus(q, d) = Minus(w.top, d - Minus(q, w.top))
                BY <1>0, <4>1, MinusShift, SMTT(15)
            <4> QED BY <3>2, <4>2
        <3> QED BY <3>1, <3>2
    <2> HIDE DEF B
    <2>4. v \in SeqWindows /\ v.any = w.any /\ v.bitmap = B /\ v.top = q
        BY <1>0, <2>2 DEF SeqWindows
    <2>5. w.any = TRUE
        BY <1>0, <1>3
    <2> HIDE DEF v
    <2> QED BY <2>1, <2>3, <2>4, <2>5, ZenonT(40)
<1>4. CASE w.any /\ ~Newer(w, q) /\ Minus(w.top, q) >= WINDOW
    <2>1. AfterAccept(w, q) = w /\ w.any = TRUE
        BY <1>0, <1>4 DEF AfterAccept
    <2> QED BY <2>1
<1>5. CASE w.any /\ ~Newer(w, q) /\ ~(Minus(w.top, q) >= WINDOW)
    <2> DEFINE m == Minus(w.top, q)
               v == [w EXCEPT !.bitmap = w.bitmap \cup {m}]
    <2>1. AfterAccept(w, q) = v
        BY <1>5 DEF AfterAccept
    <2>2. m \in SeqPositions /\ Minus(w.top, m) = q
        <3>1. m \in 0 .. SeqSpace - 1
            BY <1>0, MinusValue
        <3>2. Minus(w.top, m) = q
            BY <1>0, MinusTwice
        <3>3. ~(m >= WINDOW)
            BY <1>5
        <3> HIDE DEF m
        <3> QED BY <3>1, <3>2, <3>3 DEF SeqPositions
    <2> HIDE DEF m
    <2>3. v \in SeqWindows /\ v.any = w.any /\ v.bitmap = w.bitmap \cup {m} /\ v.top = w.top
        BY <1>0, <2>2 DEF SeqWindows
    <2>4. w.any = TRUE
        BY <1>0, <1>5
    <2> HIDE DEF v
    <2> QED BY <2>1, <2>2, <2>3, <2>4
<1> QED BY <1>0, <1>2, <1>3, <1>4, <1>5

\* A number that is not new has its bit.
LEMMA NotFresh ==
    ASSUME WINDOW <= SeqSpace, NEW w \in SeqWindows, NEW q \in Numbers, ~Fresh(w, q)
    PROVE  w.any = TRUE /\ Minus(w.top, q) \in w.bitmap /\ Minus(w.top, Minus(w.top, q)) = q
<1>1. w.any /\ Minus(w.top, q) \in w.bitmap
    BY DEF Fresh
<1>2. w.any = TRUE
    BY <1>1 DEF SeqWindows
<1>3. Minus(w.top, Minus(w.top, q)) = q
    BY MinusTwice, SeqAssumption, SMTT(15) DEF SeqWindows, Numbers
<1> QED BY <1>1, <1>2, <1>3

\* There are numbers for all reasons to take one.
LEMMA IssuedBound ==
    ASSUME NumbersSuffice, NEW k \in 0 .. MaxSkips, NEW m \in 0 .. MaxSessions, NEW B \in SUBSET Handles
    PROVE  LET i == k + Cardinality(B) + m * Cardinality(Handles) IN i \in Nat /\ i < SeqSpace
<1> DEFINE c == Cardinality(Handles)
<1>1. IsFiniteSet(Handles) /\ c \in Nat
    BY TransportAssumption, FS_CardinalityType
<1>2. Cardinality(B) \in Nat /\ Cardinality(B) <= c
    BY <1>1, FS_Subset, FS_CardinalityType
<1>3. MaxSessions \in Nat /\ MaxSkips \in Nat
    BY TransportAssumption
<1>4. MaxSkips + c * (MaxSessions + 1) < SeqSpace
    BY DEF NumbersSuffice
<1> HIDE DEF c
<1>5. m * c \in Nat /\ m * c <= MaxSessions * c /\ MaxSessions * c \in Nat
    BY <1>1, <1>3
<1>6. c * (MaxSessions + 1) = MaxSessions * c + c
    BY <1>1, <1>3
<1> DEFINE x == MaxSessions * c
           y == m * c
<1>7. y \in Nat /\ y <= x /\ x \in Nat /\ MaxSkips + (x + c) < SeqSpace
    BY <1>4, <1>5, <1>6
<1> HIDE DEF x, y
<1>8. k + Cardinality(B) + y \in Nat /\ k + Cardinality(B) + y < SeqSpace
    BY <1>1, <1>2, <1>3, <1>7, SeqAssumption
<1> QED BY <1>8 DEF y, c

LEMMA NeverUnsent ==
    ASSUME IInv, [Next]_vars, NEW h \in Handles, report[h] # "unsent"
    PROVE  report'[h] # "unsent"
<1>1. CASE \E m \in Handles : send_message(m)
    BY <1>1, ZenonT(40) DEF send_message, SendAll, Reported
<1>2. CASE establish
    BY <1>2 DEF establish, SendAll
<1>3. CASE handshake_expired \/ on_discovery_failed \/ handle_ack
    BY <1>3 DEF handshake_expired, on_discovery_failed, handle_ack, Reported
<1>4. CASE tick
    BY <1>4 DEF tick, tick_in_session, tick_without_session, tick_gives_up, Requeue, Reported
<1>5. CASE on_no_session_notice
    BY <1>5 DEF on_no_session_notice, Requeue, Reported
<1>6. CASE reboot
    BY <1>6 DEF reboot
<1>7. CASE UNCHANGED report
    BY <1>7
<1> QED BY <1>1, <1>2, <1>3, <1>4, <1>5, <1>6, <1>7
        DEF Next, vars, other_traffic, handle_unicast_data, notify_no_session, sender_loses_session, receiver_loses_session

LEMMA BegunGrows ==
    ASSUME IInv, [Next]_vars
    PROVE  Cardinality(Begun) \in Nat /\ Cardinality(Begun') \in Nat /\ Cardinality(Begun) <= Cardinality(Begun')
<1>1. Begun \subseteq Begun' /\ IsFiniteSet(Begun')
    BY NeverUnsent, TransportAssumption, FS_Subset DEF Begun
<1> QED BY <1>1, FS_Subset, FS_CardinalityType

\* A step that hands out no acknowledgement: what it tracks and puts on the
\* air goes by the numbers of F.
LEMMA Carried ==
    ASSUME NEW G, Owned(G), NEW F, G \subseteq F, received' = received,
           window' = window \/ window' = EmptySeqWindow,
           \A o \in outstanding' : <<o.seq, o.handle>> \in F,
           \A f \in air' : f \in air \/ f.kind = "notice" \/ (f.kind = "data" /\ <<f.seq, f.handle>> \in F)
    PROVE  Owned(F)'
<1>1. \A q : Arrived(G, q) => Arrived(F, q)'
    BY DEF Arrived
<1>2. \A f \in air' : f.kind = "ack" => Arrived(F, f.seq)'
    BY <1>1 DEF Owned
<1>3. \A f \in air' : f.kind = "data" => <<f.seq, f.handle>> \in F
    BY DEF Owned
<1>4. (window.any = TRUE => \A d \in window.bitmap : Arrived(F, Minus(window.top, d)))'
    <2>1. CASE window' = EmptySeqWindow
        BY <2>1 DEF EmptySeqWindow
    <2>2. CASE window' = window
        <3>1. window.any = TRUE => \A d \in window.bitmap : Arrived(F, Minus(window.top, d))
            BY DEF Owned, Arrived
        <3> QED BY <2>2, <3>1 DEF Arrived
    <2> QED BY <2>1, <2>2
<1> QED BY <1>2, <1>3, <1>4 DEF Owned

\* A step that hands out no number.
LEMMA QuietNumbers ==
    ASSUME IInv, NumberInv, [Next]_vars, UNCHANGED <<next_seq, skips, sessions, reboots, received>>,
           window' = window \/ window' = EmptySeqWindow,
           \A h \in Handles : report'[h] = "delivered" => report[h] = "delivered",
           \A G : Owned(G) => Owned(G)'
    PROVE  NumberInv'
<1> SUFFICES ASSUME reboots = 0
             PROVE  /\ ReceiverTypes'
                    /\ \A h \in Handles : report'[h] = "delivered" => received'[h] > 0
                    /\ \E b, n, G : n <= Issued' /\ Ledger(b, n, G)' /\ Owned(G)'
    BY DEF NumberInv
<1>1. PICK b, n, G : n <= Issued /\ Ledger(b, n, G) /\ Owned(G)
    BY DEF NumberInv
<1>2. EmptySeqWindow \in SeqWindows
    BY SeqAssumption DEF EmptySeqWindow, SeqWindows
<1>3. ReceiverTypes'
    BY <1>2 DEF NumberInv, ReceiverTypes
<1>4. n <= Issued'
    <2> DEFINE c == sessions * Cardinality(Handles)
    <2>1. c \in Nat
        BY FS_CardinalityType, TransportAssumption, SMTT(15) DEF NumberInv, ReceiverTypes
    <2>2. Issued = skips + Cardinality(Begun) + c /\ Issued' = skips + Cardinality(Begun') + c
        BY DEF Issued
    <2> HIDE DEF c
    <2>3. skips \in Nat /\ n \in Nat
        BY <1>1, TransportAssumption, SMTT(15) DEF NumberInv, ReceiverTypes, Ledger
    <2> QED BY <1>1, <2>1, <2>2, <2>3, BegunGrows
<1>5. Ledger(b, n, G)' /\ Owned(G)'
    BY <1>1 DEF Ledger
<1>6. \A h \in Handles : report'[h] = "delivered" => received'[h] > 0
    BY DEF NumberInv
<1> QED BY <1>3, <1>4, <1>5, <1>6

\* What is sent gets new numbers.
LEMMA SentNumbers ==
    ASSUME NumbersSuffice, IInv, NumberInv, reboots = 0, NEW H \in SUBSET Handles, NEW s, SendAll(H, s),
           UNCHANGED <<window, received, reboots>>, skips' \in 0 .. MaxSkips, sessions' \in 0 .. MaxSessions,
           Issued + Cardinality(H) <= Issued'
    PROVE  NumberInv'
<1>1. PICK b, n, G : n <= Issued /\ Ledger(b, n, G) /\ Owned(G)
    BY DEF NumberInv
<1> DEFINE c == Cardinality(H)
<1>2. c \in Nat /\ n \in Nat
    BY <1>1, FS_Subset, FS_CardinalityType, TransportAssumption DEF Ledger
<1>3. Issued \in Nat /\ Issued' < SeqSpace /\ Issued' \in Nat
    <2>1. Begun \in SUBSET Handles /\ Begun' \in SUBSET Handles
        BY DEF Begun
    <2>2. skips \in 0 .. MaxSkips /\ sessions \in 0 .. MaxSessions
        BY DEF NumberInv, ReceiverTypes
    <2> QED BY <2>1, <2>2, IssuedBound DEF Issued
<1>4. n + c <= Issued' /\ n + c < SeqSpace
    BY <1>1, <1>2, <1>3, SeqAssumption
<1>5. PICK N \in SUBSET (Numbers \X H) :
              /\ \A h \in H : \E q : <<q, h>> \in N
              /\ \A p, q \in N : p[2] = q[2] => p = q
              /\ \A p \in N : \E k \in n .. n + Cardinality(H) - 1 : p[1] = SeqAfter(b, k)
              /\ N \cap G = {}
              /\ Ledger(b, n + Cardinality(H), G \cup N)'
              /\ \A o \in outstanding' : o \in outstanding \/ <<o.seq, o.handle>> \in N
              /\ \A f \in air' : f \in air \/ (f.kind = "data" /\ <<f.seq, f.handle>> \in N)
              /\ air \subseteq air'
    BY <1>1, <1>4, Numbered, Zenon
<1>6. Owned(G \cup N)'
    <2>1. \A o \in outstanding' : <<o.seq, o.handle>> \in G \cup N
        BY <1>1, <1>5 DEF Owned
    <2> QED BY <1>1, <1>5, <2>1, Carried
<1>7. \A h \in Handles : report'[h] = "delivered" => received'[h] > 0
    BY DEF SendAll, NumberInv
<1>8. ReceiverTypes'
    BY DEF NumberInv, ReceiverTypes
<1> HIDE DEF c
<1> QED BY <1>4, <1>5, <1>6, <1>7, <1>8 DEF NumberInv, c

LEMMA NumbersInSend ==
    ASSUME NumbersSuffice, IInv, NumberInv, NEW m \in Handles, send_message(m)
    PROVE  NumberInv'
<1>0. [Next]_vars
    BY DEF Next
<1>1. report[m] = "unsent" /\ UNCHANGED <<window, received, sessions, skips, reboots>>
    BY DEF send_message, receiverVars, bounds
<1>2. CASE session # 0 /\ reboots = 0
    <2>1. SendAll({m}, session)
        BY <1>2 DEF send_message
    <2>2. report'[m] # "unsent"
        BY <2>1 DEF SendAll
    <2>3. Begun \cup {m} \subseteq Begun' /\ m \notin Begun /\ IsFiniteSet(Begun') /\ IsFiniteSet(Begun)
        BY <1>0, <1>1, <2>2, NeverUnsent, TransportAssumption, FS_Subset DEF Begun
    <2>4. Cardinality(Begun \cup {m}) = Cardinality(Begun) + 1 /\ IsFiniteSet(Begun \cup {m})
        BY <2>3, FS_AddElement
    <2>5. Cardinality(Begun) + 1 <= Cardinality(Begun') /\ Cardinality(Begun) \in Nat /\ Cardinality(Begun') \in Nat
        BY <2>3, <2>4, FS_Subset, FS_CardinalityType
    <2>6. Cardinality({m}) = 1
        BY FS_Singleton
    <2>7. Issued + Cardinality({m}) <= Issued'
        <3> DEFINE c == sessions * Cardinality(Handles)
        <3>1. c \in Nat /\ skips \in Nat
            BY <1>2, FS_CardinalityType, TransportAssumption, SMTT(15) DEF NumberInv, ReceiverTypes
        <3>2. Issued = skips + Cardinality(Begun) + c /\ Issued' = skips + Cardinality(Begun') + c
            BY <1>1 DEF Issued
        <3> HIDE DEF c
        <3> QED BY <2>5, <2>6, <3>1, <3>2
    <2>8. skips' \in 0 .. MaxSkips /\ sessions' \in 0 .. MaxSessions
        BY <1>1, <1>2 DEF NumberInv, ReceiverTypes
    <2> QED BY <1>1, <1>2, <2>1, <2>7, <2>8, SentNumbers
<1>3. CASE session = 0
    <2>1. UNCHANGED <<next_seq, outstanding, air>> /\ \E what \in {"pending", "failed"} : report' = Reported({m}, what)
        BY <1>3 DEF send_message
    <2>2. \A h \in Handles : report'[h] = "delivered" => report[h] = "delivered"
        BY <2>1 DEF Reported
    <2>3. \A G : Owned(G) => Owned(G)'
        BY <1>1, <2>1 DEF Owned, Arrived
    <2> QED BY <1>0, <1>1, <2>1, <2>2, <2>3, QuietNumbers
<1>4. CASE reboots # 0
    BY <1>1, <1>4 DEF NumberInv
<1> QED BY <1>2, <1>3, <1>4

LEMMA NumbersInEstablish ==
    ASSUME NumbersSuffice, IInv, NumberInv, establish
    PROVE  NumberInv'
<1>0. [Next]_vars
    BY DEF Next
<1>1. /\ SendAll(queued, sessions + 1) /\ sessions' = sessions + 1 /\ sessions < MaxSessions
      /\ UNCHANGED <<window, received, skips, reboots>>
    BY DEF establish
<1>2. CASE reboots = 0
    <2> DEFINE c == Cardinality(Handles)
               s == sessions * c
               t == (sessions + 1) * c
    <2>1. c \in Nat /\ Cardinality(queued) \in Nat /\ Cardinality(queued) <= c
        BY TransportAssumption, FS_Subset, FS_CardinalityType DEF IInv, SenderTypes
    <2>2. sessions \in Nat /\ skips \in Nat
        BY <1>2, TransportAssumption, SMTT(15) DEF NumberInv, ReceiverTypes
    <2>3. Issued = skips + Cardinality(Begun) + s /\ Issued' = skips + Cardinality(Begun') + t
        BY <1>1 DEF Issued
    <2> HIDE DEF c
    <2>4. t = s + c /\ s \in Nat
        BY <2>1, <2>2
    <2> HIDE DEF s, t
    <2>5. Issued + Cardinality(queued) <= Issued'
        BY <1>0, <2>1, <2>2, <2>3, <2>4, BegunGrows
    <2>6. skips' \in 0 .. MaxSkips /\ sessions' \in 0 .. MaxSessions /\ queued \in SUBSET Handles
        BY <1>1, <1>2, TransportAssumption DEF NumberInv, ReceiverTypes, IInv, SenderTypes
    <2> QED BY <1>1, <1>2, <2>5, <2>6, SentNumbers
<1> QED BY <1>1, <1>2 DEF NumberInv
LEMMA NumbersInOther ==
    ASSUME NumbersSuffice, IInv, NumberInv, other_traffic
    PROVE  NumberInv'
<1>0. [Next]_vars
    BY DEF Next
<1>1. /\ skips < MaxSkips /\ skips' = skips + 1 /\ next_seq' = SeqAfter(next_seq, 1)
      /\ UNCHANGED <<outstanding, air, report, window, received, sessions, reboots>>
    BY DEF other_traffic, receiverVars
<1>2. CASE reboots = 0
    <2>1. PICK b, n, G : n <= Issued /\ Ledger(b, n, G) /\ Owned(G)
        BY <1>2 DEF NumberInv
    <2>2. skips \in 0 .. MaxSkips /\ sessions \in 0 .. MaxSessions /\ skips' \in 0 .. MaxSkips
        BY <1>1, <1>2, TransportAssumption DEF NumberInv, ReceiverTypes
    <2>3. n \in Nat /\ b \in Numbers
        BY <2>1 DEF Ledger
    <2> DEFINE c == sessions * Cardinality(Handles)
    <2>4. c \in Nat /\ Cardinality(Begun) \in Nat
        BY <2>2, TransportAssumption, FS_Subset, FS_CardinalityType, SMTT(15) DEF Begun
    <2>5. Issued = skips + Cardinality(Begun) + c /\ Issued' = (skips + 1) + Cardinality(Begun) + c
        BY <1>1 DEF Issued, Begun
    <2>6. Issued' < SeqSpace
        <3>1. Begun \in SUBSET Handles
            BY DEF Begun
        <3>2. skips + 1 \in 0 .. MaxSkips
            BY <1>1, <2>2
        <3> QED BY <2>2, <2>5, <3>1, <3>2, IssuedBound
    <2> HIDE DEF c
    <2>7. n + 1 <= Issued' /\ n + 1 < SeqSpace
        BY <2>1, <2>2, <2>3, <2>4, <2>5, <2>6, SeqAssumption
    <2>8. next_seq' = SeqAfter(b, n + 1)
        BY <1>1, <2>1, <2>3, <2>7, CountedOn, SMTT(15) DEF Ledger
    <2>9. Ledger(b, n + 1, G)'
        BY <2>1, <2>3, <2>8, SMTT(15) DEF Ledger
    <2>10. Owned(G)'
        BY <1>1, <2>1 DEF Owned, Arrived
    <2>11. ReceiverTypes' /\ \A h \in Handles : report'[h] = "delivered" => received'[h] > 0
        BY <1>1, <1>2, <2>2 DEF NumberInv, ReceiverTypes
    <2> QED BY <1>1, <1>2, <2>7, <2>9, <2>10, <2>11 DEF NumberInv
<1> QED BY <1>1, <1>2 DEF NumberInv

\* An acknowledgement reports the message its number belongs to.
LEMMA NumbersInAck ==
    ASSUME IInv, NumberInv, handle_ack
    PROVE  NumberInv'
<1>0. [Next]_vars
    BY DEF Next
<1>1. PICK f \in air : /\ f.kind = "ack" /\ air' = air \ {f}
                       /\ outstanding' = outstanding \ OnAck(f)
                       /\ report' = Reported(HandlesOf(OnAck(f)), "delivered")
    BY DEF handle_ack
<1>2. UNCHANGED <<next_seq, window, received, skips, sessions, reboots>>
    BY DEF handle_ack, receiverVars, bounds
<1>3. CASE reboots = 0
    <2>1. PICK b, n, G : n <= Issued /\ Ledger(b, n, G) /\ Owned(G)
        BY <1>3 DEF NumberInv
    <2>2. Owned(G)'
        <3>1. \A o \in outstanding' : <<o.seq, o.handle>> \in G
            BY <1>1, <2>1 DEF Owned
        <3>2. \A g \in air' : g \in air
            BY <1>1
        <3> QED BY <1>2, <2>1, <3>1, <3>2, Carried
    <2>3. ASSUME NEW o \in OnAck(f) PROVE received[o.handle] > 0
        <3>1. o \in outstanding /\ o.seq = f.seq /\ <<o.seq, o.handle>> \in G
            BY <2>1 DEF OnAck, Owned
        <3>2. PICK h \in Handles : <<f.seq, h>> \in G /\ received[h] > 0
            BY <1>1, <2>1 DEF Owned, Arrived
        <3>3. <<f.seq, h>> = <<o.seq, o.handle>>
            BY <2>1, <3>1, <3>2 DEF Ledger
        <3> QED BY <3>2, <3>3
    <2>4. \A h \in Handles : report'[h] = "delivered" => received'[h] > 0
        BY <1>1, <1>2, <1>3, <2>3 DEF Reported, HandlesOf, NumberInv
    <2>5. n <= Issued'
        <3> DEFINE c == sessions * Cardinality(Handles)
        <3>1. c \in Nat /\ skips \in Nat /\ n \in Nat
            BY <1>3, <2>1, FS_CardinalityType, TransportAssumption, SMTT(15) DEF NumberInv, ReceiverTypes, Ledger
        <3>2. Issued = skips + Cardinality(Begun) + c /\ Issued' = skips + Cardinality(Begun') + c
            BY <1>2 DEF Issued
        <3> HIDE DEF c
        <3> QED BY <1>0, <2>1, <3>1, <3>2, BegunGrows
    <2>6. ReceiverTypes' /\ Ledger(b, n, G)'
        BY <1>2, <1>3, <2>1 DEF NumberInv, ReceiverTypes, Ledger
    <2> QED BY <1>2, <1>3, <2>2, <2>4, <2>5, <2>6 DEF NumberInv
<1> QED BY <1>2, <1>3 DEF NumberInv

\* What arrives is handed up, or its number had arrived before.
LEMMA NumbersInData ==
    ASSUME NumbersSuffice, IInv, NumberInv, handle_unicast_data
    PROVE  NumberInv'
<1>1. PICK f \in air :
          /\ f.kind = "data"
          /\ window' = AfterAccept(window, f.seq)
          /\ received' = IF Fresh(window, f.seq) THEN [received EXCEPT ![f.handle] = @ + 1] ELSE received
          /\ air' = (air \ {f}) \cup {Ack(peerSession, f.seq)}
    BY DEF handle_unicast_data
<1>2. UNCHANGED <<next_seq, outstanding, report, skips, sessions, reboots>>
    BY DEF handle_unicast_data, senderVars, bounds
<1>3. CASE reboots = 0
    <2>1. PICK b, n, G : n <= Issued /\ Ledger(b, n, G) /\ Owned(G)
        BY <1>3 DEF NumberInv
    <2>2. <<f.seq, f.handle>> \in G /\ f.seq \in Numbers /\ f.handle \in Handles
        BY <1>1, <2>1 DEF Owned, Ledger
    <2>3. window \in SeqWindows /\ received \in [Handles -> Nat] /\ WINDOW <= SeqSpace
        BY <1>3 DEF NumberInv, ReceiverTypes, NumbersSuffice
    <2>4. received' \in [Handles -> Nat] /\ \A h \in Handles : received[h] > 0 => received'[h] > 0
        BY <1>1, <2>2, <2>3
    <2>5. received'[f.handle] > 0
        <3>1. CASE Fresh(window, f.seq)
            BY <1>1, <2>2, <2>3, <3>1
        <3>2. CASE ~Fresh(window, f.seq)
            <4>1. Arrived(G, f.seq)
                BY <2>1, <2>2, <2>3, <3>2, NotFresh DEF Owned
            <4>2. PICK h \in Handles : <<f.seq, h>> \in G /\ received[h] > 0
                BY <4>1 DEF Arrived
            <4>3. <<f.seq, h>> = <<f.seq, f.handle>>
                BY <2>1, <2>2, <4>2 DEF Ledger
            <4> QED BY <2>4, <4>2, <4>3
        <3> QED BY <3>1, <3>2
    <2>6. Arrived(G, f.seq)' /\ \A q : Arrived(G, q) => Arrived(G, q)'
        BY <2>2, <2>4, <2>5 DEF Arrived
    <2>7. window' \in SeqWindows
        BY <1>1, <2>2, <2>3, Accepted
    <2>8. ASSUME NEW d \in window'.bitmap PROVE Arrived(G, Minus(window.top, d))'
        <3>1. \/ Minus(window'.top, d) = f.seq
              \/ window.any = TRUE /\ \E e \in window.bitmap : Minus(window'.top, d) = Minus(window.top, e)
            BY <1>1, <2>2, <2>3, <2>8, Accepted
        <3>2. CASE Minus(window'.top, d) = f.seq
            BY <2>6, <3>2
        <3>3. CASE window.any = TRUE /\ \E e \in window.bitmap : Minus(window'.top, d) = Minus(window.top, e)
            <4>1. PICK e \in window.bitmap : Minus(window'.top, d) = Minus(window.top, e)
                BY <3>3
            <4>2. Arrived(G, Minus(window.top, e))
                BY <2>1, <3>3 DEF Owned
            <4> QED BY <2>6, <4>1, <4>2 DEF Arrived
        <3> QED BY <3>1, <3>2, <3>3
    <2>9. \A g \in air' : g.kind = "data" => <<g.seq, g.handle>> \in G
        BY <1>1, <2>1 DEF Owned, Ack
    <2>10. \A g \in air' : g.kind = "ack" => Arrived(G, g.seq)'
        BY <1>1, <2>1, <2>6 DEF Owned, Ack
    <2>11. Owned(G)'
        BY <1>2, <2>1, <2>8, <2>9, <2>10 DEF Owned
    <2>12. n <= Issued' /\ Ledger(b, n, G)'
        BY <1>2, <2>1 DEF Issued, Begun, Ledger
    <2>13. ReceiverTypes' /\ \A h \in Handles : report'[h] = "delivered" => received'[h] > 0
        BY <1>2, <1>3, <2>4, <2>7 DEF NumberInv, ReceiverTypes
    <2> QED BY <1>2, <1>3, <2>11, <2>12, <2>13 DEF NumberInv
<1> QED BY <1>2, <1>3 DEF NumberInv

LEMMA NumbersInTick ==
    ASSUME IInv, NumberInv, tick
    PROVE  NumberInv'
<1>0. [Next]_vars
    BY DEF Next
<1>1. PICK due \in SUBSET outstanding : tick_in_session(due) \/ tick_without_session(due) \/ tick_gives_up(due)
    BY DEF tick
<1>2. UNCHANGED <<next_seq, window, received, skips, sessions, reboots>>
    BY <1>1 DEF tick_in_session, tick_without_session, tick_gives_up, receiverVars, bounds
<1>3. \A h \in Handles : report'[h] = "delivered" => report[h] = "delivered"
    BY <1>1 DEF tick_in_session, tick_without_session, tick_gives_up, Requeue, Reported
<1>4. ASSUME NEW G, Owned(G) PROVE Owned(G)'
    <2>1. \A o \in outstanding' : <<o.seq, o.handle>> \in G
        <3>1. \A o \in outstanding : LET e == [o EXCEPT !.attempts = @ + 1] IN e.seq = o.seq /\ e.handle = o.handle
            BY DEF IInv, SenderTypes, Entries
        <3>2. \A o \in outstanding' : \E e \in outstanding : o.seq = e.seq /\ o.handle = e.handle
            <4>1. CASE tick_in_session(due)
                <5>1. PICK retry \in SUBSET outstanding :
                          outstanding' = (outstanding \ due) \cup {[e EXCEPT !.attempts = @ + 1] : e \in retry}
                    BY <4>1 DEF tick_in_session, Again
                <5> QED BY <3>1, <5>1
            <4>2. CASE tick_without_session(due) \/ tick_gives_up(due)
                BY <4>2 DEF tick_without_session, tick_gives_up
            <4> QED BY <1>1, <4>1, <4>2
        <3> QED BY <1>4, <3>2 DEF Owned
    <2>2. \A f \in air' : f \in air \/ (f.kind = "data" /\ <<f.seq, f.handle>> \in G)
        <3>1. CASE tick_in_session(due)
            <4>1. PICK retry \in SUBSET outstanding :
                      air' = air \cup {Data(session, o.seq, o.handle) : o \in retry}
                BY <3>1 DEF tick_in_session
            <4>2. \A o \in outstanding : LET f == Data(session, o.seq, o.handle)
                                         IN  f.kind = "data" /\ <<f.seq, f.handle>> \in G
                BY <1>4 DEF Data, Owned
            <4> QED BY <4>1, <4>2
        <3>2. CASE tick_without_session(due) \/ tick_gives_up(due)
            BY <3>2 DEF tick_without_session, tick_gives_up
        <3> QED BY <1>1, <3>1, <3>2
    <2> QED BY <1>2, <1>4, <2>1, <2>2, Carried
<1> QED BY <1>0, <1>2, <1>3, <1>4, QuietNumbers

LEMMA NumbersElsewhere ==
    ASSUME IInv, NumberInv,
           handshake_expired \/ on_discovery_failed \/ notify_no_session \/ sender_loses_session
             \/ receiver_loses_session \/ on_no_session_notice
    PROVE  NumberInv'
<1>0. [Next]_vars
    BY DEF Next
<1>1. /\ UNCHANGED <<next_seq, received, skips, sessions, reboots>>
      /\ window' = window \/ window' = EmptySeqWindow
    BY DEF handshake_expired, on_discovery_failed, notify_no_session, sender_loses_session, receiver_loses_session,
           on_no_session_notice, receiverVars, senderVars, bounds
<1>2. \A h \in Handles : report'[h] = "delivered" => report[h] = "delivered"
    BY DEF handshake_expired, on_discovery_failed, notify_no_session, sender_loses_session, receiver_loses_session,
           on_no_session_notice, Requeue, Reported
<1>3. outstanding' \subseteq outstanding /\ \A f \in air' : f \in air \/ f.kind = "notice"
    BY SMTT(15) DEF handshake_expired, on_discovery_failed, notify_no_session, sender_loses_session, receiver_loses_session,
           on_no_session_notice, senderVars, Notice
<1>4. ASSUME NEW G, Owned(G) PROVE Owned(G)'
    <2>1. \A o \in outstanding' : <<o.seq, o.handle>> \in G
        BY <1>3, <1>4 DEF Owned
    <2> QED BY <1>1, <1>3, <1>4, <2>1, Carried
<1> QED BY <1>0, <1>1, <1>2, <1>4, QuietNumbers

LEMMA NumberInvStep == NumbersSuffice /\ IInv /\ NumberInv /\ [Next]_vars => NumberInv'
<1> SUFFICES ASSUME NumbersSuffice, IInv, NumberInv, [Next]_vars PROVE NumberInv'
    OBVIOUS
<1>1. CASE reboot
    BY <1>1 DEF reboot, NumberInv
<1>2. CASE UNCHANGED vars
    <2>1. \A G : Owned(G) => Owned(G)'
        BY <1>2 DEF vars, Owned, Arrived
    <2> QED BY <1>2, <2>1, QuietNumbers DEF vars
<1> QED BY <1>1, <1>2, NumbersInSend, NumbersInEstablish, NumbersInOther, NumbersInAck, NumbersInData,
           NumbersInTick, NumbersElsewhere DEF Next

LEMMA NumberInvInit == Init => NumberInv
<1> SUFFICES ASSUME Init PROVE NumberInv
    OBVIOUS
<1> USE SeqAssumption, TransportAssumption
<1>1. ReceiverTypes
    BY DEF Init, ReceiverTypes, SeqWindows, EmptySeqWindow
<1>2. next_seq \in Numbers
    BY DEF Init, Numbers
<1>3. next_seq = SeqAfter(next_seq, 0)
    BY <1>2, Counted DEF Numbers
<1>4. Ledger(next_seq, 0, {})
    BY <1>2, <1>3 DEF Ledger
<1>5. Owned({})
    BY DEF Init, Owned, EmptySeqWindow
<1>6. 0 <= Issued
    <2>1. Begun = {} /\ Cardinality({}) = 0 /\ Cardinality(Handles) \in Nat
        BY FS_EmptySet, FS_CardinalityType DEF Init, Begun
    <2> QED BY <2>1, SMTT(15) DEF Init, Issued
<1> QED BY <1>1, <1>4, <1>5, <1>6 DEF Init, NumberInv

\* As long as no sequence number is used twice and the sender does not
\* reboot, delivered is reported only for a message the peer's application
\* got: across retries, re-queueing under new numbers, lost sessions and late
\* frames the number in an acknowledgement (on_ack) is that of one message.
THEOREM DeliveredWasReceivedHolds == NumbersSuffice => (Spec => []DeliveredWasReceived)
<1>1. NumberInv => DeliveredWasReceived
    BY DEF NumberInv, DeliveredWasReceived
<1>2. NumbersSuffice /\ IInv /\ NumberInv /\ [Next]_vars => NumberInv'
    BY NumberInvStep
<1>3. Init => NumberInv
    BY NumberInvInit
<1> SUFFICES ASSUME NumbersSuffice PROVE Spec => []DeliveredWasReceived
    OBVIOUS
<1>4. IInv /\ NumberInv /\ [Next]_vars => NumberInv'
    BY <1>2
<1> QED BY <1>1, <1>3, <1>4, Inductive, PTL DEF Spec
-----------------------------------------------------------------------------
(* A message is received once, as long as all numbers fit in the window.   *)

\* The numbers handed out fit in the window at the receiver, and the window
\* is at most half of the number space: 64 of 65536.
WindowSuffices ==
    /\ WINDOW <= SeqSpace \div 2
    /\ MaxSkips + Cardinality(Handles) < WINDOW

\* The window measures the distance between two numbers, the zero that is
\* never handed out included, and tells which one is the later.
LEMMA Distance ==
    ASSUME WINDOW <= SeqSpace \div 2, NEW b \in Numbers, NEW n \in Nat, n < WINDOW,
           NEW j \in 0 .. n - 1, NEW k \in 0 .. n - 1
    PROVE  /\ SeqAfter(b, j) \in Numbers /\ SeqAfter(b, k) \in Numbers
           /\ j <= k => Minus(SeqAfter(b, k), SeqAfter(b, j)) < WINDOW
           /\ k < j => Minus(SeqAfter(b, k), SeqAfter(b, j)) >= SeqSpace \div 2
           /\ j = k => Minus(SeqAfter(b, k), SeqAfter(b, j)) = 0
           /\ Minus(SeqAfter(b, k), SeqAfter(b, j)) \in Nat
<1> DEFINE x == SeqAfter(b, k)
           y == SeqAfter(b, j)
           D == SeqSpace \div 2
           m == Minus(x, y)
<1>1. SeqSpace \in Nat /\ WINDOW \in Nat /\ D \in Nat /\ 2 * D <= SeqSpace /\ WINDOW <= D
    BY SeqAssumption, SMTT(15)
<1> HIDE DEF D
<1>2. j \in Nat /\ k \in Nat /\ j < n /\ k < n /\ j \in 0 .. SeqSpace - 1 /\ k \in 0 .. SeqSpace - 1
    BY <1>1, SMTT(15)
<1>3. x = IF b + k < SeqSpace THEN b + k ELSE b + k - (SeqSpace - 1)
    BY <1>2, Counted
<1>4. y = IF b + j < SeqSpace THEN b + j ELSE b + j - (SeqSpace - 1)
    BY <1>2, Counted
<1> HIDE DEF x, y
<1>5. x \in Numbers /\ y \in Numbers
    BY <1>1, <1>2, <1>3, <1>4, SMTT(15) DEF Numbers
<1>6. m = (IF y <= x THEN x - y ELSE x - y + SeqSpace) /\ m \in Nat
    <2>1. x \in 0 .. SeqSpace - 1 /\ y \in 0 .. SeqSpace - 1
        BY <1>1, <1>5, SMTT(15) DEF Numbers
    <2> QED BY <2>1, MinusValue, SMTT(15)
<1> HIDE DEF m
<1>7. b \in Nat /\ b < SeqSpace
    BY <1>1, SMTT(15) DEF Numbers
<1>8. j <= k => m < WINDOW
    BY <1>1, <1>2, <1>3, <1>4, <1>6, <1>7, SMTT(15)
<1>9. k < j => m >= D
    BY <1>1, <1>2, <1>3, <1>4, <1>6, <1>7, SMTT(15)
<1>10. j = k => m = 0
    BY <1>1, <1>2, <1>3, <1>4, <1>6, <1>7, SMTT(15)
<1> QED BY <1>5, <1>6, <1>8, <1>9, <1>10 DEF x, y, D, m

\* Distances add up while they are short.
LEMMA MinusAdds ==
    ASSUME NEW x \in Numbers, NEW t \in Numbers, NEW z \in Numbers,
           Minus(x, t) < SeqSpace \div 2, Minus(t, z) < SeqSpace \div 2
    PROVE  Minus(x, z) - Minus(x, t) = Minus(t, z)
<1> DEFINE D == SeqSpace \div 2
<1>1. SeqSpace \in Nat /\ D \in Nat /\ 2 * D <= SeqSpace
    BY SeqAssumption, SMTT(15)
<1> HIDE DEF D
<1>2. /\ x \in 0 .. SeqSpace - 1 /\ t \in 0 .. SeqSpace - 1 /\ z \in 0 .. SeqSpace - 1
      /\ Minus(x, t) < D /\ Minus(t, z) < D
    BY <1>1, SMTT(15) DEF Numbers, D
<1>3. Minus(x, t) = (IF t <= x THEN x - t ELSE x - t + SeqSpace)
    BY <1>2, MinusValue
<1>4. Minus(t, z) = (IF z <= t THEN t - z ELSE t - z + SeqSpace)
    BY <1>2, MinusValue
<1>5. Minus(x, z) = (IF z <= x THEN x - z ELSE x - z + SeqSpace)
    BY <1>2, MinusValue
<1> QED BY <1>1, <1>2, <1>3, <1>4, <1>5, SMTT(15)

\* A window whose top is one of the numbers handed out.
AtNumber(w, b, n) == w.any = TRUE => \E k \in 0 .. n - 1 : w.top = SeqAfter(b, k)
\* The window has the bit of the number q.
Marked(w, q) == w.any = TRUE /\ Minus(w.top, q) \in w.bitmap

\* accept marks its number, forgets no mark, and refuses what is marked.
LEMMA Remembered ==
    ASSUME WINDOW <= SeqSpace \div 2, NEW b \in Numbers, NEW n \in Nat, n < WINDOW,
           NEW w \in SeqWindows, AtNumber(w, b, n), NEW i \in 0 .. n - 1
    PROVE  LET q == SeqAfter(b, i)
               v == AfterAccept(w, q)
           IN  /\ AtNumber(v, b, n) /\ Marked(v, q)
               /\ Marked(w, q) => ~Fresh(w, q)
               /\ \A j \in 0 .. n - 1 : Marked(w, SeqAfter(b, j)) => Marked(v, SeqAfter(b, j))
<1> DEFINE D == SeqSpace \div 2
           q == SeqAfter(b, i)
           v == AfterAccept(w, q)
           num(j) == SeqAfter(b, j)
<1>1. SeqSpace \in Nat /\ WINDOW \in Nat /\ D \in Nat /\ 2 * D <= SeqSpace /\ WINDOW <= D /\ WINDOW > 0
    BY SeqAssumption, SMTT(15)
<1>2. /\ w.bitmap \subseteq SeqPositions /\ w.any \in BOOLEAN
      /\ \A d \in SeqPositions : d \in Nat /\ d < WINDOW
      /\ \A d \in Nat : d < WINDOW => d \in SeqPositions
    BY <1>1, SMTT(15) DEF SeqWindows, SeqPositions
<1>3. \A j, k \in 0 .. n - 1 : /\ num(j) \in Numbers
                               /\ j <= k => Minus(num(k), num(j)) < WINDOW
                               /\ k < j => Minus(num(k), num(j)) >= D
                               /\ j = k => Minus(num(k), num(j)) = 0
                               /\ Minus(num(k), num(j)) \in Nat
    BY Distance
<1>4. q = num(i) /\ q \in Numbers /\ Minus(q, q) = 0 /\ v.any = TRUE
    <2>1. WINDOW <= SeqSpace
        BY <1>1
    <2>2. q = num(i) /\ q \in Numbers
        BY <1>3
    <2> QED BY <1>3, <2>1, <2>2, Accepted
<1>5. v = AfterAccept(w, q) /\ D = SeqSpace \div 2
    OBVIOUS
<1> HIDE DEF D, q, v, num
<1>6. CASE ~w.any
    <2>1. v.top = q /\ v.bitmap = {0} /\ ~(w.any = TRUE)
        BY <1>5, <1>6 DEF AfterAccept
    <2>2. AtNumber(v, b, n)
        BY <1>4, <2>1 DEF AtNumber, num
    <2>3. Marked(v, q)
        BY <1>4, <2>1 DEF Marked
    <2> QED BY <2>1, <2>2, <2>3 DEF Marked, q, v
<1>7. CASE w.any = TRUE
    <2>1. PICK t \in 0 .. n - 1 : w.top = num(t)
        BY <1>7 DEF AtNumber, num
    <2>2. i <= t \/ t < i
        BY SMTT(15)
    <2>3. CASE Newer(w, q)
        <3> DEFINE B == {d \in SeqPositions : d - Minus(q, w.top) \in w.bitmap} \cup {0}
        <3>1. v.top = q /\ v.bitmap = B
            <4>1. v = [w EXCEPT !.top = q, !.bitmap = B]
                BY <1>5, <1>7, <2>3 DEF AfterAccept
            <4> QED BY <4>1 DEF SeqWindows
        <3>2. Minus(q, w.top) # 0 /\ Minus(q, w.top) < D
            BY <1>5, <2>3 DEF Newer
        <3>3. t < i
            BY <1>1, <1>3, <1>4, <2>1, <2>2, <3>2, SMTT(15)
        <3>4. ASSUME NEW j \in 0 .. n - 1, Marked(w, num(j)) PROVE Marked(v, num(j))
            <4>1. Minus(num(t), num(j)) \in w.bitmap /\ Minus(num(t), num(j)) < WINDOW
                BY <1>2, <2>1, <3>4 DEF Marked
            <4>2. j <= t
                BY <1>1, <1>3, <4>1, SMTT(15)
            <4>3. j <= i
                BY <3>3, <4>2, SMTT(15)
            <4>4. Minus(q, num(j)) \in Nat /\ Minus(q, num(j)) < WINDOW
                BY <1>3, <1>4, <4>3
            <4>5. Minus(num(t), num(j)) < D
                BY <1>1, <1>3, <4>1, SMTT(15)
            <4>6. Minus(q, num(j)) - Minus(q, w.top) = Minus(num(t), num(j))
                BY <1>3, <1>4, <1>5, <2>1, <3>2, <4>5, MinusAdds, SMTT(15)
            <4>7. Minus(q, num(j)) \in B
                BY <1>2, <4>1, <4>4, <4>6
            <4> HIDE DEF B
            <4> QED BY <1>4, <3>1, <4>7 DEF Marked
        <3>5. 0 \in B
            OBVIOUS
        <3> HIDE DEF B
        <3>6. Marked(v, q)
            BY <1>4, <3>1, <3>5 DEF Marked
        <3>7. AtNumber(v, b, n)
            BY <1>4, <3>1 DEF AtNumber, num
        <3>8. ~Marked(w, q)
            BY <1>1, <1>2, <1>3, <1>4, <2>1, <3>3, SMTT(15) DEF Marked
        <3> QED BY <3>4, <3>6, <3>7, <3>8 DEF q, v, num
    <2>4. CASE ~Newer(w, q)
        <3>1. i <= t \/ Minus(q, w.top) = 0
            <4>1. Minus(q, w.top) = 0 \/ ~(Minus(q, w.top) < D)
                BY <1>5, <2>4 DEF Newer
            <4> QED BY <1>1, <1>3, <1>4, <2>1, <2>2, <4>1, SMTT(15)
        <3>2. i <= t
            <4> SUFFICES ASSUME t < i, Minus(q, w.top) = 0 PROVE FALSE
                BY <2>2, <3>1
            <4>1. q = w.top
                <5>1. q \in 0 .. SeqSpace - 1 /\ w.top \in 0 .. SeqSpace - 1
                    BY <1>1, <1>3, <1>4, <2>1, SMTT(15) DEF Numbers
                <5>2. Minus(q, w.top) = (IF w.top <= q THEN q - w.top ELSE q - w.top + SeqSpace)
                    BY <5>1, MinusValue
                <5> QED BY <1>1, <5>1, <5>2, SMTT(15)
            <4>2. Minus(q, w.top) = 0 /\ Minus(w.top, q) = 0
                BY <1>4, <4>1
            <4>3. Minus(w.top, q) >= D
                BY <1>3, <1>4, <2>1
            <4> QED BY <1>1, <4>2, <4>3, SMTT(15)
        <3>3. Minus(w.top, q) \in Nat /\ Minus(w.top, q) < WINDOW
            BY <1>3, <1>4, <2>1, <3>2, ZenonT(40)
        <3>4. ~(Minus(w.top, q) >= WINDOW)
            BY <1>1, <3>3, SMTT(15)
        <3>5. v.top = w.top /\ v.bitmap = w.bitmap \cup {Minus(w.top, q)}
            <4>1. v = [w EXCEPT !.bitmap = w.bitmap \cup {Minus(w.top, q)}]
                BY <1>5, <1>7, <2>4, <3>4 DEF AfterAccept
            <4> QED BY <4>1 DEF SeqWindows
        <3>6. Marked(v, q) /\ \A z : Marked(w, z) => Marked(v, z)
            BY <1>4, <3>5 DEF Marked
        <3>7. AtNumber(v, b, n)
            BY <2>1, <3>5 DEF AtNumber, num
        <3>8. Marked(w, q) => ~Fresh(w, q)
            BY <1>7, <2>4, <3>4 DEF Marked, Fresh
        <3> QED BY <3>6, <3>7, <3>8 DEF q, v, num
    <2> QED BY <2>3, <2>4
<1> QED BY <1>2, <1>6, <1>7
-----------------------------------------------------------------------------
(* The state while no session is lost and nothing reboots.                 *)

Calm == losses = 0 /\ reboots = 0

\* Both ends have a session once there was one, so no notice is sent and
\* nothing waits for a session or is numbered again.
InSession ==
    /\ \A f \in air : f.kind # "notice"
    /\ sessions = 0 => air = {} /\ session = 0 /\ outstanding = {}
    /\ sessions # 0 => session # 0 /\ peerSession # 0 /\ queued = {}

\* The messages that have their number or will never get one.
Served == Begun \ queued

\* What is tracked or on the air goes by the numbers of G.
Named(G) ==
    /\ \A o \in outstanding : <<o.seq, o.handle>> \in G
    /\ \A f \in air : f.kind = "data" => <<f.seq, f.handle>> \in G

\* A message has one number, and the window has marked those that were
\* received.
MarkedOnce(b, n, G) ==
    /\ \A p, q \in G : p[2] = q[2] => p = q
    /\ \A p \in G : p[2] \in Served
    /\ AtNumber(window, b, n)
    /\ \A h \in Handles : received[h] > 0 => received[h] = 1 /\ \E p \in G : p[2] = h
    /\ \A p \in G : received[p[2]] > 0 => Marked(window, p[1])

\* The inductive invariant, besides IInv.
OnceInv ==
    /\ reboots \in Nat
    /\ Calm => /\ ReceiverTypes /\ InSession
               /\ \E b, n, G : /\ n <= skips + Cardinality(Served)
                               /\ Ledger(b, n, G) /\ Named(G) /\ MarkedOnce(b, n, G)

LEMMA ServedBound ==
    ASSUME WindowSuffices, NEW k \in 0 .. MaxSkips, NEW S \in SUBSET Handles
    PROVE  /\ IsFiniteSet(S) /\ Cardinality(S) \in Nat
           /\ k \in Nat /\ k + Cardinality(S) < WINDOW
           /\ WINDOW \in Nat /\ SeqSpace \in Nat /\ WINDOW <= SeqSpace
<1>1. IsFiniteSet(Handles) /\ Cardinality(Handles) \in Nat
    BY TransportAssumption, FS_CardinalityType
<1>2. IsFiniteSet(S) /\ Cardinality(S) \in Nat /\ Cardinality(S) <= Cardinality(Handles)
    BY <1>1, FS_Subset, FS_CardinalityType
<1>3. SeqSpace \in Nat /\ WINDOW \in Nat /\ WINDOW <= SeqSpace
    BY SeqAssumption, SMTT(15) DEF WindowSuffices
<1>4. MaxSkips \in Nat /\ k \in Nat
    BY TransportAssumption, SMTT(15)
<1>5. k + Cardinality(S) < WINDOW
    BY <1>1, <1>2, <1>3, <1>4, SMTT(15) DEF WindowSuffices
<1> QED BY <1>2, <1>3, <1>4, <1>5

\* A step that hands out no number and receives nothing.
LEMMA QuietOnce ==
    ASSUME WindowSuffices, OnceInv, Calm, UNCHANGED <<next_seq, skips, sessions, losses, reboots, received, window>>,
           \A G : Named(G) => Named(G)', Served \subseteq Served', InSession'
    PROVE  OnceInv'
<1>1. PICK b, n, G : /\ n <= skips + Cardinality(Served)
                     /\ Ledger(b, n, G) /\ Named(G) /\ MarkedOnce(b, n, G)
    BY DEF OnceInv
<1>2. Cardinality(Served) <= Cardinality(Served') /\ Cardinality(Served) \in Nat /\ Cardinality(Served') \in Nat
    <2>1. IsFiniteSet(Served')
        BY TransportAssumption, FS_Subset DEF Served, Begun
    <2> QED BY <2>1, FS_Subset, FS_CardinalityType
<1>3. n <= skips' + Cardinality(Served')
    <2>1. n \in Nat /\ skips \in Nat
        BY <1>1, TransportAssumption, SMTT(15) DEF OnceInv, ReceiverTypes, Ledger
    <2> QED BY <1>1, <1>2, <2>1, SMTT(15)
<1>4. Ledger(b, n, G)' /\ Named(G)'
    BY <1>1 DEF Ledger
<1>5. MarkedOnce(b, n, G)'
    <2>1. AtNumber(window, b, n)' /\ \A q : Marked(window, q) => Marked(window, q)'
        BY <1>1 DEF MarkedOnce, AtNumber, Marked
    <2> QED BY <1>1, <2>1 DEF MarkedOnce
<1>6. ReceiverTypes'
    BY DEF OnceInv, ReceiverTypes
<1> QED BY <1>3, <1>4, <1>5, <1>6 DEF OnceInv, Calm

\* What is sent has no number yet and gets one.
LEMMA SentOnce ==
    ASSUME WindowSuffices, OnceInv, Calm, NEW H \in SUBSET Handles, NEW s, SendAll(H, s),
           UNCHANGED <<window, received, skips, losses, reboots>>, sessions' \in 0 .. MaxSessions,
           H \cap Served = {}, Served \cup H \subseteq Served', InSession'
    PROVE  OnceInv'
<1>1. PICK b, n, G : /\ n <= skips + Cardinality(Served)
                     /\ Ledger(b, n, G) /\ Named(G) /\ MarkedOnce(b, n, G)
    BY DEF OnceInv
<1> DEFINE c == Cardinality(H)
<1>2. c \in Nat /\ n \in Nat /\ Cardinality(Served) \in Nat /\ Cardinality(Served') \in Nat
      /\ Cardinality(Served) + c <= Cardinality(Served')
    <2>1. IsFiniteSet(Served) /\ IsFiniteSet(Served') /\ IsFiniteSet(H)
        BY TransportAssumption, FS_Subset DEF Served, Begun
    <2>2. Cardinality(Served \cup H) = Cardinality(Served) + c - Cardinality(Served \cap H)
        BY <2>1, FS_Union
    <2>3. Cardinality(Served \cap H) = 0
        BY FS_EmptySet
    <2>4. Cardinality(Served \cup H) <= Cardinality(Served')
        BY <2>1, FS_Subset
    <2>5. c \in Nat /\ n \in Nat /\ Cardinality(Served) \in Nat /\ Cardinality(Served') \in Nat
        BY <1>1, <2>1, FS_CardinalityType DEF Ledger
    <2> HIDE DEF c
    <2> QED BY <2>2, <2>3, <2>4, <2>5, SMTT(15)
<1>3. n + c <= skips' + Cardinality(Served') /\ n + c < SeqSpace
    <2>1. skips \in 0 .. MaxSkips /\ Served' \in SUBSET Handles
        BY DEF OnceInv, ReceiverTypes, Served, Begun
    <2>2. skips \in Nat /\ skips + Cardinality(Served') < WINDOW /\ WINDOW \in Nat /\ SeqSpace \in Nat /\ WINDOW <= SeqSpace
        BY <2>1, ServedBound
    <2> HIDE DEF c
    <2> QED BY <1>1, <1>2, <2>2, SMTT(15)
<1>4. PICK N \in SUBSET (Numbers \X H) :
              /\ \A h \in H : \E q : <<q, h>> \in N
              /\ \A p, q \in N : p[2] = q[2] => p = q
              /\ \A p \in N : \E k \in n .. n + Cardinality(H) - 1 : p[1] = SeqAfter(b, k)
              /\ N \cap G = {}
              /\ Ledger(b, n + Cardinality(H), G \cup N)'
              /\ \A o \in outstanding' : o \in outstanding \/ <<o.seq, o.handle>> \in N
              /\ \A f \in air' : f \in air \/ (f.kind = "data" /\ <<f.seq, f.handle>> \in N)
              /\ air \subseteq air'
    BY <1>1, <1>3, Numbered, Zenon
<1>5. Named(G \cup N)'
    BY <1>1, <1>4 DEF Named
<1>6. \A p \in N : p[2] \in H
    BY <1>4
<1>7. MarkedOnce(b, n + c, G \cup N)'
    <2>1. \A p \in G : p[2] \notin H
        BY <1>1 DEF MarkedOnce
    <2>2. \A p, q \in G \cup N : p[2] = q[2] => p = q
        BY <1>1, <1>4, <1>6, <2>1 DEF MarkedOnce
    <2>3. \A p \in G \cup N : p[2] \in Served'
        BY <1>1, <1>6 DEF MarkedOnce
    <2>4. AtNumber(window, b, n + c)'
        <3>1. \A k \in 0 .. n - 1 : k \in 0 .. (n + c) - 1
            BY <1>2, SMTT(15)
        <3> HIDE DEF c
        <3> QED BY <1>1, <3>1 DEF MarkedOnce, AtNumber
    <2>5. \A h \in H : ~(received[h] > 0)
        BY <1>1, <2>1, SMTT(15) DEF MarkedOnce
    <2>6. \A h \in Handles : received'[h] > 0 => received'[h] = 1 /\ \E p \in G \cup N : p[2] = h
        BY <1>1 DEF MarkedOnce
    <2>7. \A p \in G \cup N : received'[p[2]] > 0 => Marked(window, p[1])'
        BY <1>1, <1>6, <2>5 DEF MarkedOnce, Marked
    <2> HIDE DEF c
    <2> QED BY <2>2, <2>3, <2>4, <2>6, <2>7 DEF MarkedOnce
<1>8. ReceiverTypes'
    BY DEF OnceInv, ReceiverTypes
<1> HIDE DEF c
<1> QED BY <1>3, <1>4, <1>5, <1>7, <1>8 DEF OnceInv, Calm, c

LEMMA OnceInSend ==
    ASSUME WindowSuffices, IInv, OnceInv, Calm, NEW m \in Handles, send_message(m)
    PROVE  OnceInv'
<1>0. [Next]_vars
    BY DEF Next
<1>1. /\ report[m] = "unsent" /\ UNCHANGED <<session, peerSession, window, received, sessions, skips, losses, reboots>>
      /\ m \notin Served /\ Begun \subseteq Begun'
    BY <1>0, NeverUnsent DEF send_message, receiverVars, bounds, Served, Begun
<1>2. CASE session # 0
    <2>1. SendAll({m}, session) /\ queued' = queued
        BY <1>2 DEF send_message
    <2>2. sessions # 0 /\ peerSession # 0 /\ queued = {} /\ \A f \in air : f.kind # "notice"
        BY <1>2 DEF OnceInv, InSession
    <2>3. report'[m] # "unsent" /\ \A f \in air' : f \in air \/ f.kind = "data"
        BY <2>1, SMTT(15) DEF SendAll, Data
    <2>4. Served \cup {m} \subseteq Served'
        BY <1>1, <2>1, <2>2, <2>3 DEF Served, Begun
    <2>5. InSession'
        BY <1>1, <1>2, <2>1, <2>2, <2>3 DEF InSession
    <2>6. sessions' \in 0 .. MaxSessions
        BY <1>1 DEF OnceInv, ReceiverTypes
    <2> QED BY <1>1, <2>1, <2>4, <2>5, <2>6, SentOnce
<1>3. CASE session = 0
    <2>1. UNCHANGED <<next_seq, outstanding, air>> /\ queued' \subseteq queued \cup {m}
        BY <1>3 DEF send_message
    <2>2. Served \subseteq Served'
        BY <1>1, <2>1 DEF Served
    <2>3. InSession'
        BY <1>1, <1>3, <2>1 DEF OnceInv, InSession
    <2>4. \A G : Named(G) => Named(G)'
        BY <2>1 DEF Named
    <2> QED BY <1>1, <2>1, <2>2, <2>3, <2>4, QuietOnce
<1> QED BY <1>2, <1>3

LEMMA OnceInEstablish ==
    ASSUME WindowSuffices, IInv, OnceInv, Calm, establish
    PROVE  OnceInv'
<1>0. [Next]_vars
    BY DEF Next
<1>1. /\ SendAll(queued, sessions + 1) /\ sessions' = sessions + 1 /\ sessions < MaxSessions
      /\ session' = sessions + 1 /\ peerSession' = sessions + 1 /\ queued' = {}
      /\ UNCHANGED <<window, received, skips, losses, reboots>>
    BY DEF establish
<1>2. sessions \in Nat /\ sessions' \in 0 .. MaxSessions /\ sessions' # 0
    BY <1>1, TransportAssumption, SMTT(15) DEF OnceInv, ReceiverTypes
<1>3. queued \in SUBSET Handles /\ queued \subseteq Begun
    BY DEF IInv, SenderTypes, Accounted, Begun
<1>4. Begun \subseteq Begun'
    BY <1>0, NeverUnsent DEF Begun
<1>5. queued \cap Served = {} /\ Served \cup queued \subseteq Served'
    BY <1>1, <1>3, <1>4 DEF Served
<1>6. \A f \in air' : f \in air \/ f.kind = "data"
    BY <1>1, SMTT(15) DEF SendAll, Data
<1>7. InSession'
    BY <1>1, <1>2, <1>6 DEF OnceInv, InSession
<1> QED BY <1>1, <1>2, <1>3, <1>5, <1>7, SentOnce

LEMMA OnceInOther ==
    ASSUME WindowSuffices, IInv, OnceInv, Calm, other_traffic
    PROVE  OnceInv'
<1>1. /\ skips < MaxSkips /\ skips' = skips + 1 /\ next_seq' = SeqAfter(next_seq, 1)
      /\ UNCHANGED <<outstanding, queued, session, peerSession, air, report, window, received, sessions, losses, reboots>>
    BY DEF other_traffic, receiverVars
<1>2. PICK b, n, G : /\ n <= skips + Cardinality(Served)
                     /\ Ledger(b, n, G) /\ Named(G) /\ MarkedOnce(b, n, G)
    BY DEF OnceInv
<1>3. /\ skips \in Nat /\ skips' \in 0 .. MaxSkips /\ n \in Nat /\ b \in Numbers
      /\ Served \in SUBSET Handles /\ Served' = Served
    BY <1>1, <1>2, TransportAssumption, SMTT(15) DEF OnceInv, ReceiverTypes, Ledger, Served, Begun
<1>4. /\ Cardinality(Served) \in Nat /\ skips' + Cardinality(Served) < WINDOW
      /\ WINDOW \in Nat /\ SeqSpace \in Nat /\ WINDOW <= SeqSpace
    BY <1>3, ServedBound
<1>5. n + 1 <= skips' + Cardinality(Served') /\ n + 1 < SeqSpace
    BY <1>1, <1>2, <1>3, <1>4, SMTT(15)
<1>6. next_seq' = SeqAfter(b, n + 1)
    BY <1>1, <1>2, <1>3, <1>5, CountedOn, SMTT(15) DEF Ledger
<1>7. \A k \in 0 .. n - 1 : k \in 0 .. (n + 1) - 1
    BY <1>3, SMTT(15)
<1>8. Ledger(b, n + 1, G)'
    BY <1>2, <1>3, <1>6, <1>7, SMTT(15) DEF Ledger
<1>9. MarkedOnce(b, n + 1, G)'
    <2>1. AtNumber(window, b, n + 1)' /\ \A q : Marked(window, q) => Marked(window, q)'
        BY <1>1, <1>2, <1>7 DEF MarkedOnce, AtNumber, Marked
    <2> QED BY <1>1, <1>2, <1>3, <2>1 DEF MarkedOnce
<1>10. Named(G)' /\ InSession'
    BY <1>1, <1>2 DEF Named, OnceInv, InSession
<1>11. ReceiverTypes'
    BY <1>1, <1>3 DEF OnceInv, ReceiverTypes
<1> QED BY <1>1, <1>5, <1>8, <1>9, <1>10, <1>11 DEF OnceInv

\* What arrives is handed up only if its number is not marked, so only if
\* the message was not received.
LEMMA OnceInData ==
    ASSUME WindowSuffices, IInv, OnceInv, Calm, handle_unicast_data
    PROVE  OnceInv'
<1>1. PICK f \in air :
          /\ f.kind = "data"
          /\ window' = AfterAccept(window, f.seq)
          /\ received' = IF Fresh(window, f.seq) THEN [received EXCEPT ![f.handle] = @ + 1] ELSE received
          /\ air' = (air \ {f}) \cup {Ack(peerSession, f.seq)}
    BY DEF handle_unicast_data
<1>2. UNCHANGED <<next_seq, outstanding, queued, session, peerSession, report, skips, sessions, losses, reboots>>
    BY DEF handle_unicast_data, senderVars, bounds
<1>3. PICK b, n, G : /\ n <= skips + Cardinality(Served)
                     /\ Ledger(b, n, G) /\ Named(G) /\ MarkedOnce(b, n, G)
    BY DEF OnceInv
<1>4. window \in SeqWindows /\ received \in [Handles -> Nat] /\ skips \in 0 .. MaxSkips /\ Served \in SUBSET Handles
    BY DEF OnceInv, ReceiverTypes, Served, Begun
<1>5. /\ b \in Numbers /\ n \in Nat /\ n < WINDOW /\ WINDOW <= SeqSpace
      /\ WINDOW <= SeqSpace \div 2
    <2>1. b \in Numbers /\ n \in Nat
        BY <1>3 DEF Ledger
    <2>2. skips \in Nat /\ skips + Cardinality(Served) < WINDOW /\ WINDOW \in Nat /\ Cardinality(Served) \in Nat
          /\ WINDOW <= SeqSpace
        BY <1>4, ServedBound
    <2> QED BY <1>3, <2>1, <2>2, SMTT(15) DEF WindowSuffices
<1>6. <<f.seq, f.handle>> \in G /\ f.seq \in Numbers /\ f.handle \in Handles
    BY <1>1, <1>3 DEF Named, Ledger
<1>7. PICK i \in 0 .. n - 1 : f.seq = SeqAfter(b, i)
    BY <1>3, <1>6, SMTT(15) DEF Ledger
<1>8. AtNumber(window, b, n)
    BY <1>3 DEF MarkedOnce
<1>9. /\ AtNumber(window', b, n) /\ Marked(window', f.seq)
      /\ Marked(window, f.seq) => ~Fresh(window, f.seq)
      /\ \A j \in 0 .. n - 1 : Marked(window, SeqAfter(b, j)) => Marked(window', SeqAfter(b, j))
    BY <1>1, <1>4, <1>5, <1>7, <1>8, Remembered
<1>10. Fresh(window, f.seq) => received[f.handle] = 0
    <2>1. received[f.handle] > 0 => Marked(window, f.seq)
        BY <1>3, <1>6, SMTT(15) DEF MarkedOnce
    <2>2. received[f.handle] \in Nat
        BY <1>4, <1>6
    <2> QED BY <1>9, <2>1, <2>2, SMTT(15)
<1>11. received' \in [Handles -> Nat]
    BY <1>1, <1>4, <1>6, SMTT(15)
<1>12. /\ \A h \in Handles : h # f.handle => received'[h] = received[h]
       /\ received'[f.handle] = received[f.handle] \/ received'[f.handle] = 1
    BY <1>1, <1>4, <1>6, <1>10, SMTT(15)
<1>13. \A h \in Handles : received'[h] > 0 => received'[h] = 1 /\ \E p \in G : p[2] = h
    <2>1. \E p \in G : p[2] = f.handle
        BY <1>6, SMTT(15)
    <2> QED BY <1>3, <1>12, <2>1 DEF MarkedOnce
<1>14. ASSUME NEW p \in G, received'[p[2]] > 0 PROVE Marked(window', p[1])
    <2>1. CASE p[2] = f.handle
        <3>1. p = <<f.seq, f.handle>>
            BY <1>3, <1>6, <2>1, SMTT(15) DEF MarkedOnce
        <3> QED BY <1>9, <3>1, SMTT(15)
    <2>2. CASE p[2] # f.handle
        <3>1. p[2] \in Handles
            BY <1>3, SMTT(15) DEF Ledger
        <3>2. Marked(window, p[1])
            BY <1>3, <1>12, <1>14, <2>2, <3>1 DEF MarkedOnce
        <3>3. PICK j \in 0 .. n - 1 : p[1] = SeqAfter(b, j)
            BY <1>3 DEF Ledger
        <3> QED BY <1>9, <3>2, <3>3
    <2> QED BY <2>1, <2>2
<1>15. Served' = Served
    BY <1>2 DEF Served, Begun
<1>16. MarkedOnce(b, n, G)'
    <2>1. AtNumber(window, b, n)'
        BY <1>9
    <2>2. \A p \in G : received'[p[2]] > 0 => Marked(window, p[1])'
        BY <1>14
    <2> QED BY <1>3, <1>13, <1>15, <2>1, <2>2 DEF MarkedOnce
<1>17. Named(G)'
    BY <1>1, <1>2, <1>3 DEF Named, Ack
<1>18. InSession'
    <2>1. \A g \in air' : g.kind # "notice"
        BY <1>1, SMTT(15) DEF OnceInv, InSession, Ack
    <2>2. sessions # 0
        BY <1>1 DEF OnceInv, InSession
    <2> QED BY <1>2, <2>1, <2>2 DEF OnceInv, InSession
<1>19. window' \in SeqWindows
    BY <1>1, <1>4, <1>5, <1>6, Accepted
<1>20. ReceiverTypes' /\ Ledger(b, n, G)' /\ n <= skips' + Cardinality(Served')
    BY <1>2, <1>3, <1>11, <1>15, <1>19 DEF OnceInv, ReceiverTypes, Ledger
<1> QED BY <1>2, <1>16, <1>17, <1>18, <1>20 DEF OnceInv

\* A retry keeps its number: there is a session.
LEMMA OnceInTick ==
    ASSUME WindowSuffices, IInv, OnceInv, Calm, tick
    PROVE  OnceInv'
<1>0. [Next]_vars
    BY DEF Next
<1>1. PICK due \in SUBSET outstanding :
          due # {} /\ (tick_in_session(due) \/ tick_without_session(due) \/ tick_gives_up(due))
    BY DEF tick
<1>2. sessions # 0 /\ session # 0
    BY <1>1 DEF OnceInv, InSession
<1>3. tick_in_session(due)
    BY <1>1, <1>2 DEF tick_without_session, tick_gives_up
<1>4. UNCHANGED <<next_seq, queued, session, peerSession, window, received, sessions, skips, losses, reboots>>
    BY <1>3 DEF tick_in_session, receiverVars, bounds
<1>5. PICK retry \in SUBSET outstanding :
          /\ outstanding' = (outstanding \ due) \cup {[e EXCEPT !.attempts = @ + 1] : e \in retry}
          /\ air' = air \cup {Data(session, o.seq, o.handle) : o \in retry}
    BY <1>3 DEF tick_in_session, Again
<1>6. \A o \in outstanding : LET e == [o EXCEPT !.attempts = @ + 1] IN e.seq = o.seq /\ e.handle = o.handle
    BY DEF IInv, SenderTypes, Entries
<1>7. \A o \in outstanding' : \E e \in outstanding : o.seq = e.seq /\ o.handle = e.handle
    BY <1>5, <1>6
<1>8. \A f \in air' : f \in air \/ (f.kind = "data" /\ \E o \in outstanding : f.seq = o.seq /\ f.handle = o.handle)
    BY <1>5, SMTT(15) DEF Data
<1>9. ASSUME NEW G, Named(G) PROVE Named(G)'
    BY <1>7, <1>8, <1>9 DEF Named
<1>10. Served \subseteq Served'
    BY <1>0, <1>4, NeverUnsent DEF Served, Begun
<1>11. InSession'
    BY <1>2, <1>4, <1>8 DEF OnceInv, InSession
<1> QED BY <1>4, <1>9, <1>10, <1>11, QuietOnce

LEMMA OnceElsewhere ==
    ASSUME WindowSuffices, IInv, OnceInv, Calm,
           handshake_expired \/ on_discovery_failed \/ handle_ack \/ notify_no_session
             \/ on_no_session_notice \/ UNCHANGED vars
    PROVE  OnceInv'
<1>0. [Next]_vars
    BY DEF Next
<1>1. ~notify_no_session /\ ~on_no_session_notice
    BY DEF notify_no_session, on_no_session_notice, OnceInv, InSession, Notice
<1>2. /\ UNCHANGED <<next_seq, session, peerSession, window, received, sessions, skips, losses, reboots>>
      /\ outstanding' \subseteq outstanding /\ air' \subseteq air /\ queued' \subseteq queued
    BY <1>1 DEF handshake_expired, on_discovery_failed, handle_ack, vars, receiverVars, bounds
<1>3. Served \subseteq Served'
    BY <1>0, <1>2, NeverUnsent DEF Served, Begun
<1>4. InSession'
    BY <1>2 DEF OnceInv, InSession
<1>5. \A G : Named(G) => Named(G)'
    BY <1>2 DEF Named
<1> QED BY <1>2, <1>3, <1>4, <1>5, QuietOnce

LEMMA OnceInvStep == WindowSuffices /\ IInv /\ OnceInv /\ [Next]_vars => OnceInv'
<1> SUFFICES ASSUME WindowSuffices, IInv, OnceInv, [Next]_vars PROVE OnceInv'
    OBVIOUS
<1>1. losses \in Nat /\ reboots \in Nat
    BY DEF IInv, SenderTypes, OnceInv
<1>2. /\ losses' = losses \/ losses' = losses + 1
      /\ reboots' = reboots \/ reboots' = reboots + 1
    BY DEF Next, vars, bounds, send_message, other_traffic, establish, handshake_expired, on_discovery_failed, tick,
           tick_in_session, tick_without_session, tick_gives_up, handle_ack, handle_unicast_data, notify_no_session,
           sender_loses_session, receiver_loses_session, on_no_session_notice, reboot
<1>3. reboots' \in Nat
    BY <1>1, <1>2, SMTT(15)
<1>4. CASE ~Calm
    <2>1. ~Calm'
        BY <1>1, <1>2, <1>4, SMTT(15) DEF Calm
    <2> QED BY <1>3, <2>1 DEF OnceInv
<1>5. CASE sender_loses_session \/ receiver_loses_session \/ reboot
    <2>1. losses' = losses + 1 \/ reboots' = reboots + 1
        BY <1>5 DEF sender_loses_session, receiver_loses_session, reboot
    <2>2. ~Calm'
        BY <1>1, <2>1, SMTT(15) DEF Calm
    <2> QED BY <1>3, <2>2 DEF OnceInv
<1> QED BY <1>4, <1>5, OnceInSend, OnceInEstablish, OnceInOther, OnceInData, OnceInTick, OnceElsewhere DEF Next

LEMMA OnceInvInit == Init => OnceInv
<1> SUFFICES ASSUME Init PROVE OnceInv
    OBVIOUS
<1> USE SeqAssumption, TransportAssumption
<1>1. ReceiverTypes /\ InSession
    BY DEF Init, ReceiverTypes, SeqWindows, EmptySeqWindow, InSession
<1>2. next_seq \in Numbers
    BY DEF Init, Numbers
<1>3. next_seq = SeqAfter(next_seq, 0)
    BY <1>2, Counted DEF Numbers
<1>4. Ledger(next_seq, 0, {})
    BY <1>2, <1>3 DEF Ledger
<1>5. Named({}) /\ MarkedOnce(next_seq, 0, {})
    <2>1. AtNumber(window, next_seq, 0)
        BY DEF Init, EmptySeqWindow, AtNumber
    <2>2. \A h \in Handles : ~(received[h] > 0)
        BY SMTT(15) DEF Init
    <2> QED BY <2>1, <2>2 DEF Init, Named, MarkedOnce
<1>6. 0 <= skips + Cardinality(Served)
    <2>1. Served = {} /\ Cardinality({}) = 0
        BY FS_EmptySet DEF Init, Begun, Served
    <2> QED BY <2>1, SMTT(15) DEF Init
<1> QED BY <1>1, <1>4, <1>5, <1>6 DEF Init, OnceInv

\* As long as the numbers handed out fit in the window, no session is lost
\* and the sender does not reboot, a message is handed to the application at
\* most once (SeqWindow::accept), however many retries of it arrive, in
\* whichever order, across rekeys, the wrap-around and the skipped zero.
THEOREM ReceivedOnceHolds == WindowSuffices => (Spec => []ReceivedOnce)
<1>1. OnceInv => ReceivedOnce
    <2> SUFFICES ASSUME OnceInv, Calm, NEW h \in Handles PROVE received[h] <= 1
        BY DEF ReceivedOnce, Calm
    <2>1. received[h] \in Nat /\ (received[h] > 0 => received[h] = 1)
        BY DEF OnceInv, MarkedOnce, ReceiverTypes
    <2> QED BY <2>1, SMTT(15)
<1>2. WindowSuffices /\ IInv /\ OnceInv /\ [Next]_vars => OnceInv'
    BY OnceInvStep
<1>3. Init => OnceInv
    BY OnceInvInit
<1> SUFFICES ASSUME WindowSuffices PROVE Spec => []ReceivedOnce
    OBVIOUS
<1>4. IInv /\ OnceInv /\ [Next]_vars => OnceInv'
    BY <1>2
<1> QED BY <1>1, <1>3, <1>4, Inductive, PTL DEF Spec
=============================================================================

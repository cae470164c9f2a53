---------------------------- MODULE DeviceProofs ----------------------------
(***************************************************************************)
(* Proof, for any periods, any number of commands and of failures on the   *)
(* bus, that the sections of the main loop leave the radio tuned to the    *)
(* network that the next one takes it for.                                 *)
(***************************************************************************)
EXTENDS Device, TLAPS

\* Time for the provers.
USE ZenonT(10), SMTT(15)

-----------------------------------------------------------------------------
(* The driver's operations.                                                *)

Regs == [freq : {Freq(p) : p \in Profiles} \cup {None}, modem : Profiles \cup {None}, sync : Profiles \cup {None}]
Fields == {"mode", "reg", "irq", "lock", "buf", "profile", "rf", "receiving", "rx_active", "preamble_seen", "glitches"}
IsRadio(r) == DOMAIN r = Fields /\ r.reg \in Regs /\ r.receiving \in BOOLEAN /\ r.glitches \in Nat

\* An operation that began with r ends with x.
Ends(r, x) == IsRadio(x.r) /\ x.ok \in BOOLEAN /\ x.r.glitches <= r.glitches
\* No command failed in it.
Intact(r, x) == x.r.glitches = r.glitches

\* The registers are those of p, and so is a frame in the buffer.
Tuned(r, p) == r.reg = Reg(Freq(p), p, p) /\ ("done" \in r.irq => r.buf = p)
\* The tuning of r is that of q.
StaysTuned(r, q) == q.reg = r.reg /\ ((q.irq = r.irq /\ q.buf = r.buf) \/ q.irq = {})

LEMMA TunedOn == ASSUME NEW r, NEW q, NEW p, StaysTuned(r, q), Tuned(r, p) PROVE Tuned(q, p)
BY DEF StaysTuned, Tuned

LEMMA TunedOnOn == ASSUME NEW r, NEW q, NEW s, StaysTuned(r, q), StaysTuned(q, s) PROVE StaysTuned(r, s)
BY DEF StaysTuned

LEMMA TrailIs ==
    ASSUME NEW t, NEW x \in Trail(t)
    PROVE  x = Result(TRUE, None, t[Len(t)]) \/ \E i \in 1 .. Len(t) - 1 : t[i].glitches > 0 /\ x = Failed(t[i])
BY Zenon DEF Trail

\* All states of a trail have the failures still to come of the first one.
Along(t, r) == Len(t) \in Nat \ {0} /\ \A i \in 1 .. Len(t) : IsRadio(t[i]) /\ t[i].glitches = r.glitches

LEMMA TrailEnds ==
    ASSUME NEW r, IsRadio(r), NEW t, Along(t, r), NEW x \in Trail(t)
    PROVE  Ends(r, x) /\ (Intact(r, x) => x = Result(TRUE, None, t[Len(t)]))
<1>1. CASE x = Result(TRUE, None, t[Len(t)])
    <2>1. Len(t) \in 1 .. Len(t)
        BY SMTT(15) DEF Along
    <2>2. x.r = t[Len(t)] /\ x.ok = TRUE
        BY <1>1 DEF Result
    <2>3. r.glitches <= r.glitches
        BY SMTT(15) DEF IsRadio
    <2> QED BY <1>1, <2>1, <2>2, <2>3 DEF Ends, Along
<1>2. CASE \E i \in 1 .. Len(t) - 1 : t[i].glitches > 0 /\ x = Failed(t[i])
    <2>1. PICK i \in 1 .. Len(t) - 1 : t[i].glitches > 0 /\ x = Failed(t[i])
        BY <1>2
    <2>2. i \in 1 .. Len(t)
        BY SMTT(15) DEF Along
    <2> DEFINE s == t[i]
               q == [s EXCEPT !.glitches = @ - 1]
    <2>3. IsRadio(s) /\ s.glitches = r.glitches /\ s.glitches > 0
        BY <2>1, <2>2 DEF Along
    <2>4. x.r = q /\ x.ok = FALSE
        BY <2>1 DEF Failed, Result
    <2> HIDE DEF s
    <2>5. DOMAIN q = Fields /\ q.reg = s.reg /\ q.receiving = s.receiving /\ q.glitches = s.glitches - 1
        BY <2>3, SMTT(15) DEF IsRadio, Fields
    <2> HIDE DEF q
    <2>6. IsRadio(q) /\ q.glitches <= r.glitches /\ q.glitches # r.glitches
        BY <2>3, <2>5, SMTT(15) DEF IsRadio
    <2> QED BY <2>4, <2>6 DEF Ends, Intact
<1> QED BY <1>1, <1>2, TrailIs

Like(r, q) == IsRadio(q) /\ q.glitches = r.glitches

LEMMA Along1 == ASSUME NEW r, Like(r, r) PROVE Along(<<r>>, r) /\ <<r>>[Len(<<r>>)] = r
<1> DEFINE t == <<r>>
<1>1. Len(t) = 1 /\ t[1] = r
    BY SMTT(15)
<1> HIDE DEF t
<1>2. Along(t, r) /\ t[Len(t)] = r
    BY <1>1, SMTT(15) DEF Along, Like
<1> QED BY <1>2 DEF t

LEMMA Along3 == ASSUME NEW r, NEW a, NEW b, NEW c, Like(r, a), Like(r, b), Like(r, c)
                PROVE  LET t == <<a, b, c>> IN Along(t, r) /\ t[Len(t)] = c
<1> DEFINE t == <<a, b, c>>
<1>1. Len(t) = 3 /\ t[1] = a /\ t[2] = b /\ t[3] = c
    BY SMTT(15)
<1> HIDE DEF t
<1>2. Along(t, r) /\ t[Len(t)] = c
    BY <1>1, SMTT(15) DEF Along, Like
<1> QED BY <1>2 DEF t

LEMMA Along4 == ASSUME NEW r, NEW a, NEW b, NEW c, NEW d, Like(r, a), Like(r, b), Like(r, c), Like(r, d)
                PROVE  LET t == <<a, b, c, d>> IN Along(t, r) /\ t[Len(t)] = d
<1> DEFINE t == <<a, b, c, d>>
<1>1. Len(t) = 4 /\ t[1] = a /\ t[2] = b /\ t[3] = c /\ t[4] = d
    BY SMTT(15)
<1> HIDE DEF t
<1>2. Along(t, r) /\ t[Len(t)] = d
    BY <1>1, SMTT(15) DEF Along, Like
<1> QED BY <1>2 DEF t

LEMMA Along7 == ASSUME NEW r, NEW a, NEW b, NEW c, NEW d, NEW e, NEW f, NEW g, Like(r, a), Like(r, b), Like(r, c),
                       Like(r, d), Like(r, e), Like(r, f), Like(r, g)
                PROVE  LET t == <<a, b, c, d, e, f, g>> IN Along(t, r) /\ t[Len(t)] = g
<1> DEFINE t == <<a, b, c, d, e, f, g>>
<1>1. Len(t) = 7 /\ t[1] = a /\ t[2] = b /\ t[3] = c /\ t[4] = d /\ t[5] = e /\ t[6] = f /\ t[7] = g
    BY SMTT(15)
<1> HIDE DEF t
<1>2. Along(t, r) /\ t[Len(t)] = g
    BY <1>1, SMTT(15) DEF Along, Like
<1> QED BY <1>2 DEF t

LEMMA Along8 == ASSUME NEW r, NEW a, NEW b, NEW c, NEW d, NEW e, NEW f, NEW g, NEW h, Like(r, a), Like(r, b), Like(r, c),
                       Like(r, d), Like(r, e), Like(r, f), Like(r, g), Like(r, h)
                PROVE  LET t == <<a, b, c, d, e, f, g, h>> IN Along(t, r) /\ t[Len(t)] = h
<1> DEFINE t == <<a, b, c, d, e, f, g, h>>
<1>1. Len(t) = 8 /\ t[1] = a /\ t[2] = b /\ t[3] = c /\ t[4] = d /\ t[5] = e /\ t[6] = f /\ t[7] = g /\ t[8] = h
    BY SMTT(15)
<1> HIDE DEF t
<1>2. Along(t, r) /\ t[Len(t)] = h
    BY <1>1, SMTT(15) DEF Along, Like
<1> QED BY <1>2 DEF t

LEMMA StandbyIs ==
    ASSUME NEW r, IsRadio(r)
    PROVE  /\ Like(r, Standby(r)) /\ Standby(r).reg = r.reg /\ Standby(r).irq = r.irq /\ Standby(r).buf = r.buf
           /\ Like(r, Clear(r)) /\ Clear(r).reg = r.reg /\ Clear(r).irq = {} /\ Clear(r).receiving = r.receiving
BY SMTT(15) DEF IsRadio, Like, Fields, Standby, Clear

LEMMA Configured ==
    ASSUME NEW r, IsRadio(r), NEW p \in Profiles, NEW x \in configure(r, p)
    PROVE  /\ Ends(r, x)
           /\ Intact(r, x) => x.ok = TRUE /\ x.r.receiving = FALSE /\ x.r.reg = Reg(Freq(p), p, p)
<1> DEFINE r1 == [r EXCEPT !.profile = p]
           r2 == Standby(r1)
           r3 == [r2 EXCEPT !.reg.freq = Freq(p)]
           r4 == [r3 EXCEPT !.rf = Freq(p)]
           r5 == [r4 EXCEPT !.reg.modem = p]
           r6 == [r5 EXCEPT !.reg.sync = p]
           r7 == [r6 EXCEPT !.receiving = FALSE]
<1>0. x \in Trail(<<r1, r2, r3, r4, r5, r6, r7>>)
    BY DEF configure
<1>1. Like(r, r1)
    BY SMTT(15) DEF IsRadio, Like, Fields
<1> HIDE DEF r1
<1>2. Like(r, r2)
    BY <1>1, StandbyIs DEF Like
<1> HIDE DEF r2
<1>3. Like(r, r3) /\ r3.reg.freq = Freq(p)
    BY <1>2, SMTT(15) DEF IsRadio, Like, Fields, Regs
<1> HIDE DEF r3
<1>4. Like(r, r4) /\ r4.reg.freq = Freq(p)
    BY <1>3, SMTT(15) DEF IsRadio, Like, Fields, Regs
<1> HIDE DEF r4
<1>5. Like(r, r5) /\ r5.reg.freq = Freq(p) /\ r5.reg.modem = p
    BY <1>4, SMTT(15) DEF IsRadio, Like, Fields, Regs
<1> HIDE DEF r5
<1>6. Like(r, r6) /\ r6.reg.freq = Freq(p) /\ r6.reg.modem = p /\ r6.reg.sync = p
    BY <1>5, SMTT(15) DEF IsRadio, Like, Fields, Regs
<1> HIDE DEF r6
<1>7. Like(r, r7) /\ r7.reg = r6.reg /\ r7.receiving = FALSE
    BY <1>6, SMTT(15) DEF IsRadio, Like, Fields
<1>8. r6.reg = Reg(Freq(p), p, p)
    BY <1>6, SMTT(15) DEF IsRadio, Like, Regs, Reg
<1> HIDE DEF r7
<1> DEFINE t == <<r1, r2, r3, r4, r5, r6, r7>>
<1>9. Along(t, r) /\ t[Len(t)] = r7
    BY <1>1, <1>2, <1>3, <1>4, <1>5, <1>6, <1>7, Along7
<1> HIDE DEF t
<1>10. Ends(r, x) /\ (Intact(r, x) => x = Result(TRUE, None, r7))
    BY <1>0, <1>9, TrailEnds DEF t
<1> QED BY <1>7, <1>8, <1>10 DEF Result

LEMMA Started ==
    ASSUME NEW r, IsRadio(r), NEW x \in start_receive(r)
    PROVE  /\ Ends(r, x)
           /\ Intact(r, x) => x.ok = TRUE /\ StaysTuned(r, x.r) /\ (r.receiving = FALSE => x.r.irq = {})
<1>0. Like(r, r)
    BY DEF Like
<1>1. CASE r.receiving
    <2>1. x \in Trail(<<r>>)
        BY <1>1 DEF start_receive
    <2>2. Ends(r, x) /\ (Intact(r, x) => x = Result(TRUE, None, r))
        BY <1>0, <2>1, Along1, TrailEnds
    <2> QED BY <1>1, <2>2 DEF Result, StaysTuned
<1>2. CASE ~r.receiving
    <2> DEFINE r1 == Clear(r)
               r2 == [r1 EXCEPT !.mode = "rx"]
               r3 == [r2 EXCEPT !.receiving = TRUE, !.rx_active = FALSE, !.preamble_seen = FALSE]
    <2>1. x \in Trail(<<r, r1, r2, r3>>)
        BY <1>2 DEF start_receive
    <2>2. Like(r, r1) /\ r1.irq = {} /\ r1.reg = r.reg
        BY StandbyIs
    <2> HIDE DEF r1
    <2>3. Like(r, r2) /\ r2.irq = {} /\ r2.reg = r.reg
        BY <2>2, SMTT(15) DEF IsRadio, Like, Fields
    <2> HIDE DEF r2
    <2>4. Like(r, r3) /\ r3.irq = {} /\ r3.reg = r.reg
        BY <2>3, SMTT(15) DEF IsRadio, Like, Fields
    <2> HIDE DEF r3
    <2> DEFINE t == <<r, r1, r2, r3>>
    <2>5. Along(t, r) /\ t[Len(t)] = r3
        BY <1>0, <2>2, <2>3, <2>4, Along4
    <2> HIDE DEF t
    <2>6. Ends(r, x) /\ (Intact(r, x) => x = Result(TRUE, None, r3))
        BY <2>1, <2>5, TrailEnds DEF t
    <2> QED BY <2>4, <2>6 DEF Result, StaysTuned
<1> QED BY <1>1, <1>2

\* One operation after another.
LEMMA EndsThen ==
    ASSUME NEW r, IsRadio(r), NEW x, Ends(r, x), NEW y, Ends(x.r, y)
    PROVE  Ends(r, y) /\ (Intact(r, y) => Intact(r, x) /\ Intact(x.r, y))
BY SMTT(15) DEF Ends, Intact, IsRadio

LEMMA Retuned ==
    ASSUME NEW r, IsRadio(r), NEW p \in Profiles, NEW x \in retune(r, p)
    PROVE  Ends(r, x) /\ (Intact(r, x) => x.ok = TRUE /\ Tuned(x.r, p))
<1>1. (x \in configure(r, p) /\ ~x.ok) \/ \E y \in configure(r, p) : y.ok /\ x \in start_receive(y.r)
    BY Zenon DEF retune, AndThen
<1>2. CASE x \in configure(r, p) /\ ~x.ok
    BY <1>2, Configured
<1>3. CASE \E y \in configure(r, p) : y.ok /\ x \in start_receive(y.r)
    <2>1. PICK y \in configure(r, p) : y.ok /\ x \in start_receive(y.r)
        BY <1>3
    <2>2. Ends(r, y) /\ IsRadio(y.r)
        BY Configured DEF Ends
    <2>3. Ends(y.r, x)
        BY <2>1, <2>2, Started
    <2>4. Ends(r, x) /\ (Intact(r, x) => Intact(r, y) /\ Intact(y.r, x))
        BY <2>2, <2>3, EndsThen
    <2>5. ASSUME Intact(r, x) PROVE x.ok = TRUE /\ Tuned(x.r, p)
        <3>1. y.r.receiving = FALSE /\ y.r.reg = Reg(Freq(p), p, p)
            BY <2>4, <2>5, Configured
        <3>2. x.ok = TRUE /\ StaysTuned(y.r, x.r) /\ x.r.irq = {}
            BY <2>1, <2>2, <2>4, <2>5, <3>1, Started
        <3> QED BY <3>1, <3>2 DEF Tuned, StaysTuned
    <2> QED BY <2>4, <2>5
<1> QED BY <1>1, <1>2, <1>3

\* The states of transmit and of the CAD of channel_busy.
LEMMA Interrupted ==
    ASSUME NEW r, IsRadio(r)
    PROVE  LET r1 == Standby(r)
               r2 == [r1 EXCEPT !.receiving = FALSE]
           IN  /\ Like(r, r) /\ Like(r, r1) /\ Like(r, r2) /\ Like(r, Clear(r2))
               /\ StaysTuned(r, Clear(r2)) /\ Clear(r2).receiving = FALSE
<1> DEFINE r1 == Standby(r)
           r2 == [r1 EXCEPT !.receiving = FALSE]
<1>1. Like(r, r) /\ Like(r, r1) /\ r1.reg = r.reg
    BY StandbyIs DEF Like
<1> HIDE DEF r1
<1>2. Like(r, r2) /\ r2.reg = r.reg /\ r2.receiving = FALSE
    BY <1>1, SMTT(15) DEF IsRadio, Like, Fields
<1> HIDE DEF r2
<1>3. Like(r2, Clear(r2)) /\ Clear(r2).reg = r.reg /\ Clear(r2).irq = {} /\ Clear(r2).receiving = FALSE
    BY <1>2, StandbyIs DEF Like
<1>4. Like(r, Clear(r2)) /\ StaysTuned(r, Clear(r2))
    BY <1>2, <1>3 DEF Like, StaysTuned
<1> QED BY <1>1, <1>2, <1>3, <1>4 DEF r1, r2

LEMMA Interrupts ==
    ASSUME NEW r, IsRadio(r),
           NEW x \in LET r1 == Standby(r)
                         r2 == [r1 EXCEPT !.receiving = FALSE]
                     IN  Trail(<<r, r1, r2, Clear(r2)>>)
    PROVE  Ends(r, x) /\ (Intact(r, x) => x.ok = TRUE /\ StaysTuned(r, x.r))
<1> DEFINE r1 == Standby(r)
           r2 == [r1 EXCEPT !.receiving = FALSE]
           r3 == Clear(r2)
<1>1. x \in Trail(<<r, r1, r2, r3>>)
    OBVIOUS
<1>2. Like(r, r) /\ Like(r, r1) /\ Like(r, r2) /\ Like(r, r3) /\ StaysTuned(r, r3)
    BY Interrupted
<1> HIDE DEF r1, r2, r3
<1> DEFINE t == <<r, r1, r2, r3>>
<1>3. Along(t, r) /\ t[Len(t)] = r3
    BY <1>2, Along4
<1> HIDE DEF t
<1>4. Ends(r, x) /\ (Intact(r, x) => x = Result(TRUE, None, r3))
    BY <1>1, <1>3, TrailEnds DEF t
<1> QED BY <1>2, <1>4, SMTT(15) DEF Result

LEMMA Transmitted ==
    ASSUME NEW r, IsRadio(r), NEW x \in transmit(r)
    PROVE  Ends(r, x) /\ (Intact(r, x) => x.ok = TRUE /\ StaysTuned(r, x.r))
BY Interrupts DEF transmit

LEMMA Listened ==
    ASSUME NEW r, IsRadio(r), NEW x \in channel_busy(r)
    PROVE  Ends(r, x) /\ (Intact(r, x) => StaysTuned(r, x.r))
<1> DEFINE cad == LET r1 == Standby(r)
                      r2 == [r1 EXCEPT !.receiving = FALSE]
                  IN  Trail(<<r, r1, r2, Clear(r2)>>)
<1>1. x \in Trail(<<r>>) \/ (x \in cad /\ ~x.ok) \/ \E y \in cad : y.ok /\ x \in start_receive(y.r)
    BY Zenon DEF channel_busy, AndThen
<1>2. ASSUME NEW y \in cad PROVE Ends(r, y) /\ (Intact(r, y) => StaysTuned(r, y.r))
    BY Interrupts
<1> HIDE DEF cad
<1>3. CASE x \in Trail(<<r>>)
    <2>1. Ends(r, x) /\ (Intact(r, x) => x = Result(TRUE, None, r))
        BY <1>3, Along1, TrailEnds DEF Like
    <2> QED BY <2>1, SMTT(15) DEF Result, StaysTuned
<1>4. CASE \E y \in cad : y.ok /\ x \in start_receive(y.r)
    <2>1. PICK y \in cad : y.ok /\ x \in start_receive(y.r)
        BY <1>4
    <2>2. Ends(r, y) /\ IsRadio(y.r)
        BY <1>2 DEF Ends
    <2>3. Ends(y.r, x) /\ (Intact(y.r, x) => StaysTuned(y.r, x.r))
        BY <2>1, <2>2, Started
    <2>4. Ends(r, x) /\ (Intact(r, x) => Intact(r, y) /\ Intact(y.r, x))
        BY <2>2, <2>3, EndsThen
    <2> QED BY <1>2, <2>3, <2>4, TunedOnOn
<1> QED BY <1>1, <1>2, <1>3, <1>4

LEMMA Probed ==
    ASSUME NEW r, IsRadio(r), NEW p \in Profiles, NEW x \in cad_probe_symbols(r, p)
    PROVE  Ends(r, x)
<1> DEFINE r1 == Standby(r)
           r2 == [r1 EXCEPT !.receiving = FALSE]
           r3 == IF Freq(p) = r2.rf THEN r2 ELSE [r2 EXCEPT !.reg.freq = Freq(p)]
           r4 == [r3 EXCEPT !.rf = Freq(p)]
           r5 == [r4 EXCEPT !.reg.modem = p]
           r6 == [r5 EXCEPT !.reg.sync = p]
           r7 == Clear(r6)
<1>0. x \in Trail(<<r, r1, r2, r3, r4, r5, r6, r7>>)
    BY DEF cad_probe_symbols
<1>1. Like(r, r) /\ Like(r, r1)
    BY StandbyIs DEF Like
<1> HIDE DEF r1
<1>2. Like(r, r2)
    BY <1>1, SMTT(15) DEF IsRadio, Like, Fields
<1> HIDE DEF r2
<1>3. Like(r, r3)
    <2>1. Like(r, [r2 EXCEPT !.reg.freq = Freq(p)])
        BY <1>2, SMTT(15) DEF IsRadio, Like, Fields, Regs
    <2> QED BY <1>2, <2>1
<1> HIDE DEF r3
<1>4. Like(r, r4)
    BY <1>3, SMTT(15) DEF IsRadio, Like, Fields
<1> HIDE DEF r4
<1>5. Like(r, r5)
    BY <1>4, SMTT(15) DEF IsRadio, Like, Fields, Regs
<1> HIDE DEF r5
<1>6. Like(r, r6)
    BY <1>5, SMTT(15) DEF IsRadio, Like, Fields, Regs
<1> HIDE DEF r6
<1>7. Like(r, r7)
    BY <1>6, StandbyIs DEF Like
<1> HIDE DEF r7
<1> DEFINE t == <<r, r1, r2, r3, r4, r5, r6, r7>>
<1>8. Along(t, r)
    BY <1>1, <1>2, <1>3, <1>4, <1>5, <1>6, <1>7, Along8
<1> HIDE DEF t
<1> QED BY <1>0, <1>8, TrailEnds DEF t

\* A trail of three states, the last of which has no flag up.
LEMMA Cleared ==
    ASSUME NEW r, IsRadio(r), NEW a, NEW b, Like(r, a), Like(r, b), StaysTuned(r, b), NEW x \in Trail(<<r, a, b>>)
    PROVE  Ends(r, x) /\ (Intact(r, x) => StaysTuned(r, x.r))
<1> DEFINE t == <<r, a, b>>
<1>1. Along(t, r) /\ t[Len(t)] = b
    BY Along3 DEF Like
<1> HIDE DEF t
<1>2. Ends(r, x) /\ (Intact(r, x) => x = Result(TRUE, None, b))
    BY <1>1, TrailEnds DEF t
<1> QED BY <1>2, SMTT(15) DEF Result

LEMMA PolledError ==
    ASSUME NEW r, IsRadio(r), NEW x \in ReadError(r)
    PROVE  Ends(r, x) /\ (Intact(r, x) => StaysTuned(r, x.r))
<1> DEFINE a == Clear(r)
           b == [a EXCEPT !.rx_active = FALSE]
<1>1. PICK y \in Trail(<<r, a, b>>) : x = Result(FALSE, None, y.r)
    BY DEF ReadError
<1>2. Like(r, a) /\ a.irq = {} /\ a.reg = r.reg
    BY StandbyIs
<1> HIDE DEF a
<1>3. Like(r, b) /\ b.irq = {} /\ b.reg = r.reg
    BY <1>2, SMTT(15) DEF IsRadio, Like, Fields
<1> HIDE DEF b
<1>4. Ends(r, y) /\ (Intact(r, y) => StaysTuned(r, y.r))
    BY <1>2, <1>3, Cleared DEF StaysTuned
<1>5. x.r = y.r /\ x.ok = FALSE
    BY <1>1 DEF Result
<1> QED BY <1>4, <1>5 DEF Ends, Intact

LEMMA PolledProgress ==
    ASSUME NEW r, IsRadio(r), NEW x \in ReadProgress(r)
    PROVE  Ends(r, x) /\ (Intact(r, x) => StaysTuned(r, x.r))
<1> DEFINE a == [r EXCEPT !.rx_active = @ \/ "header" \in r.irq,
                          !.preamble_seen = @ \/ "preamble" \in r.irq]
           b == Clear(a)
<1>1. x \in Trail(<<r, a, b>>)
    BY DEF ReadProgress
<1>2. Like(r, a) /\ a.reg = r.reg
    BY SMTT(15) DEF IsRadio, Like, Fields
<1> HIDE DEF a
<1>3. Like(r, b) /\ b.irq = {} /\ b.reg = r.reg
    BY <1>2, StandbyIs DEF Like
<1> HIDE DEF b
<1> QED BY <1>1, <1>2, <1>3, Cleared DEF StaysTuned

LEMMA PolledFrame ==
    ASSUME NEW r, IsRadio(r), NEW x \in ReadFrame(r)
    PROVE  Ends(r, x) /\ (Intact(r, x) => StaysTuned(r, x.r))
<1> DEFINE a == [r EXCEPT !.rx_active = FALSE]
           b == Clear(a)
<1>1. PICK y \in Trail(<<r, a, b>>) : x = IF y.ok THEN Result(TRUE, r.buf, y.r) ELSE y
    BY DEF ReadFrame
<1>2. Like(r, a) /\ a.reg = r.reg
    BY SMTT(15) DEF IsRadio, Like, Fields
<1> HIDE DEF a
<1>3. Like(r, b) /\ b.irq = {} /\ b.reg = r.reg
    BY <1>2, StandbyIs DEF Like
<1> HIDE DEF b
<1>4. Ends(r, y) /\ (Intact(r, y) => StaysTuned(r, y.r))
    BY <1>2, <1>3, Cleared DEF StaysTuned
<1>5. x.r = y.r /\ x.ok = y.ok
    <2>1. CASE y.ok = TRUE
        BY <1>1, <2>1 DEF Result
    <2>2. CASE y.ok = FALSE
        BY <1>1, <2>2
    <2> QED BY <1>4, <2>1, <2>2 DEF Ends
<1> QED BY <1>4, <1>5 DEF Ends, Intact

LEMMA Received ==
    ASSUME NEW r, IsRadio(r), NEW x \in receive(r)
    PROVE  Ends(r, x) /\ (Intact(r, x) => StaysTuned(r, x.r))
<1> DEFINE Poll1(q) == CASE q.irq = {} -> {Result(TRUE, None, q)}
                         [] "error" \in q.irq -> ReadError(q)
                         [] q.irq # {} /\ q.irq \cap {"error", "done"} = {} -> ReadProgress(q)
                         [] OTHER -> ReadFrame(q)
           first == IF r.receiving THEN {Result(TRUE, None, r)} ELSE start_receive(r)
<1>1. (x \in first /\ ~x.ok) \/ \E y \in first : y.ok /\ x \in Poll1(y.r)
    BY Zenon DEF receive, AndThen
<1>2. ASSUME NEW q, IsRadio(q), NEW y \in Poll1(q) PROVE Ends(q, y) /\ (Intact(q, y) => StaysTuned(q, y.r))
    <2>1. y = Result(TRUE, None, q) \/ y \in ReadError(q) \/ y \in ReadProgress(q) \/ y \in ReadFrame(q)
        BY <1>2
    <2>2. CASE y = Result(TRUE, None, q)
        <3>1. y.r = q /\ y.ok = TRUE /\ q.glitches <= q.glitches
            BY <1>2, <2>2, SMTT(15) DEF Result, IsRadio
        <3> QED BY <1>2, <3>1 DEF Ends, StaysTuned
    <2> QED BY <1>2, <2>1, <2>2, PolledError, PolledProgress, PolledFrame
<1>3. ASSUME NEW y \in first PROVE Ends(r, y) /\ (Intact(r, y) => StaysTuned(r, y.r))
    <2>1. CASE y = Result(TRUE, None, r)
        <3>1. y.r = r /\ y.ok = TRUE /\ r.glitches <= r.glitches
            BY <2>1, SMTT(15) DEF Result, IsRadio
        <3> QED BY <3>1 DEF Ends, StaysTuned
    <2>2. CASE y \in start_receive(r)
        BY <2>2, Started
    <2> QED BY <2>1, <2>2
<1> HIDE DEF first, Poll1
<1>4. CASE \E y \in first : y.ok /\ x \in Poll1(y.r)
    <2>1. PICK y \in first : y.ok /\ x \in Poll1(y.r)
        BY <1>4
    <2>2. Ends(r, y) /\ IsRadio(y.r)
        BY <1>3 DEF Ends
    <2>3. Ends(y.r, x) /\ (Intact(y.r, x) => StaysTuned(y.r, x.r))
        BY <1>2, <2>1, <2>2
    <2>4. Ends(r, x) /\ (Intact(r, x) => Intact(r, y) /\ Intact(y.r, x))
        BY <2>2, <2>3, EndsThen
    <2> QED BY <1>3, <2>3, <2>4, TunedOnOn
<1> QED BY <1>1, <1>3, <1>4

\* The end of a sweep.
LEMMA TunedBack ==
    ASSUME NEW r, IsRadio(r), NEW x \in TuneBack(r)
    PROVE  Ends(r, x) /\ (Intact(r, x) => Tuned(x.r, Native))
<1>0. Native \in Profiles
    BY DeviceAssumption DEF Native
<1>1. x \in retune(r, Native) \/ \E y \in retune(r, Native) : x \in retune(y.r, Native)
    BY Zenon DEF TuneBack
<1>2. CASE x \in retune(r, Native)
    BY <1>0, <1>2, Retuned
<1>3. CASE \E y \in retune(r, Native) : x \in retune(y.r, Native)
    <2>1. PICK y \in retune(r, Native) : x \in retune(y.r, Native)
        BY <1>3
    <2>2. Ends(r, y) /\ IsRadio(y.r)
        BY <1>0, Retuned DEF Ends
    <2>3. Ends(y.r, x) /\ (Intact(y.r, x) => Tuned(x.r, Native))
        BY <1>0, <2>1, <2>2, Retuned
    <2> QED BY <2>2, <2>3, EndsThen
<1> QED BY <1>1, <1>2, <1>3

\* Transmit and listen again.
LEMMA SentAndListens ==
    ASSUME NEW r, IsRadio(r), NEW x \in Regardless(transmit(r), start_receive)
    PROVE  Ends(r, x) /\ (Intact(r, x) => StaysTuned(r, x.r))
<1>1. PICK y \in transmit(r) : x \in start_receive(y.r)
    BY Zenon DEF Regardless
<1>2. Ends(r, y) /\ IsRadio(y.r) /\ (Intact(r, y) => StaysTuned(r, y.r))
    BY Transmitted DEF Ends
<1>3. Ends(y.r, x) /\ (Intact(y.r, x) => StaysTuned(y.r, x.r))
    BY <1>1, <1>2, Started
<1>4. Ends(r, x) /\ (Intact(r, x) => Intact(r, y) /\ Intact(y.r, x))
    BY <1>2, <1>3, EndsThen
<1> QED BY <1>2, <1>3, <1>4, TunedOnOn

\* The probes of a sweep.
LEMMA ProbedBoth ==
    ASSUME NEW r, IsRadio(r), NEW x \in AndThen(Probe(r, Foreign[1]), LAMBDA q : Probe(q, Foreign[2]))
    PROVE  Ends(r, x)
<1>0. Foreign[1] \in Profiles /\ Foreign[2] \in Profiles
    BY DeviceAssumption DEF Foreign
<1>1. x \in Probe(r, Foreign[1]) \/ \E y \in Probe(r, Foreign[1]) : x \in Probe(y.r, Foreign[2])
    BY Zenon DEF AndThen
<1>2. CASE x \in Probe(r, Foreign[1])
    BY <1>0, <1>2, Probed DEF Probe
<1>3. CASE \E y \in Probe(r, Foreign[1]) : x \in Probe(y.r, Foreign[2])
    <2>1. PICK y \in Probe(r, Foreign[1]) : x \in Probe(y.r, Foreign[2])
        BY <1>3
    <2>2. Ends(r, y) /\ IsRadio(y.r)
        BY <1>0, Probed DEF Probe, Ends
    <2>3. Ends(y.r, x)
        BY <1>0, <2>1, <2>2, Probed DEF Probe
    <2> QED BY <2>2, <2>3, EndsThen
<1> QED BY <1>1, <1>2, <1>3

LEMMA NewRadioIs ==
    ASSUME NEW g \in Nat
    PROVE  IsRadio(NewRadio(Native, g)) /\ NewRadio(Native, g).glitches = g
BY SMTT(15) DEF NewRadio, IsRadio, Fields, Regs, Reg

LEMMA BootedIs ==
    ASSUME NEW g \in Nat, NEW m \in Modes, NEW x \in Booted(m, g)
    PROVE  /\ IsRadio(x.r) /\ x.r.glitches <= g
           /\ x.r.glitches = g => Tuned(x.r, IF CompatMode(m) = None THEN Native ELSE CompatMode(m))
<1> DEFINE r == NewRadio(Native, g)
           native == {y \in retune(r, Native) : y.ok}
<1>0. Native \in Profiles /\ (CompatMode(m) = None \/ CompatMode(m) \in Profiles)
    BY DeviceAssumption DEF Native, CompatMode
<1>1. IsRadio(r) /\ r.glitches = g
    BY NewRadioIs
<1> HIDE DEF r
<1>2. ASSUME NEW y \in native PROVE Ends(r, y) /\ IsRadio(y.r) /\ (Intact(r, y) => Tuned(y.r, Native))
    BY <1>0, <1>1, Retuned DEF Ends
<1>3. CASE CompatMode(m) = None
    <2>1. x \in native
        BY <1>3 DEF Booted, r
    <2> QED BY <1>1, <1>2, <1>3, <2>1 DEF Ends, Intact
<1>4. CASE CompatMode(m) # None
    <2>1. PICK y \in native : x \in retune(y.r, CompatMode(m))
        BY <1>4, Zenon DEF Booted, Regardless, r
    <2>2. Ends(r, y) /\ IsRadio(y.r)
        BY <1>2
    <2>3. Ends(y.r, x) /\ (Intact(y.r, x) => Tuned(x.r, CompatMode(m)))
        BY <1>0, <1>4, <2>1, <2>2, Retuned
    <2>4. Ends(r, x) /\ (Intact(r, x) => Intact(y.r, x))
        BY <1>1, <2>2, <2>3, EndsThen
    <2> QED BY <1>1, <1>4, <2>3, <2>4 DEF Ends, Intact
<1> QED BY <1>3, <1>4

-----------------------------------------------------------------------------
(* The main loop.                                                          *)

FwFields == {"mode", "scan", "mt_dwell", "dwell", "astray", "sinceDwell", "sinceScan", "sinceHeard", "active"}
IsFirmware(f) ==
    /\ DOMAIN f = FwFields
    /\ f.mode \in {None, "meshcore", "meshtastic"}
    /\ f.astray \in BOOLEAN
    /\ f.dwell \in Nat \cup {None}

Hunts == {Foreign, <<"meshcore", "meshtastic">>, <<"meshcore">>, <<"meshtastic">>}

\* What the next section takes the radio for.
Expected ==
    IF pc = "hunt" THEN Head(hunt)
    ELSE IF fw.dwell # None THEN Foreign[1] ELSE Wanted(fw)

\* The inductive invariant.
Inv ==
    /\ IsRadio(radio) /\ radio.glitches <= Glitches
    /\ IsFirmware(fw)
    /\ pc \in {"top", "sweep", "hunt", "receive", "transmit"}
    /\ pc = "hunt" => fw.mode = None /\ hunt \in Hunts
    /\ ~fw.astray => (pc # "top" => fw.dwell = None) /\ (Sound => Tuned(radio, Expected))

LEMMA Networks ==
    /\ Native \in Profiles /\ Foreign[1] \in Profiles /\ Foreign[2] \in Profiles
    /\ Foreign[1] = "meshtastic" /\ Foreign[2] = "meshcore"
    /\ \A h \in Hunts : Head(h) \in Profiles /\ (Len(h) # 1 => Tail(h) \in Hunts)
    /\ Foreign \in Hunts /\ <<Foreign[2], Foreign[1]>> \in Hunts
    /\ Head(Foreign) = Foreign[1] /\ Head(<<Foreign[2], Foreign[1]>>) = Foreign[2]
<1>1. Native \in Profiles /\ Foreign[1] = "meshtastic" /\ Foreign[2] = "meshcore"
    BY DeviceAssumption DEF Native, Foreign
<1>2. {"meshtastic", "meshcore"} \subseteq Profiles
    BY DeviceAssumption
<1>3. \A h \in Hunts : Head(h) \in Profiles /\ (Len(h) # 1 => Tail(h) \in Hunts)
    <2>1. ASSUME NEW h, h = <<"meshtastic", "meshcore">> PROVE Head(h) = "meshtastic" /\ Tail(h) = <<"meshcore">>
        BY <2>1, SMTT(15)
    <2>2. ASSUME NEW h, h = <<"meshcore", "meshtastic">> PROVE Head(h) = "meshcore" /\ Tail(h) = <<"meshtastic">>
        BY <2>2, SMTT(15)
    <2>3. ASSUME NEW h, h = <<"meshcore">> PROVE Head(h) = "meshcore" /\ Len(h) = 1
        BY <2>3, SMTT(15)
    <2>4. ASSUME NEW h, h = <<"meshtastic">> PROVE Head(h) = "meshtastic" /\ Len(h) = 1
        BY <2>4, SMTT(15)
    <2> QED BY <1>2, <2>1, <2>2, <2>3, <2>4, Zenon DEF Hunts, Foreign
<1>4. Foreign \in Hunts /\ <<Foreign[2], Foreign[1]>> \in Hunts
    BY <1>1 DEF Hunts
<1>5. Head(Foreign) = Foreign[1] /\ Head(<<Foreign[2], Foreign[1]>>) = Foreign[2]
    BY SMTT(15) DEF Foreign
<1> QED BY <1>1, <1>2, <1>3, <1>4, <1>5

LEMMA WantedIs == ASSUME NEW f, IsFirmware(f) PROVE Wanted(f) \in Profiles
BY DeviceAssumption DEF IsFirmware, Wanted, Native

\* A section that ends with x.
LEMMA Follows ==
    ASSUME Inv, NEW x, Ends(radio, x), radio' = x.r
    PROVE  IsRadio(radio)' /\ radio'.glitches <= Glitches /\ (Sound' => Sound /\ Intact(radio, x))
<1>1. Glitches \in Nat
    BY DeviceAssumption
<1> QED BY <1>1, SMTT(15) DEF Inv, Ends, Intact, Sound, IsRadio

\* The tuning back at the end of a sweep.
LEMMA SweepEnds ==
    ASSUME Inv, NEW x, Ends(radio, x), SweepFrom({x}), IsFirmware(fw)', fw'.mode = None,
           ~fw'.astray => fw'.dwell = None
    PROVE  Inv'
<1>1. PICK b \in TuneBack(x.r) : radio' = b.r /\ pc' = "receive"
    BY Zenon DEF SweepFrom
<1>2. IsRadio(x.r) /\ Ends(x.r, b) /\ (Intact(x.r, b) => Tuned(b.r, Native))
    BY TunedBack DEF Ends
<1>3. Ends(radio, b) /\ (Intact(radio, b) => Tuned(b.r, Native))
    BY <1>2, EndsThen DEF Inv
<1>4. IsRadio(radio)' /\ radio'.glitches <= Glitches /\ (Sound' => Tuned(radio', Native))
    BY <1>1, <1>3, Follows
<1>5. ~fw'.astray => Expected' = Native
    BY <1>1 DEF Expected, Wanted
<1> QED BY <1>1, <1>4, <1>5 DEF Inv

\* Locking on the first of profiles.
LEMMA Locks ==
    ASSUME Inv, NEW x, Ends(radio, x), NEW profiles \in Hunts, LockOn(x.r, profiles),
           IsFirmware(fw)', fw'.mode = None, ~fw'.astray => fw'.dwell = None
    PROVE  Inv'
<1>1. PICK y \in retune(x.r, Head(profiles)) :
          IF y.ok THEN radio' = y.r /\ pc' = "hunt" /\ hunt' = profiles ELSE SweepFrom({y})
    BY DEF LockOn
<1>2. IsRadio(x.r) /\ Ends(x.r, y) /\ (Intact(x.r, y) => Tuned(y.r, Head(profiles)))
    BY Networks, Retuned DEF Ends
<1>3. Ends(radio, y) /\ (Intact(radio, y) => Tuned(y.r, Head(profiles)))
    BY <1>2, EndsThen DEF Inv
<1>4. CASE y.ok
    <2>1. radio' = y.r /\ pc' = "hunt" /\ hunt' = profiles
        BY <1>1, <1>4
    <2>2. IsRadio(radio)' /\ radio'.glitches <= Glitches /\ (Sound' => Tuned(radio', Head(profiles)))
        BY <1>3, <2>1, Follows
    <2>3. Expected' = Head(profiles)
        BY <2>1 DEF Expected
    <2> QED BY <2>1, <2>2, <2>3 DEF Inv
<1>5. CASE ~y.ok
    <2>1. SweepFrom({y})
        BY <1>1, <1>5
    <2> QED BY <1>3, <2>1, SweepEnds
<1> QED BY <1>4, <1>5

LEMMA DwellKeeps == Inv /\ Dwell => Inv'
<1> SUFFICES ASSUME Inv, Dwell PROVE Inv'
    OBVIOUS
<1>0. /\ pc = "top" /\ fw.mode = None /\ (fw.dwell # None \/ Opens) /\ IsRadio(radio) /\ IsFirmware(fw)
      /\ DwellTime \in Nat /\ None \notin Nat
    BY DeviceAssumption DEF Dwell, Dwelling, Inv
<1> DEFINE After(x) == [fw EXCEPT !.dwell = WindowLeft,
                                  !.sinceDwell = IF Opens THEN 0 ELSE @,
                                  !.sinceHeard = IF x.got # None THEN 0 ELSE @]
           Pass(x) == IF WindowLeft = 0 /\ ~x.r.rx_active
                      THEN /\ \E c \in retune(x.r, Native) : radio' = c.r
                           /\ fw' = [After(x) EXCEPT !.dwell = None, !.astray = FALSE]
                           /\ pc' = "sweep"
                      ELSE radio' = x.r /\ fw' = After(x) /\ UNCHANGED pc
<1>a. PICK o \in Opened : \E x \in receive(o.r) : Pass(x)
    BY Zenon DEF Dwell
<1>1. PICK x \in receive(o.r) : Pass(x)
    BY <1>a, Zenon
<1>2. /\ Ends(radio, o) /\ IsRadio(o.r)
      /\ Opens => (Intact(radio, o) => Tuned(o.r, Foreign[1]))
      /\ ~Opens => o.r = radio
    <2>1. CASE Opens
        BY <1>0, <2>1, Networks, Retuned DEF Opened, Ends
    <2>2. CASE ~Opens
        <3>1. o = Result(TRUE, None, radio)
            BY <2>2 DEF Opened
        <3>2. o.r = radio /\ o.ok = TRUE /\ radio.glitches <= radio.glitches
            BY <1>0, <3>1, SMTT(15) DEF Result, IsRadio
        <3> QED BY <1>0, <2>2, <3>2 DEF Ends
    <2> QED BY <2>1, <2>2
<1>3. Ends(o.r, x) /\ (Intact(o.r, x) => StaysTuned(o.r, x.r))
    BY <1>2, Received
<1>4. Ends(radio, x) /\ (Intact(radio, x) => Intact(radio, o) /\ Intact(o.r, x)) /\ IsRadio(x.r)
    BY <1>0, <1>2, <1>3, EndsThen DEF Ends
<1> DEFINE f == After(x)
<1>5. WindowLeft \in Nat /\ WindowLeft # None
    <2>1. fw.dwell # None => fw.dwell \in Nat
        BY <1>0 DEF IsFirmware
    <2>2. WindowLeft \in Nat
        BY <1>0, <2>1 DEF WindowLeft
    <2> QED BY <1>0, <2>2
<1>6. DOMAIN f = FwFields /\ f.mode = fw.mode /\ f.astray = fw.astray /\ f.dwell = WindowLeft
    BY <1>0, SMTT(15) DEF IsFirmware, FwFields
<1>7. CASE WindowLeft = 0 /\ ~x.r.rx_active
    <2>1. PICK c \in retune(x.r, Native) : radio' = c.r
        BY <1>1, <1>7
    <2>2. fw' = [f EXCEPT !.dwell = None, !.astray = FALSE] /\ pc' = "sweep"
        BY <1>1, <1>7
    <2> HIDE DEF f
    <2>3. DOMAIN fw' = FwFields /\ fw'.mode = None /\ fw'.astray = FALSE /\ fw'.dwell = None
        BY <1>0, <1>6, <2>2, SMTT(15) DEF FwFields
    <2>4. Ends(x.r, c) /\ (Intact(x.r, c) => Tuned(c.r, Native))
        BY <1>4, <2>1, Networks, Retuned
    <2>5. Ends(radio, c) /\ (Intact(radio, c) => Tuned(c.r, Native))
        BY <1>0, <1>4, <2>4, EndsThen
    <2>6. IsRadio(radio)' /\ radio'.glitches <= Glitches /\ (Sound' => Tuned(radio', Native))
        BY <2>1, <2>5, Follows
    <2>7. Expected' = Native
        BY <2>2, <2>3 DEF Expected, Wanted
    <2>8. IsFirmware(fw)'
        BY <2>3 DEF IsFirmware
    <2> QED BY <2>2, <2>3, <2>6, <2>7, <2>8 DEF Inv
<1>8. CASE ~(WindowLeft = 0 /\ ~x.r.rx_active)
    <2>1. radio' = x.r /\ fw' = f /\ pc' = "top"
        BY <1>0, <1>1, <1>8
    <2>2. IsRadio(radio)' /\ radio'.glitches <= Glitches /\ (Sound' => Sound /\ Intact(radio, x))
        BY <1>4, <2>1, Follows
    <2>3. Expected' = Foreign[1]
        <3>1. fw'.dwell # None
            BY <1>5, <1>6, <2>1
        <3> QED BY <2>1, <3>1 DEF Expected
    <2>4. ASSUME ~fw'.astray, Sound' PROVE Tuned(radio', Foreign[1])
        <3>1. Tuned(o.r, Foreign[1])
            <4>1. CASE Opens
                BY <1>2, <1>4, <2>2, <2>4, <4>1
            <4>2. CASE ~Opens
                <5>1. fw.dwell # None /\ ~fw.astray /\ Sound
                    BY <1>0, <1>6, <2>1, <2>2, <2>4, <4>2
                <5>2. Tuned(radio, Foreign[1])
                    BY <1>0, <5>1 DEF Inv, Expected
                <5> QED BY <1>2, <4>2, <5>2
            <4> QED BY <4>1, <4>2
        <3> QED BY <1>3, <1>4, <2>1, <2>2, <2>4, <3>1, TunedOn
    <2>5. IsFirmware(fw)'
        BY <1>0, <1>5, <1>6, <2>1 DEF IsFirmware
    <2> QED BY <2>1, <2>2, <2>3, <2>4, <2>5 DEF Inv
<1> QED BY <1>7, <1>8

\* The loop's variables past the window.
LEMMA PastIs ==
    ASSUME IsFirmware(fw), NEW f, DOMAIN f = FwFields, f.mode = fw.mode, f.dwell = fw.dwell, f.astray = fw.astray
    PROVE  /\ IsFirmware(Past(f)) /\ Past(f).mode = fw.mode /\ Past(f).dwell = fw.dwell
           /\ ~Past(f).astray => ~fw.astray /\ fw.dwell = None
<1> DEFINE g == [f EXCEPT !.astray = f.astray \/ fw.dwell # None]
<1>1. Past(f) = g
    BY DEF Past
<1>2. DOMAIN g = FwFields /\ g.mode = fw.mode /\ g.dwell = fw.dwell /\ g.astray = (fw.astray \/ fw.dwell # None)
    BY SMTT(15) DEF FwFields
<1> HIDE DEF g
<1>3. IsFirmware(g)
    BY <1>2 DEF IsFirmware
<1> QED BY <1>1, <1>2, <1>3

LEMMA NoSweepKeeps == Inv /\ NoSweep => Inv'
<1> SUFFICES ASSUME Inv, NoSweep PROVE Inv'
    OBVIOUS
<1> DEFINE f == IF SweepDue THEN [fw EXCEPT !.active = Age] ELSE fw
<1>1. fw' = Past(f) /\ pc' = "receive" /\ radio' = radio
    BY DEF NoSweep
<1>2. DOMAIN f = FwFields /\ f.mode = fw.mode /\ f.dwell = fw.dwell /\ f.astray = fw.astray
    BY SMTT(15) DEF Inv, IsFirmware, FwFields
<1> HIDE DEF f
<1>3. /\ IsFirmware(fw)' /\ fw'.mode = fw.mode /\ fw'.dwell = fw.dwell
      /\ ~fw'.astray => ~fw.astray /\ fw.dwell = None
    BY <1>1, <1>2, PastIs DEF Inv
<1>4. pc # "hunt" => (~fw'.astray => Expected' = Expected)
    BY <1>1, <1>3 DEF Expected, Wanted
<1>5. pc # "hunt"
    BY DEF NoSweep, PastWindow
<1> QED BY <1>1, <1>3, <1>4, <1>5 DEF Inv, Sound

\* The sweep starts.
LEMMA SweptIs ==
    ASSUME Inv, SweepDue, fw' = Swept
    PROVE  IsFirmware(fw)' /\ fw'.mode = None /\ (~fw'.astray => fw'.dwell = None)
<1> DEFINE f == [fw EXCEPT !.sinceScan = 0, !.active = IF radio.rx_active THEN Age ELSE None]
<1>1. fw' = Past(f) /\ fw.mode = None
    BY DEF Swept, SweepDue
<1>2. DOMAIN f = FwFields /\ f.mode = fw.mode /\ f.dwell = fw.dwell /\ f.astray = fw.astray
    BY SMTT(15) DEF Inv, IsFirmware, FwFields
<1> HIDE DEF f
<1> QED BY <1>1, <1>2, PastIs DEF Inv

LEMMA ForgottenIs ==
    ASSUME Inv
    PROVE  IsRadio(Forgotten) /\ Forgotten.glitches = radio.glitches
BY SMTT(15) DEF Inv, IsRadio, Fields, Forgotten

LEMMA SweepQuietKeeps == Inv /\ SweepQuiet => Inv'
<1> SUFFICES ASSUME Inv, SweepQuiet PROVE Inv'
    OBVIOUS
<1>1. SweepDue /\ fw' = Swept
    BY DEF SweepQuiet
<1>2. PICK x \in AndThen(Probe(Forgotten, Foreign[1]), LAMBDA r : Probe(r, Foreign[2])) : SweepFrom({x})
    BY Zenon DEF SweepQuiet, SweepFrom
<1>3. Ends(radio, x)
    <2>1. Ends(Forgotten, x)
        BY ForgottenIs, ProbedBoth
    <2> QED BY <2>1, ForgottenIs DEF Ends
<1> QED BY <1>1, <1>2, <1>3, SweptIs, SweepEnds

LEMMA SweepHitKeeps == Inv /\ SweepHit => Inv'
<1> SUFFICES ASSUME Inv, SweepHit PROVE Inv'
    OBVIOUS
<1>1. SweepDue /\ fw' = Swept
    BY DEF SweepHit
<1>2. PICK x : /\ x \in Probe(Forgotten, Foreign[1])
                  \/ x \in AndThen(Probe(Forgotten, Foreign[1]), LAMBDA r : Probe(r, Foreign[2]))
               /\ LockOn(x.r, Foreign) \/ LockOn(x.r, <<Foreign[2], Foreign[1]>>)
    BY Zenon DEF SweepHit
<1>3. Ends(radio, x)
    <2>1. Ends(Forgotten, x)
        BY <1>2, ForgottenIs, ProbedBoth, Probed, Networks DEF Probe
    <2> QED BY <2>1, ForgottenIs DEF Ends
<1>4. CASE LockOn(x.r, Foreign)
    BY <1>1, <1>3, <1>4, SweptIs, Locks, Networks
<1>5. CASE LockOn(x.r, <<Foreign[2], Foreign[1]>>)
    BY <1>1, <1>3, <1>5, SweptIs, Locks, Networks
<1> QED BY <1>2, <1>4, <1>5

\* An operation that did nothing.
LEMMA Nothing == ASSUME NEW r, IsRadio(r) PROVE Ends(r, Result(TRUE, None, r)) /\ Result(TRUE, None, r).r = r
<1> DEFINE x == Result(TRUE, None, r)
<1>1. x.r = r /\ x.ok = TRUE /\ r.glitches <= r.glitches
    BY SMTT(15) DEF Result, IsRadio
<1> HIDE DEF x
<1>2. Ends(r, x)
    BY <1>1 DEF Ends
<1> QED BY <1>1, <1>2 DEF x

\* The hunt goes on with the next profile, or ends.
LEMMA HuntGoesOn ==
    ASSUME Inv, pc = "hunt", NEW x, Ends(radio, x), IsFirmware(fw)', fw'.mode = None, ~fw'.astray => fw'.dwell = None,
           HuntEnds(x.r) \/ (Len(hunt) # 1 /\ LockOn(x.r, Tail(hunt)))
    PROVE  Inv'
<1>1. CASE HuntEnds(x.r)
    <2> DEFINE y == Result(TRUE, None, x.r)
    <2>1. SweepFrom({y})
        BY <1>1 DEF HuntEnds
    <2>2. Ends(radio, y)
        BY Nothing, EndsThen DEF Inv, Ends
    <2> HIDE DEF y
    <2> QED BY <2>1, <2>2, SweepEnds
<1>2. CASE Len(hunt) # 1 /\ LockOn(x.r, Tail(hunt))
    <2>1. Tail(hunt) \in Hunts
        BY <1>2, Networks DEF Inv
    <2> QED BY <1>2, <2>1, Locks
<1> QED BY <1>1, <1>2

LEMMA HuntReadKeeps == Inv /\ HuntRead => Inv'
<1> SUFFICES ASSUME Inv, HuntRead PROVE Inv'
    OBVIOUS
<1>0. pc = "hunt" /\ fw.mode = None /\ IsFirmware(fw) /\ IsRadio(radio) /\ (~fw.astray => fw.dwell = None)
    BY DEF HuntRead, Inv
<1>1. PICK x \in receive(radio) :
          IF x.ok /\ x.got = None
          THEN radio' = x.r /\ UNCHANGED <<pc, hunt, fw>>
          ELSE /\ fw' = IF x.ok /\ Head(hunt) = "meshtastic" THEN [fw EXCEPT !.sinceHeard = 0] ELSE fw
               /\ IF x.ok \/ x.r.preamble_seen \/ x.r.rx_active \/ Len(hunt) = 1
                  THEN HuntEnds(x.r) ELSE LockOn(x.r, Tail(hunt))
    BY Zenon DEF HuntRead
<1>2. Ends(radio, x) /\ (Intact(radio, x) => StaysTuned(radio, x.r))
    BY <1>0, Received
<1>3. CASE x.ok /\ x.got = None
    <2>1. radio' = x.r /\ UNCHANGED <<pc, hunt, fw>>
        BY <1>1, <1>3
    <2>2. IsRadio(radio)' /\ radio'.glitches <= Glitches /\ (Sound' => Sound /\ StaysTuned(radio, radio'))
        BY <1>2, <2>1, Follows
    <2>3. Expected' = Expected
        BY <2>1 DEF Expected, Wanted
    <2> QED BY <2>1, <2>2, <2>3, TunedOn DEF Inv
<1>4. CASE ~(x.ok /\ x.got = None)
    <2>1. fw' = fw \/ fw' = [fw EXCEPT !.sinceHeard = 0]
        BY <1>1, <1>4
    <2>2. DOMAIN fw' = FwFields /\ fw'.mode = fw.mode /\ fw'.dwell = fw.dwell /\ fw'.astray = fw.astray
        BY <1>0, <2>1, SMTT(15) DEF IsFirmware, FwFields
    <2>3. IsFirmware(fw)' /\ fw'.mode = None /\ (~fw'.astray => fw'.dwell = None)
        BY <1>0, <2>2 DEF IsFirmware
    <2>4. HuntEnds(x.r) \/ (Len(hunt) # 1 /\ LockOn(x.r, Tail(hunt)))
        BY <1>1, <1>4
    <2> QED BY <1>0, <1>2, <2>3, <2>4, HuntGoesOn
<1> QED BY <1>3, <1>4

LEMMA HuntTimeoutKeeps == Inv /\ HuntTimeout => Inv'
<1> SUFFICES ASSUME Inv, HuntTimeout PROVE Inv'
    OBVIOUS
<1>0. pc = "hunt" /\ fw.mode = None /\ IsFirmware(fw) /\ IsRadio(radio) /\ (~fw.astray => fw.dwell = None) /\ fw' = fw
    BY DEF HuntTimeout, Inv
<1> DEFINE x == Result(TRUE, None, radio)
<1>1. Ends(radio, x) /\ x.r = radio
    BY <1>0, Nothing
<1> HIDE DEF x
<1>2. HuntEnds(x.r) \/ (Len(hunt) # 1 /\ LockOn(x.r, Tail(hunt)))
    BY <1>1 DEF HuntTimeout
<1> QED BY <1>0, <1>1, <1>2, HuntGoesOn

\* A section that leaves the tuning alone.
LEMMA SameTuning ==
    ASSUME Inv, pc # "hunt", NEW x, Ends(radio, x), Intact(radio, x) => StaysTuned(radio, x.r), radio' = x.r, fw' = fw,
           pc' \in {"top", "transmit"}, pc' = "top" \/ pc # "top"
    PROVE  Inv'
<1>1. IsRadio(radio)' /\ radio'.glitches <= Glitches /\ (Sound' => Sound /\ StaysTuned(radio, radio'))
    BY Follows
<1>2. Expected' = Expected
    BY DEF Expected, Wanted
<1> QED BY <1>1, <1>2, TunedOn DEF Inv

LEMMA ReceiveKeeps == Inv /\ Receive => Inv'
<1> SUFFICES ASSUME Inv, Receive PROVE Inv'
    OBVIOUS
<1>1. PICK x \in receive(radio) : radio' = x.r
    BY DEF Receive
<1>2. Ends(radio, x) /\ (Intact(radio, x) => StaysTuned(radio, x.r))
    BY Received DEF Inv
<1>3. pc = "receive" /\ pc' = "transmit" /\ fw' = fw
    BY DEF Receive
<1> QED BY <1>1, <1>2, <1>3, SameTuning

LEMMA PollKeeps == Inv /\ Poll => Inv'
<1> SUFFICES ASSUME Inv, Poll PROVE Inv'
    OBVIOUS
<1>1. pc = "transmit" /\ pc' = "top" /\ fw' = fw /\ radio' = radio
    BY DEF Poll
<1> DEFINE x == Result(TRUE, None, radio)
<1>2. Ends(radio, x) /\ x.r = radio
    BY Nothing DEF Inv
<1>3. StaysTuned(radio, radio)
    BY DEF StaysTuned
<1> HIDE DEF x
<1> QED BY <1>1, <1>2, <1>3, SameTuning

LEMMA TransmitKeeps == Inv /\ Transmit => Inv'
<1> SUFFICES ASSUME Inv, Transmit PROVE Inv'
    OBVIOUS
<1>1. PICK b \in channel_busy(radio) : Send(b.r)
    BY DEF Transmit
<1>2. PICK x \in Regardless(transmit(b.r), start_receive) : radio' = x.r
    BY <1>1, Zenon DEF Send
<1>3. Ends(radio, b) /\ IsRadio(b.r) /\ (Intact(radio, b) => StaysTuned(radio, b.r))
    BY Listened DEF Inv, Ends
<1>4. Ends(b.r, x) /\ (Intact(b.r, x) => StaysTuned(b.r, x.r))
    BY <1>2, <1>3, SentAndListens
<1>5. Ends(radio, x) /\ (Intact(radio, x) => StaysTuned(radio, x.r))
    BY <1>3, <1>4, EndsThen, TunedOnOn DEF Inv
<1>6. pc = "transmit" /\ pc' = "top" /\ fw' = fw
    BY DEF Transmit
<1> QED BY <1>2, <1>5, <1>6, SameTuning

-----------------------------------------------------------------------------
(* Commands.                                                               *)

\* The radio was tuned to the profile of the mode in force.
LEMMA Entered ==
    ASSUME Inv, pc = "top", pc' = "top", NEW x, Ends(radio, x), radio' = x.r,
           IsFirmware(fw)', ~fw'.astray => fw'.dwell = None /\ (Intact(radio, x) => Tuned(x.r, Wanted(fw')))
    PROVE  Inv'
<1>1. IsRadio(radio)' /\ radio'.glitches <= Glitches /\ (Sound' => Intact(radio, x))
    BY Follows
<1>2. ~fw'.astray => Expected' = Wanted(fw')
    BY DEF Expected, Wanted
<1> QED BY <1>1, <1>2 DEF Inv

LEMMA EnterKeeps ==
    ASSUME Inv, pc = "top", pc' = "top", NEW f, IsFirmware(f), Enter(f)
    PROVE  Inv'
<1>1. fw' = [f EXCEPT !.astray = f.dwell # None]
    BY DEF Enter
<1>2. PICK x \in retune(radio, Wanted(f)) : radio' = x.r
    BY DEF Enter
<1>3. Ends(radio, x) /\ (Intact(radio, x) => Tuned(x.r, Wanted(f)))
    BY WantedIs, Retuned DEF Inv
<1>4. DOMAIN fw' = FwFields /\ fw'.mode = f.mode /\ fw'.dwell = f.dwell /\ fw'.astray = (f.dwell # None)
    BY <1>1, SMTT(15) DEF IsFirmware, FwFields
<1>5. IsFirmware(fw)' /\ Wanted(fw') = Wanted(f) /\ (~fw'.astray => fw'.dwell = None)
    BY <1>4 DEF IsFirmware, Wanted
<1> QED BY <1>2, <1>3, <1>5, Entered

LEMMA ConsoleCompatKeeps ==
    ASSUME Inv, NEW m \in Modes, NEW nomt \in BOOLEAN, ConsoleCompat(m, nomt)
    PROVE  Inv'
<1> DEFINE f == [fw EXCEPT !.mode = CompatMode(m), !.scan = m = "scan",
                           !.mt_dwell = m = "scan" /\ ~nomt, !.dwell = None]
<1>1. Enter(f) /\ pc = "top" /\ pc' = "top"
    BY DEF ConsoleCompat, Command
<1>2. DOMAIN f = FwFields /\ f.mode = CompatMode(m) /\ f.dwell = None /\ f.astray = fw.astray
    BY SMTT(15) DEF Inv, IsFirmware, FwFields
<1> HIDE DEF f
<1>3. IsFirmware(f)
    BY <1>2 DEF Inv, IsFirmware, CompatMode
<1> QED BY <1>1, <1>3, EnterKeeps

LEMMA ModeKeeps ==
    ASSUME Inv, pc = "top", pc' = "top", NEW m, Enter([fw EXCEPT !.mode = CompatMode(m), !.scan = m = "scan"])
    PROVE  Inv'
<1> DEFINE f == [fw EXCEPT !.mode = CompatMode(m), !.scan = m = "scan"]
<1>1. Enter(f)
    OBVIOUS
<1>2. DOMAIN f = FwFields /\ f.mode = CompatMode(m) /\ f.dwell = fw.dwell /\ f.astray = fw.astray
    BY SMTT(15) DEF Inv, IsFirmware, FwFields
<1> HIDE DEF f
<1>3. IsFirmware(f)
    BY <1>2 DEF Inv, IsFirmware, CompatMode
<1> QED BY <1>1, <1>3, EnterKeeps

LEMMA ForeignSendKeeps ==
    ASSUME Inv, NEW net \in Profiles, ForeignSend(net)
    PROVE  Inv'
<1>0. pc = "top" /\ pc' = "top" /\ fw' = fw /\ (fw.dwell = None \/ fw.astray) /\ IsRadio(radio) /\ IsFirmware(fw)
    BY DEF ForeignSend, Command, Inv
<1>1. PICK c \in configure(radio, net) :
          \E x \in Regardless(IF c.ok THEN transmit(c.r) ELSE {c}, LAMBDA r : retune(r, Wanted(fw))) : radio' = x.r
    BY Zenon DEF ForeignSend
<1>2. PICK y \in IF c.ok THEN transmit(c.r) ELSE {c} : \E x \in retune(y.r, Wanted(fw)) : radio' = x.r
    BY <1>1, Zenon DEF Regardless
<1>3. PICK x \in retune(y.r, Wanted(fw)) : radio' = x.r
    BY <1>2
<1>4. Ends(radio, c) /\ IsRadio(c.r)
    BY <1>0, Configured DEF Ends
<1>5. Ends(radio, y) /\ IsRadio(y.r)
    <2>1. y = c \/ y \in transmit(c.r)
        BY <1>2
    <2>2. CASE y \in transmit(c.r)
        BY <1>0, <1>4, <2>2, Transmitted, EndsThen DEF Ends
    <2> QED BY <1>4, <2>1, <2>2
<1>6. Ends(y.r, x) /\ (Intact(y.r, x) => Tuned(x.r, Wanted(fw)))
    BY <1>0, <1>5, WantedIs, Retuned
<1>7. Ends(radio, x) /\ (Intact(radio, x) => Tuned(x.r, Wanted(fw)))
    BY <1>0, <1>5, <1>6, EndsThen
<1>8. IsFirmware(fw)' /\ (~fw'.astray => fw'.dwell = None /\ (Intact(radio, x) => Tuned(x.r, Wanted(fw'))))
    BY <1>0, <1>7
<1> QED BY <1>0, <1>3, <1>7, <1>8, Entered

LEMMA CompatSendKeeps == Inv /\ CompatSend => Inv'
<1> SUFFICES ASSUME Inv, CompatSend PROVE Inv'
    OBVIOUS
<1>1. pc = "top" /\ pc' = "top" /\ fw' = fw
    BY DEF CompatSend, Command
<1>2. PICK x \in Regardless(transmit(radio), start_receive) : radio' = x.r
    BY Zenon DEF CompatSend, Send
<1>3. Ends(radio, x) /\ (Intact(radio, x) => StaysTuned(radio, x.r))
    BY SentAndListens DEF Inv
<1> QED BY <1>1, <1>2, <1>3, SameTuning

LEMMA CadTestKeeps == Inv /\ CadTest => Inv'
<1> SUFFICES ASSUME Inv, CadTest PROVE Inv'
    OBVIOUS
<1>0. pc = "top" /\ pc' = "top" /\ (fw.dwell = None \/ fw.astray) /\ IsRadio(radio) /\ IsFirmware(fw)
    BY DEF CadTest, Command, Inv
<1>1. PICK p \in Profiles :
          \E x \in Regardless(Probe(radio, p), LAMBDA r : retune(r, Native)) : radio' = x.r
    BY Zenon DEF CadTest
<1>2. PICK y \in Probe(radio, p) : \E x \in retune(y.r, Native) : radio' = x.r
    BY <1>1, Zenon DEF Regardless
<1>3. PICK x \in retune(y.r, Native) : radio' = x.r
    BY <1>2
<1>4. Ends(radio, y) /\ IsRadio(y.r)
    BY <1>0, Probed DEF Probe, Ends
<1>5. Ends(y.r, x) /\ (Intact(y.r, x) => Tuned(x.r, Native))
    BY <1>4, Networks, Retuned
<1>6. Ends(radio, x) /\ (Intact(radio, x) => Tuned(x.r, Native))
    BY <1>0, <1>4, <1>5, EndsThen
<1>7. fw' = [fw EXCEPT !.astray = fw.astray \/ fw.mode # None]
    BY DEF CadTest
<1>8. /\ DOMAIN fw' = FwFields /\ fw'.mode = fw.mode /\ fw'.dwell = fw.dwell
      /\ fw'.astray = (fw.astray \/ fw.mode # None)
    BY <1>0, <1>7, SMTT(15) DEF IsFirmware, FwFields
<1>9. IsFirmware(fw)' /\ (~fw'.astray => fw'.dwell = None /\ Wanted(fw') = Native)
    BY <1>0, <1>8 DEF IsFirmware, Wanted
<1> QED BY <1>0, <1>3, <1>6, <1>9, Entered

LEMMA NewFirmwareIs ==
    ASSUME NEW m \in Modes
    PROVE  /\ IsFirmware(NewFirmware(m)) /\ NewFirmware(m).dwell = None
           /\ Wanted(NewFirmware(m)) = IF CompatMode(m) = None THEN Native ELSE CompatMode(m)
<1> DEFINE f == NewFirmware(m)
<1>1. DOMAIN f = FwFields /\ f.mode = CompatMode(m) /\ f.dwell = None /\ f.astray = FALSE
    BY SMTT(15) DEF NewFirmware, FwFields
<1> HIDE DEF f
<1>2. IsFirmware(f)
    BY <1>1 DEF IsFirmware, CompatMode
<1>3. Wanted(f) = IF CompatMode(m) = None THEN Native ELSE CompatMode(m)
    BY <1>1 DEF Wanted
<1> QED BY <1>1, <1>2, <1>3 DEF f

\* The firmware starts.
LEMMA Boots ==
    ASSUME NEW g \in Nat, g <= Glitches, NEW m \in Saved, NEW x \in Booted(m, g)
    PROVE  /\ IsRadio(x.r) /\ x.r.glitches <= Glitches /\ IsFirmware(NewFirmware(m)) /\ NewFirmware(m).dwell = None
           /\ x.r.glitches = Glitches => Tuned(x.r, Wanted(NewFirmware(m)))
<1>1. m \in Modes /\ Glitches \in Nat
    BY DeviceAssumption DEF Modes
<1>2. /\ IsRadio(x.r) /\ x.r.glitches <= g
      /\ x.r.glitches = g => Tuned(x.r, IF CompatMode(m) = None THEN Native ELSE CompatMode(m))
    BY <1>1, BootedIs
<1>3. x.r.glitches <= Glitches /\ (x.r.glitches = Glitches => x.r.glitches = g)
    BY <1>1, <1>2, SMTT(15) DEF IsRadio
<1> QED BY <1>1, <1>2, <1>3, NewFirmwareIs

LEMMA RebootKeeps == Inv /\ Reboot => Inv'
<1> SUFFICES ASSUME Inv, Reboot PROVE Inv'
    OBVIOUS
<1>1. PICK m \in Saved : fw' = NewFirmware(m) /\ \E x \in Booted(m, radio.glitches) : radio' = x.r
    BY Zenon DEF Reboot
<1>2. PICK x \in Booted(m, radio.glitches) : radio' = x.r
    BY <1>1
<1>3. pc' = "top"
    BY DEF Reboot
<1>4. radio.glitches \in Nat /\ radio.glitches <= Glitches
    BY DEF Inv, IsRadio
<1>5. /\ IsRadio(radio)' /\ radio'.glitches <= Glitches /\ IsFirmware(fw)' /\ fw'.dwell = None
      /\ Sound' => Tuned(radio', Wanted(fw'))
    BY <1>1, <1>2, <1>4, Boots DEF Sound
<1>6. Expected' = Wanted(fw')
    BY <1>3, <1>5 DEF Expected, Wanted
<1> QED BY <1>3, <1>5, <1>6 DEF Inv

-----------------------------------------------------------------------------
(* Time and the air.                                                       *)

LEMMA TickKeeps == Inv /\ Tick => Inv'
<1> SUFFICES ASSUME Inv, Tick PROVE Inv'
    OBVIOUS
<1>0. pc = "top" /\ pc' = "top" /\ radio' = radio /\ IsFirmware(fw) /\ None \notin Nat
    BY DeviceAssumption DEF Tick, Inv
<1>1. /\ DOMAIN fw' = FwFields /\ fw'.mode = fw.mode /\ fw'.astray = fw.astray
      /\ fw'.dwell = IF fw.dwell \in {None, 0} THEN fw.dwell ELSE fw.dwell - 1
    BY <1>0, SMTT(15) DEF Tick, IsFirmware, FwFields
<1>2. fw'.dwell \in Nat \cup {None} /\ (fw'.dwell = None <=> fw.dwell = None)
    BY <1>0, <1>1, SMTT(15) DEF IsFirmware
<1>3. IsFirmware(fw)' /\ Expected' = Expected /\ Sound' = Sound
    BY <1>0, <1>1, <1>2 DEF IsFirmware, Expected, Wanted, Sound
<1> QED BY <1>0, <1>1, <1>2, <1>3 DEF Inv

\* A radio tuned to a network hears that network.
LEMMA TunedHears ==
    ASSUME NEW r, NEW p \in Profiles, Tuned(r, p)
    PROVE  Heard(r) = {p} /\ On(r) = p
<1>1. \A q : Reg(Freq(q), q, q) = Reg(Freq(p), p, p) => q = p
    BY SMTT(15) DEF Reg
<1>2. Heard(r) = {p}
    BY <1>1 DEF Heard, Tuned
<1> QED BY <1>2 DEF On

\* The flags of the chip.
LEMMA FlagIs ==
    ASSUME NEW r, IsRadio(r), NEW f
    PROVE  /\ DOMAIN Flag(r, f) = Fields
           /\ Flag(r, f).reg = r.reg /\ Flag(r, f).receiving = r.receiving /\ Flag(r, f).glitches = r.glitches
           /\ Flag(r, f).buf = r.buf /\ (f # "done" /\ "done" \in Flag(r, f).irq => "done" \in r.irq)
<1> DEFINE i == IF f \in {"done", "error"} THEN {f}
                ELSE IF r.irq \cap {"done", "error"} = {} THEN r.irq \cup {f} ELSE r.irq
           q == [r EXCEPT !.irq = i]
<1>1. Flag(r, f) = q
    BY DEF Flag
<1>2. f # "done" /\ "done" \in i => "done" \in r.irq
    OBVIOUS
<1> HIDE DEF i
<1>3. DOMAIN q = Fields /\ q.reg = r.reg /\ q.receiving = r.receiving /\ q.glitches = r.glitches /\ q.buf = r.buf /\ q.irq = i
    BY SMTT(15) DEF IsRadio, Fields
<1> QED BY <1>1, <1>2, <1>3

\* The chip hears something on the profile that it listens on.
LEMMA HearsOn ==
    ASSUME Inv, UNCHANGED <<pc, fw, hunt>>, DOMAIN radio' = Fields,
           radio'.reg = radio.reg, radio'.receiving = radio.receiving, radio'.glitches = radio.glitches,
           "done" \in radio'.irq => ("done" \in radio.irq /\ radio'.buf = radio.buf) \/ radio'.buf = On(radio)
    PROVE  Inv'
<1>1. IsRadio(radio)' /\ radio'.glitches <= Glitches /\ Sound' = Sound /\ Expected' = Expected
    BY DEF Inv, IsRadio, Sound, Expected, Wanted
<1>2. Expected \in Profiles
    BY Networks, WantedIs DEF Inv, Expected
<1>3. ASSUME Tuned(radio, Expected) PROVE Tuned(radio', Expected)
    BY <1>2, <1>3, TunedHears DEF Tuned
<1> QED BY <1>1, <1>3 DEF Inv

LEMMA AirKeeps == Inv /\ Air => Inv'
<1> SUFFICES ASSUME Inv, Air PROVE Inv'
    OBVIOUS
<1>0. IsRadio(radio)
    BY DEF Inv
<1>1. CASE \E real \in BOOLEAN : Preamble(real)
    <2>1. PICK real \in BOOLEAN : Preamble(real)
        BY <1>1
    <2> DEFINE q == Flag(radio, "preamble")
    <2>2. radio' = [q EXCEPT !.lock = IF real THEN "preamble" ELSE None] /\ UNCHANGED <<pc, fw, hunt>>
        BY <2>1 DEF Preamble
    <2>3. /\ DOMAIN q = Fields /\ q.reg = radio.reg /\ q.receiving = radio.receiving /\ q.glitches = radio.glitches
          /\ q.buf = radio.buf /\ ("done" \in q.irq => "done" \in radio.irq)
        BY <1>0, FlagIs
    <2> HIDE DEF q
    <2>4. /\ DOMAIN radio' = Fields /\ radio'.reg = q.reg /\ radio'.receiving = q.receiving
          /\ radio'.glitches = q.glitches /\ radio'.buf = q.buf /\ radio'.irq = q.irq
        BY <2>2, <2>3, SMTT(15) DEF Fields
    <2> QED BY <2>2, <2>3, <2>4, HearsOn
<1>2. CASE Header
    <2> DEFINE q == Flag(radio, "header")
    <2>2. radio' = [q EXCEPT !.lock = "body"] /\ UNCHANGED <<pc, fw, hunt>>
        BY <1>2 DEF Header
    <2>3. /\ DOMAIN q = Fields /\ q.reg = radio.reg /\ q.receiving = radio.receiving /\ q.glitches = radio.glitches
          /\ q.buf = radio.buf /\ ("done" \in q.irq => "done" \in radio.irq)
        BY <1>0, FlagIs
    <2> HIDE DEF q
    <2>4. /\ DOMAIN radio' = Fields /\ radio'.reg = q.reg /\ radio'.receiving = q.receiving
          /\ radio'.glitches = q.glitches /\ radio'.buf = q.buf /\ radio'.irq = q.irq
        BY <2>2, <2>3, SMTT(15) DEF Fields
    <2> QED BY <2>2, <2>3, <2>4, HearsOn
<1>3. CASE \E f \in {"done", "error"} : FrameEnds(f)
    <2>1. PICK f \in {"done", "error"} : FrameEnds(f)
        BY <1>3
    <2> DEFINE q == Flag(radio, f)
               b == IF f = "done" THEN On(radio) ELSE q.buf
    <2>2. radio' = [q EXCEPT !.lock = None, !.buf = b] /\ UNCHANGED <<pc, fw, hunt>>
        BY <2>1 DEF FrameEnds
    <2>3. /\ DOMAIN q = Fields /\ q.reg = radio.reg /\ q.receiving = radio.receiving /\ q.glitches = radio.glitches
          /\ q.buf = radio.buf /\ (f # "done" /\ "done" \in q.irq => "done" \in radio.irq)
        BY <1>0, FlagIs
    <2>4. (f = "done" /\ b = On(radio)) \/ (f # "done" /\ b = q.buf)
        OBVIOUS
    <2> HIDE DEF q, b
    <2>5. /\ DOMAIN radio' = Fields /\ radio'.reg = q.reg /\ radio'.receiving = q.receiving
          /\ radio'.glitches = q.glitches /\ radio'.buf = b /\ radio'.irq = q.irq
        BY <2>2, <2>3, SMTT(15) DEF Fields
    <2> QED BY <2>2, <2>3, <2>4, <2>5, HearsOn
<1> QED BY <1>1, <1>2, <1>3 DEF Air

-----------------------------------------------------------------------------
LEMMA InvInit == Init => Inv
<1> SUFFICES ASSUME Init PROVE Inv
    OBVIOUS
<1>1. PICK m \in Saved : fw = NewFirmware(m) /\ \E x \in Booted(m, Glitches) : radio = x.r
    BY Zenon DEF Init
<1>2. PICK x \in Booted(m, Glitches) : radio = x.r
    BY <1>1
<1>3. Glitches \in Nat /\ Glitches <= Glitches
    BY DeviceAssumption, SMTT(15)
<1>4. /\ IsRadio(radio) /\ radio.glitches <= Glitches /\ IsFirmware(fw) /\ fw.dwell = None
      /\ Sound => Tuned(radio, Wanted(fw))
    BY <1>1, <1>2, <1>3, Boots DEF Sound
<1>5. pc = "top" /\ Expected = Wanted(fw)
    BY <1>4 DEF Init, Expected
<1> QED BY <1>4, <1>5 DEF Inv

LEMMA LoopKeeps == Inv /\ Loop => Inv'
BY DwellKeeps, NoSweepKeeps, SweepQuietKeeps, SweepHitKeeps, HuntReadKeeps, HuntTimeoutKeeps,
   ReceiveKeeps, PollKeeps, TransmitKeeps DEF Loop

LEMMA UserKeeps == Inv /\ User => Inv'
<1> SUFFICES ASSUME Inv, User PROVE Inv'
    OBVIOUS
<1>1. CASE \E m \in Modes, nomt \in BOOLEAN : ConsoleCompat(m, nomt)
    BY <1>1, ConsoleCompatKeeps
<1>2. CASE CycleCompat
    <2> DEFINE m == CASE ModeOf(fw) = "native" -> "meshcore"
                      [] ModeOf(fw) = "meshcore" -> "meshtastic"
                      [] ModeOf(fw) = "meshtastic" -> "scan"
                      [] ModeOf(fw) = "scan" -> "native"
    <2>1. /\ pc = "top" /\ pc' = "top"
          /\ Enter([fw EXCEPT !.mode = CompatMode(m), !.scan = m = "scan"])
        BY <1>2 DEF CycleCompat, Command
    <2> HIDE DEF m
    <2> QED BY <2>1, ModeKeeps
<1>3. CASE \E m \in Modes : SetMode(m)
    BY <1>3, ModeKeeps DEF SetMode, Command
<1>4. CASE \E net \in Profiles \ {Native} : ForeignSend(net)
    BY <1>4, ForeignSendKeeps
<1> QED BY <1>1, <1>2, <1>3, <1>4, CompatSendKeeps, CadTestKeeps, RebootKeeps DEF User

LEMMA InvStep == Inv /\ [Next]_vars => Inv'
<1>1. Inv /\ UNCHANGED vars => Inv'
    BY DEF vars, Inv, IsRadio, IsFirmware, Sound, Expected, Wanted, Tuned
<1> QED BY <1>1, LoopKeeps, UserKeeps, TickKeeps, AirKeeps DEF Next

LEMMA InvHolds == Spec => []Inv
BY InvInit, InvStep, PTL DEF Spec

\* What the radio hands on as a frame of a network was received on that
\* network's profile, and what is sent for a network goes out on its
\* profile, for any set of profiles, periods, commands and failures.
THEOREM OnTheRightNetworkHolds == Spec => []OnTheRightNetwork
<1>1. Inv => OnTheRightNetwork
    <2> SUFFICES ASSUME Inv, Sound, ~fw.astray PROVE
            /\ pc = "top" /\ Dwelling /\ fw.dwell # None => PassesOn(Foreign[1])
            /\ pc = "hunt" => PassesOn(Head(hunt))
            /\ pc \in {"receive", "transmit"} => PassesOn(Wanted(fw))
        BY DEF OnTheRightNetwork
    <2>1. Expected \in Profiles /\ Tuned(radio, Expected)
        BY Networks, WantedIs DEF Inv, Expected
    <2>2. PassesOn(Expected)
        BY <2>1, TunedHears DEF PassesOn, Tuned
    <2> QED BY <2>2 DEF Inv, Expected
<1> QED BY <1>1, InvHolds, PTL
=============================================================================

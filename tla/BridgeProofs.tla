---------------------------- MODULE BridgeProofs ----------------------------
(***************************************************************************)
(* For any gateways, protocols, rules, burst, refill and capacity: the     *)
(* rate limit holds, the Deduplicator stays bounded, and a text is sent on *)
(* once within its lifetime.                                               *)
(*                                                                         *)
(* What a bucket still holds and what left through it together never       *)
(* exceed the burst and the refill up to its last use (RateInv).  What the *)
(* Deduplicator knows is in its queue (Listed), and room for one entry is  *)
(* made before each message is entered.  What was sent on within the       *)
(* lifetime, and not evicted, is a key at least as young (CrossInv).       *)
(***************************************************************************)
EXTENDS Bridge, FiniteSetTheorems, SequenceTheorems, TLAPS

\* Time for the provers.
USE ZenonT(10), SMTT(15)

Buckets == [tokens : Nat, last : Nat]

RateTypes == /\ clock \in Nat
             /\ tokens \in [Gateways -> [Protocols -> Buckets]]
             /\ framesOut \in [Gateways -> [Protocols -> Nat]]

Spent(n, b) == b.last <= clock /\ n + b.tokens <= Burst + Refill * b.last

RateInv == \A g \in Gateways, p \in Protocols : Spent(framesOut[g][p], tokens[g][p])

LEMMA Constants == {cap, Burst} \subseteq Nat \ {0} /\ {ttl, Refill} \subseteq Nat
    BY BridgeAssumption

LEMMA MinPair == ASSUME NEW a \in Int, NEW b \in Int
                 PROVE  Min({a, b}) \in {a, b} /\ Min({a, b}) <= a /\ Min({a, b}) <= b
<1>1. \E x \in {a, b} : \A y \in {a, b} : x <= y
  <2>1. CASE a <= b
      BY <2>1, SMTT(15)
  <2>2. CASE b <= a
      BY <2>2, SMTT(15)
  <2> QED BY <2>1, <2>2, SMTT(15)
<1>2. \A y \in {a, b} : Min({a, b}) <= y
    BY <1>1 DEF Min
<1>3. Min({a, b}) \in {a, b}
    BY <1>1 DEF Min
<1> QED BY <1>2, <1>3

LEMMA Elapsed == ASSUME NEW r \in Nat, NEW last \in Nat, NEW now \in Nat, last <= now
                 PROVE  (now - last) * r \in Nat /\ r * last + (now - last) * r = r * now
<1>1. now - last \in Nat
    OBVIOUS
<1> QED BY <1>1

\* Refilling a bucket and taking a token out of it keep the balance.
LEMMA TakeBalance ==
    ASSUME clock \in Nat, NEW n \in Nat, NEW b \in Buckets, Spent(n, b)
    PROVE  /\ Take(b) \in Buckets
           /\ Spent(n, Take(b))
           /\ HasToken(b) => Spent(n + 1, Take(b))
<1> DEFINE full == b.tokens + (clock - b.last) * Refill
           t == Min({Burst, full})
<1>1. b.tokens \in Nat /\ b.last \in Nat /\ b.last <= clock /\ n + b.tokens <= Burst + Refill * b.last
    BY DEF Buckets, Spent
<1>2. Refill \in Nat /\ Burst \in Nat
    BY Constants
<1>3. (clock - b.last) * Refill \in Nat /\ Refill * b.last + (clock - b.last) * Refill = Refill * clock
    BY <1>1, <1>2, Elapsed
<1>4. full \in Nat
    BY <1>1, <1>3
<1>5. t \in Nat /\ t <= full
  <2> HIDE DEF full
  <2> QED BY <1>2, <1>4, MinPair, SMTT(15)
<1>6. Refill * b.last \in Nat /\ Refill * clock \in Nat
    BY <1>1, <1>2
<1>7. n + t <= Burst + Refill * clock
  <2> HIDE DEF t
  <2> QED BY <1>1, <1>2, <1>3, <1>4, <1>5, <1>6
<1>8. Refilled(b) = [tokens |-> t, last |-> clock]
    BY DEF Refilled
<1> HIDE DEF t, full
<1>9. CASE HasToken(b)
  <2>1. t >= 1 /\ Take(b) = [tokens |-> t - 1, last |-> clock]
      BY <1>8, <1>9 DEF HasToken, Take
  <2> QED BY <2>1, <1>2, <1>5, <1>6, <1>7 DEF Buckets, Spent
<1>10. CASE ~HasToken(b)
  <2>1. Take(b) = [tokens |-> t, last |-> clock]
      BY <1>8, <1>10 DEF Take
  <2> QED BY <2>1, <1>2, <1>5, <1>6, <1>7, <1>10 DEF Buckets, Spent
<1> QED BY <1>9, <1>10

\* on_frame for a new message: only targets with a token get a frame.
LEMMA FrameBalance ==
    ASSUME RateTypes, RateInv, NEW g \in Gateways, UNCHANGED clock,
           NEW targets \in SUBSET Protocols, NEW out \in SUBSET {to \in targets : HasToken(tokens[g][to])},
           tokens' = [tokens EXCEPT ![g] = [to \in Protocols |-> IF to \in targets THEN Take(@[to]) ELSE @[to]]],
           framesOut' = [framesOut EXCEPT ![g] = [to \in Protocols |-> IF to \in out THEN @[to] + 1 ELSE @[to]]]
    PROVE  RateTypes' /\ RateInv'
<1>1. \A to \in Protocols : /\ tokens[g][to] \in Buckets /\ framesOut[g][to] \in Nat
                            /\ Spent(framesOut[g][to], tokens[g][to])
    BY DEF RateTypes, RateInv
<1>2. ASSUME NEW to \in Protocols
      PROVE  /\ Take(tokens[g][to]) \in Buckets
             /\ Spent(framesOut[g][to], Take(tokens[g][to]))
             /\ HasToken(tokens[g][to]) => Spent(framesOut[g][to] + 1, Take(tokens[g][to]))
    BY <1>1, TakeBalance DEF RateTypes
<1>3. /\ \A h \in Gateways : h # g => tokens'[h] = tokens[h] /\ framesOut'[h] = framesOut[h]
      /\ tokens'[g] = [to \in Protocols |-> IF to \in targets THEN Take(tokens[g][to]) ELSE tokens[g][to]]
      /\ framesOut'[g] = [to \in Protocols |-> IF to \in out THEN framesOut[g][to] + 1 ELSE framesOut[g][to]]
    BY DEF RateTypes
<1>4. RateTypes'
  <2>1. tokens'[g] \in [Protocols -> Buckets] /\ framesOut'[g] \in [Protocols -> Nat]
      BY <1>1, <1>2, <1>3, SMTT(15)
  <2>2. tokens' \in [Gateways -> [Protocols -> Buckets]] /\ framesOut' \in [Gateways -> [Protocols -> Nat]]
      BY <1>3, <2>1 DEF RateTypes
  <2> QED BY <2>2 DEF RateTypes
<1>5. ASSUME NEW h \in Gateways, NEW p \in Protocols PROVE Spent(framesOut'[h][p], tokens'[h][p])
  <2>1. CASE h # g
      BY <2>1, <1>3 DEF RateInv
  <2>2. CASE h = g /\ p \in out
    <3>1. framesOut'[g][p] = framesOut[g][p] + 1 /\ tokens'[g][p] = Take(tokens[g][p]) /\ HasToken(tokens[g][p])
        BY <2>2, <1>3, SMTT(15)
    <3> QED BY <2>2, <3>1, <1>2
  <2>3. CASE h = g /\ p \notin out
    <3>1. framesOut'[g][p] = framesOut[g][p] /\ tokens'[g][p] \in {Take(tokens[g][p]), tokens[g][p]}
        BY <2>3, <1>3, SMTT(15)
    <3> QED BY <2>3, <3>1, <1>1, <1>2
  <2> QED BY <2>1, <2>2, <2>3
<1> QED BY <1>4, <1>5 DEF RateInv, Spent

LEMMA RestartBalance ==
    ASSUME RateTypes, RateInv, NEW g \in Gateways, restart(g)
    PROVE  RateTypes' /\ RateInv'
<1>1. /\ tokens' = [tokens EXCEPT ![g] = [p \in Protocols |-> [tokens |-> Burst, last |-> 0]]]
      /\ framesOut' = [framesOut EXCEPT ![g] = [p \in Protocols |-> 0]] /\ UNCHANGED clock
    BY DEF restart
<1>2. Burst \in Nat /\ Refill \in Nat /\ [tokens |-> Burst, last |-> 0] \in Buckets
    BY Constants DEF Buckets
<1>3. RateTypes'
    BY <1>1, <1>2 DEF RateTypes
<1>4. ASSUME NEW h \in Gateways, NEW p \in Protocols PROVE Spent(framesOut'[h][p], tokens'[h][p])
  <2>1. CASE h # g
    <3>1. framesOut'[h] = framesOut[h] /\ tokens'[h] = tokens[h]
        BY <1>1, <2>1 DEF RateTypes
    <3> QED BY <3>1 DEF RateInv
  <2>2. CASE h = g
    <3>1. framesOut'[h][p] = 0 /\ tokens'[h][p] = [tokens |-> Burst, last |-> 0]
        BY <1>1, <2>2 DEF RateTypes
    <3> QED BY <3>1, <1>2 DEF Spent, RateTypes
  <2> QED BY <2>1, <2>2
<1> QED BY <1>1, <1>3, <1>4 DEF RateInv, Spent

LEMMA SameBalance ==
    ASSUME RateTypes, RateInv, UNCHANGED <<tokens, framesOut>>, clock' \in Nat, clock <= clock'
    PROVE  RateTypes' /\ RateInv'
<1>1. RateTypes'
    BY DEF RateTypes
<1>2. ASSUME NEW g \in Gateways, NEW p \in Protocols PROVE Spent(framesOut[g][p], tokens[g][p])'
  <2>1. tokens[g][p].last \in Nat
      BY DEF RateTypes, Buckets
  <2> QED BY <2>1 DEF RateInv, RateTypes, Spent
<1> QED BY <1>1, <1>2 DEF RateInv

LEMMA NextBalance == RateTypes /\ RateInv /\ [Next]_vars => RateTypes' /\ RateInv'
<1> SUFFICES ASSUME RateTypes, RateInv, [Next]_vars PROVE RateTypes' /\ RateInv'
    OBVIOUS
<1>1. ASSUME NEW g \in Gateways, on_frame(g) PROVE RateTypes' /\ RateInv'
  <2>1. CASE UNCHANGED <<tokens, framesOut, clock>>
      BY <2>1, SameBalance DEF RateTypes
  <2>2. CASE ~UNCHANGED <<tokens, framesOut, clock>>
    <3>1. PICK f \in air :
            LET targets == Targets(g, decode(f)) IN
            /\ UNCHANGED clock
            /\ \E out \in SUBSET {to \in targets : HasToken(tokens[g][to])} :
                 /\ tokens' = [tokens EXCEPT ![g] = [to \in Protocols |-> IF to \in targets THEN Take(@[to]) ELSE @[to]]]
                 /\ framesOut' = [framesOut EXCEPT ![g] = [to \in Protocols |-> IF to \in out THEN @[to] + 1 ELSE @[to]]]
        BY <1>1, <2>2 DEF on_frame, histories
    <3>2. Targets(g, decode(f)) \in SUBSET Protocols
        BY DEF Targets
    <3> QED BY <3>1, <3>2, FrameBalance, SMTT(40)
  <2> QED BY <2>1, <2>2
<1>2. ASSUME NEW g \in Gateways, restart(g) PROVE RateTypes' /\ RateInv'
    BY <1>2, RestartBalance
<1>3. CASE UNCHANGED vars \/ tick \/ \E p \in Protocols, t \in Texts : say(p, t)
  <2>1. UNCHANGED <<tokens, framesOut>> /\ clock' \in Nat /\ clock <= clock'
    <3>1. clock \in Nat
        BY DEF RateTypes
    <3>2. CASE UNCHANGED vars
        BY <3>1, <3>2 DEF vars
    <3>3. CASE tick
        BY <3>1, <3>3 DEF tick, histories
    <3>4. ASSUME NEW p \in Protocols, NEW t \in Texts, say(p, t)
          PROVE  UNCHANGED <<tokens, framesOut>> /\ clock' \in Nat /\ clock <= clock'
        BY <3>1, <3>4 DEF say, histories
    <3> QED BY <1>3, <3>2, <3>3, <3>4
  <2> QED BY <2>1, SameBalance
<1> QED BY <1>1, <1>2, <1>3 DEF Next

\* A gateway puts on a network no more than the burst and the refill since it
\* started allow (bridge_one, Bucket).
THEOREM RateBoundHolds == Spec => []RateBound
<1>1. Init => RateTypes /\ RateInv
  <2> SUFFICES ASSUME Init PROVE RateTypes /\ RateInv
      OBVIOUS
  <2>1. Burst \in Nat /\ Refill \in Nat /\ [tokens |-> Burst, last |-> 0] \in Buckets
      BY Constants DEF Buckets
  <2>2. RateTypes
      BY <2>1 DEF Init, RateTypes
  <2>3. \A g \in Gateways, p \in Protocols : framesOut[g][p] = 0 /\ tokens[g][p] = [tokens |-> Burst, last |-> 0]
      BY DEF Init
  <2>4. Spent(0, [tokens |-> Burst, last |-> 0])
      BY <2>1 DEF Init, Spent
  <2> QED BY <2>2, <2>3, <2>4 DEF RateInv
<1>2. ASSUME RateTypes, RateInv PROVE RateBound
  <2> SUFFICES ASSUME NEW g \in Gateways, NEW p \in Protocols PROVE framesOut[g][p] <= Burst + Refill * clock
      BY DEF RateBound
  <2> DEFINE n == framesOut[g][p]
             t == tokens[g][p].tokens
             l == tokens[g][p].last
  <2>1. n \in Nat /\ t \in Nat /\ l \in Nat /\ clock \in Nat /\ Refill \in Nat /\ Burst \in Nat
      BY <1>2, Constants DEF RateTypes, Buckets
  <2>2. l <= clock /\ n + t <= Burst + Refill * l
      BY <1>2 DEF RateInv, Spent
  <2> HIDE DEF n, t, l
  <2>3. (clock - l) * Refill \in Nat /\ Refill * l + (clock - l) * Refill = Refill * clock
      BY <2>1, <2>2, Elapsed
  <2>4. Refill * l \in Nat /\ Refill * clock \in Nat
      BY <2>1
  <2>5. n <= Burst + Refill * clock
      BY <2>1, <2>2, <2>3, <2>4
  <2> QED BY <2>5 DEF n
<1> QED BY <1>1, <1>2, NextBalance, PTL DEF Spec

-----------------------------------------------------------------------------
(* The Deduplicator                                                        *)

Listed(d) ==
    /\ d = [by_id |-> d.by_id, by_digest |-> d.by_digest, order |-> d.order]
    /\ \E S : d.order \in Seq(S)
    /\ \A x \in DOMAIN d.by_digest : \E i \in 1 .. Len(d.order) : d.order[i].digest = x
    /\ \A x \in DOMAIN d.by_id : \E i \in 1 .. Len(d.order) : d.order[i].id = x

LEMMA MaxPair == ASSUME NEW a \in Int, NEW b \in Int
                 PROVE  Max({a, b}) \in {a, b} /\ Max({a, b}) >= a /\ Max({a, b}) >= b
<1>1. \E x \in {a, b} : \A y \in {a, b} : x >= y
  <2>1. CASE a <= b
      BY <2>1, SMTT(15)
  <2>2. CASE b <= a
      BY <2>2, SMTT(15)
  <2> QED BY <2>1, <2>2, SMTT(15)
<1>2. \A y \in {a, b} : Max({a, b}) >= y
    BY <1>1 DEF Max
<1>3. Max({a, b}) \in {a, b}
    BY <1>1 DEF Max
<1> QED BY <1>2, <1>3

LEMMA Fields ==
    ASSUME NEW a, NEW b, NEW c, NEW x, NEW y
    PROVE  LET d == [by_id |-> a, by_digest |-> b, order |-> c]
           IN  /\ [d EXCEPT !.by_id = x, !.by_digest = y] = [by_id |-> x, by_digest |-> y, order |-> c]
               /\ [d EXCEPT !.by_digest = x, !.order = y] = [by_id |-> a, by_digest |-> x, order |-> y]
<1> DEFINE d == [by_id |-> a, by_digest |-> b, order |-> c]
           e == [d EXCEPT !.by_id = x, !.by_digest = y]
           f == [d EXCEPT !.by_digest = x, !.order = y]
<1>1. DOMAIN d = {"by_id", "by_digest", "order"} /\ d.by_id = a /\ d.by_digest = b /\ d.order = c
    OBVIOUS
<1>2. e = [k \in DOMAIN d |-> IF k = "by_digest" THEN y ELSE IF k = "by_id" THEN x ELSE d[k]]
    OBVIOUS
<1>3. f = [k \in DOMAIN d |-> IF k = "order" THEN y ELSE IF k = "by_digest" THEN x ELSE d[k]]
    OBVIOUS
<1> HIDE DEF d, e, f
<1>4. e = [by_id |-> x, by_digest |-> y, order |-> c]
    BY <1>1, <1>2
<1>5. f = [by_id |-> a, by_digest |-> x, order |-> y]
    BY <1>1, <1>3
<1> QED BY <1>4, <1>5 DEF d, e, f

LEMMA ExpireListed ==
    ASSUME NEW d, Listed(d)
    PROVE  Listed(expire(d)) /\ expire(d).order = d.order
<1>1. expire(d) = [by_id |-> Young(d.by_id), by_digest |-> Young(d.by_digest), order |-> d.order]
  <2>1. expire(d) = [d EXCEPT !.by_id = Young(d.by_id), !.by_digest = Young(d.by_digest)]
      BY DEF expire
  <2> QED BY <2>1, Fields DEF Listed
<1>2. DOMAIN Young(d.by_id) \subseteq DOMAIN d.by_id /\ DOMAIN Young(d.by_digest) \subseteq DOMAIN d.by_digest
    BY DEF Young, Restrict
<1> QED BY <1>1, <1>2, SMTT(15) DEF Listed

LEMMA AppendListed ==
    ASSUME NEW d, Listed(d), NEW id, NEW digest, NEW ids, NEW digests,
           DOMAIN ids \subseteq DOMAIN d.by_id \cup {id}, DOMAIN digests \subseteq DOMAIN d.by_digest \cup {digest}
    PROVE  LET e == [by_id |-> ids, by_digest |-> digests, order |-> Append(d.order, Entry(id, digest))]
           IN  Listed(e) /\ Len(e.order) = Len(d.order) + 1
<1> DEFINE x == Entry(id, digest)
           new == Append(d.order, x)
           e == [by_id |-> ids, by_digest |-> digests, order |-> new]
<1>1. PICK S : d.order \in Seq(S)
    BY DEF Listed
<1>2. d.order \in Seq(S \cup {x}) /\ x \in S \cup {x}
    BY <1>1
<1> HIDE DEF x
<1>3. /\ new \in Seq(S \cup {x}) /\ Len(new) = Len(d.order) + 1 /\ Len(d.order) \in Nat
      /\ new[Len(d.order) + 1] = x /\ \A i \in 1 .. Len(d.order) : new[i] = d.order[i]
    BY <1>2
<1>4. x.digest = digest /\ x.id = id
    BY DEF x, Entry
<1> HIDE DEF new
<1>5. e.order = new /\ e.by_id = ids /\ e.by_digest = digests
    OBVIOUS
<1>6. ASSUME NEW k \in DOMAIN ids PROVE \E i \in 1 .. Len(new) : new[i].id = k
  <2>1. CASE k \in DOMAIN d.by_id
    <3>1. PICK i \in 1 .. Len(d.order) : d.order[i].id = k
        BY <2>1 DEF Listed
    <3> QED BY <3>1, <1>3, SMTT(15)
  <2>2. CASE k = id
      BY <2>2, <1>3, <1>4, SMTT(15)
  <2> QED BY <2>1, <2>2
<1>7. ASSUME NEW k \in DOMAIN digests PROVE \E i \in 1 .. Len(new) : new[i].digest = k
  <2>1. CASE k \in DOMAIN d.by_digest
    <3>1. PICK i \in 1 .. Len(d.order) : d.order[i].digest = k
        BY <2>1 DEF Listed
    <3> QED BY <3>1, <1>3
  <2>2. CASE k = digest
      BY <2>2, <1>3, <1>4, SMTT(15)
  <2> QED BY <2>1, <2>2
<1>8. \E T : new \in Seq(T)
    BY <1>3
<1>9. Listed(e)
    BY <1>5, <1>6, <1>7, <1>8 DEF Listed
<1> QED BY <1>3, <1>5, <1>9 DEF new, x

LEMMA RememberListed ==
    ASSUME NEW d, Listed(d), NEW digest
    PROVE  Listed(remember_digest(d, digest)) /\ Len(remember_digest(d, digest).order) = Len(d.order) + 1
<1> DEFINE digests == Put(d.by_digest, digest)
<1>1. remember_digest(d, digest) = [by_id |-> d.by_id, by_digest |-> digests, order |-> Append(d.order, Entry(NoId, digest))]
  <2>1. remember_digest(d, digest) = [d EXCEPT !.by_digest = digests, !.order = Append(d.order, Entry(NoId, digest))]
      BY DEF remember_digest
  <2> QED BY <2>1, Fields DEF Listed
<1>2. DOMAIN digests \subseteq DOMAIN d.by_digest \cup {digest} /\ DOMAIN d.by_id \subseteq DOMAIN d.by_id \cup {NoId}
    BY DEF Put
<1> HIDE DEF digests
<1> QED BY <1>1, <1>2, AppendListed, SMTT(15)

\* evict leaves room for one entry, and forgets only what it takes out of the
\* queue.
LEMMA EvictListed ==
    ASSUME NEW d, Listed(d)
    PROVE  Listed(evict(d)) /\ Len(evict(d).order) <= cap - 1
<1> DEFINE n == Overflow(d)
           L == Len(d.order)
           rest == SubSeq(d.order, n + 1, L)
           gone == {d.order[i] : i \in 1 .. n}
           ids == Drop(d.by_id, {x.id : x \in gone})
           digests == Drop(d.by_digest, {x.digest : x \in gone})
<1>1. PICK S : d.order \in Seq(S)
    BY DEF Listed
<1>2. cap \in Nat \ {0} /\ L \in Nat
    BY <1>1, Constants
<1>3. n \in 0 .. L /\ n >= L - (cap - 1)
  <2>1. 0 \in Int /\ L - (cap - 1) \in Int
      BY <1>2
  <2>2. n \in {0, L - (cap - 1)} /\ n >= 0 /\ n >= L - (cap - 1)
      BY <2>1, MaxPair DEF Overflow
  <2> HIDE DEF n, L
  <2> QED BY <1>2, <2>2
<1>4. evict(d) = [by_id |-> ids, by_digest |-> digests, order |-> rest]
    BY DEF evict
<1>5. /\ rest \in Seq(S) /\ Len(rest) = L - n /\ \A i \in 1 .. L - n : rest[i] = d.order[n + i]
  <2>1. \A i \in n + 1 .. L : d.order[i] \in S
      BY <1>1, <1>2, <1>3, SMTT(15)
  <2>2. n + 1 \in Int /\ L \in Int
      BY <1>2, <1>3
  <2> HIDE DEF n, L
  <2>3. /\ SubSeq(d.order, n + 1, L) \in Seq(S)
        /\ Len(SubSeq(d.order, n + 1, L)) = IF n + 1 <= L THEN L - (n + 1) + 1 ELSE 0
        /\ \A i \in 1 .. L - (n + 1) + 1 : SubSeq(d.order, n + 1, L)[i] = d.order[(n + 1) + i - 1]
      BY <2>1, <2>2, SubSeqProperties, SMTT(15)
  <2>4. L - (n + 1) + 1 = L - n /\ (~(n + 1 <= L) => L - n = 0)
      BY <1>2, <1>3
  <2>5. \A i \in 1 .. L - n : (n + 1) + i - 1 = n + i
      BY <1>2, <1>3
  <2> QED BY <2>3, <2>4, <2>5
<1> HIDE DEF n, L, rest
<1>6. Len(rest) <= cap - 1
    BY <1>2, <1>3, <1>5
<1>7. ASSUME NEW k \in DOMAIN ids PROVE \E i \in 1 .. Len(rest) : rest[i].id = k
  <2>1. k \in DOMAIN d.by_id /\ k \notin {x.id : x \in gone}
      BY DEF Drop, Restrict
  <2>2. PICK i \in 1 .. L : d.order[i].id = k
      BY <2>1 DEF Listed, L
  <2>3. i \notin 1 .. n
      BY <2>1, <2>2
  <2>4. i - n \in 1 .. L - n /\ n + (i - n) = i
      BY <2>3, <1>2, <1>3
  <2>5. rest[i - n].id = k
      BY <2>2, <2>4, <1>5
  <2> QED BY <2>4, <2>5, <1>5
<1>8. ASSUME NEW k \in DOMAIN digests PROVE \E i \in 1 .. Len(rest) : rest[i].digest = k
  <2>1. k \in DOMAIN d.by_digest /\ k \notin {x.digest : x \in gone}
      BY DEF Drop, Restrict
  <2>2. PICK i \in 1 .. L : d.order[i].digest = k
      BY <2>1 DEF Listed, L
  <2>3. i \notin 1 .. n
      BY <2>1, <2>2
  <2>4. i - n \in 1 .. L - n /\ n + (i - n) = i
      BY <2>3, <1>2, <1>3
  <2>5. rest[i - n].digest = k
      BY <2>2, <2>4, <1>5
  <2> QED BY <2>4, <2>5, <1>5
<1> HIDE DEF ids, digests
<1>9. \E T : rest \in Seq(T)
    BY <1>5
<1>10. Listed(evict(d)) /\ evict(d).order = rest
    BY <1>4, <1>7, <1>8, <1>9, SMTT(15) DEF Listed
<1> QED BY <1>6, <1>10

LEMMA ObserveListed ==
    ASSUME NEW d, Listed(d), NEW msg
    PROVE  Listed(observe(d, msg)) /\ Len(observe(d, msg).order) <= cap
<1> DEFINE e == evict(remember_digest(d, text_digest(msg)))
           ids == Put(e.by_id, msg.id)
           digests == Put(e.by_digest, canonical_digest(msg))
<1>1. Listed(e) /\ Len(e.order) <= cap - 1
    BY RememberListed, EvictListed
<1>2. observe(d, msg) = [by_id |-> ids, by_digest |-> digests, order |-> Append(e.order, Entry(msg.id, canonical_digest(msg)))]
    BY DEF observe
<1> HIDE DEF e
<1>3. DOMAIN ids \subseteq DOMAIN e.by_id \cup {msg.id} /\ DOMAIN digests \subseteq DOMAIN e.by_digest \cup {canonical_digest(msg)}
    BY DEF Put
<1> HIDE DEF ids, digests
<1>4. Listed(observe(d, msg)) /\ Len(observe(d, msg).order) = Len(e.order) + 1
    BY <1>1, <1>2, <1>3, AppendListed, SMTT(15)
<1>5. Len(e.order) \in Nat
    BY <1>1 DEF Listed
<1> QED BY <1>1, <1>4, <1>5, Constants

LEMMA RepeatListed ==
    ASSUME NEW d, Listed(d), NEW digest, NEW n \in Nat
    PROVE  Listed(Repeat(d, digest, n)) /\ Len(Repeat(d, digest, n).order) = Len(d.order) + n
<1> DEFINE x == Entry(NoId, digest)
           more == [i \in 1 .. n |-> x]
           L == Len(d.order)
           new == d.order \o more
           digests == IF n = 0 THEN d.by_digest ELSE Put(d.by_digest, digest)
<1>1. PICK S : d.order \in Seq(S)
    BY DEF Listed
<1>2. d.order \in Seq(S \cup {x}) /\ L \in Nat
    BY <1>1
<1>3. more \in Seq(S \cup {x}) /\ Len(more) = n /\ \A i \in 1 .. n : more[i] = x
  <2> HIDE DEF x
  <2> QED OBVIOUS
<1>4. /\ new \in Seq(S \cup {x}) /\ Len(new) = L + n
      /\ \A i \in 1 .. L + n : new[i] = IF i <= L THEN d.order[i] ELSE more[i - L]
  <2> HIDE DEF x, more
  <2> QED BY <1>2, <1>3, ConcatProperties, ZenonT(40)
<1>5. Repeat(d, digest, n) = [by_id |-> d.by_id, by_digest |-> digests, order |-> new]
  <2>1. Repeat(d, digest, n) = [d EXCEPT !.by_digest = digests, !.order = new]
      BY DEF Repeat
  <2> QED BY <2>1, Fields DEF Listed
<1>6. DOMAIN digests \subseteq DOMAIN d.by_digest \cup {digest} /\ (n = 0 => DOMAIN digests = DOMAIN d.by_digest)
    BY DEF Put
<1>7. x.digest = digest
    BY DEF Entry
<1> HIDE DEF x, more, new, digests
<1>8. ASSUME NEW k \in DOMAIN d.by_id PROVE \E i \in 1 .. Len(new) : new[i].id = k
  <2>1. PICK i \in 1 .. L : d.order[i].id = k
      BY DEF Listed
  <2> QED BY <2>1, <1>2, <1>4, SMTT(40)
<1>9. ASSUME NEW k \in DOMAIN digests PROVE \E i \in 1 .. Len(new) : new[i].digest = k
  <2>1. CASE k \in DOMAIN d.by_digest
    <3>1. PICK i \in 1 .. L : d.order[i].digest = k
        BY <2>1 DEF Listed
    <3>2. i \in 1 .. L + n /\ i <= L
        BY <1>2
    <3>3. new[i] = d.order[i] /\ i \in 1 .. Len(new)
        BY <3>2, <1>4
    <3> QED BY <3>1, <3>3
  <2>2. CASE k \notin DOMAIN d.by_digest
    <3>1. k = digest /\ n # 0
        BY <2>2, <1>6
    <3>2. L + 1 \in 1 .. L + n /\ ~(L + 1 <= L) /\ L + 1 - L = 1 /\ 1 \in 1 .. n
        BY <3>1, <1>2
    <3>3. new[L + 1] = more[L + 1 - L]
        BY <3>2, <1>4, SMTT(40)
    <3>4. new[L + 1] = x
        BY <3>2, <3>3, <1>3
    <3> QED BY <3>1, <3>2, <3>4, <1>4, <1>7
  <2> QED BY <2>1, <2>2
<1>10. \E T : new \in Seq(T)
    BY <1>4
<1>11. Listed(Repeat(d, digest, n)) /\ Repeat(d, digest, n).order = new
    BY <1>5, <1>8, <1>9, <1>10, SMTT(15) DEF Listed
<1> QED BY <1>4, <1>11

Kept(d) == Listed(d) /\ Len(d.order) <= cap + Cardinality(Protocols) - 1

MemoryInv == /\ \A f \in air : f.protocol \in Protocols
             /\ dedup = [g \in Gateways |-> dedup[g]]
             /\ \A g \in Gateways : Kept(dedup[g])

LEMMA EmptyKept == Kept(EmptyDedup)
<1>1. Cardinality(Protocols) \in Nat /\ cap \in Nat \ {0}
    BY BridgeAssumption, Constants, FS_CardinalityType
<1>2. Listed(EmptyDedup)
  <2>1. EmptyDedup.by_id = <<>> /\ EmptyDedup.by_digest = <<>> /\ EmptyDedup.order = <<>>
      BY DEF EmptyDedup
  <2>2. EmptyDedup = [by_id |-> EmptyDedup.by_id, by_digest |-> EmptyDedup.by_digest, order |-> EmptyDedup.order]
      BY DEF EmptyDedup
  <2>3. <<>> \in Seq({}) /\ DOMAIN <<>> = {}
      OBVIOUS
  <2> QED BY <2>1, <2>2, <2>3 DEF Listed
<1>3. Len(EmptyDedup.order) = 0
    BY DEF EmptyDedup
<1> QED BY <1>1, <1>2, <1>3 DEF Kept

\* A message has at most one translation per other protocol.
LEMMA NewKept ==
    ASSUME NEW d, Listed(d), NEW msg, NEW digest, msg.protocol \in Protocols, NEW out \in SUBSET (Protocols \ {msg.protocol})
    PROVE  Kept(Repeat(observe(d, msg), digest, Cardinality(out)))
<1> DEFINE others == Protocols \ {msg.protocol}
           e == observe(d, msg)
           n == Cardinality(out)
<1>1. IsFiniteSet(Protocols) /\ cap \in Nat \ {0}
    BY BridgeAssumption, Constants
<1>2. IsFiniteSet(others) /\ Cardinality(others) = Cardinality(Protocols) - 1
    BY <1>1, FS_RemoveElement
<1>3. IsFiniteSet(out) /\ Cardinality(out) <= Cardinality(others)
    BY <1>2, FS_Subset
<1>4. n \in Nat /\ Cardinality(others) \in Nat /\ Cardinality(Protocols) \in Nat
    BY <1>1, <1>2, <1>3, FS_CardinalityType
<1>5. Listed(e) /\ Len(e.order) <= cap
    BY ObserveListed
<1>6. Len(e.order) \in Nat
    BY <1>5, SMTT(15) DEF Listed
<1> HIDE DEF e
<1>7. Listed(Repeat(e, digest, n)) /\ Len(Repeat(e, digest, n).order) = Len(e.order) + n
    BY <1>4, <1>5, RepeatListed
<1>8. Len(e.order) + n <= cap + Cardinality(Protocols) - 1
    BY <1>1, <1>2, <1>3, <1>4, <1>5, <1>6, SMTT(15)
<1> QED BY <1>7, <1>8 DEF Kept, e

LEMMA NextMemory == MemoryInv /\ [Next]_vars => MemoryInv'
<1> SUFFICES ASSUME MemoryInv, [Next]_vars PROVE MemoryInv'
    OBVIOUS
<1>1. ASSUME NEW g \in Gateways, NEW d, Kept(d), dedup' = [dedup EXCEPT ![g] = d], \A f \in air' : f.protocol \in Protocols
      PROVE  MemoryInv'
  <2>1. /\ dedup' = [h \in Gateways |-> dedup'[h]] /\ dedup'[g] = d
        /\ \A h \in Gateways : h # g => dedup'[h] = dedup[h]
      BY <1>1 DEF MemoryInv
  <2>2. \A h \in Gateways : Kept(dedup'[h])
      BY <1>1, <2>1 DEF MemoryInv
  <2> QED BY <1>1, <2>1, <2>2 DEF MemoryInv, Kept, Listed
<1>2. ASSUME NEW g \in Gateways, on_frame(g) PROVE MemoryInv'
  <2>1. PICK f \in air :
          LET msg == decode(f)
              d == expire(dedup[g])
          IN  \/ dedup' = [dedup EXCEPT ![g] = d] /\ UNCHANGED air
              \/ \E out \in SUBSET {to \in Targets(g, msg) : HasToken(tokens[g][to])} :
                   /\ dedup' = [dedup EXCEPT ![g] = Repeat(observe(d, msg), text_digest(translate(msg, msg.protocol)), Cardinality(out))]
                   /\ air' = air \cup {encode(to, g, translate(msg, to), NewIds(out)[to]) : to \in out}
      BY <1>2 DEF on_frame
  <2> DEFINE msg == decode(f)
             d == expire(dedup[g])
  <2>2. f.protocol \in Protocols /\ Kept(dedup[g])
      BY DEF MemoryInv
  <2>3. Listed(d) /\ d.order = dedup[g].order
      BY <2>2, ExpireListed DEF Kept
  <2>4. Kept(d)
      BY <2>2, <2>3 DEF Kept
  <2>5. msg.protocol = f.protocol
      BY DEF decode
  <2> HIDE DEF msg, d
  <2>6. CASE dedup' = [dedup EXCEPT ![g] = d] /\ UNCHANGED air
      BY <2>4, <2>6, <1>1 DEF MemoryInv
  <2>7. ASSUME NEW out \in SUBSET {to \in Targets(g, msg) : HasToken(tokens[g][to])},
               dedup' = [dedup EXCEPT ![g] = Repeat(observe(d, msg), text_digest(translate(msg, msg.protocol)), Cardinality(out))],
               air' = air \cup {encode(to, g, translate(msg, to), NewIds(out)[to]) : to \in out}
        PROVE  MemoryInv'
    <3>1. out \in SUBSET (Protocols \ {msg.protocol})
        BY DEF Targets
    <3>2. Kept(Repeat(observe(d, msg), text_digest(translate(msg, msg.protocol)), Cardinality(out)))
        BY <2>2, <2>3, <2>5, <3>1, NewKept
    <3>3. \A to, m, i : encode(to, g, m, i).protocol = to
        BY DEF encode
    <3>4. \A x \in air' : x.protocol \in Protocols
        BY <2>7, <3>1, <3>3, SMTT(15) DEF MemoryInv
    <3> QED BY <2>7, <3>2, <3>4, <1>1
  <2> QED BY <2>1, <2>6, <2>7 DEF msg, d
<1>3. ASSUME NEW g \in Gateways, restart(g) PROVE MemoryInv'
  <2>1. dedup' = [dedup EXCEPT ![g] = EmptyDedup] /\ UNCHANGED air
      BY <1>3 DEF restart
  <2> QED BY <2>1, <1>1, EmptyKept DEF MemoryInv
<1>4. ASSUME UNCHANGED dedup, \A f \in air' : f.protocol \in Protocols PROVE MemoryInv'
    BY <1>4, SMTT(15) DEF MemoryInv, Kept, Listed
<1>5. ASSUME NEW p \in Protocols, NEW t \in Texts, say(p, t) PROVE MemoryInv'
  <2>1. \A m, i : encode(p, User, m, i).protocol = p
      BY DEF encode
  <2> QED BY <1>4, <1>5, <2>1 DEF say, MemoryInv
<1>6. CASE tick \/ UNCHANGED vars
    BY <1>4, <1>6 DEF tick, vars, MemoryInv
<1> QED BY <1>2, <1>3, <1>5, <1>6 DEF Next

\* The Deduplicator's queue never exceeds its capacity by more than one entry
\* per translation, and every key it remembers is in the queue (observe,
\* evict, expire, remember_digest).
THEOREM MemoryBoundedHolds == Spec => []MemoryBounded
<1>1. Init => MemoryInv
    BY EmptyKept DEF Init, MemoryInv
<1>2. ASSUME MemoryInv PROVE MemoryBounded
  <2> SUFFICES ASSUME NEW g \in Gateways
               PROVE  LET d == dedup[g]
                          queued == {d.order[i] : i \in DOMAIN d.order}
                      IN  /\ Len(d.order) <= cap + Cardinality(Protocols) - 1
                          /\ DOMAIN d.by_digest \subseteq {e.digest : e \in queued}
                          /\ DOMAIN d.by_id \subseteq {e.id : e \in queued}
      BY DEF MemoryBounded
  <2>1. Listed(dedup[g]) /\ Len(dedup[g].order) <= cap + Cardinality(Protocols) - 1
      BY <1>2 DEF MemoryInv, Kept
  <2>2. DOMAIN dedup[g].order = 1 .. Len(dedup[g].order)
      BY <2>1 DEF Listed
  <2> QED BY <2>1, <2>2 DEF Listed
<1> QED BY <1>1, <1>2, NextMemory, PTL DEF Spec
-----------------------------------------------------------------------------
(* A text crosses once.                                                    *)

\* A key of the Deduplicator that is at least as young as c.
Knows(d, x, c) == x \in DOMAIN d.by_digest /\ d.by_digest[x] \in Nat /\ c <= d.by_digest[x]

\* What a gateway sent on within ttl and did not evict, it knows.
Remembered(g) ==
    \A x \in DOMAIN carried[g] :
        /\ carried[g][x] \in Nat /\ carried[g][x] <= clock
        /\ x \notin lost[g] /\ clock - carried[g][x] <= ttl => Knows(dedup[g], x, carried[g][x])

CrossInv ==
    /\ clock \in Nat
    /\ carried = [g \in Gateways |-> carried[g]]
    /\ lost = [g \in Gateways |-> lost[g]]
    /\ again = {}
    /\ \A g \in Gateways : Remembered(g)

LEMMA ExpireKnows ==
    ASSUME clock \in Nat, NEW d, Listed(d), NEW x, NEW c \in Nat, clock - c <= ttl, Knows(d, x, c)
    PROVE  Knows(expire(d), x, c)
<1>1. expire(d).by_digest = Young(d.by_digest)
  <2>1. expire(d) = [d EXCEPT !.by_id = Young(d.by_id), !.by_digest = Young(d.by_digest)]
      BY DEF expire
  <2>2. expire(d) = [by_id |-> Young(d.by_id), by_digest |-> Young(d.by_digest), order |-> d.order]
      BY <2>1, Fields DEF Listed
  <2> QED BY <2>2
<1>2. clock - d.by_digest[x] <= ttl
    BY Constants DEF Knows
<1>3. x \in DOMAIN Young(d.by_digest) /\ Young(d.by_digest)[x] = d.by_digest[x]
    BY <1>2 DEF Young, Restrict, Knows
<1> QED BY <1>1, <1>3 DEF Knows

LEMMA PutKnows ==
    ASSUME clock \in Nat, NEW d, NEW e, NEW y, e.by_digest = Put(d.by_digest, y)
    PROVE  /\ \A c \in Nat : c <= clock => Knows(e, y, c)
           /\ \A x : \A c \in Nat : c <= clock /\ Knows(d, x, c) => Knows(e, x, c)
<1> DEFINE f == d.by_digest
<1>1. DOMAIN e.by_digest = DOMAIN f \cup {y} /\ e.by_digest[y] = clock
    BY DEF Put
<1>2. \A x \in DOMAIN f : x # y => e.by_digest[x] = f[x]
    BY DEF Put
<1> QED BY <1>1, <1>2 DEF Knows

LEMMA RememberKnows ==
    ASSUME NEW d, Listed(d), NEW digest
    PROVE  remember_digest(d, digest).by_digest = Put(d.by_digest, digest)
<1>1. remember_digest(d, digest) = [d EXCEPT !.by_digest = Put(d.by_digest, digest), !.order = Append(d.order, Entry(NoId, digest))]
    BY DEF remember_digest
<1>2. remember_digest(d, digest) = [by_id |-> d.by_id, by_digest |-> Put(d.by_digest, digest), order |-> Append(d.order, Entry(NoId, digest))]
    BY <1>1, Fields DEF Listed
<1> QED BY <1>2

\* evict forgets no key but those of the entries it takes out of the queue.
LEMMA EvictKnows ==
    ASSUME NEW d, NEW x, NEW c, Knows(d, x, c), x \notin Dropped(d)
    PROVE  Knows(evict(d), x, c)
<1> DEFINE gone == {d.order[i] : i \in 1 .. Overflow(d)}
<1>1. evict(d).by_digest = Drop(d.by_digest, {e.digest : e \in gone})
    BY DEF evict
<1>2. x \notin {e.digest : e \in gone}
    BY DEF Dropped
<1> HIDE DEF gone
<1>3. /\ x \in DOMAIN Drop(d.by_digest, {e.digest : e \in gone})
      /\ Drop(d.by_digest, {e.digest : e \in gone})[x] = d.by_digest[x]
    BY <1>2 DEF Drop, Restrict, Knows
<1> QED BY <1>1, <1>3 DEF Knows

LEMMA ObserveKnows ==
    ASSUME clock \in Nat, NEW d, Listed(d), NEW msg, NEW x, NEW c \in Nat, c <= clock,
           Knows(d, x, c) \/ x = text_digest(msg), x \notin Dropped(remember_digest(d, text_digest(msg)))
    PROVE  Knows(observe(d, msg), x, c)
<1> DEFINE r == remember_digest(d, text_digest(msg))
           e == evict(r)
<1>1. Knows(r, x, c)
  <2>1. r.by_digest = Put(d.by_digest, text_digest(msg))
      BY RememberKnows
  <2> HIDE DEF r
  <2> QED BY <2>1, PutKnows
<1>2. Knows(e, x, c)
    BY <1>1, EvictKnows
<1>3. observe(d, msg).by_digest = Put(e.by_digest, canonical_digest(msg))
    BY DEF observe
<1> HIDE DEF e, r
<1> QED BY <1>2, <1>3, PutKnows

LEMMA RepeatKnows ==
    ASSUME clock \in Nat, NEW d, Listed(d), NEW digest, NEW n \in Nat, NEW x, NEW c \in Nat, c <= clock,
           Knows(d, x, c) \/ (n # 0 /\ x = digest)
    PROVE  Knows(Repeat(d, digest, n), x, c)
<1> DEFINE digests == IF n = 0 THEN d.by_digest ELSE Put(d.by_digest, digest)
           new == d.order \o [i \in 1 .. n |-> Entry(NoId, digest)]
<1>1. Repeat(d, digest, n).by_digest = digests
  <2>1. Repeat(d, digest, n) = [d EXCEPT !.by_digest = digests, !.order = new]
      BY DEF Repeat
  <2>2. Repeat(d, digest, n) = [by_id |-> d.by_id, by_digest |-> digests, order |-> new]
      BY <2>1, Fields DEF Listed
  <2> QED BY <2>2
<1>2. CASE n = 0
    BY <1>1, <1>2 DEF Knows
<1>3. CASE n # 0
    BY <1>1, <1>3, PutKnows
<1> QED BY <1>2, <1>3

\* What on_frame does to one gateway when the message is new.
LEMMA NewRemembered ==
    ASSUME MemoryInv, CrossInv, NEW g \in Gateways, NEW msg, NEW out, IsFiniteSet(out), UNCHANGED clock,
           NEW d, d = expire(dedup[g]), NEW on,
           dedup' = [dedup EXCEPT ![g] = Repeat(observe(d, msg), on, Cardinality(out))],
           carried' = IF out = {} THEN carried ELSE [carried EXCEPT ![g] = Put(Put(@, text_digest(msg)), on)],
           lost' = [lost EXCEPT ![g] = ((@ \ {text_digest(msg)}) \cup Dropped(remember_digest(d, text_digest(msg))))
                                           \ (IF out = {} THEN {} ELSE {on})]
    PROVE  Remembered(g)'
<1> DEFINE heard == text_digest(msg)
           n == Cardinality(out)
           D == Dropped(remember_digest(d, heard))
<1>1. Listed(dedup[g]) /\ Listed(d)
    BY ExpireListed DEF MemoryInv, Kept
<1>2. clock \in Nat /\ clock' = clock /\ n \in Nat /\ (n = 0 <=> out = {})
    BY FS_CardinalityType, FS_EmptySet DEF CrossInv
<1>3. dedup'[g] = Repeat(observe(d, msg), on, n) /\ Listed(observe(d, msg))
    BY <1>1, ObserveListed DEF MemoryInv
<1>4. lost'[g] = ((lost[g] \ {heard}) \cup D) \ (IF out = {} THEN {} ELSE {on})
    BY DEF CrossInv
<1>5. carried'[g] = IF out = {} THEN carried[g] ELSE Put(Put(carried[g], heard), on)
    BY DEF CrossInv
<1> HIDE DEF n, D
<1> SUFFICES ASSUME NEW x \in DOMAIN carried'[g]
             PROVE  /\ carried'[g][x] \in Nat /\ carried'[g][x] <= clock
                    /\ x \notin lost'[g] /\ clock - carried'[g][x] <= ttl => Knows(dedup'[g], x, carried'[g][x])
    BY <1>2 DEF Remembered, Knows
<1>6. CASE out # {} /\ x = on
  <2>1. carried'[g][x] = clock
    <3>1. carried'[g] = Put(Put(carried[g], heard), on)
        BY <1>5, <1>6
    <3>2. \A f : Put(f, on)[on] = clock
        BY DEF Put
    <3> QED BY <1>6, <3>1, <3>2
  <2>2. Knows(Repeat(observe(d, msg), on, n), x, clock)
      BY <1>2, <1>3, <1>6, RepeatKnows, SMTT(15)
  <2> QED BY <1>2, <1>3, <2>1, <2>2, SMTT(15)
<1>7. CASE ~(out # {} /\ x = on)
  <2>1. carried'[g][x] \in Nat /\ carried'[g][x] <= clock
    <3>1. CASE x \in DOMAIN carried[g] /\ carried'[g][x] = carried[g][x]
        BY <3>1 DEF CrossInv, Remembered
    <3>2. CASE carried'[g][x] = clock
        BY <1>2, <3>2
    <3> QED BY <1>5, <1>7, <3>1, <3>2, SMTT(15) DEF Put
  <2>2. ASSUME x \notin lost'[g], clock - carried'[g][x] <= ttl PROVE Knows(dedup'[g], x, carried'[g][x])
    <3>1. x \notin D
        BY <1>4, <1>7, <2>2
    <3>2. x = heard \/ Knows(d, x, carried'[g][x])
      <4> SUFFICES ASSUME x # heard PROVE Knows(d, x, carried'[g][x])
          OBVIOUS
      <4>1. x \in DOMAIN carried[g] /\ carried'[g][x] = carried[g][x]
          BY <1>5, <1>7, SMTT(15) DEF Put
      <4>2. x \notin lost[g]
          BY <1>4, <1>7, <2>2
      <4>3. Knows(dedup[g], x, carried[g][x])
          BY <2>2, <4>1, <4>2 DEF CrossInv, Remembered
      <4> QED BY <1>1, <1>2, <2>1, <2>2, <4>1, <4>3, ExpireKnows
    <3>3. Knows(observe(d, msg), x, carried'[g][x])
        BY <1>1, <1>2, <2>1, <3>1, <3>2, ObserveKnows DEF D
    <3> QED BY <1>2, <1>3, <2>1, <3>3, RepeatKnows
  <2> QED BY <2>1, <2>2
<1> QED BY <1>6, <1>7

\* A gateway that stays as it is, or only expires keys.
LEMMA OldRemembered ==
    ASSUME MemoryInv, CrossInv, NEW g \in Gateways, UNCHANGED <<carried, lost>>, clock' \in Nat, clock <= clock',
           dedup'[g] = dedup[g] \/ (dedup'[g] = expire(dedup[g]) /\ clock' = clock)
    PROVE  Remembered(g)'
<1>1. Listed(dedup[g]) /\ clock \in Nat
    BY DEF MemoryInv, Kept, CrossInv
<1> SUFFICES ASSUME NEW x \in DOMAIN carried[g]
             PROVE  /\ carried[g][x] \in Nat /\ carried[g][x] <= clock'
                    /\ x \notin lost[g] /\ clock' - carried[g][x] <= ttl => Knows(dedup'[g], x, carried[g][x])
    BY DEF Remembered, Knows
<1>2. carried[g][x] \in Nat /\ carried[g][x] <= clock
    BY DEF CrossInv, Remembered
<1>3. ASSUME x \notin lost[g], clock' - carried[g][x] <= ttl PROVE Knows(dedup'[g], x, carried[g][x])
  <2>1. clock - carried[g][x] <= ttl
      BY <1>1, <1>2, <1>3, Constants
  <2>2. Knows(dedup[g], x, carried[g][x])
      BY <1>3, <2>1 DEF CrossInv, Remembered
  <2> QED BY <1>1, <1>2, <2>1, <2>2, ExpireKnows
<1> QED BY <1>1, <1>2, <1>3

LEMMA NextCrosses == MemoryInv /\ CrossInv /\ [Next]_vars => CrossInv'
<1> SUFFICES ASSUME MemoryInv, CrossInv, [Next]_vars PROVE CrossInv'
    OBVIOUS
<1>0. clock \in Nat
    BY DEF CrossInv
<1>1. ASSUME NEW g \in Gateways, NEW f \in air, IsNew(expire(dedup[g]), decode(f)), UNCHANGED clock,
             NEW out \in SUBSET {to \in Targets(g, decode(f)) : HasToken(tokens[g][to])},
             NEW heard, heard = text_digest(decode(f)), NEW on, NEW d, d = expire(dedup[g]),
             dedup' = [dedup EXCEPT ![g] = Repeat(observe(d, decode(f)), on, Cardinality(out))],
             carried' = IF out = {} THEN carried ELSE [carried EXCEPT ![g] = Put(Put(@, heard), on)],
             again' = IF out # {} /\ Repeats(g, heard) THEN again \cup {<<g, heard>>} ELSE again,
             lost' = [lost EXCEPT ![g] = ((@ \ {heard}) \cup Dropped(remember_digest(d, heard))) \ (IF out = {} THEN {} ELSE {on})]
      PROVE  CrossInv'
  <2>1. ~Repeats(g, heard)
    <3> SUFFICES ASSUME Repeats(g, heard) PROVE FALSE
        OBVIOUS
    <3>1. heard \in DOMAIN carried[g] \ lost[g] /\ clock - carried[g][heard] <= ttl
        BY DEF Repeats
    <3>2. carried[g][heard] \in Nat /\ Knows(dedup[g], heard, carried[g][heard])
        BY <3>1 DEF CrossInv, Remembered
    <3>3. Knows(expire(dedup[g]), heard, carried[g][heard])
        BY <1>0, <3>1, <3>2, ExpireKnows DEF MemoryInv, Kept
    <3> QED BY <1>1, <3>3 DEF Knows, IsNew
  <2>2. IsFiniteSet(out)
      BY BridgeAssumption, FS_Subset DEF Targets
  <2>3. Remembered(g)'
      BY <1>1, <2>2, NewRemembered
  <2>4. ASSUME NEW h \in Gateways, h # g PROVE Remembered(h)'
    <3>1. dedup'[h] = dedup[h] /\ carried'[h] = carried[h] /\ lost'[h] = lost[h] /\ clock' = clock
        BY <1>1, <2>4 DEF MemoryInv, CrossInv
    <3> QED BY <3>1 DEF CrossInv, Remembered, Knows
  <2>5. carried' = [h \in Gateways |-> carried'[h]] /\ lost' = [h \in Gateways |-> lost'[h]]
      BY <1>1 DEF CrossInv
  <2> QED BY <1>0, <1>1, <2>1, <2>3, <2>4, <2>5 DEF CrossInv
<1>2. ASSUME UNCHANGED <<carried, lost, again>>, clock' \in Nat, clock <= clock',
             \A g \in Gateways : dedup'[g] = dedup[g] \/ (dedup'[g] = expire(dedup[g]) /\ clock' = clock)
      PROVE  CrossInv'
  <2>1. \A g \in Gateways : Remembered(g)'
      BY <1>2, OldRemembered
  <2> QED BY <1>2, <2>1 DEF CrossInv
<1>3. ASSUME NEW g \in Gateways, on_frame(g) PROVE CrossInv'
  <2> DEFINE d == expire(dedup[g])
  <2>1. PICK f \in air :
          LET msg == decode(f)
              heard == text_digest(msg)
              on == text_digest(translate(msg, msg.protocol))
          IN  /\ UNCHANGED clock
              /\ \/ dedup' = [dedup EXCEPT ![g] = d] /\ UNCHANGED <<carried, lost, again>>
                 \/ /\ IsNew(d, msg)
                    /\ \E out \in SUBSET {to \in Targets(g, msg) : HasToken(tokens[g][to])} :
                         /\ dedup' = [dedup EXCEPT ![g] = Repeat(observe(d, msg), on, Cardinality(out))]
                         /\ carried' = IF out = {} THEN carried ELSE [carried EXCEPT ![g] = Put(Put(@, heard), on)]
                         /\ again' = IF out # {} /\ Repeats(g, heard) THEN again \cup {<<g, heard>>} ELSE again
                         /\ lost' = [lost EXCEPT ![g] = ((@ \ {heard}) \cup Dropped(remember_digest(d, heard)))
                                                            \ (IF out = {} THEN {} ELSE {on})]
      BY <1>3 DEF on_frame, histories
  <2>2. CASE dedup' = [dedup EXCEPT ![g] = d] /\ UNCHANGED <<carried, lost, again>>
    <3>1. \A h \in Gateways : dedup'[h] = dedup[h] \/ dedup'[h] = expire(dedup[h])
        BY <2>2 DEF MemoryInv
    <3> QED BY <1>0, <1>2, <2>1, <2>2, <3>1, SMTT(15)
  <2>3. CASE ~(dedup' = [dedup EXCEPT ![g] = d] /\ UNCHANGED <<carried, lost, again>>)
    <3> DEFINE heard == text_digest(decode(f))
               on == text_digest(translate(decode(f), decode(f).protocol))
    <3>1. PICK out \in SUBSET {to \in Targets(g, decode(f)) : HasToken(tokens[g][to])} :
            /\ dedup' = [dedup EXCEPT ![g] = Repeat(observe(d, decode(f)), on, Cardinality(out))]
            /\ carried' = IF out = {} THEN carried ELSE [carried EXCEPT ![g] = Put(Put(@, heard), on)]
            /\ again' = IF out # {} /\ Repeats(g, heard) THEN again \cup {<<g, heard>>} ELSE again
            /\ lost' = [lost EXCEPT ![g] = ((@ \ {heard}) \cup Dropped(remember_digest(d, heard)))
                                               \ (IF out = {} THEN {} ELSE {on})]
        BY <2>1, <2>3
    <3>2. IsNew(d, decode(f)) /\ UNCHANGED clock
        BY <2>1, <2>3
    <3> HIDE DEF on
    <3> QED BY <1>1, <3>1, <3>2
  <2> QED BY <2>2, <2>3
<1>4. ASSUME NEW g \in Gateways, restart(g) PROVE CrossInv'
  <2>1. /\ carried' = [carried EXCEPT ![g] = <<>>] /\ lost' = [lost EXCEPT ![g] = {}]
        /\ dedup' = [dedup EXCEPT ![g] = EmptyDedup] /\ UNCHANGED <<clock, again>>
      BY <1>4 DEF restart
  <2>2. carried'[g] = <<>> /\ DOMAIN <<>> = {}
      BY <2>1 DEF CrossInv
  <2>3. ASSUME NEW h \in Gateways PROVE Remembered(h)'
    <3>1. CASE h = g
        BY <2>2, <3>1 DEF Remembered
    <3>2. CASE h # g
      <4>1. dedup'[h] = dedup[h] /\ carried'[h] = carried[h] /\ clock' = clock
          BY <2>1, <3>2 DEF MemoryInv, CrossInv
      <4>2. lost'[h] = lost[h]
          BY <2>1, <3>2 DEF CrossInv
      <4> QED BY <4>1, <4>2 DEF CrossInv, Remembered, Knows
    <3> QED BY <3>1, <3>2
  <2> QED BY <2>1, <2>3 DEF CrossInv
<1>5. CASE tick \/ (\E p \in Protocols, t \in Texts : say(p, t)) \/ UNCHANGED vars
  <2>1. UNCHANGED <<dedup, carried, lost, again>> /\ clock' \in {clock, clock + 1}
      BY <1>5 DEF tick, say, vars, histories
  <2> QED BY <1>0, <1>2, <2>1, SMTT(15)
<1> QED BY <1>3, <1>4, <1>5 DEF Next

\* For any gateways, protocols (with timestamps or without), rules, capacity
\* and lifetime a gateway sends a text on once within the lifetime, unless it
\* evicted the key in between (observe, remember_digest in bridge_one).
THEOREM CrossesOnceHolds == Spec => []CrossesOnce
<1>1. Init => MemoryInv /\ CrossInv
  <2> SUFFICES ASSUME Init PROVE MemoryInv /\ CrossInv
      OBVIOUS
  <2>1. MemoryInv
      BY EmptyKept DEF Init, MemoryInv
  <2>2. \A g \in Gateways : carried[g] = <<>> /\ DOMAIN <<>> = {}
      BY DEF Init
  <2>3. \A g \in Gateways : Remembered(g)
      BY <2>2 DEF Remembered
  <2> QED BY <2>1, <2>3 DEF Init, CrossInv
<1>2. CrossInv => CrossesOnce
    BY DEF CrossInv, CrossesOnce
<1> QED BY <1>1, <1>2, NextMemory, NextCrosses, PTL DEF Spec
=============================================================================

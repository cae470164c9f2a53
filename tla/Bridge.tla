------------------------------- MODULE Bridge -------------------------------
(***************************************************************************)
(* Gateways that translate text messages between radio protocols           *)
(* (meshstar-protocols/src/bridge: Gateway::on_frame and bridge_one,       *)
(* Deduplicator, LoopGuard, Policy, translate, the token Bucket).          *)
(*                                                                         *)
(* A frame on the air may be heard by any gateway any number of times: the *)
(* foreign networks relay it.  A text is a user's words behind the sender  *)
(* prefixes that translations put before it.  Time counts the buckets in   *)
(* which the digests see timestamps.  For text messages of public channels *)
(* the policy depends on the two protocols only.                           *)
(***************************************************************************)
EXTENDS Integers, Sequences, FiniteSets, FiniteSetsExt, Functions

CONSTANTS Gateways, Texts, User,
          Protocols,
          Stamped,         \* the protocols whose frames carry the time of sending
          Rules,           \* the policy's rules for public text, in order
          cap, ttl,        \* of the Deduplicator
          max_crossings,   \* of the LoopGuard
          Burst, Refill,   \* of the token buckets, Refill per bucket of time
          MaxFrames,       \* bound: frames ever sent
          MaxClock,        \* bound: time
          MaxRestarts      \* bound: gateway restarts

ASSUME BridgeAssumption ==
    /\ IsFiniteSet(Protocols) /\ Stamped \subseteq Protocols
    /\ User \notin Gateways
    /\ Rules \in Seq([from : SUBSET Protocols, to : SUBSET Protocols, allow : BOOLEAN])
    /\ {cap, Burst} \subseteq Nat \ {0}
    /\ {ttl, max_crossings, Refill, MaxFrames, MaxClock, MaxRestarts} \subseteq Nat

VARIABLES air,       \* the frames sent so far
          clock,
          dedup,     \* per gateway: the Deduplicator
          tokens,    \* per gateway and target: the Bucket
          restarts,
          carried,   \* history: per gateway, when it last sent a text of this digest on
          again,     \* history: <<gateway, digest>> sent on twice within ttl, and not lost
          lost,      \* history: per gateway, digests since dropped for lack of room
          framesOut  \* history: frames since the last restart, per gateway and target

vars == <<air, clock, dedup, tokens, restarts, carried, again, lost, framesOut>>
histories == <<carried, again, lost, framesOut>>

NoTime == -1
NoId == 0

EmptyDedup == [by_id |-> <<>>, by_digest |-> <<>>, order |-> <<>>]

Init == /\ air = {}
        /\ clock = 0
        /\ dedup = [g \in Gateways |-> EmptyDedup]
        /\ tokens = [g \in Gateways |-> [p \in Protocols |-> [tokens |-> Burst, last |-> 0]]]
        /\ restarts = 0
        /\ carried = [g \in Gateways |-> <<>>]
        /\ again = {}
        /\ lost = [g \in Gateways |-> {}]
        /\ framesOut = [g \in Gateways |-> [p \in Protocols |-> 0]]

-----------------------------------------------------------------------------
(* Messages                                                                *)

\* The time put into a frame: a protocol without a timestamp drops it, one
\* with a timestamp takes the message's own or the present.
Stamp(p, ts) == IF p \notin Stamped THEN NoTime ELSE IF ts # NoTime THEN ts ELSE clock

\* encode, by the node `local`: of the message's own source and of its
\* provenance (bridge_path) nothing goes on the air.
encode(p, local, msg, id) ==
    [protocol |-> p, source |-> local, prefixes |-> msg.prefixes, text |-> msg.text,
     ts |-> Stamp(p, msg.ts), id |-> id]

decode(f) ==
    [protocol |-> f.protocol, source |-> f.source, prefixes |-> f.prefixes, text |-> f.text,
     ts |-> f.ts, id |-> f.id, bridge_path |-> <<>>]

\* translate, with sender_prefix: who spoke goes in front.
translate(msg, to) ==
    [msg EXCEPT !.protocol = to, !.id = NoId, !.prefixes = <<msg.source>> \o @]

-----------------------------------------------------------------------------
(* Deduplicator                                                            *)

\* One sender prefix is stripped.
text_digest(msg) ==
    [source |-> "any", destination |-> "any", prefixes |-> IF msg.prefixes = <<>> THEN <<>> ELSE Tail(msg.prefixes),
     text |-> msg.text, ts |-> msg.ts]

\* A message is broadcast within its protocol.
canonical_digest(msg) ==
    [source |-> msg.source, destination |-> msg.protocol, prefixes |-> msg.prefixes, text |-> msg.text, ts |-> msg.ts]

Entry(id, digest) == [id |-> id, digest |-> digest]
Put(f, x) == [y \in DOMAIN f \cup {x} |-> IF y = x THEN clock ELSE f[y]]
Drop(f, S) == Restrict(f, DOMAIN f \ S)
Young(f) == Restrict(f, {x \in DOMAIN f : clock - f[x] <= ttl})

expire(d) == [d EXCEPT !.by_id = Young(@), !.by_digest = Young(@)]

IsNew_ForgetsText(d, msg) ==      \* mutant
    /\ msg.id \notin DOMAIN d.by_id
    /\ canonical_digest(msg) \notin DOMAIN d.by_digest

IsNew(d, msg) ==
    /\ msg.id \notin DOMAIN d.by_id
    /\ {canonical_digest(msg), text_digest(msg)} \cap DOMAIN d.by_digest = {}

Overflow(d) == Max({0, Len(d.order) - (cap - 1)})

evict_KeepsOne(d) ==     \* mutant: the queue grows
    LET n == IF Overflow(d) > 0 THEN Overflow(d) - 1 ELSE 0
        gone == {d.order[i] : i \in 1 .. n}
    IN  [by_id |-> Drop(d.by_id, {e.id : e \in gone}),
         by_digest |-> Drop(d.by_digest, {e.digest : e \in gone}),
         order |-> SubSeq(d.order, n + 1, Len(d.order))]

\* The oldest entries make room for one more.
evict(d) ==
    LET n == Overflow(d)
        gone == {d.order[i] : i \in 1 .. n}
    IN  [by_id |-> Drop(d.by_id, {e.id : e \in gone}),
         by_digest |-> Drop(d.by_digest, {e.digest : e \in gone}),
         order |-> SubSeq(d.order, n + 1, Len(d.order))]

Dropped(d) == {d.order[i].digest : i \in 1 .. Overflow(d)}

remember_digest(d, digest) ==
    [d EXCEPT !.by_digest = Put(@, digest), !.order = Append(@, Entry(NoId, digest))]

\* observe, for a message that is new.
observe(d, msg) ==
    LET e == evict(remember_digest(d, text_digest(msg)))
    IN  [by_id |-> Put(e.by_id, msg.id),
         by_digest |-> Put(e.by_digest, canonical_digest(msg)),
         order |-> Append(e.order, Entry(msg.id, canonical_digest(msg)))]

-----------------------------------------------------------------------------
(* Policy, loop guard and rate limit                                       *)

\* The first rule that matches decides; none denies.
Matching(msg, to) == {i \in DOMAIN Rules : msg.protocol \in Rules[i].from /\ to \in Rules[i].to}
evaluate(msg, to) == Matching(msg, to) # {} /\ Rules[Min(Matching(msg, to))].allow

LoopFree(g, msg, to) ==
    /\ Len(msg.bridge_path) < max_crossings
    /\ to # msg.protocol
    /\ \A i \in DOMAIN msg.bridge_path :
           LET hop == msg.bridge_path[i] IN hop.gateway # g /\ to \notin {hop.from, hop.to}

Refilled_NotTaken(b) == [tokens |-> Burst, last |-> clock]     \* mutant: a new bucket each time
Refilled(b) == [tokens |-> Min({Burst, b.tokens + (clock - b.last) * Refill}), last |-> clock]

HasToken(b) == Refilled(b).tokens >= 1
Take(b) == IF HasToken(b) THEN [Refilled(b) EXCEPT !.tokens = @ - 1] ELSE Refilled(b)

-----------------------------------------------------------------------------
(* Actions                                                                 *)

\* A user of network p sends a text.
say(p, t) ==
    /\ Cardinality(air) < MaxFrames
    /\ air' = air \cup {encode(p, User, [prefixes |-> <<>>, text |-> t, ts |-> NoTime], Cardinality(air) + 1)}
    /\ UNCHANGED <<clock, dedup, tokens, restarts, histories>>

\* bridge_all: the targets for which bridge_one reaches the rate limit.
Targets(g, msg) == {to \in Protocols \ {msg.protocol} : evaluate(msg, to) /\ LoopFree(g, msg, to)}

Repeat(d, digest, n) ==
    [d EXCEPT !.by_digest = IF n = 0 THEN @ ELSE Put(@, digest),
              !.order = @ \o [i \in 1 .. n |-> Entry(NoId, digest)]]

\* Fresh ids for the frames sent to these targets.
NewIds(out) == CHOOSE f \in Injection(out, (Cardinality(air) + 1) .. (Cardinality(air) + Cardinality(out))) : TRUE

\* A text of this digest went on within ttl, and its key was not evicted.
Repeats(g, digest) == digest \in DOMAIN carried[g] \ lost[g] /\ clock - carried[g][digest] <= ttl

\* on_frame (and bridge_message, for what the node itself received); encoding
\* may fail after the token is taken.
on_frame(g) ==
    \E f \in air :
        LET msg == decode(f)
            d == expire(dedup[g])
            targets == Targets(g, msg)
            afforded == {to \in targets : HasToken(tokens[g][to])}
            heard == text_digest(msg)
            carriedOn == text_digest(translate(msg, msg.protocol))     \* the same for every target
        IN  /\ UNCHANGED <<clock, restarts>>
            /\ \/ /\ ~IsNew(d, msg)
                  /\ dedup' = [dedup EXCEPT ![g] = d]
                  /\ UNCHANGED <<air, tokens, histories>>
               \/ /\ IsNew(d, msg)
                  /\ \E out \in SUBSET afforded :
                       /\ Cardinality(air) + Cardinality(out) <= MaxFrames
                       /\ dedup' = [dedup EXCEPT ![g] = Repeat(observe(d, msg), carriedOn, Cardinality(out))]
                       /\ air' = air \cup {encode(to, g, translate(msg, to), NewIds(out)[to]) : to \in out}
                       /\ tokens' = [tokens EXCEPT ![g] = [to \in Protocols |-> IF to \in targets THEN Take(@[to]) ELSE @[to]]]
                       /\ carried' = IF out = {} THEN carried ELSE [carried EXCEPT ![g] = Put(Put(@, heard), carriedOn)]
                       /\ again' = IF out # {} /\ Repeats(g, heard) THEN again \cup {<<g, heard>>} ELSE again
                       /\ lost' = [lost EXCEPT ![g] = ((@ \ {heard}) \cup Dropped(remember_digest(d, heard)))
                                                          \ (IF out = {} THEN {} ELSE {carriedOn})]
                       /\ framesOut' = [framesOut EXCEPT ![g] = [to \in Protocols |-> IF to \in out THEN @[to] + 1 ELSE @[to]]]

\* Gateway::new again: everything is forgotten.
restart(g) ==
    /\ restarts < MaxRestarts
    /\ restarts' = restarts + 1
    /\ dedup' = [dedup EXCEPT ![g] = EmptyDedup]
    /\ tokens' = [tokens EXCEPT ![g] = [p \in Protocols |-> [tokens |-> Burst, last |-> 0]]]
    /\ carried' = [carried EXCEPT ![g] = <<>>]
    /\ lost' = [lost EXCEPT ![g] = {}]
    /\ framesOut' = [framesOut EXCEPT ![g] = [p \in Protocols |-> 0]]
    /\ UNCHANGED <<air, clock, again>>

tick ==
    /\ clock < MaxClock
    /\ clock' = clock + 1
    /\ UNCHANGED <<air, dedup, tokens, restarts, histories>>

Next == \/ \E p \in Protocols, t \in Texts : say(p, t)
        \/ \E g \in Gateways : on_frame(g) \/ restart(g)
        \/ tick

Spec == Init /\ [][Next]_vars

-----------------------------------------------------------------------------
(* Properties                                                              *)

\* The token bucket of bridge_one: whatever arrives, a gateway puts on a
\* network no more than the burst and what the refill allows since it
\* started, however long the bucket was idle.
RateBound ==
    \A g \in Gateways, p \in Protocols : framesOut[g][p] <= Burst + Refill * clock

\* The Deduplicator is bounded: its queue never exceeds cap by more than one
\* entry per translation of the last message, and every key it remembers is
\* in the queue and so will leave.
MemoryBounded ==
    \A g \in Gateways :
        LET d == dedup[g]
            queued == {d.order[i] : i \in DOMAIN d.order}
        IN  /\ Len(d.order) <= cap + Cardinality(Protocols) - 1
            /\ DOMAIN d.by_digest \subseteq {e.digest : e \in queued}
            /\ DOMAIN d.by_id \subseteq {e.id : e \in queued}

\* A gateway sends a text on once within the deduplicator's lifetime, although
\* it hears its own translations and the relayed originals back: as heard and
\* as translated, up to the sender prefix in front (observe, text_digest and
\* the digest bridge_one remembers), unless the key was evicted meanwhile.
CrossesOnce == again = {}
=============================================================================

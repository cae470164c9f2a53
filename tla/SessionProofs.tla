--------------------------- MODULE SessionProofs ---------------------------
(***************************************************************************)
(* Proofs, for every window size and counter space, that a session opens   *)
(* each plaintext at most once, that its replay window is exact, that no   *)
(* wire counter is used twice, and that it implements AtMostOnce.          *)
(*                                                                         *)
(* Fragments do not weaken it: for every size of a packet, limit of the    *)
(* reassembler and number of fragment ids, what reassembly hands to        *)
(* decrypt is a sealed frame or does not authenticate, so a fragmented     *)
(* session implements SessionTransport and keeps what is proved of it.     *)
(*                                                                         *)
(* And the reassembler keeps its books: its byte count is the sum of what  *)
(* it holds, within the limits, and no message waits whose fragments all   *)
(* came.  The sums are those of the community modules.                     *)
(***************************************************************************)
EXTENDS FragmentedSession, TLAPS

\* Time for the provers.
USE ZenonT(10), SMTT(15)

\* Every frame on the air was produced by encrypt: its wire counter did not
\* wrap, so it is the index of its plaintext.
AirInv == \A f \in air : f.ctr = f.plain /\ f.plain < send_ctr

\* The window and the history agree position by position.
WindowInv ==
    /\ replay.accepted_any => replay.top \in Plaintexts
    /\ \A p \in Plaintexts :
          /\ opened[p] \in {0, 1}
          /\ ~replay.accepted_any => opened[p] = 0
          /\ p > replay.top => opened[p] = 0
          /\ (replay.accepted_any /\ p <= replay.top /\ replay.top - p < SIZE)
                => (replay.top - p \in replay.bitmap <=> opened[p] = 1)

\* The inductive invariant: NoReplay alone says nothing of what the bitmap
\* remembers, and WindowExact nothing of which frames can still arrive.
IInv == TypeOK /\ AirInv /\ WindowInv

LEMMA InitIInv == Init => IInv
<1> SUFFICES ASSUME Init PROVE IInv
    OBVIOUS
<1> USE SizeAssumption, CounterAssumption
<1>1. TypeOK
    BY DEF Init, TypeOK, Window, NewWindow, Plaintexts, Positions
<1>2. AirInv
    BY DEF Init, AirInv
<1>3. WindowInv
    BY DEF Init, WindowInv, NewWindow, Plaintexts
<1> QED BY <1>1, <1>2, <1>3 DEF IInv

\* Recording a counter that passed check keeps the window well formed.
LEMMA RecordedType ==
    ASSUME NEW w \in Window, NEW c \in Nat, check(w, c)
    PROVE  accept(w, c) \in Window
<1> USE SizeAssumption DEF Window, accept, Recorded, ShiftedBitmap, Positions, check
<1>1. CASE ~w.accepted_any
    BY <1>1, SMTT(15)
<1>2. CASE w.accepted_any /\ c > w.top
  <2>1. ShiftedBitmap(w.bitmap, c - w.top) \cup {0} \in SUBSET Positions
      BY SMTT(15)
  <2>2. accept(w, c) = [top |-> c, bitmap |-> ShiftedBitmap(w.bitmap, c - w.top) \cup {0},
                        accepted_any |-> w.accepted_any]
      BY <1>2
  <2> QED BY <2>1, <2>2
<1>3. CASE w.accepted_any /\ ~(c > w.top)
    BY <1>3, SMTT(15)
<1> QED BY <1>1, <1>2, <1>3

\* What the window says of a counter p after recording c: c itself is set,
\* everything else still inside the window keeps its bit.
LEMMA RecordedBits ==
    ASSUME NEW w \in Window, NEW c \in Nat, check(w, c), w.accepted_any
    PROVE  LET v == accept(w, c) IN
           /\ v.accepted_any
           /\ v.top = (IF c > w.top THEN c ELSE w.top)
           /\ \A p \in Nat : (p <= v.top /\ v.top - p < SIZE) =>
                 (v.top - p \in v.bitmap
                    <=> (p = c \/ (p <= w.top /\ w.top - p \in w.bitmap)))
<1> DEFINE v == accept(w, c)
<1> USE SizeAssumption
<1>1. CASE c > w.top
  <2>1. v = [w EXCEPT !.top = c, !.bitmap = ShiftedBitmap(w.bitmap, c - w.top) \cup {0}]
      BY <1>1 DEF accept, Recorded
  <2>2. v.top = c /\ v.accepted_any /\ v.bitmap = ShiftedBitmap(w.bitmap, c - w.top) \cup {0}
      BY <2>1 DEF Window
  <2>3. ASSUME NEW p \in Nat, p <= c, c - p < SIZE
        PROVE  c - p \in v.bitmap <=> (p = c \/ (p <= w.top /\ w.top - p \in w.bitmap))
    <3>1. c - p \in Positions /\ (c - p) - (c - w.top) = w.top - p
        BY <2>3, SMTT(15) DEF Positions, Window
    <3>2. c - p \in ShiftedBitmap(w.bitmap, c - w.top) <=> w.top - p \in w.bitmap
        BY <3>1 DEF ShiftedBitmap
    <3>3. w.top - p \in w.bitmap => p <= w.top
        BY SMTT(15) DEF Window, Positions
    <3> QED BY <2>2, <2>3, <3>2, <3>3, SMTT(15) DEF Window
  <2> QED BY <1>1, <2>2, <2>3
<1>2. CASE ~(c > w.top)
  <2>1. v = [w EXCEPT !.bitmap = @ \cup {w.top - c}]
      BY <1>2 DEF accept, Recorded
  <2>2. v.top = w.top /\ v.accepted_any /\ v.bitmap = w.bitmap \cup {w.top - c}
      BY <2>1 DEF Window
  <2> QED BY <1>2, <2>2, SMTT(15) DEF Window
<1> QED BY <1>1, <1>2

\* The step that matters: opening a frame.
LEMMA DecryptWindow ==
    ASSUME IInv, NEW f \in air, decrypt(f)
    PROVE  WindowInv' /\ f.plain \in Plaintexts /\ opened[f.plain] = 0
<1> USE SizeAssumption, CounterAssumption
<1> DEFINE c == f.ctr
<1>1. c \in Plaintexts /\ f.plain = c /\ c \in Nat /\ replay \in Window
    BY SMTT(15) DEF IInv, TypeOK, AirInv, Frames, Plaintexts
<1>2. check(replay, c) /\ replay' = accept(replay, c)
      /\ opened' = [opened EXCEPT ![c] = @ + 1]
    BY <1>1 DEF decrypt
<1>3. opened[c] = 0
    BY <1>1, <1>2, SMTT(15) DEF IInv, WindowInv, check, Window, Plaintexts
<1>4. \A p \in Plaintexts : opened'[p] = (IF p = c THEN 1 ELSE opened[p])
    BY <1>1, <1>2, <1>3, SMTT(15) DEF IInv, TypeOK
<1>5. CASE ~replay.accepted_any
  <2>1. replay' = [top |-> c, bitmap |-> {0}, accepted_any |-> TRUE]
      BY <1>2, <1>5 DEF accept, Recorded
  <2>2. replay'.top = c /\ replay'.bitmap = {0} /\ replay'.accepted_any
      BY <2>1
  <2>3. \A p \in Plaintexts : opened[p] = 0
      BY <1>5 DEF IInv, WindowInv
  <2> QED BY <1>1, <1>3, <1>4, <2>2, <2>3, SMTT(15) DEF WindowInv, Plaintexts
<1>6. CASE replay.accepted_any
  <2>1. /\ replay'.accepted_any
        /\ replay'.top = (IF c > replay.top THEN c ELSE replay.top)
        /\ \A p \in Nat : (p <= replay'.top /\ replay'.top - p < SIZE) =>
              (replay'.top - p \in replay'.bitmap
                 <=> (p = c \/ (p <= replay.top /\ replay.top - p \in replay.bitmap)))
      BY <1>1, <1>2, <1>6, RecordedBits
  <2>2. replay.top \in Plaintexts
      BY <1>6 DEF IInv, WindowInv
  <2>3. replay'.top \in Plaintexts
      BY <1>1, <2>1, <2>2
  <2>4. ASSUME NEW p \in Plaintexts
        PROVE  /\ opened'[p] \in {0, 1}
               /\ p > replay'.top => opened'[p] = 0
               /\ (p <= replay'.top /\ replay'.top - p < SIZE)
                    => (replay'.top - p \in replay'.bitmap <=> opened'[p] = 1)
    <3>1. /\ opened[p] \in {0, 1}
          /\ p > replay.top => opened[p] = 0
          /\ (p <= replay.top /\ replay.top - p < SIZE)
                => (replay.top - p \in replay.bitmap <=> opened[p] = 1)
        BY <1>6 DEF IInv, WindowInv
    <3>2. p \in Nat
        BY DEF Plaintexts
    <3> QED BY <1>1, <1>4, <2>1, <2>2, <3>1, <3>2, SMTT(15) DEF Plaintexts
  <2> QED BY <1>1, <1>3, <2>1, <2>3, <2>4 DEF WindowInv
<1> QED BY <1>1, <1>3, <1>5, <1>6

LEMMA NextIInv == IInv /\ [Next]_vars => IInv'
<1> SUFFICES ASSUME IInv, [Next]_vars PROVE IInv'
    OBVIOUS
<1> USE SizeAssumption, CounterAssumption
<1>1. CASE encrypt
  <2>1. send_ctr < CtrSpace /\ send_ctr \in Nat /\ WireCounter(send_ctr) = send_ctr
      BY <1>1 DEF encrypt, IInv, TypeOK, WireCounter
  <2>2. [ctr |-> WireCounter(send_ctr), plain |-> send_ctr, intact |-> TRUE] \in Frames
      BY <1>1, <2>1 DEF encrypt, Frames, Plaintexts
  <2>3. TypeOK'
    <3>1. send_ctr' \in 0 .. COUNTER_REKEY_THRESHOLD
        BY <1>1, <2>1 DEF encrypt
    <3>2. air' \subseteq Frames
        BY <1>1, <2>2 DEF encrypt, IInv, TypeOK
    <3>3. replay' \in Window /\ opened' \in [Plaintexts -> Nat]
        BY <1>1 DEF encrypt, IInv, TypeOK
    <3> QED BY <3>1, <3>2, <3>3 DEF TypeOK
  <2>4. AirInv'
      BY <1>1, <2>1, SMTT(15) DEF encrypt, IInv, TypeOK, AirInv, Frames, Plaintexts
  <2>5. WindowInv'
      BY <1>1 DEF encrypt, IInv, WindowInv
  <2> QED BY <2>3, <2>4, <2>5 DEF IInv
<1>2. ASSUME NEW f \in air, decrypt(f) PROVE IInv'
  <2>1. WindowInv' /\ f.plain \in Plaintexts
      BY <1>2, DecryptWindow
  <2>2. accept(replay, f.ctr) \in Window
      BY <1>2, RecordedType, SMTT(15) DEF decrypt, IInv, TypeOK, Frames
  <2>3. TypeOK'
      BY <1>2, <2>1, <2>2, SMTT(15) DEF decrypt, IInv, TypeOK
  <2>4. AirInv'
      BY <1>2 DEF decrypt, IInv, AirInv
  <2> QED BY <2>1, <2>3, <2>4 DEF IInv
<1>3. ASSUME NEW f \in air, decryptFails(f) PROVE IInv'
    BY <1>3 DEF decryptFails, vars, IInv, TypeOK, AirInv, WindowInv
<1>4. ASSUME NEW f \in air, Damage(f) PROVE IInv'
  <2>1. f \in Frames
      BY DEF IInv, TypeOK
  <2>2. /\ [f EXCEPT !.intact = FALSE] \in Frames
        /\ [f EXCEPT !.intact = FALSE].ctr = f.ctr
        /\ [f EXCEPT !.intact = FALSE].plain = f.plain
      BY <2>1 DEF Frames
  <2> QED BY <1>4, <2>2 DEF Damage, IInv, TypeOK, AirInv, WindowInv
<1>5. ASSUME NEW f \in air, Lose(f) PROVE IInv'
    BY <1>5 DEF Lose, IInv, TypeOK, AirInv, WindowInv
<1>6. CASE UNCHANGED vars
    BY <1>6 DEF vars, IInv, TypeOK, AirInv, WindowInv
<1> QED BY <1>1, <1>2, <1>3, <1>4, <1>5, <1>6 DEF Next

\* The invariant holds in every reachable state.
LEMMA InvariantHolds == Spec => []IInv
BY InitIInv, NextIInv, PTL DEF Spec

\* Every variable keeps its type, in particular send_ctr never passes
\* COUNTER_REKEY_THRESHOLD (Session::encrypt).
THEOREM TypeCorrect == Spec => []TypeOK
<1>1. IInv => TypeOK
    BY DEF IInv
<1> QED BY <1>1, InvariantHolds, PTL

\* Session::decrypt opens no plaintext twice, whatever the network repeats.
THEOREM NoReplayHolds == Spec => []NoReplay
<1>1. IInv => NoReplay
    BY DEF IInv, WindowInv, NoReplay, Plaintexts
<1> QED BY <1>1, InvariantHolds, PTL

\* ReplayWindow::check refuses exactly what was opened or is SIZE behind.
THEOREM WindowExactHolds == Spec => []WindowExact
<1>1. IInv => WindowExact
    BY SizeAssumption, CounterAssumption, SMTT(40)
    DEF IInv, TypeOK, WindowInv, WindowExact, check, Window, Plaintexts
<1> QED BY <1>1, InvariantHolds, PTL

\* Session::encrypt never uses a wire counter for two plaintexts.
THEOREM NonceUniqueHolds == Spec => []NonceUnique
<1>1. IInv => NonceUnique
    BY DEF IInv, AirInv, NonceUnique
<1> QED BY <1>1, InvariantHolds, PTL

\* Every step of the session is a step of AtMostOnce or leaves it unchanged:
\* the session implements what it promises the layer above.
THEOREM SessionImplementsAtMostOnce == Spec => ImplementsAtMostOnce
<1> USE SizeAssumption, CounterAssumption
<1>1. Init => Promise!Init
    BY DEF Init, Promise!Init, Plaintexts
<1>2. IInv /\ [Next]_vars => [Promise!Next]_(Promise!vars)
  <2> SUFFICES ASSUME IInv, [Next]_vars PROVE [Promise!Next]_(Promise!vars)
      OBVIOUS
  <2>1. CASE encrypt
      BY <2>1 DEF encrypt, Promise!Next, Promise!Hand
  <2>2. ASSUME NEW f \in air, decrypt(f) PROVE Promise!Next
    <3>1. f.plain \in Plaintexts /\ opened[f.plain] = 0
        BY <2>2, DecryptWindow
    <3>2. f.plain < send_ctr
        BY DEF IInv, AirInv
    <3>3. opened' = [opened EXCEPT ![f.plain] = 1] /\ UNCHANGED send_ctr
        BY <2>2, <3>1, SMTT(15) DEF decrypt, IInv, TypeOK
    <3>4. Promise!Open(f.plain)
        BY <3>1, <3>2, <3>3 DEF Promise!Open
    <3> QED BY <3>1, <3>4 DEF Promise!Next, Plaintexts
  <2>3. CASE UNCHANGED <<send_ctr, opened>>
      BY <2>3 DEF Promise!vars
  <2> QED BY <2>1, <2>2, <2>3 DEF Next, decryptFails, Damage, Lose, vars
<1> QED BY <1>1, <1>2, InvariantHolds, PTL DEF Spec, ImplementsAtMostOnce, Promise!Spec

-----------------------------------------------------------------------------
(* Sequences.                                                              *)

LEMMA SeqIs == ASSUME NEW U, NEW s \in Seq(U)
               PROVE  Len(s) \in Nat /\ DOMAIN s = 1 .. Len(s) /\ \A i \in 1 .. Len(s) : s[i] \in U
OBVIOUS

LEMMA SeqWider == ASSUME NEW U, NEW V, NEW s \in Seq(U), U \subseteq V
                  PROVE  s \in Seq(V)
OBVIOUS

LEMMA SeqSame == ASSUME NEW U, NEW s \in Seq(U), NEW t \in Seq(U), Len(s) = Len(t),
                        \A i \in 1 .. Len(s) : s[i] = t[i]
                 PROVE  s = t
OBVIOUS

LEMMA EmptyIs == ASSUME NEW U PROVE <<>> \in Seq(U) /\ Len(<<>>) = 0
OBVIOUS

LEMMA TailIs == ASSUME NEW U, NEW s \in Seq(U), s # <<>>
                PROVE  /\ Len(s) # 0 /\ Head(s) = s[1]
                       /\ Tail(s) \in Seq(U) /\ Len(Tail(s)) = Len(s) - 1
                       /\ \A i \in 1 .. Len(s) - 1 : Tail(s)[i] = s[i + 1]
OBVIOUS

LEMMA AppendIs == ASSUME NEW U, NEW s \in Seq(U), NEW e \in U
                  PROVE  /\ Append(s, e) \in Seq(U) /\ Len(Append(s, e)) = Len(s) + 1
                         /\ \A i \in 1 .. Len(s) : Append(s, e)[i] = s[i]
                         /\ Append(s, e)[Len(s) + 1] = e
OBVIOUS

LEMMA ExceptIs == ASSUME NEW U, NEW s \in Seq(U), NEW i \in 1 .. Len(s), NEW e \in U
                  PROVE  /\ [s EXCEPT ![i] = e] \in Seq(U) /\ Len([s EXCEPT ![i] = e]) = Len(s)
                         /\ \A j \in 1 .. Len(s) : [s EXCEPT ![i] = e][j] = IF j = i THEN e ELSE s[j]
OBVIOUS

LEMMA SubSeqIs == ASSUME NEW U, NEW s, NEW m \in Int, NEW n \in Int, \A i \in m .. n : s[i] \in U
                  PROVE  /\ SubSeq(s, m, n) \in Seq(U)
                         /\ Len(SubSeq(s, m, n)) = IF m <= n THEN n - m + 1 ELSE 0
                         /\ \A i \in 1 .. n - m + 1 : SubSeq(s, m, n)[i] = s[m + i - 1]
OBVIOUS

LEMMA ConcatIs == ASSUME NEW U, NEW s \in Seq(U), NEW t \in Seq(U)
                  PROVE  /\ s \o t \in Seq(U) /\ Len(s \o t) = Len(s) + Len(t)
                         /\ \A i \in 1 .. Len(s) + Len(t) :
                               (s \o t)[i] = IF i <= Len(s) THEN s[i] ELSE t[i - Len(s)]
OBVIOUS

-----------------------------------------------------------------------------
(* Finite sets.  The facts are shown at the end, where the library and its *)
(* hundreds of theorems come into sight (Finite).                          *)

FiniteFacts ==
    /\ IsFiniteSet({}) /\ Cardinality({}) = 0
    /\ \A S, T : IsFiniteSet(S) /\ T \in SUBSET S => IsFiniteSet(T)
    /\ \A S, x : IsFiniteSet(S) => /\ IsFiniteSet(S \cup {x})
                                   /\ (x \notin S => Cardinality(S \cup {x}) = Cardinality(S) + 1)
    /\ \A m, n \in Int : IsFiniteSet(m .. n) /\ (m <= n => Cardinality(m .. n) = n - m + 1)
    /\ \A S, h, I : IsFiniteSet(S) /\ (\A y \in I : \E x \in S : y = h[x]) => IsFiniteSet(I)
    /\ \A S, B : IsFiniteSet(S) /\ B \in SUBSET (SUBSET S) /\ B # {}
                   => \E T \in B : \A U \in SUBSET T : U # T => U \notin B

LEMMA FiniteSubset == ASSUME FiniteFacts, NEW S, IsFiniteSet(S), NEW T \in SUBSET S
                      PROVE  IsFiniteSet(T)
BY DEF FiniteFacts

LEMMA FiniteMore == ASSUME FiniteFacts, NEW S, IsFiniteSet(S), NEW x
                    PROVE  IsFiniteSet(S \cup {x})
BY DEF FiniteFacts

LEMMA FiniteMap == ASSUME FiniteFacts, NEW S, IsFiniteSet(S), NEW h
                   PROVE  IsFiniteSet({h[x] : x \in S})
<1> DEFINE I == {h[x] : x \in S}
<1>1. \A y \in I : \E x \in S : y = h[x]
    OBVIOUS
<1> HIDE DEF I
<1>2. IsFiniteSet(I)
    BY <1>1 DEF FiniteFacts
<1> QED BY <1>2 DEF I

\* Among some subsets of a finite set there is a smallest one.
LEMMA Smallest ==
    ASSUME FiniteFacts, NEW S, IsFiniteSet(S), NEW B \in SUBSET (SUBSET S), B # {}
    PROVE  \E T \in B : \A U \in SUBSET T : U # T => U \notin B
BY DEF FiniteFacts

-----------------------------------------------------------------------------
(* Sums over finite sets.                                                  *)

\* The equation of the function that SumFunctionOnSet picks.
SumStep(f, S, iter) ==
    iter = [s \in SUBSET S |-> IF s = {} THEN 0 ELSE f[CHOOSE x \in s : TRUE] + iter[s \ {CHOOSE x \in s : TRUE}]]

\* What a sum is, by the sum of one element less.
SumBy(f, s) == IF s = {} THEN 0 ELSE f[CHOOSE x \in s : TRUE] + SumFunctionOnSet(f, s \ {CHOOSE x \in s : TRUE})

\* SumFunctionOnSet is the value of a function that solves the equation.
LEMMA SumUnfolds ==
    ASSUME NEW f, NEW S
    PROVE  SumFunctionOnSet(f, S) = (CHOOSE iter : SumStep(f, S, iter))[S]
BY DEF SumFunctionOnSet, FoldFunctionOnSet, MapThenFoldSet, SumStep

\* The equation has a solution on a finite set, and one only: were there
\* subsets on which the sum is anything else, a smallest one would be wrong.
LEMMA SumDefined ==
    ASSUME FiniteFacts, NEW f, NEW S, IsFiniteSet(S)
    PROVE  SumFunctionOnSet(f, S) = SumBy(f, S)
<1> DEFINE B == {T \in SUBSET S : SumFunctionOnSet(f, T) # SumBy(f, T)}
           c(s) == CHOOSE x \in s : TRUE
<1> SUFFICES ASSUME B # {} PROVE FALSE
    OBVIOUS
<1>1. PICK T \in B : \A U \in SUBSET T : U # T => U \notin B
  <2>1. B \in SUBSET (SUBSET S)
      OBVIOUS
  <2> HIDE DEF B
  <2> QED BY <2>1, Smallest
<1>2. \A U \in SUBSET T : U # T => SumFunctionOnSet(f, U) = SumBy(f, U)
    BY <1>1
<1>3. \A s : s # {} => c(s) \in s
    OBVIOUS
<1> DEFINE g == [s \in SUBSET T |-> SumBy(f, s)]
<1>4. SumStep(f, T, g)
  <2>1. ASSUME NEW s \in SUBSET T, s # {} PROVE SumFunctionOnSet(f, s \ {c(s)}) = g[s \ {c(s)}]
      BY <1>2, <1>3, <2>1
  <2>2. ASSUME NEW s \in SUBSET T PROVE SumBy(f, s) = IF s = {} THEN 0 ELSE f[c(s)] + g[s \ {c(s)}]
    <3>1. SumBy(f, s) = IF s = {} THEN 0 ELSE f[c(s)] + SumFunctionOnSet(f, s \ {c(s)})
        BY DEF SumBy
    <3> HIDE DEF c, g
    <3> QED BY <2>1, <3>1
  <2> HIDE DEF g, c
  <2>3. g = [s \in SUBSET T |-> IF s = {} THEN 0 ELSE f[c(s)] + g[s \ {c(s)}]]
      BY <2>2 DEF g
  <2> QED BY <2>3 DEF SumStep, c
<1> DEFINE i == CHOOSE iter : SumStep(f, T, iter)
<1>5. SumStep(f, T, i)
    BY <1>4
<1>6. \A s \in SUBSET T : i[s] = IF s = {} THEN 0 ELSE f[c(s)] + i[s \ {c(s)}]
  <2> HIDE DEF i
  <2> QED BY <1>5 DEF SumStep
<1> HIDE DEF i
<1>7. \A s \in SUBSET T : i[s] = SumBy(f, s)
  <2> DEFINE C == {s \in SUBSET T : i[s] # SumBy(f, s)}
  <2> SUFFICES ASSUME C # {} PROVE FALSE
      OBVIOUS
  <2>1. IsFiniteSet(T)
      BY FiniteSubset
  <2>2. PICK s \in C : \A U \in SUBSET s : U # s => U \notin C
    <3>1. C \in SUBSET (SUBSET T)
        OBVIOUS
    <3> HIDE DEF C
    <3> QED BY <2>1, <3>1, Smallest
  <2>3. s # {}
      BY <1>6 DEF SumBy
  <2>4. i[s \ {c(s)}] = SumBy(f, s \ {c(s)})
      BY <1>3, <2>2, <2>3
  <2>5. SumFunctionOnSet(f, s \ {c(s)}) = SumBy(f, s \ {c(s)})
      BY <1>2, <1>3, <2>3
  <2>6. i[s] = f[c(s)] + SumFunctionOnSet(f, s \ {c(s)})
      BY <1>6, <2>3, <2>4, <2>5
  <2> QED BY <2>3, <2>6 DEF SumBy
<1>8. SumFunctionOnSet(f, T) = i[T]
    BY SumUnfolds DEF i
<1> QED BY <1>1, <1>7, <1>8

\* The sum over nothing.
LEMMA SumEmpty == ASSUME FiniteFacts, NEW f PROVE SumFunctionOnSet(f, {}) = 0
    BY SumDefined DEF SumBy, FiniteFacts

\* Any element may be taken out first.
LEMMA SumTake ==
    ASSUME FiniteFacts, NEW f, NEW S, IsFiniteSet(S), \A x \in S : f[x] \in Nat
    PROVE  /\ SumFunctionOnSet(f, S) \in Nat
           /\ \A x \in S : SumFunctionOnSet(f, S) = f[x] + SumFunctionOnSet(f, S \ {x})
<1> DEFINE sum(s) == SumFunctionOnSet(f, s)
           Good(s) == sum(s) \in Nat /\ \A x \in s : sum(s) = f[x] + sum(s \ {x})
           B == {T \in SUBSET S : ~Good(T)}
           c(s) == CHOOSE x \in s : TRUE
<1> SUFFICES ASSUME B # {} PROVE FALSE
    OBVIOUS
<1>1. PICK T \in B : \A U \in SUBSET T : U # T => U \notin B
  <2>1. B \in SUBSET (SUBSET S)
      OBVIOUS
  <2> HIDE DEF B
  <2> QED BY <2>1, Smallest
<1>2. \A U \in SUBSET T : U # T => Good(U)
    BY <1>1
<1>3. IsFiniteSet(T)
    BY FiniteSubset
<1>4. T # {}
  <2>1. SumFunctionOnSet(f, {}) \in Nat
      BY SumEmpty
  <2> QED BY <2>1
<1>5. c(T) \in T
    BY <1>4
<1>6. sum(T) = f[c(T)] + sum(T \ {c(T)})
    BY <1>3, <1>4, SumDefined DEF SumBy
<1>7. sum(T \ {c(T)}) \in Nat /\ f[c(T)] \in Nat
    BY <1>2, <1>5
<1>8. ASSUME NEW x \in T PROVE sum(T) = f[x] + sum(T \ {x})
  <2>1. CASE x = c(T)
      BY <1>6, <2>1
  <2>2. CASE x # c(T)
    <3> DEFINE R == T \ {c(T), x}
    <3>1. (T \ {c(T)}) \ {x} = R /\ (T \ {x}) \ {c(T)} = R
        OBVIOUS
    <3>2. sum(T \ {c(T)}) = f[x] + sum(R)
        BY <1>2, <1>5, <2>2, <3>1, SMTT(15)
    <3>3. sum(T \ {x}) = f[c(T)] + sum(R)
        BY <1>2, <1>5, <2>2, <3>1, SMTT(15)
    <3>4. sum(R) \in Nat /\ f[x] \in Nat
        BY <1>2, <1>5
    <3> HIDE DEF R, sum, c
    <3> QED BY <1>6, <1>7, <3>2, <3>3, <3>4, SMTT(15)
  <2> QED BY <2>1, <2>2
<1>9. sum(T) \in Nat
  <2> HIDE DEF sum, c
  <2> QED BY <1>6, <1>7, SMTT(15)
<1>10. Good(T)
  <2> HIDE DEF sum
  <2> QED BY <1>8, <1>9
<1> QED BY <1>1, <1>10

\* The sums of two functions are equal when one is a renaming of the other.
LEMMA SumRenamed ==
    ASSUME FiniteFacts, NEW f, NEW S, IsFiniteSet(S), \A x \in S : f[x] \in Nat,
           NEW g, NEW h, \A x \in S : g[h[x]] = f[x], \A x, y \in S : h[x] = h[y] => x = y
    PROVE  SumFunctionOnSet(g, {h[x] : x \in S}) = SumFunctionOnSet(f, S)
<1> DEFINE img(s) == {h[x] : x \in s}
           B == {T \in SUBSET S : SumFunctionOnSet(g, img(T)) # SumFunctionOnSet(f, T)}
<1> SUFFICES ASSUME B # {} PROVE FALSE
    OBVIOUS
<1>1. PICK T \in B : \A U \in SUBSET T : U # T => U \notin B
  <2>1. B \in SUBSET (SUBSET S)
      OBVIOUS
  <2> HIDE DEF B
  <2> QED BY <2>1, Smallest
<1>2. T # {}
    BY <1>1, SumEmpty
<1>3. PICK x \in T : TRUE
    BY <1>2
<1>4. SumFunctionOnSet(g, img(T \ {x})) = SumFunctionOnSet(f, T \ {x})
    BY <1>1
<1>5. IsFiniteSet(T) /\ IsFiniteSet(img(T))
  <2>1. IsFiniteSet(T)
      BY FiniteSubset
  <2>2. IsFiniteSet(img(T))
      BY <2>1, FiniteMap, SMTT(15)
  <2> QED BY <2>1, <2>2
<1>6. img(T) \ {h[x]} = img(T \ {x}) /\ h[x] \in img(T)
    BY SMTT(15)
<1>7. SumFunctionOnSet(f, T) = f[x] + SumFunctionOnSet(f, T \ {x})
    BY <1>5, SumTake, SMTT(15)
<1>8. \A y \in img(T) : g[y] \in Nat
    BY SMTT(15)
<1>9. SumFunctionOnSet(g, img(T)) = g[h[x]] + SumFunctionOnSet(g, img(T) \ {h[x]})
    BY <1>5, <1>6, <1>8, SumTake, SMTT(15)
<1> QED BY <1>1, <1>4, <1>6, <1>7, <1>9

\* The sum over a set is that over a part and that over the rest.
LEMMA SumSplit ==
    ASSUME FiniteFacts, NEW f, NEW S, IsFiniteSet(S), \A x \in S : f[x] \in Nat, NEW R \in SUBSET S
    PROVE  SumFunctionOnSet(f, S) = SumFunctionOnSet(f, R) + SumFunctionOnSet(f, S \ R)
<1> DEFINE sum(s) == SumFunctionOnSet(f, s)
           B == {T \in SUBSET S : sum(S) # sum(T) + sum(S \ T)}
<1> SUFFICES ASSUME B # {} PROVE FALSE
    OBVIOUS
<1>1. PICK T \in B : \A U \in SUBSET T : U # T => U \notin B
  <2>1. B \in SUBSET (SUBSET S)
      OBVIOUS
  <2> HIDE DEF B
  <2> QED BY <2>1, Smallest
<1>0. \A s \in SUBSET S : IsFiniteSet(s) /\ sum(s) \in Nat
    BY FiniteSubset, SumTake
<1>2. T # {}
  <2>1. S \ {} = S /\ sum({}) = 0
      BY SumEmpty
  <2>2. sum(S) = sum({}) + sum(S \ {})
    <3>1. sum(S) \in Nat
        BY <1>0
    <3> HIDE DEF sum
    <3> QED BY <2>1, <3>1
  <2> QED BY <2>2
<1>3. PICK x \in T : TRUE
    BY <1>2
<1>4. sum(S) = sum(T \ {x}) + sum(S \ (T \ {x}))
    BY <1>1
<1>5. sum(T) = f[x] + sum(T \ {x})
    BY <1>0, SumTake, SMTT(15)
<1>6. sum(S \ (T \ {x})) = f[x] + sum((S \ (T \ {x})) \ {x})
    BY <1>0, SumTake, SMTT(15)
<1>7. (S \ (T \ {x})) \ {x} = S \ T
    OBVIOUS
<1>8. f[x] \in Nat /\ sum(T \ {x}) \in Nat /\ sum(S \ T) \in Nat
    BY <1>0
<1>9. sum(S) = sum(T) + sum(S \ T)
  <2>1. sum(S \ (T \ {x})) = f[x] + sum(S \ T)
      BY <1>6, <1>7
  <2> DEFINE a == sum(T \ {x})
             b == sum(S \ T)
  <2>2. sum(S) = a + (f[x] + b) /\ sum(T) = f[x] + a /\ a \in Nat /\ b \in Nat /\ f[x] \in Nat
      BY <1>4, <1>5, <1>8, <2>1
  <2> HIDE DEF a, b
  <2>3. a + (f[x] + b) = (f[x] + a) + b
      BY <2>2
  <2> QED BY <2>2, <2>3 DEF b
<1> QED BY <1>9

\* Functions that agree on a set have the same sum over it.
LEMMA SumSame ==
    ASSUME FiniteFacts, NEW f, NEW g, NEW S, IsFiniteSet(S), \A x \in S : f[x] \in Nat /\ g[x] = f[x]
    PROVE  SumFunctionOnSet(g, S) = SumFunctionOnSet(f, S)
<1> DEFINE h == [x \in S |-> x]
<1>1. /\ \A x \in S : f[x] \in Nat /\ g[h[x]] = f[x]
      /\ \A x, y \in S : h[x] = h[y] => x = y
      /\ {h[x] : x \in S} = S
    OBVIOUS
<1> HIDE DEF h
<1>2. SumFunctionOnSet(g, {h[x] : x \in S}) = SumFunctionOnSet(f, S)
    BY <1>1, SumRenamed, SMTT(15)
<1> QED BY <1>1, <1>2

\* The sum over one element.
LEMMA SumOne ==
    ASSUME FiniteFacts, NEW f, NEW x, f[x] \in Nat
    PROVE  SumFunctionOnSet(f, {x}) = f[x]
<1>1. IsFiniteSet({x}) /\ {x} \ {x} = {}
  <2>1. IsFiniteSet({})
      BY DEF FiniteFacts
  <2>2. IsFiniteSet({} \cup {x})
      BY <2>1, FiniteMore
  <2>3. {} \cup {x} = {x} /\ {x} \ {x} = {}
      OBVIOUS
  <2> QED BY <2>2, <2>3
<1>2. SumFunctionOnSet(f, {x}) = f[x] + SumFunctionOnSet(f, {x} \ {x})
    BY <1>1, SumTake
<1> QED BY <1>1, <1>2, SumEmpty

-----------------------------------------------------------------------------
(* The table of a Reassembler and what it holds.                           *)

\* The packets of a message are of one key and total, and have a place in it.
PacketsOK ==
    /\ \A q \in packets :
          /\ q.size \in Nat /\ q.total \in Nat \ {0} /\ q.index \in 0 .. q.total - 1
          /\ q.of.plain = Unknown.plain \/ q.of.plain \in 0 .. send_ctr - 1
          /\ q.of.plain = Unknown.plain <=> q.src # Peer
    /\ \A q, r \in packets : q.of.plain = r.of.plain => Key(q) = Key(r) /\ q.total = r.total

\* A piece of message m, in place j of total, under a key, is of a packet in pk.
PieceOf(m, j, total, key, pk) ==
    \E q \in pk : q.of.plain = m /\ q.index = j /\ q.total = total /\ Key(q) = key

\* A set is counted with what it holds, and it is not complete.
Sound(s, pk) ==
    /\ s.total \in Nat \ {0}
    /\ IsFiniteSet(DOMAIN s.parts) /\ Cardinality(DOMAIN s.parts) # s.total
    /\ s.bytes = SizeOf(s)
    /\ \A j \in DOMAIN s.parts : s.parts[j].size \in Nat /\ PieceOf(s.parts[j].of.plain, j, s.total, s.key, pk)

\* A table of such sets, one for each key.
Table(ss, pk) ==
    /\ \E U : ss \in Seq(U)
    /\ \A i \in DOMAIN ss : Sound(ss[i], pk)
    /\ \A i, j \in DOMAIN ss : ss[i].key = ss[j].key => i = j

\* The piece in place j of set s is of message m.
In(s, m, j) == j \in DOMAIN s.parts /\ s.parts[j].of.plain = m

\* Some set has it.
Holds(ss, m, j) == \E i \in DOMAIN ss : In(ss[i], m, j)

\* The inductive invariant: what came of a message that waits is held.
TableInv ==
    /\ send_ctr \in 0 .. COUNTER_REKEY_THRESHOLD
    /\ PacketsOK /\ Table(sets, packets) /\ HeldWithinLimits
    /\ \A c \in came : c[1] # Unknown.plain /\ Holds(sets, c[1], c[2])

\* The bytes of a set are a number.
LEMMA SizeNat == ASSUME FiniteFacts, NEW s, NEW pk, Sound(s, pk)
                 PROVE  SizeOf(s) \in Nat
<1> DEFINE f == [j \in DOMAIN s.parts |-> s.parts[j].size]
<1>1. /\ IsFiniteSet(DOMAIN s.parts) /\ DOMAIN f = DOMAIN s.parts
      /\ \A j \in DOMAIN s.parts : f[j] \in Nat
    BY DEF Sound
<1>2. SizeOf(s) = SumFunctionOnSet(f, DOMAIN s.parts)
    BY DEF SizeOf, SumFunction
<1> HIDE DEF f
<1> QED BY <1>1, <1>2, SumTake, ZenonT(40)

\* The bytes of each set.
Weights(ss) == [i \in DOMAIN ss |-> SizeOf(ss[i])]

\* The bytes of a table are the sum of its weights.
LEMMA HeldIs == ASSUME FiniteFacts, NEW ss, NEW pk, Table(ss, pk)
                PROVE  /\ Held(ss) = SumFunctionOnSet(Weights(ss), DOMAIN ss)
                       /\ IsFiniteSet(DOMAIN ss)
                       /\ \A i \in DOMAIN ss : /\ Weights(ss)[i] \in Nat /\ Weights(ss)[i] = SizeOf(ss[i])
                                               /\ ss[i].bytes = SizeOf(ss[i])
                       /\ Held(ss) \in Nat
<1>1. Held(ss) = SumFunctionOnSet(Weights(ss), DOMAIN ss)
    BY DEF Held, Weights, SumFunction
<1>2. IsFiniteSet(DOMAIN ss)
  <2>1. PICK U : ss \in Seq(U)
      BY DEF Table
  <2>2. Len(ss) \in Nat /\ DOMAIN ss = 1 .. Len(ss)
      BY <2>1, SeqIs
  <2> QED BY <2>2, SMTT(15) DEF FiniteFacts
<1>3. \A i \in DOMAIN ss : /\ Weights(ss)[i] \in Nat /\ Weights(ss)[i] = SizeOf(ss[i])
                           /\ ss[i].bytes = SizeOf(ss[i])
  <2> SUFFICES ASSUME NEW i \in DOMAIN ss
               PROVE  /\ Weights(ss)[i] \in Nat /\ Weights(ss)[i] = SizeOf(ss[i])
                      /\ ss[i].bytes = SizeOf(ss[i])
      OBVIOUS
  <2>1. Sound(ss[i], pk)
      BY DEF Table
  <2>2. SizeOf(ss[i]) \in Nat /\ ss[i].bytes = SizeOf(ss[i])
      BY <2>1, SizeNat DEF Sound
  <2> QED BY <2>2 DEF Weights
<1> QED BY <1>1, <1>2, <1>3, SumTake

\* A sequence that is a part of a table, in whatever order, is a table.
LEMMA PartTable ==
    ASSUME NEW ss, NEW pk, Table(ss, pk), NEW tt, NEW U, tt \in Seq(U), NEW h,
           \A j \in DOMAIN tt : h[j] \in DOMAIN ss /\ tt[j] = ss[h[j]],
           \A j, k \in DOMAIN tt : h[j] = h[k] => j = k
    PROVE  Table(tt, pk)
<1>1. \A i \in DOMAIN tt : Sound(tt[i], pk)
    BY DEF Table
<1>2. ASSUME NEW i \in DOMAIN tt, NEW j \in DOMAIN tt, tt[i].key = tt[j].key PROVE i = j
  <2>1. h[i] = h[j]
      BY <1>2, SMTT(15) DEF Table
  <2> QED BY <2>1
<1> QED BY <1>1, <1>2 DEF Table

\* A sequence that is a part of a table, and what the rest weighs.
LEMMA PartOf ==
    ASSUME FiniteFacts, NEW ss, NEW pk, Table(ss, pk), NEW tt, NEW U, tt \in Seq(U), NEW h,
           \A j \in DOMAIN tt : h[j] \in DOMAIN ss /\ tt[j] = ss[h[j]],
           \A j, k \in DOMAIN tt : h[j] = h[k] => j = k,
           NEW rest, rest = DOMAIN ss \ {h[j] : j \in DOMAIN tt}
    PROVE  Held(ss) = Held(tt) + SumFunctionOnSet(Weights(ss), rest)
<1> DEFINE img == {h[j] : j \in DOMAIN tt}
<1>1. Table(tt, pk)
    BY PartTable, SMTT(15)
<1>2. /\ Held(tt) = SumFunctionOnSet(Weights(tt), DOMAIN tt) /\ Held(tt) \in Nat
      /\ IsFiniteSet(DOMAIN tt)
      /\ \A i \in DOMAIN tt : Weights(tt)[i] \in Nat /\ Weights(tt)[i] = SizeOf(tt[i])
    BY <1>1, HeldIs
<1>3. /\ Held(ss) = SumFunctionOnSet(Weights(ss), DOMAIN ss)
      /\ IsFiniteSet(DOMAIN ss)
      /\ \A i \in DOMAIN ss : Weights(ss)[i] \in Nat /\ Weights(ss)[i] = SizeOf(ss[i])
    BY HeldIs
<1>4. \A j \in DOMAIN tt : Weights(ss)[h[j]] = Weights(tt)[j]
    BY <1>2, <1>3, ZenonT(40)
<1>5. SumFunctionOnSet(Weights(ss), img) = SumFunctionOnSet(Weights(tt), DOMAIN tt)
  <2> DEFINE D == DOMAIN tt
             f == Weights(tt)
             g == Weights(ss)
  <2>1. /\ IsFiniteSet(D) /\ \A x \in D : f[x] \in Nat /\ g[h[x]] = f[x]
        /\ \A x, y \in D : h[x] = h[y] => x = y
      BY <1>2, <1>4
  <2> HIDE DEF D, f, g
  <2>2. SumFunctionOnSet(g, {h[x] : x \in D}) = SumFunctionOnSet(f, D)
      BY <2>1, SumRenamed, SMTT(15)
  <2> QED BY <2>2 DEF D, f, g
<1>6. img \in SUBSET DOMAIN ss
    OBVIOUS
<1>7. SumFunctionOnSet(Weights(ss), DOMAIN ss)
         = SumFunctionOnSet(Weights(ss), img) + SumFunctionOnSet(Weights(ss), rest)
  <2>1. rest = DOMAIN ss \ img
      OBVIOUS
  <2> HIDE DEF img
  <2> QED BY <1>3, <1>6, <2>1, SumSplit, SMTT(15)
<1> QED BY <1>2, <1>3, <1>5, <1>7

\* The elements of a sequence after one was removed.
LEMMA RemoveIs ==
    ASSUME NEW U, NEW ss \in Seq(U), NEW i \in DOMAIN ss
    PROVE  /\ Without(ss, i) \in Seq(U) /\ Len(Without(ss, i)) = Len(ss) - 1
           /\ \A j \in 1 .. Len(ss) - 1 : Without(ss, i)[j] = ss[IF j < i THEN j ELSE j + 1]
<1> DEFINE a == SubSeq(ss, 1, i - 1)
           b == SubSeq(ss, i + 1, Len(ss))
<1>1. Len(ss) \in Nat /\ i \in 1 .. Len(ss) /\ \A j \in 1 .. Len(ss) : ss[j] \in U
    BY SeqIs
<1>2. a \in Seq(U) /\ Len(a) = i - 1 /\ \A j \in 1 .. i - 1 : a[j] = ss[j]
    BY <1>1, SubSeqIs, SMTT(15)
<1>3. b \in Seq(U) /\ Len(b) = Len(ss) - i /\ \A j \in 1 .. Len(ss) - i : b[j] = ss[i + j]
    BY <1>1, SubSeqIs, SMTT(15)
<1>4. Without(ss, i) = a \o b
    BY DEF Without
<1> HIDE DEF a, b
<1> DEFINE c == a \o b
<1>5. /\ c \in Seq(U) /\ Len(c) = Len(a) + Len(b)
      /\ \A j \in 1 .. Len(a) + Len(b) : c[j] = IF j <= Len(a) THEN a[j] ELSE b[j - Len(a)]
    BY <1>2, <1>3, ConcatIs
<1> DEFINE n == Len(ss)
<1>6. ASSUME NEW j \in 1 .. n - 1 PROVE c[j] = ss[IF j < i THEN j ELSE j + 1]
  <2> HIDE DEF c, n
  <2>0. n \in Nat /\ i \in 1 .. n /\ Len(a) = i - 1 /\ Len(b) = n - i
      BY <1>1, <1>2, <1>3 DEF n
  <2>3. Len(a) + Len(b) = n - 1
      BY <2>0
  <2>4. c[j] = IF j <= i - 1 THEN a[j] ELSE b[j - (i - 1)]
      BY <1>5, <2>0, <2>3
  <2>1. CASE j < i
    <3>1. c[j] = a[j] /\ j \in 1 .. i - 1
      <4>1. j <= i - 1 /\ j \in 1 .. i - 1
          BY <2>0, <2>1
      <4> QED BY <2>4, <4>1
    <3> QED BY <1>2, <2>1, <3>1
  <2>2. CASE ~(j < i)
    <3>1. c[j] = b[j - (i - 1)] /\ j - (i - 1) \in 1 .. n - i /\ i + (j - (i - 1)) = j + 1
      <4>1. ~(j <= i - 1) /\ j - (i - 1) \in 1 .. n - i /\ i + (j - (i - 1)) = j + 1
          BY <2>0, <2>2, SMTT(40)
      <4> QED BY <2>4, <4>1
    <3>2. b[j - (i - 1)] = ss[i + (j - (i - 1))]
        BY <1>3, <3>1 DEF n
    <3> QED BY <3>1, <3>2, <2>2
  <2> QED BY <2>1, <2>2
<1>7. Len(c) = n - 1
    BY <1>1, <1>2, <1>3, <1>5, SMTT(15)
<1>8. Without(ss, i) = c
    BY <1>4
<1> HIDE DEF c
<1> QED BY <1>5, <1>6, <1>7, <1>8

\* A set leaves the table: the bytes are less by its count, and what it
\* does not hold is still held.
LEMMA RemoveTable ==
    ASSUME FiniteFacts, NEW ss, NEW pk, Table(ss, pk), NEW i \in DOMAIN ss
    PROVE  LET tt == Without(ss, i)
           IN  /\ Table(tt, pk) /\ Len(tt) = Len(ss) - 1
               /\ Held(ss) = Held(tt) + ss[i].bytes
               /\ Held(tt) \in Nat /\ ss[i].bytes \in Nat
               /\ \A m, j : Holds(ss, m, j) => Holds(tt, m, j) \/ In(ss[i], m, j)
               /\ \A k : Has(tt, k) => Has(ss, k)
<1>1. PICK U : ss \in Seq(U)
    BY DEF Table
<1> DEFINE tt == Without(ss, i)
           n == Len(ss)
           h == [j \in 1 .. n - 1 |-> IF j < i THEN j ELSE j + 1]
<1>2. tt \in Seq(U) /\ Len(tt) = n - 1 /\ \A j \in 1 .. n - 1 : tt[j] = ss[h[j]]
    BY <1>1, RemoveIs
<1>3. n \in Nat /\ DOMAIN ss = 1 .. n /\ DOMAIN tt = 1 .. n - 1
    BY <1>1, <1>2, SeqIs
<1> HIDE DEF tt, n
<1>4. \A j \in 1 .. n - 1 : h[j] \in 1 .. n /\ h[j] # i
    BY <1>3
<1>5. \A j, k \in 1 .. n - 1 : h[j] = h[k] => j = k
    BY <1>3
<1>6. \A k \in 1 .. n : k # i => \E j \in 1 .. n - 1 : k = h[j]
  <2> SUFFICES ASSUME NEW k \in 1 .. n, k # i PROVE \E j \in 1 .. n - 1 : k = h[j]
      OBVIOUS
  <2>1. CASE k < i
      BY <1>3, <2>1
  <2>2. CASE ~(k < i)
    <3>1. k - 1 \in 1 .. n - 1 /\ h[k - 1] = k
        BY <1>3, <2>2
    <3> QED BY <3>1
  <2> QED BY <2>1, <2>2
<1> HIDE DEF h
<1>7. DOMAIN ss \ {h[j] : j \in DOMAIN tt} = {i}
    BY <1>3, <1>4, <1>6
<1>8. /\ Table(tt, pk) /\ Held(ss) = Held(tt) + SumFunctionOnSet(Weights(ss), {i}) /\ Held(tt) \in Nat
      /\ \A m, j : Holds(ss, m, j) => Holds(tt, m, j) \/ In(ss[i], m, j)
  <2>1. /\ \A j \in DOMAIN tt : h[j] \in DOMAIN ss /\ tt[j] = ss[h[j]]
        /\ \A j, k \in DOMAIN tt : h[j] = h[k] => j = k
      BY <1>2, <1>3, <1>4, <1>5
  <2> DEFINE rest == {i}
  <2>2. rest = DOMAIN ss \ {h[j] : j \in DOMAIN tt}
      BY <1>7
  <2> HIDE DEF rest
  <2>3. Held(ss) = Held(tt) + SumFunctionOnSet(Weights(ss), rest)
      BY <1>2, <2>1, <2>2, PartOf, SMTT(40)
  <2>4. Table(tt, pk)
      BY <1>2, <2>1, PartTable, SMTT(15)
  <2>5. Held(tt) \in Nat
      BY <2>4, HeldIs
  <2>6. ASSUME NEW m, NEW j, Holds(ss, m, j) PROVE Holds(tt, m, j) \/ In(ss[i], m, j)
    <3>1. PICK k \in DOMAIN ss : In(ss[k], m, j)
        BY <2>6 DEF Holds
    <3>2. CASE k # i
      <4>1. PICK l \in 1 .. n - 1 : k = h[l]
          BY <1>3, <1>6, <3>2
      <4>2. l \in DOMAIN tt /\ tt[l] = ss[k]
          BY <1>2, <1>3, <4>1
      <4> QED BY <3>1, <4>2 DEF Holds
    <3> QED BY <3>1, <3>2
  <2> QED BY <2>3, <2>4, <2>5, <2>6 DEF rest
<1>9. Weights(ss)[i] \in Nat /\ ss[i].bytes = Weights(ss)[i]
    BY HeldIs
<1>10. SumFunctionOnSet(Weights(ss), {i}) = ss[i].bytes
    BY <1>9, SumOne
<1>11. \A k : Has(tt, k) => Has(ss, k)
    BY <1>2, <1>3, <1>4 DEF Has
<1>12. Len(tt) = Len(ss) - 1
    BY <1>2 DEF n
<1> QED BY <1>8, <1>9, <1>10, <1>11, <1>12 DEF tt

\* Dropping the oldest is removing the first.
LEMMA TailIsRemove ==
    ASSUME NEW U, NEW ss \in Seq(U), ss # <<>>
    PROVE  Tail(ss) = Without(ss, 1) /\ 1 \in DOMAIN ss /\ Head(ss) = ss[1]
<1>1. /\ Len(ss) \in Nat \ {0} /\ DOMAIN ss = 1 .. Len(ss)
      /\ Tail(ss) \in Seq(U) /\ Len(Tail(ss)) = Len(ss) - 1
      /\ \A j \in 1 .. Len(Tail(ss)) : Tail(ss)[j] = ss[j + 1]
      /\ Head(ss) = ss[1]
    BY SeqIs, TailIs, EmptyIs
<1>2. 1 \in DOMAIN ss
    BY <1>1, SMTT(15)
<1>3. /\ Without(ss, 1) \in Seq(U) /\ Len(Without(ss, 1)) = Len(ss) - 1
      /\ \A j \in 1 .. Len(ss) - 1 : Without(ss, 1)[j] = ss[IF j < 1 THEN j ELSE j + 1]
    BY <1>2, RemoveIs
<1> DEFINE a == Tail(ss)
           b == Without(ss, 1)
<1>4. a \in Seq(U) /\ b \in Seq(U) /\ Len(a) = Len(b)
    BY <1>1, <1>3
<1>5. \A j \in 1 .. Len(a) : a[j] = b[j]
  <2> SUFFICES ASSUME NEW j \in 1 .. Len(a) PROVE a[j] = b[j]
      OBVIOUS
  <2>1. j \in 1 .. Len(ss) - 1 /\ ~(j < 1)
      BY <1>1
  <2>2. b[j] = ss[j + 1]
      BY <1>3, <2>1
  <2> QED BY <1>1, <2>2
<1> HIDE DEF a, b
<1>6. a = b
    BY <1>4, <1>5, SeqSame
<1> QED BY <1>1, <1>2, <1>6 DEF a, b

\* A set under a new key joins the table, at its end.
LEMMA AppendTable ==
    ASSUME FiniteFacts, NEW ss, NEW pk, Table(ss, pk), NEW e, Sound(e, pk), ~Has(ss, e.key)
    PROVE  LET tt == Append(ss, e)
           IN  /\ Table(tt, pk) /\ Len(tt) = Len(ss) + 1 /\ Len(ss) \in Nat
               /\ Held(tt) = Held(ss) + e.bytes
               /\ \A m, j : Holds(ss, m, j) => Holds(tt, m, j)
               /\ \A i \in DOMAIN tt : tt[i].key = e.key <=> i = Len(ss) + 1
               /\ tt[Len(ss) + 1] = e /\ Len(ss) + 1 \in DOMAIN tt
<1>1. PICK U : ss \in Seq(U)
    BY DEF Table
<1> DEFINE V == U \cup {e}
           tt == Append(ss, e)
           n == Len(ss)
           h == [j \in 1 .. n |-> j]
<1>2. ss \in Seq(V) /\ e \in V
    BY <1>1, SeqWider
<1> HIDE DEF V
<1>3. /\ tt \in Seq(V) /\ Len(tt) = n + 1 /\ tt[n + 1] = e
      /\ \A j \in 1 .. n : tt[j] = ss[j]
    BY <1>2, AppendIs, SMTT(15)
<1>4. n \in Nat /\ DOMAIN ss = 1 .. n /\ DOMAIN tt = 1 .. n + 1
    BY <1>2, <1>3, SeqIs
<1> HIDE DEF tt, n
<1>5. \A i \in DOMAIN tt : tt[i].key = e.key <=> i = n + 1
    BY <1>3, <1>4 DEF Has
<1>6. Table(tt, pk)
  <2>1. \A i \in DOMAIN tt : Sound(tt[i], pk)
      BY <1>3, <1>4, SMTT(15) DEF Table
  <2>2. \A i, j \in DOMAIN tt : tt[i].key = tt[j].key => i = j
    <3> SUFFICES ASSUME NEW i \in DOMAIN tt, NEW j \in DOMAIN tt, tt[i].key = tt[j].key PROVE i = j
        OBVIOUS
    <3>1. CASE i = n + 1 \/ j = n + 1
        BY <1>3, <1>5, <3>1
    <3>2. CASE i \in 1 .. n /\ j \in 1 .. n
        BY <1>3, <1>4, <3>2 DEF Table
    <3> QED BY <1>4, <3>1, <3>2
  <2> QED BY <1>3, <2>1, <2>2 DEF Table
<1>7. /\ \A j \in DOMAIN ss : h[j] \in DOMAIN tt /\ ss[j] = tt[h[j]]
      /\ \A j, k \in DOMAIN ss : h[j] = h[k] => j = k
    BY <1>3, <1>4, SMTT(15)
<1>8. DOMAIN tt \ {h[j] : j \in DOMAIN ss} = {n + 1}
    BY <1>4, SMTT(15)
<1> HIDE DEF h
<1>9. Held(tt) = Held(ss) + SumFunctionOnSet(Weights(tt), {n + 1})
    BY <1>2, <1>6, <1>7, <1>8, PartOf, SMTT(40)
<1>10. n + 1 \in DOMAIN tt
    BY <1>4
<1>11. Weights(tt)[n + 1] \in Nat /\ e.bytes = Weights(tt)[n + 1]
    BY <1>3, <1>6, <1>10, HeldIs
<1>12. SumFunctionOnSet(Weights(tt), {n + 1}) = e.bytes
    BY <1>11, SumOne
<1>13. \A m, j : Holds(ss, m, j) => Holds(tt, m, j)
    BY <1>3, <1>4, SMTT(15) DEF Holds
<1> QED BY <1>3, <1>4, <1>5, <1>6, <1>9, <1>10, <1>12, <1>13 DEF tt, n

\* A set takes the place of another with the same key.
LEMMA ReplaceTable ==
    ASSUME NEW ss, NEW pk, Table(ss, pk), NEW i \in DOMAIN ss, NEW e, Sound(e, pk), e.key = ss[i].key,
           NEW tt, NEW V, tt \in Seq(V), DOMAIN tt = DOMAIN ss,
           tt[i] = e, \A j \in DOMAIN ss : j # i => tt[j] = ss[j]
    PROVE  Table(tt, pk)
<1>1. \A j \in DOMAIN tt : Sound(tt[j], pk)
    BY DEF Table
<1>2. \A j \in DOMAIN tt : tt[j].key = ss[j].key
    OBVIOUS
<1> QED BY <1>1, <1>2 DEF Table

\* The bytes change by what the two sets differ.
LEMMA ReplaceHeld ==
    ASSUME FiniteFacts, NEW ss, NEW tt, NEW pk, Table(ss, pk), Table(tt, pk), DOMAIN tt = DOMAIN ss,
           NEW i \in DOMAIN ss, \A j \in DOMAIN ss : j # i => tt[j] = ss[j]
    PROVE  Held(tt) + ss[i].bytes = Held(ss) + tt[i].bytes
<1> DEFINE D == DOMAIN ss
           rest == D \ {i}
           r == SumFunctionOnSet(Weights(ss), rest)
<1>1. /\ Held(tt) = SumFunctionOnSet(Weights(tt), D)
      /\ \A j \in D : Weights(tt)[j] \in Nat /\ Weights(tt)[j] = SizeOf(tt[j]) /\ tt[j].bytes = SizeOf(tt[j])
  <2>1. DOMAIN tt = D
      OBVIOUS
  <2> HIDE DEF D
  <2> QED BY <2>1, HeldIs
<1>2. /\ Held(ss) = SumFunctionOnSet(Weights(ss), D) /\ IsFiniteSet(D)
      /\ \A j \in D : Weights(ss)[j] \in Nat /\ Weights(ss)[j] = SizeOf(ss[j]) /\ ss[j].bytes = SizeOf(ss[j])
    BY HeldIs
<1>3. IsFiniteSet(rest) /\ i \in D
    BY <1>2, FiniteSubset
<1>4. \A j \in rest : Weights(ss)[j] \in Nat /\ Weights(tt)[j] = Weights(ss)[j]
    BY <1>1, <1>2
<1> HIDE DEF D
<1>5. SumFunctionOnSet(Weights(tt), rest) = r /\ r \in Nat
  <2> HIDE DEF rest
  <2> QED BY <1>3, <1>4, SumSame, SumTake, SMTT(15)
<1>6. Held(tt) = Weights(tt)[i] + SumFunctionOnSet(Weights(tt), rest)
  <2>1. \A j \in D : Weights(tt)[j] \in Nat
      BY <1>1
  <2>2. SumFunctionOnSet(Weights(tt), D) = Weights(tt)[i] + SumFunctionOnSet(Weights(tt), D \ {i})
      BY <1>2, <1>3, <2>1, SumTake, SMTT(15)
  <2> QED BY <1>1, <2>2
<1>7. Held(ss) = Weights(ss)[i] + r
    BY <1>2, <1>3, SumTake, SMTT(15)
<1>8. Weights(ss)[i] = ss[i].bytes /\ Weights(tt)[i] = tt[i].bytes /\ Weights(ss)[i] \in Nat /\ Weights(tt)[i] \in Nat
    BY <1>1, <1>2, <1>3
<1> HIDE DEF r
<1>9. Held(tt) = tt[i].bytes + r /\ Held(ss) = ss[i].bytes + r
    BY <1>5, <1>6, <1>7, <1>8
<1> QED BY <1>5, <1>8, <1>9

\* The oldest n sets leave the table: the bytes are less by their counts.
LEMMA CutTable ==
    ASSUME FiniteFacts, NEW ss, NEW pk, Table(ss, pk), NEW n \in DOMAIN ss
    PROVE  LET tt == SubSeq(ss, n + 1, Len(ss))
           IN  /\ Table(tt, pk) /\ Len(tt) <= Len(ss)
               /\ Held(ss) = Held(tt) + SumFunction([i \in 1 .. n |-> ss[i].bytes])
               /\ Held(tt) \in Nat /\ SumFunction([i \in 1 .. n |-> ss[i].bytes]) \in Nat
               /\ \A m, j : Holds(ss, m, j) => Holds(tt, m, j) \/ \E i \in 1 .. n : In(ss[i], m, j)
<1>1. PICK U : ss \in Seq(U)
    BY DEF Table
<1> DEFINE L == Len(ss)
           tt == SubSeq(ss, n + 1, L)
           h == [j \in 1 .. L - n |-> j + n]
           f == [i \in 1 .. n |-> ss[i].bytes]
<1>2. L \in Nat /\ DOMAIN ss = 1 .. L /\ n \in 1 .. L /\ \A i \in 1 .. L : ss[i] \in U
    BY <1>1, SeqIs
<1>3. tt \in Seq(U) /\ Len(tt) = L - n /\ \A j \in 1 .. L - n : tt[j] = ss[h[j]]
  <2>1. \A i \in n + 1 .. L : ss[i] \in U
      BY <1>2
  <2>2. /\ tt \in Seq(U) /\ Len(tt) = IF n + 1 <= L THEN L - (n + 1) + 1 ELSE 0
        /\ \A i \in 1 .. L - (n + 1) + 1 : tt[i] = ss[(n + 1) + i - 1]
      BY <1>2, <2>1, SubSeqIs, SMTT(15)
  <2> HIDE DEF tt, L
  <2>3. Len(tt) = L - n /\ L - (n + 1) + 1 = L - n
      BY <1>2, <2>2
  <2>4. \A j \in 1 .. L - n : (n + 1) + j - 1 = h[j]
      BY <1>2
  <2> QED BY <2>2, <2>3, <2>4
<1> HIDE DEF tt, L
<1>4. DOMAIN tt = 1 .. L - n /\ Len(tt) <= L
    BY <1>2, <1>3, SeqIs
<1>5. /\ \A j \in DOMAIN tt : h[j] \in DOMAIN ss /\ tt[j] = ss[h[j]]
      /\ \A j, k \in DOMAIN tt : h[j] = h[k] => j = k
    BY <1>2, <1>3, <1>4
<1>6. DOMAIN ss \ {h[j] : j \in DOMAIN tt} = 1 .. n
  <2>1. \A k \in 1 .. L : ~(k <= n) => k - n \in 1 .. L - n /\ h[k - n] = k
      BY <1>2
  <2>2. \A j \in 1 .. L - n : ~(h[j] <= n)
      BY <1>2
  <2> HIDE DEF h
  <2>3. \A k \in 1 .. L : (k \in {h[j] : j \in 1 .. L - n}) <=> ~(k <= n)
      BY <2>1, <2>2
  <2> QED BY <1>2, <1>4, <2>3, SMTT(40)
<1> HIDE DEF h
<1>7. /\ Table(tt, pk) /\ Held(ss) = Held(tt) + SumFunctionOnSet(Weights(ss), 1 .. n) /\ Held(tt) \in Nat
      /\ \A m, j : Holds(ss, m, j) => Holds(tt, m, j) \/ \E k \in 1 .. n : In(ss[k], m, j)
  <2> DEFINE rest == 1 .. n
  <2>1. rest = DOMAIN ss \ {h[j] : j \in DOMAIN tt}
      BY <1>6
  <2> HIDE DEF rest
  <2>2. Held(ss) = Held(tt) + SumFunctionOnSet(Weights(ss), rest)
      BY <1>3, <1>5, <2>1, PartOf, SMTT(40)
  <2>4. Table(tt, pk)
      BY <1>3, <1>5, PartTable, SMTT(15)
  <2>5. Held(tt) \in Nat
      BY <2>4, HeldIs
  <2>3. ASSUME NEW m, NEW j, Holds(ss, m, j) PROVE Holds(tt, m, j) \/ \E k \in rest : In(ss[k], m, j)
      BY <1>5, <2>1, <2>3, SMTT(15) DEF Holds
  <2> QED BY <2>2, <2>3, <2>4, <2>5 DEF rest
<1> DEFINE I == 1 .. n
<1>8. IsFiniteSet(I) /\ I \subseteq DOMAIN ss
    BY <1>2, SMTT(40) DEF FiniteFacts
<1>9. \A i \in I : f[i] \in Nat /\ Weights(ss)[i] = f[i]
    BY <1>8, HeldIs
<1>10. SumFunction(f) = SumFunctionOnSet(f, I)
    BY DEF SumFunction
<1> HIDE DEF f, I
<1>11. SumFunctionOnSet(Weights(ss), I) = SumFunctionOnSet(f, I) /\ SumFunctionOnSet(f, I) \in Nat
    BY <1>8, <1>9, SumSame, SumTake, ZenonT(40)
<1> QED BY <1>4, <1>7, <1>10, <1>11 DEF tt, f, I, L

\* What push finds for p: the table full and no set for it; the table that
\* is left, the set it joins, and the message it is of.
Crowded(p) == ~Has(sets, Key(p)) /\ Len(sets) >= MaxSets
Room(p) == IF Crowded(p) THEN Tail(sets) ELSE sets
Home(p) == IF Has(sets, Key(p)) THEN sets[IndexOf(sets, Key(p))] ELSE NewSet(p)
Own(p) == {p.of.plain} \ {Unknown.plain}

\* The messages that lose a fragment when p is pushed.
LEMMA HarmedIs ==
    ASSUME NEW p
    PROVE  /\ Crowded(p) => MessagesIn(Head(sets)) \subseteq Harmed(p)
           /\ Home(p).total # p.total => Own(p) \cup MessagesIn(Home(p)) \subseteq Harmed(p)
           /\ p.index \notin DOMAIN Home(p).parts /\ Held(Room(p)) + p.size > MaxBytes
                 => Own(p) \cup MessagesIn(Home(p)) \subseteq Harmed(p)
           /\ p.index \in DOMAIN Home(p).parts /\ p.of.intact /\ Home(p).parts[p.index].of # p.of
                 => Own(p) \subseteq Harmed(p)
<1> DEFINE taken == p.index \in DOMAIN Home(p).parts
           clash == Home(p).total # p.total \/ (~taken /\ \E i \in DOMAIN Home(p).parts : Home(p).parts[i].of # p.of)
<1>1. Harmed(p) =
        (IF Crowded(p) THEN MessagesIn(Head(sets)) ELSE {}) \cup
        (IF clash \/ (~taken /\ Held(Room(p)) + p.size > MaxBytes) THEN Own(p) \cup MessagesIn(Home(p))
         ELSE IF taken /\ p.of.intact /\ Home(p).parts[p.index].of # p.of THEN Own(p) ELSE {})
    BY DEF Harmed, Crowded, Room, Home, Own
<1> QED BY <1>1

\* A piece in a set makes its message one of the set's.
LEMMA InMessages == ASSUME NEW s, NEW m, NEW j, In(s, m, j), m # Unknown.plain
                    PROVE  m \in MessagesIn(s)
BY DEF In, MessagesIn

\* A set that was just started.
LEMMA NewSound == ASSUME FiniteFacts, NEW p, NEW pk, p.total \in Nat \ {0}
                  PROVE  Sound(NewSet(p), pk) /\ NewSet(p).key = Key(p) /\ NewSet(p).bytes = 0
<1> DEFINE s == NewSet(p)
<1>1. s.key = Key(p) /\ s.total = p.total /\ s.parts = <<>> /\ s.bytes = 0
    BY DEF NewSet
<1>2. DOMAIN <<>> = {}
    OBVIOUS
<1> HIDE DEF s
<1> DEFINE f == [j \in DOMAIN s.parts |-> s.parts[j].size]
<1>3. DOMAIN f = {}
    BY <1>1, <1>2
<1>4. SizeOf(s) = SumFunctionOnSet(f, DOMAIN f)
    BY DEF SizeOf, SumFunction
<1> HIDE DEF f
<1>5. SizeOf(s) = 0
    BY <1>3, <1>4, SumEmpty
<1>6. IsFiniteSet(DOMAIN s.parts) /\ Cardinality(DOMAIN s.parts) = 0
    BY <1>1, <1>2 DEF FiniteFacts
<1>7. Sound(s, pk)
    BY <1>1, <1>2, <1>5, <1>6 DEF Sound
<1> QED BY <1>1, <1>7 DEF s

\* What push begins with: the set of its fragment, and room for it.
LEMMA StartedTable ==
    ASSUME FiniteFacts, NEW pk, Table(sets, pk), HeldWithinLimits, NEW p, p.total \in Nat \ {0},
           NEW now, now = Started([sets |-> sets, bytes |-> bytes], p)
    PROVE  /\ Table(now.sets, pk) /\ now.bytes = Held(now.sets) /\ now.bytes = Held(Room(p))
           /\ now.bytes <= MaxBytes /\ Len(now.sets) <= MaxSets
           /\ IndexOf(now.sets, Key(p)) \in DOMAIN now.sets
           /\ now.sets[IndexOf(now.sets, Key(p))] = Home(p) /\ Home(p).key = Key(p)
           /\ \A m, j : m # Unknown.plain /\ Holds(sets, m, j) => Holds(now.sets, m, j) \/ m \in Harmed(p)
<1> DEFINE rs == [sets |-> sets, bytes |-> bytes]
           room == IF Len(sets) >= MaxSets THEN evict_oldest(rs) ELSE rs
<1>0. PICK U : sets \in Seq(U)
    BY DEF Table
<1>1. CASE Has(sets, Key(p))
  <2>1. now.sets = sets /\ now.bytes = bytes
      BY <1>1 DEF Started
  <2>2. Room(p) = sets /\ Home(p) = sets[IndexOf(sets, Key(p))]
      BY <1>1 DEF Room, Crowded, Home
  <2>3. IndexOf(sets, Key(p)) \in DOMAIN sets /\ sets[IndexOf(sets, Key(p))].key = Key(p)
      BY <1>1 DEF Has, IndexOf
  <2> QED BY <2>1, <2>2, <2>3 DEF HeldWithinLimits
<1>2. CASE ~Has(sets, Key(p))
  <2> DEFINE r == Room(p)
  <2>1. /\ Table(r, pk) /\ Held(r) \in Nat /\ Held(r) <= MaxBytes /\ Len(r) + 1 <= MaxSets /\ Len(r) \in Nat
        /\ ~Has(r, Key(p))
        /\ \A m, j : m # Unknown.plain /\ Holds(sets, m, j) => Holds(r, m, j) \/ m \in Harmed(p)
        /\ room.sets = r /\ room.bytes = Held(r)
    <3>0. Len(sets) \in Nat /\ MaxSets \in Nat \ {0} /\ MaxBytes \in Nat /\ Held(sets) \in Nat
        BY <1>0, SeqIs, FragmentAssumption, HeldIs
    <3>1. CASE Len(sets) >= MaxSets
      <4>1. sets # <<>>
          BY <3>0, <3>1, EmptyIs
      <4>2. Tail(sets) = Without(sets, 1) /\ 1 \in DOMAIN sets /\ Head(sets) = sets[1]
          BY <1>0, <4>1, TailIsRemove
      <4>3. r = Without(sets, 1) /\ Crowded(p)
          BY <1>2, <3>1, <4>2 DEF Room, Crowded
      <4>4. /\ Table(r, pk) /\ Len(r) = Len(sets) - 1
            /\ Held(sets) = Held(r) + sets[1].bytes
            /\ Held(r) \in Nat /\ sets[1].bytes \in Nat
            /\ \A m, j : Holds(sets, m, j) => Holds(r, m, j) \/ In(sets[1], m, j)
            /\ \A k : Has(r, k) => Has(sets, k)
          BY <4>2, <4>3, RemoveTable
      <4>5. \A m, j : m # Unknown.plain /\ In(sets[1], m, j) => m \in Harmed(p)
          BY <4>2, <4>3, HarmedIs, InMessages
      <4>6. room.sets = r /\ room.bytes = bytes - sets[1].bytes
          BY <3>1, <4>2, <4>3 DEF evict_oldest
      <4>7. Held(r) <= MaxBytes /\ Len(r) + 1 <= MaxSets /\ Len(r) \in Nat /\ bytes - sets[1].bytes = Held(r)
        <5> HIDE DEF r
        <5> QED BY <3>0, <3>1, <4>4 DEF HeldWithinLimits
      <4> HIDE DEF r, room
      <4> QED BY <1>2, <4>4, <4>5, <4>6, <4>7
    <3>2. CASE ~(Len(sets) >= MaxSets)
      <4>1. r = sets
          BY <3>2 DEF Room, Crowded
      <4>2. room.sets = sets /\ room.bytes = bytes
          BY <3>2
      <4>3. Len(sets) + 1 <= MaxSets
          BY <3>0, <3>2
      <4> HIDE DEF r, room
      <4> QED BY <1>2, <3>0, <4>1, <4>2, <4>3 DEF HeldWithinLimits
    <3> QED BY <3>1, <3>2
  <2>2. now.sets = Append(r, NewSet(p)) /\ now.bytes = Held(r)
    <3>1. Started(rs, p) = [sets |-> Append(room.sets, NewSet(p)), bytes |-> room.bytes]
        BY <1>2 DEF Started
    <3>2. now.sets = Append(room.sets, NewSet(p)) /\ now.bytes = room.bytes
        BY <3>1
    <3> HIDE DEF r, room
    <3> QED BY <2>1, <3>2
  <2> HIDE DEF r, room
  <2> DEFINE tt == Append(r, NewSet(p))
  <2>3. Sound(NewSet(p), pk) /\ NewSet(p).key = Key(p) /\ NewSet(p).bytes = 0
      BY NewSound
  <2>4. /\ Table(tt, pk) /\ Len(tt) = Len(r) + 1
        /\ Held(tt) = Held(r) + NewSet(p).bytes
        /\ \A m, j : Holds(r, m, j) => Holds(tt, m, j)
        /\ \A i \in DOMAIN tt : tt[i].key = NewSet(p).key <=> i = Len(r) + 1
        /\ tt[Len(r) + 1] = NewSet(p) /\ Len(r) + 1 \in DOMAIN tt
      BY <2>1, <2>3, AppendTable, SMTT(15)
  <2> HIDE DEF tt
  <2>5. IndexOf(tt, Key(p)) = Len(r) + 1
      BY <2>3, <2>4 DEF IndexOf
  <2>6. Home(p) = NewSet(p)
      BY <1>2 DEF Home
  <2>7. Held(tt) = Held(r)
      BY <2>1, <2>3, <2>4
  <2>8. now.sets = tt
      BY <2>2 DEF tt
  <2>9. Len(tt) <= MaxSets
      BY <2>1, <2>4
  <2>10. \A m, j : m # Unknown.plain /\ Holds(sets, m, j) => Holds(tt, m, j) \/ m \in Harmed(p)
      BY <2>1, <2>4
  <2> QED BY <2>1, <2>2, <2>3, <2>4, <2>5, <2>6, <2>7, <2>8, <2>9, <2>10 DEF r
<1> QED BY <1>1, <1>2

\* A set with one piece more.
LEMMA GrownSize ==
    ASSUME FiniteFacts, NEW s, NEW pk, Sound(s, pk), NEW p, p.size \in Nat, p.index \notin DOMAIN s.parts, NEW e,
           DOMAIN e.parts = DOMAIN s.parts \cup {p.index},
           e.parts[p.index] = p, \A j \in DOMAIN s.parts : e.parts[j] = s.parts[j]
    PROVE  SizeOf(e) = s.bytes + p.size /\ s.bytes \in Nat /\ IsFiniteSet(DOMAIN e.parts)
<1> DEFINE D == DOMAIN s.parts
           E == DOMAIN e.parts
           f == [j \in D |-> s.parts[j].size]
           g == [j \in E |-> e.parts[j].size]
<1>1. E = D \cup {p.index} /\ e.parts[p.index] = p /\ \A j \in D : e.parts[j] = s.parts[j]
    OBVIOUS
<1>2. IsFiniteSet(D) /\ s.bytes = SizeOf(s) /\ \A j \in D : s.parts[j].size \in Nat
    BY DEF Sound
<1>3. IsFiniteSet(E)
  <2>1. IsFiniteSet(D \cup {p.index})
      BY <1>2, FiniteMore
  <2> QED BY <1>1, <2>1
<1>4. SizeOf(s) = SumFunctionOnSet(f, D) /\ SizeOf(e) = SumFunctionOnSet(g, E)
    BY DEF SizeOf, SumFunction
<1> HIDE DEF D, E
<1>5. /\ \A j \in D : f[j] \in Nat /\ g[j] = f[j]
      /\ \A j \in E : g[j] \in Nat
      /\ p.index \in E /\ g[p.index] = p.size /\ E \ {p.index} = D
    BY <1>1, <1>2 DEF D
<1> HIDE DEF f, g
<1>6. SumFunctionOnSet(g, E) = g[p.index] + SumFunctionOnSet(g, E \ {p.index})
    BY <1>3, <1>5, SumTake, SMTT(15)
<1>7. SumFunctionOnSet(g, D) = SumFunctionOnSet(f, D) /\ SumFunctionOnSet(f, D) \in Nat
    BY <1>2, <1>5, SumSame, SumTake, SMTT(15)
<1>8. SizeOf(e) = s.bytes + p.size /\ s.bytes \in Nat
  <2>1. SizeOf(e) = p.size + SumFunctionOnSet(g, D)
      BY <1>4, <1>5, <1>6
  <2>2. SumFunctionOnSet(g, D) = s.bytes /\ s.bytes \in Nat
      BY <1>2, <1>4, <1>7
  <2> QED BY <2>1, <2>2, SMTT(15)
<1> QED BY <1>3, <1>8 DEF E

\* After push the piece in place j of message m is held, unless the message
\* lost a fragment or was handed out.
Kept(done, p, m, j) ==
    \/ Holds(done.rs.sets, m, j) \/ m \in Harmed(p)
    \/ \E k \in DOMAIN done.full : done.full[k].of.plain = m

\* push keeps the table and its count, and loses no piece of a message that
\* it neither hands out nor harms.
LEMMA PushTable ==
    ASSUME FiniteFacts, NEW pk, Table(sets, pk), HeldWithinLimits, NEW p, p.total \in Nat \ {0}, p.size \in Nat,
           PieceOf(p.of.plain, p.index, p.total, Key(p), pk),
           NEW done, done = push([sets |-> sets, bytes |-> bytes], p)
    PROVE  /\ Table(done.rs.sets, pk) /\ done.rs.bytes = Held(done.rs.sets)
           /\ done.rs.bytes <= MaxBytes /\ Len(done.rs.sets) <= MaxSets
           /\ \A m, j : m # Unknown.plain /\ (Holds(sets, m, j) \/ (p.of.intact /\ m = p.of.plain /\ j = p.index))
                 => Kept(done, p, m, j)
<1> DEFINE rs == [sets |-> sets, bytes |-> bytes]
           now == Started(rs, p)
           i == IndexOf(now.sets, Key(p))
           set == now.sets[i]
           parts == [j \in DOMAIN set.parts \cup {p.index} |-> IF j = p.index THEN p ELSE set.parts[j]]
           Out == [sets |-> Without(now.sets, i), bytes |-> now.bytes - set.bytes]
           larger == [key |-> Key(p), total |-> p.total, parts |-> parts, bytes |-> set.bytes + p.size]
           Grown == [sets |-> [now.sets EXCEPT ![i] = larger], bytes |-> now.bytes + p.size]
           taken == p.index \in DOMAIN set.parts
           wanted(m, j) == m # Unknown.plain /\ (Holds(sets, m, j) \/ (p.of.intact /\ m = p.of.plain /\ j = p.index))
<1>1. /\ Table(now.sets, pk) /\ now.bytes = Held(now.sets) /\ now.bytes = Held(Room(p))
      /\ now.bytes <= MaxBytes /\ Len(now.sets) <= MaxSets
      /\ i \in DOMAIN now.sets /\ set = Home(p) /\ Home(p).key = Key(p)
      /\ \A m, j : m # Unknown.plain /\ Holds(sets, m, j) => Holds(now.sets, m, j) \/ m \in Harmed(p)
    BY StartedTable
<1>2. \/ set.total # p.total /\ done = [rs |-> Out, full |-> <<>>]
      \/ set.total = p.total /\ taken /\ done = [rs |-> now, full |-> <<>>]
      \/ set.total = p.total /\ ~taken /\ now.bytes + p.size > MaxBytes /\ done = [rs |-> Out, full |-> <<>>]
      \/ /\ set.total = p.total /\ ~taken /\ ~(now.bytes + p.size > MaxBytes)
         /\ Cardinality(DOMAIN parts) = set.total /\ done = [rs |-> Out, full |-> parts]
      \/ /\ set.total = p.total /\ ~taken /\ ~(now.bytes + p.size > MaxBytes)
         /\ Cardinality(DOMAIN parts) # set.total /\ done = [rs |-> Grown, full |-> <<>>]
    BY ZenonT(40) DEF push
<1>3. larger.key = Key(p) /\ larger.total = p.total /\ larger.parts = parts /\ larger.bytes = set.bytes + p.size
    OBVIOUS
<1>4. Out.sets = Without(now.sets, i) /\ Out.bytes = now.bytes - set.bytes
    OBVIOUS
<1>5. Grown.sets = [now.sets EXCEPT ![i] = larger] /\ Grown.bytes = now.bytes + p.size
    OBVIOUS
<1>6. /\ \A j \in DOMAIN set.parts : j # p.index => parts[j] = set.parts[j]
      /\ parts[p.index] = p /\ DOMAIN parts = DOMAIN set.parts \cup {p.index}
    OBVIOUS
<1> HIDE DEF now, i
<1>7. /\ Table(Without(now.sets, i), pk) /\ Len(Without(now.sets, i)) = Len(now.sets) - 1
      /\ Held(now.sets) = Held(Without(now.sets, i)) + set.bytes
      /\ Held(Without(now.sets, i)) \in Nat /\ set.bytes \in Nat
      /\ \A m, j : Holds(now.sets, m, j) => Holds(Without(now.sets, i), m, j) \/ In(set, m, j)
    BY <1>1, RemoveTable
<1>8. Len(now.sets) \in Nat /\ MaxBytes \in Nat /\ MaxSets \in Nat /\ Sound(set, pk)
  <2>1. PICK U : now.sets \in Seq(U)
      BY <1>1 DEF Table
  <2> QED BY <1>1, <2>1, SeqIs, FragmentAssumption DEF Table
<1> HIDE DEF set, parts, Out, larger, Grown
<1>9. /\ Table(Out.sets, pk) /\ Out.bytes = Held(Out.sets) /\ Out.bytes <= MaxBytes /\ Len(Out.sets) <= MaxSets
      /\ \A m, j : Holds(now.sets, m, j) => Holds(Out.sets, m, j) \/ In(set, m, j)
  <2> DEFINE a == Held(Out.sets)
  <2>1. /\ now.bytes = a + set.bytes /\ a \in Nat /\ set.bytes \in Nat /\ now.bytes <= MaxBytes
        /\ Out.bytes = now.bytes - set.bytes /\ MaxBytes \in Nat
      BY <1>1, <1>4, <1>7, <1>8
  <2> HIDE DEF a
  <2>2. Out.bytes = a /\ Out.bytes <= MaxBytes
      BY <2>1
  <2>3. Len(Out.sets) <= MaxSets
      BY <1>1, <1>4, <1>7, <1>8
  <2> QED BY <1>4, <1>7, <2>2, <2>3 DEF a
<1>10. \A m, j : m # Unknown.plain /\ In(set, m, j) => m \in MessagesIn(Home(p))
    BY <1>1, InMessages
<1>11. p.of.plain # Unknown.plain => p.of.plain \in Own(p)
    BY DEF Own
<1>12. CASE set.total # p.total /\ done = [rs |-> Out, full |-> <<>>]
  <2>1. done.rs = Out
      BY <1>12
  <2>2. Own(p) \cup MessagesIn(Home(p)) \subseteq Harmed(p)
      BY <1>1, <1>12, HarmedIs
  <2>3. ASSUME NEW m, NEW j, wanted(m, j) PROVE Kept(done, p, m, j)
      BY <1>1, <1>9, <1>10, <1>11, <2>1, <2>2, <2>3 DEF Kept
  <2> QED BY <1>9, <2>1, <2>3
<1>13. CASE set.total = p.total /\ taken /\ done = [rs |-> now, full |-> <<>>]
  <2>1. done.rs = now
      BY <1>13
  <2>2. ASSUME p.of.intact, p.of.plain # Unknown.plain
        PROVE  Holds(now.sets, p.of.plain, p.index) \/ p.of.plain \in Harmed(p)
    <3>1. CASE Home(p).parts[p.index].of # p.of
        BY <1>1, <1>11, <1>13, <2>2, <3>1, HarmedIs
    <3>2. CASE Home(p).parts[p.index].of = p.of
      <4>1. In(set, p.of.plain, p.index)
          BY <1>1, <1>13, <3>2 DEF In
      <4> QED BY <1>1, <4>1 DEF Holds, set
    <3> QED BY <3>1, <3>2
  <2>3. ASSUME NEW m, NEW j, wanted(m, j) PROVE Kept(done, p, m, j)
      BY <1>1, <2>1, <2>2, <2>3 DEF Kept
  <2> QED BY <1>1, <2>1, <2>3
<1>14. CASE set.total = p.total /\ ~taken /\ now.bytes + p.size > MaxBytes /\ done = [rs |-> Out, full |-> <<>>]
  <2>1. done.rs = Out
      BY <1>14
  <2>2. Own(p) \cup MessagesIn(Home(p)) \subseteq Harmed(p)
      BY <1>1, <1>14, HarmedIs
  <2>3. ASSUME NEW m, NEW j, wanted(m, j) PROVE Kept(done, p, m, j)
      BY <1>1, <1>9, <1>10, <1>11, <2>1, <2>2, <2>3 DEF Kept
  <2> QED BY <1>9, <2>1, <2>3
<1>15. CASE ~taken /\ done = [rs |-> Out, full |-> parts]
  <2>1. done.rs = Out /\ done.full = parts
      BY <1>15
  <2>2. \A m, j : In(set, m, j) => \E k \in DOMAIN parts : parts[k].of.plain = m
      BY <1>6, <1>15 DEF In
  <2>3. \E k \in DOMAIN parts : parts[k].of.plain = p.of.plain
      BY <1>6
  <2>4. ASSUME NEW m, NEW j, wanted(m, j) PROVE Kept(done, p, m, j)
      BY <1>1, <1>9, <2>1, <2>2, <2>3, <2>4, SMTT(15) DEF Kept
  <2> QED BY <1>9, <2>1, <2>4
<1>16. CASE /\ set.total = p.total /\ ~taken /\ ~(now.bytes + p.size > MaxBytes)
            /\ Cardinality(DOMAIN parts) # set.total /\ done = [rs |-> Grown, full |-> <<>>]
  <2>1. done.rs = Grown
      BY <1>16
  <2>2. /\ SizeOf(larger) = set.bytes + p.size /\ set.bytes \in Nat
        /\ DOMAIN larger.parts = DOMAIN set.parts \cup {p.index} /\ IsFiniteSet(DOMAIN larger.parts)
        /\ larger.parts[p.index] = p /\ \A j \in DOMAIN set.parts : larger.parts[j] = set.parts[j]
    <3>1. /\ DOMAIN larger.parts = DOMAIN set.parts \cup {p.index} /\ p.index \notin DOMAIN set.parts
          /\ larger.parts[p.index] = p /\ \A j \in DOMAIN set.parts : larger.parts[j] = set.parts[j]
        BY <1>3, <1>6, <1>16
    <3>2. SizeOf(larger) = set.bytes + p.size /\ set.bytes \in Nat /\ IsFiniteSet(DOMAIN larger.parts)
        BY <1>8, <3>1, GrownSize
    <3> QED BY <3>1, <3>2
  <2>3. Sound(larger, pk)
    <3>1. set.key = Key(p)
        BY <1>1
    <3>2. \A j \in DOMAIN set.parts : /\ set.parts[j].size \in Nat
                                      /\ PieceOf(set.parts[j].of.plain, j, set.total, set.key, pk)
        BY <1>8 DEF Sound
    <3>3. \A j \in DOMAIN larger.parts :
             /\ larger.parts[j].size \in Nat
             /\ PieceOf(larger.parts[j].of.plain, j, larger.total, larger.key, pk)
        BY <1>3, <1>16, <2>2, <3>1, <3>2
    <3> QED BY <1>3, <1>16, <2>2, <3>3 DEF Sound
  <2>4. \A m, j : In(set, m, j) => In(larger, m, j)
      BY <2>2 DEF In
  <2>5. In(larger, p.of.plain, p.index)
      BY <2>2 DEF In
  <2> DEFINE tt == [now.sets EXCEPT ![i] = larger]
  <2>6. /\ Table(tt, pk) /\ Len(tt) = Len(now.sets)
        /\ Held(tt) + set.bytes = Held(now.sets) + larger.bytes
        /\ Held(tt) \in Nat /\ Held(now.sets) \in Nat /\ set.bytes \in Nat /\ larger.bytes \in Nat
        /\ \A m, j : Holds(now.sets, m, j) \/ In(larger, m, j) => Holds(tt, m, j)
    <3>1. larger.key = now.sets[i].key /\ set = now.sets[i]
        BY <1>1, <1>3 DEF set
    <3>2. \A m, j : In(now.sets[i], m, j) => In(larger, m, j)
        BY <2>4, <3>1
    <3>3. PICK U : now.sets \in Seq(U)
        BY <1>1 DEF Table
    <3> DEFINE V == U \cup {larger}
    <3>4. now.sets \in Seq(V) /\ larger \in V
        BY <3>3, SeqWider
    <3> HIDE DEF V
    <3>5. i \in 1 .. Len(now.sets)
        BY <1>1, <3>4, SeqIs
    <3>6. tt \in Seq(V) /\ Len(tt) = Len(now.sets)
        BY <3>4, <3>5, ExceptIs, SMTT(15)
    <3>7. DOMAIN tt = DOMAIN now.sets /\ tt[i] = larger /\ \A j \in DOMAIN now.sets : j # i => tt[j] = now.sets[j]
        BY <1>1
    <3> HIDE DEF tt
    <3>8. Table(tt, pk)
        BY <1>1, <2>3, <3>1, <3>6, <3>7, ReplaceTable
    <3>9. Held(tt) + now.sets[i].bytes = Held(now.sets) + larger.bytes
      <4>1. Held(tt) + now.sets[i].bytes = Held(now.sets) + tt[i].bytes
          BY <1>1, <3>7, <3>8, ReplaceHeld
      <4> QED BY <3>7, <4>1
    <3>10. Held(tt) \in Nat /\ Held(now.sets) \in Nat
        BY <1>1, <3>8, HeldIs
    <3>11. larger.bytes \in Nat
        BY <1>3, <2>2, SMTT(15)
    <3>12. ASSUME NEW m, NEW j, Holds(now.sets, m, j) \/ In(larger, m, j) PROVE Holds(tt, m, j)
        BY <1>1, <3>2, <3>7, <3>12 DEF Holds
    <3> QED BY <2>2, <3>1, <3>6, <3>8, <3>9, <3>10, <3>11, <3>12
  <2>7. Grown.sets = tt /\ Grown.bytes = now.bytes + p.size
      BY <1>5
  <2> HIDE DEF tt
  <2>8. Held(tt) = now.bytes + p.size
    <3> DEFINE a == Held(tt)
    <3>1. /\ a + set.bytes = now.bytes + (set.bytes + p.size) /\ a \in Nat /\ set.bytes \in Nat
          /\ now.bytes \in Nat
        BY <1>1, <1>3, <2>6
    <3> HIDE DEF a
    <3>2. a = now.bytes + p.size
        BY <3>1
    <3> QED BY <3>2 DEF a
  <2>9. now.bytes + p.size <= MaxBytes
      BY <1>1, <1>8, <1>16, <2>6, SMTT(40)
  <2>10. ASSUME NEW m, NEW j, wanted(m, j) PROVE Kept(done, p, m, j)
      BY <1>1, <2>1, <2>5, <2>6, <2>7, <2>10 DEF Kept
  <2> QED BY <1>1, <2>1, <2>6, <2>7, <2>8, <2>9, <2>10
<1> QED BY <1>2, <1>12, <1>13, <1>14, <1>15, <1>16

\* The invariant is enough: a set with all pieces of a message is complete.
LEMMA NoneWaits == FiniteFacts /\ TableInv => Reassembled
<1> SUFFICES ASSUME FiniteFacts, TableInv, NEW p \in packets, \A i \in 0 .. p.total - 1 : <<p.of.plain, i>> \in came
             PROVE  FALSE
    BY DEF Reassembled
<1> DEFINE m == p.of.plain
           t == p.total
<1>1. t \in Nat \ {0}
    BY DEF TableInv, PacketsOK
<1>2. ASSUME NEW k \in DOMAIN sets, NEW i, In(sets[k], m, i)
      PROVE  sets[k].key = Key(p) /\ sets[k].total = t
  <2>1. i \in DOMAIN sets[k].parts /\ sets[k].parts[i].of.plain = m
      BY <1>2 DEF In
  <2>2. PieceOf(m, i, sets[k].total, sets[k].key, packets)
      BY <2>1 DEF TableInv, Table, Sound
  <2> QED BY <2>2 DEF PieceOf, TableInv, PacketsOK
<1>3. \A i \in 0 .. t - 1 : Holds(sets, m, i)
  <2> SUFFICES ASSUME NEW i \in 0 .. t - 1 PROVE Holds(sets, m, i)
      OBVIOUS
  <2> DEFINE c == <<m, i>>
  <2>1. c \in came /\ c[1] = m /\ c[2] = i
      OBVIOUS
  <2> HIDE DEF c
  <2> QED BY <2>1 DEF TableInv
<1>4. PICK k \in DOMAIN sets : In(sets[k], m, 0)
    BY <1>1, <1>3 DEF Holds
<1>5. \A i \in 0 .. t - 1 : In(sets[k], m, i)
  <2> SUFFICES ASSUME NEW i \in 0 .. t - 1 PROVE In(sets[k], m, i)
      OBVIOUS
  <2>1. PICK l \in DOMAIN sets : In(sets[l], m, i)
      BY <1>3 DEF Holds
  <2>2. sets[l].key = sets[k].key
      BY <1>2, <1>4, <2>1
  <2>3. l = k
      BY <2>2 DEF TableInv, Table
  <2> QED BY <2>1, <2>3
<1>6. Sound(sets[k], packets) /\ sets[k].total = t
    BY <1>2, <1>4 DEF TableInv, Table
<1>7. \A j \in DOMAIN sets[k].parts : j \in 0 .. t - 1
  <2> SUFFICES ASSUME NEW j \in DOMAIN sets[k].parts PROVE j \in 0 .. t - 1
      OBVIOUS
  <2>1. PieceOf(sets[k].parts[j].of.plain, j, t, sets[k].key, packets)
      BY <1>6 DEF Sound
  <2> QED BY <2>1 DEF PieceOf, TableInv, PacketsOK
<1>8. DOMAIN sets[k].parts = 0 .. t - 1
    BY <1>5, <1>7 DEF In
<1>9. Cardinality(0 .. t - 1) = t
    BY <1>1, SMTT(15) DEF FiniteFacts
<1> QED BY <1>6, <1>8, <1>9 DEF Sound

\* The table stands when more is transmitted.
LEMMA TableMonotone == ASSUME NEW ss, NEW pk, NEW qk, pk \subseteq qk, Table(ss, pk)
                       PROVE  Table(ss, qk)
<1>1. ASSUME NEW i \in DOMAIN ss PROVE Sound(ss[i], qk)
  <2>1. Sound(ss[i], pk)
      BY DEF Table
  <2> QED BY <2>1 DEF Sound, PieceOf
<1> QED BY <1>1 DEF Table

\* The reassembler starts empty.
LEMMA TableInit == FiniteFacts /\ FragInit => TableInv
<1> SUFFICES ASSUME FiniteFacts, FragInit PROVE TableInv
    OBVIOUS
<1> DEFINE q == Fragment(Other, 1, 0, 2, Chunk, Unknown)
<1>1. /\ q.src = Other /\ q.size = Chunk /\ q.total = 2 /\ q.index = 0
      /\ q.of = Unknown
    BY DEF Fragment
<1>2. packets = {q} /\ sets = <<>> /\ bytes = 0 /\ came = {} /\ send_ctr = 0
    BY DEF FragInit, Init
<1> HIDE DEF q
<1>3. PacketsOK
    BY <1>1, <1>2, FragmentAssumption, SMTT(15) DEF PacketsOK
<1>4. DOMAIN <<>> = {} /\ Len(<<>>) = 0
    OBVIOUS
<1>5. Table(sets, packets)
  <2> DEFINE none == {}
  <2>1. <<>> \in Seq(none)
      BY EmptyIs
  <2> HIDE DEF none
  <2> QED BY <1>2, <1>4, <2>1 DEF Table
<1>6. Held(sets) = 0
    BY <1>2, <1>4, <1>5, HeldIs, SumEmpty
<1>7. HeldWithinLimits
    BY <1>2, <1>4, <1>6, FragmentAssumption, SMTT(15) DEF HeldWithinLimits
<1> QED BY <1>2, <1>3, <1>5, <1>7, CounterAssumption DEF TableInv

\* split cuts a message into at least one fragment, none of a negative size.
LEMMA TotalOK == ASSUME NEW len \in Nat \ {0}
                 PROVE  /\ Total(len) \in Nat \ {0}
                        /\ \A i \in 0 .. Total(len) - 1 : ~(i < Total(len) - 1) => len - Chunk * i \in Nat
<1> DEFINE t == Total(len)
<1>1. Chunk \in Nat \ {0}
    BY FragmentAssumption
<1>2. t \in Int /\ Chunk * t <= len + Chunk - 1 /\ len + Chunk - 1 < Chunk * t + Chunk
    BY <1>1 DEF Total
<1> HIDE DEF t
<1>3. t \in Nat \ {0}
  <2>1. CASE t <= 0
    <3>1. Chunk * t <= 0
        BY <1>1, <1>2, <2>1
    <3> QED BY <1>1, <1>2, <3>1
  <2> QED BY <1>2, <2>1
<1>4. Chunk * (t - 1) = Chunk * t - Chunk
    BY <1>1, <1>2
<1>5. len - Chunk * (t - 1) \in Nat
    BY <1>1, <1>2, <1>4
<1>6. \A i \in 0 .. t - 1 : ~(i < t - 1) => i = t - 1
    BY <1>3
<1> QED BY <1>3, <1>5, <1>6 DEF t

\* What is sealed is transmitted in pieces of a message of its own.
LEMMA SendTable == ASSUME TableInv, NEW len \in Lengths[send_ctr], send_session_packet(len)
                PROVE  TableInv'
<1> DEFINE frame == [ctr |-> WireCounter(send_ctr), plain |-> send_ctr, intact |-> TRUE]
           new == packets' \ packets
<1>1. UNCHANGED <<sets, bytes, came>>
    BY DEF send_session_packet
<1>2. CASE UNCHANGED <<vars, packets>>
    BY <1>1, <1>2 DEF TableInv, PacketsOK, HeldWithinLimits, vars
<1>3. CASE ~UNCHANGED <<vars, packets>>
  <2>0. encrypt /\ send_ctr < COUNTER_REKEY_THRESHOLD /\ send_ctr' = send_ctr + 1
      BY <1>3 DEF send_session_packet, encrypt
  <2>1. send_ctr \in Nat /\ len \in Nat \ {0}
      BY FragmentAssumption, CounterAssumption, SMTT(15) DEF TableInv
  <2> DEFINE fid == IF len > Single THEN frag_id' ELSE Whole
             tot == IF len > Single THEN Total(len) ELSE 1
  <2>2. /\ packets \subseteq packets'
        /\ \A q \in new : \/ ~(len > Single) /\ q = Fragment(Peer, Whole, 0, 1, len, frame)
                          \/ len > Single /\ q \in split(frag_id', len, frame)
      BY <1>3 DEF send_session_packet
  <2>3. ASSUME NEW q \in new
        PROVE  /\ q.src = Peer /\ q.of.plain = send_ctr /\ q.fid = fid /\ q.total = tot
               /\ q.size \in Nat /\ q.total \in Nat \ {0} /\ q.index \in 0 .. q.total - 1
    <3>1. frame.plain = send_ctr
        OBVIOUS
    <3>2. CASE ~(len > Single) /\ q = Fragment(Peer, Whole, 0, 1, len, frame)
      <4>1. /\ q.src = Peer /\ q.of = frame /\ q.fid = Whole /\ q.total = 1 /\ q.size = len /\ q.index = 0
          BY <3>2 DEF Fragment
      <4> HIDE DEF frame, new
      <4> QED BY <2>1, <3>1, <3>2, <4>1, SMTT(15)
    <3>3. CASE len > Single /\ q \in split(frag_id', len, frame)
      <4>1. PICK i \in 0 .. Total(len) - 1 :
                q = Fragment(Peer, frag_id', i, Total(len),
                             IF i < Total(len) - 1 THEN Chunk ELSE len - Chunk * i, frame)
          BY <3>3 DEF split
      <4>2. /\ q.src = Peer /\ q.of = frame /\ q.fid = frag_id' /\ q.total = Total(len) /\ q.index = i
            /\ q.size = IF i < Total(len) - 1 THEN Chunk ELSE len - Chunk * i
          BY <4>1 DEF Fragment
      <4>3. Total(len) \in Nat \ {0} /\ (~(i < Total(len) - 1) => len - Chunk * i \in Nat)
          BY <2>1, TotalOK
      <4>4. Chunk \in Nat
          BY FragmentAssumption
      <4> HIDE DEF frame, new
      <4> QED BY <3>1, <3>3, <4>2, <4>3, <4>4
    <3> QED BY <2>2, <3>2, <3>3
  <2> HIDE DEF frame, fid, tot
  <2>4. \A q \in packets : /\ q.size \in Nat /\ q.total \in Nat \ {0} /\ q.index \in 0 .. q.total - 1
                           /\ q.of.plain = Unknown.plain \/ q.of.plain \in 0 .. send_ctr - 1
                           /\ q.of.plain = Unknown.plain <=> q.src # Peer
      BY DEF TableInv, PacketsOK
  <2>5. Unknown.plain = -1
      BY DEF Unknown
  <2>6. \A q \in packets' : /\ q.size \in Nat /\ q.total \in Nat \ {0} /\ q.index \in 0 .. q.total - 1
                            /\ q.of.plain = Unknown.plain \/ q.of.plain \in 0 .. send_ctr' - 1
                            /\ q.of.plain = Unknown.plain <=> q.src # Peer
    <3> SUFFICES ASSUME NEW q \in packets'
                 PROVE  /\ q.size \in Nat /\ q.total \in Nat \ {0} /\ q.index \in 0 .. q.total - 1
                        /\ q.of.plain = Unknown.plain \/ q.of.plain \in 0 .. send_ctr' - 1
                        /\ q.of.plain = Unknown.plain <=> q.src # Peer
        OBVIOUS
    <3>1. CASE q \in packets
      <4>1. q.of.plain \in 0 .. send_ctr - 1 => q.of.plain \in 0 .. send_ctr' - 1
          BY <2>0, <2>1
      <4> QED BY <2>4, <3>1, <4>1
    <3>2. CASE q \in new
      <4>1. send_ctr \in 0 .. send_ctr' - 1 /\ send_ctr # -1
          BY <2>0, <2>1
      <4> QED BY <2>3, <2>5, <3>2, <4>1
    <3> QED BY <3>1, <3>2
  <2>7. ASSUME NEW q \in packets', NEW r \in packets', q.of.plain = r.of.plain
        PROVE  Key(q) = Key(r) /\ q.total = r.total
    <3>1. \A x \in packets : x.of.plain # send_ctr
        BY <2>1, <2>4, <2>5
    <3>2. CASE q \in new
      <4>1. r \in new
          BY <2>3, <2>7, <3>1, <3>2
      <4> QED BY <2>3, <3>2, <4>1 DEF Key
    <3>3. CASE q \in packets
      <4>1. r \in packets
          BY <2>3, <2>7, <3>1, <3>3
      <4> QED BY <2>7, <3>3, <4>1 DEF TableInv, PacketsOK
    <3> QED BY <3>2, <3>3
  <2>8. PacketsOK'
      BY <2>6, <2>7 DEF PacketsOK, Key, Unknown
  <2>9. Table(sets, packets')
      BY <2>2, TableMonotone DEF TableInv
  <2>10. send_ctr' \in 0 .. COUNTER_REKEY_THRESHOLD
      BY <2>0, <2>1, CounterAssumption
  <2> QED BY <1>1, <2>8, <2>9, <2>10 DEF TableInv, HeldWithinLimits
<1> QED BY <1>2, <1>3

\* Opening what came seals nothing.
LEMMA OpenKeeps == ASSUME NEW pieces, DOMAIN pieces # {}, Open(pieces)
                   PROVE  UNCHANGED send_ctr
<1>1. CASE UNCHANGED vars
    BY <1>1 DEF vars
<1>2. CASE ~UNCHANGED vars
  <2>1. PICK j \in DOMAIN pieces : TRUE
      OBVIOUS
  <2>2. decrypt(pieces[j].of) \/ decryptFails(pieces[j].of)
      BY <1>2 DEF Open
  <2> QED BY <1>2, <2>2 DEF decrypt, decryptFails
<1> QED BY <1>1, <1>2

\* A packet that comes keeps the invariant.
LEMMA ReceiveTable == ASSUME FiniteFacts, TableInv, NEW q \in packets, NEW intact \in BOOLEAN, open_session_payload(q, intact)
                   PROVE  TableInv'
<1> DEFINE p == Fragment(q.src, q.fid, q.index, q.total, q.size,
                         [ctr |-> q.of.ctr, plain |-> q.of.plain, intact |-> intact])
           done == push([sets |-> sets, bytes |-> bytes], p)
           gone == excused \cup Harmed(p)
<1>1. /\ p.src = q.src /\ p.fid = q.fid /\ p.index = q.index /\ p.total = q.total /\ p.size = q.size
      /\ p.of.plain = q.of.plain /\ p.of.intact = intact
    BY DEF Fragment
<1>2. CASE p.fid = Whole
  <2>1. Open(<<p>>) /\ UNCHANGED <<sets, bytes, came, packets>>
      BY <1>2 DEF open_session_payload
  <2>2. DOMAIN <<p>> # {}
      OBVIOUS
  <2> HIDE DEF p
  <2>3. UNCHANGED send_ctr
      BY <2>1, <2>2, OpenKeeps
  <2> QED BY <2>1, <2>3 DEF TableInv, PacketsOK, HeldWithinLimits
<1>3. CASE p.fid # Whole
  <2>1. /\ sets' = done.rs.sets /\ bytes' = done.rs.bytes /\ UNCHANGED packets
        /\ IF p.src = Peer /\ DOMAIN done.full # {} THEN Open(done.full) ELSE UNCHANGED vars
        /\ came' = {c \in came \cup (IF intact /\ q.src = Peer THEN {<<q.of.plain, q.index>>} ELSE {}) :
                      c[1] \notin gone /\ \A i \in DOMAIN done.full : done.full[i].of.plain # c[1]}
      BY <1>3 DEF open_session_payload
  <2> HIDE DEF p
  <2>2. UNCHANGED send_ctr
    <3> HIDE DEF done
    <3> QED BY <2>1, OpenKeeps DEF vars
  <2>3. /\ p.total \in Nat \ {0} /\ p.size \in Nat
        /\ q.src = Peer => q.of.plain # Unknown.plain
      BY <1>1 DEF TableInv, PacketsOK
  <2>4. PieceOf(p.of.plain, p.index, p.total, Key(p), packets)
      BY <1>1 DEF PieceOf, Key
  <2>5. /\ Table(done.rs.sets, packets) /\ done.rs.bytes = Held(done.rs.sets)
        /\ done.rs.bytes <= MaxBytes /\ Len(done.rs.sets) <= MaxSets
        /\ \A m, j : m # Unknown.plain /\ (Holds(sets, m, j) \/ (p.of.intact /\ m = p.of.plain /\ j = p.index))
              => Kept(done, p, m, j)
    <3>1. Table(sets, packets) /\ HeldWithinLimits
        BY DEF TableInv
    <3> HIDE DEF TableInv
    <3> QED BY <2>3, <2>4, <3>1, PushTable
  <2> HIDE DEF done
  <2>6. ASSUME NEW c \in came' PROVE c[1] # Unknown.plain /\ Holds(sets', c[1], c[2])
    <3>1. c[1] \notin Harmed(p) /\ \A i \in DOMAIN done.full : done.full[i].of.plain # c[1]
        BY <2>1
    <3>2. CASE c \in came
      <4>1. c[1] # Unknown.plain /\ Holds(sets, c[1], c[2])
          BY <3>2 DEF TableInv
      <4> DEFINE m == c[1]
                 j == c[2]
      <4>2. m # Unknown.plain /\ Holds(sets, m, j)
          BY <4>1
      <4> HIDE DEF m, j
      <4>3. Kept(done, p, m, j)
          BY <2>5, <4>2
      <4>4. Holds(done.rs.sets, c[1], c[2])
          BY <3>1, <4>3 DEF m, j, Kept
      <4> QED BY <2>1, <4>1, <4>4
    <3>3. CASE intact /\ q.src = Peer /\ c = <<q.of.plain, q.index>>
      <4>1. c[1] = q.of.plain /\ c[2] = q.index
          BY <3>3
      <4>2. p.of.plain # Unknown.plain /\ p.of.intact
          BY <1>1, <2>3, <3>3
      <4>3. Kept(done, p, p.of.plain, p.index)
          BY <2>5, <4>2
      <4>4. Holds(done.rs.sets, c[1], c[2])
          BY <1>1, <3>1, <4>1, <4>3 DEF Kept
      <4> QED BY <1>1, <2>1, <4>1, <4>2, <4>4
    <3> QED BY <2>1, <3>2, <3>3
  <2>7. PacketsOK'
      BY <2>1, <2>2 DEF TableInv, PacketsOK
  <2>8. Table(sets, packets)'
      BY <2>1, <2>5
  <2>9. HeldWithinLimits'
      BY <2>1, <2>5 DEF HeldWithinLimits
  <2> QED BY <2>2, <2>6, <2>7, <2>8, <2>9 DEF TableInv
<1> QED BY <1>2, <1>3

\* The timeout keeps the invariant.
LEMMA ExpireTable == ASSUME FiniteFacts, TableInv, NEW n \in DOMAIN sets, expire(n)
                  PROVE  TableInv'
<1> DEFINE stale == SubSeq(sets, 1, n)
           tt == SubSeq(sets, n + 1, Len(sets))
           out == SumFunction([i \in 1 .. n |-> sets[i].bytes])
<1>1. /\ sets' = tt /\ bytes' = bytes - out /\ UNCHANGED <<vars, packets>>
      /\ excused' = excused \cup UNION {MessagesIn(s) : s \in Range(stale)}
      /\ came' = {c \in came : c[1] \notin excused'}
    BY DEF expire
<1>2. /\ Table(tt, packets) /\ Len(tt) <= Len(sets) /\ Held(sets) = Held(tt) + out
      /\ Held(tt) \in Nat /\ out \in Nat
      /\ \A m, j : Holds(sets, m, j) => Holds(tt, m, j) \/ \E i \in 1 .. n : In(sets[i], m, j)
    BY CutTable DEF TableInv
<1>3. PICK U : sets \in Seq(U)
    BY DEF TableInv, Table
<1>4. /\ Len(sets) \in Nat /\ DOMAIN sets = 1 .. Len(sets) /\ n \in 1 .. Len(sets)
      /\ \A i \in 1 .. Len(sets) : sets[i] \in U
    BY <1>3, SeqIs
<1>5. \A i \in 1 .. n : sets[i] \in Range(stale)
  <2>1. \A i \in 1 .. n : sets[i] \in U
      BY <1>4
  <2>2. /\ stale \in Seq(U) /\ Len(stale) = IF 1 <= n THEN n - 1 + 1 ELSE 0
        /\ \A i \in 1 .. n - 1 + 1 : stale[i] = sets[1 + i - 1]
      BY <1>4, <2>1, SubSeqIs, SMTT(15)
  <2> HIDE DEF stale
  <2>3. Len(stale) = n /\ n - 1 + 1 = n
      BY <1>4, <2>2
  <2>4. DOMAIN stale = 1 .. n
      BY <2>2, <2>3, SeqIs
  <2>5. \A i \in 1 .. n : stale[i] = sets[i]
      BY <1>4, <2>2, <2>3, SMTT(15)
  <2> QED BY <2>4, <2>5 DEF Range
<1> HIDE DEF stale, tt, out
<1>6. ASSUME NEW c \in came' PROVE c[1] # Unknown.plain /\ Holds(sets', c[1], c[2])
  <2>1. c[1] # Unknown.plain /\ Holds(sets, c[1], c[2]) /\ c[1] \notin excused'
      BY <1>1 DEF TableInv
  <2>2. ASSUME NEW i \in 1 .. n, In(sets[i], c[1], c[2]) PROVE FALSE
    <3>1. c[1] \in MessagesIn(sets[i])
        BY <2>1, <2>2, InMessages
    <3>2. sets[i] \in Range(stale)
        BY <1>5
    <3>3. c[1] \in UNION {MessagesIn(s) : s \in Range(stale)}
        BY <3>1, <3>2
    <3> QED BY <1>1, <2>1, <3>3
  <2>3. Holds(tt, c[1], c[2])
      BY <1>2, <2>1, <2>2
  <2> QED BY <1>1, <2>1, <2>3
<1>7. HeldWithinLimits'
  <2>1. bytes = Held(sets) /\ bytes <= MaxBytes /\ Len(sets) <= MaxSets /\ MaxBytes \in Nat /\ MaxSets \in Nat
      BY FragmentAssumption DEF TableInv, HeldWithinLimits
  <2>2. bytes - out = Held(tt) /\ Held(tt) <= MaxBytes
      BY <1>2, <2>1
  <2>3. tt \in Seq(U)
      BY <1>4, SubSeqIs DEF tt
  <2>4. Len(tt) <= MaxSets
      BY <1>2, <1>4, <2>1, <2>3, SeqIs
  <2> QED BY <1>1, <2>2, <2>4 DEF HeldWithinLimits
<1>8. PacketsOK'
    BY <1>1 DEF TableInv, PacketsOK, vars
<1>9. Table(sets, packets)'
    BY <1>1, <1>2
<1>10. UNCHANGED send_ctr
    BY <1>1 DEF vars
<1> QED BY <1>6, <1>7, <1>8, <1>9, <1>10 DEF TableInv

\* Every step keeps the invariant.
LEMMA TableStep == FiniteFacts /\ TableInv /\ [FragNext]_<<vars, fragVars>> => TableInv'
<1> SUFFICES ASSUME FiniteFacts, TableInv, [FragNext]_<<vars, fragVars>> PROVE TableInv'
    OBVIOUS
<1>1. CASE UNCHANGED <<vars, fragVars>>
    BY <1>1 DEF TableInv, PacketsOK, HeldWithinLimits, vars, fragVars
<1> QED BY <1>1, SendTable, ReceiveTable, ExpireTable DEF FragNext

-----------------------------------------------------------------------------
(* With fragments.                                                         *)

\* The intact frame that a packet carries, or carries a part of.
Carries(q) == [ctr |-> q.of.ctr, plain |-> q.of.plain, intact |-> TRUE]

\* A piece that came undamaged from the peer is of one of the frames in a.
GoodPiece(x, src, a) == src = Peer /\ x.of.intact => x.of \in a

GoodSet(s, a) == \A j \in DOMAIN s.parts : GoodPiece(s.parts[j], s.key[1], a)

\* Every set of the sequence ss is good.
SetsOK(ss, a) == \E U : ss \in Seq(U) /\ \A s \in U : GoodSet(s, a)

FragInv ==
    /\ \A q \in packets : /\ q.src = Peer => Carries(q) \in air
                          /\ q.fid = Whole => q.src = Peer
    /\ SetsOK(sets, air)

\* Sets stay good when others are dropped, from the front or the middle.
LEMMA TailOK == ASSUME NEW ss, NEW a, SetsOK(ss, a), ss # <<>>
                PROVE  SetsOK(Tail(ss), a)
<1>1. PICK U : ss \in Seq(U) /\ \A s \in U : GoodSet(s, a)
    BY DEF SetsOK
<1>2. Tail(ss) \in Seq(U)
    BY <1>1, TailIs
<1> QED BY <1>1, <1>2 DEF SetsOK

LEMMA SubSeqOK == ASSUME NEW ss, NEW a, SetsOK(ss, a), NEW m \in Nat \ {0}, NEW n \in Nat, n <= Len(ss)
                  PROVE  SetsOK(SubSeq(ss, m, n), a)
<1>1. PICK U : ss \in Seq(U) /\ \A s \in U : GoodSet(s, a)
    BY DEF SetsOK
<1>2. \A i \in m .. n : ss[i] \in U
    BY <1>1, SeqIs, SMTT(15)
<1>3. SubSeq(ss, m, n) \in Seq(U)
    BY <1>2, SubSeqIs, SMTT(15)
<1> QED BY <1>1, <1>3 DEF SetsOK

LEMMA RemoveOK == ASSUME NEW ss, NEW a, SetsOK(ss, a), NEW i \in DOMAIN ss
                  PROVE  SetsOK(Without(ss, i), a)
<1>1. PICK U : ss \in Seq(U) /\ \A s \in U : GoodSet(s, a)
    BY DEF SetsOK
<1>2. Len(ss) \in Nat /\ DOMAIN ss = 1 .. Len(ss) /\ \A j \in 1 .. Len(ss) : ss[j] \in U
    BY <1>1, SeqIs
<1>3. SubSeq(ss, 1, i - 1) \in Seq(U)
    BY <1>2, SubSeqIs, SMTT(15)
<1>4. SubSeq(ss, i + 1, Len(ss)) \in Seq(U)
    BY <1>2, SubSeqIs
<1>5. Without(ss, i) \in Seq(U)
    BY <1>3, <1>4, ConcatIs DEF Without
<1> QED BY <1>1, <1>5 DEF SetsOK

\* Sets stay good when a good one is added or takes another's place.
LEMMA AppendOK == ASSUME NEW ss, NEW a, SetsOK(ss, a), NEW e, GoodSet(e, a)
                  PROVE  /\ SetsOK(Append(ss, e), a)
                         /\ \E i \in DOMAIN Append(ss, e) : Append(ss, e)[i] = e
<1>1. PICK U : ss \in Seq(U) /\ \A s \in U : GoodSet(s, a)
    BY DEF SetsOK
<1> DEFINE V == U \cup {e}
<1>2. ss \in Seq(V) /\ e \in V
    BY <1>1, SeqWider
<1>3. \A s \in V : GoodSet(s, a)
    BY <1>1
<1> HIDE DEF V
<1>4. /\ Append(ss, e) \in Seq(V) /\ Len(Append(ss, e)) = Len(ss) + 1
      /\ Append(ss, e)[Len(ss) + 1] = e
    BY <1>2, AppendIs, ZenonT(40)
<1>5. Len(ss) \in Nat /\ DOMAIN Append(ss, e) = 1 .. Len(ss) + 1
    BY <1>2, <1>4, SeqIs
<1> QED BY <1>3, <1>4, <1>5 DEF SetsOK

LEMMA ReplaceOK == ASSUME NEW ss, NEW a, SetsOK(ss, a), NEW i \in DOMAIN ss, NEW e, GoodSet(e, a)
                   PROVE  SetsOK([ss EXCEPT ![i] = e], a)
<1>1. PICK U : ss \in Seq(U) /\ \A s \in U : GoodSet(s, a)
    BY DEF SetsOK
<1> DEFINE V == U \cup {e}
<1>2. ss \in Seq(V) /\ e \in V
    BY <1>1, SeqWider
<1>3. \A s \in V : GoodSet(s, a)
    BY <1>1
<1> HIDE DEF V
<1>4. i \in 1 .. Len(ss)
    BY <1>2, SeqIs
<1>5. [ss EXCEPT ![i] = e] \in Seq(V)
    BY <1>2, <1>4, ExceptIs
<1> QED BY <1>3, <1>5 DEF SetsOK

\* A set of the sequence is good, and with it whatever it is made of.
LEMMA MemberOK == ASSUME NEW ss, NEW a, SetsOK(ss, a), NEW i \in DOMAIN ss
                  PROVE  GoodSet(ss[i], a)
<1>1. PICK U : ss \in Seq(U) /\ \A s \in U : GoodSet(s, a)
    BY DEF SetsOK
<1>2. ss[i] \in U
    BY <1>1, SeqIs
<1> QED BY <1>1, <1>2

\* push begins with a set for its fragment, and the sets are still good.
LEMMA StartedOK == ASSUME NEW ss, NEW b, NEW a, NEW p, SetsOK(ss, a)
                   PROVE  LET now == Started([sets |-> ss, bytes |-> b], p)
                          IN  SetsOK(now.sets, a) /\ Has(now.sets, Key(p))
<1> DEFINE rs == [sets |-> ss, bytes |-> b]
           room == IF Len(ss) >= MaxSets THEN evict_oldest(rs) ELSE rs
           more == [sets |-> Append(room.sets, NewSet(p)), bytes |-> room.bytes]
<1>1. Started(rs, p) = IF Has(ss, Key(p)) THEN rs ELSE more
    BY DEF Started
<1>2. SetsOK(room.sets, a)
  <2>1. CASE Len(ss) >= MaxSets
    <3>1. ss # <<>>
        BY <2>1, FragmentAssumption, EmptyIs, SMTT(15)
    <3>2. room.sets = Tail(ss)
        BY <2>1 DEF evict_oldest
    <3> QED BY <3>1, <3>2, TailOK
  <2>2. CASE ~(Len(ss) >= MaxSets)
      BY <2>2
  <2> QED BY <2>1, <2>2
<1>3. GoodSet(NewSet(p), a) /\ NewSet(p).key = Key(p)
  <2>1. NewSet(p).parts = <<>> /\ NewSet(p).key = Key(p)
      BY DEF NewSet
  <2>2. DOMAIN <<>> = {}
      OBVIOUS
  <2> QED BY <2>1, <2>2 DEF GoodSet
<1>4. SetsOK(more.sets, a) /\ Has(more.sets, Key(p))
  <2> HIDE DEF room
  <2>1. more.sets = Append(room.sets, NewSet(p))
      OBVIOUS
  <2>2. SetsOK(Append(room.sets, NewSet(p)), a)
      BY <1>2, <1>3, AppendOK
  <2>3. PICK i \in DOMAIN Append(room.sets, NewSet(p)) : Append(room.sets, NewSet(p))[i] = NewSet(p)
      BY <1>2, <1>3, AppendOK
  <2>4. Has(Append(room.sets, NewSet(p)), Key(p))
      BY <2>3, <1>3 DEF Has
  <2> QED BY <2>1, <2>2, <2>4
<1> HIDE DEF more
<1> QED BY <1>1, <1>4, SMTT(15)

\* push keeps the sets good, and a complete set it hands out is good.
LEMMA PushOK == ASSUME NEW ss, NEW b, NEW a, NEW p, SetsOK(ss, a), GoodPiece(p, p.src, a)
                PROVE  LET done == push([sets |-> ss, bytes |-> b], p)
                       IN  /\ SetsOK(done.rs.sets, a)
                           /\ \A j \in DOMAIN done.full : GoodPiece(done.full[j], p.src, a)
<1> DEFINE rs == [sets |-> ss, bytes |-> b]
           now == Started(rs, p)
           i == IndexOf(now.sets, Key(p))
           set == now.sets[i]
           parts == [j \in DOMAIN set.parts \cup {p.index} |-> IF j = p.index THEN p ELSE set.parts[j]]
           Dropped == [sets |-> Without(now.sets, i), bytes |-> now.bytes - set.bytes]
           larger == [key |-> Key(p), total |-> p.total, parts |-> parts, bytes |-> set.bytes + p.size]
           Grown == [sets |-> [now.sets EXCEPT ![i] = larger], bytes |-> now.bytes + p.size]
           done == push(rs, p)
<1>1. SetsOK(now.sets, a) /\ Has(now.sets, Key(p))
    BY StartedOK
<1>2. i \in DOMAIN now.sets /\ set.key = Key(p)
    BY <1>1 DEF Has, IndexOf
<1>3. Key(p)[1] = p.src
    BY DEF Key
<1>4. \A j \in DOMAIN parts : GoodPiece(parts[j], p.src, a)
    BY <1>1, <1>2, <1>3, MemberOK DEF GoodSet
<1>5. GoodSet(larger, a)
    BY <1>3, <1>4 DEF GoodSet
<1>6. SetsOK(Dropped.sets, a)
    BY <1>1, <1>2, RemoveOK
<1>7. SetsOK(Grown.sets, a)
    BY <1>1, <1>2, <1>5, ReplaceOK
<1>8. \/ done = [rs |-> Dropped, full |-> <<>>]
      \/ done = [rs |-> now, full |-> <<>>]
      \/ done = [rs |-> Dropped, full |-> parts]
      \/ done = [rs |-> Grown, full |-> <<>>]
    BY DEF push
<1>9. DOMAIN <<>> = {}
    OBVIOUS
<1>10. SetsOK(done.rs.sets, a) /\ \A j \in DOMAIN done.full : GoodPiece(done.full[j], p.src, a)
  <2> HIDE DEF done, now, i, set, parts, Dropped, Grown
  <2>1. CASE done = [rs |-> Dropped, full |-> <<>>]
      BY <2>1, <1>6, <1>9
  <2>2. CASE done = [rs |-> now, full |-> <<>>]
      BY <2>2, <1>1, <1>9
  <2>3. CASE done = [rs |-> Dropped, full |-> parts]
      BY <2>3, <1>4, <1>6
  <2>4. CASE done = [rs |-> Grown, full |-> <<>>]
      BY <2>4, <1>7, <1>9
  <2> QED BY <1>8, <2>1, <2>2, <2>3, <2>4
<1> QED BY <1>10

\* More frames sealed: the sets are still good.
LEMMA SetsMonotone == ASSUME NEW ss, NEW a, NEW b, a \subseteq b, SetsOK(ss, a)
                      PROVE  SetsOK(ss, b)
<1>1. PICK U : ss \in Seq(U) /\ \A s \in U : GoodSet(s, a)
    BY DEF SetsOK
<1>2. \A s \in U : GoodSet(s, b)
    BY <1>1 DEF GoodSet, GoodPiece
<1> QED BY <1>1, <1>2 DEF SetsOK

\* What is opened is a frame that was sealed, or it changes nothing.
LEMMA OpenIsSession == ASSUME NEW pieces, DOMAIN pieces # {}, Open(pieces),
                              \A j \in DOMAIN pieces : GoodPiece(pieces[j], Peer, air)
                       PROVE  [Next]_vars /\ UNCHANGED air
<1>1. CASE UNCHANGED vars
    BY <1>1 DEF vars
<1>2. CASE ~UNCHANGED vars
  <2>1. PICK j \in DOMAIN pieces : TRUE
      OBVIOUS
  <2> DEFINE f == pieces[j].of
  <2>2. decrypt(f) \/ decryptFails(f)
      BY <1>2 DEF Open
  <2>3. decrypt(f)
      BY <1>2, <2>2 DEF decryptFails
  <2>4. f \in air
      BY <2>3 DEF decrypt, GoodPiece
  <2>5. UNCHANGED air
      BY <2>3 DEF decrypt
  <2> HIDE DEF f
  <2> QED BY <2>3, <2>4, <2>5 DEF Next
<1> QED BY <1>1, <1>2

LEMMA FragInitInv == FragInit => Init /\ FragInv
<1> SUFFICES ASSUME FragInit PROVE FragInv
    BY DEF FragInit
<1>1. \A q \in packets : q.src = Other /\ q.fid = 1
    BY DEF FragInit, Fragment
<1>2. SetsOK(<<>>, air)
  <2> DEFINE none == {}
  <2>1. <<>> \in Seq(none) /\ \A s \in none : GoodSet(s, air)
      BY EmptyIs
  <2> HIDE DEF none
  <2> QED BY <2>1 DEF SetsOK
<1> QED BY <1>1, <1>2, FragmentAssumption, SMTT(15) DEF FragInv, FragInit, Whole

\* Every step keeps the invariant and is one of the session, or none.
LEMMA FragStep == ASSUME FragInv, [FragNext]_<<vars, fragVars>>
                  PROVE  FragInv' /\ [Next]_vars
<1>1. ASSUME NEW len, send_session_packet(len) PROVE FragInv' /\ [Next]_vars
  <2> DEFINE frame == [ctr |-> WireCounter(send_ctr), plain |-> send_ctr, intact |-> TRUE]
  <2>1. CASE UNCHANGED <<vars, packets>>
      BY <1>1, <2>1 DEF send_session_packet, FragInv, vars, Carries
  <2>2. CASE ~UNCHANGED <<vars, packets>>
    <3>1. encrypt /\ UNCHANGED sets
        BY <1>1, <2>2 DEF send_session_packet
    <3>2. air' = air \cup {frame}
        BY <3>1 DEF encrypt
    <3>3. ASSUME NEW q \in packets' \ packets PROVE q.src = Peer /\ q.of = frame
      <4>1. \A fid, i, total, size : /\ Fragment(Peer, fid, i, total, size, frame).src = Peer
                                     /\ Fragment(Peer, fid, i, total, size, frame).of = frame
          BY DEF Fragment
      <4>2. \/ q = Fragment(Peer, Whole, 0, 1, len, frame)
            \/ q \in split(frag_id', len, frame)
          BY <1>1, <2>2 DEF send_session_packet
      <4> HIDE DEF frame
      <4> QED BY <4>1, <4>2 DEF split
    <3>4. ASSUME NEW q \in packets' \ packets PROVE Carries(q) = frame
      <4>1. q.of.ctr = WireCounter(send_ctr) /\ q.of.plain = send_ctr
          BY <3>3
      <4> QED BY <4>1 DEF Carries
    <3>5. SetsOK(sets, air')
        BY <3>2, SetsMonotone, SMTT(15) DEF FragInv
    <3> HIDE DEF frame
    <3>6. \A q \in packets' : /\ q.src = Peer => Carries(q) \in air'
                              /\ q.fid = Whole => q.src = Peer
        BY <3>2, <3>3, <3>4 DEF FragInv
    <3>7. FragInv'
        BY <3>1, <3>5, <3>6 DEF FragInv, Carries
    <3> QED BY <3>1, <3>7 DEF Next
  <2> QED BY <2>1, <2>2
<1>2. ASSUME NEW q \in packets, NEW intact \in BOOLEAN, open_session_payload(q, intact)
      PROVE FragInv' /\ [Next]_vars
  <2> DEFINE p == Fragment(q.src, q.fid, q.index, q.total, q.size,
                           [ctr |-> q.of.ctr, plain |-> q.of.plain, intact |-> intact])
             done == push([sets |-> sets, bytes |-> bytes], p)
  <2>1. p.src = q.src /\ p.fid = q.fid /\ p.of = [ctr |-> q.of.ctr, plain |-> q.of.plain, intact |-> intact]
      BY DEF Fragment
  <2>2. GoodPiece(p, p.src, air)
    <3>1. p.of.intact = intact
        BY <2>1
    <3>2. intact => p.of = Carries(q)
        BY <2>1 DEF Carries
    <3> HIDE DEF p
    <3> QED BY <2>1, <3>1, <3>2 DEF GoodPiece, FragInv
  <2>3. CASE p.fid = Whole
    <3>1. Open(<<p>>) /\ UNCHANGED <<sets, packets>>
        BY <1>2, <2>3 DEF open_session_payload
    <3>2. p.src = Peer
        BY <2>1, <2>3 DEF FragInv
    <3>3. DOMAIN <<p>> = {1} /\ <<p>>[1] = p
        OBVIOUS
    <3> HIDE DEF p
    <3>4. [Next]_vars /\ UNCHANGED air
        BY <2>2, <3>1, <3>2, <3>3, OpenIsSession
    <3> QED BY <3>1, <3>4 DEF FragInv, Carries
  <2>4. CASE p.fid # Whole
    <3>1. /\ sets' = done.rs.sets /\ UNCHANGED packets
          /\ IF p.src = Peer /\ DOMAIN done.full # {} THEN Open(done.full) ELSE UNCHANGED vars
        BY <1>2, <2>4 DEF open_session_payload
    <3>2. SetsOK(done.rs.sets, air) /\ \A j \in DOMAIN done.full : GoodPiece(done.full[j], p.src, air)
        BY <2>2, PushOK DEF FragInv
    <3> HIDE DEF done, p
    <3>3. [Next]_vars /\ UNCHANGED air
        BY <3>1, <3>2, OpenIsSession DEF vars
    <3> QED BY <3>1, <3>2, <3>3 DEF FragInv, Carries
  <2> QED BY <2>3, <2>4
<1>3. ASSUME NEW n \in DOMAIN sets, expire(n) PROVE FragInv' /\ [Next]_vars
  <2>1. UNCHANGED <<vars, packets>> /\ sets' = SubSeq(sets, n + 1, Len(sets))
      BY <1>3 DEF expire
  <2>2. Len(sets) \in Nat /\ n \in Nat
      BY SeqIs, SMTT(15) DEF FragInv, SetsOK
  <2>3. SetsOK(SubSeq(sets, n + 1, Len(sets)), air)
      BY <2>2, SubSeqOK DEF FragInv
  <2> QED BY <2>1, <2>3 DEF FragInv, vars, Carries
<1>4. CASE UNCHANGED <<vars, fragVars>>
    BY <1>4 DEF FragInv, vars, fragVars, Carries
<1> QED BY <1>1, <1>2, <1>3, <1>4 DEF FragNext

\* send_session_packet and open_session_payload, with split and the
\* Reassembler between them, implement a session that carries whole frames.
THEOREM FragmentsImplementSession == FragSpec => Spec
<1>1. FragInv /\ [FragNext]_<<vars, fragVars>> => FragInv' /\ [Next]_vars
    BY FragStep
<1> QED BY <1>1, FragInitInv, PTL DEF FragSpec, Spec

\* Session::decrypt opens no plaintext twice, whatever fragments come again
\* and whichever sets they complete.
THEOREM FragmentsOpenOnce == FragSpec => []NoReplay
BY FragmentsImplementSession, NoReplayHolds, PTL

\* However messages are fragmented, mixed and damaged, the replay window
\* refuses exactly what was opened or is SIZE behind.
THEOREM FragmentsWindowExact == FragSpec => []WindowExact
BY FragmentsImplementSession, WindowExactHolds, PTL

\* No wire counter is used for two plaintexts, although a message that is too
\* long for split has already taken its counter (send_session_packet).
THEOREM FragmentsNonceUnique == FragSpec => []NonceUnique
BY FragmentsImplementSession, NonceUniqueHolds, PTL

\* The layer above gets the same promise of a session with fragments: what
\* open_session_payload hands up was handed to send_session_packet, once.
THEOREM FragmentsImplementAtMostOnce == FragSpec => ImplementsAtMostOnce
BY FragmentsImplementSession, SessionImplementsAtMostOnce, PTL

-----------------------------------------------------------------------------
(* The reassembler.                                                        *)

INSTANCE FiniteSetTheorems

\* A smallest among subsets of a finite set, because strict inclusion is
\* well founded there.
LEMMA SmallestThere ==
    ASSUME NEW S, IsFiniteSet(S), NEW B \in SUBSET (SUBSET S), B # {}
    PROVE  \E T \in B : \A U \in SUBSET T : U # T => U \notin B
<1>1. B \subseteq FiniteSubsetsOf(S)
    BY FS_Subset DEF FiniteSubsetsOf
<1>2. IsWellFoundedOn(StrictSubsetOrdering(S), FiniteSubsetsOf(S))
    BY FS_StrictSubsetOrderingWellFounded
<1>3. PICK T \in B : \A U \in B : ~(<<U, T>> \in StrictSubsetOrdering(S))
    BY <1>1, <1>2, WFMin
<1> QED BY <1>3 DEF StrictSubsetOrdering

\* The image of a finite set is finite.
LEMMA FiniteImage ==
    ASSUME NEW S, NEW h, NEW I, IsFiniteSet(S), \A y \in I : \E x \in S : y = h[x]
    PROVE  IsFiniteSet(I)
<1> DEFINE k == [x \in S |-> h[x]]
           J == {h[x] : x \in S}
<1>1. k \in Surjection(S, J)
    BY DEF Surjection
<1>2. IsFiniteSet(J)
    BY <1>1, FS_Surjection
<1>3. I \in SUBSET J
    OBVIOUS
<1> QED BY <1>2, <1>3, FS_Subset

\* What the lemmas on the table take from the library.
LEMMA Finite == FiniteFacts
<1>1. \A S, T : IsFiniteSet(S) /\ T \in SUBSET S => IsFiniteSet(T)
    BY FS_Subset
<1>2. \A S, x : IsFiniteSet(S) => /\ IsFiniteSet(S \cup {x})
                                  /\ (x \notin S => Cardinality(S \cup {x}) = Cardinality(S) + 1)
    BY FS_AddElement
<1>3. \A m, n \in Int : IsFiniteSet(m .. n) /\ (m <= n => Cardinality(m .. n) = n - m + 1)
    BY FS_Interval, SMTT(15)
<1>4. IsFiniteSet({}) /\ Cardinality({}) = 0
    BY FS_EmptySet
<1>5. \A S, h, I : IsFiniteSet(S) /\ (\A y \in I : \E x \in S : y = h[x]) => IsFiniteSet(I)
    BY FiniteImage
<1>6. \A S, B : IsFiniteSet(S) /\ B \in SUBSET (SUBSET S) /\ B # {}
                  => \E T \in B : \A U \in SUBSET T : U # T => U \notin B
    BY SmallestThere
<1> QED BY <1>1, <1>2, <1>3, <1>4, <1>5, <1>6 DEF FiniteFacts

\* The invariant holds.
LEMMA TableInvariant == FragSpec => []TableInv
<1>1. FragInit => TableInv
    BY Finite, TableInit
<1>2. TableInv /\ [FragNext]_<<vars, fragVars>> => TableInv'
    BY Finite, TableStep
<1> QED BY <1>1, <1>2, PTL DEF FragSpec

\* Reassembler::push and expire keep the byte count equal to what the sets
\* hold, whichever of its five ways a set leaves by, and within max_bytes
\* and max_sets.
THEOREM HeldWithinLimitsHolds == FragSpec => []HeldWithinLimits
<1>1. TableInv => HeldWithinLimits
    BY DEF TableInv
<1> QED BY <1>1, TableInvariant, PTL

\* Reassembler::push hands a message out when its last fragment comes, in
\* whatever order they came, unless one was lost to the timeout, a limit or
\* another message under its id.
THEOREM ReassembledHolds == FragSpec => []Reassembled
<1>1. TableInv => Reassembled
    BY Finite, NoneWaits
<1> QED BY <1>1, TableInvariant, PTL
=============================================================================

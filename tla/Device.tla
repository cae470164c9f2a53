------------------------------- MODULE Device -------------------------------
(***************************************************************************)
(* The single-radio firmware (examples/esp32-sx1262): one SX126x shared by *)
(* the native mesh and the two foreign networks.  The main loop listens on *)
(* the profile of its mode; scanning, it also sweeps the foreign profiles  *)
(* with CAD probes, locks on what they hit, and sits on Meshtastic for     *)
(* short windows.  Commands change the mode or transmit a foreign text.    *)
(*                                                                         *)
(* Each action is one section of the loop; the chip finds a preamble, a    *)
(* header and the end of a frame between sections.  Times are kept as      *)
(* saturating ages, so the loop runs for ever.  The node engine is a queue *)
(* that is empty or not.                                                   *)
(***************************************************************************)
EXTENDS Sx126x

CONSTANTS ScanPeriod, DwellInterval, DwellTime, MtActive,  \* SCAN_PERIOD_MS, DWELL_*, MT_ACTIVE_MS
          HeaderBy, FrameTime,                             \* a header, a longest frame is due
          Glitches,                                        \* commands on the bus that fail (bound)
          Saved,                                           \* modes flash may hold at boot
          Commands                                         \* commands given (bound)

Native == "meshstar"
Foreign == <<"meshtastic", "meshcore">>
Frequency(p) == IF p = "meshcore" THEN "869.6" ELSE "869.5"

ASSUME DeviceAssumption ==
    /\ {"meshstar", "meshtastic", "meshcore"} \subseteq Profiles
    /\ None \notin Profiles \cup Nat
    /\ {Glitches, DwellTime} \subseteq Nat
    /\ Saved \subseteq {"native", "meshcore", "meshtastic", "scan"}

VARIABLES radio,   \* the driver and the chip
          pc,      \* the section of the loop that is next
          fw,      \* the loop's variables
          hunt,    \* profiles a sweep still has to try after a hit
          queue,   \* the node has frames to send, now or later
          asked    \* commands given so far

vars == <<radio, pc, fw, hunt, queue, asked>>

\* Mode::{Native, MeshCore, Meshtastic, Scan} as (compat.mode, scan).
Modes == {"native", "meshcore", "meshtastic", "scan"}
CompatMode(m) == IF m \in {"meshcore", "meshtastic"} THEN m ELSE None
ModeOf(f) == IF f.mode # None THEN f.mode ELSE IF f.scan THEN "scan" ELSE "native"

\* The profile of the mode in force.
Wanted(f) == IF f.mode = None THEN Native ELSE f.mode

\* Boot: the ages run from 0, the dwell goes with the saved mode.  Without
\* its native profile the firmware does not start.
NewFirmware(m) ==
    [mode |-> CompatMode(m), scan |-> m = "scan", mt_dwell |-> m = "scan",
     dwell |-> None, astray |-> FALSE, sinceDwell |-> 0, sinceScan |-> 0, sinceHeard |-> 0,
     active |-> None]

Booted(m, glitches) ==
    LET native == {x \in retune(NewRadio(Native, glitches), Native) : x.ok}
    IN IF CompatMode(m) = None THEN native
       ELSE Regardless(native, LAMBDA q : retune(q, CompatMode(m)))

Init == /\ \E m \in Saved : /\ fw = NewFirmware(m)
                            /\ \E x \in Booted(m, Glitches) : radio = x.r
        /\ pc = "top" /\ hunt = <<>> /\ queue = FALSE /\ asked = 0

-----------------------------------------------------------------------------
\* The window on Meshtastic is in use.
MtActiveNow == fw.mt_dwell /\ fw.sinceHeard < MtActive
Dwelling == fw.scan /\ MtActiveNow /\ fw.mode = None

\* A window opens: the tuning may fail unnoticed.
Opens == fw.dwell = None /\ fw.sinceDwell >= DwellInterval /\ ~queue /\ ~radio.rx_active
Opened == IF Opens THEN retune(radio, Foreign[1]) ELSE {Result(TRUE, None, radio)}
WindowLeft == IF Opens THEN DwellTime ELSE fw.dwell

\* One pass of the loop in the window: a frame is drained; the window
\* closes when it is over and no frame is coming, else the pass ends here.
Dwell == /\ pc = "top" /\ Dwelling
         /\ fw.dwell # None \/ Opens
         /\ \E o \in Opened : \E x \in receive(o.r) :
              LET f == [fw EXCEPT !.dwell = WindowLeft,
                                  !.sinceDwell = IF Opens THEN 0 ELSE @,
                                  !.sinceHeard = IF x.got # None THEN 0 ELSE @]
              IN IF WindowLeft = 0 /\ ~x.r.rx_active
                 THEN /\ \E c \in retune(x.r, Native) : radio' = c.r
                      /\ fw' = [f EXCEPT !.dwell = None, !.astray = FALSE]
                      /\ pc' = "sweep"
                 ELSE radio' = x.r /\ fw' = f /\ UNCHANGED pc
         /\ UNCHANGED <<hunt, queue, asked>>

\* The loop gets past the window: it closed in this pass, none is due, the
\* node does not scan, or Meshtastic was not heard for long (a window may
\* then be left open).
PastWindow == \/ pc = "sweep"
              \/ pc = "top" /\ (~Dwelling \/ (fw.dwell = None /\ ~Opens))
Past(f) == [f EXCEPT !.astray = @ \/ fw.dwell # None]

-----------------------------------------------------------------------------
SweepDue_WithWindows == /\ fw.scan /\ fw.mt_dwell /\ fw.mode = None
                        /\ fw.sinceScan >= ScanPeriod /\ ~queue
SweepDue == fw.scan /\ fw.mode = None /\ fw.sinceScan >= ScanPeriod /\ ~queue

\* A native frame in progress holds the sweep back, for a while.
Age == IF fw.active = None THEN 0 ELSE fw.active
native_busy == \/ radio.rx_active /\ Age < FrameTime
               \/ ~radio.rx_active /\ radio.preamble_seen /\ Age < HeaderBy

Probe(r, p) == cad_probe_symbols(r, p)

\* The tuning back at the end of a sweep, tried twice.
TuneBack(r) ==
    LET first == retune(r, Native)
    IN {x \in first : x.ok} \cup UNION {retune(x.r, Native) : x \in {y \in first : ~y.ok}}

NoSweep == /\ PastWindow
           /\ ~SweepDue \/ native_busy
           /\ fw' = Past(IF SweepDue THEN [fw EXCEPT !.active = Age] ELSE fw)
           /\ pc' = "receive"
           /\ UNCHANGED <<radio, hunt, queue, asked>>

\* The loop's variables once the sweep starts; an expired frame in
\* progress keeps its start, an expired preamble is forgotten.
Swept == Past([fw EXCEPT !.sinceScan = 0,
                         !.active = IF radio.rx_active THEN Age ELSE None])
Forgotten == IF radio.rx_active THEN radio ELSE [radio EXCEPT !.preamble_seen = FALSE]

SweepFrom(results) == \E x \in results : \E b \in TuneBack(x.r) :
    radio' = b.r /\ pc' = "receive" /\ hunt' = <<>>

\* No probe hits, or one fails.
SweepQuiet == /\ PastWindow /\ SweepDue /\ ~native_busy
              /\ fw' = Swept
              /\ SweepFrom(AndThen(Probe(Forgotten, Foreign[1]), LAMBDA r : Probe(r, Foreign[2])))
              /\ UNCHANGED <<queue, asked>>

\* A probe hits, on a frame or on noise: the profiles are tried in turn.
LockOn(r, profiles) ==
    \E x \in retune(r, Head(profiles)) :
        IF x.ok
        THEN radio' = x.r /\ pc' = "hunt" /\ hunt' = profiles
        ELSE SweepFrom({x})

SweepHit == /\ PastWindow /\ SweepDue /\ ~native_busy
            /\ fw' = Swept
            /\ \/ \E x \in Probe(Forgotten, Foreign[1]) : x.ok /\ LockOn(x.r, Foreign)
               \/ \E x \in AndThen(Probe(Forgotten, Foreign[1]), LAMBDA r : Probe(r, Foreign[2])) :
                    x.ok /\ LockOn(x.r, <<Foreign[2], Foreign[1]>>)
            /\ UNCHANGED <<queue, asked>>

HuntEnds(r) == SweepFrom({Result(TRUE, None, r)})

\* Locked on a profile: the frame arrives, or the reception fails.
HuntRead == /\ pc = "hunt" /\ radio.irq # {}
            /\ \E x \in receive(radio) :
                 IF x.ok /\ x.got = None
                 THEN radio' = x.r /\ UNCHANGED <<pc, hunt, fw>>
                 ELSE /\ fw' = IF x.ok /\ Head(hunt) = "meshtastic"
                               THEN [fw EXCEPT !.sinceHeard = 0] ELSE fw
                      /\ IF x.ok \/ x.r.preamble_seen \/ x.r.rx_active \/ Len(hunt) = 1
                         THEN HuntEnds(x.r) ELSE LockOn(x.r, Tail(hunt))
            /\ UNCHANGED <<queue, asked>>

\* Nothing in the time a preamble, a header or the frame takes.
HuntTimeout == /\ pc = "hunt"
               /\ IF radio.preamble_seen \/ radio.rx_active \/ Len(hunt) = 1
                  THEN HuntEnds(radio) ELSE LockOn(radio, Tail(hunt))
               /\ UNCHANGED <<fw, queue, asked>>

-----------------------------------------------------------------------------
\* A frame goes to the compatibility layer in a foreign mode, else to the node.
Receive == /\ pc = "receive"
           /\ \E x \in receive(radio) : radio' = x.r
           /\ pc' = "transmit"
           /\ UNCHANGED <<fw, hunt, queue, asked>>

\* node.poll may queue frames; none is due yet.
Poll == /\ pc = "transmit"
        /\ queue' \in {queue, TRUE}
        /\ pc' = "top"
        /\ UNCHANGED <<radio, fw, hunt, asked>>

\* Listen before talk, transmit, listen again.
Send(r) == \E x \in Regardless(transmit(r), start_receive) : radio' = x.r

Transmit == /\ pc = "transmit"
            /\ \E b \in channel_busy(radio) : Send(b.r)
            /\ queue' = FALSE
            /\ pc' = "top"
            /\ UNCHANGED <<fw, hunt, asked>>

-----------------------------------------------------------------------------
\* No command is read while a window is open.
Command == pc = "top" /\ (fw.dwell = None \/ fw.astray) /\ asked < Commands /\ asked' = asked + 1

\* The profile of a mode is set up when the mode is entered; a failure is
\* only printed.
Enter(f) == /\ fw' = [f EXCEPT !.astray = f.dwell # None]
            /\ \E x \in retune(radio, Wanted(f)) : radio' = x.r

\* The console's compat command forgets an open window.
ConsoleCompat(m, nomt) ==
    /\ Command
    /\ nomt => m = "scan"
    /\ Enter([fw EXCEPT !.mode = CompatMode(m), !.scan = m = "scan",
                        !.mt_dwell = m = "scan" /\ ~nomt, !.dwell = None])
    /\ UNCHANGED <<pc, hunt, queue>>

\* A long press on the networks screen.
CycleCompat ==
    /\ Command
    /\ LET m == CASE ModeOf(fw) = "native" -> "meshcore"
                  [] ModeOf(fw) = "meshcore" -> "meshtastic"
                  [] ModeOf(fw) = "meshtastic" -> "scan"
                  [] ModeOf(fw) = "scan" -> "native"
       IN Enter([fw EXCEPT !.mode = CompatMode(m), !.scan = m = "scan"])
    /\ UNCHANGED <<pc, hunt, queue>>

\* The app sets the mode.
SetMode(m) ==
    /\ Command
    /\ Enter([fw EXCEPT !.mode = CompatMode(m), !.scan = m = "scan"])
    /\ UNCHANGED <<pc, hunt, queue>>

\* The app sends a text on a foreign network: there and back.
ForeignSend(net) ==
    /\ Command
    /\ \E c \in configure(radio, net) :
         \E x \in Regardless(IF c.ok THEN transmit(c.r) ELSE {c}, LAMBDA r : retune(r, Wanted(fw))) :
           radio' = x.r
    /\ UNCHANGED <<pc, fw, hunt, queue>>

\* csend and the periodic adverts use the tuning of the foreign mode.
CompatSend == /\ Command
              /\ fw.mode # None
              /\ Send(radio)
              /\ UNCHANGED <<pc, fw, hunt, queue>>

\* cadtest probes, and goes back to the native profile whatever the mode.
CadTest == /\ Command
           /\ \E p \in Profiles \ {Native} :
                \E x \in Regardless(Probe(radio, p), LAMBDA r : retune(r, Native)) : radio' = x.r
           /\ fw' = [fw EXCEPT !.astray = @ \/ fw.mode # None]
           /\ UNCHANGED <<pc, hunt, queue>>

\* The mode comes back from flash, where only the app's choices are saved.
Reboot == /\ Command
          /\ \E m \in Saved : /\ fw' = NewFirmware(m)
                              /\ \E x \in Booted(m, radio.glitches) : radio' = x.r
          /\ pc' = "top" /\ hunt' = <<>> /\ queue' = FALSE

-----------------------------------------------------------------------------
(* Time, and the frames the chip hears (external).                         *)

UpTo(n, bound) == IF n < bound THEN n + 1 ELSE n

\* Time passes between two passes of the loop.
Tick == /\ pc = "top"
        /\ fw' = [fw EXCEPT
                    !.dwell = IF @ \in {None, 0} THEN @ ELSE @ - 1,
                    !.sinceDwell = UpTo(@, DwellInterval),
                    !.sinceScan = UpTo(@, ScanPeriod),
                    !.sinceHeard = UpTo(@, MtActive),
                    !.active = IF @ = None THEN None ELSE UpTo(@, FrameTime)]
        /\ UNCHANGED <<radio, pc, hunt, queue, asked>>

\* The flags that matter: the end of a frame hides the others.
Flag(r, f) == [r EXCEPT !.irq = IF f \in {"done", "error"} THEN {f}
                                ELSE IF @ \cap {"done", "error"} = {} THEN @ \cup {f} ELSE @]

On(r) == CHOOSE p \in Heard(r) : TRUE

\* The chip finds a preamble where it listens: a frame's, or none at all.
Preamble(real) == /\ Heard(radio) # {} /\ radio.mode = "rx" /\ radio.lock = None
                  /\ real \/ ("preamble" \notin radio.irq /\ ~radio.preamble_seen)
                  /\ radio' = [Flag(radio, "preamble") EXCEPT
                                 !.lock = IF real THEN "preamble" ELSE None]
                  /\ UNCHANGED <<pc, fw, hunt, queue, asked>>

\* The loop polls a hundred times in a preamble.
Header == /\ radio.lock = "preamble" /\ "preamble" \notin radio.irq
          /\ radio' = [Flag(radio, "header") EXCEPT !.lock = "body"]
          /\ UNCHANGED <<pc, fw, hunt, queue, asked>>

\* The end of a frame: in the buffer, or its checksum is wrong.
FrameEnds(f) == /\ radio.lock = "body"
                /\ radio' = [Flag(radio, f) EXCEPT !.lock = None,
                                                  !.buf = IF f = "done" THEN On(radio) ELSE @]
                /\ UNCHANGED <<pc, fw, hunt, queue, asked>>

-----------------------------------------------------------------------------
Loop == \/ Dwell \/ NoSweep \/ SweepQuiet \/ SweepHit
        \/ HuntRead \/ HuntTimeout \/ Receive \/ Poll \/ Transmit

User == \/ \E m \in Modes, nomt \in BOOLEAN : ConsoleCompat(m, nomt)
        \/ CycleCompat
        \/ \E m \in Modes : SetMode(m)
        \/ \E net \in Profiles \ {Native} : ForeignSend(net)
        \/ CompatSend \/ CadTest \/ Reboot

Air == (\E real \in BOOLEAN : Preamble(real)) \/ Header \/ (\E f \in {"done", "error"} : FrameEnds(f))

Next == Loop \/ User \/ Tick \/ Air

\* The loop runs, time passes, and the node sends (beacons at least).
Fairness == WF_vars(Loop) /\ SF_vars(Tick) /\ SF_vars(Transmit)

Spec == Init /\ [][Next]_vars /\ Fairness
-----------------------------------------------------------------------------
\* Nothing the bus did has gone wrong.
Sound == radio.glitches = Glitches

\* Frames of a network, and no others, come in and go out.
PassesOn(net) == Heard(radio) = {net} /\ ("done" \in radio.irq => radio.buf = net)

\* What the radio hands on as a frame of a network was received on that
\* network's profile, and what is sent for a network goes out on its
\* profile: the window on Meshtastic, the sweep, the mode changes and the
\* foreign texts share one radio and leave it tuned to what the next
\* section takes it for.  Excused: a window that was open when Meshtastic
\* counted as silent, native frames sent in a foreign mode, cadtest.
OnTheRightNetwork ==
    Sound /\ ~fw.astray =>
        /\ pc = "top" /\ Dwelling /\ fw.dwell # None => PassesOn(Foreign[1])
        /\ pc = "hunt" => PassesOn(Head(hunt))
        /\ pc \in {"receive", "transmit"} => PassesOn(Wanted(fw))

\* However a bus command fails, the chip listens again and again: no
\* failure leaves it in standby while the driver takes it for receiving.
HearsAgain == []<>(radio.mode = "rx")

\* A scanning node hears its own network again and again, even after a
\* failed tuning or with false preambles, foreign traffic and windows.
ScanHeals == <>[](fw.scan /\ fw.mode = None) => []<>ListensTo(radio, Native)
=============================================================================

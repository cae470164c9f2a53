------------------------------- MODULE Sx126x -------------------------------
(***************************************************************************)
(* The SX126x driver (meshstar-radio-sx126x): what each operation does to  *)
(* the chip and to the driver's own idea of it, command by command, when   *)
(* any command on the bus may fail.                                        *)
(*                                                                         *)
(* A radio is a record.  The chip: its mode, the frequency, modulation and *)
(* sync word in its registers, its interrupt flags, how far it is in a     *)
(* frame and the network of the frame in its buffer.  The driver: its      *)
(* profile, the frequency it last set, and what it believes of the         *)
(* reception.  The bound on failures of the bus is in the record too.      *)
(*                                                                         *)
(* An operation is the trail of states its commands and assignments leave. *)
(* It ends in the last one, or a command fails and it stops at any state   *)
(* before: a failed command may still have taken effect.                   *)
(***************************************************************************)
EXTENDS Naturals, Sequences

CONSTANTS Profiles,       \* the LoRa profiles
          Freq(_),        \* the frequency of a profile: profiles share them
          None

Reg(f, m, s) == [freq |-> f, modem |-> m, sync |-> s]

\* Sx126x::new, after init has reset the chip.
NewRadio(native, glitches) ==
    [mode |-> "standby", reg |-> Reg(None, None, None), irq |-> {}, lock |-> None, buf |-> None,
     profile |-> native, rf |-> None, receiving |-> FALSE, rx_active |-> FALSE,
     preamble_seen |-> FALSE, glitches |-> glitches]

\* The profile whose frames the registers let through.
Heard(r) == {p \in Profiles : r.reg = Reg(Freq(p), p, p)}
ListensTo(r, p) == r.mode = "rx" /\ p \in Heard(r)

\* cmd, cmd_read, write_buffer, read_buffer: any of them may fail.
Result(ok, got, r) == [ok |-> ok, got |-> got, r |-> r]
Failed(r) == Result(FALSE, None, [r EXCEPT !.glitches = @ - 1])
Trail(t) ==
    {Result(TRUE, None, t[Len(t)])}
        \cup {Failed(t[i]) : i \in {j \in 1..(Len(t) - 1) : t[j].glitches > 0}}

\* Result::and_then, and `let _ =`.
AndThen(results, Op(_)) ==
    {x \in results : ~x.ok} \cup UNION {Op(x.r) : x \in {y \in results : y.ok}}
Regardless(results, Op(_)) == UNION {Op(x.r) : x \in results}

Standby(r) == [r EXCEPT !.mode = "standby", !.lock = None]

\* clear_irq: the frame in the buffer is forgotten with its flag.
Clear(r) == [r EXCEPT !.irq = {}, !.buf = None]

\* The profile is the driver's before the first command, `receiving` falls
\* after the last one.
configure(r, p) ==
    LET r1 == [r EXCEPT !.profile = p]
        r2 == Standby(r1)
        r3 == [r2 EXCEPT !.reg.freq = Freq(p)]
        r4 == [r3 EXCEPT !.rf = Freq(p)]
        r5 == [r4 EXCEPT !.reg.modem = p]
        r6 == [r5 EXCEPT !.reg.sync = p]
    IN Trail(<<r1, r2, r3, r4, r5, r6, [r6 EXCEPT !.receiving = FALSE]>>)

start_receive_KeepsFlags(r) ==
    LET r1 == [r EXCEPT !.mode = "rx"]
    IN IF r.receiving THEN Trail(<<r>>)
       ELSE Trail(<<r, r1,
                    [r1 EXCEPT !.receiving = TRUE, !.rx_active = FALSE, !.preamble_seen = FALSE]>>)
start_receive(r) ==
    LET r1 == Clear(r)
        r2 == [r1 EXCEPT !.mode = "rx"]
    IN IF r.receiving THEN Trail(<<r>>)
       ELSE Trail(<<r, r1, r2,
                    [r2 EXCEPT !.receiving = TRUE, !.rx_active = FALSE, !.preamble_seen = FALSE]>>)

retune(r, p) == AndThen(configure(r, p), start_receive)

transmit_KeepsReceiving(r) == LET r1 == Standby(r) IN Trail(<<r, r1, Clear(r1)>>)
\* The chip falls back to standby after the frame.
transmit(r) ==
    LET r1 == Standby(r)
        r2 == [r1 EXCEPT !.receiving = FALSE]
    IN Trail(<<r, r1, r2, Clear(r2)>>)

\* A probe leaves the registers on the probed profile, in standby.
cad_probe_symbols(r, p) ==
    LET r1 == Standby(r)
        r2 == [r1 EXCEPT !.receiving = FALSE]
        r3 == IF Freq(p) = r2.rf THEN r2 ELSE [r2 EXCEPT !.reg.freq = Freq(p)]
        r4 == [r3 EXCEPT !.rf = Freq(p)]
        r5 == [r4 EXCEPT !.reg.modem = p]
        r6 == [r5 EXCEPT !.reg.sync = p]
    IN Trail(<<r, r1, r2, r3, r4, r5, r6, Clear(r6)>>)

\* The RSSI shows someone on the air, or a CAD interrupts the reception.
channel_busy(r) ==
    LET r1 == Standby(r)
        r2 == [r1 EXCEPT !.receiving = FALSE]
    IN Trail(<<r>>) \cup AndThen(Trail(<<r, r1, r2, Clear(r2)>>), start_receive)

ReadError(r) ==
    LET r1 == Clear(r)
    IN {Result(FALSE, None, x.r) : x \in Trail(<<r, r1, [r1 EXCEPT !.rx_active = FALSE]>>)}

ReadProgress(r) ==
    LET r1 == [r EXCEPT !.rx_active = @ \/ "header" \in r.irq,
                        !.preamble_seen = @ \/ "preamble" \in r.irq]
    IN Trail(<<r, r1, Clear(r1)>>)

ReadFrame(r) ==
    LET r1 == [r EXCEPT !.rx_active = FALSE]
    IN {IF x.ok THEN Result(TRUE, r.buf, x.r) ELSE x : x \in Trail(<<r, r1, Clear(r1)>>)}

\* DIO1 is low while no flag is up.
receive(r) ==
    LET Poll(q) == CASE q.irq = {} -> {Result(TRUE, None, q)}
                     [] "error" \in q.irq -> ReadError(q)
                     [] q.irq # {} /\ q.irq \cap {"error", "done"} = {} -> ReadProgress(q)
                     [] OTHER -> ReadFrame(q)
    IN AndThen(IF r.receiving THEN {Result(TRUE, None, r)} ELSE start_receive(r), Poll)
=============================================================================

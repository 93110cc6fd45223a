------------------------------- MODULE Es1370 -------------------------------
(***************************************************************************)
(* One playback channel of the sound card (hw/sound/es1370.rs): the guest  *)
(* programs it, the clock's thread copies the guest's buffer into a queue  *)
(* (ChannelTimer::tick) and the host's audio thread empties the queue      *)
(* (Frontend::fill_buffer).  They share atomics and no lock but the        *)
(* queue's, so a tick is a sequence of steps here.                         *)
(*                                                                         *)
(* The queue counts frames of the guest's buffer.  A frame lowers the      *)
(* sample counter by Step, modulo Modulus.  The driver acknowledges as     *)
(* drivers do: it clears the channel's interrupt enable bit and restores   *)
(* it.                                                                     *)
(***************************************************************************)
EXTENDS Integers, FiniteSets

CONSTANTS
    Modulus,      \* values of the sample counter (2^16)
    Step,         \* samples in a frame
    SizeRegs,     \* values of the buffer size register
    Counts,       \* values of the sample count register
    MaxRequired   \* bound: frames the queue is to hold

Es1370Assumption ==
    /\ {Modulus, Step} \subseteq Nat \ {0}
    /\ SizeRegs \subseteq Nat /\ Counts \subseteq 0 .. Modulus - 1
    /\ MaxRequired \in Nat

VARIABLES
    ch,      \* PlaybackChannel and Es1370Frontend
    tick,    \* ChannelTimer::tick and its local variables
    driver   \* the guest's driver

es1370Vars == <<ch, tick, driver>>

NoTick == [pc |-> "none"]

-----------------------------------------------------------------------------
(* The guest's registers (Es1370Core::write).                              *)

\* update_backends: a device that cannot be opened is tried again with the next write.
\* A timer that was dropped stays registered until its next tick.
UpdateBackends(c, opened) ==
    IF c.enabled
      THEN [c EXCEPT !.device = @ \/ opened,
                     !.required = IF opened /\ ~c.device THEN 1 ELSE @,
                     !.timer = TRUE]
      ELSE [c EXCEPT !.device = FALSE, !.timer = FALSE, !.stale = @ \/ c.timer]

\* PlaybackChannel::set_control, in both control registers' writes.
SetControl(c) == [c EXCEPT !.control = [enabled |-> c.enabled, irq |-> c.irq]]

\* REG_CONTROL
WriteControl(enabled, opened) ==
    /\ driver.pc = "run"
    /\ ch' = UpdateBackends(SetControl([ch EXCEPT !.enabled = enabled]), opened)
    /\ UNCHANGED <<tick, driver>>

\* Fault: the interrupt survives.
SerialControlKeeps(irq, opened) == UpdateBackends(SetControl([ch EXCEPT !.irq = irq]), opened)

\* REG_SERIAL_CONTROL: a falling interrupt enable bit clears the interrupt.
SerialControl(irq, opened) ==
    UpdateBackends([SetControl([ch EXCEPT !.irq = irq])
                      EXCEPT !.pending = @ /\ ~(ch.irq /\ ~irq)], opened)

\* The driver disables the interrupt only with the channel stopped.  The flag "raced" says
\* that a tick that may still see the interrupt enabled was under way.
WriteSerialControl(irq, opened) ==
    /\ driver.pc = "run"
    /\ ~irq => ~ch.enabled
    /\ ch' = SerialControl(irq, opened)
    /\ driver' = [driver EXCEPT !.raced = @ \/ (ch.irq /\ ~irq /\ tick.pc # "none")]
    /\ UNCHANGED tick

\* The buffer's address, size and position, and the sample count.
WriteBuffer(size, count) ==
    /\ driver.pc = "run" /\ ~ch.enabled /\ tick.pc = "none"
    /\ ch' = [ch EXCEPT !.size = size, !.pos = 0, !.count = count]
    /\ UNCHANGED <<tick, driver>>

-----------------------------------------------------------------------------
(* The clock's thread.                                                     *)

\* tick, for a timer that was dropped: it returns false.
TickStale ==
    /\ tick.pc = "none" /\ ch.stale
    /\ ch' = [ch EXCEPT !.stale = FALSE]
    /\ UNCHANGED <<tick, driver>>

\* fill_samples_buffer, with bus mastering enabled: the control register is loaded once.
TickStart ==
    /\ tick.pc = "none" /\ ch.timer
    /\ tick' = IF ch.control.enabled THEN [pc |-> "loop", irq |-> ch.control.irq, size |-> ch.size] ELSE tick
    /\ UNCHANGED <<ch, driver>>

\* One turn of the loop up to the test of interrupt_pending.
TickCount ==
    /\ tick.pc = "loop" /\ ch.queue < ch.required
    /\ LET before == ch.remaining
           ended  == before < Step \/ before + Step >= Modulus
       IN /\ ch' = [ch EXCEPT !.remaining = IF ended THEN ch.count ELSE (before - Step) % Modulus]
          /\ tick' = [tick EXCEPT !.pc = IF ended /\ tick.irq /\ ~ch.pending THEN "raise" ELSE "read"]
    /\ UNCHANGED driver

\* interrupt_pending first, then the line.
TickRaise ==
    /\ tick.pc = "raise"
    /\ ch' = [ch EXCEPT !.pending = TRUE]
    /\ tick' = [tick EXCEPT !.pc = "pulse"]
    /\ UNCHANGED driver

TickPulse ==
    /\ tick.pc = "pulse"
    /\ ch' = [ch EXCEPT !.pulse = TRUE]
    /\ tick' = NoTick
    /\ UNCHANGED driver

\* The frame at the buffer's position; past the end frame 0 is read, and read once more
\* by the next turn, so that the last frame of the buffer is never played.
TickRead ==
    /\ tick.pc = "read"
    /\ LET wraps == ch.pos >= tick.size
       IN  ch' = [ch EXCEPT !.pos = IF wraps THEN 0 ELSE @ + 1, !.queue = @ + 1]
    /\ tick' = [tick EXCEPT !.pc = "loop"]
    /\ UNCHANGED driver

TickEnd ==
    /\ tick.pc = "loop" /\ ch.queue >= ch.required
    /\ tick' = NoTick
    /\ UNCHANGED <<ch, driver>>

-----------------------------------------------------------------------------
(* The host's audio thread.  A tick holds the queue's lock.  Frames that are *)
(* missing enlarge the queue.                                                *)

FillBuffer(n) ==
    /\ ch.device /\ ch.control.enabled /\ tick.pc = "none"
    /\ LET missing == IF n > ch.queue THEN n - ch.queue ELSE 0
       IN /\ ch.required + missing <= MaxRequired
          /\ ch' = [ch EXCEPT !.queue = IF missing > 0 THEN 0 ELSE @ - n,
                              !.required = @ + missing]
    /\ UNCHANGED <<tick, driver>>

-----------------------------------------------------------------------------
(* The guest's handler.                                                    *)

\* REG_STATUS
Interrupt ==
    /\ driver.pc = "run" /\ ch.pulse
    /\ ch' = [ch EXCEPT !.pulse = FALSE]
    /\ driver' = [driver EXCEPT !.pc = IF ch.pending THEN "clear" ELSE "run"]
    /\ UNCHANGED tick

Clear ==
    /\ driver.pc = "clear"
    /\ ch' = SerialControl(FALSE, ch.device)
    /\ driver' = [driver EXCEPT !.pc = "restore", !.irq = ch.irq]
    /\ UNCHANGED tick

Restore ==
    /\ driver.pc = "restore"
    /\ ch' = SerialControl(driver.irq, ch.device)
    /\ driver' = [driver EXCEPT !.pc = "run", !.raced = @ /\ (ch.pending \/ tick.pc # "none")]
    /\ UNCHANGED tick

Init ==
    /\ ch = [enabled |-> FALSE, irq |-> FALSE, control |-> [enabled |-> FALSE, irq |-> FALSE],
             device |-> FALSE, timer |-> FALSE, stale |-> FALSE, required |-> 1, queue |-> 0,
             size |-> 0, pos |-> 0, count |-> 0, remaining |-> 0, pending |-> FALSE, pulse |-> FALSE]
    /\ tick = NoTick
    /\ driver = [pc |-> "run", irq |-> FALSE, raced |-> FALSE]

Next ==
    \/ \E on, opened \in BOOLEAN : WriteControl(on, opened) \/ WriteSerialControl(on, opened)
    \/ \E size \in SizeRegs, count \in Counts : WriteBuffer(size, count)
    \/ TickStale
    \/ TickStart
    \/ TickCount
    \/ TickRaise
    \/ TickPulse
    \/ TickRead
    \/ TickEnd
    \/ \E n \in 1 .. MaxRequired : FillBuffer(n)
    \/ Interrupt
    \/ Clear
    \/ Restore

Spec == Init /\ [][Next]_es1370Vars

-----------------------------------------------------------------------------
\* A reported period reaches the guest: an interrupt that the status shows has its pulse
\* on the way or the handler at work; otherwise the channel would never interrupt again,
\* since a period raises no second interrupt.  The exception is a tick that read the
\* enable bit before the driver cleared it (fill_samples_buffer and the write of the
\* serial control register in sound/es1370.rs).
InterruptReported ==
    ch.pending => ch.pulse \/ tick.pc = "pulse" \/ driver.pc # "run" \/ driver.raced
=============================================================================

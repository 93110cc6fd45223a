---------------------------- MODULE DeviceProofs -----------------------------
(***************************************************************************)
(* Proofs about the smaller devices, for every value of their constants:   *)
(* for each an inductive invariant of its own specification, of which      *)
(* every behaviour of Devices is a behaviour.                              *)
(***************************************************************************)
EXTENDS Devices, Integers, Sequences, SequenceTheorems, NaturalSets, TLAPS

-----------------------------------------------------------------------------
(* Each device of Devices runs as it does alone.                           *)

\* What Devices does to the sound channel is a behaviour of the sound channel.
LEMMA SoundRuns == DevicesSpec => Snd!Spec
<1>1. DevicesInit => Snd!Init  BY DEF DevicesInit, PowerOnDevices
<1>2. [DevicesNext]_devicesVars => [Snd!Next]_(Snd!es1370Vars)
  BY DEF DevicesNext, devicesVars, sndVars, Snd!es1370Vars
<1> QED  BY <1>1, <1>2, PTL DEF DevicesSpec, Snd!Spec

\* What Devices does to the disk is a behaviour of the disk.
LEMMA DiskRuns == DevicesSpec => Cow!Spec
<1>1. DevicesInit => Cow!Init  BY DEF DevicesInit, PowerOnDevices
<1>2. [DevicesNext]_devicesVars => [Cow!Next]_(Cow!cowVars)
  BY DEF DevicesNext, devicesVars, cowVars, Cow!cowVars
<1> QED  BY <1>1, <1>2, PTL DEF DevicesSpec, Cow!Spec

\* What Devices does to the keyboard controller is a behaviour of the keyboard controller.
LEMMA KeyboardRuns == DevicesSpec => Kbd!Spec
<1>1. DevicesInit => Kbd!Init  BY DEF DevicesInit, PowerOnDevices
<1>2. [DevicesNext]_devicesVars => [Kbd!Next]_(Kbd!ppiVars)
  BY DEF DevicesNext, devicesVars, kbdVars, Kbd!ppiVars
<1> QED  BY <1>1, <1>2, PTL DEF DevicesSpec, Kbd!Spec

\* What Devices does to the counter is a behaviour of the counter.
LEMMA CounterRuns == DevicesSpec => Pit!Spec
<1>1. DevicesInit => Pit!Init  BY DEF DevicesInit, PowerOnDevices
<1>2. [DevicesNext]_devicesVars => [Pit!Next]_(Pit!vars)
  BY DEF DevicesNext, devicesVars, pitVars, Pit!vars
<1> QED  BY <1>1, <1>2, PTL DEF DevicesSpec, Pit!Spec

\* What Devices does to the NAT is a behaviour of the NAT.
LEMMA NatRuns == DevicesSpec => Un!Spec
<1>1. DevicesInit => Un!Init  BY DEF DevicesInit, PowerOnDevices
<1>2. [DevicesNext]_devicesVars => [Un!Next]_(Un!natVars)
  BY DEF DevicesNext, devicesVars, unVars, Un!natVars
<1> QED  BY <1>1, <1>2, PTL DEF DevicesSpec, Un!Spec

-----------------------------------------------------------------------------
(* A playback channel of the sound card.                                   *)

Switch   == [enabled : BOOLEAN, irq : BOOLEAN]
Channels ==
    [enabled : BOOLEAN, irq : BOOLEAN, control : Switch, device : BOOLEAN, timer : BOOLEAN, stale : BOOLEAN,
     required : Nat, queue : Nat, size : Nat, pos : Nat, count : Nat, remaining : Nat,
     pending : BOOLEAN, pulse : BOOLEAN]
Ticks   == {Snd!NoTick} \cup [pc : {"loop", "raise", "pulse", "read"}, irq : BOOLEAN, size : Nat]
Drivers == [pc : {"run", "clear", "restore"}, irq : BOOLEAN, raced : BOOLEAN]

SndTypes == sound \in Channels /\ tick \in Ticks /\ driver \in Drivers

\* The enable bit the driver means the channel to have: its handler only borrows it.
IrqMeant == IF driver.pc = "restore" THEN driver.irq ELSE sound.irq

\* A tick that saw the interrupt enabled, and an interrupt that the status shows, are the
\* driver's wish or the flag "raced" says so; a shown interrupt has its pulse.
SndInv ==
    /\ SndTypes
    /\ sound.control.irq = sound.irq
    /\ driver.pc = "restore" => ~sound.irq
    /\ tick.pc \in {"raise", "pulse"} => tick.irq
    /\ tick.pc # "none" /\ tick.irq /\ ~IrqMeant => driver.raced
    /\ sound.pending /\ ~IrqMeant => driver.raced
    /\ sound.pending /\ driver.pc # "clear" => sound.pulse \/ tick.pc = "pulse" \/ driver.raced

\* What a write of a control register leaves of the channel.
LEMMA BackendsUpdated ==
    ASSUME NEW c \in Channels, NEW o \in BOOLEAN
    PROVE  LET u == Snd!UpdateBackends(c, o)
           IN  u \in Channels /\ u.irq = c.irq /\ u.control = c.control /\ u.pending = c.pending /\ u.pulse = c.pulse
BY DEF Snd!UpdateBackends, Channels

\* A write of the control register copies the channel's interrupt enable and takes nothing back.
LEMMA ControlSet ==
    ASSUME NEW c \in Channels
    PROVE  LET u == Snd!SetControl(c)
           IN  u \in Channels /\ u.irq = c.irq /\ u.control.irq = c.irq /\ u.pending = c.pending /\ u.pulse = c.pulse
BY DEF Snd!SetControl, Channels, Switch

\* A write of the serial control register: switching the interrupt off withdraws a pending one.
LEMMA SerialControlSet ==
    ASSUME SndTypes, NEW i \in BOOLEAN, NEW o \in BOOLEAN
    PROVE  LET u == Snd!SerialControl(i, o)
           IN  u \in Channels /\ u.irq = i /\ u.control.irq = i
               /\ u.pending = (sound.pending /\ ~(sound.irq /\ ~i)) /\ u.pulse = sound.pulse
<1> DEFINE a == [sound EXCEPT !.irq = i]
           b == Snd!SetControl(a)
           c == [b EXCEPT !.pending = @ /\ ~(sound.irq /\ ~i)]
<1>1. a \in Channels /\ a.irq = i /\ a.pending = sound.pending /\ a.pulse = sound.pulse  BY DEF SndTypes, Channels
<1> HIDE DEF a
<1>2. b \in Channels /\ b.irq = i /\ b.control.irq = i /\ b.pending = sound.pending /\ b.pulse = sound.pulse
  BY <1>1, ControlSet
<1> HIDE DEF b
<1>3. c \in Channels /\ c.irq = i /\ c.control.irq = i /\ c.pulse = sound.pulse
      /\ c.pending = (sound.pending /\ ~(sound.irq /\ ~i))
  BY <1>2 DEF SndTypes, Channels
<1> HIDE DEF c
<1>4. Snd!SerialControl(i, o) = Snd!UpdateBackends(c, o)  BY DEF Snd!SerialControl, a, b, c
<1> QED  BY <1>3, <1>4, BackendsUpdated

\* At power-on.
LEMMA SndStarts == Snd!Init => SndInv
<1> SUFFICES ASSUME Snd!Init PROVE SndInv  OBVIOUS
<1>1. sound \in Channels /\ sound.irq = FALSE /\ sound.control.irq = FALSE /\ ~sound.pending  BY DEF Snd!Init, Channels, Switch
<1>2. tick = Snd!NoTick /\ tick.pc = "none"  BY DEF Snd!Init, Snd!NoTick
<1>3. driver \in Drivers /\ driver.pc = "run"  BY DEF Snd!Init, Drivers
<1> QED  BY <1>1, <1>2, <1>3 DEF SndInv, SndTypes, Ticks, IrqMeant

\* Every step.
LEMMA SndStep ==
    ASSUME Snd!Es1370Assumption, SndInv, [Snd!Next]_(Snd!es1370Vars)
    PROVE  SndInv'
<1>1. /\ Modulus \in Nat \ {0} /\ Step \in Nat \ {0} /\ SizeRegs \subseteq Nat /\ SampleCounts \subseteq Nat
      /\ MaxRequired \in Nat
  BY DEF Snd!Es1370Assumption
<1>2. SndTypes  BY DEF SndInv
<1>3. ASSUME NEW on \in BOOLEAN, NEW opened \in BOOLEAN, Snd!WriteControl(on, opened)  PROVE SndInv'
  <2> DEFINE a == [sound EXCEPT !.enabled = on]
             b == Snd!SetControl(a)
  <2>1. a \in Channels /\ a.irq = sound.irq /\ a.pending = sound.pending /\ a.pulse = sound.pulse
    BY <1>2 DEF SndTypes, Channels
  <2> HIDE DEF a
  <2>2. b \in Channels /\ b.irq = sound.irq /\ b.control.irq = sound.irq /\ b.pending = sound.pending /\ b.pulse = sound.pulse
    BY <2>1, ControlSet
  <2> HIDE DEF b
  <2>3. sound' = Snd!UpdateBackends(b, opened) /\ tick' = tick /\ driver' = driver
    BY <1>3 DEF Snd!WriteControl, a, b
  <2>4. /\ sound' \in Channels /\ sound'.irq = sound.irq /\ sound'.control.irq = sound.irq
        /\ sound'.pending = sound.pending /\ sound'.pulse = sound.pulse
    BY <2>2, <2>3, BackendsUpdated
  <2> QED  BY <2>3, <2>4 DEF SndInv, SndTypes, IrqMeant
<1>4. ASSUME NEW i \in BOOLEAN, NEW opened \in BOOLEAN, Snd!WriteSerialControl(i, opened)  PROVE SndInv'
  <2>1. /\ sound' = Snd!SerialControl(i, opened) /\ tick' = tick /\ driver.pc = "run"
        /\ driver' = [driver EXCEPT !.raced = @ \/ (sound.irq /\ ~i /\ tick.pc # "none")]
    BY <1>4 DEF Snd!WriteSerialControl
  <2>2. /\ sound' \in Channels /\ sound'.irq = i /\ sound'.control.irq = i
        /\ sound'.pending = (sound.pending /\ ~(sound.irq /\ ~i)) /\ sound'.pulse = sound.pulse
    BY <1>2, <2>1, SerialControlSet
  <2>3. /\ driver' \in Drivers /\ driver'.pc = "run"
        /\ driver'.raced = (driver.raced \/ (sound.irq /\ ~i /\ tick.pc # "none"))
    BY <1>2, <2>1 DEF SndTypes, Drivers
  <2> QED  BY <2>1, <2>2, <2>3 DEF SndInv, SndTypes, IrqMeant
<1>5. ASSUME NEW size \in SizeRegs, NEW count \in SampleCounts, Snd!WriteBuffer(size, count)  PROVE SndInv'
  BY <1>1, <1>5 DEF Snd!WriteBuffer, SndInv, SndTypes, Channels, IrqMeant
<1>6. CASE Snd!TickStale
  BY <1>6 DEF Snd!TickStale, SndInv, SndTypes, Channels, IrqMeant
<1>7. CASE Snd!TickStart
  BY <1>7 DEF Snd!TickStart, SndInv, SndTypes, Channels, Switch, Ticks, IrqMeant
<1>8. CASE Snd!TickCount
  <2> DEFINE before == sound.remaining
             ended  == before < Step \/ before + Step >= Modulus
             next   == IF ended THEN sound.count ELSE (before - Step) % Modulus
             irq    == tick.irq
  <2>1. /\ tick.pc = "loop" /\ sound' = [sound EXCEPT !.remaining = next] /\ driver' = driver
        /\ tick' = [tick EXCEPT !.pc = IF ended /\ tick.irq /\ ~sound.pending THEN "raise" ELSE "read"]
    BY <1>8 DEF Snd!TickCount
  <2>2. next \in Nat  BY <1>1, <1>2 DEF SndTypes, Channels
  <2> HIDE DEF next, ended
  <2>3. /\ sound' \in Channels /\ sound'.irq = sound.irq /\ sound'.control = sound.control
        /\ sound'.pending = sound.pending /\ sound'.pulse = sound.pulse
    BY <1>2, <2>1, <2>2 DEF SndTypes, Channels
  <2>4. tick' \in Ticks /\ tick'.irq = tick.irq /\ tick'.pc \in {"raise", "read"} /\ (tick'.pc = "raise" => tick.irq)
    BY <1>2, <2>1 DEF SndTypes, Ticks, Snd!NoTick
  <2> QED  BY <2>1, <2>3, <2>4 DEF SndInv, SndTypes, IrqMeant
<1>9. CASE Snd!TickRaise
  <2>1. sound' = [sound EXCEPT !.pending = TRUE] /\ tick.pc = "raise" /\ tick' = [tick EXCEPT !.pc = "pulse"] /\ driver' = driver
    BY <1>9 DEF Snd!TickRaise
  <2>2. /\ sound' \in Channels /\ sound'.irq = sound.irq /\ sound'.control = sound.control /\ sound'.pending /\ sound'.pulse = sound.pulse
    BY <1>2, <2>1 DEF SndTypes, Channels
  <2>3. tick' \in Ticks /\ tick'.pc = "pulse" /\ tick'.irq = tick.irq
    BY <1>2, <2>1 DEF SndTypes, Ticks, Snd!NoTick
  <2> QED  BY <2>1, <2>2, <2>3 DEF SndInv, SndTypes, IrqMeant
<1>10. CASE Snd!TickPulse
  BY <1>10 DEF Snd!TickPulse, SndInv, SndTypes, Channels, Ticks, Snd!NoTick, IrqMeant
<1>11. CASE Snd!TickRead
  <2> DEFINE pos == IF sound.pos >= tick.size THEN 0 ELSE sound.pos + 1
  <2>1. /\ sound' = [sound EXCEPT !.pos = pos, !.queue = sound.queue + 1] /\ driver' = driver
        /\ tick.pc = "read" /\ tick' = [tick EXCEPT !.pc = "loop"]
    BY <1>11 DEF Snd!TickRead
  <2>2. pos \in Nat /\ sound.queue + 1 \in Nat  BY <1>2 DEF SndTypes, Channels
  <2> HIDE DEF pos
  <2>3. /\ sound' \in Channels /\ sound'.irq = sound.irq /\ sound'.control = sound.control
        /\ sound'.pending = sound.pending /\ sound'.pulse = sound.pulse
    BY <1>2, <2>1, <2>2 DEF SndTypes, Channels
  <2>4. tick' \in Ticks /\ tick'.pc = "loop" /\ tick'.irq = tick.irq
    BY <1>2, <2>1 DEF SndTypes, Ticks, Snd!NoTick
  <2> QED  BY <2>1, <2>3, <2>4 DEF SndInv, SndTypes, IrqMeant
<1>12. CASE Snd!TickEnd
  BY <1>12 DEF Snd!TickEnd, SndInv, SndTypes, Ticks, Snd!NoTick, IrqMeant
<1>13. ASSUME NEW n \in 1 .. MaxRequired, Snd!FillBuffer(n)  PROVE SndInv'
  <2> DEFINE missing == IF n > sound.queue THEN n - sound.queue ELSE 0
             queue == IF missing > 0 THEN 0 ELSE sound.queue - n
             required == sound.required + missing
  <2>1. sound' = [sound EXCEPT !.queue = queue, !.required = required] /\ tick' = tick /\ driver' = driver
    BY <1>13 DEF Snd!FillBuffer
  <2>2. queue \in Nat /\ required \in Nat  BY <1>1, <1>2 DEF SndTypes, Channels
  <2> HIDE DEF queue, required
  <2>3. /\ sound' \in Channels /\ sound'.irq = sound.irq /\ sound'.control = sound.control
        /\ sound'.pending = sound.pending /\ sound'.pulse = sound.pulse
    BY <1>2, <2>1, <2>2 DEF SndTypes, Channels
  <2> QED  BY <2>1, <2>3 DEF SndInv, SndTypes, IrqMeant
<1>14. CASE Snd!Interrupt
  BY <1>14 DEF Snd!Interrupt, SndInv, SndTypes, Channels, Drivers, IrqMeant
<1>15. CASE Snd!Clear
  <2>1. /\ sound' = Snd!SerialControl(FALSE, sound.device) /\ tick' = tick /\ driver.pc = "clear"
        /\ driver' = [driver EXCEPT !.pc = "restore", !.irq = sound.irq]
    BY <1>15 DEF Snd!Clear
  <2>2. /\ sound' \in Channels /\ sound'.irq = FALSE /\ sound'.control.irq = FALSE
        /\ sound'.pending = (sound.pending /\ ~sound.irq) /\ sound'.pulse = sound.pulse
    BY <1>2, <2>1, SerialControlSet DEF SndTypes, Channels
  <2>3. driver' \in Drivers /\ driver'.pc = "restore" /\ driver'.irq = sound.irq /\ driver'.raced = driver.raced
    BY <1>2, <2>1 DEF SndTypes, Drivers, Channels
  <2> QED  BY <2>1, <2>2, <2>3 DEF SndInv, SndTypes, IrqMeant
<1>16. CASE Snd!Restore
  <2>1. /\ sound' = Snd!SerialControl(driver.irq, sound.device) /\ tick' = tick /\ driver.pc = "restore"
        /\ driver' = [driver EXCEPT !.pc = "run", !.raced = @ /\ (sound.pending \/ tick.pc # "none")]
    BY <1>16 DEF Snd!Restore
  <2>2. /\ sound' \in Channels /\ sound'.irq = driver.irq /\ sound'.control.irq = driver.irq
        /\ sound'.pending = sound.pending /\ sound'.pulse = sound.pulse
    BY <1>2, <2>1, SerialControlSet DEF SndInv, SndTypes, Channels, Drivers
  <2>3. /\ driver' \in Drivers /\ driver'.pc = "run"
        /\ driver'.raced = (driver.raced /\ (sound.pending \/ tick.pc # "none"))
    BY <1>2, <2>1 DEF SndTypes, Drivers
  <2> QED  BY <2>1, <2>2, <2>3 DEF SndInv, SndTypes, IrqMeant
<1>17. CASE UNCHANGED Snd!es1370Vars
  BY <1>17 DEF Snd!es1370Vars, SndInv, SndTypes, IrqMeant
<1> QED
  BY <1>3, <1>4, <1>5, <1>6, <1>7, <1>8, <1>9, <1>10, <1>11, <1>12, <1>13, <1>14, <1>15, <1>16, <1>17
  DEF Snd!Next

\* A playback channel never loses its interrupts: one that the status shows has its pulse
\* on the way, the handler at work, or raced with the driver disabling it
\* (fill_samples_buffer and the serial control register in sound/es1370.rs).
THEOREM ReportedInterruptReachesDriver ==
    Snd!Es1370Assumption /\ DevicesSpec => []InterruptReported
<1> SUFFICES ASSUME Snd!Es1370Assumption PROVE DevicesSpec => []InterruptReported  OBVIOUS
<1>1. SndInv => InterruptReported
  BY DEF SndInv, SndTypes, Drivers, InterruptReported, Snd!InterruptReported
<1>2. SndInv /\ [Snd!Next]_(Snd!es1370Vars) => SndInv'  BY SndStep
<1> QED  BY <1>1, <1>2, SndStarts, SoundRuns, PTL DEF Snd!Spec

-----------------------------------------------------------------------------
(* A copy-on-write disk and its snapshots.                                 *)

Offsets  == 0 .. SectorSize - 1
Contents == Cells \cup {<<"file", p>> : p \in Cow!Positions}
Layer    == UNION {[S -> [Offsets -> Contents]] : S \in SUBSET (0 .. Sectors - 1)}
Reads(layers) == [p \in Cow!Positions |-> Cow!Cell(layers, p)]

\* What the guest expects is what the layers show, now and in the snapshot.
CowInv ==
    /\ cow \in Seq(Layer) /\ Len(cow) >= 1
    /\ saved \in Seq(Layer)
    /\ truth \in [now : [Cow!Positions -> Contents], saved : [Cow!Positions -> Contents],
                  writes : Nat, restores : Nat]
    /\ Reads(cow) = truth.now
    /\ saved # << >> => Reads(saved) = truth.saved

\* A position is a sector and an offset.
LEMMA SectorAndOffset ==
    ASSUME Cow!CowAssumption
    PROVE  /\ SectorSize \in Nat \ {0} /\ Sectors \in Nat \ {0}
           /\ \A p \in Cow!Positions :
                /\ Cow!SectorOf(p) \in 0 .. Sectors - 1 /\ p % SectorSize \in Offsets
                /\ Cow!SectorOf(p) * SectorSize + (p % SectorSize) = p
           /\ \A s \in 0 .. Sectors - 1, o \in Offsets : s * SectorSize + o \in Cow!Positions
           /\ Cow!File \in [Cow!Positions -> Contents]
<1>1. SectorSize \in Nat \ {0} /\ Sectors \in Nat \ {0}  BY DEF Cow!CowAssumption
<1>2. ASSUME NEW p \in Cow!Positions
      PROVE  /\ Cow!SectorOf(p) \in 0 .. Sectors - 1 /\ p % SectorSize \in Offsets
             /\ Cow!SectorOf(p) * SectorSize + (p % SectorSize) = p
  <2> DEFINE s == p \div SectorSize
             o == p % SectorSize
  <2>1. p \in Nat /\ p < SectorSize * Sectors  BY <1>1, <1>2 DEF Cow!Positions
  <2>2. s \in Int /\ o \in 0 .. SectorSize - 1 /\ p = SectorSize * s + o  BY <1>1, <2>1
  <2>3. s \in Nat  BY <1>1, <2>1
  <2> HIDE DEF s, o
  <2>4. SectorSize * s < SectorSize * Sectors  BY <1>1, <2>1, <2>2, <2>3
  <2>5. s < Sectors  BY <1>1, <2>3, <2>4
  <2>6. s * SectorSize + o = p  BY <1>1, <2>2, <2>3
  <2>7. s \in 0 .. Sectors - 1 /\ o \in Offsets  BY <1>1, <2>2, <2>3, <2>5 DEF Offsets
  <2>8. Cow!SectorOf(p) = s /\ p % SectorSize = o  BY DEF Cow!SectorOf, s, o
  <2> QED  BY <2>6, <2>7, <2>8
<1>3. ASSUME NEW s \in 0 .. Sectors - 1, NEW o \in Offsets
      PROVE  s * SectorSize + o \in Cow!Positions
  <2>1. s \in Nat /\ s <= Sectors - 1 /\ o \in Nat /\ o < SectorSize  BY <1>1, <1>3 DEF Offsets
  <2>2. s * SectorSize <= (Sectors - 1) * SectorSize  BY <1>1, <2>1
  <2>3. (Sectors - 1) * SectorSize = SectorSize * Sectors - SectorSize  BY <1>1
  <2>4. s * SectorSize \in Nat /\ SectorSize * Sectors \in Nat  BY <1>1, <2>1
  <2> QED  BY <1>1, <2>1, <2>2, <2>3, <2>4 DEF Cow!Positions
<1>4. Cow!File \in [Cow!Positions -> Contents]  BY DEF Cow!File, Contents
<1> QED  BY <1>1, <1>2, <1>3, <1>4

\* A cell is that of the newest layer that holds its sector, or the file's.
LEMMA NewestLayer ==
    ASSUME NEW layers \in Seq(Layer), NEW p \in Cow!Positions
    PROVE  LET s == Cow!SectorOf(p)
           IN  \/ /\ \A i \in 1 .. Len(layers) : s \notin DOMAIN layers[i]
                  /\ Cow!Cell(layers, p) = Cow!File[p]
               \/ \E i \in 1 .. Len(layers) :
                    /\ s \in DOMAIN layers[i] /\ \A j \in 1 .. Len(layers) : j < i => s \notin DOMAIN layers[j]
                    /\ Cow!Cell(layers, p) = layers[i][s][p % SectorSize]
<1> DEFINE s == Cow!SectorOf(p)
           H == Cow!Holding(layers, p)
           m == Cow!Min(H)
<1>1. H = {i \in 1 .. Len(layers) : s \in DOMAIN layers[i]} /\ Len(layers) \in Nat
  BY DEF Cow!Holding
<1>2. CASE H = {}
  BY <1>1, <1>2 DEF Cow!Cell
<1>3. CASE H # {}
  <2>1. m = Min(H)  BY DEF Cow!Min, Min
  <2>2. H \subseteq Nat  BY <1>1
  <2> HIDE DEF H
  <2>3. m \in H /\ \A y \in H : m <= y  BY <1>3, <2>1, <2>2, LeastOfNaturals
  <2>4. Cow!Cell(layers, p) = layers[m][s][p % SectorSize]  BY <1>3 DEF Cow!Cell, H
  <2> HIDE DEF m, s
  <2>5. m \in 1 .. Len(layers) /\ s \in DOMAIN layers[m]  BY <1>1, <2>3
  <2>6. ASSUME NEW j \in 1 .. Len(layers), j < m, s \in DOMAIN layers[j]  PROVE FALSE
    BY <1>1, <2>3, <2>5, <2>6
  <2> QED  BY <2>4, <2>5, <2>6 DEF s
<1> QED  BY <1>2, <1>3

\* ... which one need not be found twice.
LEMMA CellOfLayer ==
    ASSUME NEW layers \in Seq(Layer), NEW p \in Cow!Positions, NEW i \in 1 .. Len(layers),
           Cow!SectorOf(p) \in DOMAIN layers[i],
           \A j \in 1 .. Len(layers) : j < i => Cow!SectorOf(p) \notin DOMAIN layers[j]
    PROVE  Cow!Cell(layers, p) = layers[i][Cow!SectorOf(p)][p % SectorSize]
<1> DEFINE s == Cow!SectorOf(p)
<1>1. PICK k \in 1 .. Len(layers) :
        /\ s \in DOMAIN layers[k] /\ \A j \in 1 .. Len(layers) : j < k => s \notin DOMAIN layers[j]
        /\ Cow!Cell(layers, p) = layers[k][s][p % SectorSize]
  BY NewestLayer
<1>2. Len(layers) \in Nat  OBVIOUS
<1> HIDE DEF s
<1>3. ~(i < k) /\ ~(k < i)  BY <1>1 DEF s
<1>4. i = k  BY <1>2, <1>3
<1> QED  BY <1>1, <1>4 DEF s

\* A cell that no layer covers is that of the file.
LEMMA CellOfFile ==
    ASSUME NEW layers \in Seq(Layer), NEW p \in Cow!Positions,
           \A j \in 1 .. Len(layers) : Cow!SectorOf(p) \notin DOMAIN layers[j]
    PROVE  Cow!Cell(layers, p) = Cow!File[p]
BY NewestLayer

\* Cells are contents.
LEMMA CellTypes ==
    ASSUME Cow!CowAssumption, NEW layers \in Seq(Layer), NEW p \in Cow!Positions
    PROVE  Cow!Cell(layers, p) \in Contents
<1> DEFINE s == Cow!SectorOf(p)
           o == p % SectorSize
<1>1. Cow!File[p] \in Contents /\ o \in Offsets  BY SectorAndOffset
<1>2. ASSUME NEW i \in 1 .. Len(layers), s \in DOMAIN layers[i]  PROVE layers[i][s][o] \in Contents
  <2>1. layers[i] \in Layer  OBVIOUS
  <2>2. PICK S \in SUBSET (0 .. Sectors - 1) : layers[i] \in [S -> [Offsets -> Contents]]  BY <2>1 DEF Layer
  <2> HIDE DEF s, o
  <2> QED  BY <1>1, <1>2, <2>2
<1> QED  BY <1>1, <1>2, NewestLayer

\* Sector and offset determine the position.
LEMMA SectorOfCell ==
    ASSUME Cow!CowAssumption, NEW s \in 0 .. Sectors - 1, NEW o \in Offsets
    PROVE  Cow!SectorOf(s * SectorSize + o) = s /\ (s * SectorSize + o) % SectorSize = o
<1> DEFINE p == s * SectorSize + o
           t == Cow!SectorOf(p)
           q == p % SectorSize
<1>1. SectorSize \in Nat \ {0} /\ s \in Nat  BY SectorAndOffset
<1>2. p \in Cow!Positions /\ t \in 0 .. Sectors - 1 /\ q \in Offsets /\ t * SectorSize + q = p
  BY SectorAndOffset
<1>3. o \in Nat /\ q \in Nat /\ o < SectorSize /\ q < SectorSize /\ t \in Nat  BY <1>1, <1>2 DEF Offsets
<1>4. t * SectorSize + q = s * SectorSize + o  BY <1>2
<1> HIDE DEF p, t, q
<1>5. (t - s) * SectorSize = o - q  BY <1>1, <1>3, <1>4
<1>6. ~(t > s)
  <2>1. \A k, m \in Nat : k >= 1 => k * m >= m  OBVIOUS
  <2>2. t > s => (t - s) * SectorSize >= SectorSize  BY <1>1, <1>3, <2>1
  <2> QED  BY <1>1, <1>3, <1>5, <2>2
<1>7. ~(t < s)
  <2>1. \A k, m \in Nat : k >= 1 => k * m >= m  OBVIOUS
  <2>2. t < s => (s - t) * SectorSize >= SectorSize  BY <1>1, <1>3, <2>1
  <2>3. (s - t) * SectorSize = q - o  BY <1>1, <1>3, <1>4
  <2> QED  BY <1>1, <1>3, <2>2, <2>3
<1>8. t = s  BY <1>1, <1>3, <1>6, <1>7
<1>9. q = o  BY <1>1, <1>3, <1>4, <1>8
<1> QED  BY <1>8, <1>9 DEF p, t, q

\* A disk that nothing was written to.
LEMMA EmptyLayer == [s \in {} |-> <<>>] \in Layer
<1>1. [s \in {} |-> <<>>] \in [{} -> [Offsets -> Contents]]  OBVIOUS
<1> QED  BY <1>1 DEF Layer

\* A new disk reads as the file.
LEMMA EmptyDiskIsFile ==
    Reads(<<[s \in {} |-> <<>>]>>) = Cow!File
<1> DEFINE l == [s \in {} |-> <<>>]
           d == <<l>>
<1>1. l \in Layer /\ DOMAIN l = {}  BY EmptyLayer
<1> HIDE DEF l
<1>2. d \in Seq(Layer) /\ Len(d) = 1 /\ d[1] = l  BY <1>1
<1> HIDE DEF d
<1>3. \A p \in Cow!Positions : \A j \in 1 .. Len(d) : Cow!SectorOf(p) \notin DOMAIN d[j]  BY <1>1, <1>2
<1>4. \A p \in Cow!Positions : Cow!Cell(d, p) = Cow!File[p]  BY <1>2, <1>3, CellOfFile
<1>5. Reads(d) = Cow!File  BY <1>4 DEF Reads, Cow!File
<1> QED  BY <1>5 DEF d, l

\* The invariant holds at first.
LEMMA CowStarts == Cow!CowAssumption /\ Cow!Init => CowInv
<1> SUFFICES ASSUME Cow!CowAssumption, Cow!Init PROVE CowInv  OBVIOUS
<1> DEFINE l == [s \in {} |-> <<>>]
<1>1. cow = <<l>> /\ saved = << >> /\ truth = [now |-> Cow!File, saved |-> Cow!File, writes |-> 0, restores |-> 0]
  BY DEF Cow!Init, Cow!Nothing
<1>2. l \in Layer  BY EmptyLayer
<1> HIDE DEF l
<1>3. cow \in Seq(Layer) /\ Len(cow) = 1 /\ cow[1] = l  BY <1>1, <1>2
<1>4. Reads(cow) = Cow!File  BY <1>1, EmptyDiskIsFile DEF l
<1> QED  BY <1>1, <1>3, <1>4, SectorAndOffset DEF CowInv

\* What remains to be shown of a step that changes the disk and not the snapshot.
LEMMA NowChanged ==
    ASSUME CowInv, cow' \in Seq(Layer), Len(cow') >= 1, saved' = saved, NEW now \in [Cow!Positions -> Contents],
           NEW writes \in Nat, NEW restores \in Nat, Reads(cow') = now,
           truth' = [now |-> now, saved |-> truth.saved, writes |-> writes, restores |-> restores]
    PROVE  CowInv'
<1> DEFINE F == [Cow!Positions -> Contents]
<1>1. truth \in [now : F, saved : F, writes : Nat, restores : Nat]
      /\ (saved # << >> => Reads(saved) = truth.saved) /\ saved \in Seq(Layer)
  BY DEF CowInv
<1>2. now \in F  OBVIOUS
<1> HIDE DEF F
<1>3. /\ truth' \in [now : F, saved : F, writes : Nat, restores : Nat]
      /\ truth'.now = now /\ truth'.saved = truth.saved
  BY <1>1, <1>2
<1>4. saved' # << >> => Reads(saved') = truth'.saved  BY <1>1, <1>3
<1> QED  BY <1>1, <1>3, <1>4 DEF CowInv, F

\* A write changes the cells it is for.
LEMMA CowWrites ==
    ASSUME Cow!CowAssumption, CowInv, NEW a \in Cow!Positions, NEW b \in Cow!Positions, NEW v \in Cells,
           Cow!Write(a, b, v)
    PROVE  CowInv'
<1> DEFINE touched == {Cow!SectorOf(p) : p \in a .. b}
           value(s, o) == IF s * SectorSize + o \in a .. b THEN v ELSE Cow!GetSectorMut(cow, s)[o]
           layer == [s \in touched \cup DOMAIN cow[1] |-> [o \in Offsets |-> value(s, o)]]
           now == [p \in Cow!Positions |-> IF p \in a .. b THEN v ELSE truth.now[p]]
<1>1. /\ cow' = [cow EXCEPT ![1] = layer] /\ saved' = saved
      /\ truth' = [truth EXCEPT !.now = now, !.writes = truth.writes + 1]
  BY DEF Cow!Write, Offsets
<1>2. cow \in Seq(Layer) /\ Len(cow) >= 1 /\ cow[1] \in Layer  BY DEF CowInv
<1>3. PICK S \in SUBSET (0 .. Sectors - 1) : cow[1] \in [S -> [Offsets -> Contents]]  BY <1>2 DEF Layer
<1>4. a .. b \subseteq Cow!Positions
  BY SectorAndOffset DEF Cow!Positions
<1>5. touched \subseteq 0 .. Sectors - 1 /\ DOMAIN cow[1] = S  BY <1>3, <1>4, SectorAndOffset
\* The copy of a sector is what the disk shows of it.
<1>6. ASSUME NEW s \in 0 .. Sectors - 1, NEW o \in Offsets
      PROVE  /\ s * SectorSize + o \in Cow!Positions
             /\ Cow!GetSectorMut(cow, s)[o] = Cow!Cell(cow, s * SectorSize + o)
  <2> DEFINE p == s * SectorSize + o
  <2>1. p \in Cow!Positions  BY SectorAndOffset
  <2>2. Cow!SectorOf(p) = s /\ p % SectorSize = o  BY SectorAndOffset, SectorOfCell
  <2> HIDE DEF p
  <2>3. CASE s \in DOMAIN cow[1]
    <3>1. Len(cow) \in Nat  BY <1>2
    <3>2. 1 \in 1 .. Len(cow) /\ \A j \in 1 .. Len(cow) : ~(j < 1)  BY <1>2, <3>1
    <3>3. Cow!Cell(cow, p) = cow[1][s][o]  BY <1>2, <2>1, <2>2, <2>3, <3>2, CellOfLayer
    <3>4. Cow!GetSectorMut(cow, s) = cow[1][s]  BY <2>3 DEF Cow!GetSectorMut
    <3> QED  BY <2>1, <3>3, <3>4 DEF p
  <2>4. CASE s \notin DOMAIN cow[1]
    <3>1. Cow!GetSectorMut(cow, s) = [x \in Offsets |-> Cow!Cell(cow, s * SectorSize + x)]
      BY <2>4 DEF Cow!GetSectorMut, Cow!ReadSector, Offsets
    <3> QED  BY <2>1, <3>1 DEF p
  <2> QED  BY <2>3, <2>4
<1>7. layer \in Layer
  <2>1. ASSUME NEW s \in 0 .. Sectors - 1, NEW o \in Offsets  PROVE value(s, o) \in Contents
    BY <1>2, <1>6, CellTypes DEF Contents
  <2> DEFINE T == touched \cup DOMAIN cow[1]
  <2>2. T \in SUBSET (0 .. Sectors - 1)  BY <1>5
  <2> HIDE DEF T, value
  <2>3. [s \in T |-> [o \in Offsets |-> value(s, o)]] \in [T -> [Offsets -> Contents]]  BY <2>1, <2>2
  <2> QED  BY <2>2, <2>3 DEF Layer, T
<1>8. DOMAIN layer = touched \cup DOMAIN cow[1]  OBVIOUS
<1>9. \A s \in DOMAIN layer, o \in Offsets : layer[s][o] = value(s, o)  OBVIOUS
<1> HIDE DEF layer
<1>10. /\ cow' \in Seq(Layer) /\ Len(cow') = Len(cow) /\ cow'[1] = layer
       /\ \A i \in 1 .. Len(cow) : i # 1 => cow'[i] = cow[i]
  BY <1>1, <1>2, <1>7
<1>11. ASSUME NEW p \in Cow!Positions  PROVE Cow!Cell(cow', p) = IF p \in a .. b THEN v ELSE Cow!Cell(cow, p)
  <2> DEFINE s == Cow!SectorOf(p)
             o == p % SectorSize
  <2>1. s \in 0 .. Sectors - 1 /\ o \in Offsets /\ s * SectorSize + o = p  BY SectorAndOffset
  <2>2. p \in a .. b => s \in touched  OBVIOUS
  <2> HIDE DEF touched
  <2>3. CASE s \in DOMAIN layer
    <3>1. Len(cow) \in Nat  BY <1>2
    <3>2. 1 \in 1 .. Len(cow') /\ \A j \in 1 .. Len(cow') : ~(j < 1)  BY <1>2, <1>10, <3>1
    <3>3. Cow!Cell(cow', p) = layer[s][o]  BY <1>10, <2>3, <3>2, CellOfLayer
    <3>4. layer[s][o] = value(s, o)  BY <1>9, <2>1, <2>3
    <3>5. Cow!GetSectorMut(cow, s)[o] = Cow!Cell(cow, p)  BY <1>6, <2>1
    <3> QED  BY <2>1, <3>3, <3>4, <3>5
  <2>4. CASE s \notin DOMAIN layer
    <3>1. p \notin a .. b /\ s \notin DOMAIN cow[1]  BY <1>8, <2>2, <2>4
    <3>2. \A i \in 1 .. Len(cow) : s \in DOMAIN cow'[i] <=> s \in DOMAIN cow[i]
      BY <1>10, <2>4, <3>1
    <3> HIDE DEF s, o
    <3>3. CASE \A i \in 1 .. Len(cow) : s \notin DOMAIN cow[i]
      <4>1. Cow!Cell(cow, p) = Cow!File[p]  BY <1>2, <3>3, CellOfFile DEF s
      <4>2. Cow!Cell(cow', p) = Cow!File[p]  BY <1>10, <3>2, <3>3, CellOfFile DEF s
      <4> QED  BY <3>1, <4>1, <4>2
    <3>4. ASSUME NEW i \in 1 .. Len(cow), s \in DOMAIN cow[i],
                 \A j \in 1 .. Len(cow) : j < i => s \notin DOMAIN cow[j]
          PROVE  Cow!Cell(cow', p) = Cow!Cell(cow, p)
      <4>1. Cow!Cell(cow, p) = cow[i][s][o]  BY <1>2, <3>4, CellOfLayer DEF s, o
      <4>2. i # 1 /\ cow'[i] = cow[i]  BY <1>10, <3>1, <3>4
      <4>3. Cow!Cell(cow', p) = cow'[i][s][o]  BY <1>10, <3>2, <3>4, CellOfLayer DEF s, o
      <4> QED  BY <4>1, <4>2, <4>3
    <3>5. \/ \A i \in 1 .. Len(cow) : s \notin DOMAIN cow[i]
          \/ \E i \in 1 .. Len(cow) :
               s \in DOMAIN cow[i] /\ \A j \in 1 .. Len(cow) : j < i => s \notin DOMAIN cow[j]
      BY <1>2, NewestLayer DEF s
    <3> QED  BY <3>1, <3>3, <3>4, <3>5
  <2> QED  BY <2>3, <2>4
<1>12. truth.now = Reads(cow)  BY DEF CowInv
<1>13. now = Reads(cow')  BY <1>11, <1>12 DEF Reads
<1>14. now \in [Cow!Positions -> Contents]
  BY <1>10, <1>13, CellTypes DEF Reads
<1>15. Len(cow') >= 1 /\ truth.writes + 1 \in Nat /\ truth.restores \in Nat  BY <1>2, <1>10 DEF CowInv
<1>16. truth' = [now |-> now, saved |-> truth.saved, writes |-> truth.writes + 1, restores |-> truth.restores]
  <2> HIDE DEF now
  <2> QED  BY <1>1 DEF CowInv
<1> HIDE DEF now
<1> QED  BY <1>1, <1>10, <1>13, <1>14, <1>15, <1>16, NowChanged

\* Every step keeps the invariant.
LEMMA CowStep ==
    ASSUME Cow!CowAssumption, CowInv, [Cow!Next]_(Cow!cowVars)
    PROVE  CowInv'
<1>1. ASSUME NEW a \in Cow!Positions, NEW b \in Cow!Positions, NEW v \in Cells, Cow!Write(a, b, v)
      PROVE  CowInv'
  BY <1>1, CowWrites
<1>2. CASE Cow!Snapshot
  <2>1. saved' = cow /\ truth' = [truth EXCEPT !.saved = truth.now] /\ cow' = cow  BY <1>2 DEF Cow!Snapshot
  <2> QED  BY <2>1 DEF CowInv, Reads
<1>3. CASE Cow!Restart
  <2> DEFINE l == [s \in {} |-> <<>>]
  <2>1. cow' = <<l>> /\ truth' = [truth EXCEPT !.now = Cow!File] /\ saved' = saved  BY <1>3 DEF Cow!Restart
  <2>2. l \in Layer  BY EmptyLayer
  <2>3. Reads(cow') = Cow!File  BY <2>1, EmptyDiskIsFile
  <2> HIDE DEF l
  <2>4. cow' \in Seq(Layer) /\ Len(cow') = 1  BY <2>1, <2>2
  <2>5. truth' = [now |-> Cow!File, saved |-> truth.saved, writes |-> truth.writes, restores |-> truth.restores]
        /\ truth.writes \in Nat /\ truth.restores \in Nat
    BY <2>1 DEF CowInv
  <2>6. Cow!File \in [Cow!Positions -> Contents] /\ Len(cow') >= 1  BY <2>4, SectorAndOffset
  <2> QED  BY <2>1, <2>3, <2>4, <2>5, <2>6, NowChanged
<1>4. CASE Cow!Restore
  <2>1. /\ saved # << >> /\ Len(cow) = 1 /\ DOMAIN cow[1] = {} /\ cow' = saved \o cow /\ saved' = saved
        /\ truth' = [truth EXCEPT !.now = truth.saved, !.restores = truth.restores + 1]
    BY <1>4 DEF Cow!Restore, Cow!Nothing
  <2>2. saved \in Seq(Layer) /\ cow \in Seq(Layer)  BY DEF CowInv
  <2>3. /\ cow' \in Seq(Layer) /\ Len(cow') = Len(saved) + 1
        /\ \A i \in 1 .. Len(saved) : cow'[i] = saved[i]
        /\ cow'[Len(saved) + 1] = cow[1]
    <3>1. Len(cow) = 1 /\ Len(saved) \in Nat  BY <2>1, <2>2
    <3>2. saved \o cow \in Seq(Layer) /\ Len(saved \o cow) = Len(saved) + 1
      <4>1. saved \o cow \in Seq(Layer)  BY <2>2
      <4>2. Len(saved \o cow) = Len(saved) + Len(cow)  BY <2>2
      <4> QED  BY <3>1, <4>1, <4>2
    <3>3. \A i \in 1 .. Len(saved) + 1 :
            (saved \o cow)[i] = IF i <= Len(saved) THEN saved[i] ELSE cow[i - Len(saved)]
      BY <2>2, <3>1, ConcatProperties
    <3>4. \A i \in 1 .. Len(saved) : (saved \o cow)[i] = saved[i]  BY <3>1, <3>3
    <3>5. (saved \o cow)[Len(saved) + 1] = cow[1]  BY <3>1, <3>3
    <3> QED  BY <2>1, <3>2, <3>4, <3>5
  <2>4. Len(saved) \in Nat  BY <2>2
  <2>5. ASSUME NEW p \in Cow!Positions  PROVE Cow!Cell(cow', p) = Cow!Cell(saved, p)
    <3> DEFINE s == Cow!SectorOf(p)
               o == p % SectorSize
    <3> HIDE DEF s, o
    <3>1. CASE \A i \in 1 .. Len(saved) : s \notin DOMAIN saved[i]
      <4>1. Cow!Cell(saved, p) = Cow!File[p]  BY <2>2, <3>1, CellOfFile DEF s
      <4>2. ASSUME NEW i \in 1 .. Len(cow')  PROVE s \notin DOMAIN cow'[i]
        <5>1. i \in 1 .. Len(saved) \/ i = Len(saved) + 1  BY <2>3, <2>4
        <5> QED  BY <2>1, <2>3, <3>1, <5>1
      <4>3. Cow!Cell(cow', p) = Cow!File[p]  BY <2>3, <4>2, CellOfFile DEF s
      <4> QED  BY <4>1, <4>3
    <3>2. ASSUME NEW i \in 1 .. Len(saved), s \in DOMAIN saved[i],
                 \A j \in 1 .. Len(saved) : j < i => s \notin DOMAIN saved[j]
          PROVE  Cow!Cell(cow', p) = Cow!Cell(saved, p)
      <4>1. Cow!Cell(saved, p) = saved[i][s][o]  BY <2>2, <3>2, CellOfLayer DEF s, o
      <4>2. i \in 1 .. Len(cow') /\ cow'[i] = saved[i]  BY <2>3, <2>4
      <4>3. ASSUME NEW j \in 1 .. Len(cow'), j < i  PROVE s \notin DOMAIN cow'[j]
        <5>1. j \in 1 .. Len(saved)  BY <2>3, <2>4, <4>3
        <5> QED  BY <2>3, <3>2, <4>3, <5>1
      <4>4. Cow!Cell(cow', p) = cow'[i][s][o]  BY <2>3, <3>2, <4>2, <4>3, CellOfLayer DEF s, o
      <4> QED  BY <4>1, <4>2, <4>4
    <3>3. \/ \A i \in 1 .. Len(saved) : s \notin DOMAIN saved[i]
          \/ \E i \in 1 .. Len(saved) :
               s \in DOMAIN saved[i] /\ \A j \in 1 .. Len(saved) : j < i => s \notin DOMAIN saved[j]
      BY <2>2, NewestLayer DEF s
    <3> QED  BY <3>1, <3>2, <3>3
  <2>6. Reads(cow') = Reads(saved)  BY <2>5 DEF Reads
  <2>7. Reads(saved) = truth.saved /\ truth.saved \in [Cow!Positions -> Contents] /\ truth.restores \in Nat
    BY <2>1 DEF CowInv
  <2>8. Len(cow') >= 1  BY <2>3, <2>4
  <2>9. truth' = [now |-> truth.saved, saved |-> truth.saved, writes |-> truth.writes, restores |-> truth.restores + 1]
        /\ truth.writes \in Nat /\ truth.restores + 1 \in Nat
    <3> DEFINE F == [Cow!Positions -> Contents]
    <3>1. truth \in [now : F, saved : F, writes : Nat, restores : Nat]  BY DEF CowInv
    <3> HIDE DEF F
    <3>2. truth.writes \in Nat /\ truth.restores \in Nat  BY <3>1
    <3> DEFINE x == truth.restores + 1
    <3>3. truth' = [truth EXCEPT !.now = truth.saved, !.restores = x]  BY <2>1
    <3>4. x \in Nat  BY <3>2
    <3> HIDE DEF x
    <3>5. truth' = [now |-> truth.saved, saved |-> truth.saved, writes |-> truth.writes, restores |-> x]
      BY <3>1, <3>3
    <3> QED  BY <3>2, <3>4, <3>5 DEF x
  <2> QED  BY <2>1, <2>3, <2>6, <2>7, <2>8, <2>9, NowChanged
<1>5. CASE UNCHANGED Cow!cowVars
  BY <1>5 DEF Cow!cowVars, CowInv, Reads
<1> QED  BY <1>1, <1>2, <1>3, <1>4, <1>5 DEF Cow!Next

\* A disk shows what the guest wrote last over the file, and after any number of restarts,
\* snapshots and restores what it showed then (CowDiskData, CowDiskDataSnapshot and
\* MissingDiskData in hw/storage.rs).
THEOREM DiskKeepsContents ==
    Cow!CowAssumption /\ DevicesSpec => []ContentsExact
<1> SUFFICES ASSUME Cow!CowAssumption PROVE DevicesSpec => []ContentsExact  OBVIOUS
<1>1. CowInv => ContentsExact  BY DEF CowInv, Reads, ContentsExact, Cow!ContentsExact
<1>2. CowInv /\ [Cow!Next]_(Cow!cowVars) => CowInv'  BY CowStep
<1>3. Cow!Init => CowInv  BY CowStarts
<1> QED  BY <1>1, <1>2, <1>3, DiskRuns, PTL DEF Cow!Spec

-----------------------------------------------------------------------------
(* The keyboard controller and the mouse.                                  *)

Controllers ==
    [out : Seq({"keyboard"}), pending : {"none", "ram", "p2", "aux"}, parameter : BOOLEAN, aux : BOOLEAN,
     mustReadKeyboard : BOOLEAN, a20 : BOOLEAN]
Mice ==
    [send : Seq({"mouse"}), recv : {"none", "rate", "resolution"}, reporting : BOOLEAN,
     mode : {"standard", "intelli"}, progress : Nat, delta : Nat]

KbdTypes == ppi \in Controllers /\ mouse \in Mice /\ lines \subseteq {"keyboard", "mouse"} /\ handler \in BOOLEAN

\* What a step may do to the bytes that are announced: see NoByteStranded.
Announced ==
    \A line \in {"keyboard", "mouse"} :
        Kbd!Stranded(line)' /\ ~Kbd!Stranded(line) => line = "mouse" /\ ~ppi.aux /\ ppi'.aux
Kept == KbdTypes' /\ Announced

\* Bytes are added behind those that wait.
LEMMA BytesPut ==
    ASSUME NEW n \in Nat
    PROVE  /\ \A p \in Controllers :
                /\ Kbd!Put(p, n) \in Controllers /\ Kbd!Put(p, n).aux = p.aux
                /\ \A x \in BOOLEAN : [Kbd!Put(p, n) EXCEPT !.parameter = x] \in Controllers
                                      /\ [Kbd!Put(p, n) EXCEPT !.parameter = x].aux = p.aux
           /\ \A m \in Mice : Kbd!Send(m, n) \in Mice /\ Kbd!Send(m, n) = [m EXCEPT !.send = Kbd!Send(m, n).send]
<1>1. [i \in 1 .. n |-> "keyboard"] \in Seq({"keyboard"}) /\ [i \in 1 .. n |-> "mouse"] \in Seq({"mouse"})
  OBVIOUS
<1> DEFINE k == [i \in 1 .. n |-> "keyboard"]
           s == [i \in 1 .. n |-> "mouse"]
<1>2. \A q \in Seq({"keyboard"}) : q \o k \in Seq({"keyboard"})  BY <1>1, ConcatProperties
<1>3. \A q \in Seq({"mouse"}) : q \o s \in Seq({"mouse"})  BY <1>1, ConcatProperties
<1>4. \A p : Kbd!Put(p, n) = [p EXCEPT !.out = p.out \o k]  BY DEF Kbd!Put
<1>5. \A m : Kbd!Send(m, n) = [m EXCEPT !.send = m.send \o s]  BY DEF Kbd!Send
<1> HIDE DEF k, s
<1>6. ASSUME NEW p \in Controllers
      PROVE  /\ Kbd!Put(p, n) \in Controllers /\ Kbd!Put(p, n).aux = p.aux
             /\ \A x \in BOOLEAN : [Kbd!Put(p, n) EXCEPT !.parameter = x] \in Controllers
                                   /\ [Kbd!Put(p, n) EXCEPT !.parameter = x].aux = p.aux
  <2> DEFINE o == p.out \o k
             u == Kbd!Put(p, n)
  <2>1. o \in Seq({"keyboard"})  BY <1>2 DEF Controllers
  <2>2. u = [p EXCEPT !.out = o]  BY <1>4
  <2> HIDE DEF o, u
  <2>3. u \in Controllers /\ u.aux = p.aux  BY <2>1, <2>2 DEF Controllers
  <2>4. \A x \in BOOLEAN : [u EXCEPT !.parameter = x] \in Controllers /\ [u EXCEPT !.parameter = x].aux = p.aux
    BY <2>3 DEF Controllers
  <2> QED  BY <2>3, <2>4 DEF u
<1>7. ASSUME NEW m \in Mice
      PROVE  Kbd!Send(m, n) \in Mice /\ Kbd!Send(m, n) = [m EXCEPT !.send = Kbd!Send(m, n).send]
  <2> DEFINE o == m.send \o s
             u == Kbd!Send(m, n)
  <2>1. o \in Seq({"mouse"})  BY <1>3 DEF Mice
  <2>2. u = [m EXCEPT !.send = o]  BY <1>5
  <2> HIDE DEF o, u
  <2>3. u \in Mice /\ u.send = o  BY <2>1, <2>2 DEF Mice
  <2> QED  BY <2>2, <2>3 DEF u
<1> QED  BY <1>6, <1>7

\* update_irq pulses for each byte of the keyboard.
LEMMA ControllerKeeps ==
    ASSUME KbdTypes, NEW p \in Controllers, Kbd!Controller(p)
    PROVE  Kept
<1>1. ppi' = p /\ mouse' = mouse /\ handler' = handler /\ lines' = Kbd!UpdateIrq(p, lines)  BY DEF Kbd!Controller
<1>2. /\ lines \subseteq lines' /\ lines' \subseteq {"keyboard", "mouse"}
      /\ p.out # << >> => "keyboard" \in lines'
  BY <1>1 DEF KbdTypes, Kbd!UpdateIrq
<1> QED  BY <1>1, <1>2 DEF Kept, Announced, KbdTypes, Kbd!Stranded, Kbd!Visible

\* ... and for each of the mouse.
LEMMA MouseKeeps ==
    ASSUME KbdTypes, NEW p \in Controllers, NEW m \in Mice, p.out = ppi.out, p.aux = ppi.aux, Kbd!Mouse(p, m)
    PROVE  Kept
<1>1. ppi' = p /\ mouse' = m /\ handler' = handler /\ lines' = Kbd!UpdateMouseIrq(m, lines)  BY DEF Kbd!Mouse
<1>2. /\ lines \subseteq lines' /\ lines' \subseteq {"keyboard", "mouse"}
      /\ m.send # << >> => "mouse" \in lines'
  BY <1>1 DEF KbdTypes, Kbd!UpdateMouseIrq
<1> QED  BY <1>1, <1>2 DEF Kept, Announced, KbdTypes, Kbd!Stranded, Kbd!Visible

\* Other writes leave the bytes alone.
LEMMA BytesAlone ==
    ASSUME KbdTypes, ppi' \in Controllers, ppi'.out = ppi.out, ppi'.aux = ppi.aux,
           UNCHANGED <<mouse, lines, handler>>
    PROVE  Kept
BY DEF Kept, Announced, KbdTypes, Kbd!Stranded, Kbd!Visible

\* A read of the data port takes a byte and pulses for those that are left.
LEMMA ByteRead ==
    ASSUME KbdTypes, Kbd!ReadA, UNCHANGED handler
    PROVE  Kept
<1>1. CASE /\ mouse.send # << >> /\ mouse' = [mouse EXCEPT !.send = Tail(mouse.send)]
           /\ lines' = Kbd!UpdateMouseIrq(mouse', lines) /\ ppi' = [ppi EXCEPT !.mustReadKeyboard = FALSE]
  <2> DEFINE t == Tail(mouse.send)
  <2>1. mouse \in Mice /\ mouse.send \in Seq({"mouse"})  BY DEF KbdTypes, Mice
  <2>2. t \in Seq({"mouse"})  BY <1>1, <2>1, HeadTailProperties
  <2> HIDE DEF t
  <2>3. mouse' \in Mice  BY <1>1, <2>1, <2>2 DEF Mice, t
  <2>4. ppi' \in Controllers  BY <1>1 DEF KbdTypes, Controllers
  <2>5. ppi'.out = ppi.out /\ ppi'.aux = ppi.aux  BY <1>1 DEF KbdTypes, Controllers
  <2>6. /\ lines \subseteq lines' /\ lines' \subseteq {"keyboard", "mouse"}
        /\ mouse'.send # << >> => "mouse" \in lines'
    BY <1>1 DEF KbdTypes, Kbd!UpdateMouseIrq
  <2> QED  BY <2>3, <2>4, <2>5, <2>6 DEF Kept, Announced, KbdTypes, Kbd!Stranded, Kbd!Visible
<1> DEFINE out == IF ppi.out = << >> THEN << >> ELSE Tail(ppi.out)
<1>2. CASE /\ ppi' = [ppi EXCEPT !.out = out, !.mustReadKeyboard = (out # << >>)]
           /\ lines' = Kbd!UpdateIrq(ppi', lines) /\ mouse' = mouse
  <2>1. ppi \in Controllers /\ ppi.out \in Seq({"keyboard"})  BY DEF KbdTypes, Controllers
  <2>2. out \in Seq({"keyboard"})  BY <2>1, HeadTailProperties, EmptySeq
  <2> HIDE DEF out
  <2>3. ppi' \in Controllers  BY <1>2, <2>1, <2>2 DEF Controllers
  <2>4. ppi'.aux = ppi.aux  BY <1>2, <2>1 DEF Controllers
  <2>5. /\ lines \subseteq lines' /\ lines' \subseteq {"keyboard", "mouse"}
        /\ ppi'.out # << >> => "keyboard" \in lines'
    BY <1>2 DEF KbdTypes, Kbd!UpdateIrq
  <2> QED  BY <1>2, <2>3, <2>4, <2>5 DEF Kept, Announced, KbdTypes, Kbd!Stranded, Kbd!Visible
<1>3. CASE Kbd!CancelCommand
  BY <1>3, BytesAlone DEF KbdTypes, Controllers, Kbd!CancelCommand
<1> QED  BY <1>1, <1>2, <1>3 DEF Kbd!ReadA, Kbd!ReadMouse, Kbd!ReadKeyboard

\* The types hold at first.
LEMMA KbdStarts == Kbd!Init => KbdTypes
<1> SUFFICES ASSUME Kbd!Init PROVE KbdTypes  OBVIOUS
<1>1. << >> \in Seq({"keyboard"}) /\ << >> \in Seq({"mouse"})  BY EmptySeq
<1>2. ppi \in Controllers /\ ppi.out = << >>  BY <1>1 DEF Kbd!Init, Controllers
<1>3. mouse \in Mice /\ mouse.send = << >>  BY <1>1 DEF Kbd!Init, Mice
<1> QED  BY <1>2, <1>3 DEF Kbd!Init, KbdTypes

\* Every step keeps the types and the bytes announced.
LEMMA KbdStep ==
    ASSUME Kbd!PpiAssumption, KbdTypes, [Kbd!Next]_(Kbd!ppiVars)
    PROVE  Kept
<1> DEFINE taken == Kbd!Taken
<1>1. KbdTypes /\ MaxDelta \in Nat  BY DEF Kbd!PpiAssumption
<1>2. taken \in Controllers /\ taken.out = ppi.out /\ taken.aux = ppi.aux
  BY <1>1 DEF KbdTypes, Controllers, Kbd!Taken
<1> HIDE DEF taken
<1>4. CASE Kbd!WriteParameter
  BY <1>1, <1>4, BytesPut, ControllerKeeps, ZenonT(40) DEF KbdTypes, Kbd!WriteParameter
<1>5. ASSUME NEW kind \in {"plain", "parameter", "reset"}, Kbd!WriteKeyboard(kind)  PROVE Kept
  <2> DEFINE n == IF kind = "reset" THEN 2 ELSE 1
             x == kind = "parameter"
  <2>1. Kbd!Controller([Kbd!Put(ppi, n) EXCEPT !.parameter = x])  BY <1>5 DEF Kbd!WriteKeyboard
  <2>2. n \in Nat /\ x \in BOOLEAN  OBVIOUS
  <2> HIDE DEF n, x
  <2> QED  BY <1>1, <2>1, <2>2, BytesPut, ControllerKeeps DEF KbdTypes
<1>6. CASE Kbd!WriteRam
  BY <1>1, <1>6, BytesAlone DEF KbdTypes, Controllers, Kbd!WriteRam
<1>7. ASSUME NEW x \in BOOLEAN, Kbd!WriteP2(x)  PROVE Kept
  BY <1>1, <1>7, BytesAlone DEF KbdTypes, Controllers, Kbd!WriteP2
<1>8. ASSUME NEW x \in BOOLEAN, Kbd!WriteSystemControlA(x)  PROVE Kept
  BY <1>1, <1>8, BytesAlone DEF KbdTypes, Controllers, Kbd!WriteSystemControlA
<1>9. CASE Kbd!AuxDropped
  BY <1>2, <1>9, BytesAlone DEF Kbd!AuxDropped, taken
<1>10. ASSUME NEW n \in {1, 2, 4}, NEW r \in BOOLEAN, Kbd!MouseCommand(n, r)  PROVE Kept
  <2> DEFINE m == Kbd!Send(mouse, n)
  <2>1. m \in Mice  BY <1>1, BytesPut DEF KbdTypes
  <2>2. Kbd!Mouse(taken, [m EXCEPT !.reporting = r])  BY <1>10 DEF Kbd!MouseCommand, taken
  <2> HIDE DEF m
  <2>3. [m EXCEPT !.reporting = r] \in Mice  BY <2>1 DEF Mice
  <2> QED  BY <1>2, <2>2, <2>3, MouseKeeps
<1>11. ASSUME NEW cmd \in {"rate", "resolution"}, Kbd!MouseParameterCommand(cmd)  PROVE Kept
  <2> DEFINE m == Kbd!Send(mouse, 1)
  <2>1. m \in Mice  BY <1>1, BytesPut DEF KbdTypes
  <2>2. Kbd!Mouse(taken, [m EXCEPT !.recv = cmd])  BY <1>11 DEF Kbd!MouseParameterCommand, taken
  <2> HIDE DEF m
  <2>3. [m EXCEPT !.recv = cmd] \in Mice  BY <2>1 DEF Mice
  <2> QED  BY <1>2, <2>2, <2>3, MouseKeeps
<1>12. ASSUME NEW rate \in {200, 100, 80}, Kbd!MouseParameter(rate)  PROVE Kept
  <2> DEFINE s == Kbd!Send(mouse, 1)
             m == [s EXCEPT !.recv = "none"]
             u == Kbd!Unlocked(m, rate)
  <2>1. s \in Mice  BY <1>1, BytesPut DEF KbdTypes
  <2>2. Kbd!Mouse(taken, IF mouse.recv = "rate" THEN u ELSE m)  BY <1>12 DEF Kbd!MouseParameter, taken
  <2> HIDE DEF s
  <2>3. m \in Mice  BY <2>1 DEF Mice
  <2> HIDE DEF m
  <2>4. u \in Mice
    <3>1. \/ u = m
          \/ u = [m EXCEPT !.progress = m.progress + 1]
          \/ u = [m EXCEPT !.mode = "intelli", !.progress = 0]
          \/ u = [m EXCEPT !.progress = 0]
      BY DEF Kbd!Unlocked
    <3> HIDE DEF u
    <3>2. m.progress + 1 \in Nat  BY <2>3 DEF Mice
    <3>3. [m EXCEPT !.progress = m.progress + 1] \in Mice
      <4> DEFINE x == m.progress + 1
      <4> HIDE DEF x
      <4> QED  BY <2>3, <3>2 DEF Mice, x
    <3>4. [m EXCEPT !.mode = "intelli", !.progress = 0] \in Mice /\ [m EXCEPT !.progress = 0] \in Mice
      BY <2>3 DEF Mice
    <3> QED  BY <2>3, <3>1, <3>3, <3>4
  <2> HIDE DEF u
  <2> QED  BY <1>2, <2>2, <2>3, <2>4, MouseKeeps
<1>13. CASE Kbd!MouseReset
  <2> DEFINE m == Kbd!Send(mouse, 3)
             u == [m EXCEPT !.reporting = FALSE, !.mode = "standard", !.progress = 0]
  <2>1. m \in Mice  BY <1>1, BytesPut DEF KbdTypes
  <2>2. Kbd!Mouse(taken, u)  BY <1>13 DEF Kbd!MouseReset, taken
  <2> HIDE DEF m
  <2>3. u \in Mice  BY <2>1 DEF Mice
  <2> HIDE DEF u
  <2> QED  BY <1>2, <2>2, <2>3, MouseKeeps
<1>14. ASSUME NEW motion \in 0 .. MaxDelta, NEW click \in BOOLEAN, Kbd!HandleInput(motion, click)  PROVE Kept
  <2> DEFINE delta == mouse.delta + motion
             updates == (IF click THEN 1 ELSE 0) + (IF click /\ delta > 0 THEN delta - 1 ELSE delta)
             n == updates * Kbd!PacketSize(mouse)
             s == Kbd!Send(mouse, n)
  <2>1. delta \in Nat  BY <1>1 DEF KbdTypes, Mice
  <2>2. updates \in Nat /\ Kbd!PacketSize(mouse) \in Nat  BY <2>1 DEF Kbd!PacketSize
  <2>3. n \in Nat
    <3> HIDE DEF updates
    <3> QED  BY <2>2
  <2>4. /\ ppi' = ppi /\ handler' = handler
        /\ mouse' = IF mouse.reporting THEN [s EXCEPT !.delta = 0] ELSE [mouse EXCEPT !.delta = delta]
        /\ lines' = IF mouse.reporting /\ updates > 0 THEN Kbd!UpdateMouseIrq(mouse', lines) ELSE lines
    BY <1>14 DEF Kbd!HandleInput
  <2>5. s \in Mice  BY <1>1, <2>3, BytesPut DEF KbdTypes
  <2>6. updates = 0 => s.send = mouse.send
    <3>1. updates = 0 => n = 0  BY <2>2
    <3>2. Kbd!Send(mouse, 0) = [mouse EXCEPT !.send = mouse.send \o [i \in 1 .. 0 |-> "mouse"]]  BY DEF Kbd!Send
    <3>3. [i \in 1 .. 0 |-> "mouse"] = << >>  OBVIOUS
    <3>4. mouse.send \o << >> = mouse.send  BY <1>1, ConcatEmptySeq DEF KbdTypes, Mice
    <3>5. Kbd!Send(mouse, 0).send = mouse.send  BY <1>1, <3>2, <3>3, <3>4 DEF KbdTypes, Mice
    <3> HIDE DEF n, updates
    <3> QED  BY <3>1, <3>5
  <2> HIDE DEF s, n
  <2>7. mouse' \in Mice  BY <1>1, <2>1, <2>4, <2>5 DEF KbdTypes, Mice
  <2>8. CASE mouse.reporting /\ updates > 0
    <3>1. Kbd!Mouse(ppi, mouse')  BY <2>4, <2>8 DEF Kbd!Mouse
    <3> QED  BY <1>1, <2>7, <3>1, MouseKeeps DEF KbdTypes
  <2>9. CASE ~(mouse.reporting /\ updates > 0)
    <3>1. updates = 0 \/ ~mouse.reporting  BY <2>2, <2>9
    <3>2. mouse'.send = mouse.send
      <4> HIDE DEF delta, updates
      <4> QED  BY <1>1, <2>4, <2>5, <2>6, <3>1 DEF KbdTypes, Mice
    <3>3. lines' = lines  BY <2>4, <2>9
    <3> QED  BY <2>4, <2>7, <3>2, <3>3 DEF Kept, Announced, KbdTypes, Kbd!Stranded, Kbd!Visible
  <2> QED  BY <2>8, <2>9
<1>15. ASSUME NEW cmd \in {"ram", "p2", "aux"}, Kbd!CommandWithData(cmd)  PROVE Kept
  BY <1>1, <1>15, BytesAlone DEF KbdTypes, Controllers, Kbd!CommandWithData
<1>16. CASE Kbd!CommandWithAnswer
  BY <1>1, <1>16, BytesPut, ControllerKeeps DEF KbdTypes, Kbd!CommandWithAnswer
<1>17. ASSUME NEW x \in BOOLEAN, Kbd!SetAux(x)  PROVE Kept
  <2> DEFINE p == [ppi EXCEPT !.aux = x, !.out = << >>]
  <2>1. Kbd!Controller(p)  BY <1>17 DEF Kbd!SetAux
  <2>2. << >> \in Seq({"keyboard"})  BY EmptySeq
  <2>3. p \in Controllers  BY <1>1, <2>2 DEF KbdTypes, Controllers
  <2> HIDE DEF p
  <2> QED  BY <2>1, <2>3, ControllerKeeps
<1>18. ASSUME NEW r \in BOOLEAN, Kbd!ClearKeyboard(r)  PROVE Kept
  <2> DEFINE o == IF r THEN <<"keyboard">> ELSE IF ppi.out = << >> THEN ppi.out ELSE Tail(ppi.out)
             p == [ppi EXCEPT !.out = o]
  <2>1. Kbd!Controller(p)  BY <1>18 DEF Kbd!ClearKeyboard
  <2>2. ppi.out \in Seq({"keyboard"}) /\ <<"keyboard">> \in Seq({"keyboard"})  BY <1>1 DEF KbdTypes, Controllers
  <2>3. o \in Seq({"keyboard"})  BY <2>2, HeadTailProperties
  <2> HIDE DEF o
  <2>4. p \in Controllers /\ p.aux = ppi.aux  BY <1>1, <2>3 DEF KbdTypes, Controllers
  <2> HIDE DEF p
  <2> QED  BY <2>1, <2>4, ControllerKeeps
<1>19. CASE Kbd!EnqueueScancode
  BY <1>1, <1>19, BytesPut, ControllerKeeps DEF KbdTypes, Kbd!EnqueueScancode
<1>20. ASSUME NEW line \in {"keyboard", "mouse"}, Kbd!Interrupt(line)  PROVE Kept
  BY <1>1, <1>20 DEF Kbd!Interrupt, Kept, Announced, KbdTypes, Kbd!Stranded
<1>21. CASE Kbd!HandlerRead \/ Kbd!Poll
  BY <1>1, <1>21, ByteRead DEF Kbd!HandlerRead, Kbd!Poll
<1>22. CASE Kbd!HandlerEnd
  BY <1>1, <1>22 DEF Kbd!HandlerEnd, Kbd!OutputAvailable, Kept, Announced, KbdTypes, Kbd!Stranded, Kbd!Visible
<1>24. CASE UNCHANGED Kbd!ppiVars
  BY <1>24 DEF Kbd!ppiVars, Kept, Announced, KbdTypes, Kbd!Stranded, Kbd!Visible
<1> QED
  BY <1>4, <1>5, <1>6, <1>7, <1>8, <1>9, <1>10, <1>11, <1>12, <1>13, <1>14, <1>15, <1>16, <1>17, <1>18,
     <1>19, <1>20, <1>21, <1>22, <1>24 DEF Kbd!Next

\* The keyboard and the mouse do not die: no step leaves a visible byte without a handler
\* and without the pending interrupt of its own line (update_irq in ppi/mod.rs and
\* ppi/mouse.rs), but the command that enables the mouse port while the mouse has bytes.
THEOREM BytesAreAnnounced ==
    Kbd!PpiAssumption /\ DevicesSpec => NoByteStranded
<1> SUFFICES ASSUME Kbd!PpiAssumption PROVE DevicesSpec => NoByteStranded  OBVIOUS
<1>1. KbdTypes /\ [Kbd!Next]_(Kbd!ppiVars) => Kept  BY KbdStep
<1>2. Kept => KbdTypes' /\ [Announced]_(Kbd!ppiVars)  BY DEF Kept
<1>3. Kbd!Spec => [][Announced]_(Kbd!ppiVars)
  BY <1>1, <1>2, KbdStarts, PTL DEF Kbd!Spec
<1> QED  BY <1>3, KeyboardRuns, PTL DEF NoByteStranded, Kbd!NoByteStranded, Announced

\* The remainder of the next number.
LEMMA RestOfNext ==
    ASSUME NEW a \in Nat, NEW i \in Nat \ {0}
    PROVE  (a + 1) % i = IF a % i = i - 1 THEN 0 ELSE (a % i) + 1
<1> DEFINE q == a \div i
           o == a % i
           s == (a + 1) \div i
           y == (a + 1) % i
<1>1. o \in 0 .. i - 1 /\ a = i * q + o /\ q \in Int  OBVIOUS
<1>2. y \in 0 .. i - 1 /\ a + 1 = i * s + y /\ s \in Int  OBVIOUS
<1> HIDE DEF q, o, s, y
<1> DEFINE k == s - q
<1>3. i * k = o + 1 - y /\ k \in Int  BY <1>1, <1>2
<1> HIDE DEF k
<1>4. \A x \in Int : (x >= 2 => i * x >= 2 * i) /\ (x <= -1 => i * x <= - i)  OBVIOUS
<1>5. ~(k >= 2) /\ ~(k <= -1)
  <2>1. o + 1 - y <= i /\ o + 1 - y > - i /\ 2 * i > i  BY <1>1, <1>2
  <2> QED  BY <1>3, <1>4, <2>1
<1>6. k = 0 \/ k = 1  BY <1>3, <1>5
<1>7. CASE k = 0
  <2>1. i * k = 0  BY <1>7
  <2>2. y = o + 1  BY <1>1, <1>2, <1>3, <2>1
  <2>3. o # i - 1  BY <1>1, <1>2, <2>2
  <2> QED  BY <2>2, <2>3 DEF o, y
<1>8. CASE k = 1
  <2>1. i * k = i  BY <1>8
  <2>2. o + 1 - y = i  BY <1>3, <2>1
  <2>3. y = 0 /\ o = i - 1  BY <1>1, <1>2, <2>2
  <2> QED  BY <2>3 DEF o, y
<1> QED  BY <1>6, <1>7, <1>8

-----------------------------------------------------------------------------
(* A counter of the interval timer.                                        *)

Word   == Pit!Word
PitCounts == 0 .. Word - 1
Timers ==
    [init : PitCounts, val : PitCounts, mode : Pit!TimerModes, state : Pit!AccessStates, output : BOOLEAN,
     null_count : BOOLEAN, latched_value : {Pit!None} \cup PitCounts,
     latched_status : {<< >>} \cup (BOOLEAN \X BOOLEAN \X {"both", "lsb", "msb"} \X Pit!TimerModes)]

\* The clock ticks less than a whole turn of the counter between two accesses: in modes 4
\* and 5 tick_to takes a whole turn for no tick at all.
LessThanATurn == Pit!ByteAssumption /\ MaxGap < Word

PitTypes ==
    /\ timer \in Timers /\ eager \in Timers /\ gap \in 0 .. MaxGap
    /\ got \in [want : {Pit!None} \cup PitCounts, low : Int]
PitInv   == PitTypes /\ Pit!LazyExact /\ Pit!LatchAtomic

-----------------------------------------------------------------------------
\* The constants.
LEMMA ByteAndWord ==
    ASSUME LessThanATurn
    PROVE  Byte \in Nat /\ Byte >= 2 /\ Word \in Nat /\ Word >= 4 /\ Word = Byte * Byte /\ MaxGap \in Nat /\ MaxGap < Word
<1>1. Byte \in Nat /\ Byte >= 2 /\ MaxGap \in Nat /\ MaxGap < Word  BY DEF LessThanATurn, Pit!ByteAssumption
<1>2. Word = Byte * Byte  BY DEF Word, Pit!Word
<1>3. Byte * Byte \in Nat /\ Byte * Byte >= 4  BY <1>1
<1> QED  BY <1>1, <1>2, <1>3

\* One more tick, of a counter that runs through zero ...
LEMMA DownOnce ==
    ASSUME LessThanATurn, NEW v \in PitCounts, NEW n \in Nat
    PROVE  /\ (v - n) % Word \in PitCounts
           /\ (((v - n) % Word) - 1) % Word = (v - (n + 1)) % Word
<1>1. Word \in Nat /\ Word >= 4 /\ v \in Nat  BY ByteAndWord DEF PitCounts
<1> DEFINE w == Word
<1> HIDE DEF w
<1>2. \A a \in Int : a % w \in 0 .. w - 1 /\ a = w * (a \div w) + (a % w) /\ a \div w \in Int
  BY <1>1 DEF w
<1> DEFINE a == v - n
           b == v - (n + 1)
           q == a \div w
           s == b \div w
           x == a % w
           y == b % w
           z == (x - 1) % w
           u == (x - 1) \div w
<1>3. a \in Int /\ b \in Int /\ b = a - 1  BY <1>1
<1> HIDE DEF a, b
<1>4. /\ x \in 0 .. w - 1 /\ a = w * q + x /\ q \in Int /\ y \in 0 .. w - 1 /\ b = w * s + y /\ s \in Int
  BY <1>2, <1>3
<1>5. x \in Int  BY <1>4
<1> HIDE DEF x, y, q, s
<1>6. z \in 0 .. w - 1 /\ x - 1 = w * u + z /\ u \in Int  BY <1>2, <1>5
<1> HIDE DEF z, u
<1>7. w * (q + u - s) = y - z  BY <1>1, <1>3, <1>4, <1>5, <1>6 DEF w
<1>8. q + u - s \in Int /\ y - z > - w /\ y - z < w  BY <1>1, <1>4, <1>6 DEF w
<1>9. \A k \in Int : k >= 1 => w * k >= w  BY <1>1 DEF w
<1>10. \A k \in Int : k <= -1 => w * k <= - w  BY <1>1 DEF w
<1>11. q + u - s = 0
  <2> DEFINE k == q + u - s
             d == y - z
  <2>1. w * k = d /\ k \in Int  BY <1>7, <1>8
  <2>5. d \in Int /\ w \in Nat /\ d > - w /\ d < w  BY <1>1, <1>4, <1>6, <1>8 DEF w
  <2> HIDE DEF k, d
  <2>2. ~(k >= 1)
    <3>1. k >= 1 => d >= w  BY <1>9, <2>1
    <3> QED  BY <2>5, <3>1
  <2>3. ~(k <= -1)
    <3>1. k <= -1 => d <= - w  BY <1>10, <2>1
    <3> QED  BY <2>5, <3>1
  <2>4. k = 0  BY <2>1, <2>2, <2>3
  <2> QED  BY <2>4 DEF k
<1>12. z = y
  <2>1. w * (q + u - s) = 0  BY <1>1, <1>11 DEF w
  <2> QED  BY <1>4, <1>6, <1>7, <2>1
<1>13. x \in PitCounts  BY <1>4 DEF PitCounts, w
<1> QED  BY <1>12, <1>13 DEF a, b, x, y, z, w

\* ... and of one that reloads.
LEMMA AroundOnce ==
    ASSUME LessThanATurn, NEW v \in PitCounts, NEW i \in 1 .. Word, NEW n \in Nat
    PROVE  /\ Pit!CountDown(v, i, n) \in PitCounts
           /\ Pit!CountDown(Pit!CountDown(v, i, n), i, 1) = Pit!CountDown(v, i, n + 1)
<1>1. Word \in Nat /\ Word >= 4 /\ v \in Nat /\ v < Word /\ i \in Nat \ {0} /\ i <= Word
  BY ByteAndWord DEF PitCounts
\* After a reload the count is i - 1 less the ticks since then.
<1>2. ASSUME NEW x \in Nat, NEW m \in Nat, m > x
      PROVE  Pit!CountDown(x, i, m) = i - 1 - ((m - x - 1) % i)
  <2> DEFINE r == m - x
             q == (r - 1) \div i
             o == (r - 1) % i
  <2>1. r \in Nat /\ r >= 1  BY <1>2
  <2> HIDE DEF r
  <2>2. q \in Int /\ o \in 0 .. i - 1 /\ r - 1 = i * q + o  BY <1>1, <2>1
  <2>3. Pit!CountDown(x, i, m) = (i * (q + 1) - r) % Word
    BY <1>2 DEF Pit!CountDown, r, Word, q
  <2> HIDE DEF q, o
  <2>4. i * (q + 1) = i * q + i  BY <1>1, <2>2
  <2>5. i * (q + 1) - r = i - 1 - o  BY <1>1, <2>1, <2>2, <2>4
  <2>6. i - 1 - o \in 0 .. Word - 1  BY <1>1, <2>2
  <2>7. \A k \in 0 .. Word - 1 : k % Word = k  BY <1>1
  <2> QED  BY <2>3, <2>5, <2>6, <2>7 DEF o, r
<1>3. ASSUME NEW x \in Nat, NEW m \in Nat, m <= x  PROVE Pit!CountDown(x, i, m) = x - m
  BY <1>3 DEF Pit!CountDown
<1>4. CASE n < v
  <2>1. Pit!CountDown(v, i, n) = v - n /\ Pit!CountDown(v, i, n + 1) = v - (n + 1)  BY <1>1, <1>3, <1>4
  <2>2. v - n \in Nat /\ v - n >= 1  BY <1>1, <1>4
  <2>3. Pit!CountDown(v - n, i, 1) = v - n - 1  BY <1>3, <2>2
  <2> QED  BY <1>1, <1>4, <2>1, <2>2, <2>3 DEF PitCounts
<1>5. CASE n = v
  <2>1. Pit!CountDown(v, i, n) = 0  BY <1>1, <1>3, <1>5
  <2>2. Pit!CountDown(0, i, 1) = i - 1 - ((1 - 0 - 1) % i)  BY <1>2
  <2>3. Pit!CountDown(v, i, n + 1) = i - 1 - ((n + 1 - v - 1) % i)  BY <1>1, <1>2, <1>5
  <2>4. 1 - 0 - 1 = 0 /\ n + 1 - v - 1 = 0  BY <1>1, <1>5
  <2>5. 0 \in PitCounts  BY <1>1 DEF PitCounts
  <2> QED  BY <2>1, <2>2, <2>3, <2>4, <2>5
<1>6. CASE n > v
  <2> DEFINE a == n - v - 1
             o == a % i
             c == i - 1 - o
  <2>1. a \in Nat /\ n + 1 - v - 1 = a + 1  BY <1>1, <1>6
  <2>2. Pit!CountDown(v, i, n) = c /\ Pit!CountDown(v, i, n + 1) = i - 1 - ((a + 1) % i)
    BY <1>1, <1>2, <1>6, <2>1
  <2> HIDE DEF a
  <2>3. o \in 0 .. i - 1  BY <1>1, <2>1
  <2>4. (a + 1) % i = IF o = i - 1 THEN 0 ELSE o + 1  BY <1>1, <2>1, RestOfNext
  <2> HIDE DEF o
  <2>5. c \in Nat /\ c < i  BY <1>1, <2>3
  <2>6. CASE c = 0
    <3>1. Pit!CountDown(0, i, 1) = i - 1 - ((1 - 0 - 1) % i)  BY <1>2
    <3>2. 1 - 0 - 1 = 0 /\ 0 % i = 0  BY <1>1
    <3>3. Pit!CountDown(c, i, 1) = i - 1  BY <1>1, <2>6, <3>1, <3>2
    <3>4. o = i - 1  BY <1>1, <2>3, <2>6
    <3> QED  BY <1>1, <2>2, <2>4, <2>5, <3>3, <3>4 DEF PitCounts
  <2>7. CASE c >= 1
    <3>1. Pit!CountDown(c, i, 1) = c - 1  BY <1>3, <2>5, <2>7
    <3>2. o # i - 1  BY <1>1, <2>3, <2>7
    <3> QED  BY <1>1, <2>2, <2>3, <2>4, <2>5, <3>1, <3>2 DEF PitCounts
  <2> QED  BY <2>5, <2>6, <2>7
<1> QED  BY <1>1, <1>4, <1>5, <1>6

\* What a tick_to changes.
LEMMA TickKinds ==
    ASSUME NEW t \in Timers, NEW n \in Nat
    PROVE  LET u      == Pit!AfterTick(t, n)
               init   == IF t.init = 0 THEN Word ELSE t.init
               down   == (t.val - n) % Word
               around == Pit!CountDown(t.val, init, n)
               half   == t.state.both /\ t.state.write = "msb"
           IN  /\ t.mode = 0 /\ half => u = t
               /\ t.mode = 0 /\ ~half => u = [t EXCEPT !.val = down, !.output = (down = 0)]
               /\ t.mode = 2 => u = [t EXCEPT !.val = around, !.output = (around # 1)]
               /\ t.mode = 3 => u = [t EXCEPT !.val = around, !.output = (around >= init \div 2)]
               /\ t.mode \in {4, 5} => u = [t EXCEPT !.val = down, !.output = (down = 0 /\ t.val # down)]
<1> DEFINE init   == IF t.init = 0 THEN Word ELSE t.init
           down   == (t.val - n) % Word
           around == Pit!CountDown(t.val, init, n)
           half   == t.state.both /\ t.state.write = "msb"
           u      == Pit!AfterTick(t, n)
<1>1. u = CASE t.mode = 0 /\ t.state.both /\ t.state.write = "msb" -> t
            [] t.mode = 0 /\ ~(t.state.both /\ t.state.write = "msb") ->
                 [t EXCEPT !.val = down, !.output = (down = 0)]
            [] t.mode = 2 -> [t EXCEPT !.val = around, !.output = (around # 1)]
            [] t.mode = 3 -> [t EXCEPT !.val = around, !.output = (around >= init \div 2)]
            [] t.mode \in {4, 5} -> [t EXCEPT !.val = down, !.output = (down = 0 /\ t.val # down)]
  BY DEF Pit!AfterTick, Word
<1> HIDE DEF u, down, around, init
<1>2. t.mode = 0 /\ half => u = t  BY <1>1
<1>3. t.mode = 0 /\ ~half => u = [t EXCEPT !.val = down, !.output = (down = 0)]  BY <1>1
<1>4. t.mode = 2 => u = [t EXCEPT !.val = around, !.output = (around # 1)]  BY <1>1
<1>5. t.mode = 3 => u = [t EXCEPT !.val = around, !.output = (around >= init \div 2)]  BY <1>1
<1>6. t.mode \in {4, 5} => u = [t EXCEPT !.val = down, !.output = (down = 0 /\ t.val # down)]  BY <1>1
<1> QED  BY <1>2, <1>3, <1>4, <1>5, <1>6 DEF u, down, around, init

\* It keeps the rest.
LEMMA TickTypes ==
    ASSUME LessThanATurn, NEW t \in Timers, NEW n \in Nat
    PROVE  LET u == Pit!AfterTick(t, n)
           IN  /\ u \in Timers /\ u.init = t.init /\ u.mode = t.mode /\ u.state = t.state
               /\ u.null_count = t.null_count /\ u.latched_value = t.latched_value
               /\ u.latched_status = t.latched_status
<1> DEFINE init   == IF t.init = 0 THEN Word ELSE t.init
           down   == (t.val - n) % Word
           around == Pit!CountDown(t.val, init, n)
           u      == Pit!AfterTick(t, n)
<1>1. t.val \in PitCounts /\ t.init \in PitCounts /\ t.mode \in {0, 2, 3, 4, 5}  BY DEF Timers, Pit!TimerModes
<1>2. init \in 1 .. Word  BY <1>1, ByteAndWord DEF PitCounts
<1>3. down \in PitCounts /\ around \in PitCounts  BY <1>1, <1>2, DownOnce, AroundOnce
<1>4. u = t \/ \E v \in PitCounts, o \in BOOLEAN : u = [t EXCEPT !.val = v, !.output = o]
  <2>1. (down = 0) \in BOOLEAN /\ (around # 1) \in BOOLEAN /\ (around >= init \div 2) \in BOOLEAN
        /\ (down = 0 /\ t.val # down) \in BOOLEAN
    OBVIOUS
  <2>2. \/ u = t
        \/ u = [t EXCEPT !.val = down, !.output = (down = 0)]
        \/ u = [t EXCEPT !.val = around, !.output = (around # 1)]
        \/ u = [t EXCEPT !.val = around, !.output = (around >= init \div 2)]
        \/ u = [t EXCEPT !.val = down, !.output = (down = 0 /\ t.val # down)]
    BY <1>1, TickKinds, ZenonT(40)
  <2> HIDE DEF u, down, around, init
  <2> QED  BY <1>3, <2>1, <2>2, Zenon
<1> HIDE DEF u
<1> QED  BY <1>4, Zenon DEF Timers, u

\* Of two updates of the counter and its output the later counts.
LEMMA SetTwice ==
    ASSUME NEW t \in Timers, NEW a, NEW o, NEW b, NEW p
    PROVE  [[t EXCEPT !.val = a, !.output = o] EXCEPT !.val = b, !.output = p] = [t EXCEPT !.val = b, !.output = p]
BY DEF Timers

\* Ticking n times and once more is ticking n + 1 times.
LEMMA TickTwice ==
    ASSUME LessThanATurn, NEW t \in Timers, NEW n \in Nat, n >= 1, n + 1 < Word
    PROVE  Pit!AfterTick(Pit!AfterTick(t, n), 1) = Pit!AfterTick(t, n + 1)
<1> DEFINE init == IF t.init = 0 THEN Word ELSE t.init
           v    == t.val
           d1   == (v - n) % Word
           d2   == (v - (n + 1)) % Word
           a1   == Pit!CountDown(v, init, n)
           a2   == Pit!CountDown(v, init, n + 1)
           half == t.state.both /\ t.state.write = "msb"
           u    == Pit!AfterTick(t, n)
           w    == Pit!AfterTick(u, 1)
           x    == Pit!AfterTick(t, n + 1)
<1> SUFFICES w = x  OBVIOUS
<1>1. v \in PitCounts /\ t.init \in PitCounts /\ t.mode \in {0, 2, 3, 4, 5}  BY DEF Timers, Pit!TimerModes
<1>2. init \in 1 .. Word /\ n + 1 \in Nat  BY <1>1, ByteAndWord DEF PitCounts
<1>3. (d1 - 1) % Word = d2 /\ d1 \in PitCounts  BY <1>1, DownOnce
<1>4. Pit!CountDown(a1, init, 1) = a2  BY <1>1, <1>2, AroundOnce
<1>5. /\ u \in Timers /\ u.init = t.init /\ u.mode = t.mode /\ u.state = t.state  BY TickTypes
<1>6. /\ t.mode = 0 /\ half => u = t
      /\ t.mode = 0 /\ ~half => u = [t EXCEPT !.val = d1, !.output = (d1 = 0)]
      /\ t.mode = 2 => u = [t EXCEPT !.val = a1, !.output = (a1 # 1)]
      /\ t.mode = 3 => u = [t EXCEPT !.val = a1, !.output = (a1 >= init \div 2)]
      /\ t.mode \in {4, 5} => u = [t EXCEPT !.val = d1, !.output = (d1 = 0 /\ v # d1)]
  BY TickKinds, ZenonT(30)
<1>7. /\ t.mode = 0 /\ half => x = t
      /\ t.mode = 0 /\ ~half => x = [t EXCEPT !.val = d2, !.output = (d2 = 0)]
      /\ t.mode = 2 => x = [t EXCEPT !.val = a2, !.output = (a2 # 1)]
      /\ t.mode = 3 => x = [t EXCEPT !.val = a2, !.output = (a2 >= init \div 2)]
      /\ t.mode \in {4, 5} => x = [t EXCEPT !.val = d2, !.output = (d2 = 0 /\ v # d2)]
  BY <1>2, TickKinds, ZenonT(30)
<1> HIDE DEF u
<1> DEFINE e1 == (u.val - 1) % Word
           b1 == Pit!CountDown(u.val, init, 1)
<1>8. /\ t.mode = 0 /\ half => w = u
      /\ t.mode = 0 /\ ~half => w = [u EXCEPT !.val = e1, !.output = (e1 = 0)]
      /\ t.mode = 2 => w = [u EXCEPT !.val = b1, !.output = (b1 # 1)]
      /\ t.mode = 3 => w = [u EXCEPT !.val = b1, !.output = (b1 >= init \div 2)]
      /\ t.mode \in {4, 5} => w = [u EXCEPT !.val = e1, !.output = (e1 = 0 /\ u.val # e1)]
  <2> DEFINE i2 == IF u.init = 0 THEN Word ELSE u.init
             c2 == Pit!CountDown(u.val, i2, 1)
             h2 == u.state.both /\ u.state.write = "msb"
  <2>1. /\ u.mode = 0 /\ h2 => w = u
        /\ u.mode = 0 /\ ~h2 => w = [u EXCEPT !.val = e1, !.output = (e1 = 0)]
        /\ u.mode = 2 => w = [u EXCEPT !.val = c2, !.output = (c2 # 1)]
        /\ u.mode = 3 => w = [u EXCEPT !.val = c2, !.output = (c2 >= i2 \div 2)]
        /\ u.mode \in {4, 5} => w = [u EXCEPT !.val = e1, !.output = (e1 = 0 /\ u.val # e1)]
    BY <1>5, TickKinds, ZenonT(30)
  <2>2. i2 = init /\ h2 = half  BY <1>5
  <2>3. c2 = b1  BY <2>2
  <2> HIDE DEF w, e1, b1, c2, i2, h2, half, init
  <2> QED  BY <1>5, <2>1, <2>2, <2>3
<1>9. d2 = 0 => d1 = 1 /\ v # 0
  <2>1. v \in Nat /\ v < Word /\ Word \in Nat /\ Word >= 4  BY <1>1, ByteAndWord DEF PitCounts
  <2> DEFINE k == v - (n + 1)
             q == k \div Word
  <2>2. k \in Int /\ k > - Word /\ k < Word  BY <2>1
  <2>11. \A a \in Int : a = Word * (a \div Word) + (a % Word) /\ a \div Word \in Int  BY <2>1
  <2>12. d2 = k % Word  OBVIOUS
  <2> HIDE DEF k, d2
  <2>3. k = Word * q + d2 /\ q \in Int  BY <2>2, <2>11, <2>12
  <2> HIDE DEF q
  <2>4. \A z \in Int : (z >= 1 => Word * z >= Word) /\ (z <= -1 => Word * z <= - Word)  BY <2>1
  <2> SUFFICES ASSUME d2 = 0 PROVE d1 = 1 /\ v # 0  OBVIOUS
  <2>5. k = Word * q  BY <2>1, <2>2, <2>3
  <2>6. ~(q >= 1) /\ ~(q <= -1)  BY <2>1, <2>2, <2>3, <2>4, <2>5
  <2>7. q = 0  BY <2>3, <2>6
  <2>8. Word * q = 0  BY <2>1, <2>7
  <2>9. v - n = 1  BY <2>1, <2>5, <2>8 DEF k
  <2>10. 1 % Word = 1  BY <2>1
  <2> QED  BY <2>1, <2>9, <2>10
<1> HIDE DEF a1, a2, d1, d2, u, w, x, half, init
<1>10. \A a, o : [t EXCEPT !.val = a, !.output = o].val = a  BY DEF Timers
<1>11. CASE t.mode = 0 /\ half
  <2>1. u = t /\ w = u /\ x = t  BY <1>6, <1>7, <1>8, <1>11
  <2> QED  BY <2>1
<1>12. CASE t.mode = 0 /\ ~half
  <2> DEFINE o1 == (d1 = 0)
             o2 == (d2 = 0)
  <2>1. u = [t EXCEPT !.val = d1, !.output = o1] /\ x = [t EXCEPT !.val = d2, !.output = o2]
    BY <1>6, <1>7, <1>12
  <2>2. u.val = d1  BY <1>10, <2>1
  <2>3. e1 = d2  BY <1>3, <2>2
  <2> HIDE DEF e1
  <2>4. w = [u EXCEPT !.val = d2, !.output = o2]  BY <1>8, <1>12, <2>3
  <2> HIDE DEF o1, o2
  <2> QED  BY <2>1, <2>4, SetTwice, Zenon
<1>13. CASE t.mode = 2
  <2> DEFINE o1 == (a1 # 1)
             o2 == (a2 # 1)
  <2>1. u = [t EXCEPT !.val = a1, !.output = o1] /\ x = [t EXCEPT !.val = a2, !.output = o2]
    BY <1>6, <1>7, <1>13
  <2>2. u.val = a1  BY <1>10, <2>1
  <2>3. b1 = a2  BY <1>4, <2>2
  <2> HIDE DEF b1
  <2>4. w = [u EXCEPT !.val = a2, !.output = o2]  BY <1>8, <1>13, <2>3
  <2> HIDE DEF o1, o2
  <2> QED  BY <2>1, <2>4, SetTwice, Zenon
<1>14. CASE t.mode = 3
  <2> DEFINE o1 == (a1 >= init \div 2)
             o2 == (a2 >= init \div 2)
  <2>1. u = [t EXCEPT !.val = a1, !.output = o1] /\ x = [t EXCEPT !.val = a2, !.output = o2]
    BY <1>6, <1>7, <1>14
  <2>2. u.val = a1  BY <1>10, <2>1
  <2>3. b1 = a2  BY <1>4, <2>2
  <2> HIDE DEF b1
  <2>4. w = [u EXCEPT !.val = a2, !.output = o2]  BY <1>8, <1>14, <2>3
  <2> HIDE DEF o1, o2
  <2> QED  BY <2>1, <2>4, SetTwice, Zenon
<1>15. CASE t.mode \in {4, 5}
  <2> DEFINE o1 == (d1 = 0 /\ v # d1)
             o2 == (d2 = 0 /\ v # d2)
             o3 == (e1 = 0 /\ u.val # e1)
  <2>1. /\ u = [t EXCEPT !.val = d1, !.output = o1] /\ x = [t EXCEPT !.val = d2, !.output = o2]
        /\ w = [u EXCEPT !.val = e1, !.output = o3]
    BY <1>6, <1>7, <1>8, <1>15
  <2>2. u.val = d1  BY <1>10, <2>1
  <2>3. e1 = d2  BY <1>3, <2>2
  <2>4. o3 = o2  BY <1>9, <2>2, <2>3
  <2> HIDE DEF o1, o2, o3, e1
  <2>5. w = [u EXCEPT !.val = d2, !.output = o2]  BY <2>1, <2>3, <2>4
  <2> QED  BY <2>1, <2>5, SetTwice, Zenon
<1> QED  BY <1>1, <1>11, <1>12, <1>13, <1>14, <1>15

\* A new count is loaded before the first tick.
LEMMA Reloaded ==
    ASSUME NEW t \in Timers
    PROVE  LET r == Pit!Reload(t)
           IN  /\ r \in Timers /\ r.null_count = FALSE /\ r.state = t.state /\ r.latched_value = t.latched_value
               /\ r.latched_status = t.latched_status
BY DEF Pit!Reload, Timers

\* Catching up, by any number of ticks.
LEMMA CaughtUp ==
    ASSUME LessThanATurn, NEW t \in Timers, NEW n \in Nat
    PROVE  LET u == Pit!UpToDate(t, n)
           IN  /\ u \in Timers /\ u.state = t.state /\ u.latched_value = t.latched_value
               /\ u.latched_status = t.latched_status
<1> DEFINE r == Pit!Reload(t)
<1>1. /\ r \in Timers /\ r.null_count = FALSE /\ r.state = t.state /\ r.latched_value = t.latched_value
      /\ r.latched_status = t.latched_status
  BY Reloaded
<1>2. Pit!UpToDate(t, n) = t \/ Pit!UpToDate(t, n) = Pit!AfterTick(r, n)
  BY DEF Pit!UpToDate, Pit!Tick
<1> HIDE DEF r
<1> QED  BY <1>1, <1>2, TickTypes

\* One more tick of the clock.
LEMMA OneMoreTick ==
    ASSUME LessThanATurn, NEW t \in Timers, NEW n \in Nat, n + 1 < Word
    PROVE  Pit!Tick(Pit!UpToDate(t, n), 1) = Pit!UpToDate(t, n + 1)
<1> DEFINE r == Pit!Reload(t)
           u == Pit!AfterTick(r, n)
<1>1. r \in Timers /\ r.null_count = FALSE  BY Reloaded
<1>2. Pit!UpToDate(t, n + 1) = Pit!AfterTick(r, n + 1)  BY DEF Pit!UpToDate, Pit!Tick
<1>3. CASE n = 0
  BY <1>2, <1>3 DEF Pit!UpToDate, Pit!Tick
<1>4. CASE n # 0
  <2>1. Pit!UpToDate(t, n) = u  BY <1>4 DEF Pit!UpToDate, Pit!Tick
  <2> HIDE DEF r
  <2>2. u \in Timers /\ u.null_count = FALSE  BY <1>1, TickTypes
  <2>3. Pit!AfterTick(u, 1) = Pit!AfterTick(r, n + 1)  BY <1>1, <1>4, TickTwice
  <2> HIDE DEF u
  <2>4. Pit!Tick(u, 1) = Pit!AfterTick(u, 1)  BY <2>2 DEF Pit!Tick, Pit!Reload
  <2> QED  BY <1>2, <2>1, <2>3, <2>4
<1> QED  BY <1>3, <1>4

\* The guest's bytes.
LEMMA ByteSet ==
    ASSUME LessThanATurn, NEW v \in PitCounts, NEW x \in 0 .. Byte - 1, NEW b \in Pit!Turns
    PROVE  Pit!SetByte(b, v, x) \in PitCounts
<1>1. Byte \in Nat /\ Byte >= 2 /\ Word = Byte * Byte /\ v \in Nat /\ v < Byte * Byte /\ x \in Nat /\ x < Byte
  BY ByteAndWord DEF PitCounts
<1> DEFINE h == v \div Byte
           l == v % Byte
<1>2. h \in Int /\ l \in 0 .. Byte - 1 /\ v = Byte * h + l  BY <1>1
<1>3. h \in Nat  BY <1>1
<1> HIDE DEF h, l
<1>4. Byte * h < Byte * Byte  BY <1>1, <1>2, <1>3
<1>5. h < Byte  BY <1>1, <1>3, <1>4
<1>6. \A y \in Nat : y < Byte => y * Byte \in Nat /\ y * Byte <= Byte * Byte - Byte
  <2> TAKE y \in Nat
  <2> HAVE y < Byte
  <2>1. y <= Byte - 1  BY <1>1
  <2>2. y * Byte <= (Byte - 1) * Byte  BY <1>1, <2>1
  <2>3. (Byte - 1) * Byte = Byte * Byte - Byte /\ y * Byte \in Nat  BY <1>1
  <2> QED  BY <2>2, <2>3
<1>7. h * Byte + x \in 0 .. Byte * Byte - 1 /\ l + x * Byte \in 0 .. Byte * Byte - 1
  <2>1. h * Byte \in Nat /\ h * Byte <= Byte * Byte - Byte  BY <1>3, <1>5, <1>6
  <2>2. x * Byte \in Nat /\ x * Byte <= Byte * Byte - Byte  BY <1>1, <1>6
  <2>3. Byte * Byte \in Nat  BY <1>1
  <2> QED  BY <1>1, <1>2, <2>1, <2>2, <2>3
<1>8. Pit!SetByte(b, v, x) = h * Byte + x \/ Pit!SetByte(b, v, x) = l + x * Byte  BY DEF Pit!SetByte, h, l
<1> QED  BY <1>1, <1>7, <1>8 DEF PitCounts

\* The operations keep a counter a counter.
LEMMA OperationTypes ==
    ASSUME LessThanATurn, NEW t \in Timers
    PROVE  /\ Pit!AfterRead(t) \in Timers /\ Pit!LatchCount(t) \in Timers /\ Pit!LatchStatus(t) \in Timers
           /\ \A x \in 0 .. Byte - 1 : Pit!AfterWrite(t, x) \in Timers
           /\ \A m \in Pit!TimerModes, s \in Pit!ControlStates : Pit!AfterControl(t, m, s) \in Timers
<1>1. /\ t.init \in PitCounts /\ t.val \in PitCounts /\ t.state \in Pit!AccessStates /\ t.mode \in Pit!TimerModes
      /\ t.latched_value \in {Pit!None} \cup PitCounts /\ t.output \in BOOLEAN /\ t.null_count \in BOOLEAN
  BY DEF Timers
<1>2. 0 \in PitCounts  BY ByteAndWord DEF PitCounts
<1>3. /\ t.state.both \in BOOLEAN /\ t.state.read \in Pit!Turns /\ t.state.write \in Pit!Turns
      /\ \A b \in Pit!Turns : [t.state EXCEPT !.read = b] \in Pit!AccessStates
                              /\ [t.state EXCEPT !.write = b] \in Pit!AccessStates
      /\ \A b \in Pit!Turns : Pit!Flip(b) \in Pit!Turns
  BY <1>1 DEF Pit!AccessStates, Pit!Turns, Pit!Flip
<1>4. Pit!AfterRead(t) \in Timers
  <2> DEFINE b == IF t.state.both THEN Pit!Flip(t.state.read) ELSE t.state.read
             s == [t.state EXCEPT !.read = b]
             l == IF t.state.both /\ t.state.read = "lsb" THEN t.latched_value ELSE Pit!None
  <2>1. b \in Pit!Turns  BY <1>3
  <2>2. s \in Pit!AccessStates /\ l \in {Pit!None} \cup PitCounts
    <3> HIDE DEF b
    <3> QED  BY <1>1, <1>3, <2>1
  <2>3. Pit!AfterRead(t) = [t EXCEPT !.latched_status = << >>]
        \/ Pit!AfterRead(t) = [t EXCEPT !.state = s, !.latched_value = l]
    BY <1>1 DEF Pit!AfterRead, Pit!AccessStates, Timers
  <2> HIDE DEF s, l
  <2> QED  BY <2>2, <2>3 DEF Timers
<1>5. Pit!LatchCount(t) \in Timers
  BY <1>1 DEF Pit!LatchCount, Timers
<1>6. Pit!LatchStatus(t) \in Timers
  <2> DEFINE x == <<t.output, t.null_count, IF t.state.both THEN "both" ELSE t.state.read, t.mode>>
             X == {<< >>} \cup (BOOLEAN \X BOOLEAN \X {"both", "lsb", "msb"} \X Pit!TimerModes)
  <2>1. x \in X  BY <1>1, <1>3 DEF Pit!Turns
  <2>2. Pit!LatchStatus(t) = [t EXCEPT !.latched_status = x]  BY DEF Pit!LatchStatus
  <2>3. Timers = [init : PitCounts, val : PitCounts, mode : Pit!TimerModes, state : Pit!AccessStates, output : BOOLEAN,
                  null_count : BOOLEAN, latched_value : {Pit!None} \cup PitCounts, latched_status : X]
    BY DEF Timers
  <2> HIDE DEF x, X
  <2> QED  BY <2>1, <2>2, <2>3
<1>7. ASSUME NEW x \in 0 .. Byte - 1  PROVE Pit!AfterWrite(t, x) \in Timers
  <2> DEFINE i == Pit!SetByte(t.state.write, t.init, x)
             b == IF t.state.both THEN Pit!Flip(t.state.write) ELSE t.state.write
             s == [t.state EXCEPT !.write = b]
             n == t.null_count \/ ~t.state.both \/ t.state.write = "msb"
  <2>1. i \in PitCounts  BY <1>1, <1>3, ByteSet
  <2>2. b \in Pit!Turns /\ n \in BOOLEAN  BY <1>3
  <2>3. s \in Pit!AccessStates
    <3> HIDE DEF b
    <3> QED  BY <1>3, <2>2
  <2>4. Pit!AfterWrite(t, x) = [t EXCEPT !.init = i, !.state = s, !.null_count = n]
    BY <1>1 DEF Pit!AfterWrite, Pit!AccessStates, Timers
  <2> HIDE DEF i, s, n
  <2> QED  BY <2>1, <2>2, <2>3, <2>4 DEF Timers
<1>8. ASSUME NEW m \in Pit!TimerModes, NEW s \in Pit!ControlStates  PROVE Pit!AfterControl(t, m, s) \in Timers
  <2> DEFINE o == t.mode # 0
  <2>1. s \in Pit!AccessStates /\ o \in BOOLEAN  BY DEF Pit!ControlStates
  <2>2. Pit!AfterControl(t, m, s) =
          [t EXCEPT !.init = 0, !.mode = m, !.state = s, !.output = o,
                    !.null_count = TRUE, !.latched_value = Pit!None, !.latched_status = << >>]
    BY DEF Pit!AfterControl
  <2> HIDE DEF o
  <2> QED  BY <1>2, <2>1, <2>2 DEF Timers
<1> QED  BY <1>4, <1>5, <1>6, <1>7, <1>8

\* An access with the same effect on both counters.
LEMMA AccessKeeps ==
    ASSUME LessThanATurn, PitInv, NEW u \in Timers, timer' = u, eager' = u, gap' = 0
    PROVE  timer' \in Timers /\ eager' \in Timers /\ gap' \in 0 .. MaxGap /\ Pit!LazyExact'
BY ByteAndWord DEF Pit!LazyExact, Pit!UpToDate

\* The invariant holds at first.
LEMMA PitStarts == LessThanATurn /\ Pit!Init => PitInv
<1> SUFFICES ASSUME LessThanATurn, Pit!Init PROVE PitInv  OBVIOUS
<1>1. 0 \in PitCounts /\ 0 \in 0 .. MaxGap  BY ByteAndWord DEF PitCounts
<1>2. Pit!NewTimer \in Timers
  BY <1>1 DEF Pit!NewTimer, Timers, Pit!TimerModes, Pit!AccessStates, Pit!Turns
<1>3. timer = Pit!NewTimer /\ eager = Pit!NewTimer /\ gap = 0 /\ got = [want |-> Pit!None, low |-> Pit!None]
  BY DEF Pit!Init, Pit!NoGot
<1>4. Pit!LazyExact  BY <1>3 DEF Pit!LazyExact, Pit!UpToDate
<1> QED  BY <1>1, <1>2, <1>3, <1>4 DEF PitInv, PitTypes, Pit!LatchAtomic, Pit!None

\* A latch, of the count as it is now.
LEMMA LatchKept ==
    ASSUME LessThanATurn, PitInv, timer'.latched_value = Pit!LatchCount(eager).latched_value, Pit!Remember
    PROVE  got' \in [want : {Pit!None} \cup PitCounts, low : Int] /\ Pit!LatchAtomic'
<1>1. /\ eager \in Timers /\ eager.latched_value = timer.latched_value /\ timer \in Timers
      /\ got \in [want : {Pit!None} \cup PitCounts, low : Int]
  <2>1. PitTypes /\ eager = Pit!UpToDate(timer, gap)  BY DEF PitInv, Pit!LazyExact
  <2>2. gap \in Nat  BY <2>1, ByteAndWord DEF PitTypes
  <2> QED  BY <2>1, <2>2, CaughtUp DEF PitTypes
<1>2. timer'.latched_value = IF timer.latched_value = Pit!None THEN eager.val ELSE timer.latched_value
  BY <1>1 DEF Pit!LatchCount, Timers
<1>3. eager.val \in PitCounts  BY <1>1 DEF Timers
<1>4. Pit!None \notin PitCounts  BY ByteAndWord DEF PitCounts, Pit!None
<1>5. CASE timer.latched_value = Pit!None /\ timer.state.both /\ timer.state.read = "lsb"
  <2>1. got' = [want |-> eager.val, low |-> Pit!None]  BY <1>5 DEF Pit!Remember
  <2>2. Pit!None \in Int  BY DEF Pit!None
  <2> QED  BY <1>2, <1>3, <1>5, <2>1, <2>2 DEF Pit!LatchAtomic
<1>6. CASE ~(timer.latched_value = Pit!None /\ timer.state.both /\ timer.state.read = "lsb")
  <2>1. got' = got  BY <1>6 DEF Pit!Remember
  <2> QED  BY <1>1, <1>2, <2>1 DEF PitInv, Pit!LatchAtomic
<1> QED  BY <1>5, <1>6

\* Every step keeps the invariant.
LEMMA PitStep ==
    ASSUME LessThanATurn, PitInv, [Pit!Next]_(Pit!vars)
    PROVE  PitInv'
<1> DEFINE G == [want : {Pit!None} \cup PitCounts, low : Int]
<1>1. /\ timer \in Timers /\ eager \in Timers /\ gap \in Nat /\ got \in G
      /\ Pit!UpToDate(timer, gap) = eager
      /\ eager.state = timer.state /\ eager.latched_value = timer.latched_value
      /\ eager.latched_status = timer.latched_status
  <2>1. PitTypes /\ eager = Pit!UpToDate(timer, gap)  BY DEF PitInv, Pit!LazyExact
  <2>2. gap \in Nat  BY <2>1, ByteAndWord DEF PitTypes
  <2> QED  BY <2>1, <2>2, CaughtUp DEF PitTypes
<1>2. Pit!LatchAtomic  BY DEF PitInv
<1>3. CASE Pit!ClockTick
  <2>1. gap < MaxGap /\ gap' = gap + 1 /\ eager' = Pit!Tick(eager, 1) /\ timer' = timer /\ got' = got
    BY <1>3 DEF Pit!ClockTick
  <2>2. gap' \in 0 .. MaxGap /\ gap + 1 < Word  BY <1>1, <2>1, ByteAndWord
  <2>3. eager' = Pit!UpToDate(timer, gap + 1)  BY <1>1, <2>1, <2>2, OneMoreTick
  <2>4. eager' \in Timers  BY <1>1, <2>3, CaughtUp
  <2>5. Pit!LazyExact'  BY <2>1, <2>3 DEF Pit!LazyExact
  <2>6. Pit!LatchAtomic'  BY <1>2, <2>1 DEF Pit!LatchAtomic
  <2> QED  BY <1>1, <2>1, <2>2, <2>4, <2>5, <2>6 DEF PitInv, PitTypes
<1>4. CASE Pit!Read
  <2> DEFINE u == Pit!AfterRead(eager)
  <2>1. timer' = u /\ eager' = u /\ gap' = 0 /\ got' = Pit!Observe(eager)
    BY <1>1, <1>4 DEF Pit!Read, Pit!Access
  <2>2. u \in Timers  BY <1>1, OperationTypes
  <2> HIDE DEF u
  <2>3. timer' \in Timers /\ eager' \in Timers /\ gap' \in 0 .. MaxGap /\ Pit!LazyExact'
    BY <2>1, <2>2, AccessKeeps
  <2>4. got' \in G /\ Pit!LatchAtomic'
    <3>1. CASE eager.latched_status # << >>
      <4>1. got' = got  BY <2>1, <3>1 DEF Pit!Observe
      <4>2. u.latched_value = eager.latched_value  BY <1>1, <3>1 DEF Pit!AfterRead, Timers, u
      <4> QED  BY <1>1, <1>2, <2>1, <4>1, <4>2 DEF Pit!LatchAtomic
    <3>2. CASE eager.latched_status = << >> /\ eager.state.both /\ eager.state.read = "lsb" /\ got.want # Pit!None
      <4>1. got' = [got EXCEPT !.low = Pit!ReadResult(eager)]  BY <2>1, <3>2 DEF Pit!Observe
      <4>2. eager.latched_value = got.want  BY <1>1, <1>2, <3>2 DEF Pit!LatchAtomic
      <4>3. Pit!ReadResult(eager) = got.want % Byte
        BY <3>2, <4>2 DEF Pit!ReadResult, Pit!Extract, Pit!Output
      <4>4. got.want \in PitCounts  BY <1>1, <3>2
      <4>5. got.want % Byte \in Int  BY <4>4, ByteAndWord DEF PitCounts
      <4>6. u.latched_value = eager.latched_value
        BY <1>1, <3>2 DEF Pit!AfterRead, Timers, u
      <4> DEFINE x == got.want % Byte
      <4>7. got' = [got EXCEPT !.low = x]  BY <4>1, <4>3
      <4> HIDE DEF x
      <4>8. got' \in G /\ got'.want = got.want /\ got'.low = x  BY <1>1, <4>5, <4>7 DEF x
      <4> QED  BY <2>1, <4>2, <4>6, <4>8 DEF Pit!LatchAtomic, x
    <3>3. CASE ~(eager.latched_status # << >>)
               /\ ~(eager.latched_status = << >> /\ eager.state.both /\ eager.state.read = "lsb" /\ got.want # Pit!None)
      <4>1. got' = [want |-> Pit!None, low |-> Pit!None]  BY <2>1, <3>3 DEF Pit!Observe, Pit!NoGot
      <4>2. Pit!None \in Int  BY DEF Pit!None
      <4> QED  BY <4>1, <4>2 DEF Pit!LatchAtomic
    <3> QED  BY <3>1, <3>2, <3>3
  <2> QED  BY <2>3, <2>4 DEF PitInv, PitTypes
<1>5. ASSUME NEW x \in 0 .. Byte - 1, timer' = Pit!AfterWrite(Pit!UpToDate(timer, gap), x), gap' = 0,
             eager' = Pit!AfterWrite(eager, x), got' = got
      PROVE  PitInv'
  <2> DEFINE u == Pit!AfterWrite(eager, x)
  <2>1. timer' = u /\ eager' = u /\ u \in Timers  BY <1>1, <1>5, OperationTypes
  <2>2. u.latched_value = eager.latched_value  BY <1>1 DEF Pit!AfterWrite, Timers
  <2> HIDE DEF u
  <2>3. timer' \in Timers /\ eager' \in Timers /\ gap' \in 0 .. MaxGap /\ Pit!LazyExact'
    BY <1>5, <2>1, AccessKeeps
  <2>4. Pit!LatchAtomic'  BY <1>1, <1>2, <1>5, <2>1, <2>2 DEF Pit!LatchAtomic
  <2> QED  BY <1>1, <1>5, <2>3, <2>4 DEF PitInv, PitTypes
<1>6. ASSUME NEW m \in Pit!TimerModes, NEW s \in Pit!ControlStates,
             timer' = Pit!AfterControl(Pit!UpToDate(timer, gap), m, s), gap' = 0,
             eager' = Pit!AfterControl(eager, m, s), got' = Pit!NoGot
      PROVE  PitInv'
  <2> DEFINE u == Pit!AfterControl(eager, m, s)
  <2>1. timer' = u /\ eager' = u /\ u \in Timers  BY <1>1, <1>6, OperationTypes
  <2> HIDE DEF u
  <2>2. timer' \in Timers /\ eager' \in Timers /\ gap' \in 0 .. MaxGap /\ Pit!LazyExact'
    BY <1>6, <2>1, AccessKeeps
  <2>3. got' = [want |-> Pit!None, low |-> Pit!None] /\ Pit!None \in Int  BY <1>6 DEF Pit!NoGot, Pit!None
  <2>4. Pit!LatchAtomic' /\ got' \in G  BY <2>3 DEF Pit!LatchAtomic
  <2> QED  BY <2>2, <2>4 DEF PitInv, PitTypes
<1>7. CASE Pit!Latch
  <2> DEFINE u == Pit!LatchCount(eager)
  <2>1. timer' = u /\ eager' = u /\ gap' = 0 /\ Pit!Remember /\ u \in Timers
    BY <1>1, <1>7, OperationTypes DEF Pit!Latch, Pit!Access
  <2>2. got' \in G /\ Pit!LatchAtomic'  BY <2>1, LatchKept
  <2> HIDE DEF u
  <2>3. timer' \in Timers /\ eager' \in Timers /\ gap' \in 0 .. MaxGap /\ Pit!LazyExact'
    BY <2>1, AccessKeeps
  <2> QED  BY <2>2, <2>3 DEF PitInv, PitTypes
<1>8. ASSUME NEW count \in BOOLEAN, NEW status \in BOOLEAN, Pit!ReadBack(count, status)  PROVE PitInv'
  <2> DEFINE l == IF count THEN Pit!LatchCount(eager) ELSE eager
             u == IF status THEN Pit!LatchStatus(l) ELSE l
  <2>1. timer' = u /\ eager' = u /\ gap' = 0
    BY <1>1, <1>8 DEF Pit!ReadBack, Pit!Access
  <2>2. l \in Timers  BY <1>1, OperationTypes
  <2>3. Pit!LatchStatus(l) \in Timers /\ Pit!LatchStatus(l).latched_value = l.latched_value
    <3> HIDE DEF l
    <3> QED  BY <2>2, OperationTypes DEF Pit!LatchStatus, Timers
  <2>4. u \in Timers /\ u.latched_value = l.latched_value  BY <2>2, <2>3
  <2> HIDE DEF u
  <2>5. timer' \in Timers /\ eager' \in Timers /\ gap' \in 0 .. MaxGap /\ Pit!LazyExact'
    BY <2>1, <2>4, AccessKeeps
  <2>6. got' \in G /\ Pit!LatchAtomic'
    <3>1. CASE count
      <4>1. Pit!Remember /\ l = Pit!LatchCount(eager)  BY <1>8, <3>1 DEF Pit!ReadBack
      <4> HIDE DEF l
      <4> QED  BY <2>1, <2>4, <4>1, LatchKept
    <3>2. CASE ~count
      <4>1. got' = got /\ l = eager  BY <1>8, <3>2 DEF Pit!ReadBack
      <4> HIDE DEF l
      <4> QED  BY <1>1, <1>2, <2>1, <2>4, <4>1 DEF Pit!LatchAtomic
    <3> QED  BY <3>1, <3>2
  <2> QED  BY <2>5, <2>6 DEF PitInv, PitTypes
<1>9. CASE UNCHANGED Pit!vars
  BY <1>9 DEF Pit!vars, PitInv, PitTypes, Pit!LazyExact, Pit!LatchAtomic
<1> QED
  <2>1. CASE Pit!Write
    BY <1>5, <2>1 DEF Pit!Write, Pit!Access
  <2>2. CASE Pit!Control
    BY <1>6, <2>2 DEF Pit!Control, Pit!Access
  <2> QED  BY <1>3, <1>4, <1>7, <1>8, <1>9, <2>1, <2>2 DEF Pit!Next

\* Catching up with the clock at an access leaves the counter where single ticks would have,
\* and a latched count is read as one value (Timer::tick_to and latch_count in hw/pit.rs).
THEOREM CounterIsExact == LessThanATurn /\ DevicesSpec => []CounterExact
<1> SUFFICES ASSUME LessThanATurn PROVE DevicesSpec => []CounterExact  OBVIOUS
<1>1. PitInv => CounterExact  BY DEF PitInv, CounterExact
<1>2. PitInv /\ [Pit!Next]_(Pit!vars) => PitInv'  BY PitStep
<1>3. Pit!Init => PitInv  BY PitStarts
<1> QED  BY <1>1, <1>2, <1>3, CounterRuns, PTL DEF Pit!Spec

-----------------------------------------------------------------------------
(* The thread of the user-space NAT.                                       *)

TcpEntries ==
    [kind : {"tcp"}, conn : Conns, ready : BOOLEAN, state : {"connecting", "connected", "closed", "failed"}, in : 0 .. Cap,
     out : 0 .. Cap, rx : 0 .. Cap, tx : 0 .. Cap, bound : Conns \cup {Un!NoConn}, edge : SUBSET {"r", "w"}]
UdpEntries ==
    [kind : {"udp"}, remote : UdpRemotes, locals : SUBSET Locals, rx : SUBSET Locals, err : BOOLEAN,
     edge : SUBSET Locals]
Entries == {Un!Vacant} \cup TcpEntries \cup UdpEntries
Events  == [key : Keys, fd : Locals \cup {"tcp"}, set : SUBSET {"r", "w"}]
Threads ==
    [pc : {"wait", "events", "packets", "iface", "panicked"}, events : SUBSET Events, chan : Seq(Un!GuestPackets),
     incoming : Seq(Un!GuestPackets), changed : BOOLEAN]

NetTypes ==
    /\ slab \in [Keys -> Entries] /\ nat \in Threads
    /\ tcpMap \in [Conns -> Keys \cup {Un!NoKey}] /\ udpMap \in [UdpRemotes -> Keys \cup {Un!NoKey}]

\* The tables, as in TablesAgree.
Tables ==
    /\ \A c \in Conns : tcpMap[c] # Un!NoKey => Un!Tcp(tcpMap[c]) /\ slab[tcpMap[c]].conn = c
    /\ \A r \in UdpRemotes : udpMap[r] # Un!NoKey => Un!Udp(udpMap[r]) /\ slab[udpMap[r]].remote = r
    /\ \A k \in Keys : /\ Un!Tcp(k) => tcpMap[slab[k].conn] = k
                       /\ Un!Udp(k) => udpMap[slab[k].remote] = k /\ slab[k].rx \subseteq slab[k].locals

\* An event is for the socket it was reported for: a TCP socket has one event and its entry
\* goes with that event; a removed entry leaves events of UDP sockets.
EventsOK ==
    /\ nat.pc \notin {"events", "panicked"} => nat.events = {}
    /\ \A ev \in nat.events : ev.fd = "tcp" <=> Un!Tcp(ev.key)
    /\ \A e1, e2 \in nat.events : e1.fd = "tcp" /\ e2.fd = "tcp" /\ e1.key = e2.key => e1 = e2

\* Bytes that can move have an event on the way ("w" or "r"), or the thread is about to
\* update all sockets, or it is gone.  An event on the way is an edge or an event not handled yet.
Due(k, x) == x \in slab[k].edge \/ \E ev \in nat.events : ev.key = k /\ ev.fd = "tcp" /\ x \in ev.set
Late == (nat.pc = "iface" /\ nat.changed) \/ nat.pc = "panicked"
Flows(e, w, r, late) ==
    /\ e.state = "connecting" => ~e.ready /\ e.in = 0
    /\ Un!Open(e) /\ e.ready /\ e.rx > 0 /\ e.out < Cap => w \/ late
    /\ Un!Open(e) /\ e.ready /\ e.in > 0 /\ e.bound # Un!NoConn /\ e.tx < Cap => r \/ late
    /\ Un!Open(e) /\ ~e.ready /\ e.in > 0 => r
Flow(k) == Un!Tcp(k) => Flows(slab[k], Due(k, "w"), Due(k, "r"), Late)

\* A datagram on its way to the stack has a host socket for its endpoint.
Served ==
    /\ nat.pc \notin {"packets", "iface"} => nat.incoming = <<>>
    /\ \A i \in 1 .. Len(nat.incoming) : nat.incoming[i].kind = "udp" =>
         LET p == nat.incoming[i] IN udpMap[p.remote] # Un!NoKey /\ p.from \in slab[udpMap[p.remote]].locals

\* What the thread can have panicked over.
Panicked ==
    nat.pc = "panicked" => \/ \E ev \in nat.events : slab[ev.key] = Un!Vacant /\ ev.fd # "tcp"
                           \/ Un!ErrorPending

NetInv == NetTypes /\ Tables /\ EventsOK /\ Served /\ \A k \in Keys : Flow(k)

-----------------------------------------------------------------------------
\* An entry is vacant, of a TCP socket or of UDP sockets.
LEMMA EntryKinds ==
    ASSUME NEW e \in Entries
    PROVE  /\ e.kind = "tcp" <=> e \in TcpEntries
           /\ e.kind = "udp" <=> e \in UdpEntries
           /\ e.kind = "vacant" <=> e = Un!Vacant
           /\ e.kind \in {"tcp", "udp", "vacant"}
BY DEF Entries, TcpEntries, UdpEntries, Un!Vacant

\* What moves.
LEMMA WritesPerformed ==
    ASSUME Un!NatAssumption, NEW e \in TcpEntries
    PROVE  LET u == Un!PerformWrites(e)
           IN  /\ u \in TcpEntries /\ u = [e EXCEPT !.rx = u.rx, !.out = u.out]
               /\ Un!Open(e) /\ e.ready => ~(u.rx > 0 /\ u.out < Cap)
               /\ ~(Un!Open(e) /\ e.ready) => u = e
<1> DEFINE n == Un!Min({e.rx, Cap - e.out})
           x == e.rx - n
           y == e.out + n
<1>1. /\ e.rx \in Nat /\ e.out \in Nat /\ e.rx <= Cap /\ e.out <= Cap /\ Cap \in Nat
      /\ e.state \in {"connecting", "connected", "closed", "failed"} /\ e.ready \in BOOLEAN
  BY DEF TcpEntries, Un!NatAssumption
<1>2. n = Min({e.rx, Cap - e.out})  BY DEF Un!Min, Min
<1> HIDE DEF n
<1>3. (n = e.rx \/ n = Cap - e.out) /\ n <= e.rx /\ n <= Cap - e.out
  <2> DEFINE a == e.rx
             b == Cap - e.out
  <2>1. a \in Nat /\ b \in Nat  BY <1>1
  <2>2. n = Min({a, b})  BY <1>2
  <2> HIDE DEF a, b
  <2>3. (n = a \/ n = b) /\ n <= a /\ n <= b  BY <2>1, <2>2, MinOfTwo
  <2> QED  BY <2>3 DEF a, b
<1>4. x \in 0 .. Cap /\ y \in 0 .. Cap /\ ~(x > 0 /\ y < Cap)  BY <1>1, <1>3
<1>5. Un!CanWrite(e) <=> e.ready /\ e.rx > 0  BY DEF Un!CanWrite
<1>6. Un!PerformWrites(e) = IF Un!CanWrite(e) /\ Un!Open(e) THEN [e EXCEPT !.rx = x, !.out = y] ELSE e
  BY DEF Un!PerformWrites, n
<1> HIDE DEF x, y
<1>7. e = [e EXCEPT !.rx = e.rx, !.out = e.out]  BY DEF TcpEntries
<1>8. CASE Un!CanWrite(e) /\ Un!Open(e)
  <2>1. Un!PerformWrites(e) = [e EXCEPT !.rx = x, !.out = y]  BY <1>6, <1>8
  <2>2. [e EXCEPT !.rx = x, !.out = y] \in TcpEntries  BY <1>4 DEF TcpEntries
  <2>3. [e EXCEPT !.rx = x, !.out = y].rx = x /\ [e EXCEPT !.rx = x, !.out = y].out = y  BY DEF TcpEntries
  <2> QED  BY <1>4, <1>5, <1>8, <2>1, <2>2, <2>3
<1>9. CASE ~(Un!CanWrite(e) /\ Un!Open(e))
  <2>1. Un!PerformWrites(e) = e  BY <1>6, <1>9
  <2> QED  BY <1>5, <1>7, <1>9, <2>1
<1> QED  BY <1>8, <1>9

\* The same towards the guest.
LEMMA ReadsPerformed ==
    ASSUME Un!NatAssumption, NEW e \in TcpEntries
    PROVE  LET u == Un!PerformReads(e)
           IN  /\ u \in TcpEntries /\ u = [e EXCEPT !.in = u.in, !.tx = u.tx]
               /\ Un!Open(e) /\ e.ready => ~(u.in > 0 /\ u.bound # Un!NoConn /\ u.tx < Cap)
               /\ ~(Un!Open(e) /\ e.ready) => u = e
<1> DEFINE n == Un!Min({e.in, Cap - e.tx})
           x == e.in - n
           y == e.tx + n
<1>1. /\ e.in \in Nat /\ e.tx \in Nat /\ e.in <= Cap /\ e.tx <= Cap /\ Cap \in Nat
      /\ e.state \in {"connecting", "connected", "closed", "failed"} /\ e.ready \in BOOLEAN
  BY DEF TcpEntries, Un!NatAssumption
<1>2. n = Min({e.in, Cap - e.tx})  BY DEF Un!Min, Min
<1> HIDE DEF n
<1>3. (n = e.in \/ n = Cap - e.tx) /\ n <= e.in /\ n <= Cap - e.tx
  <2> DEFINE a == e.in
             b == Cap - e.tx
  <2>1. a \in Nat /\ b \in Nat  BY <1>1
  <2>2. n = Min({a, b})  BY <1>2
  <2> HIDE DEF a, b
  <2>3. (n = a \/ n = b) /\ n <= a /\ n <= b  BY <2>1, <2>2, MinOfTwo
  <2> QED  BY <2>3 DEF a, b
<1>4. x \in 0 .. Cap /\ y \in 0 .. Cap /\ ~(x > 0 /\ y < Cap)  BY <1>1, <1>3
<1>5. Un!CanRead(e) <=> e.ready /\ e.bound # Un!NoConn /\ e.tx < Cap  BY DEF Un!CanRead
<1>6. Un!PerformReads(e) = IF Un!CanRead(e) /\ Un!Open(e) THEN [e EXCEPT !.in = x, !.tx = y] ELSE e
  BY DEF Un!PerformReads, n
<1> HIDE DEF x, y
<1>7. e = [e EXCEPT !.in = e.in, !.tx = e.tx]  BY DEF TcpEntries
<1>8. CASE Un!CanRead(e) /\ Un!Open(e)
  <2>1. Un!PerformReads(e) = [e EXCEPT !.in = x, !.tx = y]  BY <1>6, <1>8
  <2>2. [e EXCEPT !.in = x, !.tx = y] \in TcpEntries  BY <1>4 DEF TcpEntries
  <2>3. [e EXCEPT !.in = x, !.tx = y].in = x /\ [e EXCEPT !.in = x, !.tx = y].tx = y  BY DEF TcpEntries
  <2> QED  BY <1>4, <1>5, <1>8, <2>1, <2>2, <2>3
<1>9. CASE ~(Un!CanRead(e) /\ Un!Open(e))
  <2>1. Un!PerformReads(e) = e  BY <1>6, <1>9
  <2> QED  BY <1>5, <1>7, <1>9, <2>1
<1> QED  BY <1>8, <1>9

\* The tables still agree when no entry changes its kind and its endpoint.
LEMMA TablesKept ==
    ASSUME NetInv, UNCHANGED <<tcpMap, udpMap>>, slab' \in [Keys -> Entries],
           \A k \in Keys : /\ Un!Tcp(k)' <=> Un!Tcp(k)
                           /\ Un!Tcp(k) => slab'[k].conn = slab[k].conn
                           /\ Un!Udp(k)' <=> Un!Udp(k)
                           /\ Un!Udp(k) => slab'[k].remote = slab[k].remote /\ slab'[k].rx \subseteq slab'[k].locals
    PROVE  Tables'
<1>1. \A c \in Conns : tcpMap[c] \in Keys \cup {Un!NoKey}  BY DEF NetInv, NetTypes
<1>2. \A r \in UdpRemotes : udpMap[r] \in Keys \cup {Un!NoKey}  BY DEF NetInv, NetTypes
<1>3. ASSUME NEW c \in Conns, tcpMap'[c] # Un!NoKey  PROVE Un!Tcp(tcpMap[c])' /\ slab'[tcpMap'[c]].conn = c
  BY <1>1, <1>3 DEF NetInv, Tables, Un!Tcp
<1>4. ASSUME NEW r \in UdpRemotes, udpMap'[r] # Un!NoKey  PROVE Un!Udp(udpMap[r])' /\ slab'[udpMap'[r]].remote = r
  BY <1>2, <1>4 DEF NetInv, Tables, Un!Udp
<1> QED  BY <1>3, <1>4 DEF NetInv, Tables

\* What an entry and a thread are made of.
LEMMA EntryTyped ==
    ASSUME NetTypes, NEW k \in Keys
    PROVE  /\ slab[k] \in Entries
           /\ Un!Tcp(k) => slab[k] \in TcpEntries
           /\ Un!Udp(k) => slab[k] \in UdpEntries
           /\ ~Un!Tcp(k) /\ ~Un!Udp(k) => slab[k] = Un!Vacant
           /\ slab[k] = Un!Vacant => ~Un!Tcp(k) /\ ~Un!Udp(k)
<1>1. slab[k] \in Entries  BY DEF NetTypes
<1> QED  BY <1>1, EntryKinds DEF Un!Tcp, Un!Udp, Un!Vacant

\* The bytes of an entry that a step leaves alone still have their events.
LEMMA FlowKept ==
    ASSUME NetInv, NEW j \in Keys, slab'[j] = slab[j], nat'.events = nat.events, Late => Late'
    PROVE  Flow(j)'
<1>1. Flow(j)  BY DEF NetInv
<1>2. Un!Tcp(j)' <=> Un!Tcp(j)  BY DEF Un!Tcp
<1>3. (Due(j, "w")' <=> Due(j, "w")) /\ (Due(j, "r")' <=> Due(j, "r"))  BY DEF Due
<1> QED  BY <1>1, <1>2, <1>3 DEF Flow, Flows

\* The datagrams under way keep their host sockets.
LEMMA ServedKept ==
    ASSUME Served, nat'.incoming = nat.incoming, nat'.pc \notin {"packets", "iface"} => nat.incoming = <<>>,
           udpMap' = udpMap, \A k \in Keys : slab[k].kind = "udp" => slab'[k].locals = slab[k].locals,
           Tables, NetTypes, \A i \in 1 .. Len(nat.incoming) : nat.incoming[i] \in Un!GuestPackets
    PROVE  Served'
<1> SUFFICES ASSUME NEW i \in 1 .. Len(nat.incoming), nat.incoming[i].kind = "udp"
             PROVE  /\ udpMap'[nat.incoming[i].remote] # Un!NoKey
                    /\ nat.incoming[i].from \in slab'[udpMap'[nat.incoming[i].remote]].locals
  BY DEF Served
<1> DEFINE p == nat.incoming[i]
           k == udpMap[p.remote]
<1>1. p.remote \in UdpRemotes  BY DEF Un!GuestPackets
<1>2. k # Un!NoKey /\ p.from \in slab[k].locals  BY DEF Served
<1>3. k \in Keys  BY <1>1, <1>2 DEF NetTypes
<1>4. slab[k].kind = "udp"  BY <1>1, <1>2 DEF Tables, Un!Udp
<1> QED  BY <1>2, <1>3, <1>4

\* The invariant holds at first.
LEMMA NetStarts == ASSUME Un!NatAssumption, Un!Init  PROVE NetInv
<1>1. NetTypes
  <2>1. Un!Vacant \in Entries  BY DEF Entries
  <2>2. <<>> \in Seq(Un!GuestPackets)  OBVIOUS
  <2> QED  BY <2>1, <2>2 DEF Un!Init, NetTypes, Threads
<1>2. \A k \in Keys : ~Un!Tcp(k) /\ ~Un!Udp(k)  BY DEF Un!Init, Un!Tcp, Un!Udp, Un!Vacant
<1>3. Tables  BY <1>2 DEF Un!Init, Tables
<1>4. EventsOK  BY DEF Un!Init, EventsOK
<1>5. Served
  <2>1. nat.incoming = <<>> /\ nat.pc = "wait"  BY DEF Un!Init
  <2>2. Len(<<>>) = 0  OBVIOUS
  <2>3. \A i \in 1 .. Len(nat.incoming) : FALSE  BY <2>1, <2>2
  <2> QED  BY <2>1, <2>3 DEF Served
<1> QED  BY <1>1, <1>2, <1>3, <1>4, <1>5 DEF NetInv, Flow

\* A step of the host changes one entry, whose bytes keep their events.
LEMMA HostStep ==
    ASSUME NetInv, NEW k \in Keys, NEW e \in Entries, Un!Host(k, e), slab[k] # Un!Vacant, e.kind = slab[k].kind,
           Un!Tcp(k) => e.conn = slab[k].conn,
           Un!Udp(k) => e.remote = slab[k].remote /\ e.locals = slab[k].locals /\ e.rx = slab[k].rx, Flow(k)'
    PROVE  NetInv'
<1>1. slab' = [slab EXCEPT ![k] = e] /\ UNCHANGED <<tcpMap, udpMap, nat>>  BY DEF Un!Host
<1>2. slab \in [Keys -> Entries] /\ NetTypes  BY DEF NetInv, NetTypes
<1>3. slab' \in [Keys -> Entries] /\ slab'[k] = e /\ \A j \in Keys \ {k} : slab'[j] = slab[j]  BY <1>1, <1>2
<1>4. NetTypes'  BY <1>1, <1>2, <1>3 DEF NetTypes
<1>5. \A j \in Keys : (Un!Tcp(j)' <=> Un!Tcp(j)) /\ (Un!Udp(j)' <=> Un!Udp(j))  BY <1>3 DEF Un!Tcp, Un!Udp
<1>6. Tables'
  <2>1. ASSUME NEW j \in Keys, Un!Tcp(j)  PROVE slab'[j].conn = slab[j].conn  BY <1>3, <2>1
  <2>2. ASSUME NEW j \in Keys, Un!Udp(j)  PROVE slab'[j].remote = slab[j].remote /\ slab'[j].rx \subseteq slab'[j].locals
    <3>1. slab[j].rx \subseteq slab[j].locals  BY <2>2 DEF NetInv, Tables
    <3> QED  BY <1>3, <2>2, <3>1
  <2> QED  BY <1>1, <1>3, <1>5, <2>1, <2>2, TablesKept
<1>7. \A j \in Keys : slab[j] = Un!Vacant => slab'[j] = Un!Vacant  BY <1>3
<1>8. EventsOK'
  <2>1. nat.events \subseteq Events  BY <1>2 DEF NetTypes, Threads
  <2>2. \A ev \in nat.events : ev.key \in Keys  BY <2>1 DEF Events
  <2>3. \A ev \in nat.events : Un!Tcp(ev.key)' <=> Un!Tcp(ev.key)  BY <1>5, <2>2
  <2>4. \A ev \in nat.events : slab[ev.key] = Un!Vacant => slab'[ev.key] = Un!Vacant  BY <1>7, <2>2
  <2> QED  BY <1>1, <2>3, <2>4 DEF NetInv, EventsOK
<1>9. Served'
  <2>1. \A i \in 1 .. Len(nat.incoming) : nat.incoming[i] \in Un!GuestPackets  BY <1>2 DEF NetTypes, Threads
  <2>2. \A j \in Keys : slab[j].kind = "udp" => slab'[j].locals = slab[j].locals  BY <1>3 DEF Un!Udp
  <2>3. Served /\ Tables  BY DEF NetInv
  <2>4. nat'.pc \notin {"packets", "iface"} => nat.incoming = <<>>  BY <1>1, <2>3 DEF Served
  <2> QED  BY <1>1, <1>2, <2>1, <2>2, <2>3, <2>4, ServedKept
<1>10. \A j \in Keys : Flow(j)'
  <2> TAKE j \in Keys
  <2>1. CASE j = k  BY <2>1
  <2>2. CASE j # k
    <3>1. slab'[j] = slab[j] /\ nat'.events = nat.events /\ (Late => Late')  BY <1>1, <1>3, <2>2 DEF Late
    <3> QED  BY <3>1, FlowKept
  <2> QED  BY <2>1, <2>2
<1> QED  BY <1>4, <1>6, <1>8, <1>9, <1>10 DEF NetInv

\* The host's steps.
LEMMA HostKeeps ==
    ASSUME Un!NatAssumption, NetInv, NEW k \in Keys,
           \/ Un!HostConnects(k) \/ Un!HostWakes(k) \/ Un!HostCloses(k) \/ Un!HostFails(k) \/ Un!HostReceives(k) \/ Un!HostSends(k)
           \/ \E l \in Locals, err \in BOOLEAN : Un!HostUdp(k, l, err)
    PROVE  NetInv'
<1> DEFINE s == slab[k]
<1>1. /\ Un!Tcp(k) => s \in TcpEntries
      /\ Un!Udp(k) => s \in UdpEntries
      /\ slab[k] = Un!Vacant => ~Un!Tcp(k) /\ ~Un!Udp(k)
  BY EntryTyped DEF NetInv
<1>2. Un!Tcp(k) => Flows(s, Due(k, "w"), Due(k, "r"), Late)  BY DEF NetInv, Flow
<1>3. slab \in [Keys -> Entries]  BY DEF NetInv, NetTypes
<1>4. ASSUME Un!Tcp(k), NEW e \in TcpEntries, Un!Host(k, e), e.conn = s.conn,
             Flows(e, "w" \in e.edge \/ ("w" \notin s.edge /\ Due(k, "w")), "r" \in e.edge \/ ("r" \notin s.edge /\ Due(k, "r")), Late)
      PROVE  NetInv'
  <2>1. slab'[k] = e /\ nat' = nat  BY <1>3, <1>4 DEF Un!Host
  <2>2. ("w" \in e.edge \/ ("w" \notin s.edge /\ Due(k, "w")) => Due(k, "w")')
        /\ ("r" \in e.edge \/ ("r" \notin s.edge /\ Due(k, "r")) => Due(k, "r")')
    BY <2>1 DEF Due
  <2>3. Late' <=> Late  BY <2>1 DEF Late
  <2>4. Flow(k)'  BY <1>4, <2>1, <2>2, <2>3 DEF Flow, Flows
  <2>5. e \in Entries /\ e.kind = "tcp" /\ s.kind = "tcp"  BY <1>4 DEF Entries, TcpEntries, Un!Tcp
  <2>6. ~Un!Udp(k) /\ slab[k] # Un!Vacant  BY <1>1, <1>4, <2>5 DEF Un!Udp
  <2> QED  BY <1>4, <2>4, <2>5, <2>6, HostStep
<1>5. CASE Un!HostConnects(k)
  <2> DEFINE e == [s EXCEPT !.state = "connected", !.edge = @ \cup {"w"}]
  <2>1. Un!Tcp(k) /\ s.state = "connecting" /\ Un!Host(k, e)  BY <1>5 DEF Un!HostConnects
  <2>2. s \in TcpEntries  BY <1>1, <2>1
  <2>3. e \in TcpEntries /\ e.conn = s.conn /\ e.state = "connected" /\ e.ready = s.ready /\ e.in = s.in
    BY <2>2 DEF TcpEntries
  <2>4. ~s.ready /\ s.in = 0  BY <1>2, <2>1 DEF Flows, Un!Open
  <2> HIDE DEF e
  <2>5. Flows(e, "w" \in e.edge \/ ("w" \notin s.edge /\ Due(k, "w")), "r" \in e.edge \/ ("r" \notin s.edge /\ Due(k, "r")), Late)
    BY <2>3, <2>4 DEF Flows, Un!Open
  <2> QED  BY <1>4, <2>1, <2>3, <2>5
<1>6. CASE Un!HostWakes(k)
  <2> DEFINE e == [s EXCEPT !.edge = {"w"}]
  <2>1. Un!Tcp(k) /\ s.state = "connecting" /\ Un!Host(k, e)  BY <1>6 DEF Un!HostWakes
  <2>2. s \in TcpEntries  BY <1>1, <2>1
  <2>3. e \in TcpEntries /\ e.conn = s.conn /\ e.state = "connecting" /\ e.ready = s.ready /\ e.in = s.in
    BY <2>1, <2>2 DEF TcpEntries
  <2>4. ~s.ready /\ s.in = 0  BY <1>2, <2>1 DEF Flows, Un!Open
  <2> HIDE DEF e
  <2>5. Flows(e, "w" \in e.edge \/ ("w" \notin s.edge /\ Due(k, "w")), "r" \in e.edge \/ ("r" \notin s.edge /\ Due(k, "r")), Late)
    BY <2>3, <2>4 DEF Flows, Un!Open
  <2> QED  BY <1>4, <2>1, <2>3, <2>5
<1>7. CASE Un!HostFails(k)
  <2> DEFINE e == [s EXCEPT !.state = "failed", !.edge = {"r", "w"}]
  <2>1. Un!Tcp(k) /\ Un!Host(k, e)  BY <1>7 DEF Un!HostFails
  <2>2. s \in TcpEntries  BY <1>1, <2>1
  <2>3. e \in TcpEntries /\ e.conn = s.conn /\ e.state = "failed"  BY <2>2 DEF TcpEntries
  <2> HIDE DEF e
  <2>5. Flows(e, "w" \in e.edge \/ ("w" \notin s.edge /\ Due(k, "w")), "r" \in e.edge \/ ("r" \notin s.edge /\ Due(k, "r")), Late)
    BY <2>3 DEF Flows, Un!Open
  <2> QED  BY <1>4, <2>1, <2>3, <2>5
<1>8. CASE Un!HostReceives(k)
  <2> DEFINE e == [s EXCEPT !.in = @ + 1, !.edge = @ \cup {"r"}]
  <2>1. Un!Tcp(k) /\ s.state = "connected" /\ s.in < Cap /\ Un!Host(k, e)  BY <1>8 DEF Un!HostReceives
  <2>2. s \in TcpEntries  BY <1>1, <2>1
  <2>3. s.in + 1 \in 0 .. Cap  BY <2>1, <2>2 DEF TcpEntries, Un!NatAssumption
  <2>4. e \in TcpEntries /\ e.conn = s.conn /\ e.state = "connected"  BY <2>1, <2>2, <2>3 DEF TcpEntries
  <2>5. e.ready = s.ready /\ e.rx = s.rx /\ e.out = s.out /\ e.edge = s.edge \cup {"r"}  BY <2>2 DEF TcpEntries
  <2> HIDE DEF e
  <2>6. Flows(e, "w" \in e.edge \/ ("w" \notin s.edge /\ Due(k, "w")), "r" \in e.edge \/ ("r" \notin s.edge /\ Due(k, "r")), Late)
    BY <1>2, <2>1, <2>4, <2>5 DEF Flows, Un!Open
  <2> QED  BY <1>4, <2>1, <2>4, <2>6
<1>9. CASE Un!HostSends(k)
  <2> DEFINE e == [s EXCEPT !.out = @ - 1, !.edge = IF s.out = Cap THEN @ \cup {"w"} ELSE @]
             edge == IF s.out = Cap THEN s.edge \cup {"w"} ELSE s.edge
  <2>1. Un!Tcp(k) /\ Un!Open(s) /\ s.out > 0 /\ Un!Host(k, e)  BY <1>9 DEF Un!HostSends
  <2>2. s \in TcpEntries  BY <1>1, <2>1
  <2>3. s.out - 1 \in 0 .. Cap /\ s.out <= Cap /\ s.out \in Int /\ Cap \in Int  BY <2>1, <2>2 DEF TcpEntries, Un!NatAssumption
  <2>a. edge \in SUBSET {"r", "w"} /\ s.edge \subseteq edge /\ (s.out = Cap => "w" \in edge)  BY <2>2 DEF TcpEntries
  <2>b. e = [s EXCEPT !.out = @ - 1, !.edge = edge]  BY <2>2 DEF TcpEntries
  <2> HIDE DEF edge
  <2>4. e \in TcpEntries /\ e.conn = s.conn /\ e.state = s.state  BY <2>1, <2>2, <2>3, <2>a, <2>b DEF TcpEntries
  <2>5. e.ready = s.ready /\ e.rx = s.rx /\ e.in = s.in /\ e.tx = s.tx /\ e.bound = s.bound /\ e.edge = edge
    BY <2>2, <2>b DEF TcpEntries
  <2> HIDE DEF e
  <2>c. s.out < Cap \/ s.out = Cap  BY <2>3
  <2>6. Flows(e, "w" \in e.edge \/ ("w" \notin s.edge /\ Due(k, "w")), "r" \in e.edge \/ ("r" \notin s.edge /\ Due(k, "r")), Late)
    BY <1>2, <2>1, <2>4, <2>5, <2>a, <2>c DEF Flows, Un!Open
  <2> QED  BY <1>4, <2>1, <2>4, <2>6
<1>11. CASE Un!HostCloses(k)
  <2> DEFINE e == [s EXCEPT !.state = "closed", !.edge = @ \cup {"r"}]
  <2>1. Un!Tcp(k) /\ s.state = "connected" /\ Un!Host(k, e)  BY <1>11 DEF Un!HostCloses
  <2>2. s \in TcpEntries  BY <1>1, <2>1
  <2>3. e \in TcpEntries /\ e.conn = s.conn /\ e.state = "closed"  BY <2>2 DEF TcpEntries
  <2>4. /\ e.ready = s.ready /\ e.rx = s.rx /\ e.out = s.out /\ e.in = s.in /\ e.tx = s.tx /\ e.bound = s.bound
        /\ e.edge = s.edge \cup {"r"}
    BY <2>2 DEF TcpEntries
  <2> HIDE DEF e
  <2>5. Flows(e, "w" \in e.edge \/ ("w" \notin s.edge /\ Due(k, "w")), "r" \in e.edge \/ ("r" \notin s.edge /\ Due(k, "r")), Late)
    BY <1>2, <2>1, <2>3, <2>4 DEF Flows, Un!Open
  <2> QED  BY <1>4, <2>1, <2>3, <2>5
<1>10. CASE \E l \in Locals, err \in BOOLEAN : Un!HostUdp(k, l, err)
  <2> PICK l \in Locals, err \in BOOLEAN : Un!HostUdp(k, l, err)  BY <1>10
  <2> DEFINE e == [s EXCEPT !.edge = @ \cup {l}, !.err = @ \/ err]
             bad == s.err \/ err
  <2>1. Un!Udp(k) /\ Un!Host(k, e)  BY Zenon DEF Un!HostUdp
  <2>2. s \in UdpEntries  BY <1>1, <2>1
  <2>3. s.edge \cup {l} \in SUBSET Locals  BY <2>2 DEF UdpEntries
  <2>4. bad \in BOOLEAN  OBVIOUS
  <2>5. e = [s EXCEPT !.edge = @ \cup {l}, !.err = bad]  OBVIOUS
  <2> HIDE DEF bad
  <2>6. /\ e \in UdpEntries /\ e.kind = "udp" /\ s.kind = "udp"
        /\ e.remote = s.remote /\ e.locals = s.locals /\ e.rx = s.rx
    BY <2>2, <2>4, <2>3, <2>5 DEF UdpEntries
  <2> HIDE DEF e
  <2>7. slab'[k] = e  BY <1>3, <2>1 DEF Un!Host
  <2>8. ~Un!Tcp(k)' /\ ~Un!Tcp(k)  BY <2>6, <2>7 DEF Un!Tcp
  <2>9. e \in Entries /\ slab[k] # Un!Vacant  BY <1>1, <2>1, <2>6 DEF Entries
  <2> QED  BY <2>1, <2>6, <2>8, <2>9, HostStep DEF Flow
<1> QED  BY <1>5, <1>6, <1>7, <1>8, <1>9, <1>10, <1>11

\* A packet of the guest arrives in the channel.
LEMMA GuestKeeps == ASSUME NetInv, NEW p \in Un!GuestPackets, Un!GuestSends(p)  PROVE NetInv'
<1>1. UNCHANGED <<slab, tcpMap, udpMap>> /\ nat' = [nat EXCEPT !.chan = Append(@, p)]  BY DEF Un!GuestSends
<1>2. nat \in Threads  BY DEF NetInv, NetTypes
<1>3. nat.chan \in Seq(Un!GuestPackets)  BY <1>2 DEF Threads
<1>4. Append(nat.chan, p) \in Seq(Un!GuestPackets)  BY <1>3
<1>5. nat' \in Threads /\ nat'.pc = nat.pc /\ nat'.events = nat.events /\ nat'.incoming = nat.incoming /\ nat'.changed = nat.changed
  BY <1>1, <1>2, <1>4 DEF Threads
<1>6. NetTypes'  BY <1>1, <1>5 DEF NetInv, NetTypes
<1>7. Tables'  BY <1>1 DEF NetInv, Tables, Un!Tcp, Un!Udp
<1>8. EventsOK'  BY <1>1, <1>5 DEF NetInv, EventsOK, Un!Tcp
<1>9. Served'  BY <1>1, <1>5 DEF NetInv, Served
<1>10. ASSUME NEW k \in Keys  PROVE Flow(k)'
  <2>1. slab'[k] = slab[k] /\ (Late => Late')  BY <1>1, <1>5 DEF Late
  <2> QED  BY <1>5, <2>1, FlowKept
<1> QED  BY <1>6, <1>7, <1>8, <1>9, <1>10 DEF NetInv

\* Waiting takes the edges and returns an event for each socket that had one.
LEMMA WaitKeeps == ASSUME Un!NatAssumption, NetInv, Un!Wait  PROVE NetInv'
<1> DEFINE TcpEvents == {[key |-> k, fd |-> "tcp", set |-> slab[k].edge] : k \in {k \in Keys : Un!Tcp(k) /\ slab[k].edge # {}}}
           Of(k)     == {[key |-> k, fd |-> l, set |-> {"r"}] : l \in slab[k].edge}
           UdpEvents == UNION {Of(k) : k \in {k \in Keys : Un!Udp(k)}}
           evs       == TcpEvents \cup UdpEvents
<1>1. /\ nat.pc = "wait" /\ UNCHANGED <<tcpMap, udpMap>>
      /\ nat' = [nat EXCEPT !.pc = "events", !.events = evs]
      /\ slab' = [k \in Keys |-> IF slab[k] = Un!Vacant THEN Un!Vacant ELSE [slab[k] EXCEPT !.edge = {}]]
  BY DEF Un!Wait, Un!At
<1>2. \A k \in Keys : Un!Tcp(k) => slab[k] \in TcpEntries  BY EntryTyped DEF NetInv
<1>3. \A k \in Keys : Un!Udp(k) => slab[k] \in UdpEntries  BY EntryTyped DEF NetInv
<1>4. \A k \in Keys : ~Un!Tcp(k) /\ ~Un!Udp(k) <=> slab[k] = Un!Vacant  BY EntryTyped DEF NetInv
<1>5. \A ev \in TcpEvents : ev \in Events /\ ev.fd = "tcp" /\ Un!Tcp(ev.key) /\ ev.set = slab[ev.key].edge
  <2> TAKE ev \in TcpEvents
  <2>1. PICK k \in Keys : Un!Tcp(k) /\ ev = [key |-> k, fd |-> "tcp", set |-> slab[k].edge]  OBVIOUS
  <2>2. slab[k].edge \in SUBSET {"r", "w"}  BY <1>2, <2>1 DEF TcpEntries
  <2> QED  BY <2>1, <2>2 DEF Events
<1>6. \A ev \in UdpEvents : ev \in Events /\ ev.fd # "tcp" /\ Un!Udp(ev.key)
  <2> TAKE ev \in UdpEvents
  <2>1. PICK k \in Keys : Un!Udp(k) /\ ev \in Of(k)  OBVIOUS
  <2>2. PICK l \in slab[k].edge : ev = [key |-> k, fd |-> l, set |-> {"r"}]  BY <2>1
  <2>3. l \in Locals  BY <1>3, <2>1, <2>2 DEF UdpEntries
  <2>4. l # "tcp"  BY <2>3 DEF Un!NatAssumption
  <2> QED  BY <2>1, <2>2, <2>3, <2>4 DEF Events
<1>7. \A k \in Keys : Un!Tcp(k) /\ slab[k].edge # {} => [key |-> k, fd |-> "tcp", set |-> slab[k].edge] \in TcpEvents
  OBVIOUS
<1> HIDE DEF TcpEvents, UdpEvents
<1>8. nat \in Threads  BY DEF NetInv, NetTypes
<1>9. evs \in SUBSET Events  BY <1>5, <1>6
<1>e. \A ev \in evs : ev \in TcpEvents \/ ev \in UdpEvents  OBVIOUS
<1>s. TcpEvents \subseteq evs  OBVIOUS
<1> HIDE DEF evs
<1>10. nat' \in Threads /\ nat'.pc = "events" /\ nat'.events = evs /\ nat'.incoming = nat.incoming
  BY <1>1, <1>8, <1>9 DEF Threads
<1>11. ASSUME NEW k \in Keys
       PROVE  /\ slab'[k] \in Entries
              /\ Un!Tcp(k) => slab'[k] = [slab[k] EXCEPT !.edge = {}] /\ slab'[k] \in TcpEntries
              /\ Un!Udp(k) => slab'[k] = [slab[k] EXCEPT !.edge = {}] /\ slab'[k] \in UdpEntries
              /\ slab[k] = Un!Vacant => slab'[k] = Un!Vacant
  <2>1. slab'[k] = IF slab[k] = Un!Vacant THEN Un!Vacant ELSE [slab[k] EXCEPT !.edge = {}]  BY <1>1
  <2>2. CASE Un!Tcp(k)
    <3>1. slab[k] \in TcpEntries /\ slab[k] # Un!Vacant /\ ~Un!Udp(k)  BY <1>2, <1>4, <2>2 DEF Un!Tcp, Un!Udp
    <3>2. [slab[k] EXCEPT !.edge = {}] \in TcpEntries  BY <3>1 DEF TcpEntries
    <3> QED  BY <2>1, <3>1, <3>2 DEF Entries
  <2>3. CASE Un!Udp(k)
    <3>1. slab[k] \in UdpEntries /\ slab[k] # Un!Vacant /\ ~Un!Tcp(k)  BY <1>3, <1>4, <2>3 DEF Un!Tcp, Un!Udp
    <3>2. [slab[k] EXCEPT !.edge = {}] \in UdpEntries  BY <3>1 DEF UdpEntries
    <3> QED  BY <2>1, <3>1, <3>2 DEF Entries
  <2>4. CASE ~Un!Tcp(k) /\ ~Un!Udp(k)
    <3>1. slab[k] = Un!Vacant  BY <1>4, <2>4
    <3> QED  BY <2>1, <2>4, <3>1 DEF Entries
  <2> QED  BY <2>2, <2>3, <2>4
<1>12. slab' \in [Keys -> Entries]
  <2>1. DOMAIN slab' = Keys /\ slab' = [k \in Keys |-> slab'[k]]  BY <1>1
  <2> QED  BY <1>11, <2>1
<1>13. ASSUME NEW k \in Keys
       PROVE  /\ Un!Tcp(k)' <=> Un!Tcp(k)
              /\ Un!Udp(k)' <=> Un!Udp(k)
              /\ Un!Tcp(k) => slab'[k].conn = slab[k].conn /\ slab'[k].state = slab[k].state /\ slab'[k].ready = slab[k].ready
                              /\ slab'[k].in = slab[k].in /\ slab'[k].out = slab[k].out /\ slab'[k].rx = slab[k].rx
                              /\ slab'[k].tx = slab[k].tx /\ slab'[k].bound = slab[k].bound
              /\ Un!Udp(k) => slab'[k].remote = slab[k].remote /\ slab'[k].locals = slab[k].locals /\ slab'[k].rx = slab[k].rx
  <2>1. CASE Un!Tcp(k)
    <3>1. slab[k] \in TcpEntries /\ slab'[k] = [slab[k] EXCEPT !.edge = {}] /\ slab'[k] \in TcpEntries  BY <1>2, <1>11, <2>1
    <3> QED  BY <2>1, <3>1 DEF Un!Tcp, Un!Udp, TcpEntries
  <2>2. CASE Un!Udp(k)
    <3>1. slab[k] \in UdpEntries /\ slab'[k] = [slab[k] EXCEPT !.edge = {}] /\ slab'[k] \in UdpEntries  BY <1>3, <1>11, <2>2
    <3> QED  BY <2>2, <3>1 DEF Un!Tcp, Un!Udp, UdpEntries
  <2>3. CASE ~Un!Tcp(k) /\ ~Un!Udp(k)
    <3>1. slab[k] = Un!Vacant /\ slab'[k] = Un!Vacant  BY <1>4, <1>11, <2>3
    <3> QED  BY <2>3, <3>1 DEF Un!Tcp, Un!Udp
  <2> QED  BY <2>1, <2>2, <2>3
<1>14. NetTypes'  BY <1>1, <1>10, <1>12 DEF NetInv, NetTypes
<1>15. Tables'
  <2>1. ASSUME NEW k \in Keys, Un!Udp(k)  PROVE slab'[k].rx \subseteq slab'[k].locals
    <3>1. slab[k].rx \subseteq slab[k].locals  BY <2>1 DEF NetInv, Tables
    <3> QED  BY <1>13, <2>1, <3>1
  <2> QED  BY <1>1, <1>12, <1>13, <2>1, TablesKept
<1>16. EventsOK'
  <2>1. \A ev \in evs : ev.fd = "tcp" <=> Un!Tcp(ev.key)'
    <3> TAKE ev \in evs
    <3>1. CASE ev \in TcpEvents
      <4>1. ev.key \in Keys /\ ev.fd = "tcp" /\ Un!Tcp(ev.key)  BY <1>5, <3>1 DEF Events
      <4> QED  BY <1>13, <4>1
    <3>2. CASE ev \in UdpEvents
      <4>1. ev.key \in Keys /\ ev.fd # "tcp" /\ Un!Udp(ev.key)  BY <1>6, <3>2 DEF Events
      <4>2. ~Un!Tcp(ev.key)  BY <4>1 DEF Un!Tcp, Un!Udp
      <4> QED  BY <1>13, <4>1, <4>2
    <3> QED  BY <1>e, <3>1, <3>2
  <2>2. \A e1, e2 \in evs : e1.fd = "tcp" /\ e2.fd = "tcp" /\ e1.key = e2.key => e1 = e2
    <3> SUFFICES ASSUME NEW e1 \in evs, NEW e2 \in evs, e1.fd = "tcp", e2.fd = "tcp", e1.key = e2.key  PROVE e1 = e2
      OBVIOUS
    <3>1. e1 \in TcpEvents /\ e2 \in TcpEvents  BY <1>e, <1>6
    <3>2. e1.set = slab[e1.key].edge /\ e2.set = slab[e2.key].edge /\ e1 \in Events /\ e2 \in Events  BY <1>5, <3>1
    <3>3. e1.set = e2.set  BY <3>2
    <3> QED  BY <3>2, <3>3 DEF Events
  <2> QED  BY <1>10, <2>1, <2>2 DEF EventsOK
<1>17. Served'
  <2>1. \A i \in 1 .. Len(nat.incoming) : nat.incoming[i] \in Un!GuestPackets  BY <1>8 DEF Threads
  <2>2. \A k \in Keys : slab[k].kind = "udp" => slab'[k].locals = slab[k].locals  BY <1>13 DEF Un!Udp
  <2>3. Served /\ Tables /\ NetTypes  BY DEF NetInv
  <2>4. nat.incoming = <<>>  BY <1>1, <2>3 DEF Served
  <2> QED  BY <1>1, <1>10, <2>1, <2>2, <2>3, <2>4, ServedKept
<1>18. ASSUME NEW k \in Keys  PROVE Flow(k)'
  <2> SUFFICES ASSUME Un!Tcp(k)  PROVE Flows(slab'[k], Due(k, "w")', Due(k, "r")', Late')  BY <1>13 DEF Flow
  <2>1. Flows(slab[k], Due(k, "w"), Due(k, "r"), Late)  BY DEF NetInv, Flow
  <2>2. ~Late /\ nat.events = {}  BY <1>1 DEF Late, NetInv, EventsOK
  <2>3. ASSUME NEW x, Due(k, x)  PROVE Due(k, x)'
    <3>1. x \in slab[k].edge  BY <2>2, <2>3 DEF Due
    <3> DEFINE ev == [key |-> k, fd |-> "tcp", set |-> slab[k].edge]
    <3>2. ev \in evs  BY <1>7, <1>s, <3>1
    <3>3. ev.key = k /\ ev.fd = "tcp" /\ x \in ev.set  BY <3>1
    <3> HIDE DEF ev
    <3> QED  BY <1>10, <3>2, <3>3 DEF Due
  <2> HIDE DEF evs
  <2> QED  BY <1>13, <2>1, <2>2, <2>3 DEF Flows, Un!Open
<1> QED  BY <1>14, <1>15, <1>16, <1>17, <1>18 DEF NetInv

\* What an event does to the bytes of a connection.
LEMMA Progressed ==
    ASSUME Un!NatAssumption, NEW e \in TcpEntries, Un!Open(e), NEW set
    PROVE  LET u == Un!TcpProgress(e, set)
           IN  /\ u \in TcpEntries /\ u.ready /\ u.conn = e.conn /\ u.state = e.state /\ u.bound = e.bound /\ u.edge = e.edge
               /\ ~(u.rx > 0 /\ u.out < Cap) \/ (e.ready /\ "w" \notin set /\ u.rx = e.rx /\ u.out = e.out)
               /\ ~(u.in > 0 /\ u.bound # Un!NoConn /\ u.tx < Cap) \/ ("r" \notin set /\ u.in = e.in /\ u.tx = e.tx)
<1> DEFINE a == [e EXCEPT !.ready = TRUE]
           b == IF ~e.ready \/ "w" \in set THEN Un!PerformWrites(a) ELSE a
           u == IF "r" \in set THEN Un!PerformReads(b) ELSE b
<1>1. Un!TcpProgress(e, set) = u  BY DEF Un!TcpProgress
<1>2. /\ a \in TcpEntries /\ a.ready /\ a.state = e.state /\ a.conn = e.conn /\ a.bound = e.bound /\ a.edge = e.edge
      /\ a.rx = e.rx /\ a.out = e.out /\ a.in = e.in /\ a.tx = e.tx /\ Un!Open(a)
  BY DEF TcpEntries, Un!Open
<1> HIDE DEF a
<1>3. /\ b \in TcpEntries /\ b.ready /\ b.state = e.state /\ b.conn = e.conn /\ b.bound = e.bound /\ b.edge = e.edge
      /\ Un!Open(b) /\ b.in = e.in /\ b.tx = e.tx
      /\ ~(b.rx > 0 /\ b.out < Cap) \/ (e.ready /\ "w" \notin set /\ b.rx = e.rx /\ b.out = e.out)
  <2>1. CASE ~e.ready \/ "w" \in set
    <3> DEFINE v == Un!PerformWrites(a)
    <3>1. v \in TcpEntries /\ v = [a EXCEPT !.rx = v.rx, !.out = v.out] /\ ~(v.rx > 0 /\ v.out < Cap)
      BY <1>2, WritesPerformed, Zenon
    <3>2. b = v  BY <2>1
    <3> HIDE DEF v, b
    <3>3. /\ v.ready = a.ready /\ v.state = a.state /\ v.conn = a.conn /\ v.bound = a.bound /\ v.edge = a.edge
          /\ v.in = a.in /\ v.tx = a.tx
      BY <1>2, <3>1 DEF TcpEntries
    <3> QED  BY <1>2, <3>1, <3>2, <3>3 DEF Un!Open
  <2>2. CASE ~(~e.ready \/ "w" \in set)
    <3>1. b = a  BY <2>2
    <3> HIDE DEF b
    <3>2. e.ready  BY <2>2 DEF TcpEntries
    <3> QED  BY <1>2, <2>2, <3>1, <3>2
  <2> QED  BY <2>1, <2>2
<1> HIDE DEF b
<1>4. CASE "r" \in set
  <2> DEFINE v == Un!PerformReads(b)
  <2>1. v \in TcpEntries /\ v = [b EXCEPT !.in = v.in, !.tx = v.tx] /\ ~(v.in > 0 /\ v.bound # Un!NoConn /\ v.tx < Cap)
    BY <1>3, ReadsPerformed, Zenon
  <2>2. u = v  BY <1>4
  <2> HIDE DEF v, u
  <2>3. /\ v.ready = b.ready /\ v.state = b.state /\ v.conn = b.conn /\ v.bound = b.bound /\ v.edge = b.edge
        /\ v.rx = b.rx /\ v.out = b.out
    BY <1>3, <2>1 DEF TcpEntries
  <2> QED  BY <1>1, <1>3, <2>1, <2>2, <2>3
<1>5. CASE "r" \notin set
  <2>1. u = b  BY <1>5
  <2> HIDE DEF u
  <2> QED  BY <1>1, <1>3, <1>5, <2>1
<1> QED  BY <1>4, <1>5

\* Handling an event removes it and nothing else from the thread.
LEMMA Handling ==
    ASSUME NetInv, NEW ev \in nat.events, Un!At("events"), Un!Handled(ev)
    PROVE  /\ nat' \in Threads /\ nat'.pc = "events" /\ nat'.events = nat.events \ {ev} /\ nat'.incoming = nat.incoming
           /\ nat.incoming = <<>> /\ nat.pc = "events" /\ ev.key \in Keys
<1>1. nat \in Threads  BY DEF NetInv, NetTypes
<1>2. nat.events \ {ev} \in SUBSET Events /\ ev \in Events  BY <1>1 DEF Threads
<1>3. nat' = [nat EXCEPT !.events = nat.events \ {ev}]  BY DEF Un!Handled
<1>4. nat.pc = "events"  BY DEF Un!At
<1>5. nat.incoming = <<>>  BY <1>4 DEF NetInv, Served
<1>6. nat' \in Threads /\ nat'.pc = nat.pc /\ nat'.events = nat.events \ {ev} /\ nat'.incoming = nat.incoming
  BY <1>1, <1>2, <1>3 DEF Threads
<1> QED  BY <1>2, <1>4, <1>5, <1>6 DEF Events

\* Without a datagram under way there is nothing to serve.
LEMMA NothingToServe == ASSUME nat'.incoming = <<>>  PROVE Served'
<1>1. Len(<<>>) = 0  OBVIOUS
<1>2. \A i \in 1 .. Len(nat'.incoming) : FALSE  BY <1>1
<1> QED  BY <1>2 DEF Served

\* The entry of a socket that reports an error goes, with its mapping; what remains of its
\* events is left to EventsOK.
LEMMA EntryRemoved ==
    ASSUME NetInv, NEW k \in Keys, slab' = [slab EXCEPT ![k] = Un!Vacant],
           \/ Un!Tcp(k) /\ tcpMap' = [tcpMap EXCEPT ![slab[k].conn] = Un!NoKey] /\ udpMap' = udpMap
           \/ Un!Udp(k) /\ udpMap' = [udpMap EXCEPT ![slab[k].remote] = Un!NoKey] /\ tcpMap' = tcpMap
    PROVE  /\ slab' \in [Keys -> Entries] /\ tcpMap' \in [Conns -> Keys \cup {Un!NoKey}]
           /\ udpMap' \in [UdpRemotes -> Keys \cup {Un!NoKey}] /\ Tables'
           /\ slab'[k] = Un!Vacant /\ \A j \in Keys \ {k} : slab'[j] = slab[j]
<1>1. /\ slab \in [Keys -> Entries] /\ tcpMap \in [Conns -> Keys \cup {Un!NoKey}]
      /\ udpMap \in [UdpRemotes -> Keys \cup {Un!NoKey}] /\ Tables
  BY DEF NetInv, NetTypes
<1>2. Un!Vacant \in Entries /\ Un!Vacant.kind = "vacant"  BY DEF Entries, Un!Vacant
<1>3. slab' \in [Keys -> Entries] /\ slab'[k] = Un!Vacant /\ \A j \in Keys \ {k} : slab'[j] = slab[j]  BY <1>1, <1>2
<1>4. \A j \in Keys : (Un!Tcp(j)' <=> Un!Tcp(j) /\ j # k) /\ (Un!Udp(j)' <=> Un!Udp(j) /\ j # k)
  BY <1>2, <1>3 DEF Un!Tcp, Un!Udp
<1>5. \A j \in Keys : ~(Un!Tcp(j) /\ Un!Udp(j))  BY DEF Un!Tcp, Un!Udp
<1>6. CASE Un!Tcp(k) /\ tcpMap' = [tcpMap EXCEPT ![slab[k].conn] = Un!NoKey] /\ udpMap' = udpMap
  <2> DEFINE c == slab[k].conn
  <2>1. c \in Conns /\ tcpMap[c] = k
    <3>1. slab[k] \in TcpEntries  BY <1>6, EntryTyped DEF NetInv
    <3> QED  BY <1>1, <1>6, <3>1 DEF TcpEntries, Tables
  <2>2. tcpMap' = [tcpMap EXCEPT ![c] = Un!NoKey]  BY <1>6
  <2> HIDE DEF c
  <2>3. tcpMap' \in [Conns -> Keys \cup {Un!NoKey}] /\ tcpMap'[c] = Un!NoKey /\ \A d \in Conns \ {c} : tcpMap'[d] = tcpMap[d]
    BY <1>1, <2>1, <2>2
  <2>4. ASSUME NEW d \in Conns, tcpMap'[d] # Un!NoKey  PROVE Un!Tcp(tcpMap[d])' /\ slab'[tcpMap'[d]].conn = d
    <3>1. d # c /\ tcpMap'[d] = tcpMap[d] /\ tcpMap[d] \in Keys  BY <1>1, <2>3, <2>4
    <3>2. Un!Tcp(tcpMap[d]) /\ slab[tcpMap[d]].conn = d  BY <1>1, <2>4, <3>1 DEF Tables
    <3>3. tcpMap[d] # k  BY <3>1, <3>2 DEF c
    <3> QED  BY <1>3, <1>4, <3>1, <3>2, <3>3 DEF Un!Tcp
  <2>5. ASSUME NEW r \in UdpRemotes, udpMap'[r] # Un!NoKey  PROVE Un!Udp(udpMap[r])' /\ slab'[udpMap'[r]].remote = r
    <3>1. udpMap'[r] = udpMap[r] /\ udpMap[r] \in Keys  BY <1>1, <1>6, <2>5
    <3>2. Un!Udp(udpMap[r]) /\ slab[udpMap[r]].remote = r  BY <1>1, <2>5, <3>1 DEF Tables
    <3>3. udpMap[r] # k  BY <1>5, <1>6, <3>2
    <3> QED  BY <1>3, <1>4, <3>1, <3>2, <3>3 DEF Un!Udp
  <2>6. ASSUME NEW j \in Keys, Un!Tcp(j)'  PROVE tcpMap'[slab'[j].conn] = j
    <3>1. j # k /\ Un!Tcp(j) /\ slab'[j] = slab[j]  BY <1>3, <1>4, <2>6
    <3>2. tcpMap[slab[j].conn] = j /\ slab[j].conn \in Conns
      <4>1. slab[j] \in TcpEntries  BY <3>1, EntryTyped DEF NetInv
      <4> QED  BY <1>1, <3>1, <4>1 DEF Tables, TcpEntries
    <3>3. slab[j].conn # c  BY <2>1, <3>1, <3>2
    <3> QED  BY <2>3, <3>1, <3>2, <3>3
  <2>7. ASSUME NEW j \in Keys, Un!Udp(j)'  PROVE udpMap'[slab'[j].remote] = j /\ slab'[j].rx \subseteq slab'[j].locals
    <3>1. j # k /\ Un!Udp(j) /\ slab'[j] = slab[j]  BY <1>3, <1>4, <2>7
    <3>2. udpMap[slab[j].remote] = j /\ slab[j].rx \subseteq slab[j].locals  BY <1>1, <3>1 DEF Tables
    <3> QED  BY <1>6, <3>1, <3>2
  <2>8. Tables'  BY <2>4, <2>5, <2>6, <2>7 DEF Tables
  <2> QED  BY <1>1, <1>3, <1>6, <2>3, <2>8
<1>7. CASE Un!Udp(k) /\ udpMap' = [udpMap EXCEPT ![slab[k].remote] = Un!NoKey] /\ tcpMap' = tcpMap
  <2> DEFINE c == slab[k].remote
  <2>1. c \in UdpRemotes /\ udpMap[c] = k
    <3>1. slab[k] \in UdpEntries  BY <1>7, EntryTyped DEF NetInv
    <3> QED  BY <1>1, <1>7, <3>1 DEF UdpEntries, Tables
  <2>2. udpMap' = [udpMap EXCEPT ![c] = Un!NoKey]  BY <1>7
  <2> HIDE DEF c
  <2>3. udpMap' \in [UdpRemotes -> Keys \cup {Un!NoKey}] /\ udpMap'[c] = Un!NoKey /\ \A d \in UdpRemotes \ {c} : udpMap'[d] = udpMap[d]
    BY <1>1, <2>1, <2>2
  <2>4. ASSUME NEW r \in UdpRemotes, udpMap'[r] # Un!NoKey  PROVE Un!Udp(udpMap[r])' /\ slab'[udpMap'[r]].remote = r
    <3>1. r # c /\ udpMap'[r] = udpMap[r] /\ udpMap[r] \in Keys  BY <1>1, <2>3, <2>4
    <3>2. Un!Udp(udpMap[r]) /\ slab[udpMap[r]].remote = r  BY <1>1, <2>4, <3>1 DEF Tables
    <3>3. udpMap[r] # k  BY <3>1, <3>2 DEF c
    <3> QED  BY <1>3, <1>4, <3>1, <3>2, <3>3 DEF Un!Udp
  <2>5. ASSUME NEW d \in Conns, tcpMap'[d] # Un!NoKey  PROVE Un!Tcp(tcpMap[d])' /\ slab'[tcpMap'[d]].conn = d
    <3>1. tcpMap'[d] = tcpMap[d] /\ tcpMap[d] \in Keys  BY <1>1, <1>7, <2>5
    <3>2. Un!Tcp(tcpMap[d]) /\ slab[tcpMap[d]].conn = d  BY <1>1, <2>5, <3>1 DEF Tables
    <3>3. tcpMap[d] # k  BY <1>5, <1>7, <3>2
    <3> QED  BY <1>3, <1>4, <3>1, <3>2, <3>3 DEF Un!Tcp
  <2>6. ASSUME NEW j \in Keys, Un!Udp(j)'  PROVE udpMap'[slab'[j].remote] = j /\ slab'[j].rx \subseteq slab'[j].locals
    <3>1. j # k /\ Un!Udp(j) /\ slab'[j] = slab[j]  BY <1>3, <1>4, <2>6
    <3>2. udpMap[slab[j].remote] = j /\ slab[j].remote \in UdpRemotes /\ slab[j].rx \subseteq slab[j].locals
      <4>1. slab[j] \in UdpEntries  BY <3>1, EntryTyped DEF NetInv
      <4> QED  BY <1>1, <3>1, <4>1 DEF Tables, UdpEntries
    <3>3. slab[j].remote # c  BY <2>1, <3>1, <3>2
    <3> QED  BY <2>3, <3>1, <3>2, <3>3
  <2>7. ASSUME NEW j \in Keys, Un!Tcp(j)'  PROVE tcpMap'[slab'[j].conn] = j
    <3>1. j # k /\ Un!Tcp(j) /\ slab'[j] = slab[j]  BY <1>3, <1>4, <2>7
    <3>2. tcpMap[slab[j].conn] = j  BY <1>1, <3>1 DEF Tables
    <3> QED  BY <1>7, <3>1, <3>2
  <2>8. Tables'  BY <2>4, <2>5, <2>6, <2>7 DEF Tables
  <2> QED  BY <1>1, <1>3, <1>7, <2>3, <2>8
<1> QED  BY <1>6, <1>7

\* Events of TCP sockets.
LEMMA TcpKeeps == ASSUME Un!NatAssumption, NetInv, NEW ev \in nat.events, Un!HandleTcp(ev)  PROVE NetInv'
<1> DEFINE k == ev.key
           s == slab[k]
<1>1. Un!At("events") /\ Un!Tcp(k) /\ Un!Handled(ev)  BY DEF Un!HandleTcp
<1>2. /\ nat' \in Threads /\ nat'.pc = "events" /\ nat'.events = nat.events \ {ev} /\ nat'.incoming = nat.incoming
      /\ nat.incoming = <<>> /\ nat.pc = "events" /\ k \in Keys
  BY <1>1, Handling
<1>3. s \in TcpEntries  BY <1>1, <1>2, EntryTyped DEF NetInv
<1>4. Served'  BY <1>2, NothingToServe
<1>5. ~Late /\ ~Late'  BY <1>2 DEF Late
<1>6. /\ \A e \in nat.events : e \in Events /\ e.key \in Keys /\ (e.fd = "tcp" <=> Un!Tcp(e.key))
      /\ \A e1, e2 \in nat.events : e1.fd = "tcp" /\ e2.fd = "tcp" /\ e1.key = e2.key => e1 = e2
  BY DEF NetInv, NetTypes, Threads, Events, EventsOK
<1>7. ev.fd = "tcp"  BY <1>1, <1>6
<1>8. ASSUME NEW j \in Keys, j # k, slab'[j] = slab[j]  PROVE Flow(j)'
  <2>1. (Due(j, "w")' <=> Due(j, "w")) /\ (Due(j, "r")' <=> Due(j, "r"))  BY <1>2, <1>8 DEF Due
  <2>2. Un!Tcp(j)' <=> Un!Tcp(j)  BY <1>8 DEF Un!Tcp
  <2>3. Flow(j)  BY DEF NetInv
  <2> QED  BY <1>5, <1>8, <2>1, <2>2, <2>3 DEF Flow, Flows
<1>9. CASE s.state = "failed" /\ Un!RemoveTcp(k)
  <2>1. slab' = [slab EXCEPT ![k] = Un!Vacant] /\ tcpMap' = [tcpMap EXCEPT ![slab[k].conn] = Un!NoKey] /\ udpMap' = udpMap
    BY <1>9 DEF Un!RemoveTcp
  <2>2. /\ slab' \in [Keys -> Entries] /\ tcpMap' \in [Conns -> Keys \cup {Un!NoKey}]
        /\ udpMap' \in [UdpRemotes -> Keys \cup {Un!NoKey}] /\ Tables'
        /\ slab'[k] = Un!Vacant /\ \A j \in Keys \ {k} : slab'[j] = slab[j]
    BY <1>1, <1>2, <2>1, EntryRemoved
  <2>3. NetTypes'  BY <1>2, <2>2 DEF NetTypes
  <2>4. \A e \in nat'.events : e.fd = "tcp" <=> Un!Tcp(e.key)'
    <3> TAKE e \in nat'.events
    <3>1. e \in nat.events /\ e # ev  BY <1>2
    <3>2. CASE e.key = k
      <4>1. e.fd = "tcp"  BY <1>1, <1>6, <3>1, <3>2
      <4>2. e = ev  BY <1>6, <1>7, <3>1, <3>2, <4>1
      <4> QED  BY <3>1, <4>2
    <3>3. CASE e.key # k
      <4>1. slab'[e.key] = slab[e.key]  BY <1>6, <2>2, <3>1, <3>3
      <4>2. Un!Tcp(e.key)' <=> Un!Tcp(e.key)  BY <4>1 DEF Un!Tcp
      <4> QED  BY <1>6, <3>1, <4>2
    <3> QED  BY <3>2, <3>3
  <2>5. EventsOK'  BY <1>2, <1>6, <2>4 DEF EventsOK
  <2>6. \A j \in Keys : Flow(j)'
    <3> TAKE j \in Keys
    <3>1. CASE j = k
      <4>1. ~Un!Tcp(j)'  BY <2>2, <3>1 DEF Un!Tcp, Un!Vacant
      <4> QED  BY <4>1 DEF Flow
    <3>2. CASE j # k  BY <1>8, <2>2, <3>2
    <3> QED  BY <3>1, <3>2
  <2> QED  BY <1>4, <2>2, <2>3, <2>5, <2>6 DEF NetInv
<1>10. ASSUME NEW u \in TcpEntries, slab' = [slab EXCEPT ![k] = u], UNCHANGED <<tcpMap, udpMap>>, u.conn = s.conn,
              Flows(u, Due(k, "w")', Due(k, "r")', FALSE)
       PROVE  NetInv'
  <2>1. slab \in [Keys -> Entries] /\ u \in Entries /\ u.kind = "tcp"  BY DEF NetInv, NetTypes, Entries, TcpEntries
  <2>2. slab' \in [Keys -> Entries] /\ slab'[k] = u /\ \A j \in Keys \ {k} : slab'[j] = slab[j]  BY <1>2, <1>10, <2>1
  <2>3. NetTypes'  BY <1>2, <1>10, <2>2 DEF NetInv, NetTypes
  <2>4. \A j \in Keys : (Un!Tcp(j)' <=> Un!Tcp(j)) /\ (Un!Udp(j)' <=> Un!Udp(j))
    BY <1>1, <1>2, <2>1, <2>2 DEF Un!Tcp, Un!Udp
  <2>5. \A j \in Keys : Un!Tcp(j) => slab'[j].conn = slab[j].conn  BY <1>10, <2>2
  <2>6. \A j \in Keys : Un!Udp(j) => slab'[j] = slab[j]  BY <1>1, <2>2 DEF Un!Tcp, Un!Udp
  <2>7. \A j \in Keys : Un!Udp(j) => slab[j].rx \subseteq slab[j].locals  BY DEF NetInv, Tables
  <2>8. Tables'  BY <1>10, <2>2, <2>4, <2>5, <2>6, <2>7, TablesKept
  <2>9. \A e \in nat'.events : e.fd = "tcp" <=> Un!Tcp(e.key)'  BY <1>2, <1>6, <2>4
  <2>10. EventsOK'  BY <1>2, <1>6, <2>9 DEF EventsOK
  <2>11. \A j \in Keys : Flow(j)'
    <3> TAKE j \in Keys
    <3>1. CASE j = k  BY <1>5, <1>10, <2>2, <3>1 DEF Flow, Flows
    <3>2. CASE j # k  BY <1>8, <2>2, <3>2
    <3> QED  BY <3>1, <3>2
  <2> QED  BY <1>4, <2>3, <2>8, <2>10, <2>11 DEF NetInv
<1>11. Flows(s, Due(k, "w"), Due(k, "r"), FALSE)  BY <1>1, <1>2, <1>5 DEF NetInv, Flow, Flows
<1>12. CASE s.state = "connecting" /\ UNCHANGED <<slab, tcpMap, udpMap>>
  <2>1. slab' = [slab EXCEPT ![k] = s]  BY <1>12 DEF NetInv, NetTypes
  <2>2. Flows(s, Due(k, "w")', Due(k, "r")', FALSE)  BY <1>11, <1>12 DEF Flows
  <2> QED  BY <1>3, <1>10, <1>12, <2>1, <2>2
<1>13. CASE Un!Open(s) /\ slab' = [slab EXCEPT ![k] = Un!TcpProgress(@, ev.set)] /\ UNCHANGED <<tcpMap, udpMap>>
  <2> DEFINE u == Un!TcpProgress(s, ev.set)
  <2>1. slab' = [slab EXCEPT ![k] = u]  BY <1>13
  <2>2. /\ u \in TcpEntries /\ u.ready /\ u.conn = s.conn /\ u.state = s.state /\ u.bound = s.bound /\ u.edge = s.edge
        /\ ~(u.rx > 0 /\ u.out < Cap) \/ (s.ready /\ "w" \notin ev.set /\ u.rx = s.rx /\ u.out = s.out)
        /\ ~(u.in > 0 /\ u.bound # Un!NoConn /\ u.tx < Cap) \/ ("r" \notin ev.set /\ u.in = s.in /\ u.tx = s.tx)
    BY <1>3, <1>13, Progressed
  <2> HIDE DEF u
  <2>3. slab'[k] = u  BY <1>2, <2>1 DEF NetInv, NetTypes
  <2>4. ASSUME NEW x, Due(k, x), x \notin ev.set  PROVE Due(k, x)'
    <3>1. CASE x \in slab[k].edge  BY <2>2, <2>3, <3>1 DEF Due
    <3>2. CASE x \notin slab[k].edge
      <4>1. PICK e \in nat.events : e.key = k /\ e.fd = "tcp" /\ x \in e.set  BY <2>4, <3>2 DEF Due
      <4>2. e \in nat'.events  BY <1>2, <2>4, <4>1
      <4> QED  BY <4>1, <4>2 DEF Due
    <3> QED  BY <3>1, <3>2
  <2>5. "w" \notin ev.set /\ Due(k, "w") => Due(k, "w")'  BY <2>4
  <2>6. "r" \notin ev.set /\ Due(k, "r") => Due(k, "r")'  BY <2>4
  <2>7. s.ready \/ ~s.ready  OBVIOUS
  <2>8. Flows(u, Due(k, "w")', Due(k, "r")', FALSE)  BY <1>11, <1>13, <2>2, <2>5, <2>6, <2>7 DEF Flows, Un!Open
  <2> QED  BY <1>10, <1>13, <2>1, <2>2, <2>8
<1> QED  BY <1>9, <1>12, <1>13 DEF Un!HandleTcp

\* Events of UDP sockets.
LEMMA UdpKeeps == ASSUME NetInv, NEW ev \in nat.events, Un!HandleUdp(ev)  PROVE NetInv'
<1> DEFINE k == ev.key
<1>1. Un!At("events") /\ Un!Udp(k) /\ Un!Handled(ev) /\ tcpMap' = tcpMap  BY DEF Un!HandleUdp
<1>2. /\ nat' \in Threads /\ nat'.pc = "events" /\ nat'.events = nat.events \ {ev} /\ nat'.incoming = nat.incoming
      /\ nat.incoming = <<>> /\ nat.pc = "events" /\ k \in Keys
  BY <1>1, Handling
<1>3. ~Un!Tcp(k)  BY <1>1 DEF Un!Tcp, Un!Udp
<1>4. Served'  BY <1>2, NothingToServe
<1>5. ~Late /\ ~Late'  BY <1>2 DEF Late
<1>6. /\ \A e \in nat.events : e \in Events /\ e.key \in Keys /\ (e.fd = "tcp" <=> Un!Tcp(e.key))
      /\ \A e1, e2 \in nat.events : e1.fd = "tcp" /\ e2.fd = "tcp" /\ e1.key = e2.key => e1 = e2
  BY DEF NetInv, NetTypes, Threads, Events, EventsOK
<1>7. ev.fd # "tcp"  BY <1>3, <1>6
<1>8. ASSUME NEW j \in Keys, slab'[j] = slab[j]  PROVE Flow(j)'
  <2>1. (Due(j, "w")' <=> Due(j, "w")) /\ (Due(j, "r")' <=> Due(j, "r"))  BY <1>2, <1>7, <1>8 DEF Due
  <2>2. Un!Tcp(j)' <=> Un!Tcp(j)  BY <1>8 DEF Un!Tcp
  <2>3. Flow(j)  BY DEF NetInv
  <2> QED  BY <1>5, <1>8, <2>1, <2>2, <2>3 DEF Flow, Flows
<1>9. CASE slab' = [slab EXCEPT ![k] = Un!Vacant] /\ udpMap' = [udpMap EXCEPT ![slab[k].remote] = Un!NoKey]
  <2>2. /\ slab' \in [Keys -> Entries] /\ tcpMap' \in [Conns -> Keys \cup {Un!NoKey}]
        /\ udpMap' \in [UdpRemotes -> Keys \cup {Un!NoKey}] /\ Tables'
        /\ slab'[k] = Un!Vacant /\ \A j \in Keys \ {k} : slab'[j] = slab[j]
    BY <1>1, <1>2, <1>9, EntryRemoved
  <2>3. NetTypes'  BY <1>2, <2>2 DEF NetTypes
  <2>4. \A j \in Keys : Un!Tcp(j)' <=> Un!Tcp(j)  BY <1>3, <2>2 DEF Un!Tcp, Un!Vacant
  <2>5. \A e \in nat'.events : e.fd = "tcp" <=> Un!Tcp(e.key)'  BY <1>2, <1>6, <2>4
  <2>6. EventsOK'  BY <1>2, <1>6, <2>5 DEF EventsOK
  <2>7. \A j \in Keys : Flow(j)'
    <3> TAKE j \in Keys
    <3>1. CASE j = k
      <4>1. ~Un!Tcp(j)'  BY <2>2, <3>1 DEF Un!Tcp, Un!Vacant
      <4> QED  BY <4>1 DEF Flow
    <3>2. CASE j # k  BY <1>8, <2>2, <3>2
    <3> QED  BY <3>1, <3>2
  <2> QED  BY <1>4, <2>2, <2>3, <2>6, <2>7 DEF NetInv
<1>10. CASE UNCHANGED <<slab, udpMap>>
  <2>1. NetTypes'  BY <1>1, <1>2, <1>10 DEF NetInv, NetTypes
  <2>2. Tables'  BY <1>1, <1>10 DEF NetInv, Tables, Un!Tcp, Un!Udp
  <2>3. \A e \in nat'.events : e.fd = "tcp" <=> Un!Tcp(e.key)'  BY <1>2, <1>6, <1>10 DEF Un!Tcp
  <2>4. EventsOK'  BY <1>2, <1>6, <2>3 DEF EventsOK
  <2>5. \A j \in Keys : Flow(j)'  BY <1>8, <1>10
  <2> QED  BY <1>4, <2>1, <2>2, <2>4, <2>5 DEF NetInv
<1> QED  BY <1>9, <1>10 DEF Un!HandleUdp

\* A step that changes only where the thread is.
LEMMA GotoKeeps ==
    ASSUME NetInv, NEW pc \in {"events", "packets", "iface", "panicked"}, Un!Goto(pc), UNCHANGED <<slab, tcpMap, udpMap>>,
           pc \notin {"events", "panicked"} => nat.events = {},
           pc \notin {"packets", "iface"} => nat.incoming = <<>>, ~Late
    PROVE  NetInv'
<1>1. nat \in Threads  BY DEF NetInv, NetTypes
<1>2. nat' = [nat EXCEPT !.pc = pc]  BY DEF Un!Goto
<1>3. /\ nat' \in Threads /\ nat'.pc = pc /\ nat'.events = nat.events /\ nat'.incoming = nat.incoming /\ nat'.changed = nat.changed
  BY <1>1, <1>2 DEF Threads
<1>4. NetTypes'  BY <1>3 DEF NetInv, NetTypes
<1>5. Tables'  BY DEF NetInv, Tables, Un!Tcp, Un!Udp
<1>6. EventsOK'
  <2>1. \A ev \in nat'.events : ev.fd = "tcp" <=> Un!Tcp(ev.key)'  BY <1>3 DEF NetInv, EventsOK, Un!Tcp
  <2>2. \A e1, e2 \in nat'.events : e1.fd = "tcp" /\ e2.fd = "tcp" /\ e1.key = e2.key => e1 = e2  BY <1>3 DEF NetInv, EventsOK
  <2> QED  BY <1>3, <2>1, <2>2 DEF EventsOK
<1>7. Served'  BY <1>3 DEF NetInv, Served
<1>8. \A j \in Keys : Flow(j)'  BY <1>3, FlowKept
<1> QED  BY <1>4, <1>5, <1>6, <1>7, <1>8 DEF NetInv

\* An event of a removed entry, and the steps from one part of the loop to the next.
LEMMA MovesKeep ==
    ASSUME NetInv, Un!EventsDone \/ Un!PacketsDone \/ \E ev \in nat.events : Un!HandleStale(ev)
    PROVE  NetInv'
<1>1. CASE Un!EventsDone
  <2>1. nat.pc = "events" /\ nat.events = {} /\ Un!Goto("packets") /\ UNCHANGED <<slab, tcpMap, udpMap>>
    BY <1>1 DEF Un!EventsDone, Un!At
  <2> QED  BY <2>1, GotoKeeps DEF Late
<1>2. CASE Un!PacketsDone
  <2>1. nat.pc = "packets" /\ Un!Goto("iface") /\ UNCHANGED <<slab, tcpMap, udpMap>>  BY <1>2 DEF Un!PacketsDone, Un!At
  <2>2. nat.events = {}  BY <2>1 DEF NetInv, EventsOK
  <2> QED  BY <2>1, <2>2, GotoKeeps DEF Late
<1>3. ASSUME NEW ev \in nat.events, Un!HandleStale(ev)  PROVE NetInv'
  <2>1. nat.pc = "events" /\ slab[ev.key] = Un!Vacant /\ Un!Goto("panicked") /\ UNCHANGED <<slab, tcpMap, udpMap>>
    BY <1>3 DEF Un!HandleStale, Un!At
  <2>2. nat.incoming = <<>>  BY <2>1 DEF NetInv, Served
  <2> QED  BY <2>1, <2>2, GotoKeeps DEF Late
<1> QED  BY <1>1, <1>2, <1>3

\* A socket's error comes, and the thread panics at it.
LEMMA LatePanics == ASSUME NetInv, NEW ev \in nat.events, Un!HandleUdpLate(ev)  PROVE NetInv'
<1> DEFINE k == ev.key
           e == [slab[k] EXCEPT !.err = TRUE]
<1>1. /\ nat.pc = "events" /\ Un!Udp(k) /\ slab' = [slab EXCEPT ![k].err = TRUE]
      /\ nat' = [nat EXCEPT !.pc = "panicked"] /\ UNCHANGED <<tcpMap, udpMap>>
  BY DEF Un!HandleUdpLate, Un!At, Un!Goto
<1>2. nat \in Threads /\ slab \in [Keys -> Entries]  BY DEF NetInv, NetTypes
<1>3. k \in Keys  BY <1>2 DEF Threads, Events
<1>4. slab[k] \in UdpEntries  BY <1>1, <1>3, EntryTyped DEF NetInv
<1>5. /\ e \in UdpEntries /\ e.kind = "udp" /\ e.remote = slab[k].remote /\ e.locals = slab[k].locals
      /\ e.rx = slab[k].rx
  BY <1>4 DEF UdpEntries
<1>6. slab' = [slab EXCEPT ![k] = e]  BY <1>1
<1> HIDE DEF e
<1>7. e \in Entries  BY <1>5 DEF Entries
<1>8. slab' \in [Keys -> Entries] /\ slab'[k] = e /\ \A j \in Keys \ {k} : slab'[j] = slab[j]
  BY <1>2, <1>3, <1>6, <1>7
<1>9. nat' \in Threads /\ nat'.pc = "panicked" /\ nat'.events = nat.events /\ nat'.incoming = nat.incoming
  BY <1>1, <1>2 DEF Threads
<1>10. \A j \in Keys : (Un!Tcp(j)' <=> Un!Tcp(j)) /\ (Un!Udp(j)' <=> Un!Udp(j))
  BY <1>1, <1>5, <1>8 DEF Un!Tcp, Un!Udp
<1>11. ~Un!Tcp(k)  BY <1>1 DEF Un!Tcp, Un!Udp
<1>12. NetTypes'  BY <1>1, <1>8, <1>9 DEF NetInv, NetTypes
<1>13. Tables'
  <2>1. \A j \in Keys : Un!Tcp(j) => slab'[j].conn = slab[j].conn  BY <1>8, <1>11
  <2>2. ASSUME NEW j \in Keys, Un!Udp(j)  PROVE slab'[j].remote = slab[j].remote /\ slab'[j].rx \subseteq slab'[j].locals
    <3>1. slab[j].rx \subseteq slab[j].locals  BY <2>2 DEF NetInv, Tables
    <3> QED  BY <1>5, <1>8, <3>1
  <2> QED  BY <1>1, <1>8, <1>10, <2>1, <2>2, TablesKept
<1>14. EventsOK'
  <2>1. \A d \in nat.events : d.key \in Keys  BY <1>2 DEF Threads, Events
  <2>2. \A d \in nat'.events : d.fd = "tcp" <=> Un!Tcp(d.key)'  BY <1>9, <1>10, <2>1 DEF NetInv, EventsOK
  <2> QED  BY <1>9, <2>2 DEF NetInv, EventsOK
<1>15. Served'
  <2>1. nat'.incoming = <<>>  BY <1>1, <1>9 DEF NetInv, Served
  <2> QED  BY <2>1, NothingToServe
<1>16. \A j \in Keys : Flow(j)'
  <2> TAKE j \in Keys
  <2>1. CASE j = k  BY <1>10, <1>11, <2>1 DEF Flow
  <2>2. CASE j # k
    <3>1. slab'[j] = slab[j] /\ nat'.events = nat.events /\ (Late => Late')  BY <1>1, <1>8, <1>9, <2>2 DEF Late
    <3> QED  BY <3>1, FlowKept
  <2> QED  BY <2>1, <2>2
<1> QED  BY <1>12, <1>13, <1>14, <1>15, <1>16 DEF NetInv

\* A round that ends in a panic leaves the tables as they are.
LEMMA RoundPanics == ASSUME NetInv, Un!UpdatePanics  PROVE NetInv'
<1>1. /\ nat.pc = "iface" /\ nat.incoming = <<>> /\ nat' = [nat EXCEPT !.pc = "panicked"]
      /\ UNCHANGED <<slab, tcpMap, udpMap>>
  BY DEF Un!UpdatePanics, Un!At, Un!Goto
<1>2. nat \in Threads  BY DEF NetInv, NetTypes
<1>3. nat' \in Threads /\ nat'.pc = "panicked" /\ nat'.events = nat.events /\ nat'.incoming = nat.incoming
  BY <1>1, <1>2 DEF Threads
<1>4. NetTypes'  BY <1>1, <1>3 DEF NetInv, NetTypes
<1>5. Tables'  BY <1>1 DEF NetInv, Tables, Un!Tcp, Un!Udp
<1>6. EventsOK'  BY <1>1, <1>3 DEF NetInv, EventsOK, Un!Tcp
<1>7. Served'  BY <1>1, <1>3, NothingToServe
<1>8. \A j \in Keys : Flow(j)'
  <2> TAKE j \in Keys
  <2>1. slab'[j] = slab[j] /\ nat'.events = nat.events /\ (Late => Late')  BY <1>1, <1>3 DEF Late
  <2> QED  BY <2>1, FlowKept
<1> QED  BY <1>4, <1>5, <1>6, <1>7, <1>8 DEF NetInv

\* Taking a packet hands it to the stack; the tables may gain an entry or an endpoint.
LEMMA TakenKeeps ==
    ASSUME NetInv, nat.pc = "packets", nat.chan # <<>>, nat' = Un!Taken, slab' \in [Keys -> Entries],
           tcpMap' \in [Conns -> Keys \cup {Un!NoKey}], udpMap' \in [UdpRemotes -> Keys \cup {Un!NoKey}], Tables',
           \A j \in Keys : slab'[j] = slab[j] \/ (Un!Tcp(j)' => slab'[j].state = "connecting" /\ ~slab'[j].ready /\ slab'[j].in = 0),
           \A r \in UdpRemotes : udpMap[r] # Un!NoKey => udpMap'[r] = udpMap[r],
           \A j \in Keys : Un!Udp(j) => slab[j].locals \subseteq slab'[j].locals,
           Head(nat.chan).kind = "udp" => /\ udpMap'[Head(nat.chan).remote] # Un!NoKey
                                          /\ Head(nat.chan).from \in slab'[udpMap'[Head(nat.chan).remote]].locals
    PROVE  NetInv'
<1> DEFINE p == Head(nat.chan)
           q == nat.incoming
<1>1. nat \in Threads  BY DEF NetInv, NetTypes
<1>2. nat.chan \in Seq(Un!GuestPackets) /\ q \in Seq(Un!GuestPackets)  BY <1>1 DEF Threads
<1>3. p \in Un!GuestPackets /\ Tail(nat.chan) \in Seq(Un!GuestPackets)  BY <1>2, HeadTailProperties
<1>4. /\ Append(q, p) \in Seq(Un!GuestPackets) /\ Len(Append(q, p)) = Len(q) + 1 /\ Append(q, p)[Len(q) + 1] = p
      /\ \A i \in 1 .. Len(q) : Append(q, p)[i] = q[i]
      /\ Len(q) \in Nat
  BY <1>2, <1>3, AppendProperties, LenProperties
<1>5. nat' = [nat EXCEPT !.chan = Tail(@), !.incoming = Append(q, p)]  BY DEF Un!Taken
<1>c. \A i \in 1 .. Len(q) : q[i] \in Un!GuestPackets  BY <1>2
<1> DEFINE a == Append(q, p)
<1>t. Append(q, p) = a  OBVIOUS
<1> HIDE DEF p, q, a
<1>6. /\ nat' \in Threads /\ nat'.pc = nat.pc /\ nat'.events = nat.events /\ nat'.changed = nat.changed
      /\ nat'.incoming = a
  BY <1>1, <1>3, <1>4, <1>5, <1>t DEF Threads
<1>7. NetTypes'  BY <1>6 DEF NetTypes
<1>8. nat.events = {}  BY DEF NetInv, EventsOK
<1>9. EventsOK'  BY <1>6, <1>8 DEF EventsOK
<1>10. Served'
  <2> SUFFICES ASSUME NEW i \in 1 .. Len(a), a[i].kind = "udp"
               PROVE  udpMap'[a[i].remote] # Un!NoKey /\ a[i].from \in slab'[udpMap'[a[i].remote]].locals
    BY <1>6 DEF Served
  <2>1. CASE i = Len(q) + 1
    <3>1. a[i] = p  BY <1>4, <1>t, <2>1
    <3> QED  BY <3>1 DEF p
  <2>2. CASE i # Len(q) + 1
    <3>1. i \in 1 .. Len(q) /\ a[i] = q[i]  BY <1>4, <1>t, <2>2
    <3>2. q[i] \in Un!GuestPackets /\ q[i].kind = "udp"  BY <1>c, <3>1
    <3>3. q[i].remote \in UdpRemotes  BY <3>2 DEF Un!GuestPackets
    <3> DEFINE r == q[i].remote
    <3>4. udpMap[r] # Un!NoKey /\ q[i].from \in slab[udpMap[r]].locals  BY <3>1, <3>2 DEF NetInv, Served, q
    <3>5. udpMap[r] \in Keys /\ Un!Udp(udpMap[r])  BY <3>3, <3>4 DEF NetInv, NetTypes, Tables
    <3>6. udpMap'[r] = udpMap[r]  BY <3>3, <3>4
    <3>7. q[i].from \in slab'[udpMap[r]].locals  BY <3>4, <3>5
    <3> QED  BY <3>1, <3>4, <3>6, <3>7
  <2> QED  BY <2>1, <2>2
<1>11. ASSUME NEW j \in Keys  PROVE Flow(j)'
  <2>1. CASE slab'[j] = slab[j]
    <3>1. Late => Late'  BY <1>6 DEF Late
    <3> QED  BY <1>6, <2>1, <3>1, FlowKept
  <2>2. CASE Un!Tcp(j)' => slab'[j].state = "connecting" /\ ~slab'[j].ready /\ slab'[j].in = 0
    BY <2>2 DEF Flow, Flows
  <2> QED  BY <2>1, <2>2
<1> QED  BY <1>7, <1>9, <1>10, <1>11 DEF NetInv

\* A new connection.
LEMMA OpenTcp ==
    ASSUME Un!NatAssumption, NetInv, NEW k \in Keys, slab[k] = Un!Vacant, NEW c \in Conns, tcpMap[c] = Un!NoKey,
           NEW e \in TcpEntries, e.conn = c, slab' = [slab EXCEPT ![k] = e], tcpMap' = [tcpMap EXCEPT ![c] = k],
           udpMap' = udpMap
    PROVE  /\ slab' \in [Keys -> Entries] /\ tcpMap' \in [Conns -> Keys \cup {Un!NoKey}] /\ Tables'
           /\ slab'[k] = e /\ \A j \in Keys \ {k} : slab'[j] = slab[j]
<1>1. /\ slab \in [Keys -> Entries] /\ tcpMap \in [Conns -> Keys \cup {Un!NoKey}]
      /\ udpMap \in [UdpRemotes -> Keys \cup {Un!NoKey}] /\ Tables
  BY DEF NetInv, NetTypes
<1>2. e \in Entries /\ e.kind = "tcp"  BY DEF Entries, TcpEntries
<1>3. slab' \in [Keys -> Entries] /\ slab'[k] = e /\ \A j \in Keys \ {k} : slab'[j] = slab[j]  BY <1>1, <1>2
<1>4. tcpMap' \in [Conns -> Keys \cup {Un!NoKey}] /\ tcpMap'[c] = k /\ \A d \in Conns \ {c} : tcpMap'[d] = tcpMap[d]  BY <1>1
<1>5. ~Un!Tcp(k) /\ ~Un!Udp(k)  BY DEF Un!Tcp, Un!Udp, Un!Vacant
<1>6. \A j \in Keys : (Un!Tcp(j)' <=> Un!Tcp(j) \/ j = k) /\ (Un!Udp(j)' <=> Un!Udp(j))
  BY <1>2, <1>3, <1>5 DEF Un!Tcp, Un!Udp
<1>7. ASSUME NEW d \in Conns, tcpMap'[d] # Un!NoKey  PROVE Un!Tcp(tcpMap[d])' /\ slab'[tcpMap'[d]].conn = d
  <2>1. CASE d = c  BY <1>2, <1>3, <1>4, <2>1 DEF Un!Tcp
  <2>2. CASE d # c
    <3>1. tcpMap'[d] = tcpMap[d] /\ tcpMap[d] \in Keys  BY <1>1, <1>4, <1>7, <2>2
    <3>2. Un!Tcp(tcpMap[d]) /\ slab[tcpMap[d]].conn = d  BY <1>1, <1>7, <3>1 DEF Tables
    <3>3. slab'[tcpMap[d]] = slab[tcpMap[d]]  BY <1>3, <1>5, <3>1, <3>2
    <3> QED  BY <3>1, <3>2, <3>3 DEF Un!Tcp
  <2> QED  BY <2>1, <2>2
<1>8. ASSUME NEW r \in UdpRemotes, udpMap'[r] # Un!NoKey  PROVE Un!Udp(udpMap[r])' /\ slab'[udpMap'[r]].remote = r
  <2>1. udpMap'[r] = udpMap[r] /\ udpMap[r] \in Keys  BY <1>1, <1>8
  <2>2. Un!Udp(udpMap[r]) /\ slab[udpMap[r]].remote = r  BY <1>1, <1>8, <2>1 DEF Tables
  <2>3. slab'[udpMap[r]] = slab[udpMap[r]]  BY <1>3, <1>5, <2>1, <2>2
  <2> QED  BY <2>1, <2>2, <2>3 DEF Un!Udp
<1>9. ASSUME NEW j \in Keys, Un!Tcp(j)'  PROVE tcpMap'[slab'[j].conn] = j
  <2>1. CASE j = k  BY <1>3, <1>4, <2>1
  <2>2. CASE j # k
    <3>1. Un!Tcp(j) /\ slab'[j] = slab[j]  BY <1>3, <1>6, <1>9, <2>2
    <3>2. tcpMap[slab[j].conn] = j  BY <1>1, <3>1 DEF Tables
    <3>3. slab[j].conn \in Conns
      <4>1. slab[j] \in TcpEntries  BY <3>1, EntryTyped DEF NetInv
      <4> QED  BY <4>1 DEF TcpEntries
    <3>4. slab[j].conn # c  BY <3>2 DEF Un!NatAssumption
    <3> QED  BY <1>4, <3>1, <3>2, <3>3, <3>4
  <2> QED  BY <2>1, <2>2
<1>10. ASSUME NEW j \in Keys, Un!Udp(j)'  PROVE udpMap'[slab'[j].remote] = j /\ slab'[j].rx \subseteq slab'[j].locals
  <2>1. Un!Udp(j) /\ slab'[j] = slab[j]  BY <1>3, <1>5, <1>6, <1>10
  <2>2. udpMap[slab[j].remote] = j /\ slab[j].rx \subseteq slab[j].locals  BY <1>1, <2>1 DEF Tables
  <2> QED  BY <2>1, <2>2
<1>11. Tables'  BY <1>7, <1>8, <1>9, <1>10 DEF Tables
<1> QED  BY <1>3, <1>4, <1>11

\* A new remote endpoint of datagrams.
LEMMA OpenUdp ==
    ASSUME Un!NatAssumption, NetInv, NEW k \in Keys, slab[k] = Un!Vacant, NEW c \in UdpRemotes, udpMap[c] = Un!NoKey,
           NEW e \in UdpEntries, e.remote = c, e.rx = {}, slab' = [slab EXCEPT ![k] = e],
           udpMap' = [udpMap EXCEPT ![c] = k], tcpMap' = tcpMap
    PROVE  /\ slab' \in [Keys -> Entries] /\ udpMap' \in [UdpRemotes -> Keys \cup {Un!NoKey}] /\ Tables'
           /\ slab'[k] = e /\ \A j \in Keys \ {k} : slab'[j] = slab[j]
           /\ udpMap'[c] = k /\ \A d \in UdpRemotes \ {c} : udpMap'[d] = udpMap[d]
<1>1. /\ slab \in [Keys -> Entries] /\ tcpMap \in [Conns -> Keys \cup {Un!NoKey}]
      /\ udpMap \in [UdpRemotes -> Keys \cup {Un!NoKey}] /\ Tables
  BY DEF NetInv, NetTypes
<1>2. e \in Entries /\ e.kind = "udp"  BY DEF Entries, UdpEntries
<1>3. slab' \in [Keys -> Entries] /\ slab'[k] = e /\ \A j \in Keys \ {k} : slab'[j] = slab[j]  BY <1>1, <1>2
<1>4. udpMap' \in [UdpRemotes -> Keys \cup {Un!NoKey}] /\ udpMap'[c] = k /\ \A d \in UdpRemotes \ {c} : udpMap'[d] = udpMap[d]
  BY <1>1
<1>5. ~Un!Tcp(k) /\ ~Un!Udp(k)  BY DEF Un!Tcp, Un!Udp, Un!Vacant
<1>6. \A j \in Keys : (Un!Tcp(j)' <=> Un!Tcp(j)) /\ (Un!Udp(j)' <=> Un!Udp(j) \/ j = k)
  BY <1>2, <1>3, <1>5 DEF Un!Tcp, Un!Udp
<1>7. ASSUME NEW d \in UdpRemotes, udpMap'[d] # Un!NoKey  PROVE Un!Udp(udpMap[d])' /\ slab'[udpMap'[d]].remote = d
  <2>1. CASE d = c  BY <1>2, <1>3, <1>4, <2>1 DEF Un!Udp
  <2>2. CASE d # c
    <3>1. udpMap'[d] = udpMap[d] /\ udpMap[d] \in Keys  BY <1>1, <1>4, <1>7, <2>2
    <3>2. Un!Udp(udpMap[d]) /\ slab[udpMap[d]].remote = d  BY <1>1, <1>7, <3>1 DEF Tables
    <3>3. slab'[udpMap[d]] = slab[udpMap[d]]  BY <1>3, <1>5, <3>1, <3>2
    <3> QED  BY <3>1, <3>2, <3>3 DEF Un!Udp
  <2> QED  BY <2>1, <2>2
<1>8. ASSUME NEW d \in Conns, tcpMap'[d] # Un!NoKey  PROVE Un!Tcp(tcpMap[d])' /\ slab'[tcpMap'[d]].conn = d
  <2>1. tcpMap'[d] = tcpMap[d] /\ tcpMap[d] \in Keys  BY <1>1, <1>8
  <2>2. Un!Tcp(tcpMap[d]) /\ slab[tcpMap[d]].conn = d  BY <1>1, <1>8, <2>1 DEF Tables
  <2>3. slab'[tcpMap[d]] = slab[tcpMap[d]]  BY <1>3, <1>5, <2>1, <2>2
  <2> QED  BY <2>1, <2>2, <2>3 DEF Un!Tcp
<1>9. ASSUME NEW j \in Keys, Un!Udp(j)'  PROVE udpMap'[slab'[j].remote] = j /\ slab'[j].rx \subseteq slab'[j].locals
  <2>1. CASE j = k  BY <1>3, <1>4, <2>1
  <2>2. CASE j # k
    <3>1. Un!Udp(j) /\ slab'[j] = slab[j]  BY <1>3, <1>6, <1>9, <2>2
    <3>2. udpMap[slab[j].remote] = j /\ slab[j].rx \subseteq slab[j].locals  BY <1>1, <3>1 DEF Tables
    <3>3. slab[j].remote \in UdpRemotes
      <4>1. slab[j] \in UdpEntries  BY <3>1, EntryTyped DEF NetInv
      <4> QED  BY <4>1 DEF UdpEntries
    <3>4. slab[j].remote # c  BY <3>2 DEF Un!NatAssumption
    <3> QED  BY <1>4, <3>1, <3>2, <3>3, <3>4
  <2> QED  BY <2>1, <2>2
<1>10. ASSUME NEW j \in Keys, Un!Tcp(j)'  PROVE tcpMap'[slab'[j].conn] = j
  <2>1. Un!Tcp(j) /\ slab'[j] = slab[j]  BY <1>3, <1>5, <1>6, <1>10
  <2>2. tcpMap[slab[j].conn] = j  BY <1>1, <2>1 DEF Tables
  <2> QED  BY <2>1, <2>2
<1>11. Tables'  BY <1>7, <1>8, <1>9, <1>10 DEF Tables
<1> QED  BY <1>3, <1>4, <1>11

\* The packets of the guest.
LEMMA PacketsKeep ==
    ASSUME Un!NatAssumption, NetInv, Un!PassPacket \/ \E k \in Keys : Un!TakePacket(k)
    PROVE  NetInv'
<1> DEFINE p == Head(nat.chan)
<1>1. nat.pc = "packets" /\ nat.chan # <<>> /\ nat' = Un!Taken  BY DEF Un!PassPacket, Un!TakePacket, Un!At
<1>2. p \in Un!GuestPackets
  <2>1. nat.chan \in Seq(Un!GuestPackets)  BY DEF NetInv, NetTypes, Threads
  <2> QED  BY <1>1, <2>1, HeadTailProperties
<1>3. /\ p.kind \in {"syn", "data", "ack"} => p.conn \in Conns
      /\ p.kind = "udp" => p.remote \in UdpRemotes /\ p.from \in Locals
      /\ p.kind \in {"syn", "data", "ack", "udp"}
  BY <1>2 DEF Un!GuestPackets
<1>4. /\ slab \in [Keys -> Entries] /\ tcpMap \in [Conns -> Keys \cup {Un!NoKey}]
      /\ udpMap \in [UdpRemotes -> Keys \cup {Un!NoKey}] /\ Tables
  BY DEF NetInv, NetTypes
<1>5. CASE UNCHANGED <<slab, tcpMap, udpMap>> /\ p.kind # "udp"
  <2>1. Tables'  BY <1>4, <1>5 DEF Tables, Un!Tcp, Un!Udp
  <2> HIDE DEF p
  <2>2. slab' \in [Keys -> Entries] /\ tcpMap' \in [Conns -> Keys \cup {Un!NoKey}] /\ udpMap' \in [UdpRemotes -> Keys \cup {Un!NoKey}]
    BY <1>4, <1>5
  <2>3. /\ \A j \in Keys : slab'[j] = slab[j]
        /\ \A r \in UdpRemotes : udpMap[r] # Un!NoKey => udpMap'[r] = udpMap[r]
        /\ \A j \in Keys : Un!Udp(j) => slab[j].locals \subseteq slab'[j].locals
    BY <1>5
  <2> QED  BY <1>1, <1>5, <2>1, <2>2, <2>3, TakenKeeps DEF p
<1>6. ASSUME p.kind = "syn", NEW k \in Keys, slab[k] = Un!Vacant, Un!EnsureTcp(p.conn, k), UNCHANGED udpMap
      PROVE  NetInv'
  <2>1. CASE tcpMap[p.conn] # Un!NoKey
    <3>1. UNCHANGED <<slab, tcpMap, udpMap>>  BY <1>6, <2>1 DEF Un!EnsureTcp
    <3> QED  BY <1>5, <1>6, <3>1
  <2>2. CASE tcpMap[p.conn] = Un!NoKey
    <3> DEFINE c == p.conn
               e == [kind |-> "tcp", conn |-> c, ready |-> FALSE, state |-> "connecting",
                     in |-> 0, out |-> 0, rx |-> 0, tx |-> 0, bound |-> Un!NoConn, edge |-> {}]
    <3>1. slab' = [slab EXCEPT ![k] = e] /\ tcpMap' = [tcpMap EXCEPT ![c] = k]  BY <1>6, <2>2 DEF Un!EnsureTcp
    <3>2. c \in Conns  BY <1>3, <1>6
    <3>n. tcpMap[c] = Un!NoKey  BY <2>2
    <3> HIDE DEF p, c
    <3>3. /\ e \in TcpEntries /\ e.conn = c /\ e.state = "connecting" /\ ~e.ready /\ e.in = 0
      BY <3>2 DEF TcpEntries, Un!NatAssumption
    <3> HIDE DEF e
    <3>4. /\ slab' \in [Keys -> Entries] /\ tcpMap' \in [Conns -> Keys \cup {Un!NoKey}] /\ Tables'
          /\ slab'[k] = e /\ \A j \in Keys \ {k} : slab'[j] = slab[j]
      BY <1>6, <3>1, <3>2, <3>3, <3>n, OpenTcp
    <3>5. \A j \in Keys : slab'[j] = slab[j] \/ (Un!Tcp(j)' => slab'[j].state = "connecting" /\ ~slab'[j].ready /\ slab'[j].in = 0)
      BY <3>3, <3>4
    <3>6. \A j \in Keys : Un!Udp(j) => slab[j].locals \subseteq slab'[j].locals
      <4>1. ~Un!Udp(k)  BY <1>6 DEF Un!Udp, Un!Vacant
      <4> QED  BY <3>4, <4>1
    <3>7. udpMap' \in [UdpRemotes -> Keys \cup {Un!NoKey}] /\ \A r \in UdpRemotes : udpMap[r] # Un!NoKey => udpMap'[r] = udpMap[r]
      BY <1>4, <1>6
    <3>8. Head(nat.chan).kind # "udp"  BY <1>6 DEF p
    <3> QED  BY <1>1, <3>4, <3>5, <3>6, <3>7, <3>8, TakenKeeps
  <2> QED  BY <2>1, <2>2
<1>7. ASSUME p.kind = "udp", NEW k \in Keys, slab[k] = Un!Vacant \/ udpMap[p.remote] # Un!NoKey,
             Un!EnsureUdp(p.remote, p.from, k), UNCHANGED tcpMap
      PROVE  NetInv'
  <2> DEFINE r == p.remote
             l == p.from
  <2>1. r \in UdpRemotes /\ l \in Locals  BY <1>3, <1>7
  <2>2. CASE udpMap[r] # Un!NoKey
    <3>0. udpMap[r] \in Keys  BY <1>4, <2>1, <2>2
    <3> PICK q \in Keys : q = udpMap[r]  BY <3>0
    <3> DEFINE s == slab[q]
               e == [s EXCEPT !.locals = @ \cup {l}]
    <3>1. slab' = [slab EXCEPT ![q] = e] /\ udpMap' = udpMap  BY <1>7, <2>2 DEF Un!EnsureUdp
    <3>2. q \in Keys /\ Un!Udp(q)  BY <1>4, <2>1, <2>2 DEF Tables
    <3>3. s \in UdpEntries  BY <3>2, EntryTyped DEF NetInv
    <3>d. /\ p.remote = r /\ p.from = l /\ udpMap[r] = q /\ q # Un!NoKey /\ slab[q] = s  BY <2>2
    <3> HIDE DEF p, r, l, s
    <3>4. e \in UdpEntries /\ e.kind = "udp" /\ e.remote = s.remote /\ e.rx = s.rx /\ e.locals = s.locals \cup {l}
      BY <2>1, <3>3 DEF UdpEntries
    <3> HIDE DEF e
    <3>5. e \in Entries  BY <3>4 DEF Entries
    <3>6. slab' \in [Keys -> Entries] /\ slab'[q] = e /\ \A j \in Keys \ {q} : slab'[j] = slab[j]  BY <1>4, <3>1, <3>2, <3>5
    <3>7. ~Un!Tcp(q)' /\ ~Un!Tcp(q) /\ Un!Udp(q)'  BY <3>2, <3>4, <3>6 DEF Un!Tcp, Un!Udp
    <3>8. \A j \in Keys : (Un!Tcp(j)' <=> Un!Tcp(j)) /\ (Un!Udp(j)' <=> Un!Udp(j))
      BY <3>2, <3>6, <3>7 DEF Un!Tcp, Un!Udp
    <3>9. \A j \in Keys : Un!Tcp(j) => slab'[j].conn = slab[j].conn  BY <3>6, <3>7
    <3>10. \A j \in Keys : Un!Udp(j) => /\ slab'[j].remote = slab[j].remote /\ slab'[j].rx \subseteq slab'[j].locals
                                        /\ slab[j].locals \subseteq slab'[j].locals
      <4> SUFFICES ASSUME NEW j \in Keys, Un!Udp(j)
                   PROVE  /\ slab'[j].remote = slab[j].remote /\ slab'[j].rx \subseteq slab'[j].locals
                          /\ slab[j].locals \subseteq slab'[j].locals
        OBVIOUS
      <4>1. slab[j].rx \subseteq slab[j].locals  BY <1>4 DEF Tables
      <4>2. CASE j = q  BY <3>4, <3>6, <3>d, <4>1, <4>2
      <4>3. CASE j # q  BY <3>6, <4>1, <4>3
      <4> QED  BY <4>2, <4>3
    <3>11. Tables'  BY <1>7, <3>1, <3>6, <3>8, <3>9, <3>10, TablesKept
    <3>12. \A j \in Keys : slab'[j] = slab[j] \/ (Un!Tcp(j)' => slab'[j].state = "connecting" /\ ~slab'[j].ready /\ slab'[j].in = 0)
      BY <3>6, <3>7
    <3>13. udpMap'[p.remote] # Un!NoKey /\ p.from \in slab'[udpMap'[p.remote]].locals
      BY <3>1, <3>4, <3>6, <3>d
    <3>14. /\ tcpMap' \in [Conns -> Keys \cup {Un!NoKey}] /\ udpMap' \in [UdpRemotes -> Keys \cup {Un!NoKey}]
           /\ \A d \in UdpRemotes : udpMap[d] # Un!NoKey => udpMap'[d] = udpMap[d]
           /\ \A j \in Keys : Un!Udp(j) => slab[j].locals \subseteq slab'[j].locals
      BY <1>4, <1>7, <3>1, <3>10
    <3> QED  BY <1>1, <3>6, <3>11, <3>12, <3>13, <3>14, TakenKeeps DEF p
  <2>3. CASE udpMap[r] = Un!NoKey
    <3> DEFINE e == [kind |-> "udp", remote |-> r, locals |-> {l}, rx |-> {}, err |-> FALSE, edge |-> {}]
    <3>1. slab' = [slab EXCEPT ![k] = e] /\ udpMap' = [udpMap EXCEPT ![r] = k] /\ slab[k] = Un!Vacant
      BY <1>7, <2>3 DEF Un!EnsureUdp
    <3>d. p.remote = r /\ p.from = l  OBVIOUS
    <3> HIDE DEF p, r, l
    <3>2. e \in UdpEntries /\ e.kind = "udp" /\ e.remote = r /\ e.rx = {} /\ l \in e.locals  BY <2>1 DEF UdpEntries
    <3> HIDE DEF e
    <3>3. /\ slab' \in [Keys -> Entries] /\ udpMap' \in [UdpRemotes -> Keys \cup {Un!NoKey}] /\ Tables'
          /\ slab'[k] = e /\ \A j \in Keys \ {k} : slab'[j] = slab[j]
          /\ udpMap'[r] = k /\ \A d \in UdpRemotes \ {r} : udpMap'[d] = udpMap[d]
      BY <1>7, <2>1, <2>3, <3>1, <3>2, OpenUdp, ZenonT(40)
    <3>4. ~Un!Udp(k) /\ ~Un!Tcp(k)'  BY <3>1, <3>2, <3>3 DEF Un!Udp, Un!Tcp, Un!Vacant
    <3>5. \A j \in Keys : slab'[j] = slab[j] \/ (Un!Tcp(j)' => slab'[j].state = "connecting" /\ ~slab'[j].ready /\ slab'[j].in = 0)
      BY <3>3, <3>4
    <3>6. /\ \A j \in Keys : Un!Udp(j) => slab[j].locals \subseteq slab'[j].locals
          /\ \A d \in UdpRemotes : udpMap[d] # Un!NoKey => udpMap'[d] = udpMap[d]
          /\ tcpMap' \in [Conns -> Keys \cup {Un!NoKey}]
      BY <1>4, <1>7, <2>3, <3>3, <3>4
    <3>7. udpMap'[p.remote] # Un!NoKey /\ p.from \in slab'[udpMap'[p.remote]].locals
      BY <3>2, <3>3, <3>d DEF Un!NatAssumption
    <3> QED  BY <1>1, <3>3, <3>5, <3>6, <3>7, TakenKeeps DEF p
  <2> QED  BY <2>2, <2>3
<1>8. CASE Un!PassPacket
  <2>1. tcpMap' = tcpMap  BY <1>8 DEF Un!PassPacket
  <2>2. \/ p.kind # "udp" /\ UNCHANGED <<slab, udpMap>>
        \/ p.kind = "udp" /\ udpMap[p.remote] # Un!NoKey /\ Un!EnsureUdp(p.remote, p.from, udpMap[p.remote])
    BY <1>8 DEF Un!PassPacket
  <2>3. p.kind = "udp" /\ udpMap[p.remote] # Un!NoKey => udpMap[p.remote] \in Keys  BY <1>3, <1>4
  <2> HIDE DEF p
  <2> QED  BY <1>5, <1>7, <2>1, <2>2, <2>3
<1>9. ASSUME NEW k \in Keys, Un!TakePacket(k)  PROVE NetInv'
  <2>1. slab[k] = Un!Vacant  BY <1>9 DEF Un!TakePacket, Un!FreeKeys
  <2>2. \/ p.kind = "syn" /\ Un!EnsureTcp(p.conn, k) /\ UNCHANGED udpMap
        \/ p.kind = "udp" /\ Un!EnsureUdp(p.remote, p.from, k) /\ UNCHANGED tcpMap
    BY <1>9 DEF Un!TakePacket
  <2> HIDE DEF p
  <2> QED  BY <1>6, <1>7, <2>1, <2>2
<1> QED  BY <1>8, <1>9

\* The stack takes the packets in order; what it leaves of them is still served.
LEMMA Stacked ==
    ASSUME NetInv, nat.pc = "iface", nat.incoming # <<>>, NEW changed \in BOOLEAN,
           nat' = [nat EXCEPT !.incoming = Tail(@), !.changed = changed], udpMap' = udpMap,
           \A j \in Keys : Un!Udp(j) => slab'[j].locals = slab[j].locals
    PROVE  /\ nat' \in Threads /\ nat'.pc = "iface" /\ nat'.events = {} /\ nat.events = {} /\ nat'.changed = changed
           /\ Served' /\ Head(nat.incoming) \in Un!GuestPackets
           /\ Head(nat.incoming).kind = "udp" =>
                LET p == Head(nat.incoming) IN udpMap[p.remote] # Un!NoKey /\ p.from \in slab[udpMap[p.remote]].locals
<1> DEFINE q == nat.incoming
<1>1. nat \in Threads  BY DEF NetInv, NetTypes
<1>2. q \in Seq(Un!GuestPackets) /\ q # <<>>  BY <1>1 DEF Threads
<1>3. /\ Head(q) \in Un!GuestPackets /\ Tail(q) \in Seq(Un!GuestPackets) /\ Len(Tail(q)) = Len(q) - 1
      /\ \A i \in 1 .. Len(Tail(q)) : Tail(q)[i] = q[i + 1]
      /\ Head(q) = q[1] /\ Len(q) \in Nat /\ Len(q) > 0
  BY <1>2, HeadTailProperties, EmptySeq, LenProperties
<1>c. \A i \in 1 .. Len(q) : q[i] \in Un!GuestPackets  BY <1>2
<1> DEFINE a == Tail(q)
<1>t. Tail(q) = a  OBVIOUS
<1>5. nat' = [nat EXCEPT !.incoming = a, !.changed = changed]  OBVIOUS
<1> HIDE DEF q, a
<1>6. nat' \in Threads /\ nat'.pc = "iface" /\ nat'.events = nat.events /\ nat'.changed = changed /\ nat'.incoming = a
  BY <1>1, <1>3, <1>5, <1>t DEF Threads
<1>7. nat.events = {}  BY DEF NetInv, EventsOK
<1>8. ASSUME NEW i \in 1 .. Len(q), q[i].kind = "udp"
      PROVE  udpMap[q[i].remote] # Un!NoKey /\ q[i].from \in slab[udpMap[q[i].remote]].locals
  BY <1>8 DEF NetInv, Served, q
<1>9. Served'
  <2> SUFFICES ASSUME NEW i \in 1 .. Len(a), a[i].kind = "udp"
               PROVE  udpMap'[a[i].remote] # Un!NoKey /\ a[i].from \in slab'[udpMap'[a[i].remote]].locals
    BY <1>6 DEF Served
  <2>1. i + 1 \in 1 .. Len(q) /\ a[i] = q[i + 1]  BY <1>3, <1>t
  <2> DEFINE p == q[i + 1]
             r == p.remote
  <2>2. udpMap[r] # Un!NoKey /\ p.from \in slab[udpMap[r]].locals  BY <1>8, <2>1
  <2>3. p \in Un!GuestPackets /\ p.kind = "udp"  BY <1>c, <2>1
  <2> HIDE DEF p
  <2>4. r \in UdpRemotes  BY <2>3 DEF Un!GuestPackets
  <2>5. udpMap[r] \in Keys /\ Un!Udp(udpMap[r])  BY <2>2, <2>4 DEF NetInv, NetTypes, Tables
  <2>6. p.from \in slab'[udpMap[r]].locals  BY <2>2, <2>5
  <2> QED  BY <2>1, <2>2, <2>6 DEF p
<1>10. 1 \in 1 .. Len(q)  BY <1>3
<1>11. Head(q).kind = "udp" => udpMap[Head(q).remote] # Un!NoKey /\ Head(q).from \in slab[udpMap[Head(q).remote]].locals
  BY <1>3, <1>8, <1>10
<1> QED  BY <1>3, <1>6, <1>7, <1>9, <1>11 DEF q

\* A packet that changes a socket: the update that follows covers the bytes it brings.
LEMMA IfaceKeeps == ASSUME Un!NatAssumption, NetInv, NEW k \in Keys, Un!Iface(k)  PROVE NetInv'
<1> DEFINE p == Head(nat.incoming)
           s == slab[k]
<1>1. /\ nat.pc = "iface" /\ nat.incoming # <<>> /\ UNCHANGED <<tcpMap, udpMap>>
      /\ nat' = [nat EXCEPT !.incoming = Tail(@), !.changed = TRUE]
  BY DEF Un!Iface, Un!At
<1>2. slab \in [Keys -> Entries] /\ Tables /\ NetTypes  BY DEF NetInv, NetTypes
<1>3. ASSUME NEW e \in Entries, slab' = [slab EXCEPT ![k] = e], e.kind = s.kind,
             Un!Tcp(k) => /\ e.conn = s.conn /\ e.edge = s.edge /\ e.state = s.state /\ e.ready = s.ready /\ e.in = s.in,
             Un!Udp(k) => e.remote = s.remote /\ e.locals = s.locals /\ e.rx \subseteq e.locals
      PROVE  NetInv'
  <2>1. slab' \in [Keys -> Entries] /\ slab'[k] = e /\ \A j \in Keys \ {k} : slab'[j] = slab[j]  BY <1>2, <1>3
  <2>2. \A j \in Keys : (Un!Tcp(j)' <=> Un!Tcp(j)) /\ (Un!Udp(j)' <=> Un!Udp(j))  BY <1>3, <2>1 DEF Un!Tcp, Un!Udp
  <2>3. \A j \in Keys : Un!Tcp(j) => slab'[j].conn = slab[j].conn  BY <1>3, <2>1
  <2>4. \A j \in Keys : Un!Udp(j) => /\ slab'[j].remote = slab[j].remote /\ slab'[j].rx \subseteq slab'[j].locals
                                     /\ slab'[j].locals = slab[j].locals
    <3> SUFFICES ASSUME NEW j \in Keys, Un!Udp(j)
                 PROVE  /\ slab'[j].remote = slab[j].remote /\ slab'[j].rx \subseteq slab'[j].locals
                        /\ slab'[j].locals = slab[j].locals
      OBVIOUS
    <3>1. slab[j].rx \subseteq slab[j].locals  BY <1>2 DEF Tables
    <3>2. CASE j = k  BY <1>3, <2>1, <3>2
    <3>3. CASE j # k  BY <2>1, <3>1, <3>3
    <3> QED  BY <3>2, <3>3
  <2>5. Tables'  BY <1>1, <2>1, <2>2, <2>3, <2>4, TablesKept
  <2>6. /\ nat' \in Threads /\ nat'.pc = "iface" /\ nat'.events = {} /\ nat.events = {} /\ nat'.changed = TRUE
        /\ Served'
    BY <1>1, <2>4, Stacked, Zenon
  <2>7. NetTypes'  BY <1>1, <1>2, <2>1, <2>6 DEF NetTypes
  <2>8. EventsOK'  BY <2>6 DEF EventsOK
  <2>9. Late'  BY <2>6 DEF Late
  <2>10. ASSUME NEW j \in Keys  PROVE Flow(j)'
    <3>1. CASE j # k
      <4>1. slab'[j] = slab[j] /\ nat'.events = nat.events  BY <2>1, <2>6, <3>1
      <4> QED  BY <2>9, <4>1, FlowKept
    <3>2. CASE j = k /\ Un!Tcp(k)
      <4>1. Flows(s, Due(k, "w"), Due(k, "r"), Late)  BY <3>2 DEF NetInv, Flow
      <4>2. Due(k, "r")' <=> Due(k, "r")  BY <1>3, <2>1, <2>6, <3>2 DEF Due
      <4> QED  BY <1>3, <2>1, <2>9, <3>2, <4>1, <4>2 DEF Flow, Flows, Un!Open
    <3>3. CASE j = k /\ ~Un!Tcp(k)  BY <2>2, <3>3 DEF Flow
    <3> QED  BY <3>1, <3>2, <3>3
  <2> QED  BY <2>5, <2>6, <2>7, <2>8, <2>10 DEF NetInv
<1>4. p \in Un!GuestPackets
  <2>1. nat.incoming \in Seq(Un!GuestPackets)  BY <1>2 DEF NetTypes, Threads
  <2> QED  BY <1>1, <2>1, HeadTailProperties
<1>5. CASE p.kind # "udp" /\ Un!Accepts(k, p) /\ slab' = [slab EXCEPT ![k] = Un!SmolTcp(@, p)]
  <2> DEFINE e == Un!SmolTcp(s, p)
  <2>1. slab' = [slab EXCEPT ![k] = e]  BY <1>5
  <2>2. Un!Tcp(k) /\ ~Un!Udp(k)  BY <1>5 DEF Un!Accepts, Un!Tcp, Un!Udp
  <2>3. s \in TcpEntries  BY <1>2, <2>2, EntryTyped
  <2>4. p.kind \in {"syn", "data", "ack"} /\ p.conn \in Conns  BY <1>4, <1>5 DEF Un!GuestPackets
  <2> HIDE DEF p, s
  <2>5. /\ e \in TcpEntries /\ e.kind = s.kind /\ e.conn = s.conn /\ e.edge = s.edge /\ e.state = s.state
        /\ e.ready = s.ready /\ e.in = s.in
    <3>1. CASE p.kind = "syn"
      <4>1. e = [s EXCEPT !.bound = p.conn]  BY <3>1 DEF Un!SmolTcp
      <4> QED  BY <2>3, <2>4, <4>1 DEF TcpEntries
    <3>2. CASE p.kind = "data"
      <4> DEFINE n == Un!Min({Cap, s.rx + 1})
      <4>1. e = [s EXCEPT !.rx = n]  BY <3>2 DEF Un!SmolTcp
      <4>2. n \in 0 .. Cap
        <5> DEFINE x == s.rx + 1
        <5>1. n = Min({Cap, x})  BY DEF Un!Min, Min
        <5>2. x \in Nat /\ Cap \in Nat  BY <2>3 DEF TcpEntries, Un!NatAssumption
        <5> HIDE DEF x, n
        <5>3. (n = Cap \/ n = x) /\ n <= Cap  BY <5>1, <5>2, MinOfTwo
        <5> QED  BY <5>2, <5>3
      <4> HIDE DEF n, e
      <4> QED  BY <2>3, <4>1, <4>2 DEF TcpEntries
    <3>3. CASE p.kind = "ack"
      <4>1. e = [s EXCEPT !.tx = 0]  BY <3>3 DEF Un!SmolTcp
      <4>2. 0 \in 0 .. Cap  BY DEF Un!NatAssumption
      <4> QED  BY <2>3, <4>1, <4>2 DEF TcpEntries
    <3> QED  BY <2>4, <3>1, <3>2, <3>3
  <2> HIDE DEF e
  <2>6. e \in Entries  BY <2>5 DEF Entries
  <2> QED  BY <1>3, <2>1, <2>2, <2>5, <2>6 DEF s
<1>6. CASE p.kind = "udp" /\ Un!Udp(k) /\ slab[k].remote = p.remote /\ slab' = [slab EXCEPT ![k].rx = @ \cup {p.from}]
  <2> DEFINE e == [s EXCEPT !.rx = @ \cup {p.from}]
  <2>1. slab' = [slab EXCEPT ![k] = e]  BY <1>6
  <2>2. s \in UdpEntries /\ ~Un!Tcp(k)
    <3>1. s \in UdpEntries  BY <1>2, <1>6, EntryTyped
    <3> QED  BY <1>6, <3>1 DEF Un!Tcp, Un!Udp
  <2>3. p.from \in slab[udpMap[p.remote]].locals
    <3>1. 1 \in 1 .. Len(nat.incoming) /\ p = nat.incoming[1]
      <4>1. nat.incoming \in Seq(Un!GuestPackets)  BY <1>2 DEF NetTypes, Threads
      <4>2. Len(nat.incoming) \in Nat /\ Len(nat.incoming) # 0  BY <1>1, <4>1, EmptySeq, LenProperties
      <4> QED  BY <1>1, <4>1, <4>2, HeadTailProperties
    <3> QED  BY <1>6, <3>1 DEF NetInv, Served
  <2>4. udpMap[s.remote] = k /\ s.rx \subseteq s.locals  BY <1>2, <1>6 DEF Tables
  <2>5. p.from \in s.locals  BY <1>6, <2>3, <2>4
  <2>6. p.from \in Locals  BY <2>2, <2>5 DEF UdpEntries
  <2> HIDE DEF p
  <2>7. /\ e \in UdpEntries /\ e.kind = s.kind /\ e.remote = s.remote /\ e.locals = s.locals /\ e.rx = s.rx \cup {p.from}
    BY <2>2, <2>6 DEF UdpEntries
  <2> HIDE DEF e
  <2>8. e \in Entries  BY <2>7 DEF Entries
  <2> QED  BY <1>3, <1>6, <2>1, <2>2, <2>4, <2>5, <2>7, <2>8
<1> QED  BY <1>5, <1>6 DEF Un!Iface

\* A packet that no socket handles.
LEMMA IgnoredKeeps == ASSUME NetInv, Un!IfaceIgnores  PROVE NetInv'
<1>1. /\ nat.pc = "iface" /\ nat.incoming # <<>> /\ UNCHANGED <<slab, tcpMap, udpMap>>
      /\ nat' = [nat EXCEPT !.incoming = Tail(@)]
  BY DEF Un!IfaceIgnores, Un!At
<1>2. nat \in Threads  BY DEF NetInv, NetTypes
<1>3. nat.changed \in BOOLEAN /\ nat' = [nat EXCEPT !.incoming = Tail(@), !.changed = nat.changed]
  BY <1>1, <1>2 DEF Threads
<1>4. /\ nat' \in Threads /\ nat'.pc = "iface" /\ nat'.events = {} /\ nat.events = {} /\ nat'.changed = nat.changed /\ Served'
  BY <1>1, <1>3, Stacked, Zenon
<1>5. NetTypes'  BY <1>1, <1>4 DEF NetInv, NetTypes
<1>6. Tables'  BY <1>1 DEF NetInv, Tables, Un!Tcp, Un!Udp
<1>7. EventsOK'  BY <1>4 DEF EventsOK
<1>8. ASSUME NEW j \in Keys  PROVE Flow(j)'
  <2>1. slab'[j] = slab[j] /\ nat'.events = nat.events /\ (Late => Late')  BY <1>1, <1>4 DEF Late
  <2> QED  BY <2>1, FlowKept
<1> QED  BY <1>4, <1>5, <1>6, <1>7, <1>8 DEF NetInv

\* What the update makes of an entry: a failed one goes, no byte of another can move.
LEMMA EntryUpdated ==
    ASSUME Un!NatAssumption, NEW e \in Entries
    PROVE  LET u == Un!Updated(e)
           IN  /\ u \in Entries
               /\ e.kind = "tcp" => \/ u = Un!Vacant
                                    \/ /\ u \in TcpEntries /\ u.conn = e.conn /\ u.edge = e.edge /\ u.state = e.state
                                       /\ u.ready = e.ready /\ u.bound = e.bound
                                       /\ Un!Open(e) /\ e.ready => ~(u.rx > 0 /\ u.out < Cap)
                                       /\ Un!Open(e) /\ e.ready => ~(u.in > 0 /\ u.bound # Un!NoConn /\ u.tx < Cap)
                                       /\ ~(Un!Open(e) /\ e.ready) => u.in = e.in
               /\ e.kind = "udp" => u \in UdpEntries /\ u.remote = e.remote /\ u.locals = e.locals /\ u.rx = {}
               /\ e.kind = "vacant" => u = e
<1> DEFINE u == Un!Updated(e)
<1>u. Un!Updated(e) = u  OBVIOUS
<1>k. /\ e.kind = "tcp" <=> e \in TcpEntries
      /\ e.kind = "udp" <=> e \in UdpEntries
      /\ e.kind = "vacant" <=> e = Un!Vacant
      /\ e.kind \in {"tcp", "udp", "vacant"}
  BY EntryKinds
<1>1. CASE e.kind = "tcp"
  <2>1. e \in TcpEntries  BY <1>k, <1>1
  <2>2. CASE Un!ReadsFail(e) \/ Un!WritesFail(e)
    <3>1. u = Un!Vacant  BY <1>1, <2>2 DEF Un!Updated
    <3> HIDE DEF u
    <3> QED  BY <1>u, <1>1, <3>1 DEF Entries
  <2>3. CASE ~(Un!ReadsFail(e) \/ Un!WritesFail(e))
    <3> DEFINE v == Un!PerformReads(e)
               w == Un!PerformWrites(v)
    <3>1. u = w  BY <1>1, <2>3 DEF Un!Updated
    <3>2. /\ v \in TcpEntries /\ v = [e EXCEPT !.in = v.in, !.tx = v.tx]
          /\ Un!Open(e) /\ e.ready => ~(v.in > 0 /\ v.bound # Un!NoConn /\ v.tx < Cap)
          /\ ~(Un!Open(e) /\ e.ready) => v = e
      BY <2>1, ReadsPerformed, Zenon
    <3> HIDE DEF v
    <3>3. /\ v.conn = e.conn /\ v.edge = e.edge /\ v.state = e.state /\ v.ready = e.ready /\ v.bound = e.bound
          /\ Un!Open(v) <=> Un!Open(e)
      BY <2>1, <3>2 DEF TcpEntries, Un!Open
    <3>4. /\ w \in TcpEntries /\ w = [v EXCEPT !.rx = w.rx, !.out = w.out]
          /\ Un!Open(v) /\ v.ready => ~(w.rx > 0 /\ w.out < Cap)
          /\ ~(Un!Open(v) /\ v.ready) => w = v
      BY <3>2, WritesPerformed, Zenon
    <3> HIDE DEF w, u
    <3>5. /\ w.conn = v.conn /\ w.edge = v.edge /\ w.state = v.state /\ w.ready = v.ready /\ w.bound = v.bound
          /\ w.in = v.in /\ w.tx = v.tx
      BY <3>2, <3>4 DEF TcpEntries
    <3>6. w \in Entries  BY <3>4 DEF Entries
    <3>7. ~(Un!Open(e) /\ e.ready) => w.in = e.in  BY <3>2, <3>5
    <3>8. Un!Open(e) /\ e.ready => ~(w.rx > 0 /\ w.out < Cap)  BY <3>3, <3>4
    <3>9. Un!Open(e) /\ e.ready => ~(w.in > 0 /\ w.bound # Un!NoConn /\ w.tx < Cap)  BY <3>2, <3>5
    <3> QED  BY <1>u, <1>1, <3>1, <3>3, <3>4, <3>5, <3>6, <3>7, <3>8, <3>9
  <2> QED  BY <2>2, <2>3
<1>2. CASE e.kind = "udp"
  <2>1. u = [e EXCEPT !.rx = {}]  BY <1>2 DEF Un!Updated
  <2>2. e \in UdpEntries  BY <1>k, <1>2
  <2> HIDE DEF u
  <2>3. u \in UdpEntries /\ u.remote = e.remote /\ u.locals = e.locals /\ u.rx = {}  BY <2>1, <2>2 DEF UdpEntries
  <2>4. u \in Entries  BY <2>3 DEF Entries
  <2> QED  BY <1>u, <1>2, <2>3, <2>4
<1>3. CASE e.kind = "vacant"
  <2>1. u = e  BY <1>3 DEF Un!Updated
  <2> HIDE DEF u
  <2> QED  BY <1>u, <1>3, <2>1
<1> QED  BY <1>k, <1>1, <1>2, <1>3

\* The end of a round: the sockets are updated if the stack reported a change.
LEMMA UpdateKeeps == ASSUME Un!NatAssumption, NetInv, Un!Update  PROVE NetInv'
<1>1. /\ nat.pc = "iface" /\ nat.incoming = <<>> /\ udpMap' = udpMap
      /\ nat' = [nat EXCEPT !.pc = "wait", !.changed = FALSE]
      /\ slab' = IF nat.changed THEN [k \in Keys |-> Un!Updated(slab[k])] ELSE slab
      /\ tcpMap' = [c \in Conns |-> IF tcpMap[c] # Un!NoKey /\ slab'[tcpMap[c]] = Un!Vacant THEN Un!NoKey ELSE tcpMap[c]]
  BY DEF Un!Update, Un!At
<1>2. /\ slab \in [Keys -> Entries] /\ tcpMap \in [Conns -> Keys \cup {Un!NoKey}]
      /\ udpMap \in [UdpRemotes -> Keys \cup {Un!NoKey}] /\ Tables /\ nat \in Threads
  BY DEF NetInv, NetTypes
<1>3. /\ nat' \in Threads /\ nat'.pc = "wait" /\ nat'.events = {} /\ nat.events = {} /\ nat'.incoming = <<>>
  <2>1. nat.events = {}  BY <1>1 DEF NetInv, EventsOK
  <2> QED  BY <1>1, <1>2, <2>1 DEF Threads
<1>4. Served'  BY <1>3, NothingToServe
<1>5. EventsOK'  BY <1>3 DEF EventsOK
<1>6. ~Late'  BY <1>3 DEF Late
<1>7. ASSUME NEW k \in Keys
      PROVE  /\ Un!Tcp(k) => slab[k] \in TcpEntries
             /\ Un!Udp(k) => slab[k] \in UdpEntries
             /\ ~Un!Tcp(k) /\ ~Un!Udp(k) => slab[k] = Un!Vacant
             /\ slab[k] = Un!Vacant => ~Un!Tcp(k) /\ ~Un!Udp(k)
             /\ ~(Un!Tcp(k) /\ Un!Udp(k))
  BY EntryTyped DEF NetInv, Un!Tcp, Un!Udp
<1>8. ASSUME NEW k \in Keys
      PROVE  /\ slab'[k] \in Entries
             /\ Un!Tcp(k) => \/ slab'[k] = Un!Vacant
                             \/ /\ slab'[k] \in TcpEntries /\ slab'[k].conn = slab[k].conn
                                /\ Flows(slab'[k], "w" \in slab'[k].edge, "r" \in slab'[k].edge, FALSE)
             /\ Un!Udp(k) => /\ slab'[k] \in UdpEntries /\ slab'[k].remote = slab[k].remote
                             /\ slab'[k].rx \subseteq slab'[k].locals
             /\ ~Un!Tcp(k) /\ ~Un!Udp(k) => slab'[k] = Un!Vacant
  <2>1. Un!Tcp(k) => Flows(slab[k], "w" \in slab[k].edge, "r" \in slab[k].edge, nat.changed)
    BY <1>1, <1>3 DEF NetInv, Flow, Flows, Due, Late
  <2>2. CASE nat.changed
    <3> DEFINE e == slab[k]
               u == Un!Updated(e)
    <3>1. slab'[k] = u /\ e \in Entries  BY <1>1, <1>2, <2>2
    <3>2. /\ u \in Entries
          /\ e.kind = "tcp" => \/ u = Un!Vacant
                               \/ /\ u \in TcpEntries /\ u.conn = e.conn /\ u.edge = e.edge /\ u.state = e.state
                                  /\ u.ready = e.ready /\ u.bound = e.bound
                                  /\ Un!Open(e) /\ e.ready => ~(u.rx > 0 /\ u.out < Cap)
                                  /\ Un!Open(e) /\ e.ready => ~(u.in > 0 /\ u.bound # Un!NoConn /\ u.tx < Cap)
                                  /\ ~(Un!Open(e) /\ e.ready) => u.in = e.in
          /\ e.kind = "udp" => u \in UdpEntries /\ u.remote = e.remote /\ u.locals = e.locals /\ u.rx = {}
          /\ e.kind = "vacant" => u = e
      BY <3>1, EntryUpdated
    <3> HIDE DEF u
    <3>3. CASE Un!Tcp(k)
      <4>1. e.kind = "tcp" /\ ~Un!Udp(k)  BY <3>3 DEF Un!Tcp, Un!Udp
      <4>2. CASE u = Un!Vacant  BY <3>1, <3>2, <3>3, <4>1, <4>2
      <4>3. CASE u # Un!Vacant
        <5>1. Flows(u, "w" \in u.edge, "r" \in u.edge, FALSE)  BY <2>1, <3>2, <3>3, <4>1, <4>3 DEF Flows, Un!Open
        <5> QED  BY <3>1, <3>2, <3>3, <4>1, <4>3, <5>1
      <4> QED  BY <4>2, <4>3
    <3>4. CASE Un!Udp(k)
      <4>1. e.kind = "udp" /\ ~Un!Tcp(k)  BY <3>4 DEF Un!Tcp, Un!Udp
      <4> QED  BY <3>1, <3>2, <3>4, <4>1
    <3>5. CASE ~Un!Tcp(k) /\ ~Un!Udp(k)
      <4>1. e = Un!Vacant  BY <1>7, <3>5
      <4>2. e.kind = "vacant"  BY <4>1 DEF Un!Vacant
      <4> QED  BY <3>1, <3>2, <3>5, <4>1, <4>2
    <3> QED  BY <3>3, <3>4, <3>5
  <2>3. CASE ~nat.changed
    <3>1. slab'[k] = slab[k] /\ slab[k] \in Entries  BY <1>1, <1>2, <2>3
    <3>2. Un!Udp(k) => slab[k].rx \subseteq slab[k].locals  BY <1>2 DEF Tables
    <3>3. Un!Tcp(k) => Flows(slab[k], "w" \in slab[k].edge, "r" \in slab[k].edge, FALSE)  BY <2>1, <2>3 DEF Flows
    <3> QED  BY <1>7, <3>1, <3>2, <3>3
  <2> QED  BY <2>2, <2>3
<1>9. slab' \in [Keys -> Entries]
  <2>1. slab' = [k \in Keys |-> slab'[k]]
    <3>1. CASE nat.changed  BY <1>1, <3>1
    <3>2. CASE ~nat.changed  BY <1>1, <1>2, <3>2
    <3> QED  BY <3>1, <3>2
  <2> QED  BY <1>8, <2>1
<1>10. ASSUME NEW c \in Conns
       PROVE  tcpMap'[c] = IF tcpMap[c] # Un!NoKey /\ slab'[tcpMap[c]] = Un!Vacant THEN Un!NoKey ELSE tcpMap[c]
  BY <1>1
<1>11. tcpMap' \in [Conns -> Keys \cup {Un!NoKey}]
  <2>1. tcpMap' = [c \in Conns |-> tcpMap'[c]]  BY <1>1
  <2>2. \A c \in Conns : tcpMap'[c] \in Keys \cup {Un!NoKey}  BY <1>2, <1>10
  <2> QED  BY <2>1, <2>2
<1>12. NetTypes'  BY <1>1, <1>2, <1>3, <1>9, <1>11 DEF NetTypes
<1>13. ASSUME NEW k \in Keys
       PROVE  /\ Un!Tcp(k)' <=> Un!Tcp(k) /\ slab'[k] # Un!Vacant
              /\ Un!Udp(k)' <=> Un!Udp(k)
  <2>1. CASE Un!Tcp(k)
    <3>1. slab'[k] = Un!Vacant \/ slab'[k] \in TcpEntries  BY <1>8, <2>1
    <3>2. slab'[k] = Un!Vacant => slab'[k].kind = "vacant"  BY DEF Un!Vacant
    <3>3. slab'[k] \in TcpEntries => slab'[k].kind = "tcp" /\ slab'[k] # Un!Vacant  BY DEF TcpEntries, Un!Vacant
    <3> QED  BY <2>1, <3>1, <3>2, <3>3 DEF Un!Tcp, Un!Udp
  <2>2. CASE Un!Udp(k)
    <3>1. slab'[k] \in UdpEntries  BY <1>8, <2>2
    <3>2. slab'[k].kind = "udp"  BY <3>1 DEF UdpEntries
    <3> QED  BY <2>2, <3>2 DEF Un!Tcp, Un!Udp
  <2>3. CASE ~Un!Tcp(k) /\ ~Un!Udp(k)
    <3>1. slab'[k] = Un!Vacant  BY <1>8, <2>3
    <3>2. slab'[k].kind = "vacant"  BY <3>1 DEF Un!Vacant
    <3> QED  BY <2>3, <3>1, <3>2 DEF Un!Tcp, Un!Udp
  <2> QED  BY <2>1, <2>2, <2>3
<1>14. Tables'
  <2>1. ASSUME NEW c \in Conns, tcpMap'[c] # Un!NoKey  PROVE Un!Tcp(tcpMap[c])' /\ slab'[tcpMap'[c]].conn = c
    <3>1. tcpMap'[c] = tcpMap[c] /\ tcpMap[c] \in Keys /\ slab'[tcpMap[c]] # Un!Vacant  BY <1>2, <1>10, <2>1
    <3>2. Un!Tcp(tcpMap[c]) /\ slab[tcpMap[c]].conn = c  BY <1>2, <2>1, <3>1 DEF Tables
    <3>3. PICK k \in Keys : k = tcpMap[c]  BY <3>1
    <3>4. Un!Tcp(k)' /\ slab'[k].conn = slab[k].conn  BY <1>8, <1>13, <3>1, <3>2, <3>3
    <3> QED  BY <3>1, <3>2, <3>3, <3>4 DEF Un!Tcp
  <2>2. ASSUME NEW r \in UdpRemotes, udpMap'[r] # Un!NoKey  PROVE Un!Udp(udpMap[r])' /\ slab'[udpMap'[r]].remote = r
    <3>1. udpMap'[r] = udpMap[r] /\ udpMap[r] \in Keys  BY <1>1, <1>2, <2>2
    <3>2. Un!Udp(udpMap[r]) /\ slab[udpMap[r]].remote = r  BY <1>2, <2>2, <3>1 DEF Tables
    <3>3. PICK k \in Keys : k = udpMap[r]  BY <3>1
    <3>4. Un!Udp(k)' /\ slab'[k].remote = slab[k].remote  BY <1>8, <1>13, <3>2, <3>3
    <3> QED  BY <3>1, <3>2, <3>3, <3>4 DEF Un!Udp
  <2>3. ASSUME NEW k \in Keys, Un!Tcp(k)'  PROVE tcpMap'[slab'[k].conn] = k
    <3>1. Un!Tcp(k) /\ slab'[k] # Un!Vacant  BY <1>13, <2>3
    <3>2. slab'[k].conn = slab[k].conn  BY <1>8, <3>1
    <3>3. tcpMap[slab[k].conn] = k  BY <1>2, <3>1 DEF Tables
    <3>4. slab[k].conn \in Conns
      <4>1. slab[k] \in TcpEntries  BY <1>7, <3>1
      <4> QED  BY <4>1 DEF TcpEntries
    <3> QED  BY <1>10, <3>1, <3>2, <3>3, <3>4
  <2>4. ASSUME NEW k \in Keys, Un!Udp(k)'  PROVE udpMap'[slab'[k].remote] = k /\ slab'[k].rx \subseteq slab'[k].locals
    <3>1. Un!Udp(k)  BY <1>13, <2>4
    <3>2. udpMap[slab[k].remote] = k  BY <1>2, <3>1 DEF Tables
    <3> QED  BY <1>1, <1>8, <3>1, <3>2
  <2> QED  BY <2>1, <2>2, <2>3, <2>4 DEF Tables
<1>15. ASSUME NEW k \in Keys  PROVE Flow(k)'
  <2> SUFFICES ASSUME Un!Tcp(k)'  PROVE Flows(slab'[k], Due(k, "w")', Due(k, "r")', Late')  BY DEF Flow
  <2>1. Flows(slab'[k], "w" \in slab'[k].edge, "r" \in slab'[k].edge, FALSE)  BY <1>8, <1>13
  <2> QED  BY <2>1 DEF Flows, Due
<1> QED  BY <1>4, <1>5, <1>12, <1>14, <1>15 DEF NetInv

\* Every step keeps the invariant.
LEMMA NetStep == ASSUME Un!NatAssumption, NetInv, [Un!Next]_(Un!natVars)  PROVE NetInv'
<1>1. CASE Un!Next
  <2>1. CASE \E k \in Keys : Un!HostConnects(k) \/ Un!HostWakes(k) \/ Un!HostCloses(k) \/ Un!HostFails(k)
                            \/ Un!HostReceives(k) \/ Un!HostSends(k)
    BY <2>1, HostKeeps
  <2>2. CASE \E k \in Keys, l \in Locals, err \in BOOLEAN : Un!HostUdp(k, l, err)  BY <2>2, HostKeeps
  <2>3. CASE \E p \in Un!GuestPackets : Un!GuestSends(p)  BY <2>3, GuestKeeps
  <2>4. CASE Un!Wait  BY <2>4, WaitKeeps
  <2>5. CASE \E ev \in nat.events : Un!HandleTcp(ev) \/ Un!HandleUdp(ev) \/ Un!HandleUdpLate(ev) \/ Un!HandleStale(ev)
    BY <2>5, TcpKeeps, UdpKeeps, LatePanics, MovesKeep
  <2>6. CASE Un!EventsDone \/ Un!PacketsDone  BY <2>6, MovesKeep
  <2>7. CASE Un!PassPacket \/ \E k \in Keys : Un!TakePacket(k)  BY <2>7, PacketsKeep
  <2>8. CASE \E k \in Keys : Un!Iface(k)  BY <2>8, IfaceKeeps
  <2>9. CASE Un!IfaceIgnores  BY <2>9, IgnoredKeeps
  <2>10. CASE Un!Update \/ Un!UpdatePanics  BY <2>10, UpdateKeeps, RoundPanics
  <2> QED  BY <1>1, <2>1, <2>2, <2>3, <2>4, <2>5, <2>6, <2>7, <2>8, <2>9, <2>10 DEF Un!Next
<1>2. CASE UNCHANGED Un!natVars
  <2>1. UNCHANGED <<slab, tcpMap, udpMap, nat>>  BY <1>2 DEF Un!natVars
  <2>2. NetTypes'  BY <2>1 DEF NetInv, NetTypes
  <2>3. Tables'  BY <2>1 DEF NetInv, Tables, Un!Tcp, Un!Udp
  <2>4. EventsOK'  BY <2>1 DEF NetInv, EventsOK, Un!Tcp
  <2>5. Served'  BY <2>1 DEF NetInv, Served
  <2>6. \A k \in Keys : Flow(k)'
    <3> TAKE k \in Keys
    <3>1. slab'[k] = slab[k] /\ nat'.events = nat.events /\ (Late => Late')  BY <2>1 DEF Late
    <3> QED  BY <3>1, FlowKept
  <2> QED  BY <2>2, <2>3, <2>4, <2>5, <2>6 DEF NetInv
<1> QED  BY <1>1, <1>2

\* Every step keeps what the thread can have panicked over.
LEMMA PanicStep == ASSUME NetInv, Panicked, [Un!Next]_(Un!natVars)  PROVE Panicked'
<1>1. nat \in Threads /\ slab \in [Keys -> Entries]  BY DEF NetInv, NetTypes
<1>2. \A ev \in nat.events : ev.key \in Keys  BY <1>1 DEF Threads, Events
<1>3. CASE nat'.pc # "panicked"  BY <1>3 DEF Panicked
<1>4. ASSUME slab' = slab, nat'.events = nat.events, nat.pc = "panicked"  PROVE Panicked'
  BY <1>4 DEF Panicked, Un!ErrorPending, Un!Udp
<1>5. ASSUME NEW k \in Keys, NEW e,
             slab[k].kind = "tcp" \/ (slab[k].kind = "udp" /\ e.kind = "udp" /\ (slab[k].err => e.err)),
             slab' = [slab EXCEPT ![k] = e], nat' = nat, nat.pc = "panicked"
      PROVE  Panicked'
  <2>1. slab'[k] = e /\ \A j \in Keys \ {k} : slab'[j] = slab[j]  BY <1>1, <1>5
  <2>2. slab[k] # Un!Vacant  BY <1>5 DEF Un!Vacant
  <2>3. ASSUME NEW ev \in nat.events, slab[ev.key] = Un!Vacant, ev.fd # "tcp"  PROVE Panicked'
    <3>1. slab'[ev.key] = Un!Vacant  BY <1>2, <2>1, <2>2, <2>3
    <3> QED  BY <1>5, <2>3, <3>1 DEF Panicked
  <2>4. ASSUME NEW j \in Keys, Un!Udp(j), slab[j].err  PROVE Panicked'
    <3>1. slab'[j].kind = "udp" /\ slab'[j].err  BY <1>5, <2>1, <2>4 DEF Un!Udp
    <3> QED  BY <3>1 DEF Panicked, Un!ErrorPending, Un!Udp
  <2> QED  BY <1>5, <2>3, <2>4 DEF Panicked, Un!ErrorPending
<1>6. CASE Un!Next /\ nat'.pc = "panicked"
  <2>1. CASE \E k \in Keys : Un!HostConnects(k) \/ Un!HostWakes(k) \/ Un!HostCloses(k) \/ Un!HostFails(k)
                            \/ Un!HostReceives(k) \/ Un!HostSends(k)
    <3>1. PICK k \in Keys : \E e : Un!Tcp(k) /\ Un!Host(k, e)
      BY <2>1 DEF Un!HostConnects, Un!HostWakes, Un!HostCloses, Un!HostFails, Un!HostReceives, Un!HostSends
    <3>2. PICK e : Un!Tcp(k) /\ Un!Host(k, e)  BY <3>1
    <3>3. slab[k].kind = "tcp" /\ slab' = [slab EXCEPT ![k] = e] /\ nat' = nat  BY <3>2 DEF Un!Host, Un!Tcp
    <3>4. nat.pc = "panicked"  BY <1>6, <3>3
    <3> QED  BY <1>5, <3>3, <3>4
  <2>2. CASE \E k \in Keys, l \in Locals, err \in BOOLEAN : Un!HostUdp(k, l, err)
    <3> PICK k \in Keys, l \in Locals, err \in BOOLEAN : Un!HostUdp(k, l, err)  BY <2>2
    <3> DEFINE s == slab[k]
               bad == s.err \/ err
               e == [s EXCEPT !.edge = @ \cup {l}, !.err = bad]
    <3>1. Un!Udp(k) /\ Un!Host(k, e)  BY Zenon DEF Un!HostUdp
    <3>2. s \in UdpEntries  BY <3>1, EntryTyped DEF NetInv
    <3>3. e.kind = "udp" /\ e.err = bad  BY <3>2 DEF UdpEntries
    <3>4. s.err => bad  OBVIOUS
    <3> HIDE DEF e, bad
    <3>5. s.err => e.err  BY <3>3, <3>4
    <3> HIDE DEF s
    <3> QED  BY <1>5, <1>6, <3>1, <3>3, <3>5 DEF Un!Host, Un!Udp, s
  <2>3. CASE \E p \in Un!GuestPackets : Un!GuestSends(p)
    BY <1>1, <1>4, <1>6, <2>3 DEF Un!GuestSends, Threads
  <2>4. CASE Un!Wait  BY <1>1, <1>6, <2>4 DEF Un!Wait, Threads
  <2>5. CASE \E ev \in nat.events : Un!HandleTcp(ev) \/ Un!HandleUdp(ev)
    BY <1>1, <1>6, <2>5 DEF Un!HandleTcp, Un!HandleUdp, Un!Handled, Un!At, Threads
  <2>6. ASSUME NEW ev \in nat.events, Un!HandleUdpLate(ev)  PROVE Panicked'
    <3>1. Un!Udp(ev.key) /\ slab' = [slab EXCEPT ![ev.key].err = TRUE]  BY <2>6 DEF Un!HandleUdpLate
    <3>2. slab[ev.key] \in UdpEntries  BY <1>2, <3>1, EntryTyped DEF NetInv
    <3>3. slab'[ev.key].kind = "udp" /\ slab'[ev.key].err  BY <1>1, <1>2, <3>1, <3>2 DEF UdpEntries
    <3> QED  BY <1>2, <3>3 DEF Panicked, Un!ErrorPending, Un!Udp
  <2>7. ASSUME NEW ev \in nat.events, Un!HandleStale(ev)  PROVE Panicked'
    <3>1. slab[ev.key] = Un!Vacant /\ slab' = slab /\ nat' = [nat EXCEPT !.pc = "panicked"]
      BY <2>7 DEF Un!HandleStale, Un!Goto
    <3>2. nat'.events = nat.events  BY <1>1, <3>1 DEF Threads
    <3>3. ev.fd # "tcp"  BY <3>1 DEF NetInv, EventsOK, Un!Tcp, Un!Vacant
    <3> QED  BY <3>1, <3>2, <3>3 DEF Panicked
  <2>8. CASE Un!EventsDone \/ Un!PacketsDone
    BY <1>1, <1>6, <2>8 DEF Un!EventsDone, Un!PacketsDone, Un!Goto, Threads
  <2>9. CASE Un!PassPacket \/ \E k \in Keys : Un!TakePacket(k)
    BY <1>1, <1>6, <2>9 DEF Un!PassPacket, Un!TakePacket, Un!Taken, Un!At, Threads
  <2>10. CASE Un!IfaceIgnores \/ \E k \in Keys : Un!Iface(k)
    BY <1>1, <1>6, <2>10 DEF Un!IfaceIgnores, Un!Iface, Un!At, Threads
  <2>11. CASE Un!Update  BY <1>1, <1>6, <2>11 DEF Un!Update, Threads
  <2>12. CASE Un!UpdatePanics  BY <2>12 DEF Un!UpdatePanics, Panicked, Un!ErrorPending, Un!Udp
  <2> QED  BY <1>6, <2>1, <2>2, <2>3, <2>4, <2>5, <2>6, <2>7, <2>8, <2>9, <2>10, <2>11, <2>12 DEF Un!Next
<1>7. CASE UNCHANGED Un!natVars
  <2>1. slab' = slab /\ nat' = nat  BY <1>7 DEF Un!natVars
  <2> QED  BY <1>3, <1>4, <2>1
<1> QED  BY <1>3, <1>6, <1>7

\* The mappings and the entries agree, no event of a TCP socket finds its entry gone, the
\* thread panics only at a stale event or an unexpected error of a UDP socket, and until it
\* does no byte waits for an edge that has been used up (handle_event, perform_reads,
\* ensure_tcp_socket_for, ensure_udp_socket_for and update_backing_sockets in net/unat.rs).
THEOREM NatServesConnections == Un!NatAssumption /\ DevicesSpec => []NatConsistent
<1>1. ASSUME Un!NatAssumption, NetInv, Panicked  PROVE NatConsistent
  <2>1. Un!TablesAgree  BY <1>1 DEF NetInv, Tables, Panicked, Un!TablesAgree
  <2>2. Un!NoStall
    <3> SUFFICES ASSUME nat.pc = "wait", NEW k \in Keys, Un!Tcp(k), Un!Open(slab[k]), slab[k].ready
                 PROVE  /\ slab[k].rx > 0 => slab[k].out = Cap \/ "w" \in slab[k].edge
                        /\ slab[k].in > 0 /\ slab[k].bound # Un!NoConn => slab[k].tx = Cap \/ "r" \in slab[k].edge
      BY DEF Un!NoStall, Un!At
    <3>1. nat.events = {} /\ ~Late  BY <1>1 DEF NetInv, EventsOK, Late
    <3>2. Flows(slab[k], "w" \in slab[k].edge, "r" \in slab[k].edge, FALSE)
      BY <1>1, <3>1 DEF NetInv, Flow, Flows, Due
    <3>3. slab[k] \in TcpEntries  BY <1>1, EntryTyped DEF NetInv
    <3>4. slab[k].out \in 0 .. Cap /\ slab[k].tx \in 0 .. Cap /\ Cap \in Nat  BY <1>1, <3>3 DEF TcpEntries, Un!NatAssumption
    <3> QED  BY <3>2, <3>4 DEF Flows
  <2> QED  BY <2>1, <2>2 DEF NatConsistent, Un!NatConsistent
<1> SUFFICES ASSUME Un!NatAssumption  PROVE DevicesSpec => []NatConsistent
  OBVIOUS
<1>2. Un!Init => NetInv /\ Panicked
  <2>1. Un!Init => Panicked  BY DEF Un!Init, Panicked
  <2> QED  BY <2>1, NetStarts
<1>3. NetInv /\ Panicked /\ [Un!Next]_(Un!natVars) => (NetInv /\ Panicked)'
  <2>1. NetInv /\ Panicked /\ [Un!Next]_(Un!natVars) => NetInv'  BY NetStep
  <2>2. NetInv /\ Panicked /\ [Un!Next]_(Un!natVars) => Panicked'  BY PanicStep
  <2> QED  BY <2>1, <2>2
<1>4. NetInv /\ Panicked => NatConsistent  BY <1>1
<1> QED  BY <1>2, <1>3, <1>4, NatRuns, PTL DEF Un!Spec

-----------------------------------------------------------------------------
(* The network card.                                                       *)

\* What Devices does to the network card is a behaviour of the network card.
LEMMA CardRuns == DevicesSpec => Eth!Spec
<1>1. DevicesInit => Eth!Init  BY DEF DevicesInit, PowerOnDevices
<1>2. [DevicesNext]_devicesVars => [Eth!Next]_(Eth!ne2kVars)
  BY DEF DevicesNext, devicesVars, ethVars, Eth!ne2kVars
<1> QED  BY <1>1, <1>2, PTL DEF DevicesSpec, Eth!Spec

Round     == PStop - PStart
RingPages == PStart .. PStop - 1
RingUnits == PStart * U .. PStop * U - 1
EthFrames == [id : Nat, len : Lengths, ours : BOOLEAN]
Headers   == [next : Nat, len : Nat]
Units     == Headers \cup (Nat \X Nat) \cup {"empty"}
InRing    == [frame : EthFrames, page : RingPages]
Causes    == {"reset", "received", "transmitted", "dma"}
Phases    == {"bios", "down", "stopped", "idle", "isr", "ack", "ring", "frame", "data", "read"}
Cards     ==
    [stop : BOOLEAN, isr : SUBSET Causes, imr : SUBSET Causes, rxIrq : BOOLEAN, line : Lines \cup {1},
     natLine : Lines \cup {1}, pulses : SUBSET (Lines \cup {1}), pstart : Nat, pstop : Nat, bnry : Nat,
     curr : Nat, dma : Nat, bytes : Nat, ram : [RingUnits -> Units]]
Links     == [chan : Seq(EthFrames), notify : BOOLEAN, sent : Nat]
Guests    == [phase : Phases, next : Nat, val : SUBSET Causes, got : Seq(Units)]

EthTypes ==
    /\ card \in Cards /\ link \in Links /\ guest \in Guests
    /\ stored \in Seq(InRing) /\ dropped \in BOOLEAN

Before(n)   == IF n = PStart THEN PStop - 1 ELSE n - 1
Ahead(n, p) == IF p >= n THEN p - n ELSE p - n + Round
Wrap(a)     == IF a >= PStop * U THEN a - Round * U ELSE a

NextOf(c, s, i) == IF i = Len(s) THEN c.curr ELSE s[i + 1].page

FrameAt(c, s, n, i) ==
    LET f == s[i].frame
        p == s[i].page
    IN  /\ c.ram[p * U] = [next |-> NextOf(c, s, i), len |-> f.len + 1]
        /\ \A k \in 1 .. f.len : c.ram[Wrap(p * U + k)] = <<f.id, k>>
        /\ Ahead(n, p) + Eth!Pages(f) = Ahead(n, NextOf(c, s, i))
        /\ Ahead(n, p) + Eth!Pages(f) <= Ahead(n, c.curr)

RingOK(c, s, n) ==
    /\ c.pstart = PStart /\ c.pstop = PStop /\ c.curr \in RingPages /\ n \in RingPages
    /\ \/ c.bnry = n
       \/ c.bnry = Before(n) /\ Ahead(n, c.curr) <= Round - 2
    /\ s # <<>> => s[1].page = n
    /\ s = <<>> => c.curr = n
    /\ \A i \in 1 .. Len(s) : FrameAt(c, s, n, i)
    /\ \A i, j \in 1 .. Len(s) : i < j => Ahead(n, s[i].page) + Eth!Pages(s[i].frame) <= Ahead(n, s[j].page)

Reading(c, s, g) ==
    LET m == Len(g.got)
        f == s[1].frame
    IN  /\ s # <<>>
        /\ \A k \in 1 .. m : g.got[k] = c.ram[Wrap(g.next * U + k - 1)]
        /\ g.phase = "frame" => m = 0
        /\ g.phase = "data" => m <= f.len /\ c.dma = Wrap(g.next * U + m) /\ c.bytes = f.len + 1 - m
        /\ g.phase = "read" => m = f.len + 1

Up == guest.phase \notin {"bios", "down"}

Waiting == card.rxIrq /\ ~link.notify /\ ~dropped /\ (link.chan # <<>> \/ stored # <<>>)

EthInv ==
    /\ EthTypes
    /\ IF Up THEN RingOK(card, stored, guest.next) ELSE stored = <<>>
    /\ guest.phase \in {"frame", "data", "read"} => Reading(card, stored, guest)
    /\ guest.phase \in {"bios", "down", "stopped"} => card.stop
    /\ guest.phase # "bios" => card.natLine = card.line
    /\ guest.phase \in {"stopped", "idle", "isr"} /\ stored # <<>> => "received" \in card.isr
    /\ guest.phase \in {"stopped", "idle"} /\ Waiting => card.line \in card.pulses

\* The pages a frame takes hold its header and its units.
LEMMA PagesOfFrame ==
    ASSUME Eth!Ne2kAssumption, NEW f \in EthFrames
    PROVE  Eth!Pages(f) \in Nat /\ Eth!Pages(f) >= 1 /\ f.len \in Nat /\ f.len + 2 <= Eth!Pages(f) * U
<1>0. f.len \in Lengths  BY DEF EthFrames
<1>1. f.len \in Nat /\ U \in Nat /\ U >= 1
  <2>1. f.len \in Nat  BY <1>0 DEF Eth!Ne2kAssumption
  <2>2. U \in Nat /\ U >= 1  BY DEF Eth!Ne2kAssumption
  <2> QED  BY <2>1, <2>2
<1> DEFINE x == f.len + 2 + U - 1
           q == x \div U
<1>2. x \in Nat /\ x >= f.len + 1 + U /\ x >= U  BY <1>1
<1>3. x = f.len + 1 + U  BY <1>1
<1>4. q \in Nat /\ q >= 1 /\ q * U > x - U
  <2> HIDE DEF x
  <2>1. q \in Int /\ q * U <= x /\ x < q * U + U  BY <1>1, <1>2, Z3
  <2> HIDE DEF q
  <2>2. q >= 1
    <3>1. SUFFICES ASSUME q <= 0 PROVE FALSE  BY <2>1
    <3>2. q * U <= 0  BY <1>1, <2>1, <3>1, Z3
    <3> QED  BY <1>1, <1>2, <2>1, <3>2, Z3
  <2> QED  BY <1>1, <1>2, <2>1, <2>2
<1>5. q = Eth!Pages(f)  BY DEF Eth!Pages
<1> HIDE DEF q
<1>6. q * U \in Int  BY <1>1, <1>4
<1> QED  BY <1>1, <1>3, <1>4, <1>5, <1>6

\* The units from unit n * U to unit a, around the ring.
AheadUnits(n, a) == IF a >= n * U THEN a - n * U ELSE a - n * U + Round * U

\* Products with the size of a page, as the order of pages goes.
LEMMA UnitsOfPages ==
    ASSUME Eth!Ne2kAssumption
    PROVE  /\ \A p \in Nat : p * U \in Nat
           /\ \A p, q \in Nat : p <= q => p * U <= q * U
           /\ \A p, q \in Nat : p < q => p * U + U <= q * U
           /\ \A p, q \in Int : (p + q) * U = p * U + q * U /\ (p - q) * U = p * U - q * U
           /\ Round \in Nat \ {0} /\ Round * U = PStop * U - PStart * U /\ Round * U \in Nat
<1>1. U \in Nat /\ U >= 1 /\ PStart \in Nat /\ PStop \in Nat /\ PStart < PStop  BY DEF Eth!Ne2kAssumption
<1>2. \A p \in Nat : p * U \in Nat  BY <1>1
<1>3. \A p, q \in Int : (p + q) * U = p * U + q * U /\ (p - q) * U = p * U - q * U  BY <1>1, Z3
<1>4. \A p, q \in Nat : p <= q => p * U <= q * U
  <2>1. SUFFICES ASSUME NEW p \in Nat, NEW q \in Nat, p <= q PROVE p * U <= q * U  OBVIOUS
  <2> DEFINE d == q - p
  <2>2. d \in Nat /\ q = p + d  BY <2>1
  <2> HIDE DEF d
  <2>3. q * U = p * U + d * U /\ d * U \in Nat /\ p * U \in Nat  BY <1>2, <1>3, <2>2
  <2> QED  BY <2>3
<1>5. \A p, q \in Nat : p < q => p * U + U <= q * U
  <2>1. SUFFICES ASSUME NEW p \in Nat, NEW q \in Nat, p < q PROVE p * U + U <= q * U  OBVIOUS
  <2>2. (p + 1) * U <= q * U  BY <1>4, <2>1
  <2>3. (p + 1) * U = p * U + U  BY <1>1, Z3
  <2> QED  BY <2>2, <2>3
<1>6. Round \in Nat \ {0}  BY <1>1 DEF Round
<1> QED  BY <1>1, <1>2, <1>3, <1>4, <1>5, <1>6 DEF Round

\* Unit k of what lies at page p, in a ring read from page n on.
LEMMA UnitPlaced ==
    ASSUME Eth!Ne2kAssumption, NEW n \in RingPages, NEW p \in RingPages, NEW w \in Nat, NEW k \in Nat,
           Ahead(n, p) + w <= Round, k < w * U
    PROVE  Wrap(p * U + k) \in RingUnits /\ AheadUnits(n, Wrap(p * U + k)) = Ahead(n, p) * U + k
<1> DEFINE A == Ahead(n, p)
           pu == p * U
           nu == n * U
           ru == Round * U
           su == PStart * U
           eu == PStop * U
<1>1. /\ n \in Nat /\ p \in Nat /\ PStart <= n /\ n < PStop /\ PStart <= p /\ p < PStop
      /\ PStart \in Nat /\ PStop \in Nat
  BY DEF Eth!Ne2kAssumption, RingPages
<1>2. pu \in Nat /\ nu \in Nat /\ ru \in Nat /\ su \in Nat /\ eu \in Nat /\ ru = eu - su
      /\ su <= nu /\ su <= pu /\ nu <= eu /\ pu <= eu
  BY <1>1, UnitsOfPages
<1>3. A \in Nat /\ A * U \in Nat /\ A * U + w * U <= ru /\ w * U \in Nat
  <2>1. A \in Nat  BY <1>1 DEF Ahead, Round
  <2> DEFINE t == A + w
  <2> HIDE DEF A
  <2>4. t \in Nat /\ t <= Round /\ Round \in Nat  BY <1>1, <2>1 DEF Round, A
  <2> HIDE DEF t
  <2>5. t * U <= Round * U  BY <2>4, UnitsOfPages
  <2> USE DEF t
  <2>2. (A + w) * U <= Round * U  BY <2>5
  <2>3. (A + w) * U = A * U + w * U  BY <2>1, UnitsOfPages
  <2> QED  BY <2>1, <2>2, <2>3, UnitsOfPages
<1>4. CASE p >= n
  <2>1. A * U = pu - nu /\ nu <= pu
    <3>1. A = p - n  BY <1>4 DEF Ahead
    <3> QED  BY <1>1, <1>4, <3>1, UnitsOfPages
  <2> HIDE DEF A, pu, nu, ru, su, eu
  <2>2. pu + k < nu + ru  BY <1>2, <1>3, <2>1
  <2> QED  BY <1>2, <1>3, <2>1, <2>2 DEF Wrap, AheadUnits, RingUnits, A, pu, nu, ru, su, eu
<1>5. CASE ~(p >= n)
  <2>1. A * U = pu - nu + ru
    <3>1. A = (p - n) + Round /\ p - n \in Int /\ Round \in Int  BY <1>1, <1>5, UnitsOfPages DEF Ahead
    <3>2. A * U = (p - n) * U + Round * U  BY <3>1, UnitsOfPages
    <3>3. (p - n) * U = pu - nu  BY <1>1, UnitsOfPages
    <3> QED  BY <3>2, <3>3
  <2> HIDE DEF A, pu, nu, ru, su, eu
  <2>2. pu + k < nu  BY <1>2, <1>3, <2>1
  <2> QED  BY <1>2, <1>3, <2>1, <2>2 DEF Wrap, AheadUnits, RingUnits, A, pu, nu, ru, su, eu
<1> QED  BY <1>4, <1>5

LEMMA NextPageIs ==
    ASSUME NEW c, NEW f, c.curr \in Int, Eth!Pages(f) \in Int, c.pstop \in Int, c.pstart \in Int
    PROVE  Eth!NextPage(c, f) = IF c.curr + Eth!Pages(f) >= c.pstop THEN c.curr + Eth!Pages(f) - (c.pstop - c.pstart)
                            ELSE c.curr + Eth!Pages(f)
BY DEF Eth!NextPage

\* The current page after a frame that fits.
LEMMA NextPlace ==
    ASSUME Eth!Ne2kAssumption, NEW c \in Cards, NEW s \in Seq(InRing), NEW n, RingOK(c, s, n),
           NEW f \in EthFrames, Eth!Fits(c, f)
    PROVE  /\ Eth!NextPage(c, f) \in RingPages
           /\ Ahead(n, Eth!NextPage(c, f)) = Ahead(n, c.curr) + Eth!Pages(f)
           /\ Ahead(n, c.curr) \in Nat
           /\ Ahead(n, c.curr) + Eth!Pages(f) <= Round - 1
           /\ c.bnry = n \/ (c.bnry = Before(n) /\ Ahead(n, c.curr) + Eth!Pages(f) <= Round - 2)
<1>1. /\ PStart \in Nat /\ PStop \in Nat /\ n \in Nat /\ c.curr \in Nat /\ PStart <= n /\ n < PStop
      /\ PStart <= c.curr /\ c.curr < PStop /\ c.pstart = PStart /\ c.pstop = PStop
  BY DEF Eth!Ne2kAssumption, RingOK, RingPages
<1>2. Eth!Pages(f) \in Nat /\ Eth!Pages(f) >= 1  BY PagesOfFrame
<1>3. c.bnry = n \/ (c.bnry = Before(n) /\ Ahead(n, c.curr) <= Round - 2)  BY DEF RingOK
<1>4. Eth!Available(c) > Eth!Pages(f)  BY DEF Eth!Fits
<1> DEFINE g == Eth!Pages(f)
<1> HIDE DEF g
<1>5. g \in Nat /\ g >= 1 /\ Eth!Available(c) > g  BY <1>2, <1>4 DEF g
<1>6. Ahead(n, c.curr) \in Nat /\ Ahead(n, c.curr) + g <= Round - 1
      /\ (c.bnry = n \/ (c.bnry = Before(n) /\ Ahead(n, c.curr) + g <= Round - 2))
  <2> DEFINE x == c.curr
             b == c.bnry
  <2>1. Eth!Available(c) = IF x < b THEN b - x ELSE (PStop - PStart) - (x - b)  BY <1>1 DEF Eth!Available
  <2> HIDE DEF x, b
  <2>2. x \in Nat /\ PStart <= x /\ x < PStop /\ (b = n \/ (b = Before(n) /\ Ahead(n, x) <= Round - 2))
    BY <1>1, <1>3 DEF x, b
  <2>3. Ahead(n, x) \in Nat /\ Ahead(n, x) + g <= Round - 1
        /\ (b = n \/ (b = Before(n) /\ Ahead(n, x) + g <= Round - 2))
    <3>1. CASE b = n  BY <1>1, <1>5, <2>1, <2>2, <3>1 DEF Ahead, Round
    <3>2. CASE b = Before(n) /\ Ahead(n, x) <= Round - 2
      BY <1>1, <1>5, <2>1, <2>2, <3>2 DEF Ahead, Round, Before
    <3> QED  BY <2>2, <3>1, <3>2
  <2> QED  BY <2>3 DEF x, b
<1> DEFINE p == IF c.curr + g >= c.pstop THEN c.curr + g - (c.pstop - c.pstart) ELSE c.curr + g
<1>7. p \in RingPages /\ Ahead(n, p) = Ahead(n, c.curr) + g
  <2> DEFINE x == c.curr
  <2>1. p = IF x + g >= PStop THEN x + g - (PStop - PStart) ELSE x + g  BY <1>1
  <2> HIDE DEF p, x
  <2>2. x \in Nat /\ PStart <= x /\ x < PStop /\ Ahead(n, x) + g <= Round - 1  BY <1>1, <1>6 DEF x
  <2>3. p \in RingPages  BY <1>1, <1>5, <2>1, <2>2 DEF Ahead, Round, RingPages
  <2>4. Ahead(n, p) = Ahead(n, x) + g  BY <1>1, <1>5, <2>1, <2>2 DEF Ahead, Round
  <2> QED  BY <2>3, <2>4, Zenon DEF x
<1>8. p = Eth!NextPage(c, f)
  <2>1. c.curr \in Int /\ Eth!Pages(f) \in Int /\ c.pstop \in Int /\ c.pstart \in Int  BY <1>1, <1>2
  <2> QED  BY <2>1, NextPageIs, Zenon DEF g
<1> QED  BY <1>6, <1>7, <1>8 DEF g

\* Where a frame is put that fits.
LEMMA UnitAddresses ==
    ASSUME Eth!Ne2kAssumption, NEW c \in Cards, NEW s \in Seq(InRing), NEW n, RingOK(c, s, n),
           NEW f \in EthFrames, Eth!Fits(c, f), NEW k \in 0 .. f.len
    PROVE  /\ Eth!UnitAddr(c, f, k) = Wrap(c.curr * U + k)
           /\ Eth!UnitAddr(c, f, k) \in RingUnits
           /\ AheadUnits(n, Eth!UnitAddr(c, f, k)) = Ahead(n, c.curr) * U + k
<1>1. c.curr \in RingPages /\ n \in RingPages /\ c.pstart = PStart /\ c.pstop = PStop  BY DEF RingOK
<1>2. Eth!Pages(f) \in Nat /\ Eth!Pages(f) >= 1 /\ f.len \in Nat /\ f.len + 2 <= Eth!Pages(f) * U  BY PagesOfFrame
<1>3. Ahead(n, c.curr) \in Nat /\ Ahead(n, c.curr) + Eth!Pages(f) <= Round - 1  BY NextPlace
<1>4. k \in Nat /\ k < Eth!Pages(f) * U
  <2>1. Eth!Pages(f) * U \in Nat  BY <1>2, UnitsOfPages
  <2> QED  BY <1>2, <2>1
<1>5. /\ PStart \in Nat /\ PStop \in Nat /\ c.curr \in Nat /\ PStart <= c.curr /\ c.curr < PStop
      /\ Round \in Nat /\ Round = PStop - PStart
  BY <1>1 DEF Eth!Ne2kAssumption, RingPages, Round
<1>6. Wrap(c.curr * U + k) \in RingUnits /\ AheadUnits(n, Wrap(c.curr * U + k)) = Ahead(n, c.curr) * U + k
  <2>1. Ahead(n, c.curr) + Eth!Pages(f) <= Round  BY <1>2, <1>3, <1>5
  <2> QED  BY <1>1, <1>2, <1>4, <2>1, UnitPlaced
<1>7. Eth!UnitAddr(c, f, k) = Wrap(c.curr * U + k)
  <2> DEFINE cu == c.curr * U
             eu == PStop * U
             su == PStart * U
  <2>1. cu \in Nat /\ eu \in Nat /\ su \in Nat /\ Round * U = eu - su /\ (PStop - c.curr) * U = eu - cu
    <3>1. cu \in Nat /\ eu \in Nat /\ su \in Nat /\ Round * U = eu - su  BY <1>5, UnitsOfPages
    <3>3. PStop \in Int /\ c.curr \in Int  BY <1>5
    <3>2. (PStop - c.curr) * U = eu - cu  BY <3>3, UnitsOfPages, Zenon
    <3> QED  BY <3>1, <3>2
  <2>2. Eth!NextPage(c, f) > c.curr => cu + k < eu
    <3>1. SUFFICES ASSUME Eth!NextPage(c, f) > c.curr PROVE cu + k < eu  OBVIOUS
    <3> DEFINE g == Eth!Pages(f)
    <3> HIDE DEF g
    <3>2. g \in Nat /\ g >= 1  BY <1>2 DEF g
    <3>3. Eth!NextPage(c, f) = IF c.curr + g >= PStop THEN c.curr + g - (PStop - PStart) ELSE c.curr + g
      <4>1. Eth!NextPage(c, f) = IF c.curr + g >= c.pstop THEN c.curr + g - (c.pstop - c.pstart) ELSE c.curr + g
        <5>1. c.curr \in Int /\ Eth!Pages(f) \in Int /\ c.pstop \in Int /\ c.pstart \in Int  BY <1>1, <1>2, <1>5
        <5> QED  BY <5>1, NextPageIs, Zenon DEF g
      <4> QED  BY ONLY <1>1, <4>1
    <3>4. g <= Round - 1  BY <1>3, <1>5, <3>2 DEF g
    <3>5. c.curr + g <= PStop  BY <1>5, <3>1, <3>2, <3>3, <3>4
    <3> DEFINE t == c.curr + g
    <3>7. t \in Nat  BY <1>5, <3>2
    <3> HIDE DEF t
    <3>8. t * U <= eu  BY <1>5, <3>5, <3>7, UnitsOfPages DEF t
    <3>6. (c.curr + g) * U <= eu /\ (c.curr + g) * U = cu + g * U /\ g * U \in Nat
      <4>1. (c.curr + g) * U <= eu  BY <3>8 DEF t
      <4>4. c.curr \in Int /\ g \in Int  BY <1>5, <3>2
      <4>2. (c.curr + g) * U = cu + g * U  BY <4>4, UnitsOfPages, Zenon
      <4>3. g * U \in Nat  BY <3>2, UnitsOfPages
      <4> QED  BY <4>1, <4>2, <4>3
    <3> QED  BY <1>4, <2>1, <3>6 DEF g
  <2>3. Eth!UnitAddr(c, f, k) = IF Eth!NextPage(c, f) > c.curr \/ k < eu - cu THEN cu + k ELSE su + k - (eu - cu)
    BY <1>1, <2>1 DEF Eth!UnitAddr
  <2> HIDE DEF cu, eu, su
  <2>4. Wrap(cu + k) = IF cu + k >= eu THEN cu + k - (eu - su) ELSE cu + k
    BY <2>1 DEF Wrap, eu
  <2> QED  BY <1>4, <2>1, <2>2, <2>3, <2>4 DEF cu
<1> QED  BY <1>6, <1>7

\* The bytes a frame leaves in the ring: its own and those of the frames before it.
LEMMA UnitsReceived ==
    ASSUME Eth!Ne2kAssumption, NEW c \in Cards, NEW s \in Seq(InRing), NEW n, RingOK(c, s, n),
           NEW f \in EthFrames, Eth!Fits(c, f)
    PROVE  LET r == Eth!RecvFrame(c, f).ram
           IN  /\ r \in [RingUnits -> Units]
               /\ r[Wrap(c.curr * U)] = Eth!Header(c, f)
               /\ \A k \in 1 .. f.len : r[Wrap(c.curr * U + k)] = <<f.id, k>>
               /\ \A i \in 1 .. Len(s), k \in Nat :
                     k <= s[i].frame.len => r[Wrap(s[i].page * U + k)] = c.ram[Wrap(s[i].page * U + k)]
<1> DEFINE r == [a \in DOMAIN c.ram |->
                    IF a = Eth!UnitAddr(c, f, 0) THEN Eth!Header(c, f)
                    ELSE IF \E k \in 1 .. f.len : a = Eth!UnitAddr(c, f, k)
                      THEN <<f.id, CHOOSE k \in 1 .. f.len : a = Eth!UnitAddr(c, f, k)>>
                      ELSE c.ram[a]]
           at(k) == Eth!UnitAddr(c, f, k)
<1>1. Eth!RecvFrame(c, f).ram = r
  BY DEF Eth!RecvFrame, Eth!CheckIrq, Cards
<1>2. c.ram \in [RingUnits -> Units] /\ DOMAIN c.ram = RingUnits  BY DEF Cards
<1>3. f.len \in Nat /\ f.id \in Nat /\ n \in RingPages /\ c.curr \in RingPages
  BY PagesOfFrame DEF EthFrames, RingOK
<1>4. \A k \in 0 .. f.len : at(k) \in RingUnits /\ at(k) = Wrap(c.curr * U + k)
                              /\ AheadUnits(n, at(k)) = Ahead(n, c.curr) * U + k
  BY UnitAddresses
<1>5. Ahead(n, c.curr) \in Nat /\ Ahead(n, c.curr) * U \in Nat
  BY NextPlace, UnitsOfPages
<1>6. \A k, j \in 0 .. f.len : at(k) = at(j) => k = j
  BY <1>3, <1>4, <1>5
<1> HIDE DEF at
<1>7. r = [a \in RingUnits |->
             IF a = at(0) THEN Eth!Header(c, f)
             ELSE IF \E k \in 1 .. f.len : a = at(k)
               THEN <<f.id, CHOOSE k \in 1 .. f.len : a = at(k)>>
               ELSE c.ram[a]]
  BY <1>2 DEF at
<1> HIDE DEF r
<1>8. Eth!Header(c, f) \in Units
  BY NextPlace, <1>3 DEF Eth!Header, Headers, Units, RingPages, Eth!Ne2kAssumption
<1>9. r \in [RingUnits -> Units]
  <2>1. ASSUME NEW a \in RingUnits PROVE r[a] \in Units
    <3>1. CASE a = at(0)  BY <1>7, <1>8, <3>1
    <3>2. CASE a # at(0) /\ \E k \in 1 .. f.len : a = at(k)
      <4>1. (CHOOSE k \in 1 .. f.len : a = at(k)) \in 1 .. f.len  BY <3>2
      <4>2. r[a] = <<f.id, CHOOSE k \in 1 .. f.len : a = at(k)>>  BY <1>7, <3>2
      <4>3. <<f.id, CHOOSE k \in 1 .. f.len : a = at(k)>> \in Nat \X Nat
        <5> DEFINE j == CHOOSE k \in 1 .. f.len : a = at(k)
        <5>1. j \in 1 .. f.len  BY <4>1
        <5> HIDE DEF j
        <5>2. j \in Nat  BY <1>3, <5>1
        <5>3. <<f.id, j>> \in Nat \X Nat  BY <1>3, <5>2
        <5> QED  BY <5>3 DEF j
      <4> QED  BY <4>2, <4>3 DEF Units
    <3>3. CASE a # at(0) /\ ~\E k \in 1 .. f.len : a = at(k)
      BY <1>2, <1>7, <3>3
    <3> QED  BY <3>1, <3>2, <3>3
  <2> QED  BY <1>7, <2>1
<1>10. r[Wrap(c.curr * U)] = Eth!Header(c, f)
  <2>1. at(0) = Wrap(c.curr * U + 0) /\ c.curr * U + 0 = c.curr * U /\ at(0) \in RingUnits
    BY <1>3, <1>4, UnitsOfPages DEF RingPages, Eth!Ne2kAssumption
  <2> QED  BY <1>7, <2>1
<1>11. ASSUME NEW k \in 1 .. f.len PROVE r[Wrap(c.curr * U + k)] = <<f.id, k>>
  <2>1. at(k) \in RingUnits /\ at(k) # at(0) /\ at(k) = Wrap(c.curr * U + k)  BY <1>3, <1>4, <1>6
  <2>2. (CHOOSE j \in 1 .. f.len : at(k) = at(j)) = k  BY <1>3, <1>6
  <2> QED  BY <1>7, <2>1, <2>2
<1>12. ASSUME NEW i \in 1 .. Len(s), NEW k \in Nat, k <= s[i].frame.len
       PROVE  r[Wrap(s[i].page * U + k)] = c.ram[Wrap(s[i].page * U + k)]
  <2> DEFINE p == s[i].page
             g == s[i].frame
             a == Wrap(p * U + k)
  <2>1. p \in RingPages /\ g \in EthFrames
    <3>1. s[i] \in InRing  OBVIOUS
    <3> QED  BY <3>1 DEF InRing
  <2>2. Eth!Pages(g) \in Nat /\ g.len \in Nat /\ g.len + 2 <= Eth!Pages(g) * U  BY <2>1, PagesOfFrame
  <2>3. Ahead(n, p) + Eth!Pages(g) <= Ahead(n, c.curr)  BY DEF RingOK, FrameAt
  <2>4. Ahead(n, p) \in Nat
    <3> HIDE DEF p
    <3>1. n \in Nat /\ p \in Nat /\ PStart \in Nat /\ PStop \in Nat /\ PStart <= p /\ n < PStop
      BY <1>3, <2>1 DEF RingPages, Eth!Ne2kAssumption
    <3> QED  BY <3>1 DEF Ahead, Round
  <2>5. Ahead(n, p) + Eth!Pages(g) <= Round /\ k < Eth!Pages(g) * U
    <3>1. Ahead(n, c.curr) <= Round  BY <1>3 DEF Ahead, RingPages, Round, Eth!Ne2kAssumption
    <3>2. Eth!Pages(g) * U \in Nat  BY <2>2, UnitsOfPages
    <3>3. Round \in Nat  BY UnitsOfPages
    <3> HIDE DEF p, g
    <3>4. Ahead(n, p) + Eth!Pages(g) <= Round  BY <1>5, <2>2, <2>3, <2>4, <3>1, <3>3
    <3>5. k <= g.len  BY <1>12 DEF g
    <3>6. k < Eth!Pages(g) * U  BY <2>2, <3>2, <3>5
    <3> QED  BY <3>4, <3>6
  <2>6. a \in RingUnits /\ AheadUnits(n, a) = Ahead(n, p) * U + k
    BY <1>3, <2>1, <2>2, <2>5, UnitPlaced
  <2>7. Ahead(n, p) * U + Eth!Pages(g) * U <= Ahead(n, c.curr) * U
    <3> DEFINE x == Ahead(n, p) + Eth!Pages(g)
               y == Ahead(n, c.curr)
    <3>3. x \in Nat /\ y \in Nat /\ x <= y  BY <1>5, <2>2, <2>3, <2>4
    <3> HIDE DEF x, y
    <3>4. x * U <= y * U  BY <3>3, UnitsOfPages
    <3>1. (Ahead(n, p) + Eth!Pages(g)) * U <= Ahead(n, c.curr) * U  BY <3>4 DEF x, y
    <3>2. (Ahead(n, p) + Eth!Pages(g)) * U = Ahead(n, p) * U + Eth!Pages(g) * U  BY <2>2, <2>4, UnitsOfPages
    <3> QED  BY <3>1, <3>2
  <2>8. AheadUnits(n, a) < Ahead(n, c.curr) * U
    <3>1. Ahead(n, p) * U \in Nat /\ Eth!Pages(g) * U \in Nat  BY <2>2, <2>4, UnitsOfPages
    <3> QED  BY <1>5, <2>5, <2>6, <2>7, <3>1
  <2> HIDE DEF p, g, a
  <2>9. \A j \in 0 .. f.len : a # at(j)
    <3>1. SUFFICES ASSUME NEW j \in 0 .. f.len, a = at(j) PROVE FALSE  OBVIOUS
    <3>2. AheadUnits(n, a) = Ahead(n, c.curr) * U + j  BY <1>4, <3>1
    <3> QED  BY <1>5, <2>8, <3>2
  <2>10. a # at(0) /\ \A j \in 1 .. f.len : a # at(j)  BY <1>3, <2>9
  <2>11. r[a] = c.ram[a]  BY <1>7, <2>6, <2>10
  <2> QED  BY <2>11 DEF a, p
<1> QED  BY <1>1, <1>9, <1>10, <1>11, <1>12

\* A card whose ring, pointers and RAM are as another's.
SameRing(c, d) ==
    d.pstart = c.pstart /\ d.pstop = c.pstop /\ d.bnry = c.bnry /\ d.curr = c.curr /\ d.ram = c.ram

LEMMA RingAlike ==
    ASSUME NEW c, NEW d, SameRing(c, d), NEW s, NEW n, RingOK(c, s, n)
    PROVE  RingOK(d, s, n)
<1>1. ASSUME NEW i \in 1 .. Len(s) PROVE FrameAt(d, s, n, i)
  <2>1. FrameAt(c, s, n, i)  BY DEF RingOK
  <2> QED  BY <2>1 DEF FrameAt, NextOf, SameRing
<1> QED  BY <1>1 DEF RingOK, SameRing

\* A frame received that fits is in the ring behind the others.
LEMMA FrameReceived ==
    ASSUME Eth!Ne2kAssumption, NEW c \in Cards, NEW s \in Seq(InRing), NEW n, RingOK(c, s, n),
           NEW f \in EthFrames, Eth!Fits(c, f), NEW t, t = Append(s, [frame |-> f, page |-> c.curr])
    PROVE  /\ RingOK(Eth!RecvFrame(c, f), t, n)
           /\ t \in Seq(InRing) /\ t # <<>>
<1> DEFINE d == Eth!RecvFrame(c, f)
           e == [frame |-> f, page |-> c.curr]
           l == Len(s)
<1>1. d.pstart = c.pstart /\ d.pstop = c.pstop /\ d.bnry = c.bnry /\ d.curr = Eth!NextPage(c, f)
  BY DEF Eth!RecvFrame, Eth!CheckIrq, Cards
<1>2. d.ram[Wrap(c.curr * U)] = Eth!Header(c, f)
      /\ \A k \in 1 .. f.len : d.ram[Wrap(c.curr * U + k)] = <<f.id, k>>
  BY UnitsReceived
<1>3. \A i \in 1 .. l, k \in Nat :
         k <= s[i].frame.len => d.ram[Wrap(s[i].page * U + k)] = c.ram[Wrap(s[i].page * U + k)]
  BY UnitsReceived
<1> HIDE DEF d
<1>4. e \in InRing /\ e.frame = f /\ e.page = c.curr  BY DEF InRing, RingOK
<1> HIDE DEF e
<1>5. /\ l \in Nat /\ t \in Seq(InRing) /\ Len(t) = l + 1 /\ t # <<>> /\ t[l + 1] = e
      /\ \A i \in 1 .. l : t[i] = s[i]
  BY <1>4 DEF e
<1>6. /\ c.curr \in RingPages /\ n \in RingPages /\ c.pstart = PStart /\ c.pstop = PStop
      /\ s # <<>> => s[1].page = n
      /\ s = <<>> => c.curr = n
      /\ \A i \in 1 .. l : FrameAt(c, s, n, i)
      /\ \A i, j \in 1 .. l : i < j => Ahead(n, s[i].page) + Eth!Pages(s[i].frame) <= Ahead(n, s[j].page)
  BY DEF RingOK
<1>7. /\ Eth!NextPage(c, f) \in RingPages
      /\ Ahead(n, Eth!NextPage(c, f)) = Ahead(n, c.curr) + Eth!Pages(f)
      /\ Ahead(n, c.curr) \in Nat
      /\ c.bnry = n \/ (c.bnry = Before(n) /\ Ahead(n, c.curr) + Eth!Pages(f) <= Round - 2)
      /\ Eth!Pages(f) \in Nat /\ f.len \in Nat
  BY NextPlace, PagesOfFrame
<1>8. \A p \in RingPages : p \in Nat /\ p * U < PStop * U /\ Wrap(p * U) = p * U /\ p * U + 0 = p * U
  <2>1. SUFFICES ASSUME NEW p \in RingPages
                 PROVE  p \in Nat /\ p * U < PStop * U /\ Wrap(p * U) = p * U /\ p * U + 0 = p * U
    OBVIOUS
  <2>2. p \in Nat /\ PStop \in Nat /\ p < PStop /\ U \in Nat /\ U >= 1  BY DEF RingPages, Eth!Ne2kAssumption
  <2>3. p * U \in Nat /\ PStop * U \in Nat /\ p * U + U <= PStop * U  BY <2>2, UnitsOfPages
  <2> QED  BY <2>2, <2>3 DEF Wrap
<1>9. ASSUME NEW i \in 1 .. l PROVE FrameAt(d, t, n, i)
  <2> DEFINE g == s[i].frame
             p == s[i].page
  <2>1. /\ c.ram[p * U] = [next |-> NextOf(c, s, i), len |-> g.len + 1]
        /\ \A k \in 1 .. g.len : c.ram[Wrap(p * U + k)] = <<g.id, k>>
        /\ Ahead(n, p) + Eth!Pages(g) = Ahead(n, NextOf(c, s, i))
        /\ Ahead(n, p) + Eth!Pages(g) <= Ahead(n, c.curr)
    BY <1>6 DEF FrameAt
  <2>2. g \in EthFrames /\ p \in RingPages
    <3>1. s[i] \in InRing  OBVIOUS
    <3> QED  BY <3>1 DEF InRing
  <2>3. g.len \in Nat /\ Eth!Pages(g) \in Nat  BY <2>2, PagesOfFrame
  <2>4. NextOf(d, t, i) = NextOf(c, s, i)
    <3>1. CASE i = l  BY <1>4, <1>5, <3>1 DEF NextOf
    <3>2. CASE i # l  BY <1>5, <3>2 DEF NextOf
    <3> QED  BY <3>1, <3>2
  <2>5. d.ram[p * U] = c.ram[p * U]
    <3>1. d.ram[Wrap(p * U + 0)] = c.ram[Wrap(p * U + 0)]  BY <1>3, <2>3
    <3> QED  BY <1>8, <2>2, <3>1
  <2>6. \A k \in 1 .. g.len : d.ram[Wrap(p * U + k)] = <<g.id, k>>
    <3>1. SUFFICES ASSUME NEW k \in 1 .. g.len PROVE d.ram[Wrap(p * U + k)] = <<g.id, k>>  OBVIOUS
    <3>2. k \in Nat /\ k <= s[i].frame.len  BY <2>3
    <3>3. d.ram[Wrap(p * U + k)] = c.ram[Wrap(p * U + k)]  BY <1>3, <3>2
    <3> QED  BY <2>1, <3>3
  <2>7. Ahead(n, p) + Eth!Pages(g) <= Ahead(n, d.curr)
    <3>1. Ahead(n, d.curr) = Ahead(n, c.curr) + Eth!Pages(f)  BY <1>1, <1>7
    <3>2. Ahead(n, p) \in Nat  BY <1>6, <2>2 DEF Ahead, RingPages, Round, Eth!Ne2kAssumption
    <3> QED  BY <1>7, <2>1, <2>3, <3>1, <3>2
  <2>8. t[i] = s[i]  BY <1>5
  <2> QED  BY <2>1, <2>4, <2>5, <2>6, <2>7, <2>8 DEF FrameAt
<1>10. FrameAt(d, t, n, l + 1)
  <2>1. t[l + 1].frame = f /\ t[l + 1].page = c.curr  BY <1>4, <1>5
  <2>2. NextOf(d, t, l + 1) = Eth!NextPage(c, f)  BY <1>1, <1>5 DEF NextOf
  <2>3. d.ram[c.curr * U] = [next |-> Eth!NextPage(c, f), len |-> f.len + 1]
    <3>1. d.ram[c.curr * U] = Eth!Header(c, f)  BY <1>2, <1>6, <1>8
    <3> QED  BY <3>1 DEF Eth!Header
  <2>4. Ahead(n, c.curr) + Eth!Pages(f) <= Ahead(n, d.curr)  BY <1>1, <1>7
  <2> QED  BY <1>2, <1>7, <2>1, <2>2, <2>3, <2>4 DEF FrameAt
<1>11. \A i, j \in 1 .. l + 1 : i < j => Ahead(n, t[i].page) + Eth!Pages(t[i].frame) <= Ahead(n, t[j].page)
  <2>1. SUFFICES ASSUME NEW i \in 1 .. l + 1, NEW j \in 1 .. l + 1, i < j
                 PROVE  Ahead(n, t[i].page) + Eth!Pages(t[i].frame) <= Ahead(n, t[j].page)
    OBVIOUS
  <2>2. i \in 1 .. l /\ t[i] = s[i]  BY <1>5, <2>1
  <2>3. CASE j = l + 1
    <3>1. t[j].page = c.curr  BY <1>4, <1>5, <2>3
    <3>2. Ahead(n, s[i].page) + Eth!Pages(s[i].frame) <= Ahead(n, c.curr)  BY <1>6, <2>2 DEF FrameAt
    <3> QED  BY <2>2, <3>1, <3>2
  <2>4. CASE j # l + 1
    <3>1. j \in 1 .. l /\ t[j] = s[j]  BY <1>5, <2>4
    <3> QED  BY <1>6, <2>1, <2>2, <3>1
  <2> QED  BY <2>3, <2>4
<1>12. t[1].page = n
  <2>1. CASE s = <<>>
    <3>1. l = 0  BY <2>1
    <3> QED  BY <1>4, <1>5, <1>6, <2>1, <3>1
  <2>2. CASE s # <<>>
    <3>1. 1 \in 1 .. l  BY <1>5, <2>2
    <3> QED  BY <1>5, <1>6, <2>2, <3>1
  <2> QED  BY <2>1, <2>2
<1>13. \A i \in 1 .. l + 1 : FrameAt(d, t, n, i)
  <2>1. SUFFICES ASSUME NEW i \in 1 .. l + 1 PROVE FrameAt(d, t, n, i)  OBVIOUS
  <2>2. i \in 1 .. l \/ i = l + 1  BY <1>5
  <2> QED  BY <1>9, <1>10, <2>2
<1>14. d.bnry = n \/ (d.bnry = Before(n) /\ Ahead(n, d.curr) <= Round - 2)
  BY <1>1, <1>7
<1> QED
  <2>1. RingOK(d, t, n)
    BY <1>1, <1>5, <1>6, <1>7, <1>11, <1>12, <1>13, <1>14 DEF RingOK
  <2> QED  BY <1>5, <2>1 DEF d

-----------------------------------------------------------------------------
\* What CheckIrq changes.
LEMMA InterruptRaised ==
    ASSUME NEW c \in Cards, NEW d, d = Eth!CheckIrq(c)
    PROVE  /\ d \in Cards
           /\ c.pulses \subseteq d.pulses
           /\ c.isr \cap c.imr # {} => c.line \in d.pulses
           /\ SameRing(c, d) /\ d.stop = c.stop /\ d.isr = c.isr /\ d.imr = c.imr /\ d.rxIrq = c.rxIrq
           /\ d.line = c.line /\ d.natLine = c.natLine /\ d.dma = c.dma /\ d.bytes = c.bytes
BY DEF Eth!CheckIrq, Cards, SameRing

\* The frames in the ring after an access of the driver.
Arrives == link.chan # <<>> /\ Eth!Receives(card, Head(link.chan))
Arrived == IF Arrives THEN Append(stored, [frame |-> Head(link.chan), page |-> card.curr]) ELSE stored

\* The card x and the ring t after a frame has been looked for.
PollOK(x, t) ==
    /\ x \in Cards /\ t \in Seq(InRing) /\ RingOK(x, t, guest.next)
    /\ x.stop = card.stop /\ x.imr = card.imr /\ x.rxIrq = card.rxIrq /\ x.line = card.line
    /\ x.natLine = card.natLine /\ x.bnry = card.bnry /\ x.dma = card.dma /\ x.bytes = card.bytes
    /\ card.isr \subseteq x.isr /\ card.pulses \subseteq x.pulses
    /\ IF Arrives THEN ~card.stop /\ "received" \in x.isr ELSE t = stored /\ x.isr = card.isr
    /\ stored # <<>> =>
         /\ t # <<>> /\ t[1] = stored[1] /\ Tail(t) = IF Arrives THEN Append(Tail(stored), t[Len(t)]) ELSE Tail(stored)
         /\ t[Len(t)] = IF Arrives THEN [frame |-> Head(link.chan), page |-> card.curr] ELSE stored[Len(stored)]
         /\ \A k \in Nat : k <= stored[1].frame.len =>
               x.ram[Wrap(guest.next * U + k)] = card.ram[Wrap(guest.next * U + k)]

LEMMA Polls ==
    ASSUME Eth!Ne2kAssumption, EthTypes, RingOK(card, stored, guest.next), NEW x, x = Eth!Polled, NEW t, t = Arrived
    PROVE  PollOK(x, t)
<1>1. card \in Cards /\ stored \in Seq(InRing) /\ link.chan \in Seq(EthFrames)  BY DEF EthTypes, Links
<1>2. CASE ~Arrives
  <2>1. x = card /\ t = stored  BY <1>2 DEF Eth!Polled, Arrived, Arrives
  <2> QED  BY <1>1, <1>2, <2>1 DEF PollOK
<1>3. CASE Arrives
  <2> DEFINE f == Head(link.chan)
             e == [frame |-> f, page |-> card.curr]
             y == [card EXCEPT
                     !.ram = [a \in DOMAIN @ |->
                                 IF a = Eth!UnitAddr(card, f, 0) THEN Eth!Header(card, f)
                                 ELSE IF \E k \in 1 .. f.len : a = Eth!UnitAddr(card, f, k)
                                   THEN <<f.id, CHOOSE k \in 1 .. f.len : a = Eth!UnitAddr(card, f, k)>>
                                   ELSE @[a]],
                     !.curr = Eth!NextPage(card, f),
                     !.isr  = @ \cup {"received"}]
  <2>1. x = Eth!RecvFrame(card, f) /\ t = Append(stored, e)  BY <1>3 DEF Eth!Polled, Arrived, Arrives
  <2>2. f \in EthFrames  BY <1>1, <1>3 DEF Arrives
  <2>3. Eth!Fits(card, f) /\ ~card.stop  BY <1>3 DEF Arrives, Eth!Receives
  <2> HIDE DEF f
  <2>4. RingOK(x, t, guest.next) /\ t \in Seq(InRing) /\ t # <<>>
    BY <1>1, <2>1, <2>2, <2>3, FrameReceived
  <2>5. Eth!RecvFrame(card, f).ram \in [RingUnits -> Units]
        /\ \A i \in 1 .. Len(stored), k \in Nat : k <= stored[i].frame.len =>
              Eth!RecvFrame(card, f).ram[Wrap(stored[i].page * U + k)] = card.ram[Wrap(stored[i].page * U + k)]
    BY <1>1, <2>2, <2>3, UnitsReceived
  <2>6. Eth!NextPage(card, f) \in Nat
    <3>1. Eth!NextPage(card, f) \in RingPages  BY <1>1, <2>2, <2>3, NextPlace
    <3> QED  BY <3>1 DEF RingPages, Eth!Ne2kAssumption
  <2>7. Eth!RecvFrame(card, f) = Eth!CheckIrq(y)  BY DEF Eth!RecvFrame
  <2>8. y \in Cards
    <3>1. Eth!RecvFrame(card, f).ram = y.ram  BY <1>1, <2>7 DEF Eth!CheckIrq, Cards
    <3> DEFINE ram == y.ram
    <3>2. y = [card EXCEPT !.ram = ram, !.curr = Eth!NextPage(card, f), !.isr = @ \cup {"received"}]
      BY <1>1 DEF Cards
    <3>3. ram \in [RingUnits -> Units]  BY <2>5, <3>1
    <3> HIDE DEF ram, y
    <3> QED  BY <1>1, <2>6, <3>2, <3>3 DEF Cards, Causes
  <2>9. /\ y.stop = card.stop /\ y.imr = card.imr /\ y.rxIrq = card.rxIrq /\ y.line = card.line
        /\ y.natLine = card.natLine /\ y.bnry = card.bnry /\ y.dma = card.dma /\ y.bytes = card.bytes
        /\ y.isr = card.isr \cup {"received"} /\ y.pulses = card.pulses
    BY <1>1 DEF Cards
  <2> HIDE DEF y
  <2>10. /\ x \in Cards /\ x.stop = card.stop /\ x.imr = card.imr /\ x.rxIrq = card.rxIrq /\ x.line = card.line
         /\ x.natLine = card.natLine /\ x.bnry = card.bnry /\ x.dma = card.dma /\ x.bytes = card.bytes
         /\ x.isr = card.isr \cup {"received"} /\ card.pulses \subseteq x.pulses
    BY <2>1, <2>7, <2>8, <2>9, InterruptRaised DEF SameRing
  <2>11. ASSUME stored # <<>>
         PROVE  /\ t[1] = stored[1] /\ Tail(t) = Append(Tail(stored), t[Len(t)]) /\ t[Len(t)] = e
                /\ \A k \in Nat : k <= stored[1].frame.len =>
                      x.ram[Wrap(guest.next * U + k)] = card.ram[Wrap(guest.next * U + k)]
    <3>1. e \in InRing  BY <2>2 DEF InRing, RingOK
    <3> HIDE DEF e
    <3>2. Len(stored) \in Nat /\ Len(stored) >= 1 /\ Len(t) = Len(stored) + 1 /\ t[Len(t)] = e /\ t[1] = stored[1]
      BY <1>1, <2>1, <2>11, <3>1
    <3>3. Tail(t) = Append(Tail(stored), e)
      <4>1. Tail(t) \in Seq(InRing) /\ Append(Tail(stored), e) \in Seq(InRing) /\ Tail(stored) \in Seq(InRing)
        BY <1>1, <2>4, <2>11, <3>1
      <4>2. Len(Tail(t)) = Len(stored) /\ Len(Append(Tail(stored), e)) = Len(stored)
        BY <1>1, <2>4, <2>11, <3>1, <3>2
      <4>3. ASSUME NEW i \in 1 .. Len(stored) PROVE Tail(t)[i] = Append(Tail(stored), e)[i]
        BY <1>1, <2>1, <2>4, <2>11, <3>1, <3>2
      <4> QED  BY <4>1, <4>2, <4>3
    <3>4. stored[1].page = guest.next  BY <2>11 DEF RingOK
    <3>5. 1 \in 1 .. Len(stored)  BY <3>2
    <3> QED  BY <2>1, <2>5, <3>2, <3>3, <3>4, <3>5 DEF e
  <2> QED  BY <1>3, <2>3, <2>4, <2>10, <2>11 DEF PollOK, f, e
<1> QED  BY <1>2, <1>3

\* The units of the first frame in the ring.
LEMMA FirstFrame ==
    ASSUME Eth!Ne2kAssumption, NEW c \in Cards, NEW s \in Seq(InRing), NEW n, RingOK(c, s, n), s # <<>>
    PROVE  /\ s[1].frame \in EthFrames /\ s[1].frame.len \in Nat /\ s[1].frame.id \in Nat /\ s[1].page = n
           /\ n \in RingPages /\ n * U \in Nat /\ Wrap(n * U) = n * U /\ FrameAt(c, s, n, 1)
           /\ c.ram[n * U] = [next |-> NextOf(c, s, 1), len |-> s[1].frame.len + 1]
           /\ \A k \in 0 .. s[1].frame.len :
                 Wrap(n * U + k) \in RingUnits /\ n * U + k + 1 < PStop * U + Round * U
<1>1. 1 \in 1 .. Len(s) /\ s[1] \in InRing  OBVIOUS
<1> DEFINE f == s[1].frame
<1>2. f \in EthFrames /\ n \in RingPages /\ s[1].page = n /\ FrameAt(c, s, n, 1)
  BY <1>1 DEF InRing, RingOK
<1>3. f.len \in Nat /\ f.id \in Nat /\ Eth!Pages(f) \in Nat /\ f.len + 2 <= Eth!Pages(f) * U
  <2>1. f.len \in Nat /\ Eth!Pages(f) \in Nat /\ f.len + 2 <= Eth!Pages(f) * U  BY <1>2, PagesOfFrame
  <2>2. f.id \in Nat  BY <1>2 DEF EthFrames
  <2> QED  BY <2>1, <2>2
<1>4. c.ram[n * U] = [next |-> NextOf(c, s, 1), len |-> f.len + 1]  BY <1>2 DEF FrameAt
<1>5. Ahead(n, n) = 0 /\ Eth!Pages(f) <= Round
  <2>1. n \in Nat /\ c.curr \in RingPages  BY <1>2 DEF RingPages, Eth!Ne2kAssumption, RingOK
  <2>2. Ahead(n, n) = 0  BY <2>1 DEF Ahead
  <2>3. Ahead(n, n) + Eth!Pages(f) <= Ahead(n, c.curr)  BY <1>2 DEF FrameAt
  <2>4. Ahead(n, c.curr) \in Nat /\ Ahead(n, c.curr) <= Round
    BY <1>2, <2>1 DEF Ahead, RingPages, Round, Eth!Ne2kAssumption
  <2>5. Round \in Nat  BY UnitsOfPages
  <2> QED  BY <1>3, <2>2, <2>3, <2>4, <2>5
<1>6. n * U \in Nat /\ n * U < PStop * U /\ Wrap(n * U) = n * U /\ PStop * U \in Nat /\ Round * U \in Nat
  <2>1. n \in Nat /\ PStop \in Nat /\ n < PStop /\ U \in Nat /\ U >= 1  BY <1>2 DEF RingPages, Eth!Ne2kAssumption
  <2>2. n * U \in Nat /\ PStop * U \in Nat /\ n * U + U <= PStop * U /\ Round * U \in Nat
    BY <2>1, UnitsOfPages
  <2> QED  BY <2>1, <2>2 DEF Wrap
<1>7. Eth!Pages(f) * U \in Nat /\ Eth!Pages(f) * U <= Round * U
  BY <1>3, <1>5, UnitsOfPages
<1>8. ASSUME NEW k \in 0 .. f.len PROVE Wrap(n * U + k) \in RingUnits /\ n * U + k + 1 < PStop * U + Round * U
  <2>0. Round \in Nat  BY UnitsOfPages
  <2>1. k \in Nat /\ k < Eth!Pages(f) * U /\ Round \in Nat
    <3> DEFINE pu == Eth!Pages(f) * U
               len == f.len
    <3>1. pu \in Nat /\ len \in Nat /\ len + 2 <= pu /\ k \in 0 .. len  BY <1>3, <1>7
    <3> HIDE DEF pu, len
    <3>2. k \in Nat /\ k < pu  BY <3>1
    <3> QED  BY <2>0, <3>2 DEF pu
  <2>2. Ahead(n, n) + Eth!Pages(f) <= Round  BY <1>3, <1>5, <2>1
  <2>3. Wrap(n * U + k) \in RingUnits  BY <1>2, <1>3, <2>1, <2>2, UnitPlaced
  <2> DEFINE nu == n * U
             pu == Eth!Pages(f) * U
             eu == PStop * U
             ru == Round * U
  <2> HIDE DEF nu, pu, eu, ru
  <2>4. nu \in Nat /\ nu < eu /\ eu \in Nat /\ ru \in Nat /\ pu \in Nat /\ pu <= ru /\ f.len + 2 <= pu
    BY <1>3, <1>6, <1>7 DEF nu, pu, eu, ru
  <2> HIDE DEF f
  <2>5. nu + k + 1 < eu + ru  BY <1>3, <2>1, <2>4
  <2> QED  BY <2>3, <2>5 DEF nu, eu, ru
<1> QED  BY <1>2, <1>3, <1>4, <1>6, <1>8

\* The first frame is freed.
LEMMA FrameFreed ==
    ASSUME Eth!Ne2kAssumption, NEW c \in Cards, NEW s \in Seq(InRing), NEW n, RingOK(c, s, n), s # <<>>,
           NEW m, m = NextOf(c, s, 1), NEW d \in Cards, NEW t, t = Tail(s),
           d.pstart = c.pstart, d.pstop = c.pstop, d.curr = c.curr, d.ram = c.ram,
           d.bnry = m \/ d.bnry = Before(m)
    PROVE  RingOK(d, t, m) /\ t \in Seq(InRing) /\ m \in RingPages
<1> DEFINE l == Len(s)
<1>1. /\ l \in Nat /\ l >= 1 /\ t \in Seq(InRing) /\ Len(t) = l - 1 /\ \A i \in 1 .. l - 1 : t[i] = s[i + 1]
      /\ \A i \in 1 .. l : s[i] \in InRing
  OBVIOUS
<1>2. /\ c.curr \in RingPages /\ n \in RingPages /\ c.pstart = PStart /\ c.pstop = PStop
      /\ s[1].page = n
      /\ \A i \in 1 .. l : FrameAt(c, s, n, i)
      /\ \A i, j \in 1 .. l : i < j => Ahead(n, s[i].page) + Eth!Pages(s[i].frame) <= Ahead(n, s[j].page)
  BY DEF RingOK
<1>3. \A i \in 1 .. l : s[i].frame \in EthFrames /\ s[i].page \in RingPages /\ Eth!Pages(s[i].frame) \in Nat
                         /\ Eth!Pages(s[i].frame) >= 1
  BY <1>1, PagesOfFrame DEF InRing
<1> DEFINE g == Eth!Pages(s[1].frame)
<1>4. m \in RingPages /\ (l = 1 => m = c.curr) /\ (l # 1 => m = s[2].page)
  BY <1>1, <1>2, <1>3 DEF NextOf
<1>20. (t = <<>> => l = 1) /\ (t # <<>> => l # 1)
  <2>1. t \in Seq(InRing) /\ l \in Nat /\ Len(t) = l - 1  BY <1>1
  <2>2. t = <<>> <=> Len(t) = 0  BY <2>1, EmptySeq, Zenon
  <2> HIDE DEF l
  <2> QED  BY ONLY <2>1, <2>2
<1>21. \A i \in Int : NextOf(c, s, i) = (IF i = l THEN c.curr ELSE s[i + 1].page)
                   /\ NextOf(d, t, i) = (IF i = l - 1 THEN d.curr ELSE t[i + 1].page)
  BY <1>1, Zenon DEF NextOf
<1> HIDE DEF l
<1>5. \A p \in RingPages : Ahead(n, p) \in Nat /\ Ahead(n, p) <= Round - 1
  <2>1. n \in Nat /\ PStart \in Nat /\ PStop \in Nat /\ PStart <= n /\ n < PStop
    BY <1>2 DEF RingPages, Eth!Ne2kAssumption
  <2>2. SUFFICES ASSUME NEW p \in RingPages PROVE Ahead(n, p) \in Nat /\ Ahead(n, p) <= Round - 1
    OBVIOUS
  <2>3. p \in Nat /\ PStart <= p /\ p < PStop  BY <2>1 DEF RingPages
  <2> QED  BY ONLY <2>1, <2>3 DEF Ahead, Round
<1>6. Ahead(n, n) = 0 /\ Ahead(n, m) = g /\ g \in Nat /\ g >= 1
  <2>1. 1 \in 1 .. l  BY <1>1
  <2>2. Ahead(n, n) = 0  BY <1>2 DEF Ahead, RingPages, Eth!Ne2kAssumption
  <2>3. Ahead(n, n) + g = Ahead(n, m)  BY <1>2, <2>1 DEF FrameAt
  <2> QED  BY <1>3, <2>1, <2>2, <2>3
<1> HIDE DEF g
<1>7. ASSUME NEW p \in RingPages, Ahead(n, p) >= g PROVE Ahead(m, p) = Ahead(n, p) - g
  <2>1. n \in Nat /\ m \in Nat /\ p \in Nat /\ PStart \in Nat /\ PStop \in Nat /\ PStart <= n /\ n < PStop
        /\ PStart <= m /\ m < PStop /\ PStart <= p /\ p < PStop
    BY <1>2, <1>4 DEF RingPages, Eth!Ne2kAssumption
  <2>2. Ahead(n, p) >= g /\ Ahead(n, m) = g  BY <1>6, <1>7
  <2>3. Ahead(n, p) = IF p >= n THEN p - n ELSE p - n + (PStop - PStart)  BY DEF Ahead, Round
  <2>4. Ahead(n, m) = IF m >= n THEN m - n ELSE m - n + (PStop - PStart)  BY DEF Ahead, Round
  <2>5. Ahead(m, p) = IF p >= m THEN p - m ELSE p - m + (PStop - PStart)  BY DEF Ahead, Round
  <2> QED  BY ONLY <1>6, <2>1, <2>2, <2>3, <2>4, <2>5
<1>8. ASSUME NEW i \in 1 .. l - 1
      PROVE  i + 1 \in 1 .. l /\ Ahead(n, s[i + 1].page) >= g /\ Ahead(n, c.curr) >= g
             /\ Ahead(n, NextOf(c, s, i + 1)) >= g /\ NextOf(c, s, i + 1) \in RingPages
  <2>1. i + 1 \in 1 .. l /\ 1 \in 1 .. l /\ 1 < i + 1  BY <1>1
  <2>2. Ahead(n, n) + g <= Ahead(n, s[i + 1].page)  BY <1>2, <2>1 DEF g
  <2>3. Ahead(n, s[i + 1].page) + Eth!Pages(s[i + 1].frame) = Ahead(n, NextOf(c, s, i + 1))
        /\ Ahead(n, s[i + 1].page) + Eth!Pages(s[i + 1].frame) <= Ahead(n, c.curr)
    BY <1>2, <2>1 DEF FrameAt
  <2>4. NextOf(c, s, i + 1) \in RingPages
    <3>1. CASE i + 1 = l  BY <1>2, <1>21, <2>1, <3>1
    <3>2. CASE i + 1 # l
      <4>1. (i + 1) + 1 \in 1 .. l  BY <1>1, <2>1, <3>2
      <4> DEFINE j == i + 1
      <4>2. j \in Int /\ j # l /\ j + 1 \in 1 .. l  BY <3>2, <4>1
      <4> HIDE DEF j
      <4>3. NextOf(c, s, j) = s[j + 1].page  BY <1>21, <4>2
      <4>4. NextOf(c, s, j) \in RingPages  BY <1>3, <4>2, <4>3
      <4> QED  BY <4>4 DEF j
    <3> QED  BY <3>1, <3>2
  <2> DEFINE x == Ahead(n, s[i + 1].page)
             y == Ahead(n, NextOf(c, s, i + 1))
             z == Ahead(n, c.curr)
             h == Eth!Pages(s[i + 1].frame)
  <2>5. x \in Nat /\ y \in Nat /\ z \in Nat /\ h \in Nat /\ g \in Nat
    BY <1>2, <1>3, <1>5, <1>6, <2>1, <2>4
  <2>6. 0 + g <= x /\ x + h = y /\ x + h <= z  BY <1>6, <2>2, <2>3
  <2> HIDE DEF x, y, z, h
  <2>7. x >= g /\ z >= g /\ y >= g  BY <2>5, <2>6
  <2> QED  BY <2>1, <2>4, <2>7 DEF x, y, z
<1>9. ASSUME NEW i \in 1 .. l - 1 PROVE FrameAt(d, t, m, i)
  <2>1. FrameAt(c, s, n, i + 1) /\ t[i] = s[i + 1]  BY <1>1, <1>2, <1>8
  <2>2. NextOf(d, t, i) = NextOf(c, s, i + 1)
    <3>1. CASE i = l - 1  BY <1>1, <1>21, <3>1
    <3>2. CASE i # l - 1
      <4>1. i + 1 \in 1 .. l - 1 /\ i + 1 # l  BY <1>1, <3>2
      <4>2. t[i + 1] = s[(i + 1) + 1]  BY <1>1, <4>1
      <4> DEFINE j == i + 1
      <4>3. j \in Int /\ j # l /\ i # l - 1 /\ i \in Int  BY <1>1, <3>2, <4>1
      <4>4. NextOf(d, t, i) = t[j].page  BY <1>21, <4>3
      <4>5. t[j] = s[j + 1]  BY <4>2
      <4> HIDE DEF j
      <4>6. NextOf(c, s, j) = s[j + 1].page  BY <1>21, <4>3
      <4> QED  BY <4>4, <4>5, <4>6 DEF j
    <3> QED  BY <3>1, <3>2
  <2>3. Ahead(m, s[i + 1].page) = Ahead(n, s[i + 1].page) - g  BY <1>3, <1>7, <1>8
  <2>4. Ahead(m, NextOf(c, s, i + 1)) = Ahead(n, NextOf(c, s, i + 1)) - g  BY <1>7, <1>8
  <2>5. Ahead(m, c.curr) = Ahead(n, c.curr) - g  BY <1>2, <1>7, <1>8
  <2> DEFINE f == s[i + 1].frame
             p == s[i + 1].page
             q == NextOf(c, s, i + 1)
  <2>6. /\ c.ram[p * U] = [next |-> q, len |-> f.len + 1]
        /\ \A k \in 1 .. f.len : c.ram[Wrap(p * U + k)] = <<f.id, k>>
        /\ Ahead(n, p) + Eth!Pages(f) = Ahead(n, q)
        /\ Ahead(n, p) + Eth!Pages(f) <= Ahead(n, c.curr)
    BY <2>1 DEF FrameAt
  <2>7. Ahead(m, p) + Eth!Pages(f) = Ahead(m, q) /\ Ahead(m, p) + Eth!Pages(f) <= Ahead(m, c.curr)
    <3>1. Eth!Pages(f) \in Nat /\ Ahead(n, p) \in Nat /\ Ahead(n, q) \in Nat /\ Ahead(n, c.curr) \in Nat
      BY <1>2, <1>3, <1>5, <1>8
    <3> HIDE DEF f, p, q
    <3> QED  BY <1>6, <2>3, <2>4, <2>5, <2>6, <3>1 DEF p, q
  <2> QED  BY <2>1, <2>2, <2>6, <2>7 DEF FrameAt
<1>10. ASSUME NEW i \in 1 .. l - 1, NEW j \in 1 .. l - 1, i < j
       PROVE  Ahead(m, t[i].page) + Eth!Pages(t[i].frame) <= Ahead(m, t[j].page)
  <2>1. Ahead(m, s[i + 1].page) = Ahead(n, s[i + 1].page) - g  BY <1>3, <1>7, <1>8
  <2>2. Ahead(m, s[j + 1].page) = Ahead(n, s[j + 1].page) - g  BY <1>3, <1>7, <1>8
  <2>3. Ahead(n, s[i + 1].page) + Eth!Pages(s[i + 1].frame) <= Ahead(n, s[j + 1].page)
    <3>1. i + 1 \in 1 .. l /\ j + 1 \in 1 .. l /\ i + 1 < j + 1  BY <1>1, <1>10
    <3> QED  BY <1>2, <3>1
  <2>4. Eth!Pages(s[i + 1].frame) \in Nat /\ Ahead(n, s[i + 1].page) \in Nat /\ Ahead(n, s[j + 1].page) \in Nat
    BY <1>3, <1>5, <1>8
  <2> QED  BY <1>1, <1>6, <2>1, <2>2, <2>3, <2>4
<1>11. d.bnry = m \/ (d.bnry = Before(m) /\ Ahead(m, d.curr) <= Round - 2)
  <2>1. Ahead(n, c.curr) >= g
    <3>1. 1 \in 1 .. l  BY <1>1
    <3>2. Ahead(n, n) + g <= Ahead(n, c.curr)  BY <1>2, <3>1 DEF FrameAt, g
    <3> QED  BY <1>2, <1>5, <1>6, <3>2
  <2>2. Ahead(m, c.curr) = Ahead(n, c.curr) - g  BY <1>2, <1>7, <2>1
  <2>3. Round \in Nat  BY UnitsOfPages
  <2> QED  BY <1>2, <1>5, <1>6, <2>2, <2>3
<1>12. t # <<>> => t[1].page = m
  <2>1. SUFFICES ASSUME t # <<>> PROVE t[1].page = m  OBVIOUS
  <2>2. l # 1 /\ 1 \in 1 .. l - 1  BY <1>1, <1>20, <2>1
  <2>5. \A i \in 1 .. l - 1, j \in 1 .. l : j = i + 1 => t[i] = s[j]  BY <1>1
  <2>4. t[1] = s[2]
    <3>1. 2 \in 1 .. l /\ 2 = 1 + 1  BY <1>1, <2>2
    <3> QED  BY <2>2, <2>5, <3>1
  <2> QED  BY <1>4, <2>2, <2>4
<1>13. t = <<>> => d.curr = m
  <2>1. SUFFICES ASSUME t = <<>> PROVE d.curr = m  OBVIOUS
  <2>2. l = 1  BY <1>20, <2>1
  <2> QED  BY <1>4, <2>2
<1>14. Len(t) = l - 1  BY <1>1
<1> QED  BY <1>1, <1>2, <1>4, <1>9, <1>10, <1>11, <1>12, <1>13, <1>14 DEF RingOK

-----------------------------------------------------------------------------
\* The first frame stays readable while the card looks for another.
LEMMA FirstFrameKept ==
    ASSUME Eth!Ne2kAssumption, EthInv, Up, NEW x, NEW t, PollOK(x, t), stored # <<>>
    PROVE  /\ t # <<>> /\ t[1] = stored[1] /\ stored[1].frame.len \in Nat
           /\ \A k \in Nat : k <= stored[1].frame.len =>
                x.ram[Wrap(guest.next * U + k)] = card.ram[Wrap(guest.next * U + k)]
<1>1. card \in Cards /\ stored \in Seq(InRing) /\ RingOK(card, stored, guest.next)  BY DEF EthInv, EthTypes
<1> QED  BY <1>1, FirstFrame DEF PollOK

LEMMA ReadingKept ==
    ASSUME Eth!Ne2kAssumption, EthInv, Up, guest.phase \in {"frame", "data", "read"}, NEW x, NEW t, PollOK(x, t)
    PROVE  Reading(x, t, guest)
<1>1. stored # <<>> /\ Reading(card, stored, guest)  BY DEF EthInv, Reading
<1>2. t # <<>> /\ t[1] = stored[1] /\ stored[1].frame.len \in Nat
      /\ \A k \in Nat : k <= stored[1].frame.len =>
            x.ram[Wrap(guest.next * U + k)] = card.ram[Wrap(guest.next * U + k)]
  BY <1>1, FirstFrameKept
<1> DEFINE m == Len(guest.got)
           len == stored[1].frame.len
<1>3. /\ m \in Nat /\ m <= len + 1
      /\ \A k \in 1 .. m : guest.got[k] = card.ram[Wrap(guest.next * U + k - 1)]
  <2>1. guest.got \in Seq(Units)  BY DEF EthInv, EthTypes, Guests
  <2>2. m \in Nat  BY <2>1
  <2> HIDE DEF m
  <2>3. m <= len + 1  BY <1>1, <1>2, <2>2 DEF Reading, m
  <2> QED  BY <1>1, <2>2, <2>3 DEF Reading, m
<1>4. ASSUME NEW k \in 1 .. m PROVE guest.got[k] = x.ram[Wrap(guest.next * U + k - 1)]
  <2>1. guest.next * U \in Nat
    <3>1. guest.next \in Nat  BY DEF EthInv, EthTypes, Guests
    <3> QED  BY <3>1, UnitsOfPages
  <2> HIDE DEF m, len
  <2>4. len \in Nat  BY <1>2 DEF len
  <2>2. k - 1 \in Nat /\ k - 1 <= len /\ guest.next * U + k - 1 = guest.next * U + (k - 1)
    <3> DEFINE nu == guest.next * U
    <3>1. nu \in Nat  BY <2>1
    <3> HIDE DEF nu
    <3>2. k - 1 \in Nat /\ k - 1 <= len /\ nu + k - 1 = nu + (k - 1)  BY <1>3, <2>4, <3>1
    <3> QED  BY <3>2 DEF nu
  <2>3. x.ram[Wrap(guest.next * U + (k - 1))] = card.ram[Wrap(guest.next * U + (k - 1))]
    BY <1>2, <2>2 DEF len
  <2> QED  BY <1>3, <2>2, <2>3
<1>5. x.dma = card.dma /\ x.bytes = card.bytes  BY DEF PollOK
<1> QED  BY <1>1, <1>2, <1>4, <1>5 DEF Reading

\* A driver that goes on reading the same frame.
LEMMA ReadingAlike ==
    ASSUME NEW c, NEW d, NEW s, NEW g, NEW h, Reading(c, s, g), SameRing(c, d), d.dma = c.dma, d.bytes = c.bytes,
           h.phase = g.phase, h.next = g.next, h.got = g.got
    PROVE  Reading(d, s, h)
BY DEF Reading, SameRing

\* An access of the driver keeps the invariant if its effects do.
LEMMA Accesses ==
    ASSUME Eth!Ne2kAssumption, EthInv, Up, NEW x, NEW t, t = Arrived, PollOK(x, t),
           NEW c \in Cards, NEW g \in Guests, Eth!Access(c, g), SameRing(x, c), g.next = guest.next,
           g.phase \notin {"bios", "down"}, c.natLine = c.line, g.phase = "stopped" => c.stop,
           g.phase \in {"frame", "data", "read"} => Reading(c, t, g),
           g.phase \in {"stopped", "idle", "isr"} /\ t # <<>> => "received" \in c.isr,
           g.phase \in {"stopped", "idle"} /\ Waiting' => c.line \in c.pulses
    PROVE  EthInv'
<1>1. card' = c /\ guest' = g /\ stored' = t  BY DEF Eth!Access, Arrived, Arrives
<1>2. link' \in Links /\ dropped' \in BOOLEAN
  <2>1. link \in Links /\ dropped \in BOOLEAN  BY DEF EthInv, EthTypes
  <2>2. link' = [link EXCEPT !.chan = IF @ = <<>> THEN @ ELSE Tail(@)]  BY DEF Eth!Access
  <2>3. link.chan # <<>> => Tail(link.chan) \in Seq(EthFrames)  BY <2>1 DEF Links
  <2>4. dropped' = (dropped \/ (link.chan # <<>> /\ ~Eth!Receives(card, Head(link.chan))))  BY DEF Eth!Access
  <2>5. dropped' \in BOOLEAN  BY <2>1, <2>4
  <2> QED  BY <2>1, <2>2, <2>3, <2>5 DEF Links
<1>3. RingOK(c, t, guest.next)  BY RingAlike DEF PollOK
<1>4. t \in Seq(InRing)  BY DEF PollOK
<1>5. EthTypes'  BY <1>1, <1>2, <1>4 DEF EthTypes
<1>6. Up'  BY <1>1 DEF Up
<1> QED  BY <1>1, <1>3, <1>5, <1>6 DEF EthInv

\* What waits after an access waited before it.
LEMMA WaitsBefore ==
    ASSUME EthInv, guest.phase \in {"stopped", "idle"}, NEW x, NEW t, t = Arrived, PollOK(x, t),
           NEW c, NEW g, Eth!Access(c, g), Waiting'
    PROVE  /\ c.rxIrq = card.rxIrq => card.line \in card.pulses
           /\ t # <<>> /\ "received" \in x.isr
<1>1. card' = c /\ stored' = t /\ link'.notify = link.notify
      /\ (link'.chan # <<>> => link.chan # <<>>) /\ (link.chan # <<>> => Arrives) /\ ~dropped
  <2>1. card' = c /\ stored' = t  BY DEF Eth!Access, Arrived, Arrives
  <2>2. ~dropped' /\ dropped' = (dropped \/ (link.chan # <<>> /\ ~Eth!Receives(card, Head(link.chan))))
    BY DEF Eth!Access, Waiting
  <2>3. (link.chan # <<>> => Arrives) /\ ~dropped  BY <2>2 DEF Arrives
  <2>4. link' = [link EXCEPT !.chan = IF @ = <<>> THEN @ ELSE Tail(@)] /\ link \in Links
    BY DEF Eth!Access, EthInv, EthTypes
  <2>5. link'.notify = link.notify /\ (link'.chan # <<>> => link.chan # <<>>)  BY <2>4 DEF Links
  <2> QED  BY <2>1, <2>3, <2>5
<1>2. (link'.chan # <<>> \/ t # <<>>) /\ ~link.notify /\ c.rxIrq  BY <1>1 DEF Waiting
<1>3. CASE Arrives
  <2>1. link.chan # <<>>  BY <1>3 DEF Arrives
  <2>2. c.rxIrq = card.rxIrq => Waiting  BY <1>1, <1>2, <2>1 DEF Waiting
  <2>3. "received" \in x.isr  BY <1>3 DEF PollOK
  <2>4. t # <<>>
    <3>1. t = Append(stored, [frame |-> Head(link.chan), page |-> card.curr])  BY <1>3 DEF Arrived
    <3>2. stored \in Seq(InRing)  BY DEF EthInv, EthTypes
    <3>3. t \in Seq(InRing) /\ Len(t) = Len(stored) + 1 /\ Len(stored) \in Nat  BY <3>1, <3>2 DEF PollOK
    <3> QED  BY <3>3
  <2> QED  BY <2>2, <2>3, <2>4 DEF EthInv
<1>4. CASE ~Arrives
  <2>1. link.chan = <<>> /\ t = stored /\ t # <<>> /\ x.isr = card.isr  BY <1>1, <1>2, <1>4 DEF PollOK
  <2>2. c.rxIrq = card.rxIrq => Waiting  BY <1>1, <1>2, <2>1 DEF Waiting
  <2> QED  BY <2>1, <2>2 DEF EthInv
<1> QED  BY <1>3, <1>4

LEMMA EthStarts == ASSUME Eth!Ne2kAssumption, Eth!Init PROVE EthInv
<1>1. card \in Cards  BY DEF Eth!Init, Cards, RingUnits, Units, Causes
<1>2. link \in Links /\ guest \in Guests /\ stored \in Seq(InRing) /\ dropped \in BOOLEAN
  <2>1. <<>> \in Seq(EthFrames) /\ <<>> \in Seq(Units) /\ <<>> \in Seq(InRing)  OBVIOUS
  <2>2. link \in Links /\ dropped \in BOOLEAN  BY <2>1 DEF Eth!Init, Links
  <2>3. guest \in Guests  BY <2>1 DEF Eth!Init, Guests, Phases
  <2> QED  BY <2>1, <2>2, <2>3 DEF Eth!Init
<1> QED  BY <1>1, <1>2 DEF Eth!Init, EthInv, EthTypes, Up

\* The NAT's thread.
LEMMA EthThread ==
    ASSUME Eth!Ne2kAssumption, EthInv, (\E len \in Lengths, ours \in BOOLEAN : Eth!Deliver(len, ours)) \/ Eth!Notify
    PROVE  EthInv'
<1>1. card \in Cards /\ link \in Links /\ EthTypes  BY DEF EthInv, EthTypes
<1>2. ASSUME NEW len \in Lengths, NEW ours \in BOOLEAN, Eth!Deliver(len, ours) PROVE EthInv'
  <2>1. [id |-> link.sent + 1, len |-> len, ours |-> ours] \in EthFrames  BY <1>1 DEF Links, EthFrames
  <2>2. link' \in Links /\ link'.notify  BY <1>1, <1>2, <2>1 DEF Eth!Deliver, Links
  <2>3. UNCHANGED <<card, guest, stored, dropped>>  BY <1>2 DEF Eth!Deliver
  <2>4. EthTypes' /\ ~Waiting'  BY <1>1, <2>2, <2>3 DEF EthTypes, Waiting
  <2> QED  BY <2>3, <2>4 DEF EthInv, Up
<1>3. CASE Eth!Notify
  <2>1. UNCHANGED <<guest, stored, dropped>> /\ link' \in Links /\ link'.chan = link.chan /\ link.notify
    BY <1>1, <1>3 DEF Eth!Notify, Links
  <2>2. card' = IF card.rxIrq THEN [card EXCEPT !.pulses = @ \cup {card.natLine}] ELSE card  BY <1>3 DEF Eth!Notify
  <2>3. card' \in Cards /\ SameRing(card, card') /\ card'.stop = card.stop /\ card'.isr = card.isr
        /\ card'.rxIrq = card.rxIrq /\ card'.line = card.line /\ card'.natLine = card.natLine
        /\ card'.dma = card.dma /\ card'.bytes = card.bytes
        /\ (card.rxIrq => card.natLine \in card'.pulses)
    BY <1>1, <2>2 DEF Cards, SameRing
  <2>4. EthTypes'  BY <1>1, <2>1, <2>3 DEF EthTypes
  <2>5. IF Up' THEN RingOK(card', stored', guest'.next) ELSE stored' = <<>>
    BY <2>1, <2>3, RingAlike DEF EthInv, Up
  <2>6. guest'.phase \in {"frame", "data", "read"} => Reading(card', stored', guest')
    BY <2>1, <2>3, ReadingAlike DEF EthInv
  <2>7. guest'.phase \in {"stopped", "idle"} /\ Waiting' => card'.line \in card'.pulses
    BY <2>1, <2>3 DEF EthInv, Waiting
  <2> QED  BY <2>1, <2>3, <2>4, <2>5, <2>6, <2>7 DEF EthInv
<1> QED  BY <1>2, <1>3

\* The configuration of the card, while it is stopped.
LEMMA EthConfigured ==
    ASSUME Eth!Ne2kAssumption, EthInv,
           (\E l \in Lines : Eth!WriteInterruptLine(l)) \/ Eth!WriteCommandRegister \/ Eth!WriteRing \/ Eth!Reset
    PROVE  EthInv'
<1>1. card \in Cards /\ link \in Links /\ guest \in Guests /\ EthTypes  BY DEF EthInv, EthTypes
<1>2. ASSUME NEW l \in Lines, Eth!WriteInterruptLine(l) PROVE EthInv'
  <2>1. card' \in Cards /\ card'.stop = card.stop /\ guest.phase = "bios" /\ UNCHANGED <<link, guest, stored, dropped>>
    BY <1>1, <1>2 DEF Eth!WriteInterruptLine, Cards
  <2>2. EthTypes'  BY <1>1, <2>1 DEF EthTypes
  <2> QED  BY <2>1, <2>2 DEF EthInv, Up
<1>3. CASE Eth!WriteCommandRegister
  <2>1. card' \in Cards /\ card'.stop = card.stop /\ card'.natLine = card'.line /\ guest.phase = "bios"
        /\ UNCHANGED <<link, stored, dropped>>
    BY <1>1, <1>3 DEF Eth!WriteCommandRegister, Cards
  <2>2. guest' \in Guests /\ guest'.phase = "down"  BY <1>1, <1>3 DEF Eth!WriteCommandRegister, Guests, Phases
  <2>3. EthTypes'  BY <1>1, <2>1, <2>2 DEF EthTypes
  <2> QED  BY <2>1, <2>2, <2>3 DEF EthInv, Up
<1>4. ASSUME card.stop PROVE ~Arrives /\ Eth!Polled = card  BY <1>4 DEF Arrives, Eth!Receives, Eth!Polled
<1>5. CASE Eth!WriteRing
  <2>1. card.stop /\ stored = <<>> /\ guest.phase = "down" /\ card.natLine = card.line
    BY <1>5 DEF Eth!WriteRing, EthInv, Up
  <2> DEFINE c == [card EXCEPT !.pstart = PStart, !.pstop = PStop, !.bnry = PStart, !.curr = PStart, !.isr = {}]
             g == [guest EXCEPT !.phase = "stopped", !.next = PStart]
  <2>2. Eth!Access(c, g) /\ ~Arrives  BY <1>4, <1>5, <2>1 DEF Eth!WriteRing
  <2>3. c \in Cards /\ c.stop = card.stop /\ c.natLine = c.line /\ c.pstart = PStart /\ c.pstop = PStop
        /\ c.bnry = PStart /\ c.curr = PStart
    BY <1>1, <2>1 DEF Cards, Eth!Ne2kAssumption
  <2>4. g \in Guests /\ g.phase = "stopped" /\ g.next = PStart  BY <1>1 DEF Guests, Phases, Eth!Ne2kAssumption
  <2> HIDE DEF c, g
  <2>5. card' = c /\ guest' = g /\ stored' = <<>> /\ dropped' = (dropped \/ link.chan # <<>>)
    BY <2>1, <2>2 DEF Eth!Access, Arrives
  <2>6. link' = [link EXCEPT !.chan = IF @ = <<>> THEN @ ELSE Tail(@)]  BY <2>2 DEF Eth!Access
  <2>7. link' \in Links /\ (link.chan = <<>> => link'.chan = <<>>)  BY <1>1, <2>6 DEF Links
  <2>8. EthTypes'
    <3>1. dropped' \in BOOLEAN /\ stored' \in Seq(InRing)  BY <1>1, <2>5 DEF EthTypes
    <3> QED  BY <2>3, <2>4, <2>5, <2>7, <3>1 DEF EthTypes
  <2>9. RingOK(c, <<>>, PStart)
    <3>1. PStart \in RingPages  BY DEF RingPages, Eth!Ne2kAssumption
    <3> QED  BY <2>3, <3>1 DEF RingOK
  <2>10. ~Waiting'  BY <2>5, <2>7 DEF Waiting
  <2> QED  BY <2>1, <2>3, <2>4, <2>5, <2>8, <2>9, <2>10 DEF EthInv, Up
<1>6. CASE Eth!Reset
  <2>1. card.stop /\ guest.phase = "stopped" /\ card.natLine = card.line  BY <1>6 DEF Eth!Reset, EthInv
  <2>2. card' = [card EXCEPT !.stop = TRUE, !.isr = {"reset"}, !.imr = {}, !.pstart = 0, !.pstop = 0,
                             !.bnry = 0, !.curr = 0, !.dma = 0, !.bytes = 0]
    BY <1>4, <1>6, <2>1 DEF Eth!Reset
  <2>3. card' \in Cards /\ card'.stop /\ card'.natLine = card'.line  BY <1>1, <2>1, <2>2, Zenon DEF Cards, Causes
  <2>4. guest' \in Guests /\ guest'.phase = "down"  BY <1>1, <1>6 DEF Eth!Reset, Guests, Phases
  <2>5. link' \in Links /\ dropped' \in BOOLEAN /\ stored' = <<>>
    <3>4. link' = [link EXCEPT !.chan = IF @ = <<>> THEN @ ELSE Tail(@)]  BY <1>6 DEF Eth!Reset
    <3>5. link.chan # <<>> => Tail(link.chan) \in Seq(EthFrames)  BY <1>1 DEF Links
    <3>1. link' \in Links  BY <1>1, <3>4, <3>5 DEF Links
    <3>2. dropped \in BOOLEAN  BY DEF EthInv, EthTypes
    <3>3. dropped' \in BOOLEAN /\ stored' = <<>>  BY <1>6, <3>2 DEF Eth!Reset
    <3> QED  BY <3>1, <3>3
  <2>6. stored' \in Seq(InRing)  BY <2>5
  <2>7. EthTypes'  BY <2>3, <2>4, <2>5, <2>6 DEF EthTypes
  <2> QED  BY <2>3, <2>4, <2>5, <2>7 DEF EthInv, Up
<1> QED  BY <1>2, <1>3, <1>5, <1>6

\* The card, the driver and what the driver's accesses poll.
LEMMA EthState ==
    ASSUME Eth!Ne2kAssumption, EthInv, Up, NEW x, x = Eth!Polled, NEW t, t = Arrived
    PROVE  PollOK(x, t) /\ x \in Cards /\ guest \in Guests /\ x.natLine = x.line
<1>1. EthTypes /\ RingOK(card, stored, guest.next)  BY DEF EthInv
<1>2. PollOK(x, t)  BY <1>1, Polls
<1> QED  BY <1>1, <1>2 DEF PollOK, EthTypes, EthInv, Up

\* The interrupt mask, start and stop, transmission.
LEMMA EthOperated ==
    ASSUME Eth!Ne2kAssumption, EthInv,
           (\E mask \in {{}, {"received", "transmitted"}} : Eth!WriteImr(mask)) \/ Eth!StartStop \/ Eth!Transmit
    PROVE  EthInv'
<1> DEFINE x == Eth!Polled
           t == Arrived
<1>1. Up /\ guest.phase \in {"stopped", "idle"}  BY DEF Eth!WriteImr, Eth!StartStop, Eth!Transmit, Up
<1>2. PollOK(x, t) /\ x \in Cards /\ guest \in Guests /\ x.natLine = x.line  BY <1>1, EthState
<1>3. /\ x.stop = card.stop /\ x.rxIrq = card.rxIrq /\ x.line = card.line /\ card.pulses \subseteq x.pulses
      /\ card.isr \subseteq x.isr
  BY <1>2 DEF PollOK
<1>4. t # <<>> => "received" \in x.isr  BY <1>1, <1>2 DEF PollOK, EthInv
<1>5. guest.phase = "stopped" => x.stop  BY <1>3 DEF EthInv
<1> HIDE DEF x, t
<1>6. ASSUME NEW mask \in {{}, {"received", "transmitted"}}, Eth!WriteImr(mask) PROVE EthInv'
  <2> DEFINE y == [x EXCEPT !.imr = mask, !.rxIrq = ("received" \in mask)]
             c == Eth!CheckIrq(y)
  <2>1. Eth!Access(c, guest)  BY <1>6 DEF Eth!WriteImr, x
  <2>2. y \in Cards /\ SameRing(x, y) /\ y.isr = x.isr /\ y.imr = mask /\ y.rxIrq = ("received" \in mask)
        /\ y.stop = x.stop /\ y.line = x.line /\ y.natLine = x.natLine
    <3>1. ASSUME NEW w \in BOOLEAN, NEW z, z = [x EXCEPT !.imr = mask, !.rxIrq = w]
          PROVE  z \in Cards /\ SameRing(x, z) /\ z.isr = x.isr /\ z.imr = mask /\ z.rxIrq = w
                 /\ z.stop = x.stop /\ z.line = x.line /\ z.natLine = x.natLine
      BY <1>2, <3>1 DEF Cards, SameRing, Causes
    <3>2. ("received" \in mask) \in BOOLEAN  OBVIOUS
    <3> QED  BY <3>1, <3>2, Zenon
  <2> HIDE DEF y
  <2>3. c \in Cards /\ SameRing(x, c) /\ c.isr = x.isr /\ c.rxIrq = ("received" \in mask) /\ c.stop = x.stop
        /\ c.line = x.line /\ c.natLine = x.natLine /\ (x.isr \cap mask # {} => c.line \in c.pulses)
    BY <2>2, InterruptRaised DEF SameRing
  <2> HIDE DEF c
  <2>4. Waiting' => c.line \in c.pulses
    <3>1. SUFFICES ASSUME Waiting' PROVE c.line \in c.pulses  OBVIOUS
    <3>2. card' = c  BY <2>1 DEF Eth!Access
    <3>3. c.rxIrq  BY <3>1, <3>2 DEF Waiting
    <3>4. "received" \in x.isr  BY <1>1, <1>2, <2>1, <3>1, WaitsBefore DEF t
    <3> QED  BY <2>3, <3>3, <3>4
  <2> QED  BY <1>1, <1>2, <1>4, <1>5, <2>1, <2>3, <2>4, Accesses DEF Up, t
<1>7. CASE Eth!StartStop
  <2>1. ASSUME NEW c \in Cards, NEW g \in Guests, Eth!Access(c, g), SameRing(x, c), g.next = guest.next,
               g.phase \in {"stopped", "idle"}, c.line = x.line, c.natLine = x.natLine, c.rxIrq = x.rxIrq,
               g.phase = "stopped" => c.stop, "received" \in x.isr => "received" \in c.isr, c.pulses = x.pulses
        PROVE  EthInv'
    <3>1. Waiting' => c.line \in c.pulses
      <4>1. SUFFICES ASSUME Waiting' PROVE c.line \in c.pulses  OBVIOUS
      <4>2. c.rxIrq = card.rxIrq => card.line \in card.pulses  BY <1>1, <1>2, <2>1, <4>1, WaitsBefore DEF t
      <4> QED  BY <1>3, <2>1, <4>2
    <3> QED  BY <1>1, <1>2, <1>4, <2>1, <3>1, Accesses DEF t
  <2>2. CASE guest.phase = "stopped"
    <3> DEFINE c == [x EXCEPT !.stop = FALSE, !.isr = @ \ {"reset"}]
               g == [guest EXCEPT !.phase = "idle"]
    <3>1. Eth!Access(c, g)  BY <1>7, <2>2 DEF Eth!StartStop, x
    <3>2. c \in Cards /\ SameRing(x, c) /\ c.line = x.line /\ c.natLine = x.natLine /\ c.rxIrq = x.rxIrq
          /\ ("received" \in x.isr => "received" \in c.isr) /\ c.pulses = x.pulses
      BY <1>2 DEF Cards, SameRing, Causes
    <3>3. g \in Guests /\ g.next = guest.next /\ g.phase = "idle"  BY <1>2 DEF Guests, Phases
    <3> HIDE DEF c, g
    <3> QED  BY <2>1, <3>1, <3>2, <3>3
  <2>3. CASE guest.phase # "stopped"
    <3> DEFINE c == [x EXCEPT !.stop = TRUE, !.isr = @ \cup {"reset"}]
               g == [guest EXCEPT !.phase = "stopped"]
    <3>1. Eth!Access(c, g)  BY <1>7, <2>3 DEF Eth!StartStop, x
    <3>2. c \in Cards /\ SameRing(x, c) /\ c.line = x.line /\ c.natLine = x.natLine /\ c.rxIrq = x.rxIrq
          /\ ("received" \in x.isr => "received" \in c.isr) /\ c.pulses = x.pulses /\ c.stop
      BY <1>2 DEF Cards, SameRing, Causes
    <3>3. g \in Guests /\ g.next = guest.next /\ g.phase = "stopped"  BY <1>2 DEF Guests, Phases
    <3> HIDE DEF c, g
    <3> QED  BY <2>1, <3>1, <3>2, <3>3
  <2> QED  BY <2>2, <2>3
<1>8. CASE Eth!Transmit
  <2> DEFINE y == [x EXCEPT !.isr = @ \cup {"transmitted"}]
             c == Eth!CheckIrq(y)
  <2>1. Eth!Access(c, guest) /\ guest.phase = "idle"  BY <1>8 DEF Eth!Transmit, x
  <2>2. y \in Cards /\ SameRing(x, y) /\ y.isr = x.isr \cup {"transmitted"} /\ y.rxIrq = x.rxIrq
        /\ y.stop = x.stop /\ y.line = x.line /\ y.natLine = x.natLine /\ y.pulses = x.pulses
    BY <1>2 DEF Cards, SameRing, Causes
  <2> HIDE DEF y
  <2>3. c \in Cards /\ SameRing(x, c) /\ x.isr \subseteq c.isr /\ c.rxIrq = x.rxIrq /\ c.stop = x.stop
        /\ c.line = x.line /\ c.natLine = x.natLine /\ x.pulses \subseteq c.pulses
    BY <2>2, InterruptRaised DEF SameRing
  <2> HIDE DEF c
  <2>4. Waiting' => c.line \in c.pulses
    <3>1. SUFFICES ASSUME Waiting' PROVE c.line \in c.pulses  OBVIOUS
    <3>2. c.rxIrq = card.rxIrq => card.line \in card.pulses  BY <1>1, <1>2, <2>1, <3>1, WaitsBefore DEF t
    <3> QED  BY <1>3, <2>3, <3>2
  <2> QED  BY <1>1, <1>2, <1>4, <2>1, <2>3, <2>4, Accesses DEF Up, t
<1> QED  BY <1>6, <1>7, <1>8

\* The interrupt and its status.
LEMMA EthHandled ==
    ASSUME Eth!Ne2kAssumption, EthInv, Eth!Interrupt \/ Eth!ReadIsr \/ Eth!WriteIsr
    PROVE  EthInv'
<1>1. Up  BY DEF Eth!Interrupt, Eth!ReadIsr, Eth!WriteIsr, Up
<1>2. CASE Eth!Interrupt
  <2>1. card \in Cards /\ guest \in Guests /\ EthTypes  BY DEF EthInv, EthTypes
  <2>2. card' \in Cards /\ SameRing(card, card') /\ card'.isr = card.isr /\ card'.natLine = card.natLine
        /\ card'.line = card.line
    BY <1>2, <2>1 DEF Eth!Interrupt, Cards, SameRing
  <2>3. guest' \in Guests /\ guest'.phase = "isr" /\ guest'.next = guest.next /\ guest.phase = "idle"
    BY <1>2, <2>1 DEF Eth!Interrupt, Guests, Phases
  <2>4. dropped' = FALSE /\ UNCHANGED <<link, stored>>  BY <1>2 DEF Eth!Interrupt
  <2>5. EthTypes'  BY <2>1, <2>2, <2>3, <2>4 DEF EthTypes
  <2>6. RingOK(card', stored', guest'.next)  BY <1>1, <2>2, <2>3, <2>4, RingAlike DEF EthInv
  <2> QED  BY <2>2, <2>3, <2>4, <2>5, <2>6 DEF EthInv, Up
<1> DEFINE x == Eth!Polled
           t == Arrived
<1>3. PollOK(x, t) /\ x \in Cards /\ guest \in Guests /\ x.natLine = x.line  BY <1>1, EthState
<1> HIDE DEF x, t
<1>4. CASE Eth!ReadIsr
  <2> DEFINE g == [guest EXCEPT !.val = x.isr,
                                !.phase = IF x.isr \cap {"received", "transmitted"} = {} THEN "idle" ELSE "ack"]
  <2>1. Eth!Access(x, g) /\ guest.phase = "isr"  BY <1>4 DEF Eth!ReadIsr, x
  <2>2. g \in Guests /\ g.next = guest.next
        /\ g.phase = IF x.isr \cap {"received", "transmitted"} = {} THEN "idle" ELSE "ack"
    BY <1>3, Zenon DEF Guests, Phases, Cards
  <2> HIDE DEF g
  <2>3. t # <<>> => "received" \in x.isr  BY <1>1, <1>3, <2>1 DEF PollOK, EthInv
  <2>4. SameRing(x, x)  BY DEF SameRing
  <2>5. ~(g.phase = "idle" /\ Waiting')
    <3>1. SUFFICES ASSUME g.phase = "idle", Waiting' PROVE FALSE  OBVIOUS
    <3>2. "received" \notin x.isr  BY <2>2, <3>1
    <3>3. ~Arrives /\ t = <<>>  BY <1>3, <2>3, <3>2 DEF PollOK
    <3>4. stored' = t /\ link' = [link EXCEPT !.chan = IF @ = <<>> THEN @ ELSE Tail(@)]
          /\ dropped' = (dropped \/ (link.chan # <<>> /\ ~Eth!Receives(card, Head(link.chan))))
      BY <2>1 DEF Eth!Access, t, Arrived, Arrives
    <3>5. link.chan = <<>>  BY <3>1, <3>3, <3>4 DEF Waiting, Arrives
    <3>6. link'.chan = <<>>  BY <3>4, <3>5 DEF EthInv, EthTypes, Links
    <3> QED  BY <3>1, <3>3, <3>4, <3>6 DEF Waiting
  <2> QED  BY <1>1, <1>3, <2>1, <2>2, <2>3, <2>4, <2>5, Accesses DEF t
<1>5. CASE Eth!WriteIsr
  <2> DEFINE y == [x EXCEPT !.isr = @ \ guest.val]
             c == Eth!CheckIrq(y)
             g == [guest EXCEPT !.phase = "ring"]
  <2>1. Eth!Access(c, g)  BY <1>5 DEF Eth!WriteIsr, x
  <2>2. y \in Cards /\ SameRing(x, y) /\ y.line = x.line /\ y.natLine = x.natLine
    BY <1>3 DEF Cards, SameRing, Causes
  <2> HIDE DEF y
  <2>3. c \in Cards /\ SameRing(x, c) /\ c.line = x.line /\ c.natLine = x.natLine
    BY <2>2, InterruptRaised DEF SameRing
  <2>4. g \in Guests /\ g.next = guest.next /\ g.phase = "ring"  BY <1>3 DEF Guests, Phases
  <2> HIDE DEF c, g
  <2> QED  BY <1>1, <1>3, <2>1, <2>3, <2>4, Accesses DEF t
<1> QED  BY <1>2, <1>4, <1>5

\* The address of the data port goes around the ring.
LEMMA DataPortStep ==
    ASSUME Eth!Ne2kAssumption, NEW a \in Nat, a + 1 < PStop * U + Round * U, NEW e, e = Wrap(a) + 1,
           NEW to, to = IF e = PStop * U THEN PStart * U ELSE e
    PROVE  to = Wrap(a + 1) /\ to \in Nat
<1> DEFINE eu == PStop * U
           ru == Round * U
           su == PStart * U
<1>1. PStart \in Nat /\ PStop \in Nat /\ PStart < PStop /\ U \in Nat /\ U >= 1  BY DEF Eth!Ne2kAssumption
<1>2. eu \in Nat /\ ru \in Nat /\ su \in Nat /\ ru = eu - su /\ su + U <= eu  BY <1>1, UnitsOfPages
<1>3. \A q : Wrap(q) = IF q >= eu THEN q - ru ELSE q  BY DEF Wrap
<1>4. to = IF e = eu THEN su ELSE e  OBVIOUS
<1>5. a + 1 < eu + ru  OBVIOUS
<1> HIDE DEF eu, ru, su
<1>6. e = (IF a >= eu THEN a - ru ELSE a) + 1  BY <1>3
<1> DEFINE b == a + 1
<1>7. b \in Nat /\ b = a + 1  OBVIOUS
<1> HIDE DEF b
<1>8. Wrap(b) = IF b >= eu THEN b - ru ELSE b  BY <1>3, Zenon
<1>9. to = Wrap(b) /\ to \in Nat  BY <1>1, <1>2, <1>4, <1>5, <1>6, <1>7, <1>8
<1> QED  BY <1>9 DEF b

\* The driver reads the current page and the frames.
LEMMA EthReads ==
    ASSUME Eth!Ne2kAssumption, EthInv, Eth!ReadCurr \/ (\E send \in BOOLEAN : Eth!StartDma(send)) \/ Eth!ReadData
    PROVE  EthInv'
<1> DEFINE x == Eth!Polled
           t == Arrived
           n == guest.next
<1>1. Up  BY Zenon DEF Eth!ReadCurr, Eth!StartDma, Eth!ReadData, Up
<1>2. PollOK(x, t) /\ x \in Cards /\ guest \in Guests /\ x.natLine = x.line  BY <1>1, EthState
<1>3. t \in Seq(InRing) /\ RingOK(x, t, n) /\ x.pstart = PStart /\ x.pstop = PStop /\ x.bnry = card.bnry
  BY <1>2 DEF PollOK, RingOK
<1>4. n \in Nat /\ n * U \in Nat /\ n * U + 0 = n * U
  <2>1. n \in Nat  BY <1>2 DEF Guests
  <2> DEFINE nu == n * U
  <2>2. nu \in Nat  BY <2>1, UnitsOfPages
  <2> HIDE DEF nu
  <2>3. nu + 0 = nu  BY <2>2
  <2> QED  BY <2>1, <2>2, <2>3 DEF nu
<1>5. t # <<>> => /\ t[1].frame.len \in Nat /\ Wrap(n * U) = n * U /\ FrameAt(x, t, n, 1) /\ t[1].page = n
                  /\ n \in RingPages /\ t[1].frame \in EthFrames
                  /\ x.ram[n * U] = [next |-> NextOf(x, t, 1), len |-> t[1].frame.len + 1]
                  /\ \A k \in 0 .. t[1].frame.len :
                        Wrap(n * U + k) \in RingUnits /\ n * U + k + 1 < PStop * U + Round * U
  BY <1>2, <1>3, FirstFrame
<1>6. guest.phase \in {"frame", "data"} => Reading(x, t, guest)
  BY <1>1, <1>2, ReadingKept
<1> HIDE DEF x, t
<1>7. CASE Eth!ReadCurr
  <2> DEFINE g == [guest EXCEPT !.phase = IF x.curr = guest.next THEN "isr" ELSE "frame", !.got = <<>>]
  <2>1. Eth!Access(x, g)  BY <1>7 DEF Eth!ReadCurr, x
  <2>2. g \in Guests /\ g.next = guest.next /\ g.got = <<>> /\ g.phase = IF x.curr = guest.next THEN "isr" ELSE "frame"
    <3>1. <<>> \in Seq(Units)  OBVIOUS
    <3> QED  BY <1>2, <3>1 DEF Guests, Phases
  <2> HIDE DEF g
  <2>3. SameRing(x, x)  BY DEF SameRing
  <2>4. x.curr = guest.next => t = <<>>
    <3>1. SUFFICES ASSUME x.curr = n, t # <<>> PROVE FALSE  OBVIOUS
    <3>2. Ahead(n, n) + Eth!Pages(t[1].frame) <= Ahead(n, n)  BY <1>5, <3>1 DEF FrameAt
    <3>3. Ahead(n, n) = 0  BY <1>4 DEF Ahead
    <3>4. Eth!Pages(t[1].frame) \in Nat /\ Eth!Pages(t[1].frame) >= 1  BY <1>5, <3>1, PagesOfFrame
    <3> QED  BY <3>2, <3>3, <3>4
  <2>5. x.curr # guest.next => t # <<>>  BY <1>3 DEF RingOK
  <2>6. g.phase \in {"frame", "data", "read"} => Reading(x, t, g)
    BY <2>2, <2>5 DEF Reading
  <2> QED  BY <1>1, <1>2, <2>1, <2>2, <2>3, <2>4, <2>6, Accesses DEF t
<1>8. ASSUME NEW send \in BOOLEAN, Eth!StartDma(send) PROVE EthInv'
  <2> DEFINE c == [x EXCEPT !.dma = n * U, !.bytes = x.ram[n * U].len]
             g == [guest EXCEPT !.phase = "data"]
  <2>1. Eth!Access(c, g) /\ guest.phase = "frame"
    <3>1. (IF send THEN x.bnry ELSE guest.next) = n  BY <1>3, <1>8, Zenon DEF Eth!StartDma
    <3>2. Eth!Access([x EXCEPT !.dma = (IF send THEN x.bnry ELSE guest.next) * U,
                           !.bytes = x.ram[(IF send THEN x.bnry ELSE guest.next) * U].len],
                 [guest EXCEPT !.phase = "data"])
      BY <1>8, Zenon DEF Eth!StartDma, x
    <3>3. guest.phase = "frame"  BY <1>8, Zenon DEF Eth!StartDma
    <3> QED  BY <3>1, <3>2, <3>3
  <2>2. Reading(x, t, guest) /\ t # <<>> /\ Len(guest.got) = 0  BY <1>6, <2>1 DEF Reading
  <2>3. x.ram[n * U].len = t[1].frame.len + 1 /\ t[1].frame.len \in Nat  BY <1>5, <2>2
  <2>4. c \in Cards /\ SameRing(x, c) /\ c.natLine = c.line /\ c.dma = n * U /\ c.bytes = t[1].frame.len + 1
    <3>2. n * U \in Nat /\ x.ram[n * U].len \in Nat  BY <1>4, <2>3
    <3> DEFINE v == n * U
               w == x.ram[n * U].len
    <3>3. v \in Nat /\ w \in Nat /\ c = [x EXCEPT !.dma = v, !.bytes = w]  BY <3>2
    <3>4. w = t[1].frame.len + 1  BY <2>3
    <3> HIDE DEF v, w, c
    <3>5. c \in Cards /\ SameRing(x, c) /\ c.natLine = c.line /\ c.dma = v /\ c.bytes = w
      BY <1>2, <3>3 DEF Cards, SameRing
    <3> QED  BY <3>4, <3>5 DEF v
  <2>5. g \in Guests /\ g.phase = "data" /\ g.next = n /\ g.got = guest.got  BY <1>2 DEF Guests, Phases
  <2> HIDE DEF c, g
  <2>6. Reading(c, t, g)  BY <1>4, <1>5, <2>2, <2>3, <2>4, <2>5 DEF Reading
  <2> QED  BY <1>1, <1>2, <2>1, <2>4, <2>5, <2>6, Accesses DEF t
<1>9. CASE Eth!ReadData
  <2> DEFINE m   == Len(guest.got)
             len == t[1].frame.len
             a   == n * U + m
             end == x.dma + 1
             to  == IF end = x.pstop * U THEN x.pstart * U ELSE end
             d   == [x EXCEPT !.dma = to, !.bytes = IF @ = 0 THEN 0 ELSE @ - 1]
             c   == IF d.bytes = 0 THEN Eth!CheckIrq([d EXCEPT !.isr = @ \cup {"dma"}]) ELSE d
             u   == x.ram[x.dma]
             g   == [guest EXCEPT !.got = Append(@, u), !.phase = IF d.bytes = 0 THEN "read" ELSE @]
  <2>1. Eth!Access(c, g) /\ guest.phase = "data"  BY <1>9 DEF Eth!ReadData, x
  <2>2. Reading(x, t, guest) /\ t # <<>>  BY <1>6, <2>1 DEF Reading
  <2>3. /\ m \in Nat /\ len \in Nat /\ m <= len /\ x.dma = Wrap(a) /\ x.bytes = len + 1 - m
        /\ guest.got \in Seq(Units)
        /\ \A k \in 1 .. m : guest.got[k] = x.ram[Wrap(n * U + k - 1)]
    <3>1. guest.got \in Seq(Units) /\ m \in Nat  BY <1>2 DEF Guests
    <3> QED  BY <1>5, <2>1, <2>2, <3>1 DEF Reading
  <2>4. Wrap(a) \in RingUnits /\ a + 1 < PStop * U + Round * U
    <3>1. m \in 0 .. len  BY <2>3
    <3> QED  BY <1>5, <2>2, <3>1
  <2> HIDE DEF m, len
  <2>5. to = Wrap(a + 1) /\ to \in Nat
    <3>1. x.pstart = PStart /\ x.pstop = PStop  BY <1>3
    <3>2. to = IF end = PStop * U THEN PStart * U ELSE end  BY ONLY <3>1
    <3>3. a \in Nat
      <4> DEFINE nu == n * U
      <4>1. nu \in Nat /\ m \in Nat  BY <1>4, <2>3
      <4> HIDE DEF nu
      <4>2. nu + m \in Nat  BY <4>1
      <4> QED  BY <4>2 DEF nu
    <3>4. end = Wrap(a) + 1  BY <2>3
    <3>5. a + 1 < PStop * U + Round * U  BY <2>4
    <3> HIDE DEF a, end, to
    <3> QED  BY <3>2, <3>3, <3>4, <3>5, DataPortStep
  <2>6. d \in Cards /\ SameRing(x, d) /\ d.natLine = d.line /\ d.dma = to /\ d.bytes = len - m /\ d.bytes \in Nat
    <3>1. x.bytes # 0 /\ x.bytes - 1 = len - m /\ len - m \in Nat  BY <2>3
    <3> HIDE DEF to
    <3>2. d = [x EXCEPT !.dma = to, !.bytes = len - m]  BY <1>2, <3>1 DEF Cards
    <3> HIDE DEF d
    <3> QED  BY <1>2, <2>5, <3>1, <3>2 DEF Cards, SameRing
  <2> HIDE DEF to, d
  <2>7. c \in Cards /\ SameRing(x, c) /\ c.natLine = c.line /\ c.dma = to /\ c.bytes = len - m
    <3> DEFINE y == [d EXCEPT !.isr = @ \cup {"dma"}]
    <3>1. y \in Cards /\ SameRing(x, y) /\ y.natLine = y.line /\ y.dma = to /\ y.bytes = len - m
      BY <2>6 DEF Cards, SameRing, Causes
    <3> HIDE DEF y
    <3>2. Eth!CheckIrq(y) \in Cards /\ SameRing(x, Eth!CheckIrq(y)) /\ Eth!CheckIrq(y).natLine = Eth!CheckIrq(y).line
          /\ Eth!CheckIrq(y).dma = to /\ Eth!CheckIrq(y).bytes = len - m
      BY <3>1, InterruptRaised DEF SameRing
    <3> QED  BY <2>6, <3>2 DEF y
  <2> HIDE DEF c
  <2>8. u \in Units /\ u = x.ram[Wrap(a)]
    <3>1. x.ram \in [RingUnits -> Units]  BY <1>2 DEF Cards
    <3> QED  BY <2>3, <2>4, <3>1
  <2> HIDE DEF u
  <2>9. /\ g \in Guests /\ g.next = n /\ g.got = Append(guest.got, u)
        /\ g.phase = IF len - m = 0 THEN "read" ELSE "data"
    <3>1. Append(guest.got, u) \in Seq(Units)  BY <2>3, <2>8
    <3> QED  BY <1>2, <2>1, <2>6, <3>1 DEF Guests, Phases
  <2> HIDE DEF g
  <2>10. Len(g.got) = m + 1 /\ g.got[m + 1] = u /\ \A k \in 1 .. m : g.got[k] = guest.got[k]
    BY <2>3, <2>8, <2>9 DEF m
  <2>11. \A k \in 1 .. m + 1 : g.got[k] = c.ram[Wrap(g.next * U + k - 1)]
    <3>1. SUFFICES ASSUME NEW k \in 1 .. m + 1 PROVE g.got[k] = c.ram[Wrap(g.next * U + k - 1)]  OBVIOUS
    <3>2. c.ram = x.ram  BY <2>7 DEF SameRing
    <3>3. CASE k = m + 1
      <4>1. n * U + k - 1 = a  BY <1>4, <2>3, <3>3
      <4> QED  BY <2>8, <2>9, <2>10, <3>2, <3>3, <4>1
    <3>4. CASE k # m + 1
      <4>1. k \in 1 .. m  BY <2>3, <3>4
      <4> QED  BY <2>3, <2>9, <2>10, <3>2, <4>1
    <3> QED  BY <3>3, <3>4
  <2>12. g.phase \in {"data", "read"} /\ (g.phase = "read" => m + 1 = len + 1)
         /\ (g.phase = "data" => m + 1 <= len /\ c.bytes = len + 1 - (m + 1))
    <3>1. m \in Nat /\ len \in Nat /\ m <= len  BY <2>3
    <3>2. g.phase = IF m = len THEN "read" ELSE "data"  BY <2>9, <3>1
    <3> QED  BY <2>7, <3>1, <3>2
  <2>13. c.dma = Wrap(g.next * U + (m + 1))
    <3> DEFINE nu == n * U
    <3>2. nu \in Nat /\ m \in Nat  BY <1>4, <2>3
    <3>3. a = nu + m  OBVIOUS
    <3> HIDE DEF nu, a
    <3>4. nu + (m + 1) = a + 1  BY <3>2, <3>3
    <3>1. n * U + (m + 1) = a + 1  BY <3>4 DEF nu
    <3> QED  BY <2>5, <2>7, <2>9, <3>1
  <2>14. Reading(c, t, g)  BY <2>2, <2>10, <2>11, <2>12, <2>13 DEF Reading, len
  <2> QED  BY <1>1, <1>2, <2>1, <2>7, <2>9, <2>12, <2>14, Accesses DEF t
<1> QED  BY <1>7, <1>8, <1>9

\* The boundary frees the frame the driver has read.
LEMMA EthFreed ==
    ASSUME Eth!Ne2kAssumption, EthInv, NEW behind \in BOOLEAN, Eth!WriteBoundary(behind)
    PROVE  EthInv'
<1> DEFINE x == Eth!Polled
           t == Arrived
           n == guest.next
           m == guest.got[1].next
           e == [frame |-> Head(link.chan), page |-> card.curr]
<1>1. Up /\ guest.phase = "read"  BY DEF Eth!WriteBoundary, Up
<1>2. PollOK(x, t) /\ x \in Cards /\ guest \in Guests /\ x.natLine = x.line  BY <1>1, EthState
<1>3. t \in Seq(InRing) /\ RingOK(x, t, n)  BY <1>2 DEF PollOK
<1>4. Reading(x, t, guest) /\ t # <<>>
  <2>1. Reading(x, t, guest)  BY <1>1, <1>2, ReadingKept
  <2> QED  BY <2>1 DEF Reading
<1>5. stored # <<>>  BY <1>1 DEF EthInv, Reading
<1>6. t[1].frame.len \in Nat /\ n * U \in Nat /\ Wrap(n * U) = n * U
      /\ x.ram[n * U] = [next |-> NextOf(x, t, 1), len |-> t[1].frame.len + 1]
  BY <1>2, <1>3, <1>4, FirstFrame
<1>7. m = NextOf(x, t, 1)
  <2>1. Len(guest.got) = t[1].frame.len + 1 /\ \A k \in 1 .. Len(guest.got) : guest.got[k] = x.ram[Wrap(n * U + k - 1)]
    BY <1>1, <1>4 DEF Reading
  <2>2. 1 \in 1 .. Len(guest.got)  BY <1>6, <2>1
  <2>3. n * U + 1 - 1 = n * U  BY <1>6
  <2>4. guest.got[1] = x.ram[n * U]  BY <1>6, <2>1, <2>2, <2>3
  <2> QED  BY <1>6, <2>4
<1>8. Tail(stored) \o (IF Arrives THEN <<e>> ELSE <<>>) = Tail(t)
  <2>1. Tail(t) = IF Arrives THEN Append(Tail(stored), t[Len(t)]) ELSE Tail(stored)  BY <1>2, <1>5 DEF PollOK
  <2>2. Arrives => t[Len(t)] = e  BY <1>2, <1>5 DEF PollOK
  <2>3. stored \in Seq(InRing) /\ link.chan \in Seq(EthFrames) /\ card.curr \in RingPages
    BY <1>1 DEF EthInv, EthTypes, Links, RingOK
  <2>4. Arrives => e \in InRing  BY <2>3 DEF Arrives, InRing
  <2>5. Tail(stored) \in Seq(InRing)  BY <1>5, <2>3
  <2> HIDE DEF e
  <2>6. Arrives => Tail(stored) \o <<e>> = Append(Tail(stored), e)  BY <2>4, <2>5, AppendIsConcat
  <2>7. Tail(stored) \o <<>> = Tail(stored)  BY <2>5, ConcatEmptySeq
  <2> QED  BY <2>1, <2>2, <2>6, <2>7
<1> DEFINE b == IF ~behind THEN m ELSE IF m = PStart THEN PStop - 1 ELSE m - 1
           y == [x EXCEPT !.bnry = b]
<1>9. /\ card' = y /\ guest' = [guest EXCEPT !.phase = "ring", !.next = m, !.got = <<>>]
      /\ link' = [link EXCEPT !.chan = IF @ = <<>> THEN @ ELSE Tail(@)]
      /\ stored' = Tail(stored) \o (IF Arrives THEN <<e>> ELSE <<>>)
      /\ dropped' = (dropped \/ (link.chan # <<>> /\ ~Arrives))
  BY DEF Eth!WriteBoundary, Arrives
<1> HIDE DEF x, t, e
<1>10. m \in RingPages
  <2>1. m = x.curr \/ (Len(t) # 1 /\ m = t[2].page)  BY <1>7 DEF NextOf
  <2>2. x.curr \in RingPages  BY <1>3 DEF RingOK
  <2>3. Len(t) # 1 => t[2] \in InRing
    <3>1. t \in Seq(InRing) /\ t # <<>>  BY <1>3, <1>4
    <3>2. Len(t) \in Nat /\ Len(t) # 0  BY <3>1, EmptySeq
    <3> DEFINE l == Len(t)
    <3> HIDE DEF l
    <3>4. l \in Nat /\ l # 0  BY <3>2 DEF l
    <3>5. l # 1 => 2 \in 1 .. l  BY <3>4
    <3>3. Len(t) # 1 => 2 \in 1 .. Len(t)  BY <3>5 DEF l
    <3> QED  BY <3>1, <3>3, ElementOfSeq
  <2> QED  BY <2>1, <2>2, <2>3 DEF InRing
<1>11. (b = m \/ b = Before(m)) /\ b \in Nat
  BY <1>10 DEF Before, RingPages, Eth!Ne2kAssumption
<1> HIDE DEF m, b
<1>12. y \in Cards /\ y.pstart = x.pstart /\ y.pstop = x.pstop /\ y.curr = x.curr /\ y.ram = x.ram /\ y.bnry = b
       /\ y.natLine = y.line
  BY <1>2, <1>11 DEF Cards
<1> HIDE DEF y
<1>13. RingOK(y, Tail(t), m) /\ Tail(t) \in Seq(InRing)
  BY <1>2, <1>3, <1>4, <1>7, <1>11, <1>12, FrameFreed
<1>14. guest' \in Guests /\ guest'.phase = "ring" /\ guest'.next = m
  <2>1. m \in Nat /\ <<>> \in Seq(Units)  BY <1>10 DEF RingPages, Eth!Ne2kAssumption
  <2> QED  BY <1>2, <1>9, <2>1 DEF Guests, Phases
<1>15. link' \in Links /\ dropped' \in BOOLEAN
  <2>1. link \in Links /\ dropped \in BOOLEAN  BY DEF EthInv, EthTypes
  <2>2. link.chan # <<>> => Tail(link.chan) \in Seq(EthFrames)  BY <2>1 DEF Links
  <2>3. link' \in Links  BY <1>9, <2>1, <2>2 DEF Links
  <2>4. dropped' \in BOOLEAN  BY <1>9, <2>1
  <2> QED  BY <2>3, <2>4
<1>16. card' = y /\ stored' = Tail(t)  BY <1>8, <1>9
<1>17. EthTypes'  BY <1>12, <1>13, <1>14, <1>15, <1>16 DEF EthTypes
<1> QED  BY <1>12, <1>13, <1>14, <1>16, <1>17 DEF EthInv, Up

LEMMA EthStep == ASSUME Eth!Ne2kAssumption, EthInv, [Eth!Next]_(Eth!ne2kVars) PROVE EthInv'
<1>1. CASE UNCHANGED Eth!ne2kVars
  <2>1. UNCHANGED <<card, link, guest, stored, dropped>>  BY <1>1 DEF Eth!ne2kVars
  <2>2. EthTypes' /\ Up' = Up /\ Waiting' = Waiting  BY <2>1 DEF EthInv, EthTypes, Up, Waiting
  <2> QED  BY <2>1, <2>2 DEF EthInv
<1>2. CASE Eth!Next
  BY <1>2, EthThread, EthConfigured, EthOperated, EthHandled, EthReads, EthFreed DEF Eth!Next
<1> QED  BY <1>1, <1>2

\* What the invariant says of the ring and of the frames that wait.
LEMMA EthHolds == ASSUME Eth!Ne2kAssumption, EthInv PROVE Eth!RingExact /\ Eth!NoFrameStranded
<1> DEFINE n == guest.next
<1>1. card \in Cards /\ guest \in Guests /\ stored \in Seq(InRing)  BY DEF EthInv, EthTypes
<1>2. Len(stored) \in Nat /\ DOMAIN stored = 1 .. Len(stored)  BY <1>1
<1>3. ASSUME Up
      PROVE  /\ \A i \in DOMAIN stored :
                  /\ stored[i].page = (IF i = 1 THEN n ELSE card.ram[stored[i - 1].page * U].next)
                  /\ "len" \in DOMAIN card.ram[stored[i].page * U]
                  /\ card.ram[stored[i].page * U].len = stored[i].frame.len + 1
             /\ card.curr = (IF stored = <<>> THEN n ELSE card.ram[stored[Len(stored)].page * U].next)
  <2>1. RingOK(card, stored, n)  BY <1>3 DEF EthInv
  <2>2. \A i \in 1 .. Len(stored) :
           card.ram[stored[i].page * U] = [next |-> NextOf(card, stored, i), len |-> stored[i].frame.len + 1]
    BY <2>1 DEF RingOK, FrameAt
  <2>3. ASSUME NEW i \in 1 .. Len(stored)
        PROVE  stored[i].page = (IF i = 1 THEN n ELSE card.ram[stored[i - 1].page * U].next)
    <3>1. CASE i = 1  BY <1>2, <2>1, <2>3, <3>1 DEF RingOK
    <3>2. CASE i # 1
      <4> DEFINE j == i - 1
      <4>1. j \in 1 .. Len(stored) /\ j # Len(stored) /\ j + 1 = i  BY <1>2, <3>2
      <4> HIDE DEF j
      <4>2. NextOf(card, stored, j) = stored[i].page  BY <4>1 DEF NextOf
      <4>4. card.ram[stored[j].page * U] = [next |-> NextOf(card, stored, j), len |-> stored[j].frame.len + 1]
        BY <2>2, <4>1, Zenon
      <4>3. card.ram[stored[j].page * U].next = NextOf(card, stored, j)  BY <4>4
      <4> QED  BY <3>2, <4>2, <4>3 DEF j
    <3> QED  BY <3>1, <3>2
  <2>4. card.curr = (IF stored = <<>> THEN n ELSE card.ram[stored[Len(stored)].page * U].next)
    <3>1. CASE stored = <<>>  BY <2>1, <3>1 DEF RingOK
    <3>2. CASE stored # <<>>
      <4>1. Len(stored) \in 1 .. Len(stored)  BY <1>1, <3>2
      <4> DEFINE l == Len(stored)
      <4>2. card.ram[stored[l].page * U] = [next |-> NextOf(card, stored, l), len |-> stored[l].frame.len + 1]
        BY <2>2, <4>1
      <4>3. NextOf(card, stored, l) = card.curr  BY DEF NextOf
      <4> HIDE DEF l
      <4>4. card.curr = card.ram[stored[l].page * U].next  BY <4>2, <4>3
      <4> QED  BY <3>2, <4>4 DEF l
    <3> QED  BY <3>1, <3>2
  <2>5. \A i \in 1 .. Len(stored) : "len" \in DOMAIN card.ram[stored[i].page * U]
                                   /\ card.ram[stored[i].page * U].len = stored[i].frame.len + 1
    <3>1. SUFFICES ASSUME NEW i \in 1 .. Len(stored)
                   PROVE  "len" \in DOMAIN card.ram[stored[i].page * U]
                          /\ card.ram[stored[i].page * U].len = stored[i].frame.len + 1
      OBVIOUS
    <3>2. card.ram[stored[i].page * U] = [next |-> NextOf(card, stored, i), len |-> stored[i].frame.len + 1]
      BY <2>2, Zenon
    <3> QED  BY <3>2
  <2> HIDE DEF n
  <2> QED  BY <1>2, <2>3, <2>4, <2>5
<1>4. ASSUME guest.phase = "read" PROVE Tail(guest.got) = Eth!Contents(Head(stored).frame)
  <2>1. Up /\ Reading(card, stored, guest) /\ RingOK(card, stored, n)  BY <1>4 DEF EthInv, Up
  <2> DEFINE f == stored[1].frame
             seen == guest.got
  <2>2. f.len \in Nat /\ f.id \in Nat /\ n * U \in Nat /\ stored # <<>> /\ stored[1].page = n
        /\ FrameAt(card, stored, n, 1)
    <3>1. stored # <<>>  BY <2>1 DEF Reading
    <3> HIDE DEF n
    <3> QED  BY <1>1, <2>1, <3>1, FirstFrame
  <2>3. seen \in Seq(Units) /\ Len(seen) = f.len + 1
        /\ \A k \in 1 .. f.len + 1 : seen[k] = card.ram[Wrap(n * U + k - 1)]
    BY <1>1, <1>4, <2>1 DEF Guests, Reading
  <2>4. \A k \in 1 .. f.len : card.ram[Wrap(n * U + k)] = <<f.id, k>>  BY <2>2 DEF FrameAt
  <2>5. Head(stored) = stored[1]  BY <1>1, <2>2
  <2> HIDE DEF f, seen
  <2>6. ASSUME NEW k \in 1 .. f.len PROVE seen[k + 1] = <<f.id, k>>
    <3>1. k + 1 \in 1 .. f.len + 1 /\ n * U + (k + 1) - 1 = n * U + k  BY <2>2
    <3> QED  BY <2>3, <2>4, <3>1
  <2>7. Tail(seen) \in Seq(Units) /\ Len(Tail(seen)) = f.len /\ \A k \in 1 .. f.len : Tail(seen)[k] = seen[k + 1]
    <3>1. seen # <<>>  BY <2>2, <2>3
    <3> QED  BY <2>2, <2>3, <3>1
  <2>8. Tail(seen) = [k \in 1 .. f.len |-> <<f.id, k>>]
    <3> DEFINE u == Tail(seen)
    <3>2. u \in Seq(Units) /\ Len(u) = f.len  BY <2>7
    <3> HIDE DEF u
    <3>3. u = [k \in 1 .. f.len |-> u[k]]  BY <3>2
    <3>1. Tail(seen) = [k \in 1 .. f.len |-> Tail(seen)[k]]  BY <3>3 DEF u
    <3> QED  BY <2>6, <2>7, <3>1
  <2> QED  BY <2>5, <2>8 DEF Eth!Contents, f, seen
<1>5. Eth!RingExact  BY <1>3, <1>4 DEF Eth!RingExact, Up
<1>6. Eth!NoFrameStranded  BY DEF Eth!NoFrameStranded, EthInv, Waiting
<1> QED  BY <1>5, <1>6

\* The ring of the network card holds the frames received and not yet freed, the driver reads
\* them as they came, and none waits without an interrupt on its way (recv_frame, the data
\* port and notify_packet_available in hw/net/ne2k.rs).
THEOREM FramesAreKept == Eth!Ne2kAssumption /\ DevicesSpec => []FramesKept
<1> SUFFICES ASSUME Eth!Ne2kAssumption PROVE DevicesSpec => []FramesKept  OBVIOUS
<1>1. EthInv => FramesKept  BY EthHolds DEF FramesKept
<1>2. EthInv /\ [Eth!Next]_(Eth!ne2kVars) => EthInv'  BY EthStep
<1>3. Eth!Init => EthInv  BY EthStarts
<1> QED  BY <1>1, <1>2, <1>3, CardRuns, PTL DEF Eth!Spec

-----------------------------------------------------------------------------
(* The floppy controller and its DMA channel.                              *)

\* What Devices does to the floppy controller is a behaviour of the floppy controller.
LEMMA FloppyRuns == DevicesSpec => Fdd!Spec
<1>1. DevicesInit => Fdd!Init  BY DEF DevicesInit, PowerOnDevices
<1>2. [DevicesNext]_devicesVars => [Fdd!Next]_(Fdd!fdcVars)
  BY DEF DevicesNext, devicesVars, fddVars, Fdd!fdcVars
<1> QED  BY <1>1, <1>2, PTL DEF DevicesSpec, Fdd!Spec

Words   == 0 .. FddValues * FddValues - 1
Regs16  == [val : Words, high : BOOLEAN]
DmaRegs == [addr : Regs16, count : Regs16, page : Fdd!Octet, mode : {0, 1}, fddAddr : Nat, fddLen : Nat]
Fddrivers ==
    [reg : {"addr", "count"}, bytes : Seq(Fdd!Octet), reading : BOOLEAN, known : SUBSET {"addr", "count", "page"},
     fresh : BOOLEAN, addr : Words, count : Words, page : Fdd!Octet]

FddTypes == dma \in DmaRegs /\ drv \in Fddrivers

\* The bytes still to be sent of value v to register r.
Sending(bytes, v, r) ==
    \/ bytes = <<v % FddValues, v \div FddValues>> /\ ~r.high
    \/ bytes = <<v \div FddValues>> /\ r.high /\ r.val % FddValues = v % FddValues

\* What the driver d knows of the registers r.
Known(d, r) ==
    /\ "addr" \in d.known => r.addr.val = d.addr
    /\ "count" \in d.known => r.count.val = d.count
    /\ d.fresh /\ "count" \in d.known => r.fddLen = r.count.val

\* What the driver d has still to send to the registers r.
Pending(d, r) ==
    /\ d.bytes = <<>> => ~r.addr.high /\ (r.count.high <=> d.reading)
    /\ d.bytes # <<>> =>
         /\ ~d.reading /\ d.reg \notin d.known
         /\ d.reg = "addr" => Sending(d.bytes, d.addr, r.addr) /\ ~r.count.high
         /\ d.reg = "count" => Sending(d.bytes, d.count, r.count) /\ ~r.addr.high

FddInv ==
    /\ FddTypes
    /\ dma.fddAddr = dma.addr.val + dma.page * FddValues * FddValues
    /\ drv.page = dma.page
    /\ Known(drv, dma) /\ Pending(drv, dma)
    /\ TransferExact

\* The bytes of a register.
LEMMA BytesOfWord ==
    ASSUME Fdd!FdcAssumption, NEW v \in Words
    PROVE  /\ v % FddValues \in Fdd!Octet /\ v \div FddValues \in Fdd!Octet
           /\ (v % FddValues) + (v \div FddValues) * FddValues = v
<1>1. FddValues \in Nat /\ FddValues >= 1 /\ v \in Nat /\ v < FddValues * FddValues
  <2>1. FddValues \in Nat /\ FddValues >= 1  BY DEF Fdd!FdcAssumption
  <2>2. FddValues * FddValues \in Nat  BY <2>1
  <2> QED  BY <2>1, <2>2 DEF Words
<1> DEFINE q == v \div FddValues
           m == v % FddValues
<1>2. q \in Int /\ m \in Int /\ 0 <= m /\ m < FddValues /\ v = q * FddValues + m  BY <1>1, Z3
<1> HIDE DEF q, m
<1>3. 0 <= q
  <2>1. SUFFICES ASSUME q <= -1 PROVE FALSE  BY <1>2
  <2>2. q * FddValues <= -FddValues  BY <1>1, <1>2, <2>1, Z3
  <2> QED  BY <1>1, <1>2, <2>2
<1>4. q < FddValues
  <2>1. SUFFICES ASSUME q >= FddValues PROVE FALSE  BY <1>1, <1>2
  <2>2. q * FddValues >= FddValues * FddValues  BY <1>1, <1>2, <2>1, Z3
  <2> QED  BY <1>1, <1>2, <2>2
<1>5. m + q * FddValues = v  BY <1>1, <1>2
<1> QED  BY <1>1, <1>2, <1>3, <1>4, <1>5 DEF Fdd!Octet, q, m

\* Two bytes make a word.
LEMMA WordOfBytes ==
    ASSUME Fdd!FdcAssumption, NEW hi \in Fdd!Octet, NEW lo \in Fdd!Octet
    PROVE  hi * FddValues + lo \in Words /\ (hi * FddValues + lo) % FddValues = lo
           /\ lo + hi * FddValues = hi * FddValues + lo
<1>1. /\ FddValues \in Nat /\ FddValues >= 1 /\ hi \in Nat /\ hi < FddValues /\ lo \in Nat /\ lo < FddValues
  BY DEF Fdd!FdcAssumption, Fdd!Octet
<1>2. hi * FddValues \in Nat /\ FddValues * FddValues \in Nat /\ hi * FddValues + FddValues <= FddValues * FddValues
  <2>1. (hi + 1) * FddValues <= FddValues * FddValues  BY <1>1, Z3
  <2>2. (hi + 1) * FddValues = hi * FddValues + FddValues  BY <1>1, Z3
  <2> QED  BY <1>1, <2>1, <2>2
<1>3. hi * FddValues + lo \in Words  BY <1>1, <1>2 DEF Words
<1>4. (hi * FddValues + lo) % FddValues = lo  BY <1>1, Z3
<1> QED  BY <1>1, <1>2, <1>3, <1>4

\* Reg16::write, for the driver's next byte of value v.
LEMMA RegisterWritten ==
    ASSUME Fdd!FdcAssumption, NEW r \in Regs16, NEW v \in Words, NEW bytes, Sending(bytes, v, r),
           NEW w, w = Fdd!RegWrite(r, Head(bytes))
    PROVE  /\ w \in Regs16
           /\ bytes \in Seq(Fdd!Octet) /\ bytes # <<>>
           /\ Len(bytes) = 2 => w.high /\ Tail(bytes) = <<v \div FddValues>> /\ w.val % FddValues = v % FddValues
           /\ Len(bytes) # 2 => ~w.high /\ w.val = v
<1>1. v % FddValues \in Fdd!Octet /\ v \div FddValues \in Fdd!Octet
      /\ (v % FddValues) + (v \div FddValues) * FddValues = v
  BY BytesOfWord
<1>2. r.val \in Words /\ r.val % FddValues \in Fdd!Octet /\ r.val \div FddValues \in Fdd!Octet
  <2>1. r.val \in Words  BY DEF Regs16
  <2> QED  BY <2>1, BytesOfWord
<1> DEFINE lo == v % FddValues
           hi == v \div FddValues
<1>3. CASE bytes = <<lo, hi>> /\ ~r.high
  <2>1. lo \in Fdd!Octet /\ hi \in Fdd!Octet  BY <1>1
  <2> DEFINE x == (r.val \div FddValues) * FddValues + lo
  <2>2. x \in Words /\ x % FddValues = lo  BY <1>1, <1>2, WordOfBytes
  <2> HIDE DEF lo, hi, x
  <2>3. Head(bytes) = lo /\ Tail(bytes) = <<hi>> /\ Len(bytes) = 2 /\ bytes \in Seq(Fdd!Octet) /\ bytes # <<>>
    BY <1>3, <2>1
  <2>4. w = [val |-> x, high |-> TRUE]  BY <1>3, <2>3 DEF Fdd!RegWrite, x
  <2>7. x \in Words  BY <2>2
  <2>5. w \in Regs16  BY ONLY <2>4, <2>7 DEF Regs16
  <2>6. w.val = x /\ w.high  BY <2>4
  <2> QED  BY <2>2, <2>3, <2>5, <2>6 DEF lo, hi
<1>4. CASE bytes = <<hi>> /\ r.high /\ r.val % FddValues = lo
  <2>1. lo \in Fdd!Octet /\ hi \in Fdd!Octet  BY <1>1
  <2> DEFINE x == (r.val % FddValues) + hi * FddValues
  <2>2. x = v  BY <1>1, <1>4
  <2> HIDE DEF hi, x
  <2>3. Head(bytes) = hi /\ Len(bytes) = 1 /\ bytes \in Seq(Fdd!Octet) /\ bytes # <<>>
    BY <1>4, <2>1
  <2>4. w = [val |-> x, high |-> FALSE]  BY <1>4, <2>3 DEF Fdd!RegWrite, x
  <2>7. x \in Words  BY <2>2
  <2>5. w \in Regs16  BY ONLY <2>4, <2>7 DEF Regs16
  <2>6. w.val = v /\ ~w.high  BY <2>2, <2>4
  <2> QED  BY <2>3, <2>5, <2>6
<1> QED  BY <1>3, <1>4 DEF Sending

\* With no result to collect there is nothing to compare.
LEMMA NothingMoved ==
    /\ moved = Fdd!Nothing => TransferExact
    /\ moved' = Fdd!Nothing => TransferExact'
  BY DEF TransferExact, Fdd!TransferExact, Fdd!Nothing, Fdd!NoMove

LEMMA FddStarts == ASSUME Fdd!FdcAssumption, Fdd!Init PROVE FddInv
<1>1. 0 \in Words /\ 0 \in Fdd!Octet /\ 0 * FddValues * FddValues = 0
  <2>1. FddValues \in Nat /\ FddValues >= 1  BY DEF Fdd!FdcAssumption
  <2>2. FddValues * FddValues \in Nat /\ FddValues * FddValues >= 1  BY <2>1, Z3
  <2>3. 0 * FddValues * FddValues = 0  BY <2>1, Z3
  <2> QED  BY <2>1, <2>2, <2>3 DEF Words, Fdd!Octet
<1>2. dma = [addr |-> Fdd!Reg16, count |-> Fdd!Reg16, page |-> 0, mode |-> 0, fddAddr |-> 0, fddLen |-> 0]
  BY DEF Fdd!Init
<1>3. dma \in DmaRegs  BY <1>1, <1>2 DEF DmaRegs, Regs16, Fdd!Reg16
<1>4. drv \in Fddrivers  BY <1>1 DEF Fdd!Init, Fddrivers
<1>5. dma.fddAddr = dma.addr.val + dma.page * FddValues * FddValues  BY <1>1, <1>2 DEF Fdd!Reg16
<1>6. Known(drv, dma) /\ Pending(drv, dma) /\ drv.page = dma.page
  BY <1>2 DEF Fdd!Init, Known, Pending, Fdd!Reg16
<1>7. TransferExact  BY NothingMoved DEF Fdd!Init
<1> QED  BY <1>3, <1>4, <1>5, <1>6, <1>7 DEF FddInv, FddTypes

\* The DMA controller's latches: update_fdd_addr.
LEMMA Latched ==
    ASSUME Fdd!FdcAssumption, NEW d, d.addr \in Regs16, d.count \in Regs16, d.page \in Fdd!Octet, d.mode \in {0, 1},
           d = [addr |-> d.addr, count |-> d.count, page |-> d.page, mode |-> d.mode, fddAddr |-> d.fddAddr,
                fddLen |-> d.fddLen],
           NEW e, e = Fdd!UpdateFddAddr(d)
    PROVE  /\ e \in DmaRegs /\ e.addr = d.addr /\ e.count = d.count /\ e.page = d.page /\ e.mode = d.mode
           /\ e.fddAddr = e.addr.val + e.page * FddValues * FddValues /\ e.fddLen = e.count.val
<1> DEFINE u == d.addr.val + d.page * FddValues * FddValues
           v == d.count.val
<1>1. u \in Nat /\ v \in Nat
  <2>1. FddValues \in Nat /\ d.page \in Nat  BY DEF Fdd!FdcAssumption, Fdd!Octet
  <2>2. d.page * FddValues * FddValues \in Nat  BY <2>1
  <2>3. d.addr.val \in Words /\ d.count.val \in Words  BY DEF Regs16
  <2>4. d.addr.val \in Nat /\ d.count.val \in Nat  BY <2>3 DEF Words
  <2> QED  BY <2>2, <2>4
<1>2. e = [d EXCEPT !.fddAddr = u, !.fddLen = v]  BY DEF Fdd!UpdateFddAddr
<1>3. e = [addr |-> d.addr, count |-> d.count, page |-> d.page, mode |-> d.mode, fddAddr |-> u, fddLen |-> v]
  BY <1>2
<1>4. u = d.addr.val + d.page * FddValues * FddValues /\ v = d.count.val  OBVIOUS
<1> HIDE DEF u, v
<1>5. e \in DmaRegs  BY <1>1, <1>3 DEF DmaRegs
<1> QED  BY <1>3, <1>4, <1>5

\* The driver programs the registers.
LEMMA FddProgrammed ==
    ASSUME Fdd!FdcAssumption, FddInv,
           (\E reg \in {"addr", "count"}, v \in Values : Fdd!BeginReg(reg, v)) \/ Fdd!SendByte
    PROVE  FddInv'
<1>1. dma \in DmaRegs /\ drv \in Fddrivers /\ Known(drv, dma) /\ Pending(drv, dma) /\ drv.page = dma.page
      /\ dma.fddAddr = dma.addr.val + dma.page * FddValues * FddValues
  BY DEF FddInv, FddTypes
<1>2. moved' = moved => TransferExact'  BY DEF FddInv, TransferExact, Fdd!TransferExact
<1>3. ASSUME NEW reg \in {"addr", "count"}, NEW v \in Values, Fdd!BeginReg(reg, v) PROVE FddInv'
  <2> DEFINE bs == <<v % FddValues, v \div FddValues>>
  <2>1. v \in Words  BY DEF Fdd!FdcAssumption, Words
  <2>2. bs \in Seq(Fdd!Octet) /\ bs # <<>>
    <3>1. v % FddValues \in Fdd!Octet /\ v \div FddValues \in Fdd!Octet  BY <2>1, BytesOfWord
    <3> QED  BY <3>1
  <2>3. bs = <<v % FddValues, v \div FddValues>>  OBVIOUS
  <2>4. drv.bytes = <<>> /\ ~drv.reading /\ UNCHANGED <<dma, fdc, moved>>
        /\ drv' = [drv EXCEPT !.reg = reg, !.bytes = bs, !.known = @ \ {reg}, ![reg] = v]
    BY <1>3, Zenon DEF Fdd!BeginReg
  <2> HIDE DEF bs
  <2>5. ~dma.addr.high /\ ~dma.count.high  BY <1>1, <2>4 DEF Pending
  <2>6. CASE reg = "addr"
    <3>1. drv' = [drv EXCEPT !.reg = "addr", !.bytes = bs, !.known = @ \ {"addr"}, !.addr = v]  BY <2>4, <2>6
    <3>2. drv' \in Fddrivers  BY <1>1, <2>1, <2>2, <3>1 DEF Fddrivers
    <3>3. drv'.reg = "addr" /\ drv'.bytes = bs /\ drv'.known = drv.known \ {"addr"} /\ drv'.addr = v
          /\ drv'.count = drv.count /\ drv'.page = drv.page /\ drv'.fresh = drv.fresh /\ drv'.reading = drv.reading
      BY <1>1, <3>1 DEF Fddrivers
    <3>4. Known(drv', dma)  BY <1>1, <3>3 DEF Known
    <3>5. Pending(drv', dma)  BY <2>2, <2>3, <2>4, <2>5, <3>3 DEF Pending, Sending
    <3> QED  BY <1>1, <1>2, <2>4, <3>2, <3>3, <3>4, <3>5 DEF FddInv, FddTypes
  <2>7. CASE reg = "count"
    <3>1. drv' = [drv EXCEPT !.reg = "count", !.bytes = bs, !.known = @ \ {"count"}, !.count = v]  BY <2>4, <2>7
    <3>2. drv' \in Fddrivers  BY <1>1, <2>1, <2>2, <3>1 DEF Fddrivers
    <3>3. drv'.reg = "count" /\ drv'.bytes = bs /\ drv'.known = drv.known \ {"count"} /\ drv'.addr = drv.addr
          /\ drv'.count = v /\ drv'.page = drv.page /\ drv'.fresh = drv.fresh /\ drv'.reading = drv.reading
      BY <1>1, <3>1 DEF Fddrivers
    <3>4. Known(drv', dma)  BY <1>1, <3>3 DEF Known
    <3>5. Pending(drv', dma)  BY <2>2, <2>3, <2>4, <2>5, <3>3 DEF Pending, Sending
    <3> QED  BY <1>1, <1>2, <2>4, <3>2, <3>3, <3>4, <3>5 DEF FddInv, FddTypes
  <2> QED  BY <2>6, <2>7
<1>4. CASE Fdd!SendByte
  <2> DEFINE more == Len(drv.bytes) = 2
  <2>1. drv.bytes # <<>> /\ dma' = Fdd!WriteReg(dma, drv.reg, Head(drv.bytes)) /\ UNCHANGED <<fdc, moved>>
        /\ drv' = IF more THEN [drv EXCEPT !.bytes = Tail(@)]
                  ELSE [drv EXCEPT !.bytes = <<>>, !.known = @ \cup {drv.reg}, !.fresh = (drv.reg = "addr")]
    BY <1>4 DEF Fdd!SendByte
  <2>2. ~drv.reading /\ drv.reg \notin drv.known  BY <1>1, <2>1 DEF Pending
  <2>3. more => Tail(drv.bytes) \in Seq(Fdd!Octet)  BY <1>1, <2>1 DEF Fddrivers
  <2>4. drv' \in Fddrivers
    <3>1. CASE more  BY <1>1, <2>1, <2>3, <3>1 DEF Fddrivers
    <3>2. CASE ~more
      <4>1. drv' = [drv EXCEPT !.bytes = <<>>, !.known = @ \cup {drv.reg}, !.fresh = (drv.reg = "addr")]
        BY <2>1, <3>2
      <4>2. <<>> \in Seq(Fdd!Octet) /\ drv.known \cup {drv.reg} \in SUBSET {"addr", "count", "page"}
            /\ (drv.reg = "addr") \in BOOLEAN
        BY <1>1 DEF Fddrivers
      <4> QED  BY <1>1, <4>1, <4>2 DEF Fddrivers
    <3> QED  BY <3>1, <3>2
  <2>5. /\ drv'.reg = drv.reg /\ drv'.addr = drv.addr /\ drv'.count = drv.count /\ drv'.page = drv.page
        /\ drv'.reading = drv.reading
        /\ more => drv'.bytes = Tail(drv.bytes) /\ drv'.known = drv.known /\ drv'.fresh = drv.fresh
        /\ ~more => drv'.bytes = <<>> /\ drv'.known = drv.known \cup {drv.reg} /\ (drv'.fresh <=> drv.reg = "addr")
    BY <1>1, <2>1 DEF Fddrivers
  <2> HIDE DEF more
  <2>6. CASE drv.reg = "addr"
    <3> DEFINE w == Fdd!RegWrite(dma.addr, Head(drv.bytes))
    <3>1. Sending(drv.bytes, drv.addr, dma.addr) /\ ~dma.count.high  BY <1>1, <2>1, <2>6 DEF Pending
    <3>2. dma.addr \in Regs16 /\ dma.count \in Regs16 /\ drv.addr \in Words  BY <1>1 DEF DmaRegs, Fddrivers
    <3>3. /\ w \in Regs16
          /\ more => w.high /\ Tail(drv.bytes) = <<drv.addr \div FddValues>>
                     /\ w.val % FddValues = drv.addr % FddValues
          /\ ~more => ~w.high /\ w.val = drv.addr
      <4> DEFINE v == drv.addr
                 r == dma.addr
                 b == drv.bytes
      <4>1. w = Fdd!RegWrite(r, Head(b)) /\ Sending(b, v, r) /\ r \in Regs16 /\ v \in Words  BY <3>1, <3>2
      <4> HIDE DEF w, v, r, b
      <4>2. /\ w \in Regs16
            /\ Len(b) = 2 => w.high /\ Tail(b) = <<v \div FddValues>> /\ w.val % FddValues = v % FddValues
            /\ Len(b) # 2 => ~w.high /\ w.val = v
        BY <4>1, RegisterWritten
      <4> QED  BY <4>2 DEF more, v, b
    <3> DEFINE d == [dma EXCEPT !.addr = w]
    <3>4. dma' = Fdd!UpdateFddAddr(d)  BY <2>1, <2>6 DEF Fdd!WriteReg
    <3> HIDE DEF w
    <3>5. d.addr = w /\ d.count = dma.count /\ d.page = dma.page /\ d.mode = dma.mode
          /\ d = [addr |-> d.addr, count |-> d.count, page |-> d.page, mode |-> d.mode, fddAddr |-> d.fddAddr,
                  fddLen |-> d.fddLen]
      BY <1>1 DEF DmaRegs
    <3>6. dma.page \in Fdd!Octet /\ dma.mode \in {0, 1}  BY <1>1 DEF DmaRegs
    <3> HIDE DEF d
    <3>7. /\ dma' \in DmaRegs /\ dma'.addr = w /\ dma'.count = dma.count /\ dma'.page = dma.page
          /\ dma'.fddAddr = dma'.addr.val + dma'.page * FddValues * FddValues /\ dma'.fddLen = dma'.count.val
      BY <3>2, <3>3, <3>4, <3>5, <3>6, Latched
    <3>8. Known(drv', dma')
      BY <1>1, <2>2, <2>5, <2>6, <3>3, <3>7 DEF Known
    <3>9. Pending(drv', dma')
      <4>1. CASE more
        <5>3. drv'.bytes = Tail(drv.bytes)  BY <2>5, <4>1
        <5>4. \E h : Tail(drv.bytes) = <<h>>  BY <3>3, <4>1
        <5>1. drv'.bytes # <<>>  BY <5>3, <5>4
        <5>2. Sending(drv'.bytes, drv'.addr, dma'.addr)  BY <2>5, <3>3, <3>7, <4>1 DEF Sending
        <5> QED  BY <2>2, <2>5, <2>6, <3>1, <3>7, <4>1, <5>1, <5>2 DEF Pending
      <4>2. CASE ~more  BY <2>2, <2>5, <3>1, <3>3, <3>7, <4>2 DEF Pending
      <4> QED  BY <4>1, <4>2
    <3> QED  BY <1>1, <1>2, <2>1, <2>4, <2>5, <3>7, <3>8, <3>9 DEF FddInv, FddTypes
  <2>7. CASE drv.reg = "count"
    <3> DEFINE w == Fdd!RegWrite(dma.count, Head(drv.bytes))
    <3>1. Sending(drv.bytes, drv.count, dma.count) /\ ~dma.addr.high  BY <1>1, <2>1, <2>7 DEF Pending
    <3>2. dma.addr \in Regs16 /\ dma.count \in Regs16 /\ drv.count \in Words  BY <1>1 DEF DmaRegs, Fddrivers
    <3>3. /\ w \in Regs16
          /\ more => w.high /\ Tail(drv.bytes) = <<drv.count \div FddValues>>
                     /\ w.val % FddValues = drv.count % FddValues
          /\ ~more => ~w.high /\ w.val = drv.count
      BY <3>1, <3>2, RegisterWritten DEF more
    <3>4. dma' = [dma EXCEPT !.count = w]  BY <2>1, <2>7 DEF Fdd!WriteReg
    <3> HIDE DEF w
    <3>5. /\ dma' \in DmaRegs /\ dma'.addr = dma.addr /\ dma'.count = w /\ dma'.page = dma.page
          /\ dma'.fddAddr = dma.fddAddr /\ dma'.fddLen = dma.fddLen
      BY <1>1, <3>3, <3>4 DEF DmaRegs
    <3>6. dma'.fddAddr = dma'.addr.val + dma'.page * FddValues * FddValues  BY <1>1, <3>5
    <3>7. Known(drv', dma')
      BY <1>1, <2>2, <2>5, <2>7, <3>3, <3>5 DEF Known
    <3>8. Pending(drv', dma')
      <4>1. CASE more
        <5>3. drv'.bytes = Tail(drv.bytes)  BY <2>5, <4>1
        <5>4. \E h : Tail(drv.bytes) = <<h>>  BY <3>3, <4>1
        <5>1. drv'.bytes # <<>>  BY <5>3, <5>4
        <5>2. Sending(drv'.bytes, drv'.count, dma'.count)  BY <2>5, <3>3, <3>5, <4>1 DEF Sending
        <5> QED  BY <2>2, <2>5, <2>7, <3>1, <3>5, <4>1, <5>1, <5>2 DEF Pending
      <4>2. CASE ~more  BY <2>2, <2>5, <3>1, <3>3, <3>5, <4>2 DEF Pending
      <4> QED  BY <4>1, <4>2
    <3> QED  BY <1>1, <1>2, <2>1, <2>4, <2>5, <3>5, <3>6, <3>7, <3>8 DEF FddInv, FddTypes
  <2> QED  BY <1>1, <2>6, <2>7 DEF Fddrivers
<1> QED  BY <1>3, <1>4

\* The rest of the DMA controller.
LEMMA FddConfigured ==
    ASSUME Fdd!FdcAssumption, FddInv,
           \/ Fdd!ReadCount \/ (\E p \in Fdd!Octet : Fdd!WritePage(p)) \/ Fdd!ClearFlipFlop
           \/ (\E mode \in {0, 1} : Fdd!WriteMode(mode))
    PROVE  FddInv'
<1>1. dma \in DmaRegs /\ drv \in Fddrivers /\ Known(drv, dma) /\ Pending(drv, dma) /\ drv.page = dma.page
      /\ dma.fddAddr = dma.addr.val + dma.page * FddValues * FddValues
  BY DEF FddInv, FddTypes
<1>2. moved' = moved => TransferExact'  BY DEF FddInv, TransferExact, Fdd!TransferExact
<1>3. CASE Fdd!ReadCount
  <2>1. drv.bytes = <<>> /\ dma' = [dma EXCEPT !.count.high = ~@] /\ drv' = [drv EXCEPT !.reading = ~@]
        /\ UNCHANGED moved
    BY <1>3 DEF Fdd!ReadCount
  <2>2. dma.count.high <=> drv.reading  BY <1>1, <2>1 DEF Pending
  <2>3. /\ dma' \in DmaRegs /\ dma'.addr = dma.addr /\ dma'.page = dma.page /\ dma'.fddAddr = dma.fddAddr
        /\ dma'.fddLen = dma.fddLen /\ dma'.count.val = dma.count.val /\ (dma'.count.high <=> ~dma.count.high)
    BY <1>1, <2>1 DEF DmaRegs, Regs16
  <2>4. /\ drv' \in Fddrivers /\ drv'.bytes = <<>> /\ (drv'.reading <=> ~drv.reading) /\ drv'.known = drv.known
        /\ drv'.fresh = drv.fresh /\ drv'.addr = drv.addr /\ drv'.count = drv.count /\ drv'.page = drv.page
    <3> DEFINE v == ~drv.reading
    <3>1. drv' = [drv EXCEPT !.reading = v] /\ v \in BOOLEAN  BY <2>1
    <3>2. (v <=> ~drv.reading)  OBVIOUS
    <3> HIDE DEF v
    <3>3. drv' \in Fddrivers  BY <1>1, <3>1 DEF Fddrivers
    <3>4. /\ drv'.bytes = drv.bytes /\ drv'.reading = v /\ drv'.known = drv.known /\ drv'.fresh = drv.fresh
          /\ drv'.addr = drv.addr /\ drv'.count = drv.count /\ drv'.page = drv.page
      BY <1>1, <3>1 DEF Fddrivers
    <3> QED  BY <2>1, <3>2, <3>3, <3>4
  <2>5. Known(drv', dma')  BY <1>1, <2>3, <2>4 DEF Known
  <2>6. Pending(drv', dma')  BY <1>1, <2>1, <2>2, <2>3, <2>4 DEF Pending
  <2>7. dma'.fddAddr = dma'.addr.val + dma'.page * FddValues * FddValues  BY <1>1, <2>3
  <2> QED  BY <1>1, <1>2, <2>1, <2>3, <2>4, <2>5, <2>6, <2>7 DEF FddInv, FddTypes
<1>4. ASSUME NEW p \in Fdd!Octet, Fdd!WritePage(p) PROVE FddInv'
  <2> DEFINE d == [dma EXCEPT !.page = p]
  <2>1. dma' = Fdd!UpdateFddAddr(d) /\ UNCHANGED moved /\ drv.bytes = <<>>
        /\ drv' = [drv EXCEPT !.page = p, !.known = @ \cup {"page"}, !.fresh = TRUE]
    BY <1>4, Zenon DEF Fdd!WritePage
  <2>2. d.addr = dma.addr /\ d.count = dma.count /\ d.page = p /\ d.mode = dma.mode
        /\ d = [addr |-> d.addr, count |-> d.count, page |-> d.page, mode |-> d.mode, fddAddr |-> d.fddAddr,
                fddLen |-> d.fddLen]
    BY <1>1 DEF DmaRegs
  <2>3. dma.addr \in Regs16 /\ dma.count \in Regs16 /\ dma.mode \in {0, 1}  BY <1>1 DEF DmaRegs
  <2> HIDE DEF d
  <2>4. /\ dma' \in DmaRegs /\ dma'.addr = dma.addr /\ dma'.count = dma.count /\ dma'.page = p
        /\ dma'.fddAddr = dma'.addr.val + dma'.page * FddValues * FddValues /\ dma'.fddLen = dma'.count.val
    BY <1>4, <2>1, <2>2, <2>3, Latched
  <2>5. /\ drv' \in Fddrivers /\ drv'.bytes = <<>> /\ drv'.reading = drv.reading /\ drv'.known = drv.known \cup {"page"}
        /\ drv'.addr = drv.addr /\ drv'.count = drv.count /\ drv'.page = p
    BY <1>1, <2>1 DEF Fddrivers
  <2>6. Known(drv', dma')  BY <1>1, <2>4, <2>5 DEF Known
  <2>7. Pending(drv', dma')  BY <1>1, <2>1, <2>4, <2>5 DEF Pending
  <2> QED  BY <1>2, <2>1, <2>4, <2>5, <2>6, <2>7 DEF FddInv, FddTypes
<1>5. CASE Fdd!ClearFlipFlop
  <2>1. dma' = [dma EXCEPT !.addr.high = FALSE, !.count.high = FALSE] /\ UNCHANGED moved
        /\ drv' = [drv EXCEPT !.bytes = <<>>, !.reading = FALSE]
    BY <1>5 DEF Fdd!ClearFlipFlop, Fdd!ClearByteFlipFlop
  <2>2. /\ dma' \in DmaRegs /\ dma'.addr.val = dma.addr.val /\ dma'.page = dma.page /\ dma'.fddAddr = dma.fddAddr
        /\ dma'.fddLen = dma.fddLen /\ dma'.count.val = dma.count.val /\ ~dma'.count.high /\ ~dma'.addr.high
    BY <1>1, <2>1 DEF DmaRegs, Regs16
  <2>3. /\ drv' \in Fddrivers /\ drv'.bytes = <<>> /\ drv'.reading = FALSE /\ drv'.known = drv.known
        /\ drv'.fresh = drv.fresh /\ drv'.addr = drv.addr /\ drv'.count = drv.count /\ drv'.page = drv.page
    <3>1. <<>> \in Seq(Fdd!Octet)  OBVIOUS
    <3> QED  BY <1>1, <2>1, <3>1 DEF Fddrivers
  <2>4. Known(drv', dma')  BY <1>1, <2>2, <2>3 DEF Known
  <2>5. Pending(drv', dma')  BY <2>2, <2>3 DEF Pending
  <2>6. dma'.fddAddr = dma'.addr.val + dma'.page * FddValues * FddValues  BY <1>1, <2>2
  <2> QED  BY <1>1, <1>2, <2>1, <2>2, <2>3, <2>4, <2>5, <2>6 DEF FddInv, FddTypes
<1>6. ASSUME NEW mode \in {0, 1}, Fdd!WriteMode(mode) PROVE FddInv'
  <2>1. dma' = [dma EXCEPT !.mode = mode] /\ UNCHANGED <<drv, moved>>  BY <1>6 DEF Fdd!WriteMode
  <2>2. /\ dma' \in DmaRegs /\ dma'.addr = dma.addr /\ dma'.page = dma.page /\ dma'.fddAddr = dma.fddAddr
        /\ dma'.fddLen = dma.fddLen /\ dma'.count = dma.count
    BY <1>1, <2>1 DEF DmaRegs
  <2>3. Known(drv', dma') /\ Pending(drv', dma')  BY <1>1, <2>1, <2>2 DEF Known, Pending
  <2>4. dma'.fddAddr = dma'.addr.val + dma'.page * FddValues * FddValues  BY <1>1, <2>2
  <2> QED  BY <1>1, <1>2, <2>1, <2>2, <2>3, <2>4 DEF FddInv, FddTypes
<1> QED  BY <1>3, <1>4, <1>5, <1>6

\* What increment_chrn reports is the position after the sectors read, from head 0.
LEMMA NextPosition ==
    ASSUME Fdd!FdcAssumption, NEW a \in Fdd!Addresses, a.h = 0, NEW n \in Nat
    PROVE  Fdd!ChrnToOffset(Fdd!IncrementChrn(a, n)) = Fdd!ChrnToOffset(a) + n
<1> DEFINE s == a.r - 1 + n
           m == FddSpt * Fdd!Sides
           q == s \div m
           e == s % m
<1>1. a.c \in Nat /\ a.r \in Nat /\ a.r >= 1 /\ FddSpt \in Nat /\ FddSpt >= 1
  <2>1. a.c \in Cylinders /\ a.r \in 1 .. FddSpt  BY DEF Fdd!Addresses
  <2>2. FddSpt \in Nat /\ FddSpt >= 1  BY DEF Fdd!FdcAssumption
  <2>3. a.c \in Nat  BY <2>1 DEF Fdd!FdcAssumption
  <2>4. a.r \in Nat /\ a.r >= 1
    <3> DEFINE r == a.r
    <3>1. r \in 1 .. FddSpt  BY <2>1
    <3> HIDE DEF r
    <3>2. r \in Nat /\ r >= 1  BY <2>2, <3>1
    <3> QED  BY <3>2 DEF r
  <2> QED  BY <2>2, <2>3, <2>4
<1>2. s \in Nat /\ m \in Nat /\ m >= 1 /\ m = 2 * FddSpt  BY <1>1 DEF Fdd!Sides
<1>3. Fdd!IncrementChrn(a, n) = [c |-> a.c + q, h |-> 0, r |-> e + 1]  BY DEF Fdd!IncrementChrn
<1>4. s = a.r - 1 + n  OBVIOUS
<1> HIDE DEF s, m
<1>12. s \in Nat /\ m \in Nat /\ m >= 1  BY <1>2
<1>5. q \in Int /\ e \in Int /\ s = q * m + e  BY ONLY <1>12, Z3
<1> HIDE DEF q, e
<1>6. Fdd!ChrnToOffset(Fdd!IncrementChrn(a, n)) = ((a.c + q) * 2 + 0) * FddSpt + (e + 1) - 1
  BY <1>3 DEF Fdd!ChrnToOffset, Fdd!Sides
<1>7. Fdd!ChrnToOffset(a) = (a.c * 2 + 0) * FddSpt + a.r - 1  BY DEF Fdd!ChrnToOffset, Fdd!Sides
<1> DEFINE c == a.c
<1>8. c \in Nat /\ c = a.c  BY <1>1
<1> HIDE DEF c
<1>9. ((c + q) * 2 + 0) * FddSpt = (c * 2 + 0) * FddSpt + q * m
  <2>1. q * m = q * (2 * FddSpt)  BY <1>2
  <2>2. ((c + q) * 2 + 0) * FddSpt = (c * 2 + 0) * FddSpt + q * (2 * FddSpt)  BY <1>1, <1>5, <1>8, Z3
  <2> QED  BY <2>1, <2>2
<1> DEFINE x == ((c + q) * 2 + 0) * FddSpt
           y == (c * 2 + 0) * FddSpt
           z == q * m
<1>10. x \in Int /\ y \in Int /\ z \in Int  BY <1>1, <1>2, <1>5, <1>8
<1>11. Fdd!ChrnToOffset(Fdd!IncrementChrn(a, n)) = x + (e + 1) - 1 /\ Fdd!ChrnToOffset(a) = y + a.r - 1
       /\ x = y + z /\ s = z + e
  BY <1>5, <1>6, <1>7, <1>8, <1>9
<1> HIDE DEF x, y, z
<1> QED  BY <1>1, <1>4, <1>5, <1>10, <1>11

\* The floppy controller.
LEMMA FddCommanded ==
    ASSUME Fdd!FdcAssumption, FddInv,
           \/ (\E enabled \in BOOLEAN, d \in Fdd!Disks : Fdd!WriteDor(enabled, d))
           \/ (\E d \in Fdd!Disks, a \in Fdd!Addresses : Fdd!ReadData(d, a))
           \/ (\E d \in Fdd!Disks : Fdd!Recalibrate(d)) \/ Fdd!SenseInterruptStatus
           \/ (\E d \in Fdd!Disks, c \in Cylinders : Fdd!Seek(d, c)) \/ Fdd!OtherCommand \/ Fdd!ReadResult
    PROVE  FddInv'
<1>1. ASSUME UNCHANGED <<dma, drv, moved>> PROVE FddInv'
  BY <1>1 DEF FddInv, FddTypes, Known, Pending, Sending, TransferExact, Fdd!TransferExact
<1>2. ASSUME NEW disk \in Fdd!Disks, NEW a \in Fdd!Addresses, Fdd!ReadData(disk, a) PROVE FddInv'
  <2>1. Fdd!Programmed /\ UNCHANGED <<dma, drv>>  BY <1>2, Zenon DEF Fdd!ReadData
  <2>2. CASE disk # 0
    <3>1. UNCHANGED moved  BY <1>2, <2>2, Zenon DEF Fdd!ReadData
    <3> QED  BY <1>1, <2>1, <3>1
  <2>3. CASE disk = 0
    <3> DEFINE len  == dma.fddLen + 1
               next == Fdd!IncrementChrn(a, len)
    <3>1. moved' = [got  |-> [to |-> IF dma.mode = 1 THEN dma.fddAddr ELSE -1, len |-> len,
                              from |-> Fdd!ChrnToOffset(a),
                              next |-> IF a.h = 0 THEN Fdd!ChrnToOffset(next) ELSE 0],
                    want |-> [to |-> IF dma.mode = 1 THEN drv.page * FddValues * FddValues + drv.addr ELSE -1,
                              len |-> drv.count + 1, from |-> Fdd!ChrnToOffset(a),
                              next |-> IF a.h = 0 THEN Fdd!ChrnToOffset(a) + drv.count + 1 ELSE 0],
                    fresh |-> drv.fresh]
      BY <1>2, <2>3, Zenon DEF Fdd!ReadData, Fdd!ReadToMem
    <3>2. /\ drv \in Fddrivers /\ dma \in DmaRegs /\ dma.addr.val = drv.addr /\ drv.page = dma.page
          /\ drv.fresh => dma.fddLen = drv.count
          /\ dma.fddAddr = dma.addr.val + dma.page * FddValues * FddValues
      BY <2>1 DEF Fdd!Programmed, FddInv, FddTypes, Known
    <3>3. drv.count \in Nat /\ drv.addr \in Nat /\ drv.page * FddValues * FddValues \in Nat
      <4>1. FddValues \in Nat /\ drv.page \in Nat /\ drv.count \in Words /\ drv.addr \in Words
        BY <3>2 DEF Fddrivers, Fdd!FdcAssumption, Fdd!Octet
      <4>2. drv.page * FddValues * FddValues \in Nat  BY <4>1
      <4> QED  BY <4>1, <4>2 DEF Words
    <3>4. dma.fddAddr = drv.page * FddValues * FddValues + drv.addr
      <4> DEFINE y == drv.page * FddValues * FddValues
      <4>1. y \in Nat /\ dma.fddAddr = drv.addr + y  BY <3>2, <3>3
      <4> HIDE DEF y
      <4>2. dma.fddAddr = y + drv.addr  BY <3>3, <4>1
      <4> QED  BY <4>2 DEF y
    <3>5. len \in Nat /\ (drv.fresh => len = drv.count + 1)
      <4>1. dma.fddLen \in Nat  BY <3>2 DEF DmaRegs
      <4> QED  BY <3>2, <4>1
    <3>6. a.h = 0 => /\ Fdd!ChrnToOffset(next) = Fdd!ChrnToOffset(a) + len
                     /\ drv.fresh => Fdd!ChrnToOffset(next) = Fdd!ChrnToOffset(a) + drv.count + 1
      <4>1. SUFFICES ASSUME a.h = 0
                     PROVE  /\ Fdd!ChrnToOffset(next) = Fdd!ChrnToOffset(a) + len
                            /\ drv.fresh => Fdd!ChrnToOffset(next) = Fdd!ChrnToOffset(a) + drv.count + 1
        OBVIOUS
      <4>2. Fdd!ChrnToOffset(next) = Fdd!ChrnToOffset(a) + len  BY <3>5, <4>1, NextPosition
      <4>3. Fdd!ChrnToOffset(a) \in Int
        <5>1. a.c \in Cylinders /\ a.h \in 0 .. 1 /\ a.r \in 1 .. FddSpt  BY DEF Fdd!Addresses, Fdd!Sides
        <5>3. FddSpt \in Nat /\ a.c \in Nat  BY <5>1 DEF Fdd!FdcAssumption
        <5> DEFINE h == a.h
                   r == a.r
        <5>4. h \in 0 .. 1 /\ r \in 1 .. FddSpt  BY <5>1
        <5> HIDE DEF h, r
        <5>5. h \in Nat /\ r \in Nat  BY <5>3, <5>4
        <5>2. a.c \in Nat /\ a.h \in Nat /\ a.r \in Nat /\ FddSpt \in Nat  BY <5>3, <5>5 DEF h, r
        <5> QED  BY <5>2 DEF Fdd!ChrnToOffset, Fdd!Sides
      <4> QED  BY <3>3, <3>5, <4>2, <4>3
    <3> HIDE DEF len, next
    <3>7. TransferExact'
      <4>1. drv.fresh => moved'.got = moved'.want  BY <3>1, <3>4, <3>5, <3>6
      <4>2. moved'.fresh = drv.fresh  BY <3>1
      <4>3. moved'.got.to = moved'.want.to /\ moved'.got.from = moved'.want.from  BY <3>1, <3>4
      <4>4. moved'.got.next \in {0, moved'.got.from + moved'.got.len}
        <5>1. CASE a.h = 0  BY <3>1, <3>6, <5>1
        <5>2. CASE a.h # 0  BY <3>1, <5>2
        <5> QED  BY <5>1, <5>2
      <4> QED  BY <4>1, <4>2, <4>3, <4>4 DEF TransferExact, Fdd!TransferExact
    <3> QED  BY <2>1, <3>7 DEF FddInv, FddTypes, Known, Pending, Sending
  <2> QED  BY <2>2, <2>3
<1>3. ASSUME ~\E d \in Fdd!Disks, a \in Fdd!Addresses : Fdd!ReadData(d, a), ~Fdd!ReadResult
      PROVE  UNCHANGED <<dma, drv, moved>>
  BY <1>3 DEF Fdd!WriteDor, Fdd!Recalibrate, Fdd!SenseInterruptStatus, Fdd!Seek, Fdd!OtherCommand
<1>4. CASE Fdd!ReadResult
  <2>1. moved' = Fdd!Nothing /\ UNCHANGED <<dma, drv>>  BY <1>4 DEF Fdd!ReadResult
  <2>2. TransferExact'  BY <2>1, NothingMoved
  <2> QED  BY <2>1, <2>2 DEF FddInv, FddTypes, Known, Pending, Sending
<1> QED  BY <1>1, <1>2, <1>3, <1>4

LEMMA FddStep == ASSUME Fdd!FdcAssumption, FddInv, [Fdd!Next]_(Fdd!fdcVars) PROVE FddInv'
<1>1. CASE UNCHANGED Fdd!fdcVars
  BY <1>1 DEF Fdd!fdcVars, FddInv, FddTypes, Known, Pending, Sending, TransferExact, Fdd!TransferExact
<1>2. CASE Fdd!Next
  BY <1>2, FddProgrammed, FddConfigured, FddCommanded DEF Fdd!Next
<1> QED  BY <1>1, <1>2

\* A floppy read goes to the address the driver programmed, whichever registers it wrote,
\* read or abandoned before; if the driver wrote the address or the page after the count it
\* also has the length the driver programmed (a count written last is not latched, and the
\* length is then an older one); and from head 0 the position reported is the one after the
\* sectors read (Reg16 and update_fdd_addr in hw/dma.rs, read_to_mem and
\* increment_chrn in hw/fdc.rs).
THEOREM TransfersAreExact == Fdd!FdcAssumption /\ DevicesSpec => []TransferExact
<1> SUFFICES ASSUME Fdd!FdcAssumption PROVE DevicesSpec => []TransferExact  OBVIOUS
<1>1. FddInv => TransferExact  BY DEF FddInv
<1>2. FddInv /\ [Fdd!Next]_(Fdd!fdcVars) => FddInv'  BY FddStep
<1>3. Fdd!Init => FddInv  BY FddStarts
<1> QED  BY <1>1, <1>2, <1>3, FloppyRuns, PTL DEF Fdd!Spec
=============================================================================

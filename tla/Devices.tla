------------------------------- MODULE Devices -------------------------------
(***************************************************************************)
(* The smaller devices, for any constants: the sound channel, the          *)
(* copy-on-write disk, the keyboard controller, a PIT counter, the floppy  *)
(* with its DMA channel, the network card and the NAT behind it.  They     *)
(* share no state, so a behaviour runs the one that `focus` names and      *)
(* leaves the others at power-on.                                          *)
(***************************************************************************)

CONSTANTS
    Modulus, Step, SizeRegs, SampleCounts, MaxRequired,    \* Es1370
    SectorSize, Sectors, Cells, MaxWrites, MaxRestores,    \* CowDisk
    MaxQueue, MaxDelta,                                    \* Ppi
    Byte, MaxGap,                                          \* PitTimer
    FddValues, Values, FddSpt, Cylinders, FddCommands,     \* Fdc
    U, PStart, PStop, Lengths, Lines, MaxFrames,           \* Ne2k
    Keys, Conns, UdpRemotes, Locals, Cap, MaxPackets       \* Nat

VARIABLES
    focus,                               \* the device that runs
    sound, tick, driver,                 \* Es1370
    cow, saved, truth,                   \* CowDisk
    ppi, mouse, lines, handler,          \* Ppi
    timer, gap, eager, got,              \* PitTimer
    dma, fdc, drv, moved,                \* Fdc
    card, link, guest, stored, dropped,  \* Ne2k
    slab, tcpMap, udpMap, nat            \* Nat

Snd == INSTANCE Es1370 WITH ch <- sound, Counts <- SampleCounts
Cow == INSTANCE CowDisk
Kbd == INSTANCE Ppi
Pit == INSTANCE PitTimer
Fdd == INSTANCE Fdc WITH B <- FddValues, Spt <- FddSpt, MaxCommands <- FddCommands
Eth == INSTANCE Ne2k WITH nat <- link
Un  == INSTANCE Nat

sndVars == <<sound, tick, driver>>
cowVars == <<cow, saved, truth>>
kbdVars == <<ppi, mouse, lines, handler>>
pitVars == <<timer, gap, eager, got>>
fddVars == <<dma, fdc, drv, moved>>
ethVars == <<card, link, guest, stored, dropped>>
unVars  == <<slab, tcpMap, udpMap, nat>>
devicesVars == <<focus, sndVars, cowVars, kbdVars, pitVars, fddVars, ethVars, unVars>>

DeviceNames == {"es1370", "cow", "ppi", "pit", "fdc", "ne2k", "nat"}

DevicesAssumption ==
    /\ Snd!Es1370Assumption /\ Cow!CowAssumption /\ Kbd!PpiAssumption /\ Pit!ByteAssumption
    /\ Fdd!FdcAssumption /\ Eth!Ne2kAssumption /\ Un!NatAssumption

-----------------------------------------------------------------------------
PowerOnDevices == Snd!Init /\ Cow!Init /\ Kbd!Init /\ Pit!Init /\ Fdd!Init /\ Eth!Init /\ Un!Init

DevicesInit == focus \in DeviceNames /\ PowerOnDevices

DevicesNext ==
    /\ focus' = focus
    /\ \/ focus = "es1370" /\ Snd!Next /\ UNCHANGED <<cowVars, kbdVars, pitVars, fddVars, ethVars, unVars>>
       \/ focus = "cow" /\ Cow!Next /\ UNCHANGED <<sndVars, kbdVars, pitVars, fddVars, ethVars, unVars>>
       \/ focus = "ppi" /\ Kbd!Next /\ UNCHANGED <<sndVars, cowVars, pitVars, fddVars, ethVars, unVars>>
       \/ focus = "pit" /\ Pit!Next /\ UNCHANGED <<sndVars, cowVars, kbdVars, fddVars, ethVars, unVars>>
       \/ focus = "fdc" /\ Fdd!Next /\ UNCHANGED <<sndVars, cowVars, kbdVars, pitVars, ethVars, unVars>>
       \/ focus = "ne2k" /\ Eth!Next /\ UNCHANGED <<sndVars, cowVars, kbdVars, pitVars, fddVars, unVars>>
       \/ focus = "nat" /\ Un!Next /\ UNCHANGED <<sndVars, cowVars, kbdVars, pitVars, fddVars, ethVars>>

DevicesSpec == DevicesInit /\ [][DevicesNext]_devicesVars

-----------------------------------------------------------------------------
(* The properties of the devices.                                          *)

\* A copy-on-write disk and its snapshots read as the guest wrote them.
ContentsExact == Cow!ContentsExact
\* A floppy transfer goes where the driver programmed the DMA controller.
TransferExact == Fdd!TransferExact
\* No byte of the keyboard or the mouse waits without an interrupt.
NoByteStranded == Kbd!NoByteStranded
\* The ring of the NE2000 holds what was received and not yet read, and no frame
\* waits in its channel without an interrupt.
FramesKept == Eth!RingExact /\ Eth!NoFrameStranded
\* The tables of the NAT agree, and its thread sleeps only when it has nothing
\* to move.
NatConsistent == Un!NatConsistent
\* An interrupt of the sound card is one its status register reports.
InterruptReported == Snd!InterruptReported
\* Catching up with many ticks of a PIT counter at once is exact, and a
\* latched count is read as one value.
CounterExact == Pit!LazyExact /\ Pit!LatchAtomic
=============================================================================

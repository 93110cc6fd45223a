-------------------------------- MODULE Ne2k --------------------------------
(***************************************************************************)
(* The network card (hw/net/ne2k.rs) between the NAT's thread, which puts  *)
(* a frame into a channel and then calls notify_packet_available, and a    *)
(* driver that polls the interrupt status in its handler.                  *)
(*                                                                         *)
(* Private RAM is counted in units of the size of a header; a page has U   *)
(* units.  A unit holds a header, a unit of a frame, or nothing.  Every    *)
(* access of the driver first runs check_recv_packet.                      *)
(***************************************************************************)
EXTENDS Integers, Sequences

CONSTANTS
    U,             \* units in a page of the ring
    PStart, PStop, \* the ring of the driver: pages PStart .. PStop - 1
    Lengths,       \* lengths of frames, in units
    Lines,         \* interrupt lines the BIOS may choose
    MaxFrames      \* bound: frames the NAT delivers

Ne2kAssumption ==
    /\ U \in Nat \ {0}
    /\ {PStart, PStop} \subseteq Nat /\ PStart < PStop
    /\ Lengths \subseteq Nat

VARIABLES
    card,    \* Ne2kState, irq_line and rx_irq_enabled, and the pulsed interrupt lines
    nat,     \* the channel of UserspaceNat and the state of its thread
    guest,   \* the driver
    stored,  \* frames in the ring that the driver has not freed, with their first pages
    dropped  \* a frame was dropped since the last interrupt

ne2kVars == <<card, nat, guest, stored, dropped>>

-----------------------------------------------------------------------------
(* Receiving.                                                              *)

\* check_irq and raise_irq: an interrupt is a pulse of the line in the PCI header.
CheckIrq(c) == IF c.isr \cap c.imr # {} THEN [c EXCEPT !.pulses = @ \cup {c.line}] ELSE c

Pages(f) == (f.len + 2 + U - 1) \div U

Available(c) ==
    IF c.curr < c.bnry THEN c.bnry - c.curr ELSE (c.pstop - c.pstart) - (c.curr - c.bnry)

\* Fault: a frame may fill the ring to the last page.
FitsExactly(c, f) == Available(c) >= Pages(f)

\* recv_frame: the early return for a full ring.  One page always stays free, since
\* equal pointers mean an empty ring.
Fits(c, f) == Available(c) > Pages(f)

NextPage(c, f) ==
    LET n == c.curr + Pages(f) IN IF n >= c.pstop THEN n - (c.pstop - c.pstart) ELSE n

\* The address of unit k of a frame (unit 0 is the header), which may wrap.
UnitAddr(c, f, k) ==
    LET remaining == (c.pstop - c.curr) * U
    IN IF NextPage(c, f) > c.curr \/ k < remaining THEN c.curr * U + k ELSE c.pstart * U + k - remaining

Header(c, f) == [next |-> NextPage(c, f), len |-> f.len + 1]

\* recv_frame
Receives(c, f) == ~c.stop /\ c.pstart # 0 /\ Fits(c, f) /\ f.ours

RecvFrame(c, f) ==
    CheckIrq([c EXCEPT
        !.ram = [a \in DOMAIN @ |->
                    IF a = UnitAddr(c, f, 0) THEN Header(c, f)
                    ELSE IF \E k \in 1 .. f.len : a = UnitAddr(c, f, k)
                      THEN <<f.id, CHOOSE k \in 1 .. f.len : a = UnitAddr(c, f, k)>>
                      ELSE @[a]],
        !.curr = NextPage(c, f),
        !.isr  = @ \cup {"received"}])

\* The card after check_recv_packet: at most one frame is taken from the channel.
Polled == IF nat.chan # <<>> /\ Receives(card, Head(nat.chan)) THEN RecvFrame(card, Head(nat.chan)) ELSE card

\* One access of the driver, with effect c on the card and g on the driver.
Access(c, g) ==
    /\ card' = c /\ guest' = g
    /\ nat' = [nat EXCEPT !.chan = IF @ = <<>> THEN @ ELSE Tail(@)]
    /\ stored' = IF nat.chan # <<>> /\ Receives(card, Head(nat.chan))
                   THEN Append(stored, [frame |-> Head(nat.chan), page |-> card.curr]) ELSE stored
    /\ dropped' = (dropped \/ (nat.chan # <<>> /\ ~Receives(card, Head(nat.chan))))

-----------------------------------------------------------------------------
(* The NAT's thread (TxToken::consume in net/unat.rs).                     *)

\* outgoing_packets.send
Deliver(len, ours) ==
    /\ ~nat.notify /\ nat.sent < MaxFrames
    /\ nat' = [chan |-> Append(nat.chan, [id |-> nat.sent + 1, len |-> len, ours |-> ours]),
               notify |-> TRUE, sent |-> nat.sent + 1]
    /\ UNCHANGED <<card, guest, stored, dropped>>

\* notify_packet_available pulses the line that irq_line holds.
Notify ==
    /\ nat.notify
    /\ nat' = [nat EXCEPT !.notify = FALSE]
    /\ card' = IF card.rxIrq THEN [card EXCEPT !.pulses = @ \cup {card.natLine}] ELSE card
    /\ UNCHANGED <<guest, stored, dropped>>

-----------------------------------------------------------------------------
(* The driver: configuration.                                              *)

\* A write of the interrupt line (DeviceWriteEvent::InterruptConfig) does not reach the
\* line the NAT's thread uses; the BIOS enables the card afterwards.
WriteInterruptLine(l) ==
    /\ guest.phase = "bios"
    /\ card' = [card EXCEPT !.line = l]
    /\ UNCHANGED <<nat, guest, stored, dropped>>

\* Fault: the line of the NAT's thread is not refreshed.
WriteCommandRegisterOnly ==
    /\ guest.phase = "bios"
    /\ guest' = [guest EXCEPT !.phase = "down"]
    /\ UNCHANGED <<card, nat, stored, dropped>>

\* A write of the command register (DeviceWriteEvent::Common).
WriteCommandRegister ==
    /\ guest.phase = "bios"
    /\ card' = [card EXCEPT !.natLine = card.line]
    /\ guest' = [guest EXCEPT !.phase = "down"]
    /\ UNCHANGED <<nat, stored, dropped>>

\* write: the ring's registers and the status register, taken as one access: the card is
\* stopped and drops whatever it polls.
WriteRing ==
    /\ guest.phase = "down"
    /\ Access([Polled EXCEPT !.pstart = PStart, !.pstop = PStop, !.bnry = PStart, !.curr = PStart,
                             !.isr = {}],
              [guest EXCEPT !.phase = "stopped", !.next = PStart])

\* write: the interrupt mask.
WriteImr(mask) ==
    /\ guest.phase \in {"stopped", "idle"}
    /\ Access(CheckIrq([Polled EXCEPT !.imr = mask, !.rxIrq = ("received" \in mask)]), guest)

\* write: the control register starts or stops the card.
StartStop ==
    \/ /\ guest.phase = "stopped"
       /\ Access([Polled EXCEPT !.stop = FALSE, !.isr = @ \ {"reset"}], [guest EXCEPT !.phase = "idle"])
    \/ /\ guest.phase = "idle"
       /\ Access([Polled EXCEPT !.stop = TRUE, !.isr = @ \cup {"reset"}], [guest EXCEPT !.phase = "stopped"])

\* write: the control register, with the transmit bit and a frame in the transmit buffer
\* (send_packet).
Transmit ==
    /\ guest.phase = "idle"
    /\ Access(CheckIrq([Polled EXCEPT !.isr = @ \cup {"transmitted"}]), guest)

\* A read of the reset port: everything but the PCI header and the RAM is cleared, and
\* rx_irq_enabled keeps its value.
Reset ==
    /\ guest.phase = "stopped"
    /\ card' = [Polled EXCEPT !.stop = TRUE, !.isr = {"reset"}, !.imr = {}, !.pstart = 0, !.pstop = 0,
                              !.bnry = 0, !.curr = 0, !.dma = 0, !.bytes = 0]
    /\ guest' = [guest EXCEPT !.phase = "down"]
    /\ nat' = [nat EXCEPT !.chan = IF @ = <<>> THEN @ ELSE Tail(@)]
    /\ stored' = <<>>
    /\ dropped' = (dropped \/ nat.chan # <<>>)

-----------------------------------------------------------------------------
(* The driver: interrupt handler.                                          *)

\* The interrupt controller delivers the line's interrupt.
Interrupt ==
    /\ guest.phase = "idle" /\ card.line \in card.pulses
    /\ card' = [card EXCEPT !.pulses = @ \ {card.line}]
    /\ guest' = [guest EXCEPT !.phase = "isr"]
    /\ dropped' = FALSE
    /\ UNCHANGED <<nat, stored>>

\* read: the handler leaves when it finds no interrupt.
ReadIsr ==
    /\ guest.phase = "isr"
    /\ LET isr == Polled.isr
       IN Access(Polled, [guest EXCEPT !.val = isr,
                                       !.phase = IF isr \cap {"received", "transmitted"} = {} THEN "idle" ELSE "ack"])

\* write: the interrupts found are acknowledged; a frame that arrives with this access is
\* acknowledged as well.
WriteIsr ==
    /\ guest.phase = "ack"
    /\ Access(CheckIrq([Polled EXCEPT !.isr = @ \ guest.val]), [guest EXCEPT !.phase = "ring"])

\* read: the driver compares the current page with the next page it expects.
ReadCurr ==
    /\ guest.phase = "ring"
    /\ Access(Polled, [guest EXCEPT !.phase = IF Polled.curr = guest.next THEN "isr" ELSE "frame", !.got = <<>>])

\* write: remote DMA from the start of a frame.  The send command takes the start from the
\* boundary and the length from the header; a driver that sets them itself does not need
\* the boundary.
StartDma(send) ==
    /\ guest.phase = "frame"
    /\ send => card.bnry = guest.next
    /\ LET c == Polled
       IN Access([c EXCEPT !.dma = (IF send THEN c.bnry ELSE guest.next) * U,
                           !.bytes = c.ram[(IF send THEN c.bnry ELSE guest.next) * U].len],
                 [guest EXCEPT !.phase = "data"])

\* read: the data port, which wraps at the end of the ring.
ReadData ==
    /\ guest.phase = "data"
    /\ LET c   == Polled
           end == c.dma + 1
           d   == [c EXCEPT !.dma = IF end = c.pstop * U THEN c.pstart * U ELSE end,
                            !.bytes = IF @ = 0 THEN 0 ELSE @ - 1]
       IN Access(IF d.bytes = 0 THEN CheckIrq([d EXCEPT !.isr = @ \cup {"dma"}]) ELSE d,
                 [guest EXCEPT !.got = Append(@, c.ram[c.dma]), !.phase = IF d.bytes = 0 THEN "read" ELSE @])

\* write: the boundary, at the next frame or one page before it, frees the frame.
WriteBoundary(behind) ==
    /\ guest.phase = "read"
    /\ LET next == guest.got[1].next
           bnry == IF ~behind THEN next ELSE IF next = PStart THEN PStop - 1 ELSE next - 1
       IN /\ card' = [Polled EXCEPT !.bnry = bnry]
          /\ guest' = [guest EXCEPT !.phase = "ring", !.next = next, !.got = <<>>]
          /\ nat' = [nat EXCEPT !.chan = IF @ = <<>> THEN @ ELSE Tail(@)]
          /\ LET fits == nat.chan # <<>> /\ Receives(card, Head(nat.chan))
             IN /\ stored' = Tail(stored) \o (IF fits THEN <<[frame |-> Head(nat.chan), page |-> card.curr]>> ELSE <<>>)
                /\ dropped' = (dropped \/ (nat.chan # <<>> /\ ~fits))

Init ==
    /\ card = [stop |-> TRUE, isr |-> {"reset"}, imr |-> {}, rxIrq |-> FALSE, line |-> 1, natLine |-> 1,
               pulses |-> {}, pstart |-> 0, pstop |-> 0, bnry |-> 0, curr |-> 0, dma |-> 0, bytes |-> 0,
               ram |-> [a \in PStart * U .. PStop * U - 1 |-> "empty"]]
    /\ nat = [chan |-> <<>>, notify |-> FALSE, sent |-> 0]
    /\ guest = [phase |-> "bios", next |-> 0, val |-> {}, got |-> <<>>]
    /\ stored = <<>> /\ dropped = FALSE

Next ==
    \/ \E len \in Lengths, ours \in BOOLEAN : Deliver(len, ours)
    \/ Notify
    \/ \E l \in Lines : WriteInterruptLine(l)
    \/ WriteCommandRegister
    \/ WriteRing
    \/ \E mask \in {{}, {"received", "transmitted"}} : WriteImr(mask)
    \/ StartStop
    \/ Transmit
    \/ Reset
    \/ Interrupt
    \/ ReadIsr
    \/ WriteIsr
    \/ ReadCurr
    \/ \E send \in BOOLEAN : StartDma(send)
    \/ ReadData
    \/ \E behind \in BOOLEAN : WriteBoundary(behind)

Spec == Init /\ [][Next]_ne2kVars

-----------------------------------------------------------------------------
\* The units a frame consists of, header first.
Contents(f) == [k \in 1 .. f.len |-> <<f.id, k>>]

\* The ring holds what was received: from the driver's next page to the current page lie,
\* linked by their headers, the frames received and not yet freed, and what the driver
\* reads of a frame, across the end of the ring or not, is that frame (recv_frame and the
\* data port in net/ne2k.rs).
RingExact ==
    /\ guest.phase \notin {"bios", "down"} =>
         /\ \A i \in DOMAIN stored :
              /\ stored[i].page = (IF i = 1 THEN guest.next ELSE card.ram[stored[i - 1].page * U].next)
              /\ "len" \in DOMAIN card.ram[stored[i].page * U]
              /\ card.ram[stored[i].page * U].len = stored[i].frame.len + 1
         /\ card.curr = (IF stored = <<>> THEN guest.next ELSE card.ram[stored[Len(stored)].page * U].next)
    /\ guest.phase = "read" => Tail(guest.got) = Contents(Head(stored).frame)

\* No frame waits unnoticed: with receive interrupts enabled, a frame in the channel or in
\* the ring has the card's interrupt pending, the handler running or the NAT's thread
\* about to pulse the line.  Only a frame that was dropped can hide the one behind it
\* (check_recv_packet takes one frame per access, notify_packet_available in
\* net/ne2k.rs pulses once per frame).
NoFrameStranded ==
    /\ guest.phase = "idle" /\ card.rxIrq /\ ~nat.notify /\ ~dropped
    /\ nat.chan # <<>> \/ stored # <<>>
    => card.line \in card.pulses
=============================================================================

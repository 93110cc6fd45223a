--------------------------------- MODULE Fdc ---------------------------------
(***************************************************************************)
(* The floppy controller (hw/fdc.rs) and channel 2 of the ISA DMA          *)
(* controller (hw/dma.rs, hw/reg.rs), which it reads through three shared  *)
(* cells: the address, the length and the mode.                            *)
(*                                                                         *)
(* The unit of transfer is a sector and a register holds two base-B digits *)
(* (its bytes).  The driver sends the bytes of a register in pairs and     *)
(* clears the flip-flop before it abandons one, programs the registers in  *)
(* any order, does not cross the page, and collects the result of a        *)
(* command before the next.                                                *)
(***************************************************************************)
EXTENDS Integers, Sequences, SequencesExt

CONSTANTS
    B,          \* values of a byte
    Values,     \* the addresses and counts a driver programs
    Spt,        \* sectors per track
    Cylinders,  \* cylinder numbers a driver uses
    MaxCommands \* bound: commands to the floppy controller

FdcAssumption ==
    /\ {B, Spt} \subseteq Nat \ {0}
    /\ Values \subseteq 0 .. B * B - 1
    /\ Cylinders \subseteq Nat
    /\ MaxCommands \in Nat

Octet == 0 .. B - 1
Sides == 2
Disks == {0, 1}    \* disk 0 has a medium

VARIABLES
    dma,    \* Dma: the two registers of channel 2, its page, and the cells shared with the FDC
    fdc,    \* Fdc: digital output register, result buffer, ST0, cylinders; commands so far
    drv,    \* the driver: register it is sending, values it has programmed, and whether
            \* it wrote the address or the page after the count (`fresh`)
    moved   \* history: the transfer whose result is not collected yet, as made and as programmed

fdcVars == <<dma, fdc, drv, moved>>

-----------------------------------------------------------------------------
(* Registers of the DMA controller.                                        *)

Reg16 == [val |-> 0, high |-> FALSE]

\* Reg16::write: the low byte, then the high byte.
RegWrite(r, b) ==
    IF r.high THEN [val |-> (r.val % B) + b * B, high |-> FALSE]
    ELSE [val |-> (r.val \div B) * B + b, high |-> TRUE]

\* Dma::update_fdd_addr
UpdateFddAddr(d) ==
    [d EXCEPT !.fddAddr = d.addr.val + d.page * B * B, !.fddLen = d.count.val]

\* write_address and write_count: only the first refreshes the latches.
WriteReg(d, reg, b) ==
    IF reg = "addr" THEN UpdateFddAddr([d EXCEPT !.addr = RegWrite(@, b)])
    ELSE [d EXCEPT !.count = RegWrite(@, b)]

\* Fault: the counts keep their flip-flops.
ClearsAddressesOnly(d) == [d EXCEPT !.addr.high = FALSE]

\* clear_byte_flip_flop (and master_clear, whose mask is never used).
ClearByteFlipFlop(d) == [d EXCEPT !.addr.high = FALSE, !.count.high = FALSE]

\* The driver starts to send a value, or sends its next byte.
BeginReg(reg, v) ==
    /\ fdc.commands < MaxCommands
    /\ drv.bytes = <<>> /\ ~drv.reading
    /\ drv' = [drv EXCEPT !.reg = reg, !.bytes = <<v % B, v \div B>>, !.known = @ \ {reg},
                          ![reg] = v]
    /\ UNCHANGED <<dma, fdc, moved>>

SendByte ==
    /\ drv.bytes # <<>>
    /\ dma' = WriteReg(dma, drv.reg, Head(drv.bytes))
    /\ drv' = IF Len(drv.bytes) = 2 THEN [drv EXCEPT !.bytes = Tail(@)]
              ELSE [drv EXCEPT !.bytes = <<>>, !.known = @ \cup {drv.reg}, !.fresh = (drv.reg = "addr")]
    /\ UNCHANGED <<fdc, moved>>

\* Reg16::read: a read of the count moves its flip-flop too; drivers read pairs.
ReadCount ==
    /\ fdc.commands < MaxCommands
    /\ drv.bytes = <<>>
    /\ dma' = [dma EXCEPT !.count.high = ~@]
    /\ drv' = [drv EXCEPT !.reading = ~@]
    /\ UNCHANGED <<fdc, moved>>

WritePage(p) ==
    /\ fdc.commands < MaxCommands
    /\ drv.bytes = <<>>
    /\ dma' = UpdateFddAddr([dma EXCEPT !.page = p])
    /\ drv' = [drv EXCEPT !.page = p, !.known = @ \cup {"page"}, !.fresh = TRUE]
    /\ UNCHANGED <<fdc, moved>>

ClearFlipFlop ==
    /\ dma' = ClearByteFlipFlop(dma)
    /\ drv' = [drv EXCEPT !.bytes = <<>>, !.reading = FALSE]
    /\ UNCHANGED <<fdc, moved>>

\* Dma::write_mode; 1 is "write to memory", 0 is "verify".
WriteMode(mode) ==
    /\ fdc.commands < MaxCommands
    /\ dma' = [dma EXCEPT !.mode = mode]
    /\ UNCHANGED <<fdc, drv, moved>>

-----------------------------------------------------------------------------
(* The floppy controller.                                                  *)

\* Disk::chrn_to_offset, in sectors
ChrnToOffset(a) == (a.c * Sides + a.h) * Spt + a.r - 1

\* Disk::increment_chrn: the head of the start is not counted.
IncrementChrn(a, n) ==
    LET sectors == a.r - 1 + n
    IN [c |-> a.c + sectors \div (Spt * Sides), h |-> 0, r |-> (sectors % (Spt * Sides)) + 1]

St0(disk, h, seeked, status) == [disk |-> disk, head |-> h, seeked |-> seeked, status |-> status]

\* The driver sends a command.  Its bytes only gather in cmd_buf until the last one,
\* with which Command::try_parse succeeds and the command is executed.
Execute(f) == /\ fdc.output = <<>> /\ fdc.commands < MaxCommands
              /\ fdc' = [f EXCEPT !.commands = @ + 1]

\* The digital output register.  Every write moves all heads to cylinder 0; the
\* buffers stay as they are.  (dma_enabled gates the interrupt, which is not modelled.)
WriteDor(enabled, disk) ==
    /\ Execute([fdc EXCEPT !.enabled = enabled, !.selected = disk,
                           !.cylinder = [d \in Disks |-> 0],
                           !.st0 = IF enabled /\ ~fdc.enabled
                                   THEN St0(disk, 0, FALSE, "ReadySignalChange") ELSE @])
    /\ UNCHANGED <<dma, drv, moved>>

\* The driver has programmed a transfer that stays within its page.
Programmed ==
    /\ drv.bytes = <<>> /\ drv.known = {"addr", "count", "page"}
    /\ drv.addr + drv.count < B * B

\* Disk::read_to_mem
ReadToMem(disk, a) ==
    LET len  == dma.fddLen + 1
        next == IncrementChrn(a, len)
    IN /\ moved' = [got  |-> [to |-> IF dma.mode = 1 THEN dma.fddAddr ELSE -1, len |-> len,
                              from |-> ChrnToOffset(a),
                              next |-> IF a.h = 0 THEN ChrnToOffset(next) ELSE 0],
                    want |-> [to |-> IF dma.mode = 1 THEN drv.page * B * B + drv.addr ELSE -1,
                              len |-> drv.count + 1, from |-> ChrnToOffset(a),
                              next |-> IF a.h = 0 THEN ChrnToOffset(a) + drv.count + 1 ELSE 0],
                     fresh |-> drv.fresh]
       /\ Execute([fdc EXCEPT !.st0 = St0(disk, 0, FALSE, "Ok"), !.cylinder[disk] = next.c,
                              !.output = <<St0(disk, 0, FALSE, "Ok"), 0, 0, next.c, next.h, next.r, 2>>])

ReadData(disk, a) ==
    /\ Programmed
    /\ IF disk = 0 THEN ReadToMem(disk, a)
       ELSE LET st0 == St0(disk, a.h, FALSE, "TerminatedAbnormally")
            IN /\ Execute([fdc EXCEPT !.st0 = st0, !.output = <<st0, 0, 0, a.c, a.h, a.r, 2>>])
               /\ UNCHANGED moved
    /\ UNCHANGED <<dma, drv>>

Recalibrate(disk) ==
    /\ Execute([fdc EXCEPT !.st0 = St0(disk, 0, TRUE, IF disk = 0 THEN "Ok" ELSE "TerminatedAbnormally")])
    /\ UNCHANGED <<dma, drv, moved>>

SenseInterruptStatus ==
    /\ Execute([fdc EXCEPT !.output = <<fdc.st0, fdc.cylinder[fdc.selected]>>])
    /\ UNCHANGED <<dma, drv, moved>>

Seek(disk, c) ==
    /\ Execute([fdc EXCEPT !.cylinder[disk] = c, !.st0 = St0(disk, 0, TRUE, "Ok")])
    /\ UNCHANGED <<dma, drv, moved>>

\* Specify, and the commands that are only logged.
OtherCommand ==
    /\ Execute(fdc)
    /\ UNCHANGED <<dma, drv, moved>>

NoMove  == [to |-> -1, len |-> 1, from |-> 0, next |-> 0]
Nothing == [got |-> NoMove, want |-> NoMove, fresh |-> TRUE]

\* The driver reads the data register until the result is used up; nothing that
\* the model tells apart happens between two of its bytes.
ReadResult ==
    /\ fdc.output # <<>>
    /\ fdc' = [fdc EXCEPT !.output = <<>>]
    /\ moved' = Nothing
    /\ UNCHANGED <<dma, drv>>

Addresses == [c : Cylinders, h : 0 .. Sides - 1, r : 1 .. Spt]

Init ==
    /\ dma = [addr |-> Reg16, count |-> Reg16, page |-> 0, mode |-> 0, fddAddr |-> 0, fddLen |-> 0]
    /\ fdc = [enabled |-> FALSE, selected |-> 0, commands |-> 0, output |-> <<>>, st0 |-> St0(0, 0, FALSE, "Ok"), cylinder |-> [d \in Disks |-> 0]]
    /\ drv = [reg |-> "addr", bytes |-> <<>>, reading |-> FALSE, known |-> {}, fresh |-> FALSE,
              addr |-> 0, count |-> 0, page |-> 0]
    /\ moved = Nothing

Next ==
    \/ \E reg \in {"addr", "count"}, v \in Values : BeginReg(reg, v)
    \/ SendByte
    \/ ReadCount
    \/ \E p \in Octet : WritePage(p)
    \/ ClearFlipFlop
    \/ \E mode \in {0, 1} : WriteMode(mode)
    \/ \E enabled \in BOOLEAN, d \in Disks : WriteDor(enabled, d)
    \/ \E d \in Disks, a \in Addresses : ReadData(d, a)
    \/ \E d \in Disks : Recalibrate(d)
    \/ SenseInterruptStatus
    \/ \E d \in Disks, c \in Cylinders : Seek(d, c)
    \/ OtherCommand
    \/ ReadResult

Spec == Init /\ [][Next]_fdcVars

-----------------------------------------------------------------------------
\* A read moves the sectors of the command to the address the driver has
\* programmed, whatever registers it wrote, read or abandoned before, and if the
\* driver wrote the address or the page after the count, with the length it has
\* programmed (Dma::update_fdd_addr, Reg16, Disk::read_to_mem).  If it wrote the
\* count last, write_count (dma.rs:87) leaves the length as it was latched: the
\* number of sectors moved is then not the programmed one.  In both cases the
\* position reported is the one after the sectors moved; for a transfer from head 1,
\* increment_chrn reports another position.
TransferExact ==
    /\ moved.fresh => moved.got = moved.want
    /\ moved.got.to = moved.want.to /\ moved.got.from = moved.want.from
    /\ moved.got.next \in {0, moved.got.from + moved.got.len}
=============================================================================

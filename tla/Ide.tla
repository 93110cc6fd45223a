--------------------------------- MODULE Ide ---------------------------------
(***************************************************************************)
(* One channel of the IDE controller (hw/ide/mod.rs, hw/ide/atapi.rs): the *)
(* command block, PIO and bus-master transfers of a disk, packet commands  *)
(* of a CD drive.                                                          *)
(*                                                                         *)
(* The data port moves a word at a time; a sector has W words and a packet *)
(* is one word, its command.  The guest is a driver that programs the      *)
(* registers, issues a command and moves the data of that command before   *)
(* it issues the next; it asks for sectors that exist or, on reads, for    *)
(* some that do not, and its PRD table covers the transfer exactly.        *)
(***************************************************************************)
EXTENDS Integers, FiniteSets, FiniteSetsExt, Sequences

CONSTANTS
    W,             \* words per sector
    Size,          \* sectors of the disk
    Heads, Spt,    \* geometry: heads, sectors per track
    Modes,         \* addressing: a subset of {"lba", "chs"}
    Data,          \* the words a guest writes
    Counts,        \* sector counts
    Limits,        \* byte counts of packet commands, in words
    MaxCommands,   \* bound: commands of a behaviour
    Packets        \* packets: command, whether its fields are valid, length of the response

Lbas  == 0 .. Size - 1
Words == Data \cup {"zero", "id", "cd", "ff"}

IdeAssumption ==
    /\ {W, Size, Heads, Spt} \subseteq Nat \ {0}
    /\ Modes \subseteq {"lba", "chs"}
    /\ Counts \cup Limits \subseteq Nat \ {0}
    /\ MaxCommands \in Nat
    /\ \A p \in Packets : p.len \in Nat \ {0}

VARIABLES
    ch,    \* ChannelState (a record, see PowerOn)
    disk,  \* contents of the disk
    ram,   \* the guest's memory behind the PRD table
    job,   \* the guest's side: the transfer it is making
    out,   \* the guest's side: the last word it read
    irqs   \* history of the last data command: interrupts raised, words moved, its
           \* kind, length and block length ("none" while interrupts are disabled);
           \* and the commands so far

ideVars == <<ch, disk, ram, job, out, irqs>>

NoDma == [kind |-> "none", at |-> 0, len |-> 0, words |-> <<>>]

\* What the driver does: nothing, or moves the words of a command.
NoJob == [kind |-> "none", at |-> 0, left |-> 0, words |-> <<>>]
Job(kind, a, n) == [kind |-> kind, at |-> a, left |-> n, words |-> <<>>]

\* Channel::new
PowerOn ==
    [err |-> FALSE, drq |-> FALSE, rdy |-> FALSE, busy |-> TRUE,
     drive |-> "disk",               \* the selected drive: disk, cd or none
     count |-> 1, addr |-> [mode |-> "lba", lba |-> 0], limit |-> 1, features |-> 0,
     buf |-> <<>>,                   \* sector_buffer
     left |-> 0,                     \* num_pending_sector_writes
     packet |-> FALSE,               \* pending_command
     response |-> FALSE,             \* reading_atapi_packet
     index |-> 0, block |-> 0,       \* atapi_byte_index, atapi_byte_block_size
     viaDma |-> FALSE,               \* packet_responses_via_dma
     dma |-> NoDma,                  \* pending_dma_command
     start |-> FALSE,                \* dma_status with the start bit
     nien |-> FALSE]                 \* interrupt_disabled

-----------------------------------------------------------------------------
(* Block addresses.                                                        *)

\* BlockAddr::as_byte_offset, in sectors
Offset(a) ==
    IF a.mode = "lba" THEN a.lba
    ELSE (a.cylinder * Heads + a.head) * Spt + a.sector - 1

\* BlockAddr::next_sector: the cylinder advances whenever the new head is 0.
NextSector(a) ==
    IF a.mode = "lba" THEN [a EXCEPT !.lba = @ + 1]
    ELSE LET sector == (a.sector % Spt) + 1
             head   == (a.head + (IF sector = 1 THEN 1 ELSE 0)) % Heads
         IN [a EXCEPT !.sector = sector, !.head = head,
                      !.cylinder = @ + (IF head = 0 THEN 1 ELSE 0)]

Addrs ==
    {a \in [mode : {"lba"} \cap Modes, lba : Lbas] \cup
           [mode : {"chs"} \cap Modes, cylinder : Lbas, head : 0 .. Heads - 1, sector : 1 .. Spt] :
       Offset(a) < Size}

\* DiskData::read_slice, in sectors
Slice(a, n) == [i \in 1 .. n * W |-> disk[a + (i - 1) \div W][((i - 1) % W) + 1]]

-----------------------------------------------------------------------------
(* Status and interrupts.                                                  *)

\* raise_interrupt: the line is pulsed unless the guest has disabled it.  (It also
\* sets interrupt_ready of the bus master, which only the guest reads.)
Pulses(c, n) == IF c.nien THEN 0 ELSE n

\* The step moves n words and raises k interrupts; a command starts anew, and only
\* one that transfers data is remembered.
Raised(c, k, n) == irqs' = [irqs EXCEPT !.raised = @ + Pulses(c, k), !.moved = @ + n]
Begins(c, k, kind, n, block) ==
    irqs' = [raised |-> Pulses(c, k), moved |-> 0, kind |-> IF c.nien THEN "none" ELSE kind,
             n |-> n, block |-> block, cmds |-> irqs.cmds + 1]
Fresh(c, k) == Begins(c, k, "none", 0, 0)

\* generate_command_abort
Aborted(c) == [c EXCEPT !.packet = FALSE, !.busy = FALSE, !.rdy = TRUE,
                        !.err = TRUE, !.drq = FALSE]

\* The registers of a finished command without data.
Done(c) == [c EXCEPT !.err = FALSE]

-----------------------------------------------------------------------------
(* The command block registers (Channel::write, ports 1 to 6, and          *)
(* Channel::write_control).                                                *)

\* The driver is between two commands.
Between == job = NoJob /\ irqs.cmds < MaxCommands

\* Sector count, features and block address; the byte count of a packet command is
\* kept in two bytes of the block address.
WriteRegs(n, a, limit, features) ==
    /\ Between
    /\ ch' = [ch EXCEPT !.count = n, !.addr = a, !.limit = limit, !.features = features]
    /\ UNCHANGED <<disk, ram, job, out, irqs>>

SelectDrive(d) ==
    /\ Between
    /\ ch' = [ch EXCEPT !.drive = d, !.rdy = (d # "none"), !.busy = FALSE, !.drq = FALSE]
    /\ UNCHANGED <<disk, ram, job, out, irqs>>

WriteControl(nien, reset) ==
    /\ Between
    /\ ch' = [ch EXCEPT !.nien = nien,
                        !.rdy = ~reset /\ ch.drive # "none",
                        !.busy = reset /\ ch.drive # "none",
                        !.count = IF reset THEN 1 ELSE @]
    /\ UNCHANGED <<disk, ram, job, out, irqs>>

ReadStatus ==
    /\ ch' = [ch EXCEPT !.err = FALSE]
    /\ UNCHANGED <<disk, ram, job, out, irqs>>

-----------------------------------------------------------------------------
(* Commands (execute_command).                                             *)

\* A command of the guest; on a missing drive it only sets the error bit.
Command == Between /\ ch.drive # "none"

\* What every command does first.
Started == [ch EXCEPT !.err = FALSE, !.response = FALSE]

MissingDrive ==
    /\ Between /\ ch.drive = "none"
    /\ ch' = [ch EXCEPT !.err = TRUE]
    /\ UNCHANGED <<disk, ram, job, out, irqs>>

Queued(c, words) == [c EXCEPT !.buf = words, !.drq = TRUE, !.err = FALSE]

\* Identify drive, and identify packet drive: each belongs to one kind of drive.
Identify(forCd) ==
    /\ Command
    /\ \/ /\ forCd = (ch.drive = "cd")
          /\ ch' = Queued(Started, [i \in 1 .. W |-> "id"])
          /\ job' = Job("identify", 0, 1)
          /\ Fresh(ch, 1)
       \/ /\ ~forCd /\ ch.drive = "cd"
          /\ ch' = Aborted(Started)
          /\ Fresh(ch, 1) /\ UNCHANGED job
       \/ /\ forCd /\ ch.drive = "disk"
          /\ ch' = [Started EXCEPT !.err = TRUE]
          /\ Fresh(ch, 0) /\ UNCHANGED job
    /\ UNCHANGED <<disk, ram, out>>

\* Commands that answer at once: set features, seek and format track; standby, idle,
\* flush and initialise parameters (a driver sets the geometry once); and calibrate, which
\* also clears the data request.  (It zeroes the cylinder too, which the driver writes
\* again with the next command.)
NoDataCommand(kind) ==
    /\ Command
    /\ ch' = Done([Started EXCEPT !.rdy = @ \/ kind # "seek", !.drq = @ /\ kind # "calibrate"])
    /\ Fresh(ch, 1)
    /\ UNCHANGED <<disk, ram, job, out>>

DeviceReset ==
    /\ Command
    /\ ch' = IF ch.drive = "cd"
             THEN [Started EXCEPT !.buf = <<>>, !.rdy = FALSE, !.drq = FALSE, !.busy = FALSE]
             ELSE [Started EXCEPT !.err = TRUE]
    /\ Fresh(ch, 0)
    /\ UNCHANGED <<disk, ram, job, out>>

\* The sectors of a command.
First == Offset(ch.addr)
Inside == First + ch.count <= Size

ReadSectors(verify) ==
    /\ Command
    /\ \/ /\ ch.drive = "cd"
          /\ ch' = Aborted(Started) /\ UNCHANGED job
       \/ /\ ch.drive = "disk" /\ ~Inside
          /\ ch' = [Started EXCEPT !.err = TRUE] /\ UNCHANGED job
       \/ /\ ch.drive = "disk" /\ Inside /\ ~verify
          /\ ch' = Queued(Started, Slice(First, ch.count))
          /\ job' = Job("read", First, ch.count)
       \/ /\ ch.drive = "disk" /\ Inside /\ verify
          /\ ch' = Done(Started) /\ UNCHANGED job
    /\ IF job' # job THEN Begins(ch, 1, "read", ch.count, W) ELSE Fresh(ch, 1)
    /\ UNCHANGED <<disk, ram, out>>

WriteSectors ==
    /\ Command
    /\ ch.drive = "disk" /\ Inside
    /\ ch' = [Started EXCEPT !.left = ch.count, !.drq = TRUE]
    /\ job' = Job("write", First, ch.count)
    /\ Begins(ch, 0, "write", ch.count, W)
    /\ UNCHANGED <<disk, ram, out>>

DmaCommand(kind) ==
    /\ Command
    /\ ch.drive = "disk"
    /\ IF Inside
       THEN /\ ch' = [Started EXCEPT !.dma = [kind |-> kind, at |-> First, len |-> ch.count, words |-> <<>>]]
            /\ job' = Job(kind, First, ch.count)
            /\ ram' \in IF kind = "dma_write" THEN [1 .. ch.count * W -> Data] ELSE {ram}
            /\ Begins(ch, 0, "dma", ch.count, W)
       ELSE /\ ch' = [Started EXCEPT !.err = TRUE]
            /\ UNCHANGED <<job, ram>> /\ Fresh(ch, 0)
    /\ UNCHANGED <<disk, out>>

PacketCommand ==
    /\ Command
    /\ ch.drive = "cd"
    /\ ch' = [Started EXCEPT !.viaDma = (ch.features = 1), !.busy = FALSE, !.drq = TRUE,
                             !.buf = <<>>, !.packet = TRUE]
    /\ job' = Job("packet", 0, 1)
    /\ Fresh(ch, 0)
    /\ UNCHANGED <<disk, ram, out>>

-----------------------------------------------------------------------------
(* The data port.                                                          *)

\* The guest's side of a word moved.
Moved(w) ==
    LET words == Append(job.words, w)
    IN IF Len(words) < W THEN [job EXCEPT !.words = words]
       ELSE IF job.left = 1 THEN NoJob
       ELSE [job EXCEPT !.at = @ + 1, !.left = @ - 1, !.words = <<>>]

\* Fault: the next sector is taken from the command, not from the block address.
WriteDataKeepsAddr(w) ==
    /\ job.kind = "write"
    /\ LET buf  == Append(ch.buf, w)
           full == Len(buf) = W
           next == [ch EXCEPT !.buf = <<>>, !.err = FALSE,
                              !.left = @ - 1, !.drq = (ch.left > 1)]
       IN /\ ch' = IF full THEN next ELSE [ch EXCEPT !.buf = buf]
          /\ disk' = IF full THEN [disk EXCEPT ![Offset(ch.addr)] = buf] ELSE disk
          /\ Raised(ch, IF full THEN 1 ELSE 0, 1)
    /\ job' = Moved(w)
    /\ UNCHANGED <<ram, out>>

\* A word of a sector to write.  A full sector is stored at the current block
\* address, which then advances.
WriteData(w) ==
    /\ job.kind = "write"
    /\ LET buf  == Append(ch.buf, w)
           full == Len(buf) = W
           next == [ch EXCEPT !.buf = <<>>, !.err = FALSE, !.addr = NextSector(@),
                              !.left = @ - 1, !.drq = (ch.left > 1)]
       IN /\ ch' = IF full THEN next ELSE [ch EXCEPT !.buf = buf]
          /\ disk' = IF full THEN [disk EXCEPT ![Offset(ch.addr)] = buf] ELSE disk
          /\ Raised(ch, IF full THEN 1 ELSE 0, 1)
    /\ job' = Moved(w)
    /\ UNCHANGED <<ram, out>>

\* finish_atapi_command_without_output, finish_atapi_command_with_error
Finished(c, err) == [c EXCEPT !.busy = FALSE, !.rdy = TRUE, !.drq = FALSE, !.err = err]

\* send_atapi_response: the response is read in blocks of at most the byte count.
Responded(c, words) ==
    [c EXCEPT !.response = TRUE, !.index = 0, !.block = Min({c.limit, Len(words)}),
              !.busy = FALSE, !.drq = TRUE, !.err = FALSE]

\* The end of a DMA transfer.
DmaFinished(c) == [c EXCEPT !.dma = NoDma, !.start = FALSE,
                            !.drq = FALSE, !.err = FALSE]

\* What the packets with fields the drive may refuse answer: data, an error, or, when
\* READ SUB-CHANNEL names an unknown format, the error and then the data all the same.
ModeSense(p)      == IF p.ok THEN {"data"} ELSE {"error"}
GetEventStatus(p) == IF p.ok THEN {"data"} ELSE {"error"}
ReadSubchannel(p) == IF p.ok THEN {"data"} ELSE {"error", "data"}

\* The answer of each packet.  "done" and "ack" finish it with and without an interrupt;
\* a packet that AtapiPacket::parse refuses is not answered.
Answer(p) ==
    CASE p.cmd \in {"Inquiry", "RequestSense", "ReadToc", "Read", "ReadCdromCapacity"} -> {"data"}
      [] p.cmd = "ModeSense" -> ModeSense(p)
      [] p.cmd = "GetEventStatusNotification" -> GetEventStatus(p)
      [] p.cmd = "ReadSubchannel" -> ReadSubchannel(p)
      [] p.cmd = "ReadDiscInfo" -> {"error"}
      [] p.cmd = "TestUnitReady" -> {"done"}
      [] p.cmd \in {"StartStopUnit", "EjectLock"} -> {"ack"}
      [] OTHER -> {}

\* The word that completes a packet: the packet is executed.  A response is
\* truncated by the packet's allocation length, which len is.
WritePacket(p) ==
    /\ job.kind = "packet"
    /\ LET a     == Answer(p)
           words == [i \in 1 .. p.len |-> "cd"]
           c     == [ch EXCEPT !.buf = <<>>]
           d     == CASE "error" \in a -> Finished(c, TRUE)
                      [] a \cap {"done", "ack"} # {} -> Finished(c, FALSE)
                      [] OTHER -> c
           first == Cardinality(a \cap {"error", "done"})   \* interrupts so far
       IN CASE "data" \notin a ->
                 /\ ch' = d /\ job' = NoJob
                 /\ Raised(ch, first, 0) /\ UNCHANGED ram
            [] "data" \in a /\ ~ch.viaDma ->
                 /\ ch' = [Responded(d, words) EXCEPT !.buf = words]
                 /\ job' = Job("response", 0, p.len)
                 /\ irqs' = [irqs EXCEPT !.raised = Pulses(ch, first + 1), !.n = p.len,
                                 !.kind = IF ch.nien \/ "error" \in a THEN "none" ELSE "response",
                                 !.block = Min({ch.limit, p.len})]
                 /\ UNCHANGED ram
            [] "data" \in a /\ ch.viaDma /\ ch.start ->
                 /\ ch' = DmaFinished(Responded(d, words)) /\ ram' = words
                 /\ job' = NoJob
                 /\ Raised(ch, first + 1, 0)
            [] "data" \in a /\ ch.viaDma /\ ~ch.start ->
                 /\ ch' = [Responded(d, words) EXCEPT
                             !.dma = [kind |-> "response", at |-> 0, len |-> 0, words |-> words]]
                 /\ job' = Job("response_dma", 0, p.len)
                 /\ Raised(ch, first, 0) /\ UNCHANGED ram
    /\ UNCHANGED <<disk, out>>

\* A word of a packet response: the end of a block, and of the response, interrupt.
ReadResponse ==
    LET c     == [ch EXCEPT !.buf = Tail(@), !.index = @ + 1]
        empty == c.buf = <<>>
        ends  == c.index >= c.block
        crop  == Min({c.block, Len(c.buf)})
    IN /\ job.kind = "response"
       /\ ch' = CASE empty -> [c EXCEPT !.rdy = TRUE, !.busy = FALSE, !.drq = FALSE,
                                       !.err = FALSE, !.response = FALSE]
                  [] ~empty /\ ends -> [c EXCEPT !.index = 0, !.rdy = TRUE,
                                       !.busy = FALSE, !.drq = TRUE, !.block = crop,
                                       !.limit = IF crop < c.block THEN crop ELSE @]
                  [] OTHER -> c
       /\ Raised(ch, IF empty \/ ends THEN 1 ELSE 0, 1)
       /\ out' = Head(ch.buf)
       /\ job' = IF job.left = 1 THEN NoJob ELSE [job EXCEPT !.left = @ - 1]
       /\ UNCHANGED <<disk, ram>>

\* Fault: the interrupt for the next sector is raised after the last one too.
ReadDataAlwaysInterrupts ==
    LET c == [ch EXCEPT !.buf = Tail(@), !.drq = (Len(ch.buf) > 1)]
        sector == Len(c.buf) % W = 0
    IN /\ job.kind \in {"read", "identify"}
       /\ ch' = c
       /\ Raised(ch, IF sector THEN 1 ELSE 0, 1)
       /\ out' = IF job.kind = "read" THEN Head(ch.buf) ELSE out
       /\ job' = Moved(Head(ch.buf))
       /\ UNCHANGED <<disk, ram>>

\* A word of a sector: an interrupt when a whole number of sectors remains.
ReadData ==
    LET c == [ch EXCEPT !.buf = Tail(@), !.drq = (Len(ch.buf) > 1)]
        sector == c.buf # <<>> /\ Len(c.buf) % W = 0
    IN /\ job.kind \in {"read", "identify"}
       /\ ch' = c
       /\ Raised(ch, IF sector THEN 1 ELSE 0, 1)
       /\ out' = IF job.kind = "read" THEN Head(ch.buf) ELSE out
       /\ job' = Moved(Head(ch.buf))
       /\ UNCHANGED <<disk, ram>>

-----------------------------------------------------------------------------
(* The bus master (write_busmaster, try_handle_pending_dma).               *)

\* The guest's buffer is split over the entries of the PRD table, which move all of it.
\* Without a pending command only the start bit is kept.
StartBusMaster ==
    /\ LET d == ch.dma
       IN CASE d.kind = "none" ->
                 /\ ch' = [ch EXCEPT !.start = TRUE]
                 /\ Raised(ch, 0, 0) /\ UNCHANGED <<ram, disk, job>>
            [] d.kind = "dma_read" ->
                 /\ ram' = Slice(d.at, d.len)
                 /\ ch' = DmaFinished(ch) /\ job' = NoJob
                 /\ Raised(ch, 1, 0) /\ UNCHANGED disk
            [] d.kind = "dma_write" ->
                 /\ disk' = [s \in Lbas |-> IF s \in d.at .. d.at + d.len - 1
                               THEN SubSeq(ram, (s - d.at) * W + 1, (s - d.at + 1) * W)
                               ELSE disk[s]]
                 /\ ch' = DmaFinished(ch) /\ job' = NoJob
                 /\ Raised(ch, 1, 0) /\ UNCHANGED ram
            [] d.kind = "response" ->
                 /\ ram' = d.words
                 /\ ch' = DmaFinished(ch) /\ job' = NoJob
                 /\ Raised(ch, 1, 0) /\ UNCHANGED disk
    /\ UNCHANGED out

StopBusMaster ==
    /\ ch.dma.kind = "none"
    /\ ch' = [ch EXCEPT !.start = FALSE]
    /\ UNCHANGED <<disk, ram, job, out, irqs>>

Init ==
    /\ ch = PowerOn
    /\ disk = [s \in Lbas |-> [i \in 1 .. W |-> "zero"]]
    /\ ram = <<>> /\ job = NoJob /\ out = "ff"
    /\ irqs = [raised |-> 0, moved |-> 0, kind |-> "none", n |-> 0, block |-> 0, cmds |-> 0]

Next ==
    \/ \E n \in Counts, a \in Addrs, limit \in Limits, features \in {0, 1} :
          WriteRegs(n, a, limit, features)
    \/ \E d \in {"disk", "cd", "none"} : SelectDrive(d)
    \/ \E nien, reset \in BOOLEAN : WriteControl(nien, reset)
    \/ ReadStatus
    \/ MissingDrive
    \/ \E forCd \in BOOLEAN : Identify(forCd)
    \/ \E kind \in {"seek", "flush", "calibrate"} : NoDataCommand(kind)
    \/ DeviceReset
    \/ \E verify \in BOOLEAN : ReadSectors(verify)
    \/ WriteSectors
    \/ \E kind \in {"dma_read", "dma_write"} : DmaCommand(kind)
    \/ PacketCommand
    \/ \E w \in Data : WriteData(w)
    \/ \E p \in Packets : WritePacket(p)
    \/ ReadResponse
    \/ ReadData
    \/ StartBusMaster
    \/ StopBusMaster

Spec == Init /\ [][Next]_ideVars

-----------------------------------------------------------------------------
(* Properties.                                                             *)

\* The disk's own jobs; identification and packets do not touch its sectors.
Disk == INSTANCE BlockDevice WITH
            store <- disk,
            job <- IF job.kind \in {"read", "write", "dma_read", "dma_write"} THEN job ELSE NoJob

\* The channel implements the abstract disk: whatever way a driver transfers sectors
\* (execute_command, the data port, try_handle_pending_dma), sectors that are written
\* hold the words written, in order, no other sector changes, and what is read is
\* what is stored.
ImplementsBlockDevice == Disk!Spec

\* The handshake of a transfer (Channel::read, Channel::write, try_handle_pending_dma).
\* Interrupts tell the driver when to move the next block: one per sector, before it
\* on reads and after it on writes, one per block of a packet response and one at its
\* end, one per DMA transfer.  The data request bit is set while words remain.
HandshakeExact ==
    LET i == irqs
        k == i.moved
    IN /\ job.kind \in {"read", "write", "identify", "packet", "response"} => ch.drq
       /\ i.kind # "none" /\ job = NoJob => ~ch.drq
       /\ CASE i.kind = "read"  -> i.raised = Min({i.n, 1 + k \div W})
            [] i.kind = "write" -> i.raised = k \div W
            [] i.kind = "dma"   -> i.raised = IF job = NoJob THEN 1 ELSE 0
            [] i.kind = "response" ->
                 i.raised = IF k < i.n THEN 1 + k \div i.block ELSE 1 + (i.n + i.block - 1) \div i.block
            [] OTHER -> TRUE
=============================================================================

------------------------------ MODULE IdeProofs ------------------------------
(***************************************************************************)
(* Proofs about a channel of the IDE controller (Ide): with LBA addresses, *)
(* any disk, any words and any commands, it implements the abstract disk   *)
(* of BlockDevice, and its interrupts and its data request bit match the   *)
(* words that were moved.                                                  *)
(*                                                                         *)
(* CHS addresses are left out because next_sector does not number them     *)
(* consecutively (hw/ide/mod.rs:1737).                                     *)
(***************************************************************************)
EXTENDS Ide, SequenceTheorems, FiniteSetTheorems, NaturalSets, TLAPS

LbaOnly == "chs" \notin Modes

-----------------------------------------------------------------------------
(* The inductive invariant.                                                *)

DiskJobs == {"read", "write", "dma_read", "dma_write"}
DmaJobs  == {"dma_read", "dma_write"}
JobKinds == DiskJobs \cup {"none", "identify", "packet", "response", "response_dma"}
Jobs     == [kind : JobKinds, at : Nat, left : Nat, words : Seq(Words)]
Dmas     == [kind : DmaJobs \cup {"none", "response"}, at : Nat, len : Nat, words : Seq(Words)]
LbaAddr  == [mode : {"lba"}, lba : Nat]
Channel  ==
    [err : BOOLEAN, drq : BOOLEAN, rdy : BOOLEAN, busy : BOOLEAN, drive : {"disk", "cd", "none"},
     count : Nat \ {0}, addr : LbaAddr, limit : Nat \ {0}, features : {0, 1}, buf : Seq(Words),
     left : Int, packet : BOOLEAN, response : BOOLEAN, index : Nat, block : Nat, viaDma : BOOLEAN,
     dma : Dmas, start : BOOLEAN, nien : BOOLEAN]
Sector   == [1 .. W -> Words]
History  == [raised : Nat, moved : Nat, kind : {"none", "read", "write", "dma", "response"},
             n : Nat, block : Nat, cmds : Nat]

Types ==
    /\ ch \in Channel /\ disk \in [Lbas -> Sector] /\ ram \in Seq(Words)
    /\ job \in Jobs /\ irqs \in History

\* A transfer stays inside the disk and inside a sector.
JobOK ==
    /\ job.kind = "none" <=> job = NoJob
    /\ job.kind \in DiskJobs => job.left >= 1 /\ job.at + job.left <= Size
    /\ job.kind \in {"read", "write", "identify"} => Len(job.words) < W

\* The k-th word from sector a.
WordAt(a, k) == disk[a + (k - 1) \div W][((k - 1) % W) + 1]

\* The buffer holds what is still to be read, or what has been written of a sector.
ReadOK ==
    job.kind = "read" =>
        /\ Len(ch.buf) = job.left * W - Len(job.words)
        /\ \A i \in 1 .. Len(ch.buf) : ch.buf[i] = WordAt(job.at, Len(job.words) + i)
WriteOK    == job.kind = "write" => ch.buf = job.words /\ ch.left = job.left /\ ch.addr.lba = job.at
IdentifyOK == job.kind = "identify" => job.left = 1 /\ Len(ch.buf) = W - Len(job.words)
ResponseOK == job.kind = "response" => Len(ch.buf) = job.left /\ job.left >= 1
EmptyOK    == job.kind \notin {"read", "write", "identify", "response"} => ch.buf = << >>

\* The bus master's pending command is the driver's.
DmaOK ==
    /\ job.kind \in DmaJobs => ch.dma.kind = job.kind /\ ch.dma.at = job.at /\ ch.dma.len = job.left
    /\ job.kind = "response_dma" => ch.dma.kind = "response"
    /\ job.kind \notin DmaJobs \cup {"response_dma"} => ch.dma.kind = "none"
    /\ job.kind = "dma_write" => Len(ram) = job.left * W

Transfer == JobOK /\ ReadOK /\ WriteOK /\ IdentifyOK /\ ResponseOK /\ EmptyOK /\ DmaOK

IInv == Types /\ Transfer

-----------------------------------------------------------------------------
(* Numbers and sequences.                                                  *)

\* The constants are positive.
LEMMA Positive ==
    ASSUME IdeAssumption
    PROVE  /\ W \in Nat \ {0} /\ Size \in Nat \ {0} /\ Lbas = 0 .. Size - 1
           /\ Counts \subseteq Nat \ {0} /\ Limits \subseteq Nat \ {0}
           /\ \A p \in Packets : p.len \in Nat \ {0}
           /\ Data \subseteq Words /\ {"zero", "id", "cd", "ff"} \subseteq Words
<1>1. {W, Size, Heads, Spt} \subseteq Nat \ {0} /\ Counts \cup Limits \subseteq Nat \ {0}  BY DEF IdeAssumption
<1>2. W \in Nat \ {0} /\ Size \in Nat \ {0}  BY <1>1
<1>3. Counts \subseteq Nat \ {0} /\ Limits \subseteq Nat \ {0}  BY <1>1
<1>4. \A p \in Packets : p.len \in Nat \ {0}  BY DEF IdeAssumption
<1> QED  BY <1>2, <1>3, <1>4 DEF Lbas, Words

\* A function on the first n numbers is a sequence of length n.
LEMMA FunctionIsSeq ==
    ASSUME NEW S, NEW n \in Nat, NEW s \in [1 .. n -> S]
    PROVE  s \in Seq(S) /\ Len(s) = n
<1>1. s \in Seq(S)  BY SeqDef
<1>2. Len(s) \in Nat /\ DOMAIN s = 1 .. Len(s)  BY <1>1, LenProperties
<1> QED  BY <1>1, <1>2

\* Quotient and remainder.
LEMMA Division ==
    ASSUME NEW w \in Nat \ {0}, NEW k \in Nat
    PROVE  k \div w \in Nat /\ k % w \in 0 .. w - 1 /\ k = w * (k \div w) + (k % w)
<1> DEFINE q == k \div w
           r == k % w
<1>1. q \in Nat /\ r \in 0 .. w - 1  OBVIOUS
<1>2. k - w * q = r  BY Z3
<1> HIDE DEF q, r
<1>3. k = w * q + r  BY <1>1, <1>2
<1> QED  BY <1>1, <1>3 DEF q, r

\* Words counted from the start of a sector, and from the start of the next one.
LEMMA WordPlaces ==
    ASSUME IdeAssumption
    PROVE  /\ \A k \in Nat : k < W => k \div W = 0 /\ k % W = k
           /\ \A k \in Nat : (W + k) \div W = 1 + k \div W /\ (W + k) % W = k % W
           /\ \A k \in Nat : k \div W \in Nat /\ k % W \in 0 .. W - 1
<1>1. \A w \in Nat \ {0}, q, r \in Nat : r < w => (w * q + r) \div w = q /\ (w * q + r) % w = r  OBVIOUS
<1>2. ASSUME NEW k \in Nat PROVE k \div W \in Nat /\ k % W \in 0 .. W - 1 /\ k = W * (k \div W) + (k % W)
  BY Division, Positive
<1>3. ASSUME NEW k \in Nat, k < W PROVE k \div W = 0 /\ k % W = k
  <2>1. W * 0 + k = k  BY Positive
  <2> QED  BY <1>1, <1>3, <2>1, Positive
<1>4. ASSUME NEW k \in Nat PROVE (W + k) \div W = 1 + k \div W /\ (W + k) % W = k % W
  <2> DEFINE q == k \div W
             r == k % W
  <2>1. q \in Nat /\ r \in 0 .. W - 1 /\ k = W * q + r  BY <1>2, Positive
  <2> HIDE DEF q, r
  <2>2. W * (1 + q) = W + W * q  BY <2>1, Positive
  <2>3. W + k = W * (1 + q) + r  BY <2>1, <2>2, Positive
  <2> DEFINE z == 1 + q
  <2>4. z \in Nat /\ r \in Nat /\ r < W  BY <2>1, Positive
  <2>5. W + k = W * z + r  BY <2>3
  <2> HIDE DEF z
  <2>6. (W * z + r) \div W = z /\ (W * z + r) % W = r  BY <1>1, <2>4, Positive
  <2> QED  BY <2>5, <2>6 DEF q, r, z
<1> QED  BY <1>2, <1>3, <1>4, Positive

\* A range of words stays inside the sectors it is counted in.
LEMMA InRange ==
    ASSUME IdeAssumption, NEW n \in Nat, NEW i \in 1 .. n * W
    PROVE  (i - 1) \div W \in 0 .. n - 1 /\ ((i - 1) % W) + 1 \in 1 .. W
<1> DEFINE k == i - 1
           q == k \div W
           r == k % W
<1>1. n * W \in Nat  BY Positive
<1>2. k \in Nat /\ k < n * W  BY <1>1
<1>4. q \in Nat /\ r \in 0 .. W - 1 /\ k = W * q + r  BY <1>2, Division, Positive
<1> HIDE DEF q, r, k
<1>5. q < n
  <2>1. SUFFICES ASSUME q >= n PROVE FALSE  BY <1>4
  <2>2. \A x, y, z \in Nat : x >= y => z * x >= y * z  OBVIOUS
  <2>3. W * q >= n * W  BY <1>4, <2>1, <2>2, Positive
  <2>4. W * q \in Nat  BY <1>4, Positive
  <2> QED  BY <1>1, <1>2, <1>4, <2>3, <2>4, Positive
<1>6. q \in 0 .. n - 1 /\ r + 1 \in 1 .. W  BY <1>4, <1>5, Positive
<1> QED  BY <1>6 DEF q, r, k

\* read_slice of sectors that exist.
LEMMA SliceWords ==
    ASSUME IdeAssumption, Types, NEW a \in Nat, NEW n \in Nat, a + n <= Size
    PROVE  /\ Slice(a, n) \in Seq(Words) /\ Len(Slice(a, n)) = n * W
           /\ \A i \in 1 .. n * W : Slice(a, n)[i] = WordAt(a, i)
<1>1. n * W \in Nat  BY Positive
<1>2. ASSUME NEW i \in 1 .. n * W PROVE WordAt(a, i) \in Words
  <2>1. (i - 1) \div W \in 0 .. n - 1 /\ ((i - 1) % W) + 1 \in 1 .. W  BY InRange
  <2>2. a + (i - 1) \div W \in Lbas
    <3>1. \A x \in 0 .. n - 1 : a + x \in Lbas  BY Positive
    <3> DEFINE x == (i - 1) \div W
    <3>2. x \in 0 .. n - 1  BY <2>1
    <3> HIDE DEF x
    <3>3. a + x \in Lbas  BY <3>1, <3>2
    <3> QED  BY <3>3 DEF x
  <2> QED  BY <2>1, <2>2 DEF WordAt, Types, Sector
<1>3. Slice(a, n) = [i \in 1 .. n * W |-> WordAt(a, i)]  BY DEF Slice, WordAt
<1>4. Slice(a, n) \in [1 .. n * W -> Words]  BY <1>2, <1>3
<1>5. Slice(a, n) \in Seq(Words) /\ Len(Slice(a, n)) = n * W  BY <1>1, <1>4, FunctionIsSeq
<1> QED  BY <1>3, <1>5

-----------------------------------------------------------------------------
(* The fields of a channel.                                                *)

\* What the fields hold.
LEMMA Fields ==
    ASSUME NEW c \in Channel
    PROVE  /\ c.err \in BOOLEAN /\ c.drq \in BOOLEAN /\ c.rdy \in BOOLEAN /\ c.busy \in BOOLEAN
           /\ c.drive \in {"disk", "cd", "none"} /\ c.count \in Nat \ {0} /\ c.addr \in LbaAddr /\ c.limit \in Nat \ {0}
           /\ c.features \in {0, 1} /\ c.buf \in Seq(Words) /\ c.left \in Int /\ c.packet \in BOOLEAN
           /\ c.response \in BOOLEAN /\ c.index \in Nat /\ c.block \in Nat /\ c.viaDma \in BOOLEAN /\ c.dma \in Dmas
           /\ c.start \in BOOLEAN /\ c.nien \in BOOLEAN
BY DEF Channel

\* With LBA addresses the place of a sector is its number.
LEMMA LbaPlaces ==
    ASSUME NEW a \in LbaAddr
    PROVE  Offset(a) = a.lba /\ a.lba \in Nat /\ NextSector(a) \in LbaAddr /\ NextSector(a).lba = a.lba + 1
BY DEF LbaAddr, Offset, NextSector

\* The addresses a driver writes.
LEMMA LbaAddrs ==
    ASSUME IdeAssumption, LbaOnly, NEW a \in Addrs
    PROVE  a \in LbaAddr
<1>1. {"chs"} \cap Modes = {}  BY DEF LbaOnly
<1>2. a \in [mode : {"lba"} \cap Modes, lba : Lbas]  BY <1>1 DEF Addrs
<1> QED  BY <1>2, Positive DEF LbaAddr

\* A step that leaves the transfer as it is.
LEMMA TransferKept ==
    ASSUME IInv, ch' \in Channel, ch'.buf = ch.buf, ch'.dma = ch.dma,
           job.kind = "write" => ch'.left = ch.left /\ ch'.addr = ch.addr,
           irqs' \in History, UNCHANGED <<disk, ram, job>>
    PROVE  IInv'
<1>1. Types'  BY DEF IInv, Types
<1>2. JobOK' /\ WriteOK' /\ IdentifyOK' /\ ResponseOK' /\ EmptyOK' /\ DmaOK'
  BY DEF IInv, Transfer, JobOK, WriteOK, IdentifyOK, ResponseOK, EmptyOK, DmaOK
<1>3. ReadOK'  BY DEF IInv, Transfer, ReadOK, WordAt
<1> QED  BY <1>1, <1>2, <1>3 DEF IInv, Transfer

\* The counters of interrupts.
LEMMA HistoryKept ==
    ASSUME irqs \in History
    PROVE  /\ \A k \in Nat, n \in Nat : Raised(ch, k, n) => irqs' \in History
           /\ \A k \in Nat, kind \in {"none", "read", "write", "dma", "response"}, n \in Nat, b \in Nat :
                 Begins(ch, k, kind, n, b) => irqs' \in History
           /\ \A k \in Nat : Fresh(ch, k) => irqs' \in History
<1>1. \A k \in Nat : Pulses(ch, k) \in Nat  BY DEF Pulses
<1>2. ASSUME NEW k \in Nat, NEW n \in Nat, Raised(ch, k, n) PROVE irqs' \in History
  <2>1. irqs.raised + Pulses(ch, k) \in Nat /\ irqs.moved + n \in Nat  BY <1>1 DEF History
  <2> QED  BY <1>2, <2>1 DEF Raised, History
<1>3. ASSUME NEW k \in Nat, NEW kind \in {"none", "read", "write", "dma", "response"}, NEW n \in Nat, NEW b \in Nat,
             Begins(ch, k, kind, n, b)
      PROVE  irqs' \in History
  BY <1>1, <1>3 DEF Begins, History
<1> QED  BY <1>2, <1>3 DEF Fresh

-----------------------------------------------------------------------------
(* The abstract disk.                                                      *)

DiskJob == IF job.kind \in DiskJobs THEN job ELSE NoJob
DiskStep == [Disk!Next]_(Disk!bdVars)

\* Nothing that the abstract disk knows changes.
LEMMA DiskStutters ==
    ASSUME UNCHANGED <<disk, job, out, ram>>
    PROVE  DiskStep
BY DEF DiskStep, Disk!bdVars

\* Nothing happens to the disk between its jobs.
LEMMA DiskIdles ==
    ASSUME DiskJob = NoJob, DiskJob' = NoJob, disk' = disk
    PROVE  DiskStep
<1>1. Disk!Idle  BY DEF Disk!Idle, Disk!NoJob, NoJob, DiskJob, DiskJobs
<1> QED  BY <1>1 DEF DiskStep, Disk!Next

-----------------------------------------------------------------------------
(* Registers and commands without data.                                    *)

\* Between two commands nothing is transferred.
LEMMA BetweenCommands ==
    ASSUME IInv, Between
    PROVE  /\ job = NoJob /\ job.kind = "none" /\ DiskJob = NoJob
           /\ ch.buf = << >> /\ ch.dma.kind = "none" /\ ch \in Channel /\ irqs \in History
BY DEF IInv, Types, Transfer, EmptyOK, DmaOK, Between, NoJob, DiskJob, DiskJobs, DmaJobs

\* A step between two commands that begins no transfer.
LEMMA QuietStep ==
    ASSUME IInv, Between, ch' \in Channel, ch'.buf = ch.buf, ch'.dma = ch.dma, irqs' \in History,
           UNCHANGED <<disk, ram, job, out>>
    PROVE  IInv' /\ DiskStep
<1>1. job.kind # "write"  BY BetweenCommands
<1> QED  BY <1>1, TransferKept, DiskStutters

\* The registers of a command are written.
LEMMA WriteRegsStep ==
    ASSUME IdeAssumption, LbaOnly, IInv,
           NEW n \in Counts, NEW a \in Addrs, NEW limit \in Limits, NEW features \in {0, 1},
           WriteRegs(n, a, limit, features)
    PROVE  IInv' /\ DiskStep
<1>1. Between /\ UNCHANGED <<disk, ram, job, out, irqs>>  BY DEF WriteRegs
<1>2. ch \in Channel /\ irqs \in History  BY DEF IInv, Types
<1>3. n \in Nat \ {0} /\ limit \in Nat \ {0} /\ a \in LbaAddr  BY Positive, LbaAddrs
<1>4. ch' = [ch EXCEPT !.count = n, !.addr = a, !.limit = limit, !.features = features]  BY DEF WriteRegs
<1>5. ch' \in Channel /\ ch'.buf = ch.buf /\ ch'.dma = ch.dma  BY <1>2, <1>3, <1>4 DEF Channel
<1> QED  BY <1>1, <1>2, <1>5, QuietStep

\* A drive is selected.
LEMMA SelectDriveStep ==
    ASSUME IInv, NEW d \in {"disk", "cd", "none"}, SelectDrive(d)
    PROVE  IInv' /\ DiskStep
<1>1. Between /\ UNCHANGED <<disk, ram, job, out, irqs>>  BY DEF SelectDrive
<1>2. ch \in Channel /\ irqs \in History  BY DEF IInv, Types
<1>3. ch' = [ch EXCEPT !.drive = d, !.rdy = (d # "none"), !.busy = FALSE, !.drq = FALSE]  BY DEF SelectDrive
<1>4. ch' \in Channel /\ ch'.buf = ch.buf /\ ch'.dma = ch.dma  BY <1>2, <1>3 DEF Channel
<1> QED  BY <1>1, <1>2, <1>4, QuietStep

\* Interrupts are enabled or disabled and the channel is reset.
LEMMA WriteControlStep ==
    ASSUME IInv, NEW nien \in BOOLEAN, NEW reset \in BOOLEAN, WriteControl(nien, reset)
    PROVE  IInv' /\ DiskStep
<1>1. Between /\ UNCHANGED <<disk, ram, job, out, irqs>>  BY DEF WriteControl
<1>2. ch \in Channel /\ irqs \in History  BY DEF IInv, Types
<1> DEFINE rdy == ~reset /\ ch.drive # "none"
           busy == reset /\ ch.drive # "none"
           count == IF reset THEN 1 ELSE ch.count
<1>3. ch' = [ch EXCEPT !.nien = nien, !.rdy = rdy, !.busy = busy, !.count = count]  BY DEF WriteControl
<1>4. rdy \in BOOLEAN /\ busy \in BOOLEAN  OBVIOUS
<1>5. count \in Nat \ {0}  BY <1>2, Fields
<1> HIDE DEF rdy, busy, count
<1> DEFINE c1 == [ch EXCEPT !.nien = nien]
           c2 == [c1 EXCEPT !.rdy = rdy]
           c3 == [c2 EXCEPT !.busy = busy]
<1>6. c1 \in Channel /\ c1.buf = ch.buf /\ c1.dma = ch.dma  BY <1>2 DEF Channel
<1> HIDE DEF c1
<1>7. c2 \in Channel /\ c2.buf = ch.buf /\ c2.dma = ch.dma  BY <1>4, <1>6 DEF Channel
<1> HIDE DEF c2
<1>8. c3 \in Channel /\ c3.buf = ch.buf /\ c3.dma = ch.dma  BY <1>4, <1>7 DEF Channel
<1>9. ch' = [c3 EXCEPT !.count = count]  BY <1>2, <1>3 DEF Channel, c1, c2
<1> HIDE DEF c3
<1>10. ch' \in Channel /\ ch'.buf = ch.buf /\ ch'.dma = ch.dma  BY <1>5, <1>8, <1>9 DEF Channel
<1> QED  BY <1>1, <1>2, <1>10, QuietStep

\* The status register is read, during a transfer too.
LEMMA ReadStatusStep ==
    ASSUME IInv, ReadStatus
    PROVE  IInv' /\ DiskStep
<1>1. UNCHANGED <<disk, ram, job, out, irqs>> /\ ch' = [ch EXCEPT !.err = FALSE]  BY DEF ReadStatus
<1>2. ch \in Channel /\ irqs \in History  BY DEF IInv, Types
<1>3. /\ ch' \in Channel /\ ch'.buf = ch.buf /\ ch'.dma = ch.dma /\ ch'.left = ch.left /\ ch'.addr = ch.addr
  BY <1>1, <1>2 DEF Channel
<1> QED  BY <1>1, <1>2, <1>3, TransferKept, DiskStutters

\* A command on a missing drive.
LEMMA MissingDriveStep ==
    ASSUME IInv, MissingDrive
    PROVE  IInv' /\ DiskStep
<1>1. Between /\ UNCHANGED <<disk, ram, job, out, irqs>> /\ ch' = [ch EXCEPT !.err = TRUE]  BY DEF MissingDrive
<1>2. ch \in Channel /\ irqs \in History  BY DEF IInv, Types
<1>3. ch' \in Channel /\ ch'.buf = ch.buf /\ ch'.dma = ch.dma  BY <1>1, <1>2 DEF Channel
<1> QED  BY <1>1, <1>2, <1>3, QuietStep

\* What every command does first.
LEMMA StartedFields ==
    ASSUME ch \in Channel
    PROVE  /\ Started \in Channel /\ Started.buf = ch.buf /\ Started.dma = ch.dma /\ Started.drq = ch.drq
           /\ Started.rdy = ch.rdy /\ Started.nien = ch.nien /\ Started.addr = ch.addr /\ Started.start = ch.start
BY DEF Started, Channel

\* A command that answers at once.
LEMMA NoDataCommandStep ==
    ASSUME IInv, NEW kind \in {"seek", "flush", "calibrate"}, NoDataCommand(kind)
    PROVE  IInv' /\ DiskStep
<1>1. Between /\ UNCHANGED <<disk, ram, job, out>> /\ Fresh(ch, 1)  BY DEF NoDataCommand, Command
<1>2. ch \in Channel /\ irqs \in History  BY DEF IInv, Types
<1> DEFINE s == Started
           rdy == s.rdy \/ kind # "seek"
           drq == s.drq /\ kind # "calibrate"
<1>3. ch' = [s EXCEPT !.rdy = rdy, !.drq = drq, !.err = FALSE]  BY <1>2, StartedFields DEF NoDataCommand, Done, Channel
<1>4. s \in Channel /\ s.buf = ch.buf /\ s.dma = ch.dma  BY <1>2, StartedFields
<1>5. rdy \in BOOLEAN /\ drq \in BOOLEAN  BY <1>4, Fields
<1> HIDE DEF s, rdy, drq
<1>6. ch' \in Channel /\ ch'.buf = s.buf /\ ch'.dma = s.dma  BY <1>3, <1>4, <1>5 DEF Channel
<1>7. irqs' \in History  BY <1>1, <1>2, HistoryKept
<1> QED  BY <1>1, <1>4, <1>6, <1>7, QuietStep

\* The drive is reset.
LEMMA DeviceResetStep ==
    ASSUME IInv, DeviceReset
    PROVE  IInv' /\ DiskStep
<1>1. Between /\ UNCHANGED <<disk, ram, job, out>> /\ Fresh(ch, 0)  BY DEF DeviceReset, Command
<1>2. ch \in Channel /\ irqs \in History /\ ch.buf = << >>  BY <1>1, BetweenCommands
<1> DEFINE s == Started
<1>3. s \in Channel /\ s.buf = ch.buf /\ s.dma = ch.dma  BY <1>2, StartedFields
<1>4. \/ ch' = [s EXCEPT !.buf = << >>, !.rdy = FALSE, !.drq = FALSE, !.busy = FALSE]
      \/ ch' = [s EXCEPT !.err = TRUE]
  BY DEF DeviceReset
<1> HIDE DEF s
<1>5. << >> \in Seq(Words)  BY EmptySeq
<1>6. ch' \in Channel /\ ch'.buf = ch.buf /\ ch'.dma = s.dma
  <2>1. CASE ch' = [s EXCEPT !.err = TRUE]  BY <1>3, <2>1 DEF Channel
  <2>2. CASE ch' = [s EXCEPT !.buf = << >>, !.rdy = FALSE, !.drq = FALSE, !.busy = FALSE]
    BY <1>2, <1>3, <1>5, <2>2 DEF Channel
  <2> QED  BY <1>4, <2>1, <2>2
<1>7. irqs' \in History  BY <1>1, <1>2, HistoryKept
<1> QED  BY <1>1, <1>3, <1>6, <1>7, QuietStep

-----------------------------------------------------------------------------
(* Commands that begin a transfer.                                         *)

\* What a new job is.
LEMMA NewJob ==
    ASSUME NEW kind \in JobKinds, NEW a \in Nat, NEW n \in Nat
    PROVE  LET j == Job(kind, a, n)
           IN  j \in Jobs /\ j.kind = kind /\ j.at = a /\ j.left = n /\ j.words = << >> /\ Len(j.words) = 0
<1>1. << >> \in Seq(Words) /\ Len(<< >>) = 0  BY EmptySeq
<1> QED  BY <1>1 DEF Job, Jobs

\* The command's sectors, where they are known to exist.
LEMMA CommandPlaces ==
    ASSUME IInv
    PROVE  First \in Nat /\ ch.count \in Nat \ {0} /\ First = ch.addr.lba /\ (Inside <=> First + ch.count <= Size)
<1>1. ch.addr \in LbaAddr /\ ch.count \in Nat \ {0}  BY Fields DEF IInv, Types
<1> QED  BY <1>1, LbaPlaces DEF First, Inside

\* The abstract disk begins the same job.
LEMMA DiskBegins ==
    ASSUME IdeAssumption, DiskJob = NoJob, NEW kind \in DiskJobs, NEW a \in Nat, NEW n \in Nat \ {0}, a + n <= Size,
           job' = Job(kind, a, n), disk' = disk, out' = out, kind # "dma_write" => ram' = ram
    PROVE  DiskStep
<1> DEFINE last == a + n - 1
<1>1. a \in Lbas /\ last \in Lbas /\ a <= last /\ a .. last \subseteq Lbas /\ last - a + 1 = n  BY Positive
<1>2. kind \in {"read", "write", "dma_read", "dma_write"}  BY DEF DiskJobs
<1>3. job'.kind = kind  BY DEF Job
<1>4. DiskJob' = job'  BY <1>3 DEF DiskJob
<1>5. Disk!Begin(kind, a, last)
  BY <1>1, <1>4 DEF Disk!Begin, Disk!NoJob, NoJob, DiskJob, DiskJobs, Job
<1> HIDE DEF last
<1>6. Disk!Next  BY <1>1, <1>2, <1>5 DEF Disk!Next
<1> QED  BY <1>6 DEF DiskStep

\* Identification is queued, or refused by the other kind of drive.
LEMMA IdentifyStep ==
    ASSUME IdeAssumption, IInv, NEW forCd \in BOOLEAN, Identify(forCd)
    PROVE  IInv' /\ DiskStep
<1>1. Between /\ UNCHANGED <<disk, ram, out>>  BY DEF Identify, Command
<1>2. ch \in Channel /\ irqs \in History /\ ch.dma.kind = "none" /\ DiskJob = NoJob  BY <1>1, BetweenCommands
<1>3. Fresh(ch, 0) \/ Fresh(ch, 1)  BY DEF Identify
<1>4. irqs' \in History  BY <1>2, <1>3, HistoryKept
<1> DEFINE s == Started
           words == [i \in 1 .. W |-> "id"]
<1>5. s \in Channel /\ s.buf = ch.buf /\ s.dma = ch.dma  BY <1>2, StartedFields
<1>6. \/ ch' = [s EXCEPT !.buf = words, !.drq = TRUE, !.err = FALSE] /\ job' = Job("identify", 0, 1)
      \/ ch' = [s EXCEPT !.packet = FALSE, !.busy = FALSE, !.rdy = TRUE, !.err = TRUE, !.drq = FALSE] /\ job' = job
      \/ ch' = [s EXCEPT !.err = TRUE] /\ job' = job
  BY DEF Identify, Queued, Aborted
<1>7. words \in Seq(Words) /\ Len(words) = W
  <2>1. words \in [1 .. W -> Words] /\ W \in Nat  BY Positive
  <2> QED  BY <2>1, FunctionIsSeq
<1> HIDE DEF s, words
<1>8. CASE job' = job
  <2>1. ch' \in Channel /\ ch'.buf = s.buf /\ ch'.dma = s.dma
    <3>1. CASE ch' = [s EXCEPT !.packet = FALSE, !.busy = FALSE, !.rdy = TRUE, !.err = TRUE, !.drq = FALSE]
      BY <1>5, <3>1 DEF Channel
    <3>2. CASE ch' = [s EXCEPT !.err = TRUE]  BY <1>5, <3>2 DEF Channel
    <3>3. job' # Job("identify", 0, 1)  BY <1>1, <1>8, BetweenCommands DEF Job
    <3> QED  BY <1>6, <3>1, <3>2, <3>3
  <2> QED  BY <1>1, <1>4, <1>5, <1>8, <2>1, QuietStep
<1>9. CASE ch' = [s EXCEPT !.buf = words, !.drq = TRUE, !.err = FALSE] /\ job' = Job("identify", 0, 1)
  <2>1. ch' \in Channel /\ ch'.buf = words /\ ch'.dma = ch.dma  BY <1>5, <1>7, <1>9 DEF Channel
  <2>2. job' \in Jobs /\ job'.kind = "identify" /\ job'.left = 1 /\ Len(job'.words) = 0
    <3>1. "identify" \in JobKinds /\ 0 \in Nat /\ 1 \in Nat  BY DEF JobKinds
    <3>2. job' = Job("identify", 0, 1)  BY <1>9
    <3> QED  BY <3>1, <3>2, NewJob
  <2>3. Types'  BY <1>1, <1>4, <2>1, <2>2 DEF IInv, Types
  <2>4. job' # NoJob /\ W \in Nat \ {0}  BY <2>2, Positive DEF NoJob
  <2>5. Transfer'
    BY <1>2, <1>7, <2>1, <2>2, <2>4
       DEF Transfer, JobOK, ReadOK, WriteOK, IdentifyOK, ResponseOK, EmptyOK, DmaOK, DiskJobs, DmaJobs
  <2>6. DiskJob' = NoJob  BY <2>2 DEF DiskJob, DiskJobs, NoJob
  <2> QED  BY <1>1, <1>2, <2>3, <2>5, <2>6, DiskIdles DEF IInv
<1> QED  BY <1>6, <1>8, <1>9

\* The sectors of a read are queued; a verify reads nothing.
LEMMA ReadSectorsStep ==
    ASSUME IdeAssumption, IInv, NEW verify \in BOOLEAN, ReadSectors(verify)
    PROVE  IInv' /\ DiskStep
<1>1. Between /\ UNCHANGED <<disk, ram, out>>  BY DEF ReadSectors, Command
<1>2. ch \in Channel /\ irqs \in History /\ ch.dma.kind = "none" /\ DiskJob = NoJob /\ job.kind = "none"
  BY <1>1, BetweenCommands
<1>3. First \in Nat /\ ch.count \in Nat \ {0} /\ (Inside => First + ch.count <= Size)  BY CommandPlaces
<1>4. irqs' \in History
  <2>1. Begins(ch, 1, "read", ch.count, W) \/ Fresh(ch, 1)  BY DEF ReadSectors
  <2> QED  BY <1>2, <1>3, <2>1, HistoryKept, Positive
<1> DEFINE s == Started
           words == Slice(First, ch.count)
<1>5. s \in Channel /\ s.buf = ch.buf /\ s.dma = ch.dma  BY <1>2, StartedFields
<1>6. \/ ch' = [s EXCEPT !.packet = FALSE, !.busy = FALSE, !.rdy = TRUE, !.err = TRUE, !.drq = FALSE] /\ job' = job
      \/ ch' = [s EXCEPT !.err = TRUE] /\ job' = job
      \/ ch' = [s EXCEPT !.err = FALSE] /\ job' = job
      \/ /\ ch' = [s EXCEPT !.buf = words, !.drq = TRUE, !.err = FALSE]
         /\ job' = Job("read", First, ch.count) /\ Inside
  BY DEF ReadSectors, Queued, Aborted, Done
<1> HIDE DEF s
<1>7. CASE job' = job
  <2>1. ch' \in Channel /\ ch'.buf = s.buf /\ ch'.dma = s.dma
    <3>1. CASE ch' = [s EXCEPT !.packet = FALSE, !.busy = FALSE, !.rdy = TRUE, !.err = TRUE, !.drq = FALSE]
      BY <1>5, <3>1 DEF Channel
    <3>2. CASE ch' = [s EXCEPT !.err = TRUE]  BY <1>5, <3>2 DEF Channel
    <3>3. CASE ch' = [s EXCEPT !.err = FALSE]  BY <1>5, <3>3 DEF Channel
    <3>4. job' # Job("read", First, ch.count)  BY <1>2, <1>7 DEF Job
    <3> QED  BY <1>6, <3>1, <3>2, <3>3, <3>4
  <2> QED  BY <1>1, <1>4, <1>5, <1>7, <2>1, QuietStep
<1>8. CASE /\ ch' = [s EXCEPT !.buf = words, !.drq = TRUE, !.err = FALSE]
           /\ job' = Job("read", First, ch.count) /\ Inside
  <2>1. words \in Seq(Words) /\ Len(words) = ch.count * W /\ \A i \in 1 .. ch.count * W : words[i] = WordAt(First, i)
    BY <1>3, <1>8, SliceWords DEF IInv
  <2> HIDE DEF words
  <2>2. ch' \in Channel /\ ch'.buf = words /\ ch'.dma = ch.dma  BY <1>5, <1>8, <2>1 DEF Channel
  <2>3. /\ job' \in Jobs /\ job'.kind = "read" /\ job'.at = First /\ job'.left = ch.count
        /\ job'.words = << >> /\ Len(job'.words) = 0
    BY <1>3, <1>8, NewJob DEF JobKinds, DiskJobs
  <2>4. Types'  BY <1>1, <1>4, <2>2, <2>3 DEF IInv, Types
  <2>5. job' # NoJob /\ W \in Nat \ {0} /\ job'.left >= 1 /\ job'.at + job'.left <= Size
    BY <1>3, <1>8, <2>3, Positive DEF NoJob
  <2>6. JobOK' /\ WriteOK' /\ IdentifyOK' /\ ResponseOK' /\ EmptyOK' /\ DmaOK'
    BY <1>2, <2>2, <2>3, <2>5 DEF JobOK, WriteOK, IdentifyOK, ResponseOK, EmptyOK, DmaOK, DmaJobs
  <2>7. ReadOK'
    <3>1. ch.count * W \in Nat  BY <1>3, <2>5
    <3>2. Len(ch'.buf) = job'.left * W - Len(job'.words)  BY <2>1, <2>2, <2>3, <3>1
    <3>3. ASSUME NEW i \in 1 .. Len(ch'.buf) PROVE ch'.buf[i] = WordAt(job.at, Len(job.words) + i)'
      <4>1. i \in 1 .. ch.count * W /\ Len(job'.words) + i = i  BY <2>1, <2>2, <2>3, <3>1
      <4>2. WordAt(First, i) = WordAt(job.at, Len(job.words) + i)'  BY <1>1, <2>3, <4>1 DEF WordAt
      <4> QED  BY <2>1, <2>2, <4>1, <4>2
    <3> QED  BY <3>2, <3>3 DEF ReadOK
  <2>8. DiskStep
    <3>1. "read" \in DiskJobs /\ First + ch.count <= Size  BY <1>3, <1>8 DEF DiskJobs
    <3> QED  BY <1>1, <1>2, <1>3, <1>8, <3>1, DiskBegins
  <2> QED  BY <2>4, <2>6, <2>7, <2>8 DEF IInv, Transfer
<1> QED  BY <1>6, <1>7, <1>8
\* A write expects its first word.
LEMMA WriteSectorsStep ==
    ASSUME IdeAssumption, IInv, WriteSectors
    PROVE  IInv' /\ DiskStep
<1>1. Between /\ Inside /\ UNCHANGED <<disk, ram, out>>  BY DEF WriteSectors, Command
<1>2. /\ ch \in Channel /\ irqs \in History /\ ch.dma.kind = "none" /\ DiskJob = NoJob
      /\ ch.buf = << >>
  BY <1>1, BetweenCommands
<1>3. First \in Nat /\ ch.count \in Nat \ {0} /\ First = ch.addr.lba /\ First + ch.count <= Size
  BY <1>1, CommandPlaces
<1>4. irqs' \in History
  <2>1. Begins(ch, 0, "write", ch.count, W)  BY DEF WriteSectors
  <2> QED  BY <1>2, <1>3, <2>1, HistoryKept, Positive
<1> DEFINE s == Started
<1>5. s \in Channel /\ s.buf = ch.buf /\ s.dma = ch.dma /\ s.addr = ch.addr  BY <1>2, StartedFields
<1>6. ch' = [s EXCEPT !.left = ch.count, !.drq = TRUE] /\ job' = Job("write", First, ch.count)
  BY DEF WriteSectors
<1> HIDE DEF s
<1>7. /\ ch' \in Channel /\ ch'.buf = << >> /\ ch'.dma = ch.dma /\ ch'.addr = ch.addr
      /\ ch'.left = ch.count
  <2> DEFINE n == ch.count
  <2>1. n \in Int  BY <1>3
  <2> HIDE DEF n
  <2>2. ch' = [s EXCEPT !.left = n, !.drq = TRUE]  BY <1>6 DEF n
  <2>3. ch' \in Channel /\ ch'.buf = s.buf /\ ch'.dma = s.dma /\ ch'.addr = s.addr /\ ch'.left = n
    BY <1>5, <2>1, <2>2 DEF Channel
  <2> QED  BY <1>2, <1>5, <2>3 DEF n
<1>8. /\ job' \in Jobs /\ job'.kind = "write" /\ job'.at = First /\ job'.left = ch.count
      /\ job'.words = << >> /\ Len(job'.words) = 0
  <2>1. "write" \in JobKinds  BY DEF JobKinds, DiskJobs
  <2> QED  BY <1>3, <1>6, <2>1, NewJob
<1>9. Types'  BY <1>1, <1>4, <1>7, <1>8 DEF IInv, Types
<1>10. job' # NoJob /\ W \in Nat \ {0} /\ job'.left >= 1 /\ job'.at + job'.left <= Size
  BY <1>3, <1>8, Positive DEF NoJob
<1>11. Transfer'
  BY <1>2, <1>3, <1>7, <1>8, <1>10
     DEF Transfer, JobOK, ReadOK, WriteOK, IdentifyOK, ResponseOK, EmptyOK, DmaOK, DiskJobs, DmaJobs
<1>12. "write" \in DiskJobs /\ "write" # "dma_write"  BY DEF DiskJobs
<1>13. DiskStep  BY <1>1, <1>2, <1>3, <1>6, <1>12, DiskBegins
<1> QED  BY <1>9, <1>11, <1>13 DEF IInv

\* A DMA command leaves a transfer for the bus master.
LEMMA DmaCommandStep ==
    ASSUME IdeAssumption, IInv, NEW kind \in {"dma_read", "dma_write"}, DmaCommand(kind)
    PROVE  IInv' /\ DiskStep
<1>1. Between /\ UNCHANGED <<disk, out>>  BY DEF DmaCommand, Command
<1>2. /\ ch \in Channel /\ irqs \in History /\ ch.dma.kind = "none" /\ DiskJob = NoJob
      /\ ch.buf = << >>
  BY <1>1, BetweenCommands
<1>3. First \in Nat /\ ch.count \in Nat \ {0} /\ (Inside => First + ch.count <= Size)
  BY CommandPlaces
<1>4. irqs' \in History
  <2>1. Begins(ch, 0, "dma", ch.count, W) \/ Fresh(ch, 0)  BY DEF DmaCommand
  <2> QED  BY <1>2, <1>3, <2>1, HistoryKept, Positive
<1> DEFINE s == Started
           d == [kind |-> kind, at |-> First, len |-> ch.count, words |-> << >>]
<1>5. s \in Channel /\ s.buf = ch.buf /\ s.dma = ch.dma  BY <1>2, StartedFields
<1>6. CASE ~Inside
  <2>1. ch' = [s EXCEPT !.err = TRUE] /\ UNCHANGED <<job, ram>>  BY <1>6 DEF DmaCommand
  <2> HIDE DEF s
  <2>2. ch' \in Channel /\ ch'.buf = s.buf /\ ch'.dma = s.dma  BY <1>5, <2>1 DEF Channel
  <2> QED  BY <1>1, <1>4, <1>5, <2>1, <2>2, QuietStep
<1>7. CASE Inside
  <2>1. ch' = [s EXCEPT !.dma = d] /\ job' = Job(kind, First, ch.count)  BY <1>7 DEF DmaCommand
  <2>2. ram' \in IF kind = "dma_write" THEN [1 .. ch.count * W -> Data] ELSE {ram}
    BY <1>7 DEF DmaCommand
  <2>3. kind # "dma_write" => ram' = ram  BY <2>2
  <2>4. ram' \in Seq(Words) /\ (kind = "dma_write" => Len(ram') = ch.count * W)
    <3>1. CASE kind = "dma_write"
      <4>1. ch.count * W \in Nat /\ Data \subseteq Words  BY <1>3, Positive
      <4>2. ram' \in [1 .. ch.count * W -> Data]  BY <2>2, <3>1
      <4>3. ram' \in [1 .. ch.count * W -> Words]  BY <4>1, <4>2
      <4> QED  BY <4>1, <4>3, FunctionIsSeq
    <3>2. CASE kind # "dma_write"  BY <2>3, <3>2 DEF IInv, Types
    <3> QED  BY <3>1, <3>2
  <2>5. d \in Dmas /\ d.kind = kind /\ d.at = First /\ d.len = ch.count
    <3>1. << >> \in Seq(Words)  BY EmptySeq
    <3> QED  BY <1>3, <3>1 DEF Dmas, DmaJobs
  <2> HIDE DEF s, d
  <2>6. ch' \in Channel /\ ch'.buf = << >> /\ ch'.dma = d  BY <1>2, <1>5, <2>1, <2>5 DEF Channel
  <2>7. kind \in JobKinds /\ kind \in DiskJobs /\ kind \in DmaJobs  BY DEF JobKinds, DiskJobs, DmaJobs
  <2>8. /\ job' \in Jobs /\ job'.kind = kind /\ job'.at = First /\ job'.left = ch.count
        /\ job'.words = << >> /\ Len(job'.words) = 0
    BY <1>3, <2>1, <2>7, NewJob
  <2>9. Types'  BY <1>1, <1>4, <2>4, <2>6, <2>8 DEF IInv, Types
  <2>10. job' # NoJob /\ job'.left >= 1 /\ job'.at + job'.left <= Size
    BY <1>3, <1>7, <2>8 DEF NoJob
  <2>11. Transfer'
    BY <2>4, <2>5, <2>6, <2>8, <2>10
       DEF Transfer, JobOK, ReadOK, WriteOK, IdentifyOK, ResponseOK, EmptyOK, DmaOK, DiskJobs, DmaJobs
  <2>12. DiskStep  BY <1>1, <1>2, <1>3, <1>7, <2>1, <2>3, <2>7, DiskBegins
  <2> QED  BY <2>9, <2>11, <2>12 DEF IInv
<1> QED  BY <1>6, <1>7

\* A packet command expects the packet.
LEMMA PacketCommandStep ==
    ASSUME IdeAssumption, IInv, PacketCommand
    PROVE  IInv' /\ DiskStep
<1>1. Between /\ UNCHANGED <<disk, ram, out>> /\ Fresh(ch, 0)  BY DEF PacketCommand, Command
<1>2. ch \in Channel /\ irqs \in History /\ ch.dma.kind = "none" /\ DiskJob = NoJob
  BY <1>1, BetweenCommands
<1>3. irqs' \in History  BY <1>1, <1>2, HistoryKept
<1> DEFINE s == Started
           via == ch.features = 1
<1>4. s \in Channel /\ s.dma = ch.dma  BY <1>2, StartedFields
<1>5. /\ ch' = [s EXCEPT !.viaDma = via, !.busy = FALSE, !.drq = TRUE, !.buf = << >>, !.packet = TRUE]
      /\ job' = Job("packet", 0, 1)
  BY DEF PacketCommand
<1>6. via \in BOOLEAN /\ << >> \in Seq(Words)  BY EmptySeq
<1> HIDE DEF s, via
<1>7. ch' \in Channel /\ ch'.buf = << >> /\ ch'.dma = ch.dma  BY <1>4, <1>5, <1>6 DEF Channel
<1>8. job' \in Jobs /\ job'.kind = "packet"
  <2>1. "packet" \in JobKinds /\ 0 \in Nat /\ 1 \in Nat  BY DEF JobKinds
  <2>2. job' = Job("packet", 0, 1)  BY <1>5
  <2> QED  BY <2>1, <2>2, NewJob
<1>9. Types'  BY <1>1, <1>3, <1>7, <1>8 DEF IInv, Types
<1>10. job' # NoJob  BY <1>8 DEF NoJob
<1>11. Transfer'
  BY <1>2, <1>7, <1>8, <1>10
     DEF Transfer, JobOK, ReadOK, WriteOK, IdentifyOK, ResponseOK, EmptyOK, DmaOK, DiskJobs, DmaJobs
<1>12. DiskJob' = NoJob  BY <1>8 DEF DiskJob, DiskJobs
<1> QED  BY <1>1, <1>2, <1>9, <1>11, <1>12, DiskIdles DEF IInv

-----------------------------------------------------------------------------
(* The data port.                                                          *)

\* The driver's job after a word.
LEMMA MovedJob ==
    ASSUME IdeAssumption, IInv, NEW w \in Words, job.kind \in {"read", "write", "identify"}, job.left >= 1
    PROVE  /\ Len(job.words) \in Nat /\ Len(job.words) < W /\ Append(job.words, w) \in Seq(Words)
           /\ Len(Append(job.words, w)) = Len(job.words) + 1
           /\ Len(job.words) + 1 < W => /\ Moved(w) \in Jobs /\ Moved(w).kind = job.kind /\ Moved(w).at = job.at
                                        /\ Moved(w).left = job.left /\ Moved(w).words = Append(job.words, w)
           /\ Len(job.words) + 1 = W /\ job.left = 1 => Moved(w) = NoJob
           /\ Len(job.words) + 1 = W /\ job.left > 1 =>
                 /\ Moved(w) \in Jobs /\ Moved(w).kind = job.kind /\ Moved(w).at = job.at + 1
                 /\ Moved(w).left = job.left - 1 /\ Moved(w).words = << >>
<1>1. job \in Jobs /\ W \in Nat \ {0}  BY Positive DEF IInv, Types
<1>2. job.words \in Seq(Words) /\ job.at \in Nat /\ job.left \in Nat /\ job.kind \in JobKinds
  BY <1>1 DEF Jobs
<1>3. Len(job.words) \in Nat /\ Len(job.words) < W
  BY <1>2, LenProperties DEF IInv, Transfer, JobOK
<1> DEFINE words == Append(job.words, w)
<1>4. words \in Seq(Words) /\ Len(words) = Len(job.words) + 1  BY <1>2, AppendProperties
<1>5. Moved(w) = IF Len(words) < W THEN [job EXCEPT !.words = words]
                 ELSE IF job.left = 1 THEN NoJob
                 ELSE [job EXCEPT !.at = @ + 1, !.left = @ - 1, !.words = << >>]
  BY DEF Moved
<1> HIDE DEF words
<1>6. CASE Len(words) < W
  <2>1. Moved(w) = [job EXCEPT !.words = words]  BY <1>5, <1>6
  <2>2. /\ Moved(w) \in Jobs /\ Moved(w).kind = job.kind /\ Moved(w).at = job.at
        /\ Moved(w).left = job.left /\ Moved(w).words = words
    BY <1>1, <1>4, <2>1 DEF Jobs
  <2> QED  BY <1>1, <1>3, <1>4, <1>6, <2>2 DEF words
<1>7. CASE ~(Len(words) < W) /\ job.left = 1
  <2>1. Moved(w) = NoJob  BY <1>5, <1>7
  <2> QED  BY <1>1, <1>3, <1>4, <1>7, <2>1 DEF words
<1>8. CASE ~(Len(words) < W) /\ job.left # 1
  <2>1. Moved(w) = [job EXCEPT !.at = @ + 1, !.left = @ - 1, !.words = << >>]  BY <1>5, <1>8
  <2>2. << >> \in Seq(Words) /\ job.left - 1 \in Nat /\ job.at + 1 \in Nat  BY <1>2, EmptySeq
  <2>3. /\ Moved(w) \in Jobs /\ Moved(w).kind = job.kind /\ Moved(w).at = job.at + 1
        /\ Moved(w).left = job.left - 1 /\ Moved(w).words = << >>
    BY <1>1, <2>1, <2>2 DEF Jobs
  <2> QED  BY <1>1, <1>3, <1>4, <1>8, <2>3 DEF words
<1> QED  BY <1>6, <1>7, <1>8

\* Both sides move a word in the same way.
LEMMA SameMove ==
    ASSUME IdeAssumption, IInv, NEW w \in Words, job.kind \in {"read", "write"}
    PROVE  job' = Moved(w) => DiskJob = job /\ DiskJob' = Disk!Moved(DiskJob, w)
<1>1. DiskJob = job  BY DEF DiskJob, DiskJobs
<1>2. Disk!Moved(job, w) = Moved(w)  BY DEF Disk!Moved, Moved, Disk!NoJob, NoJob
<1>3. Moved(w) = NoJob \/ Moved(w).kind = job.kind
  <2>1. job.left >= 1 /\ job.left \in Nat /\ Len(job.words) < W
    BY DEF IInv, Types, Transfer, JobOK, DiskJobs, Jobs
  <2>2. W \in Nat  BY Positive
  <2>3. CASE Len(job.words) + 1 < W  BY <2>1, <2>3, MovedJob
  <2>4. CASE Len(job.words) + 1 = W  BY <2>1, <2>4, MovedJob
  <2> QED  BY <2>1, <2>2, <2>3, <2>4, MovedJob
<1>4. job' = Moved(w) => DiskJob' = Moved(w)  BY <1>3 DEF DiskJob, DiskJobs, NoJob
<1> QED  BY <1>1, <1>2, <1>4

\* A sequence of W words is a sector.
LEMMA SectorOfWords ==
    ASSUME NEW s \in Seq(Words), Len(s) = W
    PROVE  s \in Sector
BY LenProperties DEF Sector

\* A word of a sector is written.
LEMMA WriteDataStep ==
    ASSUME IdeAssumption, IInv, NEW w \in Data, WriteData(w)
    PROVE  IInv' /\ DiskStep
<1>1. job.kind = "write" /\ UNCHANGED <<ram, out>> /\ job' = Moved(w)  BY DEF WriteData
<1>2. /\ ch \in Channel /\ irqs \in History /\ job \in Jobs /\ disk \in [Lbas -> Sector]
      /\ ch.dma.kind = "none"
  BY <1>1 DEF IInv, Types, Transfer, DmaOK, DmaJobs
<1>3. /\ ch.buf = job.words /\ ch.left = job.left /\ ch.addr.lba = job.at
      /\ job.left >= 1 /\ job.at + job.left <= Size
  BY <1>1 DEF IInv, Transfer, WriteOK, JobOK, DiskJobs
<1>4. w \in Words /\ W \in Nat \ {0} /\ job.left \in Nat /\ job.at \in Nat /\ job.words \in Seq(Words)
  BY <1>2, Positive DEF Jobs
<1>5. ch.addr \in LbaAddr  BY <1>2, Fields
<1>6. /\ Offset(ch.addr) = job.at /\ NextSector(ch.addr) \in LbaAddr
      /\ NextSector(ch.addr).lba = job.at + 1
  BY <1>3, <1>5, LbaPlaces
<1> DEFINE buf  == Append(ch.buf, w)
           full == Len(buf) = W
<1>7. irqs' \in History
  <2>1. Raised(ch, IF full THEN 1 ELSE 0, 1)  BY DEF WriteData
  <2>2. (IF full THEN 1 ELSE 0) \in Nat /\ 1 \in Nat  OBVIOUS
  <2> QED  BY <1>2, <2>1, <2>2, HistoryKept
<1>8. /\ buf \in Seq(Words) /\ Len(buf) = Len(job.words) + 1 /\ Len(job.words) \in Nat
      /\ Len(job.words) < W /\ buf = Append(job.words, w)
  BY <1>1, <1>3, <1>4, MovedJob
<1>9. CASE ~full
  <2>1. ch' = [ch EXCEPT !.buf = buf] /\ disk' = disk  BY <1>9 DEF WriteData
  <2>2. Len(job.words) + 1 < W  BY <1>4, <1>8, <1>9
  <2>3. /\ job' \in Jobs /\ job'.kind = "write" /\ job'.at = job.at /\ job'.left = job.left
        /\ job'.words = buf
    BY <1>1, <1>3, <1>4, <1>8, <2>2, MovedJob
  <2> HIDE DEF buf
  <2>4. /\ ch' \in Channel /\ ch'.buf = buf /\ ch'.dma = ch.dma /\ ch'.addr = ch.addr
        /\ ch'.left = ch.left
    BY <1>2, <1>8, <2>1 DEF Channel
  <2>5. Types'  BY <1>1, <1>7, <2>1, <2>3, <2>4 DEF IInv, Types
  <2>6. job' # NoJob /\ Len(job'.words) < W /\ job'.left >= 1 /\ job'.at + job'.left <= Size
    BY <1>3, <1>8, <2>2, <2>3 DEF NoJob
  <2>7. Transfer'
    BY <1>2, <1>3, <2>3, <2>4, <2>6
       DEF Transfer, JobOK, ReadOK, WriteOK, IdentifyOK, ResponseOK, EmptyOK, DmaOK, DiskJobs, DmaJobs
  <2>8. Disk!Put(w)
    <3>1. DiskJob = job /\ DiskJob' = Disk!Moved(DiskJob, w)  BY <1>1, <1>4, SameMove
    <3> QED  BY <1>1, <2>1, <2>2, <3>1 DEF Disk!Put, DiskJob, DiskJobs
  <2>9. DiskStep  BY <1>4, <2>8 DEF DiskStep, Disk!Next
  <2> QED  BY <2>5, <2>7, <2>9 DEF IInv
<1>10. CASE full
  <2> DEFINE next == NextSector(ch.addr)
             left == ch.left - 1
             drq  == ch.left > 1
             c    == [ch EXCEPT !.buf = << >>, !.err = FALSE, !.addr = next, !.left = left]
  <2>1. ch' = [ch EXCEPT !.buf = << >>, !.err = FALSE, !.addr = next, !.left = left, !.drq = drq]
    BY <1>10 DEF WriteData
  <2>2. disk' = [disk EXCEPT ![job.at] = buf]
    <3>1. disk' = [disk EXCEPT ![Offset(ch.addr)] = buf]  BY <1>10 DEF WriteData
    <3> QED  BY <1>6, <3>1
  <2>3. Len(job.words) + 1 = W  BY <1>8, <1>10
  <2>4. next \in LbaAddr /\ left \in Int /\ drq \in BOOLEAN /\ << >> \in Seq(Words)
    BY <1>3, <1>4, <1>6, EmptySeq
  <2>5. next.lba = job.at + 1 /\ left = job.left - 1  BY <1>3, <1>6
  <2>6. buf \in Sector /\ disk' \in [Lbas -> Sector]
    <3>1. buf \in Sector  BY <1>8, <1>10, SectorOfWords
    <3> HIDE DEF buf
    <3> QED  BY <1>2, <2>2, <3>1
  <2> HIDE DEF buf, next, left, drq
  <2>7. /\ c \in Channel /\ c.buf = << >> /\ c.dma = ch.dma /\ c.addr = next /\ c.left = left
    BY <1>2, <2>4 DEF Channel
  <2>8. ch' = [c EXCEPT !.drq = drq]  BY <1>2, <2>1 DEF Channel
  <2> HIDE DEF c
  <2>9. /\ ch' \in Channel /\ ch'.buf = << >> /\ ch'.dma = ch.dma /\ ch'.addr = next /\ ch'.left = left
    BY <2>4, <2>7, <2>8 DEF Channel
  <2>10. DiskStep
    <3>1. DiskJob = job /\ DiskJob' = Disk!Moved(DiskJob, w)  BY <1>1, <1>4, SameMove
    <3>2. ~(Len(job.words) + 1 < W) /\ buf = Append(job.words, w)  BY <1>4, <1>8, <2>3
    <3>3. Disk!Put(w)  BY <1>1, <2>2, <3>1, <3>2 DEF Disk!Put, DiskJob, DiskJobs
    <3> QED  BY <1>4, <3>3 DEF DiskStep, Disk!Next
  <2>11. CASE job.left = 1
    <3>1. job' = NoJob  BY <1>1, <1>4, <2>3, <2>11, MovedJob
    <3>2. NoJob \in Jobs /\ NoJob.kind = "none"  BY <2>4 DEF NoJob, Jobs, JobKinds
    <3>3. Types'  BY <1>1, <1>7, <2>6, <2>9, <3>1, <3>2 DEF IInv, Types
    <3>4. Transfer'
      BY <1>2, <2>9, <3>1, <3>2
         DEF Transfer, JobOK, ReadOK, WriteOK, IdentifyOK, ResponseOK, EmptyOK, DmaOK, DiskJobs, DmaJobs
    <3> QED  BY <2>10, <3>3, <3>4 DEF IInv
  <2>12. CASE job.left # 1
    <3>1. /\ job' \in Jobs /\ job'.kind = "write" /\ job'.at = job.at + 1 /\ job'.left = job.left - 1
          /\ job'.words = << >>
      BY <1>1, <1>3, <1>4, <2>3, <2>12, MovedJob
    <3>2. Types'  BY <1>1, <1>7, <2>6, <2>9, <3>1 DEF IInv, Types
    <3>3. job' # NoJob /\ Len(job'.words) < W /\ job'.left >= 1 /\ job'.at + job'.left <= Size
      <4>1. Len(job'.words) = 0  BY <3>1, EmptySeq
      <4> QED  BY <1>3, <1>4, <2>12, <3>1, <4>1 DEF NoJob
    <3>4. Transfer'
      BY <1>2, <2>5, <2>9, <3>1, <3>3
         DEF Transfer, JobOK, ReadOK, WriteOK, IdentifyOK, ResponseOK, EmptyOK, DmaOK, DiskJobs, DmaJobs
    <3> QED  BY <2>10, <3>2, <3>4 DEF IInv
  <2> QED  BY <2>11, <2>12
<1> QED  BY <1>9, <1>10

\* The buffer holds a word to be read.
LEMMA NextWord ==
    ASSUME IdeAssumption, IInv, job.kind \in {"read", "identify"}
    PROVE  /\ ch.buf \in Seq(Words) /\ ch.buf # << >> /\ Len(ch.buf) \in Nat /\ Len(ch.buf) >= 1
           /\ Head(ch.buf) \in Words /\ Head(ch.buf) = ch.buf[1] /\ Tail(ch.buf) \in Seq(Words)
           /\ Len(Tail(ch.buf)) = Len(ch.buf) - 1
           /\ \A i \in 1 .. Len(ch.buf) - 1 : Tail(ch.buf)[i] = ch.buf[i + 1]
           /\ job.left >= 1 /\ Len(job.words) \in Nat /\ Len(job.words) < W
           /\ Len(ch.buf) = job.left * W - Len(job.words)
<1>1. ch.buf \in Seq(Words) /\ job \in Jobs /\ W \in Nat \ {0}  BY Fields, Positive DEF IInv, Types
<1>2. job.left \in Nat /\ job.words \in Seq(Words)  BY <1>1 DEF Jobs
<1>3. job.left >= 1 /\ Len(job.words) < W /\ Len(job.words) \in Nat
  BY <1>2, LenProperties DEF IInv, Transfer, JobOK, IdentifyOK, DiskJobs
<1>4. Len(ch.buf) = job.left * W - Len(job.words)
  <2>1. CASE job.kind = "read"  BY <2>1 DEF IInv, Transfer, ReadOK
  <2>2. CASE job.kind = "identify"
    <3>1. job.left = 1 /\ Len(ch.buf) = W - Len(job.words)  BY <2>2 DEF IInv, Transfer, IdentifyOK
    <3>2. job.left * W = W  BY <1>1, <3>1
    <3> QED  BY <3>1, <3>2
  <2> QED  BY <2>1, <2>2
<1>5. job.left * W >= W /\ job.left * W \in Nat
  <2>1. \A x, y \in Nat \ {0} : x * y >= y /\ x * y \in Nat  OBVIOUS
  <2>2. job.left \in Nat \ {0}  BY <1>2, <1>3
  <2> QED  BY <1>1, <2>1, <2>2
<1>6. Len(ch.buf) >= 1 /\ Len(ch.buf) \in Nat  BY <1>1, <1>3, <1>4, <1>5
<1>7. ch.buf # << >>  BY <1>1, <1>6, EmptySeq
<1>8. /\ Head(ch.buf) \in Words /\ Head(ch.buf) = ch.buf[1] /\ Tail(ch.buf) \in Seq(Words)
      /\ Len(Tail(ch.buf)) = Len(ch.buf) - 1
      /\ \A i \in 1 .. Len(ch.buf) - 1 : Tail(ch.buf)[i] = ch.buf[i + 1]
  BY <1>1, <1>7, HeadTailProperties
<1> QED  BY <1>1, <1>3, <1>4, <1>6, <1>7, <1>8

\* An empty sequence has no length.
LEMMA NoWords ==
    ASSUME NEW s \in Seq(Words)
    PROVE  Len(s) = 0 => s = << >>
BY EmptySeq

\* A word of a sector, or of the identification, is read.
LEMMA ReadDataStep ==
    ASSUME IdeAssumption, IInv, ReadData
    PROVE  IInv' /\ DiskStep
<1>1. job.kind \in {"read", "identify"} /\ UNCHANGED <<disk, ram>>  BY DEF ReadData
<1>2. /\ ch \in Channel /\ irqs \in History /\ job \in Jobs /\ disk \in [Lbas -> Sector]
      /\ ch.dma.kind = "none"
  BY <1>1 DEF IInv, Types, Transfer, DmaOK, DmaJobs
<1> DEFINE buf == ch.buf
           w   == Head(buf)
           len == Len(job.words)
           t   == Tail(buf)
           drq == Len(buf) > 1
<1>3. ch' = [ch EXCEPT !.buf = t, !.drq = drq] /\ job' = Moved(w)  BY DEF ReadData
<1>4. job.kind = "read" => out' = w  BY DEF ReadData
<1>5. irqs' \in History
  <2>1. Raised(ch, 0, 1) \/ Raised(ch, 1, 1)  BY DEF ReadData
  <2> QED  BY <1>2, <2>1, HistoryKept
<1>6. /\ buf \in Seq(Words) /\ Len(buf) \in Nat /\ Len(buf) >= 1 /\ w \in Words /\ w = buf[1]
      /\ t \in Seq(Words) /\ Len(t) = Len(buf) - 1 /\ \A i \in 1 .. Len(buf) - 1 : t[i] = buf[i + 1]
      /\ job.left >= 1 /\ len \in Nat /\ len < W /\ Len(buf) = job.left * W - len
  BY <1>1, NextWord
<1>7. W \in Nat \ {0} /\ job.left \in Nat /\ job.at \in Nat /\ job.words \in Seq(Words)
  BY <1>2, Positive DEF Jobs
<1>8. drq \in BOOLEAN  OBVIOUS
<1>9. len + 1 < W => /\ job' \in Jobs /\ job'.kind = job.kind /\ job'.at = job.at /\ job'.left = job.left
                     /\ Len(job'.words) = len + 1
  BY <1>1, <1>3, <1>6, MovedJob
<1>10. len + 1 = W /\ job.left = 1 => job' = NoJob
  BY <1>1, <1>3, <1>6, MovedJob
<1>11. len + 1 = W /\ job.left > 1 =>
         /\ job' \in Jobs /\ job'.kind = job.kind /\ job'.at = job.at + 1 /\ job'.left = job.left - 1
         /\ Len(job'.words) = 0
  <2>1. Len(<< >>) = 0  BY EmptySeq
  <2> QED  BY <1>1, <1>3, <1>6, <2>1, MovedJob
<1>12. job.kind = "read" => job.at + job.left <= Size /\ \A i \in 1 .. Len(buf) : buf[i] = WordAt(job.at, len + i)
  BY DEF IInv, Transfer, ReadOK, JobOK, DiskJobs
<1>13. job.kind = "identify" => job.left = 1  BY DEF IInv, Transfer, IdentifyOK
<1>14. job.kind = "read" => DiskStep
  <2> SUFFICES ASSUME job.kind = "read" PROVE DiskStep  OBVIOUS
  <2>1. w = disk[job.at][len + 1]
    <3>1. buf[1] = WordAt(job.at, len + 1)  BY <1>6, <1>12
    <3> HIDE DEF w, buf
    <3>2. \A l \in Nat : l < W => l \div W = 0 /\ l % W = l  BY WordPlaces
    <3>3. ASSUME NEW l \in Nat, l < W PROVE WordAt(job.at, l + 1) = disk[job.at][l + 1]
      <4>0. l \div W = 0 /\ l % W = l  BY <3>2, <3>3, Zenon
      <4>1. (l + 1) - 1 = l /\ job.at + 0 = job.at  BY <1>7
      <4>2. WordAt(job.at, l + 1) = disk[job.at + ((l + 1) - 1) \div W][(((l + 1) - 1) % W) + 1]  BY DEF WordAt
      <4> QED  BY <4>0, <4>1, <4>2
    <3>4. WordAt(job.at, len + 1) = disk[job.at][len + 1]  BY <1>6, <3>3
    <3> QED  BY <1>6, <3>1, <3>4
  <2>2. DiskJob = job /\ DiskJob' = Disk!Moved(DiskJob, w)  BY <1>3, <1>6, SameMove
  <2> HIDE DEF w
  <2>3. Disk!Get  BY <1>1, <1>4, <2>1, <2>2 DEF Disk!Get, DiskJob, DiskJobs
  <2> QED  BY <2>3 DEF DiskStep, Disk!Next
<1> HIDE DEF buf, w, len, t, drq
<1>15. ch' \in Channel /\ ch'.buf = t /\ ch'.dma = ch.dma  BY <1>2, <1>3, <1>6, <1>8 DEF Channel
<1>16. CASE len + 1 < W
  <2>1. /\ job' \in Jobs /\ job'.kind = job.kind /\ job'.at = job.at /\ job'.left = job.left
        /\ Len(job'.words) = len + 1
    BY <1>9, <1>16
  <2>2. Types'  BY <1>1, <1>2, <1>5, <1>15, <2>1 DEF IInv, Types
  <2>3. job' # NoJob  BY <1>1, <2>1 DEF NoJob
  <2>4. JobOK' /\ WriteOK' /\ ResponseOK' /\ EmptyOK' /\ DmaOK'
    BY <1>1, <1>2, <1>6, <1>12, <1>15, <1>16, <2>1, <2>3
       DEF JobOK, WriteOK, ResponseOK, EmptyOK, DmaOK, DiskJobs, DmaJobs
  <2>5. Len(t) = job.left * W - (len + 1)
    <3>1. job.left * W \in Int  BY <1>7
    <3> QED  BY <1>6, <3>1
  <2>6. IdentifyOK'
    <3>1. job.kind = "identify" => job.left * W = W  BY <1>7, <1>13
    <3> QED  BY <1>13, <1>15, <2>1, <2>5, <3>1 DEF IdentifyOK
  <2>7. ReadOK'
    <3> SUFFICES ASSUME job.kind = "read" PROVE ReadOK'  BY <2>1 DEF ReadOK
    <3>1. Len(ch'.buf) = job'.left * W - Len(job'.words)  BY <1>15, <2>1, <2>5
    <3>2. ASSUME NEW i \in 1 .. Len(ch'.buf) PROVE ch'.buf[i] = WordAt(job.at, Len(job.words) + i)'
      <4>1. i \in 1 .. Len(buf) - 1 /\ i + 1 \in 1 .. Len(buf)  BY <1>6, <1>15
      <4>2. t[i] = WordAt(job.at, len + (i + 1))  BY <1>6, <1>12, <4>1
      <4>3. len + (i + 1) = Len(job'.words) + i  BY <1>6, <2>1, <4>1
      <4>4. WordAt(job.at, Len(job'.words) + i) = WordAt(job.at, Len(job.words) + i)'
        BY <1>1, <2>1 DEF WordAt
      <4> QED  BY <1>15, <4>2, <4>3, <4>4
    <3> QED  BY <3>1, <3>2 DEF ReadOK
  <2>8. job.kind = "identify" => DiskStep
    <3>1. job.kind = "identify" => DiskJob = NoJob /\ DiskJob' = NoJob  BY <2>1 DEF DiskJob, DiskJobs
    <3> QED  BY <1>1, <3>1, DiskIdles
  <2> QED  BY <1>1, <1>14, <2>2, <2>4, <2>6, <2>7, <2>8 DEF IInv, Transfer
<1>17. CASE len + 1 = W /\ job.left = 1
  <2>1. job' = NoJob  BY <1>10, <1>17
  <2>2. NoJob \in Jobs /\ NoJob.kind = "none"  BY EmptySeq DEF NoJob, Jobs, JobKinds
  <2>3. Types'  BY <1>1, <1>2, <1>5, <1>15, <2>1, <2>2 DEF IInv, Types
  <2>4. t = << >>
    <3>1. job.left * W = W  BY <1>7, <1>17
    <3>2. Len(t) = 0  BY <1>6, <1>7, <1>17, <3>1
    <3> QED  BY <1>6, <3>2, NoWords
  <2>5. Transfer'
    BY <1>2, <1>15, <2>1, <2>2, <2>4
       DEF Transfer, JobOK, ReadOK, WriteOK, IdentifyOK, ResponseOK, EmptyOK, DmaOK, DiskJobs, DmaJobs
  <2>6. job.kind = "identify" => DiskStep
    <3>1. job.kind = "identify" => DiskJob = NoJob /\ DiskJob' = NoJob  BY <2>1, <2>2 DEF DiskJob, DiskJobs
    <3> QED  BY <1>1, <3>1, DiskIdles
  <2> QED  BY <1>1, <1>14, <2>3, <2>5, <2>6 DEF IInv
<1>18. CASE len + 1 = W /\ job.left > 1
  <2>1. /\ job' \in Jobs /\ job'.kind = "read" /\ job'.at = job.at + 1 /\ job'.left = job.left - 1
        /\ Len(job'.words) = 0 /\ job.kind = "read"
    BY <1>1, <1>7, <1>11, <1>13, <1>18
  <2>2. Types'  BY <1>1, <1>2, <1>5, <1>15, <2>1 DEF IInv, Types
  <2>3. job' # NoJob  BY <2>1 DEF NoJob
  <2>4. JobOK' /\ WriteOK' /\ ResponseOK' /\ EmptyOK' /\ DmaOK' /\ IdentifyOK'
    BY <1>2, <1>7, <1>12, <1>15, <1>18, <2>1, <2>3
       DEF JobOK, WriteOK, ResponseOK, EmptyOK, DmaOK, IdentifyOK, DiskJobs, DmaJobs
  <2>5. Len(t) = (job.left - 1) * W
    <3>1. \A x, z \in Int : (x - 1) * z = x * z - z /\ x * z \in Int  OBVIOUS
    <3> DEFINE y == job.left * W
    <3>2. (job.left - 1) * W = y - W /\ y \in Int  BY <1>7, <3>1
    <3>3. Len(t) = (y - len) - 1  BY <1>6
    <3> HIDE DEF y
    <3>4. (y - len) - 1 = y - W  BY <1>6, <1>7, <1>18, <3>2
    <3> QED  BY <3>2, <3>3, <3>4
  <2>6. ReadOK'
    <3>0. (job.left - 1) * W \in Int  BY <1>7
    <3>1. Len(ch'.buf) = job'.left * W - Len(job'.words)  BY <1>15, <2>1, <2>5, <3>0
    <3>2. ASSUME NEW i \in 1 .. Len(ch'.buf) PROVE ch'.buf[i] = WordAt(job.at, Len(job.words) + i)'
      <4>1. i \in 1 .. Len(buf) - 1 /\ i + 1 \in 1 .. Len(buf)  BY <1>6, <1>15
      <4>2. t[i] = WordAt(job.at, len + (i + 1))  BY <1>6, <1>12, <2>1, <4>1
      <4>3. len + (i + 1) = W + i /\ Len(job'.words) + i = i /\ i - 1 \in Nat /\ (W + i) - 1 = W + (i - 1)
        BY <1>6, <1>7, <1>18, <2>1, <4>1
      <4>4. (W + (i - 1)) \div W = 1 + (i - 1) \div W /\ (W + (i - 1)) % W = (i - 1) % W /\ (i - 1) \div W \in Nat
        BY <4>3, WordPlaces
      <4> DEFINE q == (i - 1) \div W
      <4>5. job.at + (1 + q) = (job.at + 1) + q  BY <1>7, <4>4
      <4> HIDE DEF q
      <4>6. WordAt(job.at, W + i) = disk[job.at + (1 + q)][((i - 1) % W) + 1]
        BY <4>3, <4>4 DEF WordAt, q
      <4>7. WordAt(job.at, Len(job.words) + i)' = disk[(job.at + 1) + q][((i - 1) % W) + 1]
        BY <1>1, <2>1, <4>3 DEF WordAt, q
      <4> QED  BY <1>15, <4>2, <4>3, <4>5, <4>6, <4>7
    <3> QED  BY <3>1, <3>2 DEF ReadOK
  <2> QED  BY <1>14, <2>1, <2>2, <2>4, <2>6 DEF IInv, Transfer
<1> QED  BY <1>6, <1>7, <1>16, <1>17, <1>18

-----------------------------------------------------------------------------
(* Packets and their responses.                                            *)

\* No job is a job.
LEMMA NoJobIsJob == NoJob \in Jobs /\ NoJob.kind = "none"
BY EmptySeq DEF NoJob, Jobs, JobKinds

\* A command of the disk or the drive ends without a transfer left over.
LEMMA TransferEnds ==
    ASSUME ch' \in Channel, ch'.buf = << >>, ch'.dma.kind = "none", irqs' \in History,
           disk' \in [Lbas -> Sector], ram' \in Seq(Words), job' = NoJob
    PROVE  IInv'
<1>1. Types'  BY NoJobIsJob DEF Types
<1>2. Transfer'
  BY NoJobIsJob
     DEF Transfer, JobOK, ReadOK, WriteOK, IdentifyOK, ResponseOK, EmptyOK, DmaOK, DiskJobs, DmaJobs
<1> QED  BY <1>1, <1>2 DEF IInv

\* What a packet answers is counted.
LEMMA FirstInterrupts ==
    ASSUME NEW a
    PROVE  Cardinality(a \cap {"error", "done"}) \in Nat
<1>1. IsFiniteSet({"error"}) /\ IsFiniteSet({"error"} \cup {"done"})  BY FS_Singleton, FS_AddElement
<1>2. {"error"} \cup {"done"} = {"error", "done"}  OBVIOUS
<1>3. IsFiniteSet({"error", "done"})  BY <1>1, <1>2
<1>4. IsFiniteSet(a \cap {"error", "done"})  BY <1>3, FS_Subset
<1> QED  BY <1>4, FS_CardinalityType

\* Finishing a packet keeps the buffer and the pending transfer.
LEMMA FinishedChannel ==
    ASSUME NEW c \in Channel, NEW err \in BOOLEAN
    PROVE  /\ Finished(c, err) \in Channel /\ Finished(c, err).buf = c.buf /\ Finished(c, err).dma = c.dma
           /\ Finished(c, err).nien = c.nien /\ ~Finished(c, err).drq
BY DEF Finished, Channel

\* A response that has been answered.
LEMMA RespondedChannel ==
    ASSUME NEW c \in Channel, NEW words \in Seq(Words)
    PROVE  /\ Responded(c, words) \in Channel /\ Responded(c, words).buf = c.buf
           /\ Responded(c, words).dma = c.dma /\ Responded(c, words).drq
           /\ Responded(c, words).nien = c.nien /\ Responded(c, words).index = 0
           /\ Responded(c, words).block = Min({c.limit, Len(words)})
<1> DEFINE block == Min({c.limit, Len(words)})
<1>1. block \in Nat
  <2>1. c.limit \in Nat /\ Len(words) \in Nat  BY Fields, LenProperties
  <2>2. c.limit \in Int /\ Len(words) \in Int  BY <2>1
  <2>3. block \in {c.limit, Len(words)}  BY <2>2, MinOfTwo
  <2> QED  BY <2>1, <2>3
<1>2. Responded(c, words) = [c EXCEPT !.response = TRUE, !.index = 0, !.block = block,
                                      !.busy = FALSE, !.drq = TRUE, !.err = FALSE]
  BY DEF Responded
<1> HIDE DEF block
<1> DEFINE c1 == [c EXCEPT !.response = TRUE, !.index = 0]
           c2 == [c1 EXCEPT !.block = block]
<1>4. c1 \in Channel /\ c1.buf = c.buf /\ c1.dma = c.dma /\ c1.nien = c.nien /\ c1.index = 0
  BY DEF Channel
<1>5. Responded(c, words) = [c2 EXCEPT !.busy = FALSE, !.drq = TRUE, !.err = FALSE]
  BY <1>2 DEF Channel
<1> HIDE DEF c1
<1>6. /\ c2 \in Channel /\ c2.buf = c.buf /\ c2.dma = c.dma /\ c2.nien = c.nien /\ c2.index = 0
      /\ c2.block = block
  BY <1>1, <1>4 DEF Channel
<1> HIDE DEF c2
<1> DEFINE r == Responded(c, words)
<1>7. r \in Channel /\ r.buf = c2.buf /\ r.dma = c2.dma /\ r.nien = c2.nien /\ r.drq
  BY <1>5, <1>6 DEF Channel
<1>8. r.index = c2.index /\ r.block = c2.block  BY <1>5, <1>6 DEF Channel
<1> QED  BY <1>6, <1>7, <1>8 DEF block

\* A DMA transfer that has ended.
LEMMA DmaFinishedChannel ==
    ASSUME NEW c \in Channel
    PROVE  /\ DmaFinished(c) \in Channel /\ DmaFinished(c).buf = c.buf /\ DmaFinished(c).dma.kind = "none"
           /\ ~DmaFinished(c).drq /\ DmaFinished(c).nien = c.nien
<1>1. NoDma \in Dmas /\ NoDma.kind = "none"  BY EmptySeq DEF NoDma, Dmas
<1> QED  BY <1>1 DEF DmaFinished, Channel

\* What a packet does: it is done, or its response is read, transferred or left for the bus master.
PacketOutcome(p, d, words) ==
    \/ ch' = d /\ job' = NoJob /\ ram' = ram
    \/ /\ ch' = [Responded(d, words) EXCEPT !.buf = words]
       /\ job' = Job("response", 0, p.len) /\ ram' = ram
    \/ ch' = DmaFinished(Responded(d, words)) /\ ram' = words /\ job' = NoJob
    \/ /\ ch' = [Responded(d, words) EXCEPT !.dma = [kind |-> "response", at |-> 0, len |-> 0, words |-> words]]
       /\ job' = Job("response_dma", 0, p.len) /\ ram' = ram

\* The packet is executed.
LEMMA WritePacketStep ==
    ASSUME IdeAssumption, IInv, NEW p \in Packets, WritePacket(p)
    PROVE  IInv' /\ DiskStep
<1>1. job.kind = "packet" /\ UNCHANGED <<disk, out>>  BY DEF WritePacket
<1>2. /\ ch \in Channel /\ irqs \in History /\ disk \in [Lbas -> Sector] /\ ram \in Seq(Words)
      /\ ch.dma.kind = "none" /\ ch.buf = << >>
  BY <1>1 DEF IInv, Types, Transfer, DmaOK, EmptyOK, DmaJobs
<1>3. p.len \in Nat \ {0}  BY Positive
<1> DEFINE a     == Answer(p)
           words == [i \in 1 .. p.len |-> "cd"]
           c     == [ch EXCEPT !.buf = << >>]
           d     == CASE "error" \in a -> Finished(c, TRUE)
                      [] a \cap {"done", "ack"} # {} -> Finished(c, FALSE)
                      [] OTHER -> c
           first == Cardinality(a \cap {"error", "done"})
<1>4. first \in Nat  BY FirstInterrupts
<1>5. words \in Seq(Words) /\ Len(words) = p.len
  <2>1. words \in [1 .. p.len -> Words]  BY Positive
  <2> QED  BY <1>3, <2>1, FunctionIsSeq
<1>6. c \in Channel /\ c.buf = << >> /\ c.dma = ch.dma  BY <1>2, EmptySeq DEF Channel
<1>7. d \in {Finished(c, TRUE), Finished(c, FALSE), c}  OBVIOUS
<1> HIDE DEF c
<1>8. d \in Channel /\ d.buf = << >> /\ d.dma = ch.dma  BY <1>6, <1>7, FinishedChannel
<1>9. PacketOutcome(p, d, words)  BY DEF WritePacket, PacketOutcome, c
<1>10. irqs' \in History
  <2>1. \/ Raised(ch, first, 0) \/ Raised(ch, first + 1, 0)
        \/ irqs' = [irqs EXCEPT !.raised = Pulses(ch, first + 1), !.n = p.len,
                                !.kind = IF ch.nien \/ "error" \in a THEN "none" ELSE "response",
                                !.block = Min({ch.limit, p.len})]
    BY DEF WritePacket
  <2>2. first + 1 \in Nat /\ Pulses(ch, first + 1) \in Nat /\ 0 \in Nat  BY <1>4 DEF Pulses
  <2>3. Min({ch.limit, p.len}) \in Nat
    <3>1. ch.limit \in Nat /\ ch.limit \in Int /\ p.len \in Nat /\ p.len \in Int  BY <1>2, <1>3, Fields
    <3> QED  BY <3>1, MinOfTwo
  <2> HIDE DEF first, a
  <2> DEFINE b == Min({ch.limit, p.len})
             k == IF ch.nien \/ "error" \in a THEN "none" ELSE "response"
             r == Pulses(ch, first + 1)
  <2>4. CASE irqs' = [irqs EXCEPT !.raised = r, !.n = p.len, !.kind = k, !.block = b]
    <3>1. r \in Nat /\ b \in Nat /\ p.len \in Nat /\ k \in {"none", "response"}  BY <1>3, <2>2, <2>3
    <3> HIDE DEF r, b, k
    <3> QED  BY <1>2, <2>4, <3>1 DEF History
  <2>5. CASE Raised(ch, first, 0) \/ Raised(ch, first + 1, 0)
    BY <1>2, <1>4, <2>2, <2>5, HistoryKept
  <2> QED  BY <2>1, <2>4, <2>5
<1> HIDE DEF a, words, d, first
<1> DEFINE r == Responded(d, words)
<1>11. r \in Channel /\ r.buf = << >> /\ r.dma = ch.dma  BY <1>5, <1>8, RespondedChannel
<1>12. DiskJob = NoJob  BY <1>1 DEF DiskJob, DiskJobs
<1>13. CASE job' = NoJob
  <2>1. ch' \in Channel /\ ch'.buf = << >> /\ ch'.dma.kind = "none" /\ ram' \in Seq(Words)
    <3>1. job' # Job("response", 0, p.len) /\ job' # Job("response_dma", 0, p.len)
      BY <1>13 DEF NoJob, Job
    <3>2. \/ ch' = d /\ ram' = ram
          \/ ch' = DmaFinished(r) /\ ram' = words
      BY <1>9, <3>1 DEF PacketOutcome
    <3> HIDE DEF r
    <3>3. CASE ch' = d /\ ram' = ram  BY <1>2, <1>8, <3>3
    <3>4. CASE ch' = DmaFinished(r) /\ ram' = words  BY <1>5, <1>11, <3>4, DmaFinishedChannel
    <3> QED  BY <3>2, <3>3, <3>4
  <2>2. IInv'  BY <1>1, <1>2, <1>10, <1>13, <2>1, TransferEnds
  <2>3. DiskJob' = NoJob  BY <1>13, NoJobIsJob DEF DiskJob, DiskJobs
  <2> QED  BY <1>1, <1>12, <2>2, <2>3, DiskIdles
<1>14. CASE /\ ch' = [r EXCEPT !.buf = words]
            /\ job' = Job("response", 0, p.len) /\ ram' = ram
  <2> HIDE DEF r
  <2>1. ch' \in Channel /\ ch'.buf = words /\ ch'.dma = ch.dma  BY <1>5, <1>11, <1>14 DEF Channel
  <2>2. job' \in Jobs /\ job'.kind = "response" /\ job'.left = p.len
    <3>1. "response" \in JobKinds /\ 0 \in Nat /\ p.len \in Nat  BY <1>3 DEF JobKinds
    <3>2. LET j == Job("response", 0, p.len)
          IN  j \in Jobs /\ j.kind = "response" /\ j.left = p.len
      BY <3>1, NewJob
    <3>3. job' = Job("response", 0, p.len)  BY <1>14
    <3> QED  BY <3>2, <3>3
  <2>3. Types'  BY <1>1, <1>2, <1>10, <1>14, <2>1, <2>2 DEF Types
  <2>4. job' # NoJob  BY <2>2 DEF NoJob
  <2>5. Transfer'
    BY <1>2, <1>3, <1>5, <2>1, <2>2, <2>4
       DEF Transfer, JobOK, ReadOK, WriteOK, IdentifyOK, ResponseOK, EmptyOK, DmaOK, DiskJobs, DmaJobs
  <2>6. DiskJob' = NoJob  BY <2>2 DEF DiskJob, DiskJobs
  <2> QED  BY <1>1, <1>12, <2>3, <2>5, <2>6, DiskIdles DEF IInv
<1>15. CASE /\ ch' = [r EXCEPT !.dma = [kind |-> "response", at |-> 0, len |-> 0, words |-> words]]
            /\ job' = Job("response_dma", 0, p.len) /\ ram' = ram
  <2> DEFINE m == [kind |-> "response", at |-> 0, len |-> 0, words |-> words]
  <2>1. m \in Dmas /\ m.kind = "response"  BY <1>5 DEF Dmas
  <2> HIDE DEF r, m
  <2>2. ch' = [r EXCEPT !.dma = m]  BY <1>15 DEF m
  <2>3. ch' \in Channel /\ ch'.buf = << >> /\ ch'.dma = m  BY <1>11, <2>1, <2>2 DEF Channel
  <2>4. job' \in Jobs /\ job'.kind = "response_dma"
    <3>1. "response_dma" \in JobKinds /\ 0 \in Nat /\ p.len \in Nat  BY <1>3 DEF JobKinds
    <3> QED  BY <1>15, <3>1, NewJob
  <2>5. Types'  BY <1>1, <1>2, <1>10, <1>15, <2>3, <2>4 DEF Types
  <2>6. job' # NoJob  BY <2>4 DEF NoJob
  <2>7. Transfer'
    BY <2>1, <2>3, <2>4, <2>6
       DEF Transfer, JobOK, ReadOK, WriteOK, IdentifyOK, ResponseOK, EmptyOK, DmaOK, DiskJobs, DmaJobs
  <2>8. DiskJob' = NoJob  BY <2>4 DEF DiskJob, DiskJobs
  <2> QED  BY <1>1, <1>12, <2>5, <2>7, <2>8, DiskIdles DEF IInv
<1> QED  BY <1>9, <1>13, <1>14, <1>15 DEF PacketOutcome

\* A word of a packet response is read.
LEMMA ReadResponseStep ==
    ASSUME IdeAssumption, IInv, ReadResponse
    PROVE  IInv' /\ DiskStep
<1>1. job.kind = "response" /\ UNCHANGED <<disk, ram>>  BY DEF ReadResponse
<1>2. /\ ch \in Channel /\ irqs \in History /\ job \in Jobs /\ disk \in [Lbas -> Sector] /\ ram \in Seq(Words)
      /\ ch.dma.kind = "none" /\ Len(ch.buf) = job.left /\ job.left >= 1 /\ job.left \in Nat
  BY <1>1 DEF IInv, Types, Transfer, DmaOK, ResponseOK, DmaJobs, Jobs
<1>3. ch.buf \in Seq(Words) /\ ch.index \in Nat /\ ch.block \in Nat /\ ch.limit \in Nat \ {0}  BY <1>2, Fields
<1> DEFINE t == Tail(ch.buf)
           index == ch.index + 1
           c == [ch EXCEPT !.buf = t, !.index = index]
           empty == c.buf = << >>
           crop == Min({c.block, Len(c.buf)})
           limit == IF crop < c.block THEN crop ELSE c.limit
<1>4. t \in Seq(Words) /\ Len(t) = job.left - 1
  <2>1. ch.buf # << >>  BY <1>2, <1>3, EmptySeq
  <2> QED  BY <1>2, <1>3, <2>1, HeadTailProperties
<1>5. \/ ch' = [c EXCEPT !.rdy = TRUE, !.busy = FALSE, !.drq = FALSE, !.err = FALSE, !.response = FALSE]
      \/ /\ ch' = [c EXCEPT !.index = 0, !.rdy = TRUE, !.busy = FALSE, !.drq = TRUE, !.block = crop,
                            !.limit = IF crop < c.block THEN crop ELSE @]
         /\ ~empty
      \/ ch' = c
  BY DEF ReadResponse
<1>6. irqs' \in History
  <2>1. Raised(ch, 0, 1) \/ Raised(ch, 1, 1)  BY DEF ReadResponse
  <2> QED  BY <1>2, <2>1, HistoryKept
<1>7. job' = IF job.left = 1 THEN NoJob ELSE [job EXCEPT !.left = @ - 1]  BY DEF ReadResponse
<1>8. index \in Nat  BY <1>3
<1> HIDE DEF t, index
<1>9. /\ c \in Channel /\ c.buf = t /\ c.dma = ch.dma /\ c.block = ch.block /\ c.limit = ch.limit
  BY <1>2, <1>4, <1>8 DEF Channel
<1>10. ~empty => crop \in Nat /\ limit \in Nat \ {0}
  <2> SUFFICES ASSUME ~empty PROVE crop \in Nat /\ limit \in Nat \ {0}  OBVIOUS
  <2>1. Len(t) \in Nat /\ Len(t) \in Int /\ ch.block \in Int  BY <1>2, <1>3, <1>4
  <2>2. crop \in {ch.block, Len(t)} /\ crop <= ch.block  BY <1>9, <2>1, MinOfTwo
  <2>3. Len(t) # 0  BY <1>4, <1>9, NoWords
  <2>4. crop < ch.block => crop = Len(t)  BY <1>3, <2>1, <2>2
  <2> HIDE DEF crop, c
  <2> QED  BY <1>3, <1>9, <2>1, <2>2, <2>3, <2>4
<1>11. ch' \in Channel /\ ch'.buf = t /\ ch'.dma = ch.dma
  <2>1. CASE ch' = [c EXCEPT !.rdy = TRUE, !.busy = FALSE, !.drq = FALSE, !.err = FALSE, !.response = FALSE]
    <3> HIDE DEF c
    <3> QED  BY <1>9, <2>1 DEF Channel
  <2>2. CASE /\ ch' = [c EXCEPT !.index = 0, !.rdy = TRUE, !.busy = FALSE, !.drq = TRUE, !.block = crop,
                                !.limit = IF crop < c.block THEN crop ELSE @]
             /\ ~empty
    <3>1. crop \in Nat /\ limit \in Nat \ {0}  BY <1>10, <2>2
    <3>2. ch' = [c EXCEPT !.index = 0, !.rdy = TRUE, !.busy = FALSE, !.drq = TRUE, !.block = crop, !.limit = limit]
      BY <1>9, <2>2 DEF Channel
    <3> HIDE DEF crop, limit, c
    <3> DEFINE c1 == [c EXCEPT !.index = 0, !.rdy = TRUE, !.busy = FALSE]
    <3>3. c1 \in Channel /\ c1.buf = c.buf /\ c1.dma = c.dma  BY <1>9 DEF Channel
    <3>4. ch' = [c1 EXCEPT !.drq = TRUE, !.block = crop, !.limit = limit]  BY <1>9, <3>2 DEF Channel
    <3> HIDE DEF c1
    <3>5. ch' \in Channel /\ ch'.buf = c1.buf /\ ch'.dma = c1.dma  BY <3>1, <3>3, <3>4 DEF Channel
    <3> QED  BY <1>9, <3>3, <3>5
  <2>3. CASE ch' = c  BY <1>9, <2>3
  <2> QED  BY <1>5, <2>1, <2>2, <2>3
<1>12. DiskJob = NoJob  BY <1>1 DEF DiskJob, DiskJobs
<1> HIDE DEF c, empty, crop, limit
<1>13. CASE job.left = 1
  <2>1. job' = NoJob /\ t = << >>  BY <1>4, <1>7, <1>13, NoWords
  <2>2. IInv'  BY <1>1, <1>2, <1>6, <1>11, <2>1, TransferEnds
  <2>3. DiskJob' = NoJob  BY <2>1, NoJobIsJob DEF DiskJob, DiskJobs
  <2> QED  BY <1>1, <1>12, <2>2, <2>3, DiskIdles
<1>14. CASE job.left # 1
  <2>1. job.left - 1 \in Nat /\ job.left - 1 >= 1  BY <1>2, <1>14
  <2>2. job' \in Jobs /\ job'.kind = "response" /\ job'.left = job.left - 1
    BY <1>1, <1>2, <1>7, <1>14, <2>1 DEF Jobs
  <2>3. Types'  BY <1>1, <1>2, <1>6, <1>11, <2>2 DEF Types
  <2>4. job' # NoJob  BY <2>2 DEF NoJob
  <2>5. Transfer'
    BY <1>2, <1>4, <1>11, <2>1, <2>2, <2>4
       DEF Transfer, JobOK, ReadOK, WriteOK, IdentifyOK, ResponseOK, EmptyOK, DmaOK, DiskJobs, DmaJobs
  <2>6. DiskJob' = NoJob  BY <2>2 DEF DiskJob, DiskJobs
  <2> QED  BY <1>1, <1>12, <2>3, <2>5, <2>6, DiskIdles DEF IInv
<1> QED  BY <1>13, <1>14

-----------------------------------------------------------------------------
(* The bus master.                                                         *)

\* The k-th sector of the driver's buffer.
LEMMA BufferSector ==
    ASSUME IdeAssumption, ram \in Seq(Words), NEW n \in Nat, Len(ram) = n * W, NEW k \in 0 .. n - 1
    PROVE  SubSeq(ram, k * W + 1, (k + 1) * W) \in Sector
<1>1. W \in Nat \ {0} /\ k \in Nat /\ k + 1 <= n /\ k + 1 \in Nat  BY Positive
<1>2. k * W \in Nat /\ (k + 1) * W = k * W + W /\ (k + 1) * W <= n * W
  <2>1. \A x, y, z \in Nat : x <= y => x * z <= y * z  OBVIOUS
  <2>2. (k + 1) * W <= n * W  BY <1>1, <2>1
  <2>3. k * W \in Nat /\ (k + 1) * W = k * W + W  BY <1>1
  <2> QED  BY <2>2, <2>3
<1> DEFINE m == k * W
           e == (k + 1) * W
<1>3. \A i \in m + 1 .. e : ram[i] \in Words
  <2>1. \A i \in 1 .. Len(ram) : ram[i] \in Words  BY ElementOfSeq
  <2>2. m \in Nat /\ e = m + W /\ e <= Len(ram)  BY <1>2
  <2> HIDE DEF m, e
  <2>3. ASSUME NEW i \in m + 1 .. e PROVE i \in 1 .. Len(ram)  BY <1>1, <2>2
  <2> QED  BY <2>1, <2>3
<1>4. m \in Nat /\ e = m + W  BY <1>2
<1> HIDE DEF m, e
<1>5. m + 1 \in Int /\ e \in Int /\ e - (m + 1) + 1 = W /\ m + 1 <= e  BY <1>1, <1>4
<1>6. SubSeq(ram, m + 1, e) \in Seq(Words) /\ Len(SubSeq(ram, m + 1, e)) = W
  BY <1>3, <1>5, SubSeqProperties
<1> QED  BY <1>6, SectorOfWords DEF m, e

\* The pending transfer is moved, or the start bit is kept.
LEMMA StartBusMasterStep ==
    ASSUME IdeAssumption, IInv, StartBusMaster
    PROVE  IInv' /\ DiskStep
<1>1. UNCHANGED out  BY DEF StartBusMaster
<1>2. /\ ch \in Channel /\ irqs \in History /\ job \in Jobs /\ disk \in [Lbas -> Sector] /\ ram \in Seq(Words)
      /\ ch.dma \in Dmas
  BY Fields DEF IInv, Types
<1>3. irqs' \in History
  <2>1. Raised(ch, 0, 0) \/ Raised(ch, 1, 0)  BY <1>2 DEF StartBusMaster, Dmas, DmaJobs
  <2> QED  BY <1>2, <2>1, HistoryKept
<1>4. job.kind \notin {"read", "write", "identify", "response"} => ch.buf = << >>
  BY DEF IInv, Transfer, EmptyOK
<1>5. ch.dma.kind \in {"none", "dma_read", "dma_write", "response"}  BY <1>2 DEF Dmas, DmaJobs
<1>6. CASE ch.dma.kind = "none"
  <2>1. ch' = [ch EXCEPT !.start = TRUE] /\ UNCHANGED <<ram, disk, job>>  BY <1>6 DEF StartBusMaster
  <2>2. /\ ch' \in Channel /\ ch'.buf = ch.buf /\ ch'.dma = ch.dma /\ ch'.left = ch.left /\ ch'.addr = ch.addr
    BY <1>2, <2>1 DEF Channel
  <2> QED  BY <1>1, <1>3, <2>1, <2>2, TransferKept, DiskStutters
<1>7. ASSUME ch' = DmaFinished(ch), job' = NoJob, ch.buf = << >>, disk' \in [Lbas -> Sector], ram' \in Seq(Words)
      PROVE  IInv' /\ DiskJob' = NoJob
  <2>1. ch' \in Channel /\ ch'.buf = << >> /\ ch'.dma.kind = "none"  BY <1>2, <1>7, DmaFinishedChannel
  <2>2. IInv'  BY <1>3, <1>7, <2>1, TransferEnds
  <2> QED  BY <1>7, <2>2, NoJobIsJob DEF DiskJob, DiskJobs
<1>8. CASE ch.dma.kind \in DmaJobs
  <2>1. job.kind = ch.dma.kind /\ ch.dma.at = job.at /\ ch.dma.len = job.left
    BY <1>8 DEF IInv, Transfer, DmaOK, DmaJobs
  <2>2. /\ job.at + job.left <= Size /\ job.at \in Nat /\ job.left \in Nat /\ ch.buf = << >> /\ DiskJob = job
    BY <1>2, <1>4, <1>8, <2>1 DEF IInv, Transfer, JobOK, DiskJobs, DmaJobs, Jobs, DiskJob
  <2>3. CASE ch.dma.kind = "dma_read"
    <3>1. ram' = Slice(job.at, job.left) /\ ch' = DmaFinished(ch) /\ job' = NoJob /\ disk' = disk
      BY <2>1, <2>3 DEF StartBusMaster
    <3>2. Slice(job.at, job.left) \in Seq(Words)  BY <2>2, SliceWords DEF IInv
    <3>3. IInv' /\ DiskJob' = NoJob  BY <1>2, <1>7, <2>2, <3>1, <3>2
    <3>4. Slice(job.at, job.left) = Disk!Stored(disk, job.at, job.left)  BY DEF Slice, Disk!Stored
    <3>5. Disk!TransferIn
      BY <1>1, <2>1, <2>2, <2>3, <3>1, <3>3, <3>4 DEF Disk!TransferIn, DiskJob, DiskJobs, Disk!NoJob, NoJob
    <3> QED  BY <3>3, <3>5 DEF DiskStep, Disk!Next
  <2>4. CASE ch.dma.kind = "dma_write"
    <3>1. /\ disk' = [s \in Lbas |-> IF s \in job.at .. job.at + job.left - 1
                        THEN SubSeq(ram, (s - job.at) * W + 1, (s - job.at + 1) * W)
                        ELSE disk[s]]
          /\ ch' = DmaFinished(ch) /\ job' = NoJob /\ ram' = ram
      BY <2>1, <2>4 DEF StartBusMaster
    <3>2. disk' \in [Lbas -> Sector]
      <4>1. Len(ram) = job.left * W  BY <2>1, <2>4 DEF IInv, Transfer, DmaOK
      <4>2. ASSUME NEW s \in Lbas
            PROVE  (IF s \in job.at .. job.at + job.left - 1
                    THEN SubSeq(ram, (s - job.at) * W + 1, (s - job.at + 1) * W) ELSE disk[s]) \in Sector
        <5>1. CASE s \in job.at .. job.at + job.left - 1
          <6>1. s - job.at \in 0 .. job.left - 1  BY <2>2, <5>1
          <6>2. SubSeq(ram, (s - job.at) * W + 1, (s - job.at + 1) * W) \in Sector
            BY <1>2, <2>2, <4>1, <6>1, BufferSector
          <6> QED  BY <5>1, <6>2
        <5>2. CASE s \notin job.at .. job.at + job.left - 1  BY <1>2, <4>2, <5>2
        <5> QED  BY <5>1, <5>2
      <4> QED  BY <3>1, <4>2
    <3>3. IInv' /\ DiskJob' = NoJob  BY <1>2, <1>7, <2>2, <3>1, <3>2
    <3>4. Disk!TransferOut
      BY <1>1, <2>1, <2>2, <2>4, <3>1, <3>3 DEF Disk!TransferOut, DiskJob, DiskJobs, Disk!NoJob, NoJob
    <3> QED  BY <3>3, <3>4 DEF DiskStep, Disk!Next
  <2> QED  BY <1>8, <2>3, <2>4 DEF DmaJobs
<1>9. CASE ch.dma.kind = "response"
  <2>1. ram' = ch.dma.words /\ ch' = DmaFinished(ch) /\ job' = NoJob /\ disk' = disk
    BY <1>9 DEF StartBusMaster
  <2>2. job.kind = "response_dma"  BY <1>9 DEF IInv, Transfer, DmaOK, DmaJobs
  <2>3. ram' \in Seq(Words)  BY <1>2, <2>1 DEF Dmas
  <2>4. IInv' /\ DiskJob' = NoJob  BY <1>2, <1>4, <1>7, <2>1, <2>2, <2>3
  <2>5. DiskJob = NoJob  BY <2>2 DEF DiskJob, DiskJobs
  <2> QED  BY <2>1, <2>4, <2>5, DiskIdles
<1> QED  BY <1>5, <1>6, <1>8, <1>9 DEF DmaJobs

\* The start bit is cleared.
LEMMA StopBusMasterStep ==
    ASSUME IInv, StopBusMaster
    PROVE  IInv' /\ DiskStep
<1>1. UNCHANGED <<disk, ram, job, out, irqs>> /\ ch' = [ch EXCEPT !.start = FALSE]  BY DEF StopBusMaster
<1>2. ch \in Channel /\ irqs \in History  BY DEF IInv, Types
<1>3. /\ ch' \in Channel /\ ch'.buf = ch.buf /\ ch'.dma = ch.dma /\ ch'.left = ch.left /\ ch'.addr = ch.addr
  BY <1>1, <1>2 DEF Channel
<1> QED  BY <1>1, <1>2, <1>3, TransferKept, DiskStutters

-----------------------------------------------------------------------------
(* The invariant and the refinement.                                       *)

\* Every step keeps the invariant and is a step of the abstract disk.
LEMMA EveryStep ==
    ASSUME IdeAssumption, LbaOnly, IInv, [Next]_ideVars
    PROVE  IInv' /\ DiskStep
<1>1. CASE UNCHANGED ideVars
  <2>1. UNCHANGED <<ch, disk, ram, job, out, irqs>>  BY <1>1 DEF ideVars
  <2>2. ch' \in Channel /\ irqs' \in History  BY <2>1 DEF IInv, Types
  <2> QED  BY <2>1, <2>2, TransferKept, DiskStutters
<1>2. CASE \E n \in Counts, a \in Addrs, limit \in Limits, features \in {0, 1} : WriteRegs(n, a, limit, features)
  BY <1>2, WriteRegsStep
<1>3. CASE \E d \in {"disk", "cd", "none"} : SelectDrive(d)  BY <1>3, SelectDriveStep
<1>4. CASE \E nien, reset \in BOOLEAN : WriteControl(nien, reset)  BY <1>4, WriteControlStep
<1>5. CASE ReadStatus  BY <1>5, ReadStatusStep
<1>6. CASE MissingDrive  BY <1>6, MissingDriveStep
<1>7. CASE \E forCd \in BOOLEAN : Identify(forCd)  BY <1>7, IdentifyStep
<1>8. CASE \E kind \in {"seek", "flush", "calibrate"} : NoDataCommand(kind)  BY <1>8, NoDataCommandStep
<1>9. CASE DeviceReset  BY <1>9, DeviceResetStep
<1>10. CASE \E verify \in BOOLEAN : ReadSectors(verify)  BY <1>10, ReadSectorsStep
<1>11. CASE WriteSectors  BY <1>11, WriteSectorsStep
<1>12. CASE \E kind \in {"dma_read", "dma_write"} : DmaCommand(kind)  BY <1>12, DmaCommandStep
<1>13. CASE PacketCommand  BY <1>13, PacketCommandStep
<1>14. CASE \E w \in Data : WriteData(w)  BY <1>14, WriteDataStep
<1>15. CASE \E p \in Packets : WritePacket(p)  BY <1>15, WritePacketStep
<1>16. CASE ReadResponse  BY <1>16, ReadResponseStep
<1>17. CASE ReadData  BY <1>17, ReadDataStep
<1>18. CASE StartBusMaster  BY <1>18, StartBusMasterStep
<1>19. CASE StopBusMaster  BY <1>19, StopBusMasterStep
<1> QED
  BY <1>1, <1>2, <1>3, <1>4, <1>5, <1>6, <1>7, <1>8, <1>9, <1>10, <1>11, <1>12, <1>13, <1>14, <1>15,
     <1>16, <1>17, <1>18, <1>19 DEF Next

\* At power-on nothing is transferred and every sector is zero.
LEMMA InitHolds ==
    ASSUME IdeAssumption, Init
    PROVE  IInv /\ Disk!Init
<1>1. job = NoJob /\ ram = << >> /\ ch = PowerOn
  BY DEF Init
<1>2. << >> \in Seq(Words) /\ NoJob \in Jobs /\ NoJob.kind = "none"  BY EmptySeq, NoJobIsJob
<1>3. NoDma \in Dmas /\ NoDma.kind = "none"  BY EmptySeq DEF NoDma, Dmas
<1>4. [mode |-> "lba", lba |-> 0] \in LbaAddr  BY DEF LbaAddr
<1> DEFINE c == PowerOn
<1>5. c \in Channel /\ c.buf = << >> /\ c.dma = NoDma
  <2> DEFINE addr == [mode |-> "lba", lba |-> 0]
  <2>1. c = [err |-> FALSE, drq |-> FALSE, rdy |-> FALSE, busy |-> TRUE, drive |-> "disk", count |-> 1,
             addr |-> addr, limit |-> 1, features |-> 0, buf |-> << >>, left |-> 0, packet |-> FALSE,
             response |-> FALSE, index |-> 0, block |-> 0, viaDma |-> FALSE, dma |-> NoDma, start |-> FALSE,
             nien |-> FALSE]
    BY DEF PowerOn
  <2>2. addr \in LbaAddr  BY <1>4
  <2> HIDE DEF c, addr
  <2> QED  BY <1>2, <1>3, <2>1, <2>2 DEF Channel
<1> HIDE DEF c
<1>6. disk \in [Lbas -> Sector]
  <2>1. disk = [s \in Lbas |-> [i \in 1 .. W |-> "zero"]]  BY DEF Init
  <2>2. [i \in 1 .. W |-> "zero"] \in Sector  BY Positive DEF Sector
  <2> QED  BY <2>1, <2>2
<1>7. irqs \in History  BY DEF Init, History
<1>8. Types  BY <1>1, <1>2, <1>5, <1>6, <1>7 DEF Types, c
<1>9. Transfer
  BY <1>1, <1>2, <1>3, <1>5
     DEF Transfer, JobOK, ReadOK, WriteOK, IdentifyOK, ResponseOK, EmptyOK, DmaOK, DiskJobs, DmaJobs, c
<1>10. Disk!Init
  <2>1. DiskJob = NoJob  BY <1>1, <1>2 DEF DiskJob, DiskJobs
  <2> QED  BY <1>6, <2>1 DEF Disk!Init, Disk!NoJob, NoJob, DiskJob, DiskJobs, Sector
<1> QED  BY <1>8, <1>9, <1>10 DEF IInv

\* In every behaviour the channel's registers, buffer and bus master agree with the
\* transfer the driver is making (execute_command, the data port, try_handle_pending_dma).
THEOREM InductiveInvariant ==
    ASSUME IdeAssumption, LbaOnly
    PROVE  Spec => []IInv
<1>1. Init => IInv  BY InitHolds
<1>2. IInv /\ [Next]_ideVars => IInv'  BY EveryStep
<1> QED  BY <1>1, <1>2, PTL DEF Spec

\* The channel's fields, the disk, the driver's buffer and job and the history of
\* interrupts have their types: in particular sectors keep their W words.
THEOREM TypeCorrect ==
    ASSUME IdeAssumption, LbaOnly
    PROVE  Spec => []Types
<1>1. IInv => Types  BY DEF IInv
<1> QED  BY <1>1, InductiveInvariant, PTL

\* The channel implements the abstract disk: whatever the commands, the words of a
\* write are stored in the sectors it names, in order and nowhere else, and a read
\* returns the words of its sectors.
THEOREM ImplementsDisk ==
    ASSUME IdeAssumption, LbaOnly
    PROVE  Spec => ImplementsBlockDevice
<1>1. Init => Disk!Init  BY InitHolds
<1>2. IInv /\ [Next]_ideVars => [Disk!Next]_(Disk!bdVars)  BY EveryStep DEF DiskStep
<1>3. Spec => []IInv  BY InductiveInvariant
<1> QED  BY <1>1, <1>2, <1>3, PTL DEF Spec, Disk!Spec, ImplementsBlockDevice

-----------------------------------------------------------------------------
(* The handshake.                                                          *)

\* The request bit is set while the driver has words to move.
RequestOK ==
    /\ job.kind \in {"read", "write", "identify", "packet", "response"} => ch.drq
    /\ irqs.kind # "none" /\ job = NoJob => ~ch.drq

\* The command that is remembered is the one under way, and its interrupts are on.
KindOK ==
    irqs.kind # "none" /\ job # NoJob =>
        ~ch.nien /\ irqs.kind = IF job.kind \in DmaJobs THEN "dma" ELSE job.kind

\* A packet has moved no word of its response.
PacketOK == job.kind = "packet" => irqs.moved = 0

\* Sectors moved and interrupts raised so far.
Progress(first) ==
    IF job = NoJob THEN irqs.moved = irqs.n * W /\ irqs.raised = irqs.n
    ELSE /\ job.left <= irqs.n /\ irqs.moved = (irqs.n - job.left) * W + Len(job.words)
         /\ irqs.raised = irqs.n - job.left + first

\* The words of a packet response come in blocks: ch.index words of the current one
\* have been read, and the blocks before it.
Blocks(blocks) ==
    /\ irqs.moved = blocks * irqs.block + ch.index /\ ch.index < irqs.block
    /\ irqs.raised = 1 + blocks
    /\ ch.block = Min({irqs.block, job.left + ch.index})
PacketProgress ==
    /\ irqs.n >= 1 /\ irqs.block >= 1
    /\ IF job = NoJob THEN irqs.moved = irqs.n /\ irqs.raised = 2 + (irqs.n - 1) \div irqs.block
       ELSE irqs.moved = irqs.n - job.left /\ \E blocks \in Nat : Blocks(blocks)

Handshake ==
    /\ RequestOK /\ KindOK /\ PacketOK
    /\ irqs.kind = "read" => Progress(1)
    /\ irqs.kind = "write" => Progress(0)
    /\ irqs.kind = "dma" => irqs.raised = IF job = NoJob THEN 1 ELSE 0
    /\ irqs.kind = "response" => PacketProgress

\* A step that moves nothing and leaves the fields of a transfer.
LEMMA HandshakeKept ==
    ASSUME Handshake, irqs' = irqs, job' = job, job = NoJob => (ch'.drq => ch.drq),
           job # NoJob => /\ ch'.drq = ch.drq /\ ch'.nien = ch.nien
                          /\ ch'.index = ch.index /\ ch'.block = ch.block
    PROVE  Handshake'
<1>1. RequestOK' /\ KindOK' /\ PacketOK'
  BY NoJobIsJob DEF Handshake, RequestOK, KindOK, PacketOK
<1>2. \A first : Progress(first)' <=> Progress(first)  BY DEF Progress
<1>3. PacketProgress => PacketProgress'
  <2>1. CASE job = NoJob  BY <2>1 DEF PacketProgress
  <2>2. CASE job # NoJob
    <3>1. \A b \in Nat : Blocks(b)' <=> Blocks(b)  BY <2>2 DEF Blocks
    <3> QED  BY <2>2, <3>1 DEF PacketProgress
  <2> QED  BY <2>1, <2>2
<1>4. Progress(0)' <=> Progress(0)  BY <1>2
<1>5. Progress(1)' <=> Progress(1)  BY <1>2
<1> QED  BY <1>1, <1>3, <1>4, <1>5 DEF Handshake

\* A command whose interrupts are not counted.
LEMMA NotCounted ==
    ASSUME irqs'.kind = "none", job'.kind \in {"read", "write", "identify", "packet", "response"} => ch'.drq,
           job'.kind = "packet" => irqs'.moved = 0
    PROVE  Handshake'
BY DEF Handshake, RequestOK, KindOK, PacketOK

\* A command begins counting anew, and counts nothing when interrupts are disabled.
LEMMA Beginning ==
    /\ \A k : Fresh(ch, k) => irqs'.kind = "none" /\ irqs'.moved = 0
    /\ \A k, kind, n, b : Begins(ch, k, kind, n, b) =>
          /\ irqs'.kind = IF ch.nien THEN "none" ELSE kind
          /\ irqs'.moved = 0 /\ irqs'.n = n /\ irqs'.block = b
          /\ irqs'.raised = IF ch.nien THEN 0 ELSE k
BY DEF Fresh, Begins, Pulses

\* A job of a kind is not the driver at rest.
LEMMA JobKind ==
    ASSUME NEW kind, NEW a, NEW n
    PROVE  Job(kind, a, n).kind = kind /\ (kind # "none" => Job(kind, a, n) # NoJob)
BY DEF Job, NoJob

\* Steps that move no word and issue no command.
LEMMA QuietHandshake ==
    ASSUME IInv, Handshake,
           \/ \E n \in Counts, a \in Addrs, limit \in Limits, features \in {0, 1} : WriteRegs(n, a, limit, features)
           \/ \E d \in {"disk", "cd", "none"} : SelectDrive(d)
           \/ \E nien, reset \in BOOLEAN : WriteControl(nien, reset)
           \/ ReadStatus \/ MissingDrive \/ StopBusMaster
    PROVE  Handshake'
<1>1. ch \in Channel  BY DEF IInv, Types
<1>2. ASSUME NEW n \in Counts, NEW a \in Addrs, NEW limit \in Limits, NEW features \in {0, 1},
             WriteRegs(n, a, limit, features)
      PROVE  Handshake'
  <2>1. job = NoJob /\ irqs' = irqs /\ job' = job  BY <1>2 DEF WriteRegs, Between
  <2>2. ch'.drq = ch.drq  BY <1>1, <1>2 DEF WriteRegs, Channel
  <2> QED  BY <2>1, <2>2, HandshakeKept
<1>3. ASSUME NEW d \in {"disk", "cd", "none"}, SelectDrive(d) PROVE Handshake'
  <2>1. job = NoJob /\ irqs' = irqs /\ job' = job  BY <1>3 DEF SelectDrive, Between
  <2>2. ~ch'.drq  BY <1>1, <1>3 DEF SelectDrive, Channel
  <2> QED  BY <2>1, <2>2, HandshakeKept
<1>4. ASSUME NEW nien \in BOOLEAN, NEW reset \in BOOLEAN, WriteControl(nien, reset) PROVE Handshake'
  <2>1. job = NoJob /\ irqs' = irqs /\ job' = job  BY <1>4 DEF WriteControl, Between
  <2>2. ch'.drq = ch.drq  BY <1>1, <1>4 DEF WriteControl, Channel
  <2> QED  BY <2>1, <2>2, HandshakeKept
<1>5. ASSUME ReadStatus PROVE Handshake'
  <2>1. irqs' = irqs /\ job' = job  BY <1>5 DEF ReadStatus
  <2>2. ch'.drq = ch.drq /\ ch'.nien = ch.nien /\ ch'.index = ch.index /\ ch'.block = ch.block
    BY <1>1, <1>5 DEF ReadStatus, Channel
  <2> QED  BY <2>1, <2>2, HandshakeKept
<1>6. ASSUME MissingDrive PROVE Handshake'
  <2>1. job = NoJob /\ irqs' = irqs /\ job' = job  BY <1>6 DEF MissingDrive, Between
  <2>2. ch'.drq = ch.drq  BY <1>1, <1>6 DEF MissingDrive, Channel
  <2> QED  BY <2>1, <2>2, HandshakeKept
<1>7. ASSUME StopBusMaster PROVE Handshake'
  <2>1. irqs' = irqs /\ job' = job  BY <1>7 DEF StopBusMaster
  <2>2. ch'.drq = ch.drq /\ ch'.nien = ch.nien /\ ch'.index = ch.index /\ ch'.block = ch.block
    BY <1>1, <1>7 DEF StopBusMaster, Channel
  <2> QED  BY <2>1, <2>2, HandshakeKept
<1> QED  BY <1>2, <1>3, <1>4, <1>5, <1>6, <1>7

\* Commands: a read and a packet expect the driver at once, a write its first word.
LEMMA CommandHandshake ==
    ASSUME IdeAssumption, IInv, Handshake,
           \/ \E forCd \in BOOLEAN : Identify(forCd)
           \/ \E kind \in {"seek", "flush", "calibrate"} : NoDataCommand(kind)
           \/ DeviceReset
           \/ \E verify \in BOOLEAN : ReadSectors(verify)
           \/ WriteSectors
           \/ \E kind \in {"dma_read", "dma_write"} : DmaCommand(kind)
           \/ PacketCommand
    PROVE  Handshake'
<1> DEFINE s == Started
<1>1. /\ ch \in Channel /\ irqs \in History /\ ch.count \in Nat \ {0} /\ W \in Nat \ {0}
      /\ s \in Channel /\ s.nien = ch.nien
  <2>1. ch \in Channel /\ irqs \in History  BY DEF IInv, Types
  <2> QED  BY <2>1, Fields, Positive, StartedFields
<1>2. ASSUME irqs'.kind = "none" /\ irqs'.moved = 0, job' = NoJob PROVE Handshake'
  BY <1>2, NoJobIsJob, NotCounted
<1>3. ASSUME NEW forCd \in BOOLEAN, Identify(forCd) PROVE Handshake'
  <2>1. Fresh(ch, 0) \/ Fresh(ch, 1)  BY <1>3 DEF Identify
  <2>2. irqs'.kind = "none" /\ irqs'.moved = 0  BY <2>1, Beginning
  <2>3. job = NoJob  BY <1>3 DEF Identify, Command, Between
  <2>4. CASE ch' = Queued(s, [i \in 1 .. W |-> "id"]) /\ job' = Job("identify", 0, 1)
    <3> HIDE DEF s
    <3>1. ch'.drq  BY <1>1, <2>4 DEF Queued, Channel
    <3> QED  BY <2>2, <2>4, <3>1, JobKind, NotCounted
  <2>5. CASE job' = job  BY <1>2, <2>2, <2>3, <2>5
  <2> QED  BY <1>3, <2>4, <2>5 DEF Identify
<1>4. ASSUME NEW kind \in {"seek", "flush", "calibrate"}, NoDataCommand(kind) PROVE Handshake'
  <2>1. Fresh(ch, 1) /\ job' = NoJob  BY <1>4 DEF NoDataCommand, Command, Between
  <2> QED  BY <1>2, <2>1, Beginning
<1>5. ASSUME DeviceReset PROVE Handshake'
  <2>1. Fresh(ch, 0) /\ job' = NoJob  BY <1>5 DEF DeviceReset, Command, Between
  <2> QED  BY <1>2, <2>1, Beginning
<1>6. ASSUME NEW verify \in BOOLEAN, ReadSectors(verify) PROVE Handshake'
  <2>1. job = NoJob  BY <1>6 DEF ReadSectors, Command, Between
  <2>2. job' = job => Fresh(ch, 1)  BY <1>6 DEF ReadSectors
  <2>3. CASE job' = job  BY <1>2, <2>1, <2>2, <2>3, Beginning
  <2>4. CASE job' # job
    <3>1. ch' = Queued(s, Slice(First, ch.count)) /\ job' = Job("read", First, ch.count)
      BY <1>6, <2>4 DEF ReadSectors
    <3>2. Begins(ch, 1, "read", ch.count, W)  BY <1>6, <2>4 DEF ReadSectors
    <3> HIDE DEF s
    <3>3. ch'.drq /\ ch'.nien = ch.nien  BY <1>1, <3>1 DEF Queued, Channel
    <3>4. job'.kind = "read" /\ job' # NoJob  BY <3>1, JobKind
    <3>5. job'.left = ch.count /\ Len(job'.words) = 0  BY <3>1, EmptySeq DEF Job
    <3>6. CASE ch.nien  BY <3>2, <3>3, <3>6, Beginning, NotCounted
    <3>7. CASE ~ch.nien
      <4>1. irqs'.kind = "read" /\ irqs'.moved = 0 /\ irqs'.n = ch.count /\ irqs'.raised = 1
        BY <3>2, <3>7, Beginning
      <4>2. 0 * W + 0 = 0 /\ ch.count - ch.count = 0 /\ 0 + 1 = 1 /\ ch.count <= ch.count  BY <1>1
      <4>3. Progress(1)'  BY <3>4, <3>5, <4>1, <4>2 DEF Progress
      <4> QED  BY <3>3, <3>4, <3>7, <4>1, <4>3 DEF Handshake, RequestOK, KindOK, PacketOK, DmaJobs
    <3> QED  BY <3>6, <3>7
  <2> QED  BY <2>3, <2>4
<1>7. ASSUME WriteSectors PROVE Handshake'
  <2>1. /\ ch' = [s EXCEPT !.left = ch.count, !.drq = TRUE] /\ job' = Job("write", First, ch.count)
        /\ Begins(ch, 0, "write", ch.count, W)
    BY <1>7 DEF WriteSectors
  <2> HIDE DEF s
  <2>2. ch'.drq /\ ch'.nien = ch.nien  BY <1>1, <2>1 DEF Channel
  <2>3. job'.kind = "write" /\ job' # NoJob  BY <2>1, JobKind
  <2>4. job'.left = ch.count /\ Len(job'.words) = 0  BY <2>1, EmptySeq DEF Job
  <2>5. CASE ch.nien  BY <2>1, <2>2, <2>3, <2>5, Beginning, NotCounted
  <2>6. CASE ~ch.nien
    <3>1. irqs'.kind = "write" /\ irqs'.moved = 0 /\ irqs'.n = ch.count /\ irqs'.raised = 0
      BY <2>1, <2>6, Beginning
    <3>2. 0 * W + 0 = 0 /\ ch.count - ch.count = 0 /\ 0 + 0 = 0 /\ ch.count <= ch.count  BY <1>1
    <3>3. Progress(0)'  BY <2>3, <2>4, <3>1, <3>2 DEF Progress
    <3> QED  BY <2>2, <2>3, <2>6, <3>1, <3>3 DEF Handshake, RequestOK, KindOK, PacketOK, DmaJobs
  <2> QED  BY <2>5, <2>6
<1>8. ASSUME NEW kind \in {"dma_read", "dma_write"}, DmaCommand(kind) PROVE Handshake'
  <2>1. CASE ~Inside
    <3>1. Fresh(ch, 0) /\ job' = NoJob  BY <1>8, <2>1 DEF DmaCommand, Command, Between
    <3> QED  BY <1>2, <3>1, Beginning
  <2>2. CASE Inside
    <3>1. /\ ch' = [s EXCEPT !.dma = [kind |-> kind, at |-> First, len |-> ch.count, words |-> << >>]]
          /\ job' = Job(kind, First, ch.count) /\ Begins(ch, 0, "dma", ch.count, W)
      BY <1>8, <2>2 DEF DmaCommand
    <3> HIDE DEF s
    <3>2. ch'.nien = ch.nien  BY <1>1, <3>1 DEF Channel
    <3>3. job'.kind = kind /\ job' # NoJob  BY <3>1, JobKind
    <3>4. CASE ch.nien  BY <3>1, <3>3, <3>4, Beginning, NotCounted
    <3>5. CASE ~ch.nien
      <4>1. irqs'.kind = "dma" /\ irqs'.raised = 0  BY <3>1, <3>5, Beginning
      <4> QED  BY <3>2, <3>3, <3>5, <4>1 DEF Handshake, RequestOK, KindOK, PacketOK, DmaJobs
    <3> QED  BY <3>4, <3>5
  <2> QED  BY <2>1, <2>2
<1>9. ASSUME PacketCommand PROVE Handshake'
  <2>1. Fresh(ch, 0) /\ job' = Job("packet", 0, 1)  BY <1>9 DEF PacketCommand
  <2>2. ch' = [s EXCEPT !.viaDma = (ch.features = 1), !.busy = FALSE, !.drq = TRUE, !.buf = << >>, !.packet = TRUE]
    BY <1>9 DEF PacketCommand
  <2> HIDE DEF s
  <2>3. ch'.drq  BY <1>1, <2>2 DEF Channel
  <2>4. irqs'.kind = "none" /\ irqs'.moved = 0  BY <2>1, Beginning
  <2> QED  BY <2>3, <2>4, NotCounted
<1> QED  BY <1>3, <1>4, <1>5, <1>6, <1>7, <1>8, <1>9

\* What the counters hold.
LEMMA Counters ==
    ASSUME IInv
    PROVE  /\ irqs \in History /\ irqs.raised \in Nat /\ irqs.moved \in Nat /\ irqs.n \in Nat /\ irqs.block \in Nat
           /\ irqs.kind \in {"none", "read", "write", "dma", "response"}
           /\ \A k, n : Raised(ch, k, n) =>
                 /\ irqs'.moved = irqs.moved + n /\ irqs'.raised = irqs.raised + (IF ch.nien THEN 0 ELSE k)
                 /\ irqs'.kind = irqs.kind /\ irqs'.n = irqs.n /\ irqs'.block = irqs.block
BY DEF IInv, Types, History, Raised, Pulses

\* A word of a sector is counted: a sector that it completes is interrupted for
\* before the next one on reads and after it on writes.
LEMMA ProgressKept ==
    ASSUME IdeAssumption, IInv, job.kind \in {"read", "write"}, NEW first \in {0, 1}, Progress(first),
           NEW w \in Words, job' = Moved(w), NEW k \in {0, 1}, irqs'.moved = irqs.moved + 1,
           irqs'.raised = irqs.raised + k, irqs'.n = irqs.n,
           k = IF Len(job.words) + 1 = W /\ (job.left > 1 \/ first = 0) THEN 1 ELSE 0
    PROVE  Progress(first)'
<1> DEFINE len == Len(job.words)
           n == irqs.n
           x == (n - job.left) * W
<1>1. /\ job.left \in Nat /\ job.left >= 1 /\ W \in Nat \ {0} /\ n \in Nat /\ job # NoJob
      /\ irqs.raised \in Nat /\ irqs.moved \in Nat /\ len \in Nat /\ len < W
  <2>1. job \in Jobs /\ job.left >= 1  BY DEF IInv, Types, Transfer, JobOK, DiskJobs
  <2>2. len \in Nat /\ len < W  BY <2>1, MovedJob
  <2> QED  BY <2>1, <2>2, Positive, Counters, NoJobIsJob DEF Jobs
<1>2. job.left <= n /\ irqs.moved = x + len /\ irqs.raised = n - job.left + first  BY <1>1 DEF Progress
<1>3. x \in Nat  BY <1>1, <1>2
<1>4. CASE len + 1 < W
  <2>1. job'.kind = job.kind /\ job'.left = job.left /\ Len(job'.words) = len + 1
    BY <1>1, <1>4, MovedJob
  <2>2. k = 0 /\ job' # NoJob  BY <1>1, <1>4, <2>1, NoJobIsJob
  <2>3. irqs'.moved = (irqs'.n - job'.left) * W + Len(job'.words)
    <3>1. irqs'.moved = x + (len + 1)
      <4> HIDE DEF x, len
      <4> QED  BY <1>1, <1>2, <1>3
    <3> QED  BY <2>1, <3>1
  <2>4. job'.left <= irqs'.n /\ irqs'.raised = irqs'.n - job'.left + first
    <3>1. irqs'.n = n /\ irqs'.raised = irqs.raised + k  OBVIOUS
    <3> HIDE DEF x, n, len
    <3> QED  BY <1>1, <1>2, <2>1, <2>2, <3>1
  <2> QED  BY <2>2, <2>3, <2>4 DEF Progress
<1>5. CASE len + 1 = W /\ job.left = 1
  <2>1. job' = NoJob  BY <1>1, <1>5, MovedJob
  <2>2. irqs'.moved = irqs'.n * W
    <3>1. x = (n - 1) * W /\ (n - 1) * W = n * W - W /\ n * W \in Nat  BY <1>1, <1>5
    <3>2. irqs'.moved = x + W
      <4> HIDE DEF x, len
      <4> QED  BY <1>1, <1>2, <1>3, <1>5
    <3> HIDE DEF x, n
    <3>3. x + W = n * W
      <4> DEFINE y == n * W
      <4>1. x = y - W /\ y \in Nat  BY <3>1
      <4> HIDE DEF y
      <4>2. x + W = y  BY <1>1, <4>1
      <4> QED  BY <4>2 DEF y
    <3> QED  BY <3>2, <3>3 DEF n
  <2>3. irqs'.raised = irqs'.n
    <3>1. k = IF first = 0 THEN 1 ELSE 0  BY <1>5
    <3> QED  BY <1>1, <1>2, <1>5, <3>1
  <2> QED  BY <2>1, <2>2, <2>3 DEF Progress
<1>6. CASE len + 1 = W /\ job.left > 1
  <2>1. job'.kind = job.kind /\ job'.left = job.left - 1 /\ Len(job'.words) = 0
    <3>1. Len(<< >>) = 0  BY EmptySeq
    <3> QED  BY <1>1, <1>6, <3>1, MovedJob
  <2>2. k = 1 /\ job' # NoJob  BY <1>6, <2>1, NoJobIsJob
  <2>3. irqs'.moved = (irqs'.n - job'.left) * W + Len(job'.words)
    <3>1. irqs'.moved = x + W
      <4> HIDE DEF x, len
      <4> QED  BY <1>1, <1>2, <1>3, <1>6
    <3>2. \A a \in Int : (a + 1) * W = a * W + W /\ (a + 1) * W \in Int  BY <1>1
    <3>3. n - job'.left = (n - job.left) + 1 /\ n - job.left \in Int  BY <1>1, <2>1
    <3>4. (n - job'.left) * W = x + W /\ (n - job'.left) * W \in Int  BY <3>2, <3>3
    <3> DEFINE y == (n - job'.left) * W
    <3>5. y = x + W /\ y \in Int  BY <3>4
    <3>6. y + 0 = y
      <4> HIDE DEF y
      <4> QED  BY <3>5
    <3>7. irqs'.moved = y + 0
      <4> HIDE DEF x, y
      <4> QED  BY <3>1, <3>5, <3>6
    <3>8. irqs'.n = n  OBVIOUS
    <3> HIDE DEF x, n, len
    <3> QED  BY <2>1, <3>7, <3>8
  <2>4. job'.left <= irqs'.n /\ irqs'.raised = irqs'.n - job'.left + first
    <3>1. irqs'.n = n /\ irqs'.raised = irqs.raised + k  OBVIOUS
    <3> HIDE DEF x, n, len
    <3> QED  BY <1>1, <1>2, <2>1, <2>2, <3>1
  <2> QED  BY <2>2, <2>3, <2>4 DEF Progress
<1> QED  BY <1>1, <1>4, <1>5, <1>6

\* A word of a sector is written.
LEMMA WriteDataHandshake ==
    ASSUME IdeAssumption, IInv, Handshake, NEW w \in Data, WriteData(w)
    PROVE  Handshake'
<1>1. job.kind = "write" /\ job' = Moved(w) /\ w \in Words  BY Positive DEF WriteData
<1>2. /\ ch \in Channel /\ job \in Jobs /\ job.left >= 1 /\ ch.buf = job.words /\ ch.left = job.left
      /\ job # NoJob /\ W \in Nat \ {0} /\ job.left \in Nat
  BY <1>1, NoJobIsJob, Positive DEF IInv, Types, Transfer, JobOK, WriteOK, DiskJobs, Jobs
<1> DEFINE buf  == Append(ch.buf, w)
           full == Len(buf) = W
           drq  == ch.left > 1
           next == NextSector(ch.addr)
           left == ch.left - 1
<1>3. Len(buf) = Len(job.words) + 1 /\ Len(job.words) \in Nat /\ Len(job.words) < W
  BY <1>1, <1>2, MovedJob
<1>4. Raised(ch, IF full THEN 1 ELSE 0, 1)  BY DEF WriteData
<1>5. ch' = IF full THEN [ch EXCEPT !.buf = << >>, !.err = FALSE, !.addr = next, !.left = left, !.drq = drq]
            ELSE [ch EXCEPT !.buf = buf]
  BY DEF WriteData
<1>6. ch.drq \in BOOLEAN /\ drq \in BOOLEAN /\ ch.drq  BY <1>1, <1>2, Fields DEF Handshake, RequestOK
<1>7. full <=> Len(job.words) + 1 = W  BY <1>3
<1>8. (~full => job'.kind = "write") /\ (full /\ job.left = 1 => job' = NoJob)
      /\ (full /\ job.left > 1 => job'.kind = "write")
  BY <1>1, <1>2, <1>3, <1>7, MovedJob
<1>16. (job.left = 1 \/ job.left > 1) /\ (drq <=> job.left > 1) /\ ~(job.left = 1 /\ job.left > 1)
  BY <1>2
<1> HIDE DEF full, buf, drq, next, left
<1>9. ch'.nien = ch.nien /\ (full => ch'.drq = drq) /\ (~full => ch'.drq = ch.drq)
  BY <1>2, <1>5 DEF Channel
<1>10. job'.kind = "write" <=> job' # NoJob  BY <1>2, <1>8, NoJobIsJob
<1>11. RequestOK'
  <2>1. CASE full
    <3>1. CASE job.left = 1
      <4>1. job' = NoJob /\ ~ch'.drq  BY <1>6, <1>8, <1>9, <1>16, <2>1, <3>1
      <4> QED  BY <4>1, NoJobIsJob DEF RequestOK
    <3>2. CASE job.left > 1
      <4>1. job'.kind = "write" /\ job' # NoJob /\ ch'.drq  BY <1>6, <1>8, <1>9, <1>10, <1>16, <2>1, <3>2
      <4> QED  BY <4>1 DEF RequestOK
    <3> QED  BY <1>16, <3>1, <3>2
  <2>2. CASE ~full  BY <1>6, <1>8, <1>9, <1>10, <2>2 DEF RequestOK
  <2> QED  BY <2>1, <2>2
<1>12. irqs.kind \in {"none", "write"} /\ (irqs.kind # "none" => ~ch.nien)
  BY <1>1, <1>2 DEF Handshake, KindOK, DmaJobs
<1>13. irqs'.kind = irqs.kind  BY <1>4, Counters
<1>14. KindOK' /\ PacketOK'
  BY <1>9, <1>10, <1>12, <1>13, NoJobIsJob DEF KindOK, PacketOK, DmaJobs
<1>15. irqs.kind = "write" => Progress(0)'
  <2> SUFFICES ASSUME irqs.kind = "write" PROVE Progress(0)'  OBVIOUS
  <2> DEFINE k == IF full THEN 1 ELSE 0
  <2>1. Progress(0) /\ ~ch.nien  BY <1>12 DEF Handshake
  <2>2. irqs'.moved = irqs.moved + 1 /\ irqs'.raised = irqs.raised + k /\ irqs'.n = irqs.n
    BY <1>4, <2>1, Counters
  <2>3. k = IF Len(job.words) + 1 = W /\ (job.left > 1 \/ 0 = 0) THEN 1 ELSE 0  BY <1>7
  <2>4. k \in {0, 1} /\ 0 \in {0, 1} /\ job.kind \in {"read", "write"}  BY <1>1
  <2> HIDE DEF k
  <2> QED  BY <1>1, <2>1, <2>2, <2>3, <2>4, ProgressKept
<1> QED  BY <1>11, <1>12, <1>13, <1>14, <1>15 DEF Handshake

\* Whole sectors remain exactly when a sector has been read.
LEMMA SectorRead ==
    ASSUME IdeAssumption, NEW left \in Nat, left >= 1, NEW len \in Nat, len < W
    PROVE  /\ left * W - (len + 1) \in Nat
           /\ left * W - (len + 1) # 0 /\ (left * W - (len + 1)) % W = 0 <=> len + 1 = W /\ left > 1
           /\ left * W - (len + 1) = 0 <=> len + 1 = W /\ left = 1
<1> DEFINE q == left - 1
           r == W - (len + 1)
           x == W * q
<1>1. q \in Nat /\ r \in 0 .. W - 1 /\ W \in Nat \ {0} /\ left = q + 1  BY Positive
<1>2. left * W = x + W /\ x \in Nat
  <2>1. \A y \in Nat : (y + 1) * W = W * y + W /\ W * y \in Nat  BY <1>1
  <2> HIDE DEF r
  <2> QED  BY <1>1, <2>1
<1>3. q = 0 <=> x = 0  BY <1>1
<1>4. (x + r) % W = r
  <2>1. \A a \in Nat \ {0}, y, z \in Nat : z < a => (a * y + z) % a = z  OBVIOUS
  <2>2. r \in Nat /\ r < W  BY <1>1
  <2> HIDE DEF q, r
  <2> QED  BY <1>1, <2>1, <2>2
<1>5. left * W - (len + 1) = x + r
  <2> HIDE DEF x
  <2> QED  BY <1>1, <1>2
<1>6. r = 0 <=> len + 1 = W  BY Positive
<1>7. q = 0 <=> left = 1  OBVIOUS
<1> HIDE DEF q, r, x
<1>8. x + r \in Nat /\ (x + r = 0 <=> x = 0 /\ r = 0)  BY <1>1, <1>2
<1>9. left > 1 <=> left # 1  OBVIOUS
<1>10. x + r # 0 /\ r = 0 <=> r = 0 /\ x # 0  BY <1>8
<1> QED  BY <1>3, <1>4, <1>5, <1>6, <1>7, <1>8, <1>9, <1>10

\* A word of a sector, or of the identification, is read.
LEMMA ReadDataHandshake ==
    ASSUME IdeAssumption, IInv, Handshake, ReadData
    PROVE  Handshake'
<1> DEFINE w   == Head(ch.buf)
           t   == Tail(ch.buf)
           len == Len(job.words)
           drq == Len(ch.buf) > 1
<1>1. job.kind \in {"read", "identify"} /\ job' = Moved(w)  BY DEF ReadData
<1>2. /\ ch \in Channel /\ job \in Jobs /\ job # NoJob /\ W \in Nat \ {0} /\ job.left \in Nat
  BY <1>1, NoJobIsJob, Positive DEF IInv, Types, Jobs
<1>3. /\ w \in Words /\ t \in Seq(Words) /\ Len(t) = Len(ch.buf) - 1 /\ Len(ch.buf) \in Nat /\ Len(ch.buf) >= 1
      /\ job.left >= 1 /\ len \in Nat /\ len < W /\ Len(ch.buf) = job.left * W - len
  BY <1>1, NextWord
<1>4. Len(t) = job.left * W - (len + 1)
  <2>1. job.left * W \in Int  BY <1>2
  <2> QED  BY <1>3, <2>1
<1>5. /\ Len(t) # 0 /\ Len(t) % W = 0 <=> len + 1 = W /\ job.left > 1
      /\ Len(t) = 0 <=> len + 1 = W /\ job.left = 1
  <2> HIDE DEF t, len
  <2> DEFINE x == job.left * W - (len + 1)
  <2>1. /\ x # 0 /\ x % W = 0 <=> len + 1 = W /\ job.left > 1
        /\ x = 0 <=> len + 1 = W /\ job.left = 1
    BY <1>2, <1>3, SectorRead
  <2>2. Len(t) = x  BY <1>4
  <2> HIDE DEF x
  <2> QED  BY <2>1, <2>2
<1>6. t # << >> <=> Len(t) # 0  BY <1>3, NoWords, EmptySeq
<1> DEFINE k == IF len + 1 = W /\ job.left > 1 THEN 1 ELSE 0
<1>7. Raised(ch, k, 1)
  <2> DEFINE c == [ch EXCEPT !.buf = Tail(@), !.drq = (Len(ch.buf) > 1)]
  <2>1. Raised(ch, IF c.buf # << >> /\ Len(c.buf) % W = 0 THEN 1 ELSE 0, 1)  BY DEF ReadData
  <2>2. c.buf = t  BY <1>2 DEF Channel
  <2> HIDE DEF c, t
  <2> QED  BY <1>5, <1>6, <2>1, <2>2
<1>8. ch' = [ch EXCEPT !.buf = t, !.drq = drq]  BY DEF ReadData
<1>9. drq <=> Len(t) # 0
  <2>1. \A m, l \in Int : m >= 1 /\ l = m - 1 => (m > 1 <=> l # 0)  OBVIOUS
  <2> HIDE DEF t
  <2>2. Len(ch.buf) \in Int /\ Len(t) \in Int  BY <1>3
  <2> QED  BY <1>3, <2>1, <2>2
<1>10. /\ len + 1 < W => job'.kind = job.kind
       /\ len + 1 = W /\ job.left = 1 => job' = NoJob
       /\ len + 1 = W /\ job.left > 1 => job'.kind = job.kind
  BY <1>1, <1>3, MovedJob
<1> HIDE DEF w, t, drq
<1>11. ch'.drq = drq /\ ch'.nien = ch.nien  BY <1>2, <1>8 DEF Channel
<1>12. (job'.kind = job.kind /\ job' # NoJob) \/ job' = NoJob
  BY <1>1, <1>2, <1>3, <1>10, NoJobIsJob
<1>13. job' = NoJob <=> len + 1 = W /\ job.left = 1
  <2>1. len + 1 < W \/ (len + 1 = W /\ job.left = 1) \/ (len + 1 = W /\ job.left > 1)  BY <1>2, <1>3
  <2>2. CASE len + 1 < W
    <3>1. job'.kind = job.kind /\ len + 1 # W  BY <1>2, <1>3, <1>10, <2>2
    <3> QED  BY <1>1, <3>1, NoJobIsJob
  <2>3. CASE len + 1 = W /\ job.left = 1  BY <1>10, <2>3
  <2>4. CASE len + 1 = W /\ job.left > 1
    <3>1. job'.kind = job.kind /\ job.left # 1  BY <1>10, <2>4
    <3> QED  BY <1>1, <3>1, NoJobIsJob
  <2> QED  BY <2>1, <2>2, <2>3, <2>4
<1>14. RequestOK'  BY <1>5, <1>9, <1>11, <1>13, NoJobIsJob DEF RequestOK
<1>15. irqs.kind # "none" => irqs.kind = "read" /\ job.kind = "read" /\ ~ch.nien
  BY <1>1, <1>2, Counters DEF Handshake, KindOK, DmaJobs
<1>16. irqs'.kind = irqs.kind  BY <1>7, Counters
<1>17. KindOK' /\ PacketOK'
  BY <1>1, <1>11, <1>12, <1>15, <1>16, NoJobIsJob DEF KindOK, PacketOK, DmaJobs
<1>18. irqs.kind = "read" => Progress(1)'
  <2> SUFFICES ASSUME irqs.kind = "read" PROVE Progress(1)'  OBVIOUS
  <2>1. Progress(1) /\ ~ch.nien /\ job.kind \in {"read", "write"}  BY <1>15 DEF Handshake
  <2>2. irqs'.moved = irqs.moved + 1 /\ irqs'.raised = irqs.raised + k /\ irqs'.n = irqs.n
    BY <1>7, <2>1, Counters
  <2>3. k = IF Len(job.words) + 1 = W /\ (job.left > 1 \/ 1 = 0) THEN 1 ELSE 0  OBVIOUS
  <2>4. k \in {0, 1} /\ 1 \in {0, 1}  OBVIOUS
  <2> HIDE DEF k, len
  <2> QED  BY <1>1, <1>3, <2>1, <2>2, <2>3, <2>4, ProgressKept
<1> QED  BY <1>14, <1>15, <1>16, <1>17, <1>18 DEF Handshake

\* A packet is answered, and a response that is read counts from its first block.
LEMMA WritePacketHandshake ==
    ASSUME IdeAssumption, IInv, Handshake, NEW p \in Packets, WritePacket(p)
    PROVE  Handshake'
<1>1. job.kind = "packet"  BY DEF WritePacket
<1>2. /\ ch \in Channel /\ ch.buf = << >> /\ job # NoJob /\ irqs.kind = "none" /\ irqs.moved = 0
  <2>1. ch \in Channel /\ ch.buf = << >> /\ job # NoJob
    BY <1>1, NoJobIsJob DEF IInv, Types, Transfer, EmptyOK
  <2> QED  BY <1>1, <2>1, Counters DEF Handshake, KindOK, PacketOK, DmaJobs
<1>3. p.len \in Nat \ {0} /\ ch.limit \in Nat \ {0}  BY <1>2, Positive, Fields
<1> DEFINE a     == Answer(p)
           words == [i \in 1 .. p.len |-> "cd"]
           c     == [ch EXCEPT !.buf = << >>]
           d     == CASE "error" \in a -> Finished(c, TRUE)
                      [] a \cap {"done", "ack"} # {} -> Finished(c, FALSE)
                      [] OTHER -> c
           first == Cardinality(a \cap {"error", "done"})
           b     == Min({ch.limit, p.len})
           none  == ch.nien \/ "error" \in a
<1>4. \/ job' = NoJob /\ \E k : Raised(ch, k, 0)
      \/ job' = Job("response_dma", 0, p.len) /\ Raised(ch, first, 0)
      \/ /\ "data" \in a /\ ch' = [Responded(d, words) EXCEPT !.buf = words] /\ job' = Job("response", 0, p.len)
         /\ irqs' = [irqs EXCEPT !.raised = Pulses(ch, first + 1), !.n = p.len,
                                 !.kind = IF none THEN "none" ELSE "response", !.block = b]
  BY DEF WritePacket
<1>5. CASE job' = NoJob /\ \E k : Raised(ch, k, 0)
  <2>1. irqs'.kind = "none"  BY <1>2, <1>5, Counters
  <2> QED  BY <1>5, <2>1, NoJobIsJob, NotCounted
<1>6. CASE job' = Job("response_dma", 0, p.len) /\ Raised(ch, first, 0)
  <2>1. irqs'.kind = "none"  BY <1>2, <1>6, Counters
  <2>2. job'.kind = "response_dma"  BY <1>6, JobKind
  <2> QED  BY <2>1, <2>2, NotCounted
<1>7. CASE /\ "data" \in a /\ ch' = [Responded(d, words) EXCEPT !.buf = words] /\ job' = Job("response", 0, p.len)
           /\ irqs' = [irqs EXCEPT !.raised = Pulses(ch, first + 1), !.n = p.len,
                                   !.kind = IF none THEN "none" ELSE "response", !.block = b]
  <2>1. words \in Seq(Words) /\ Len(words) = p.len
    <3>1. words \in [1 .. p.len -> Words]  BY Positive
    <3> QED  BY <1>3, <3>1, FunctionIsSeq
  <2>2. c \in Channel /\ c.nien = ch.nien /\ c.limit = ch.limit  BY <1>2, EmptySeq DEF Channel
  <2>3. d \in {Finished(c, TRUE), Finished(c, FALSE), c}  OBVIOUS
  <2> HIDE DEF c, words
  <2>4. d \in Channel /\ d.nien = ch.nien /\ d.limit = ch.limit
    <3>1. \A err \in BOOLEAN : Finished(c, err).limit = c.limit  BY <2>2 DEF Finished, Channel
    <3> HIDE DEF d
    <3> QED  BY <2>2, <2>3, <3>1, FinishedChannel
  <2> HIDE DEF d
  <2> DEFINE r == Responded(d, words)
  <2>5. /\ r \in Channel /\ r.drq /\ r.nien = ch.nien /\ r.index = 0 /\ r.block = Min({ch.limit, p.len})
    BY <2>1, <2>4, RespondedChannel
  <2> HIDE DEF r
  <2>6. /\ ch'.drq /\ ch'.nien = ch.nien /\ ch'.index = 0 /\ ch'.block = b
    <3>1. ch' = [r EXCEPT !.buf = words]  BY <1>7 DEF r
    <3>2. ch'.drq = r.drq /\ ch'.nien = r.nien /\ ch'.index = r.index /\ ch'.block = r.block
      BY <2>5, <3>1 DEF Channel
    <3> QED  BY <2>5, <3>2
  <2>7. job'.kind = "response" /\ job' # NoJob /\ job'.left = p.len
    <3>1. job'.left = p.len  BY <1>7 DEF Job
    <3> QED  BY <1>7, <3>1, JobKind
  <2>8. /\ irqs'.kind = (IF none THEN "none" ELSE "response") /\ irqs'.n = p.len /\ irqs'.block = b
        /\ irqs'.raised = Pulses(ch, first + 1) /\ irqs'.moved = 0
    <3> HIDE DEF none, b, first, a
    <3> QED  BY <1>2, <1>7, Counters DEF History
  <2>9. b \in Nat /\ b >= 1 /\ b <= p.len
    <3>1. ch.limit \in Int /\ p.len \in Int  BY <1>3
    <3>2. b \in {ch.limit, p.len} /\ b <= p.len  BY <3>1, MinOfTwo
    <3> HIDE DEF b
    <3> QED  BY <1>3, <3>2
  <2>10. CASE none  BY <2>6, <2>7, <2>8, <2>10, NotCounted
  <2>11. CASE ~none
    <3>1. a \cap {"error", "done"} = {}
      <4>1. "error" \notin a /\ "data" \in a  BY <1>7, <2>11
      <4>2. "done" \notin a  BY <4>1 DEF Answer, ModeSense, GetEventStatus, ReadSubchannel
      <4> QED  BY <4>1, <4>2
    <3>2. first = 0  BY <3>1, FS_EmptySet
    <3>3. irqs'.raised = 1 /\ ~ch.nien  BY <2>8, <2>11, <3>2 DEF Pulses
    <3>4. irqs'.kind = "response"  BY <2>8, <2>11
    <3> HIDE DEF b, none, first, a
    <3>5. Min({b, p.len}) = b
      <4>1. b \in Int /\ p.len \in Int  BY <1>3, <2>9
      <4>2. Min({b, p.len}) \in {b, p.len} /\ Min({b, p.len}) <= b  BY <4>1, MinOfTwo
      <4> QED  BY <1>3, <2>9, <4>2
    <3>6. Blocks(0)'
      <4>1. 0 * b + 0 = 0 /\ 0 < b /\ 1 + 0 = 1 /\ p.len + 0 = p.len  BY <1>3, <2>9
      <4> QED  BY <2>6, <2>7, <2>8, <3>3, <3>5, <4>1 DEF Blocks
    <3>7. PacketProgress'
      <4>1. irqs'.moved = irqs'.n - job'.left /\ irqs'.n >= 1 /\ irqs'.block >= 1  BY <1>3, <2>7, <2>8, <2>9
      <4>2. \E k \in Nat : Blocks(k)'  BY <3>6
      <4> QED  BY <2>7, <4>1, <4>2 DEF PacketProgress
    <3> QED  BY <2>6, <2>7, <3>3, <3>4, <3>7 DEF Handshake, RequestOK, KindOK, PacketOK, DmaJobs
  <2> QED  BY <2>10, <2>11
<1> QED  BY <1>4, <1>5, <1>6, <1>7

\* The pending transfer ends with one interrupt.
LEMMA StartBusMasterHandshake ==
    ASSUME IdeAssumption, IInv, Handshake, StartBusMaster
    PROVE  Handshake'
<1>1. ch \in Channel /\ ch.dma \in Dmas  BY Fields DEF IInv, Types
<1>2. ch.dma.kind \in {"none", "dma_read", "dma_write", "response"}  BY <1>1 DEF Dmas, DmaJobs
<1>3. CASE ch.dma.kind = "none"
  <2>1. ch' = [ch EXCEPT !.start = TRUE] /\ job' = job /\ Raised(ch, 0, 0)  BY <1>3 DEF StartBusMaster
  <2>2. irqs' = irqs
    <3>1. irqs.raised + Pulses(ch, 0) = irqs.raised /\ irqs.moved + 0 = irqs.moved  BY Counters DEF Pulses
    <3>2. irqs' = [irqs EXCEPT !.raised = irqs.raised, !.moved = irqs.moved]  BY <2>1, <3>1 DEF Raised
    <3> QED  BY <3>2, Counters DEF History
  <2>3. ch'.drq = ch.drq /\ ch'.nien = ch.nien /\ ch'.index = ch.index /\ ch'.block = ch.block
    BY <1>1, <2>1 DEF Channel
  <2> QED  BY <2>1, <2>2, <2>3, HandshakeKept
<1>4. CASE ch.dma.kind # "none"
  <2>1. ch' = DmaFinished(ch) /\ job' = NoJob /\ Raised(ch, 1, 0)  BY <1>2, <1>4 DEF StartBusMaster
  <2>2. ~ch'.drq  BY <1>1, <2>1, DmaFinishedChannel
  <2>3. job.kind \in DmaJobs \cup {"response_dma"} /\ job # NoJob
    BY <1>4, NoJobIsJob DEF IInv, Transfer, DmaOK, DmaJobs
  <2>4. irqs.kind # "none" => irqs.kind = "dma" /\ ~ch.nien /\ irqs.raised = 0
    <3>1. irqs.kind # "none" => irqs.kind = "dma" /\ ~ch.nien
      BY <2>3, Counters DEF Handshake, KindOK, DmaJobs
    <3> QED  BY <2>3, <3>1 DEF Handshake
  <2>5. irqs'.kind = irqs.kind /\ (irqs.kind # "none" => irqs'.raised = 1)  BY <2>1, <2>4, Counters
  <2> QED  BY <2>1, <2>2, <2>4, <2>5, NoJobIsJob DEF Handshake, RequestOK, KindOK, PacketOK
<1> QED  BY <1>3, <1>4

\* A word of a response is counted, in blocks.
LEMMA BlocksKept ==
    ASSUME NEW left \in Nat, left > 1, NEW index \in Nat, NEW block \in Nat, NEW B \in Nat, B >= 1, index < B,
           block = Min({B, left + index})
    PROVE  /\ block <= index + 1 => index + 1 = B /\ block = B
           /\ block > index + 1 => index + 1 < B /\ block = Min({B, (left - 1) + (index + 1)})
<1>1. B \in Int /\ left + index \in Int  OBVIOUS
<1>2. block \in {B, left + index} /\ block <= B /\ block <= left + index  BY <1>1, MinOfTwo
<1>3. (left - 1) + (index + 1) = left + index  OBVIOUS
<1>4. block = B \/ block = left + index  BY <1>2
<1>5. left + index > index + 1  OBVIOUS
<1>6. ASSUME block <= index + 1 PROVE index + 1 = B /\ block = B  BY <1>2, <1>4, <1>5, <1>6
<1>7. ASSUME block > index + 1 PROVE index + 1 < B  BY <1>2, <1>7
<1> QED  BY <1>3, <1>6, <1>7

\* A word of a packet response is read.
LEMMA ReadResponseHandshake ==
    ASSUME IdeAssumption, IInv, Handshake, ReadResponse
    PROVE  Handshake'
<1> DEFINE t     == Tail(ch.buf)
           index == ch.index + 1
           c     == [ch EXCEPT !.buf = t, !.index = index]
           empty == c.buf = << >>
           ends  == c.index >= c.block
           crop  == Min({c.block, Len(c.buf)})
<1>1. job.kind = "response"  BY DEF ReadResponse
<1>2. /\ ch \in Channel /\ irqs \in History /\ job \in Jobs /\ job # NoJob
      /\ Len(ch.buf) = job.left /\ job.left >= 1 /\ job.left \in Nat
  BY <1>1, NoJobIsJob DEF IInv, Types, Transfer, ResponseOK, Jobs
<1>3. ch.buf \in Seq(Words) /\ ch.index \in Nat /\ ch.block \in Nat /\ ch.drq \in BOOLEAN  BY <1>2, Fields
<1>4. t \in Seq(Words) /\ Len(t) = job.left - 1
  <2>1. ch.buf # << >>  BY <1>2, <1>3, EmptySeq
  <2> QED  BY <1>2, <1>3, <2>1, HeadTailProperties
<1>5. /\ empty => ch' = [c EXCEPT !.rdy = TRUE, !.busy = FALSE, !.drq = FALSE, !.err = FALSE, !.response = FALSE]
      /\ ~empty /\ ends => ch' = [c EXCEPT !.index = 0, !.rdy = TRUE, !.busy = FALSE, !.drq = TRUE, !.block = crop,
                                           !.limit = IF crop < c.block THEN crop ELSE @]
      /\ ~empty /\ ~ends => ch' = c
  BY DEF ReadResponse
<1>6. Raised(ch, IF empty \/ ends THEN 1 ELSE 0, 1)  BY DEF ReadResponse
<1>7. job' = IF job.left = 1 THEN NoJob ELSE [job EXCEPT !.left = @ - 1]  BY DEF ReadResponse
<1>8. index \in Nat /\ index = ch.index + 1  BY <1>3
<1> HIDE DEF t, index
<1>9. /\ c \in Channel /\ c.buf = t /\ c.block = ch.block /\ c.index = index /\ c.nien = ch.nien /\ c.drq = ch.drq
  BY <1>2, <1>4, <1>8 DEF Channel
<1>10. empty <=> job.left = 1
  <2>1. t = << >> <=> Len(t) = 0  BY <1>4, NoWords, EmptySeq
  <2> HIDE DEF c
  <2> QED  BY <1>2, <1>4, <1>9, <2>1
<1>11. ends <=> ch.block <= index
  <2> HIDE DEF c
  <2> QED  BY <1>3, <1>8, <1>9
<1>12. crop = Min({ch.block, job.left - 1})
  <2> HIDE DEF c
  <2> QED  BY <1>4, <1>9
<1> HIDE DEF c, empty, ends, crop
<1>13. ch.drq  BY <1>1 DEF Handshake, RequestOK
<1>14. irqs.kind # "none" => irqs.kind = "response" /\ ~ch.nien /\ PacketProgress
  BY <1>1, <1>2 DEF Handshake, KindOK, DmaJobs
<1>15. irqs'.kind = irqs.kind /\ irqs'.moved = irqs.moved + 1 /\ irqs'.n = irqs.n /\ irqs'.block = irqs.block
       /\ (~ch.nien => irqs'.raised = irqs.raised + (IF empty \/ ends THEN 1 ELSE 0))
  BY <1>6, Counters
<1>16. irqs.raised \in Nat /\ irqs.moved \in Nat /\ irqs.n \in Nat /\ irqs.block \in Nat  BY Counters
<1>17. ASSUME irqs.kind = "response"
       PROVE  /\ irqs.n >= 1 /\ irqs.block >= 1 /\ irqs.moved = irqs.n - job.left
              /\ \E blocks \in Nat : Blocks(blocks)
  BY <1>2, <1>14, <1>17 DEF PacketProgress
<1>18. CASE job.left = 1
  <2>1. job' = NoJob  BY <1>7, <1>18
  <2>2. ~ch'.drq  BY <1>5, <1>9, <1>10, <1>18 DEF Channel
  <2>3. ASSUME irqs.kind = "response" PROVE PacketProgress'
    <3>1. PICK blocks \in Nat : Blocks(blocks)  BY <1>17, <2>3
    <3> DEFINE k == irqs.n - 1
               B == irqs.block
    <3>2. irqs.moved = k /\ k \in Nat /\ B \in Nat \ {0} /\ irqs.n = k + 1  BY <1>16, <1>17, <1>18, <2>3
    <3>3. k = blocks * B + ch.index /\ ch.index < B /\ irqs.raised = 1 + blocks  BY <3>1, <3>2 DEF Blocks
    <3> HIDE DEF k
    <3>4. k \div B = blocks
      <4>1. \A w \in Nat \ {0}, q, r \in Nat : r < w => (w * q + r) \div w = q  OBVIOUS
      <4>2. blocks * B = B * blocks  BY <3>2
      <4> HIDE DEF B
      <4>3. k = B * blocks + ch.index  BY <3>3, <4>2
      <4> QED  BY <1>3, <3>2, <3>3, <4>1, <4>3
    <3>5. irqs'.raised = 2 + k \div B
      <4>1. irqs'.raised = irqs.raised + 1  BY <1>10, <1>14, <1>15, <1>18, <2>3
      <4> QED  BY <3>3, <3>4, <4>1
    <3>6. irqs'.moved = irqs'.n  BY <1>15, <3>2
    <3> QED  BY <1>15, <1>17, <2>1, <2>3, <3>5, <3>6 DEF PacketProgress, k
  <2> QED  BY <1>14, <1>15, <2>1, <2>2, <2>3, NoJobIsJob DEF Handshake, RequestOK, KindOK, PacketOK
<1>19. CASE job.left # 1
  <2>1. job' = [job EXCEPT !.left = @ - 1] /\ ~empty /\ job.left > 1  BY <1>2, <1>7, <1>10, <1>19
  <2>2. job'.kind = "response" /\ job'.left = job.left - 1 /\ job' # NoJob
    BY <1>1, <1>2, <2>1, NoJobIsJob DEF Jobs
  <2>3. /\ ch'.drq /\ ch'.nien = ch.nien
        /\ ends => ch'.index = 0 /\ ch'.block = crop
        /\ ~ends => ch'.index = index /\ ch'.block = ch.block
    <3>1. CASE ends
      <4> DEFINE limit == IF crop < c.block THEN crop ELSE c.limit
                 c1 == [c EXCEPT !.index = 0, !.rdy = TRUE, !.busy = FALSE]
                 c2 == [c1 EXCEPT !.drq = TRUE, !.block = crop]
      <4>1. ch' = [c EXCEPT !.index = 0, !.rdy = TRUE, !.busy = FALSE, !.drq = TRUE, !.block = crop, !.limit = limit]
        BY <1>5, <1>9, <2>1, <3>1 DEF Channel
      <4>2. crop \in Nat
        <5>1. ch.block \in Int /\ job.left - 1 \in Int  BY <1>2, <1>3
        <5>2. crop \in {ch.block, job.left - 1}  BY <1>12, <5>1, MinOfTwo
        <5>3. job.left - 1 \in Nat  BY <1>2
        <5> QED  BY <1>3, <5>2, <5>3
      <4> HIDE DEF limit
      <4>3. c1 \in Channel /\ c1.nien = c.nien /\ c1.index = 0  BY <1>9 DEF Channel
      <4>4. ch' = [c1 EXCEPT !.drq = TRUE, !.block = crop, !.limit = limit]  BY <1>9, <4>1 DEF Channel
      <4> HIDE DEF c1
      <4>5. c2 \in Channel /\ c2.nien = c1.nien /\ c2.index = c1.index /\ c2.drq /\ c2.block = crop
        BY <4>2, <4>3 DEF Channel
      <4>6. ch' = [c2 EXCEPT !.limit = limit]  BY <4>3, <4>4 DEF Channel
      <4> HIDE DEF c2
      <4>7. ch'.nien = c2.nien /\ ch'.index = c2.index /\ ch'.drq = c2.drq /\ ch'.block = c2.block
        BY <4>5, <4>6 DEF Channel
      <4> QED  BY <1>9, <3>1, <4>3, <4>5, <4>7
    <3>2. CASE ~ends  BY <1>5, <1>9, <1>13, <2>1, <3>2
    <3> QED  BY <3>1, <3>2
  <2>4. ASSUME irqs.kind = "response" PROVE PacketProgress'
    <3>1. PICK blocks \in Nat : Blocks(blocks)  BY <1>17, <2>4
    <3> DEFINE B == irqs.block
               x == blocks * B
    <3>2. /\ irqs.moved = x + ch.index /\ ch.index < B /\ irqs.raised = 1 + blocks
          /\ ch.block = Min({B, job.left + ch.index})
      BY <3>1 DEF Blocks
    <3>3. B \in Nat /\ B >= 1 /\ x \in Nat  BY <1>16, <1>17, <2>4
    <3>4. x + B = (blocks + 1) * B
      <4>1. \A a, z \in Nat : a * z + z = (a + 1) * z  OBVIOUS
      <4> HIDE DEF B
      <4> QED  BY <3>3, <4>1
    <3> HIDE DEF B
    <3>5. /\ ch.block <= ch.index + 1 => ch.index + 1 = B /\ ch.block = B
          /\ ch.block > ch.index + 1 => ch.index + 1 < B /\ ch.block = Min({B, (job.left - 1) + (ch.index + 1)})
      <4>1. job.left \in Nat /\ job.left > 1 /\ ch.index \in Nat /\ ch.block \in Nat  BY <1>2, <1>3, <2>1
      <4>2. B \in Nat /\ B >= 1 /\ ch.index < B /\ ch.block = Min({B, job.left + ch.index})  BY <3>2, <3>3
      <4> QED  BY <4>1, <4>2, BlocksKept
    <3> HIDE DEF x
    <3>6. irqs'.moved = x + index  BY <1>3, <1>8, <1>15, <3>2, <3>3
    <3>7. CASE ends
      <4>1. index = B /\ ch.block = B  BY <1>8, <1>11, <3>5, <3>7
      <4>2. irqs'.raised = 1 + (blocks + 1)  BY <1>14, <1>15, <1>16, <2>4, <3>2, <3>7
      <4>3. irqs'.moved = (blocks + 1) * irqs'.block + ch'.index
        <5>1. irqs'.moved = x + B /\ irqs'.block = B /\ ch'.index = 0  BY <1>15, <2>3, <3>6, <3>7, <4>1 DEF B
        <5>2. x + B + 0 = x + B  BY <3>3
        <5> QED  BY <3>4, <5>1, <5>2
      <4>4. ch'.index < irqs'.block /\ ch'.block = Min({irqs'.block, job'.left + ch'.index})
        <5>1. job'.left + 0 = job.left - 1  BY <1>2, <2>2
        <5>2. ch'.index = 0 /\ ch'.block = Min({ch.block, job.left - 1})  BY <1>12, <2>3, <3>7
        <5>3. irqs'.block = B  BY <1>15 DEF B
        <5>4. job'.left + ch'.index = job.left - 1  BY <5>1, <5>2
        <5>5. ch'.index < irqs'.block  BY <3>3, <5>2, <5>3
        <5>6. {irqs'.block, job'.left + ch'.index} = {ch.block, job.left - 1}  BY <4>1, <5>3, <5>4
        <5> QED  BY <5>2, <5>5, <5>6
      <4>5. Blocks(blocks + 1)'  BY <4>2, <4>3, <4>4 DEF Blocks
      <4> DEFINE m == blocks + 1
      <4>6. m \in Nat /\ Blocks(m)'  BY <4>5
      <4> HIDE DEF m
      <4>7. \E k \in Nat : Blocks(k)'  BY <4>6
      <4>8. irqs'.moved = irqs'.n - job'.left  BY <1>2, <1>15, <1>16, <1>17, <2>2, <2>4
      <4> QED  BY <1>15, <1>17, <2>2, <2>4, <4>7, <4>8 DEF PacketProgress
    <3>8. CASE ~ends
      <4>1. ch.block > ch.index + 1  BY <1>3, <1>8, <1>11, <3>8
      <4>2. index < B /\ ch.block = Min({B, (job.left - 1) + index})  BY <1>8, <3>5, <4>1
      <4>3. irqs'.raised = 1 + blocks  BY <1>14, <1>15, <1>16, <2>1, <2>4, <3>2, <3>8
      <4>4. irqs'.moved = blocks * irqs'.block + ch'.index  BY <1>15, <2>3, <3>6, <3>8 DEF B, x
      <4>5. ch'.index < irqs'.block /\ ch'.block = Min({irqs'.block, job'.left + ch'.index})
        BY <1>15, <2>2, <2>3, <3>8, <4>2 DEF B
      <4>6. Blocks(blocks)'  BY <4>3, <4>4, <4>5 DEF Blocks
      <4>7. \E k \in Nat : Blocks(k)'  BY <4>6
      <4>8. irqs'.moved = irqs'.n - job'.left  BY <1>2, <1>15, <1>16, <1>17, <2>2, <2>4
      <4> QED  BY <1>15, <1>17, <2>2, <2>4, <4>7, <4>8 DEF PacketProgress
    <3> QED  BY <3>7, <3>8
  <2> QED  BY <1>14, <1>15, <2>2, <2>3, <2>4 DEF Handshake, RequestOK, KindOK, PacketOK, DmaJobs
<1> QED  BY <1>18, <1>19

\* The handshake is exact while the counters are.
LEMMA HandshakeImplies ==
    ASSUME IdeAssumption, IInv, Handshake
    PROVE  HandshakeExact
<1> DEFINE k == irqs.moved
           n == irqs.n
<1>1. k \in Nat /\ n \in Nat /\ irqs.block \in Nat /\ irqs.raised \in Nat /\ W \in Nat \ {0}
      /\ irqs.kind \in {"none", "read", "write", "dma", "response"}
  BY Counters, Positive
<1>2. \A w \in Nat \ {0}, q, r \in Nat : r < w => (w * q + r) \div w = q  OBVIOUS
<1>3. ASSUME irqs.kind \in {"read", "write"}, NEW first \in {0, 1}, Progress(first)
      PROVE  /\ job = NoJob => k \div W = n /\ irqs.raised = n
             /\ job # NoJob => k \div W < n /\ irqs.raised = (k \div W) + first /\ k \div W \in Nat
  <2>1. CASE job = NoJob
    <3>1. k = n * W /\ irqs.raised = n  BY <1>3, <2>1 DEF Progress
    <3>2. k = W * n + 0  BY <1>1, <3>1
    <3> HIDE DEF k, n
    <3> QED  BY <1>1, <1>2, <2>1, <3>1, <3>2
  <2>2. CASE job # NoJob
    <3>1. job.kind \in {"read", "write"}  BY <1>3, <2>2 DEF Handshake, KindOK, DmaJobs
    <3>2. job.left \in Nat /\ job.left >= 1 /\ Len(job.words) < W /\ job.words \in Seq(Words)
      BY <3>1 DEF IInv, Types, Transfer, JobOK, DiskJobs, Jobs
    <3>3. Len(job.words) \in Nat  BY <3>2, LenProperties
    <3> DEFINE q == n - job.left
               r == Len(job.words)
    <3>4. job.left <= n /\ k = q * W + r /\ irqs.raised = q + first  BY <1>3, <2>2 DEF Progress
    <3>5. q \in Nat /\ q < n /\ r \in Nat /\ r < W  BY <1>1, <3>2, <3>3, <3>4
    <3> HIDE DEF q, r, k
    <3>6. k = W * q + r  BY <1>1, <3>4, <3>5
    <3>7. k \div W = q  BY <1>1, <1>2, <3>5, <3>6
    <3> QED  BY <2>2, <3>4, <3>5, <3>7
  <2> QED  BY <2>1, <2>2
<1>4. ASSUME irqs.kind = "read" PROVE irqs.raised = Min({n, 1 + k \div W})
  <2>1. Progress(1)  BY <1>4 DEF Handshake
  <2> DEFINE q == k \div W
  <2>2. /\ job = NoJob => q = n /\ irqs.raised = n
        /\ job # NoJob => q < n /\ irqs.raised = q + 1 /\ q \in Nat
    BY <1>3, <1>4, <2>1
  <2>3. q \in Nat /\ ((irqs.raised = n /\ n < 1 + q) \/ (irqs.raised = 1 + q /\ 1 + q <= n))
    <3> HIDE DEF q, n
    <3>1. n \in Nat  BY <1>1
    <3>2. CASE job = NoJob
      <4>1. q = n /\ irqs.raised = n  BY <2>2, <3>2
      <4>2. q \in Nat  BY <3>1, <4>1
      <4>3. \A m \in Nat : m < 1 + m  OBVIOUS
      <4>4. n < 1 + q  BY <3>1, <4>1, <4>3
      <4> QED  BY <4>1, <4>2, <4>4
    <3>3. CASE job # NoJob
      <4>1. q < n /\ irqs.raised = q + 1 /\ q \in Nat  BY <2>2, <3>3
      <4>2. q + 1 = 1 + q /\ 1 + q <= n  BY <3>1, <4>1
      <4> QED  BY <4>1, <4>2
    <3> QED  BY <3>2, <3>3
  <2> HIDE DEF q, n
  <2>4. n \in Int /\ 1 + q \in Int  BY <1>1, <2>3
  <2>5. Min({n, 1 + q}) \in {n, 1 + q} /\ Min({n, 1 + q}) <= n /\ Min({n, 1 + q}) <= 1 + q
    BY <2>4, MinOfTwo
  <2>6. irqs.raised = Min({n, 1 + q})  BY <2>3, <2>4, <2>5
  <2> QED  BY <2>6 DEF q
<1>5. ASSUME irqs.kind = "write" PROVE irqs.raised = k \div W
  <2>1. Progress(0)  BY <1>5 DEF Handshake
  <2> QED  BY <1>3, <1>5, <2>1
<1>6. ASSUME irqs.kind = "response"
      PROVE  irqs.raised = IF k < n THEN 1 + k \div irqs.block ELSE 1 + (n + irqs.block - 1) \div irqs.block
  <2> DEFINE B == irqs.block
  <2>1. PacketProgress  BY <1>6 DEF Handshake
  <2>2. n >= 1 /\ B \in Nat \ {0}  BY <1>1, <2>1 DEF PacketProgress
  <2>3. CASE job = NoJob
    <3>1. k = n /\ irqs.raised = 2 + (n - 1) \div B  BY <2>1, <2>3 DEF PacketProgress
    <3> DEFINE m == n - 1
               q == m \div B
               r == m % B
    <3>2. m \in Nat /\ n + B - 1 = B + m  BY <1>1, <2>2
    <3>3. q \in Nat /\ r \in 0 .. B - 1 /\ m = B * q + r  BY <2>2, <3>2, Division
    <3> HIDE DEF q, r, m, B
    <3>4. B + m = B * (1 + q) + r
      <4>1. B * (1 + q) = B + B * q /\ B * q \in Nat  BY <2>2, <3>3
      <4> DEFINE y == B * q
      <4>2. B * (1 + q) = B + y /\ y \in Nat /\ m = y + r  BY <3>3, <4>1
      <4> HIDE DEF y
      <4> QED  BY <2>2, <3>3, <4>2
    <3> DEFINE z == 1 + q
    <3>5. z \in Nat /\ r \in Nat /\ r < B /\ B + m = B * z + r  BY <2>2, <3>3, <3>4
    <3> HIDE DEF z
    <3>6. (B + m) \div B = z  BY <1>2, <2>2, <3>5
    <3>7. irqs.raised = 1 + z  BY <3>1, <3>3 DEF z, q, m
    <3>8. ~(k < n) /\ irqs.raised = 1 + (n + B - 1) \div B
      <4> HIDE DEF k
      <4> QED  BY <1>1, <3>1, <3>2, <3>6, <3>7
    <3> QED  BY <3>8 DEF B
  <2>4. CASE job # NoJob
    <3>1. PICK blocks \in Nat : Blocks(blocks)  BY <2>1, <2>4 DEF PacketProgress
    <3>2. job.kind = "response" /\ k = n - job.left
      BY <1>6, <2>1, <2>4 DEF Handshake, KindOK, DmaJobs, PacketProgress
    <3>3. job.left >= 1 /\ job.left \in Nat /\ ch.index \in Nat
      <4>1. ch.index \in Nat  BY Fields DEF IInv, Types
      <4> QED  BY <3>2, <4>1 DEF IInv, Types, Transfer, ResponseOK, Jobs
    <3>4. k < n  BY <1>1, <3>2, <3>3
    <3>5. k = blocks * B + ch.index /\ ch.index < B /\ irqs.raised = 1 + blocks  BY <3>1 DEF Blocks
    <3>6. k = B * blocks + ch.index
      <4>1. blocks * B = B * blocks  BY <2>2
      <4> QED  BY <3>5, <4>1
    <3> HIDE DEF B, k
    <3>7. k \div B = blocks  BY <1>2, <2>2, <3>3, <3>5, <3>6
    <3> QED  BY <3>4, <3>5, <3>7 DEF B
  <2> QED  BY <2>3, <2>4
<1>7. irqs.kind = "dma" => irqs.raised = IF job = NoJob THEN 1 ELSE 0  BY DEF Handshake
<1>8. /\ job.kind \in {"read", "write", "identify", "packet", "response"} => ch.drq
      /\ irqs.kind # "none" /\ job = NoJob => ~ch.drq
  BY DEF Handshake, RequestOK
<1> HIDE DEF k, n
<1>9. CASE irqs.kind = "read"  BY <1>4, <1>8, <1>9 DEF HandshakeExact, k, n
<1>10. CASE irqs.kind = "write"  BY <1>5, <1>8, <1>10 DEF HandshakeExact, k, n
<1>11. CASE irqs.kind = "dma"  BY <1>7, <1>8, <1>11 DEF HandshakeExact
<1>12. CASE irqs.kind = "response"  BY <1>6, <1>8, <1>12 DEF HandshakeExact, k, n
<1>13. CASE irqs.kind = "none"  BY <1>8, <1>13 DEF HandshakeExact
<1> QED  BY <1>1, <1>9, <1>10, <1>11, <1>12, <1>13

\* Interrupts tell the driver when to move the next block, and the data request bit is set
\* while words remain: Channel::read, Channel::write, execute_command and the bus master
\* raise one interrupt per sector, one per block of a packet response and one at its end,
\* and one per DMA transfer, whatever the commands, counts and byte limits.
THEOREM HandshakeIsExact ==
    ASSUME IdeAssumption, LbaOnly
    PROVE  Spec => []HandshakeExact
<1> DEFINE Inv == IInv /\ Handshake
<1>1. Init => Inv
  <2> SUFFICES ASSUME Init PROVE Handshake  BY InitHolds
  <2> QED  BY DEF Init, NoJob, Handshake, RequestOK, KindOK, PacketOK
<1>2. Inv /\ [Next]_ideVars => Inv'
  <2> SUFFICES ASSUME Inv, [Next]_ideVars PROVE Handshake'  BY EveryStep
  <2>1. CASE UNCHANGED ideVars
    <3>1. ch' = ch /\ job' = job /\ irqs' = irqs  BY <2>1 DEF ideVars
    <3> QED  BY <3>1, HandshakeKept
  <2>2. CASE \/ \E n \in Counts, a \in Addrs, limit \in Limits, features \in {0, 1} : WriteRegs(n, a, limit, features)
             \/ \E d \in {"disk", "cd", "none"} : SelectDrive(d)
             \/ \E nien, reset \in BOOLEAN : WriteControl(nien, reset)
             \/ ReadStatus \/ MissingDrive \/ StopBusMaster
    BY <2>2, QuietHandshake
  <2>3. CASE \/ \E forCd \in BOOLEAN : Identify(forCd)
             \/ \E kind \in {"seek", "flush", "calibrate"} : NoDataCommand(kind)
             \/ DeviceReset
             \/ \E verify \in BOOLEAN : ReadSectors(verify)
             \/ WriteSectors
             \/ \E kind \in {"dma_read", "dma_write"} : DmaCommand(kind)
             \/ PacketCommand
    BY <2>3, CommandHandshake
  <2>4. CASE \E w \in Data : WriteData(w)  BY <2>4, WriteDataHandshake
  <2>5. CASE \E p \in Packets : WritePacket(p)  BY <2>5, WritePacketHandshake
  <2>6. CASE ReadResponse  BY <2>6, ReadResponseHandshake
  <2>7. CASE ReadData  BY <2>7, ReadDataHandshake
  <2>8. CASE StartBusMaster  BY <2>8, StartBusMasterHandshake
  <2> QED  BY <2>1, <2>2, <2>3, <2>4, <2>5, <2>6, <2>7, <2>8 DEF Next
<1>3. Inv => HandshakeExact  BY HandshakeImplies
<1> HIDE DEF Inv
<1> QED  BY <1>1, <1>2, <1>3, PTL DEF Spec
=============================================================================

------------------------------- MODULE CowDisk -------------------------------
(***************************************************************************)
(* Disk images (hw/storage.rs): a copy-on-write disk over a file, with its *)
(* snapshots.  A snapshot does not contain the file: restoring one puts    *)
(* its changes on top of the disk the new process has opened.              *)
(*                                                                         *)
(* Restoring happens right after start-up (sem86/src/main.rs), so a        *)
(* process that restores has not written anything yet.  The length of the  *)
(* file is a multiple of the sector size: read_sector reads whole sectors. *)
(***************************************************************************)
EXTENDS Integers, Sequences, FiniteSetsExt

CONSTANTS
    SectorSize,   \* SECTOR_SIZE, in cells
    Sectors,      \* number of sectors of the file
    Cells,        \* the values a guest writes
    MaxWrites,    \* bound: writes of a behaviour
    MaxRestores   \* bound: restarts from a snapshot

CowAssumption ==
    /\ {SectorSize, Sectors} \subseteq Nat \ {0}
    /\ {MaxWrites, MaxRestores} \subseteq Nat

VARIABLES
    cow,      \* layers of changed sectors, the newest first, over the file
    saved,    \* the snapshot: the layers at that time, or Nothing
    truth     \* history: the contents the guest expects now and after a restore,
              \* writes and restores so far

cowVars == <<cow, saved, truth>>

Positions == 0 .. SectorSize * Sectors - 1
Nothing == <<>>

\* The file: each cell differs from what a guest writes.
File == [p \in Positions |-> <<"file", p>>]

SectorOf(p) == p \div SectorSize

\* The layers that hold the sector of p.
Holding(layers, p) == {i \in DOMAIN layers : SectorOf(p) \in DOMAIN layers[i]}

\* CowDiskData::read: the newest layer that holds the sector, or the file.
Cell(layers, p) ==
    IF Holding(layers, p) = {} THEN File[p]
    ELSE layers[Min(Holding(layers, p))][SectorOf(p)][p % SectorSize]

\* Fault: a sector that is not in RAM yet starts empty instead of as a copy.
ReadSectorEmpty(layers, s) == [o \in 0 .. SectorSize - 1 |-> <<"empty">>]

\* CowDiskData::read_sector
ReadSector(layers, s) == [o \in 0 .. SectorSize - 1 |-> Cell(layers, s * SectorSize + o)]

\* get_sector_mut: a sector that changes is copied to RAM first.
GetSectorMut(layers, s) ==
    IF s \in DOMAIN layers[1] THEN layers[1][s] ELSE ReadSector(layers, s)

-----------------------------------------------------------------------------
\* write: the cells from a to b, sector by sector.
Write(a, b, v) ==
    /\ truth.writes < MaxWrites
    /\ LET touched == {SectorOf(p) : p \in a .. b}
           layer == [s \in touched \cup DOMAIN cow[1] |->
                       [o \in 0 .. SectorSize - 1 |->
                          IF s * SectorSize + o \in a .. b THEN v ELSE GetSectorMut(cow, s)[o]]]
       IN cow' = [cow EXCEPT ![1] = layer]
    /\ truth' = [truth EXCEPT !.now = [p \in Positions |-> IF p \in a .. b THEN v ELSE @[p]],
                              !.writes = @ + 1]
    /\ UNCHANGED saved

\* snapshot: every layer is kept, the file is not (MissingDiskData).
Snapshot ==
    /\ saved' = cow
    /\ truth' = [truth EXCEPT !.saved = truth.now]
    /\ UNCHANGED cow

\* CowDiskData::new over the file, in a new process.
Restart ==
    /\ cow' = <<[s \in {} |-> <<>>]>>
    /\ truth' = [truth EXCEPT !.now = File]
    /\ UNCHANGED saved

\* A process that resumes from a snapshot (into_disk_data): MissingDiskData takes the
\* current disk's place below the layers.
Restore ==
    /\ saved # Nothing /\ truth.restores < MaxRestores
    /\ Len(cow) = 1 /\ DOMAIN cow[1] = {}
    /\ cow' = saved \o cow
    /\ truth' = [truth EXCEPT !.now = truth.saved, !.restores = @ + 1]
    /\ UNCHANGED saved

Init ==
    /\ cow = <<[s \in {} |-> <<>>]>>
    /\ saved = Nothing
    /\ truth = [now |-> File, saved |-> File, writes |-> 0, restores |-> 0]

Next ==
    \/ \E a, b \in Positions, v \in Cells : a <= b /\ Write(a, b, v)
    \/ Snapshot
    \/ Restart
    \/ Restore

Spec == Init /\ [][Next]_cowVars

\* The disk always shows what the guest wrote last over the file's contents, and
\* after a restart and a restore what it showed when the snapshot was taken, however
\* often snapshots were taken of restored disks (CowDiskData, CowDiskDataSnapshot,
\* MissingDiskData).
ContentsExact == [p \in Positions |-> Cell(cow, p)] = truth.now
=============================================================================

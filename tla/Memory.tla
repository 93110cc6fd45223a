------------------------------- MODULE Memory -------------------------------
(***************************************************************************)
(* The guest's memory (sem86-arch/src/mem).  Each linear page has a window *)
(* in host memory and a metadata byte; an access that the metadata does    *)
(* not trap goes straight to the window.  A trapped access walks the page  *)
(* tables, moves the window and sets the metadata, so the two together are *)
(* a TLB that also tells the instruction cache of writes to clean frames.  *)
(*                                                                         *)
(* A byte is known by the cell it lives in: a byte of RAM, of a shared     *)
(* memory area or of a device.  Contents do not matter to the properties.  *)
(* The page tables are one directory entry and its leaves.                 *)
(***************************************************************************)
EXTENDS Integers, FiniteSets, Sequences

CONSTANTS
    PageSize,   \* bytes of a page (4096)
    NPages,     \* linear pages (2^20)
    RamFrames,  \* frames of physical_memory
    WrapAt,     \* frames below the address where A20 wraps (256)
    ShmPage,    \* the page of the shared memory area that shows at frame 0
    ChunkSize,  \* pages per bit of the modified bitmap
    Leaves,     \* leaf entries the guest writes
    Dirs,       \* directory entries the guest writes
    Maps,       \* frame -> "default", "shm", "rom" or "mmio", as devices map them
    Crs,        \* values of CR0 and CR4: [paging, wp, pse, pae]
    Lines,      \* positions of the A20 line
    Accesses,   \* <<address, width>> of the accesses the CPU makes
    Boots,      \* [cpu, tables, map] as the guest has set them up
    MaxEdits    \* bound: changes of tables, registers and the map

Pages  == 0 .. NPages - 1
Frames == DOMAIN CHOOSE m \in Maps : TRUE
Traps  == {"user", "write", "access"}
None   == <<>>

DirEntries  == [present : BOOLEAN, pdpe : BOOLEAN, w : BOOLEAN, u : BOOLEAN, big : BOOLEAN, a : BOOLEAN, d : BOOLEAN]
LeafEntries == [present : BOOLEAN, frame : Frames, w : BOOLEAN, u : BOOLEAN, a : BOOLEAN, d : BOOLEAN]
PageTables  == [dir : DirEntries, leaf : [Pages -> LeafEntries]]

VARIABLES
    cpu,      \* CR0 and CR4 as the memory knows them, and a20
    tables,   \* [dir, leaf] of the guest
    phys,     \* [map, dirty]: PhysMap and the frames that are not clean
    view,     \* [meta, modified, window, current] of the linear pages
    ghost,    \* [stale, stray, split], see AccessExact
    edits     \* for the bound

memVars == <<cpu, tables, phys, view, ghost, edits>>

Page(a)   == a \div PageSize
Offset(a) == a % PageSize
Crosses(a, n) == Page(a) # Page(a + n - 1)

\* An access that crosses into another page is modelled for two bytes, one in each.
ASSUME MemoryAssumption ==
    /\ PageSize \in Nat /\ PageSize >= 2 /\ {NPages, WrapAt, ChunkSize} \subseteq Nat \ {0}
    /\ RamFrames \in Nat /\ ShmPage \in Int
    /\ Frames \subseteq Nat /\ Pages \subseteq Frames
    /\ Maps # {} /\ Maps \subseteq [Frames -> {"default", "shm", "rom", "mmio"}]
    /\ \A m \in Maps, f \in Frames : m[f] \in {"shm", "rom"} => f + ShmPage >= 0
    /\ Leaves \subseteq LeafEntries /\ Dirs \subseteq DirEntries /\ Lines \subseteq BOOLEAN
    /\ \A r \in Crs : {r.paging, r.wp, r.pse, r.pae} \subseteq BOOLEAN
    /\ \A x \in Accesses :
          /\ x[1] \in Nat /\ x[2] \in 1 .. PageSize /\ Page(x[1] + x[2] - 1) < NPages
          /\ Crosses(x[1], x[2]) => x[2] = 2
    /\ \A b \in Boots :
          /\ b.cpu \in [a20 : BOOLEAN, paging : BOOLEAN, wp : BOOLEAN, pse : BOOLEAN, pae : BOOLEAN]
          /\ b.tables \in PageTables /\ b.map \in Maps

-----------------------------------------------------------------------------
(* The metadata of the pages, with a bitmap of the chunks that were set    *)
(* since the last clear.                                                   *)

Chunk(p) == p \div ChunkSize

\* Fault: the chunk is not marked as modified.
SetMetaUnmarked(v, p, traps) == [v EXCEPT !.meta[p] = traps]

SetMeta(v, p, traps) == [v EXCEPT !.meta[p] = traps, !.modified = @ \cup {Chunk(p)}]

ClearMeta(v) ==
    [v EXCEPT !.meta = [p \in Pages |-> IF Chunk(p) \in v.modified THEN Traps ELSE @[p]],
              !.modified = {}]

EnableForAll(v, trap) ==
    [v EXCEPT !.meta = [p \in Pages |-> IF Chunk(p) \in v.modified THEN @[p] \cup {trap} ELSE @[p]]]

ShouldTrap(v, p, write, user) ==
    \/ "access" \in v.meta[p]
    \/ write /\ "write" \in v.meta[p]
    \/ user /\ "user" \in v.meta[p]

-----------------------------------------------------------------------------
(* The page walk.  Its accessed bits are written to the tables even when   *)
(* the access faults later on.                                             *)

Big(c, t) == t.dir.big /\ (c.pae \/ c.pse)
DirPresent(c, t) == t.dir.present /\ (c.pae => t.dir.pdpe)
Mapped(c, t, p) == DirPresent(c, t) /\ (Big(c, t) \/ t.leaf[p].present)
Frame(c, t, p) == IF Big(c, t) THEN p ELSE t.leaf[p].frame
Writable(c, t, p) == t.dir.w /\ (Big(c, t) \/ t.leaf[p].w)
UserAccessible(c, t, p) == t.dir.u /\ (Big(c, t) \/ t.leaf[p].u)
DirtyBit(c, t, p) == IF Big(c, t) THEN t.dir.d ELSE t.leaf[p].d
AccessedBit(c, t, p) == t.dir.a /\ (Big(c, t) \/ t.leaf[p].a)

MarkAccessed(c, t, p) ==
    [dir  |-> [t.dir EXCEPT !.a = @ \/ DirPresent(c, t)],
     leaf |-> [t.leaf EXCEPT ![p].a = @ \/ (Mapped(c, t, p) /\ ~Big(c, t))]]

MarkDirty(c, t, p) ==
    IF Big(c, t) THEN [t EXCEPT !.dir.d = TRUE] ELSE [t EXCEPT !.leaf[p].d = TRUE]

\* The page fault of a linear access, as x86 defines it.
Faults(c, t, p, write, user) ==
    c.paging /\ \/ ~Mapped(c, t, p)
                \/ write /\ ~Writable(c, t, p) /\ (user \/ c.wp)
                \/ user /\ ~UserAccessible(c, t, p)

(* An access in progress: the state it threads through its steps and the   *)
(* cells it has touched so far.                                            *)
Start == [t |-> tables, dirty |-> phys.dirty, v |-> view, cells |-> {}, filled |-> {}]

\* resolve_access_address: walk, check, mark dirty.
Resolve(s, a, write, user) ==
    LET p == Page(a)
        c == cpu
        walked == MarkAccessed(c, s.t, p)
        frame  == IF c.paging THEN Frame(c, s.t, p) ELSE p
        clean  == frame \notin s.dirty
        t2     == IF write THEN MarkDirty(c, walked, p) ELSE walked
        may    == Writable(c, t2, p) \/ (~user /\ ~c.wp)
    IN  IF Faults(c, s.t, p, write, user)
        THEN [fault |-> TRUE, s |-> [s EXCEPT !.t = walked]]
        ELSE [fault |-> FALSE,
              s   |-> IF c.paging THEN [s EXCEPT !.t = t2] ELSE s,
              emu |-> a, phys |-> frame * PageSize + Offset(a),
              writable |-> write \/ (~clean /\ (c.paging => may /\ DirtyBit(c, t2, p))),
              needsMark |-> write /\ clean,
              user |-> c.paging => UserAccessible(c, t2, p)]

-----------------------------------------------------------------------------
(* Trapped accesses.                                                       *)

ShmOffset(a) == a + ShmPage * PageSize

\* resolve_physical_address
Wrapped(a) == IF cpu.a20 THEN a ELSE a % (WrapAt * PageSize)
InRam(a) == a < RamFrames * PageSize

\* The cell of physical address a: what a bus access would reach.
Cell(a) ==
    CASE phys.map[Page(a)] = "mmio"           -> <<"mmio", a>>
      [] phys.map[Page(a)] \in {"shm", "rom"} -> <<"shm", ShmOffset(a)>>
      [] OTHER -> IF InRam(Wrapped(a)) THEN <<"ram", Wrapped(a)>> ELSE None

\* map_address_before_access: move the window of a page unless its offset is right.
MapWindow(v, a, shm, offset) ==
    LET p == Page(a)
        o == Page(offset)
    IN  IF v.current[p] = <<o>> THEN v
        ELSE [v EXCEPT !.current[p] = <<o>>, !.window[p] = <<shm, o>>]

\* Fault: the page does not trap accesses from user mode.
FillForAll(s, acc, shm, offset) ==
    LET traps == IF acc.writable THEN {} ELSE {"write"}
    IN  [s EXCEPT !.v = MapWindow(SetMeta(@, Page(acc.emu), traps), acc.emu, shm, offset),
                  !.filled = @ \cup {Page(acc.emu)}]

\* The metadata and the window of a resolved access.
Fill(s, acc, shm, offset) ==
    LET traps == (IF acc.user THEN {} ELSE {"user"}) \cup (IF acc.writable THEN {} ELSE {"write"})
    IN  [s EXCEPT !.v = MapWindow(SetMeta(@, Page(acc.emu), traps), acc.emu, shm, offset),
                  !.filled = @ \cup {Page(acc.emu)}]

\* The window that shows frame f, when no address wraps.
WindowOf(f) == IF phys.map[f] \in {"shm", "rom"} THEN <<"shm", f + ShmPage>> ELSE <<"ram", f>>

\* The window of page p shows another area at the offset of frame f: it would not be moved.
LeftBehind(v, p, f) == v.current[p] = <<WindowOf(f)[2]>> /\ v.window[p] # WindowOf(f)

Window(v, a) ==
    LET w == v.window[Page(a)] IN IF w = None THEN None ELSE <<w[1], w[2] * PageSize + Offset(a)>>

Span(a, n) == {a + i : i \in 0 .. n - 1}

\* The raw access through the windows.
Unchecked(s, a, n) == [s EXCEPT !.cells = @ \cup {Window(s.v, b) : b \in Span(a, n)}]

\* handle_trapped_linear_memory_read and the read that follows it.
TrappedRead(s, acc, n) ==
    LET kind == phys.map[Page(acc.phys)]
    IN  CASE kind = "mmio" -> [s EXCEPT !.cells = @ \cup {<<"mmio", b>> : b \in Span(acc.phys, n)}]
          [] kind \in {"shm", "rom"} -> Unchecked(Fill(s, acc, "shm", ShmOffset(acc.phys)), acc.emu, n)
          [] OTHER -> IF InRam(Wrapped(acc.phys))
                      THEN Unchecked(Fill(s, acc, "ram", Wrapped(acc.phys)), acc.emu, n)
                      ELSE [s EXCEPT !.cells = @ \cup {None}]

\* mark_phys_frame_dirty
MarkFrameDirty(s, a) == [s EXCEPT !.dirty = @ \cup {Page(a)}]

(* handle_trapped_linear_memory_write and the write to `to' that follows   *)
(* it.  The instruction cache advises whether a clean frame becomes dirty; *)
(* if not, the data is written here, at the address of acc.                *)
TrappedWrite(s, acc, n, to, advice) ==
    LET kind   == phys.map[Page(acc.phys)]
        shm    == kind \in {"shm", "rom"}
        area   == IF shm THEN "shm" ELSE "ram"
        offset == IF shm THEN ShmOffset(acc.phys) ELSE acc.phys
        marked == IF acc.needsMark THEN MarkFrameDirty(s, acc.phys) ELSE s
    IN  IF kind = "mmio" THEN [s EXCEPT !.cells = @ \cup {<<"mmio", b>> : b \in Span(acc.phys, n)}]
        ELSE IF (kind = "rom" /\ acc.needsMark) \/ (~shm /\ ~InRam(acc.phys)) THEN s
        ELSE IF acc.needsMark /\ advice = "DoNotMark"
        THEN [s EXCEPT !.cells = @ \cup {<<area, b>> : b \in Span(offset, n)}]
        ELSE Unchecked(Fill(marked, acc, area, offset), to, n)

-----------------------------------------------------------------------------
(* Reads and writes of the CPU.                                            *)

FastPath(v, a, n, write, user) ==
    ~ShouldTrap(v, Page(a), write, user) /\ ~ShouldTrap(v, Page(a + n - 1), write, user)

ReadInPage(s, a, n, user) ==
    IF FastPath(s.v, a, n, FALSE, user) THEN [fault |-> FALSE, s |-> Unchecked(s, a, n)]
    ELSE LET r == Resolve(s, a, FALSE, user)
         IN  IF r.fault THEN r ELSE [fault |-> FALSE, s |-> TrappedRead(r.s, r, n)]

\* read and read_slow: a read over a page boundary is made byte by byte.
ReadResult(s, a, n, user) ==
    IF Crosses(a, n) /\ ~FastPath(s.v, a, n, FALSE, user)
    THEN LET first == ReadInPage(s, a, 1, user)
         IN  IF first.fault THEN first ELSE ReadInPage(first.s, a + 1, 1, user)
    ELSE ReadInPage(s, a, n, user)

\* prepare_write: resolve the page of address a if it traps.
Prepare(s, a, user) ==
    IF ShouldTrap(s.v, Page(a), TRUE, user) THEN Resolve(s, a, TRUE, user)
    ELSE [fault |-> FALSE, s |-> s]

WithOffset(acc, i) == [acc EXCEPT !.emu = @ + i, !.phys = @ + i]

\* execute_prepared_write of byte i of a split write
WriteByte(s, acc, i, a, advice) ==
    IF "emu" \notin DOMAIN acc THEN Unchecked(s, a + i, 1)
    ELSE TrappedWrite(s, WithOffset(acc, i), 1, a + i, advice)

\* write, write_slow and execute_prepared_write; advice is one for each byte.
WriteResult(s, a, n, user, advice) ==
    IF FastPath(s.v, a, n, TRUE, user) THEN [fault |-> FALSE, s |-> Unchecked(s, a, n)]
    ELSE LET first  == Prepare(s, a, user)
             second == Prepare(first.s, (Page(a) + 1) * PageSize, user)
         IN  IF first.fault THEN first
             ELSE IF ~Crosses(a, n)
             THEN [fault |-> FALSE, s |-> TrappedWrite(first.s, first, n, a, advice[1])]
             ELSE IF second.fault THEN second
             ELSE [fault |-> FALSE,
                   s |-> WriteByte(WriteByte(second.s, first, 0, a, advice[1]), second, 1, a, advice[2])]

-----------------------------------------------------------------------------
(* What an access should touch.                                            *)

PhysOf(a) == (IF cpu.paging THEN Frame(cpu, tables, Page(a)) ELSE Page(a)) * PageSize + Offset(a)

Meant(a, n, write, user) ==
    IF \E b \in Span(a, n) : Faults(cpu, tables, Page(b), write, user) THEN {}
    ELSE {Cell(PhysOf(b)) : b \in {b2 \in Span(a, n) :
             write => phys.map[Page(PhysOf(b2))] # "rom" /\ Cell(PhysOf(b2)) # None}}

(* No claim is made of a page whose tables, or the registers they are read *)
(* with, changed since it was filled; of a page whose window is left to    *)
(* another area, as windows are compared by offset; of addresses that A20  *)
(* wraps; and of user writes without CR0.WP, where one metadata bit serves *)
(* both rings.                                                             *)
Claimed(a, n, write, user) ==
    /\ \A b \in Span(a, n) : Page(b) \notin ghost.stale /\ ~LeftBehind(view, Page(b), Page(PhysOf(b)))
    /\ cpu.a20 \/ \A b \in Span(a, n) : Page(PhysOf(b)) < WrapAt
    /\ ~(write /\ user /\ ~cpu.wp)

Difference(A, B) == (A \ B) \cup (B \ A)

\* Record the outcome r of an access.
Finish(r, a, n, write, user) ==
    LET cells == IF r.fault THEN {} ELSE r.s.cells
    IN  /\ tables' = r.s.t
        /\ phys' = [phys EXCEPT !.dirty = r.s.dirty]
        /\ view' = r.s.v
        /\ ghost' = [stale |-> ghost.stale \ r.s.filled,
                     stray |-> IF Claimed(a, n, write, user)
                               THEN Difference(cells, Meant(a, n, write, user)) ELSE {},
                     split |-> write /\ Crosses(a, n) /\ ~FastPath(view, a, n, TRUE, user)]
        /\ UNCHANGED <<cpu, edits>>

Read(a, n, user) == Finish(ReadResult(Start, a, n, user), a, n, FALSE, user)
Write(a, n, user, advice) == Finish(WriteResult(Start, a, n, user, advice), a, n, TRUE, user)

-----------------------------------------------------------------------------
(* The other operations.                                                   *)

\* Pages whose contents of the TLB the change of a table makes stale.
Filled(P) == {p \in P : "access" \notin view.meta[p]}

Settle(stale) == ghost' = [stale |-> stale, stray |-> {}, split |-> FALSE]

Count == edits < MaxEdits /\ edits' = edits + 1

\* The guest writes a leaf, or the directory entry, of its page tables.
WriteLeaf(p, l) ==
    /\ Count
    /\ tables' = [tables EXCEPT !.leaf[p] = l]
    /\ Settle(ghost.stale \cup Filled({p}))
    /\ UNCHANGED <<cpu, phys, view>>

WriteDir(d) ==
    /\ Count
    /\ tables' = [tables EXCEPT !.dir = d]
    /\ Settle(ghost.stale \cup Filled(Pages))
    /\ UNCHANGED <<cpu, phys, view>>

InvalidateAll == view' = ClearMeta(view) /\ Settle({})

\* set_page_directory_base
SetCr3 == InvalidateAll /\ UNCHANGED <<cpu, tables, phys, edits>>

\* invalidate_page
InvalidatePage(p) ==
    /\ view' = SetMeta(view, p, Traps)
    /\ Settle(ghost.stale \ {p})
    /\ UNCHANGED <<cpu, tables, phys, edits>>

(* update_cr0 and update_cr4: only a change of PAE invalidates the pages.  *)
SetCr(r) ==
    /\ Count
    /\ cpu' = [cpu EXCEPT !.paging = r.paging, !.wp = r.wp, !.pse = r.pse, !.pae = r.pae]
    /\ IF r.pae # cpu.pae THEN InvalidateAll
       ELSE UNCHANGED view /\ Settle(ghost.stale \cup Filled(Pages))
    /\ UNCHANGED <<tables, phys>>

\* set_a20_line
SetA20(on) ==
    /\ Count
    /\ cpu' = [cpu EXCEPT !.a20 = on]
    /\ view' = [ClearMeta(view) EXCEPT !.current = [p \in Pages |-> None]]
    /\ Settle({})
    /\ UNCHANGED <<tables, phys>>

\* map_physical_memory_to_shm, _to_mmio and _to_default
MapPhysicalMemory(m) ==
    /\ Count
    /\ phys' = [map |-> m, dirty |-> {f \in phys.dirty : m[f] = phys.map[f]}]
    /\ view' = ClearMeta(EnableForAll(view, "write"))
    /\ Settle({})
    /\ UNCHANGED <<cpu, tables>>

\* clean_phys_frame and clean_phys_frame_range
CleanFrames(F) ==
    /\ phys' = [phys EXCEPT !.dirty = @ \ F]
    /\ view' = EnableForAll(view, "write")
    /\ Settle(ghost.stale)
    /\ UNCHANGED <<cpu, tables, edits>>

\* write_physical_slice, by a device into RAM
DeviceWrite(f) ==
    /\ phys.map[f] = "default"
    /\ phys' = [phys EXCEPT !.dirty = @ \cup {f}]
    /\ Settle(ghost.stale)
    /\ UNCHANGED <<cpu, tables, view, edits>>

-----------------------------------------------------------------------------
MemInit ==
    /\ \E b \in Boots :
          cpu = b.cpu /\ tables = b.tables /\ phys = [map |-> b.map, dirty |-> {}]
    /\ view = [meta |-> [p \in Pages |-> Traps], modified |-> {},
               window |-> [p \in Pages |-> None], current |-> [p \in Pages |-> None]]
    /\ ghost = [stale |-> {}, stray |-> {}, split |-> FALSE]
    /\ edits = 0

MemNext ==
    \/ \E x \in Accesses, user \in BOOLEAN :
          \/ Read(x[1], x[2], user)
          \/ \E advice \in [1 .. (IF Crosses(x[1], x[2]) THEN 2 ELSE 1) -> {"DirtyOk", "DoNotMark"}] :
                Write(x[1], x[2], user, advice)
    \/ \E p \in Pages : InvalidatePage(p) \/ \E l \in Leaves : WriteLeaf(p, l)
    \/ \E d \in Dirs : WriteDir(d)
    \/ SetCr3
    \/ \E r \in Crs : SetCr(r)
    \/ \E l \in Lines : SetA20(l)
    \/ \E m \in Maps : MapPhysicalMemory(m)
    \/ \E f \in Frames : CleanFrames({f}) \/ DeviceWrite(f)
    \/ CleanFrames(Frames)

MemSpec == MemInit /\ [][MemNext]_memVars

-----------------------------------------------------------------------------
(* An access reaches the bytes the page tables and the memory map say, or  *)
(* none when they say it faults, whatever was cached of earlier ones:      *)
(* Mem32::read and Mem32::write with their fast paths.  Split writes that  *)
(* trap are left out: with_offset counts from the start of the write, so   *)
(* the bytes of the second page may land too far.                          *)
AccessExact == ~ghost.split => ghost.stray = {}

(* A page that can be written without a trap shows a frame that is marked  *)
(* dirty, so that the instruction cache knows of every write, and whose    *)
(* dirty and accessed bits are set in the tables (metadata.rs and          *)
(* resolve_access_address), through cleaning, remapping and invalidation.  *)
(* A window left to another area has the offset of the dirty frame.        *)
DirtyTracked ==
    \A p \in Pages : cpu.a20 /\ "access" \notin view.meta[p] /\ "write" \notin view.meta[p] =>
        /\ \E f \in phys.dirty :
              Cell(f * PageSize) = Window(view, p * PageSize) \/ LeftBehind(view, p, f)
        /\ p \notin ghost.stale /\ cpu.paging =>
              DirtyBit(cpu, tables, p) /\ AccessedBit(cpu, tables, p)
=============================================================================

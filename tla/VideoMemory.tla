----------------------------- MODULE VideoMemory -----------------------------
(***************************************************************************)
(* Video memory between two threads: the CPU writes it through a page of   *)
(* the guest, the display thread copies what has changed (hw/vga/mod.rs,   *)
(* sem86-video/src/lib.rs).  Changes are noticed by the traps of clean     *)
(* frames (mem/mod.rs); every ten seconds the display thread cleans the    *)
(* frames again and, one update later, copies everything.                  *)
(*                                                                         *)
(* One step is one access to what the threads share.  There is one frame   *)
(* with its block of the dirty map, and one page that shows it.            *)
(***************************************************************************)
EXTENDS Naturals

CONSTANT MaxWrites   \* bound: writes of the guest

VARIABLES
    vcpu,     \* the CPU thread: where it is, and if its access resolved to a clean frame
    disp,     \* the display thread: where it is, its update and its timer
    frame,    \* [clean, dirtyMap, meta, modified]: what they share
    written,  \* writes that reached the frame
    shown,    \* writes the screen shows
    invalid   \* history: the page was invalidated and not filled since

videoVars == <<vcpu, disp, frame, written, shown, invalid>>

AllTraps == {"user", "write", "access"}

VideoInit ==
    /\ vcpu = [pc |-> "idle", writable |-> FALSE]
    /\ disp = [pc |-> "idle", full |-> TRUE, due |-> FALSE, copy |-> FALSE, old |-> {}]
    /\ frame = [clean |-> TRUE, dirtyMap |-> FALSE, meta |-> AllTraps, modified |-> FALSE]
    /\ written = 0 /\ shown = 0
    /\ invalid = FALSE

-----------------------------------------------------------------------------
(* The CPU.                                                                *)

Cpu(from, to) == vcpu.pc = from /\ vcpu' = [vcpu EXCEPT !.pc = to]

\* FastMem32::write tests the metadata before it writes.
BeginWrite ==
    /\ written < MaxWrites
    /\ Cpu("idle", IF frame.meta \cap {"access", "write"} = {} THEN "store" ELSE "resolve")
    /\ UNCHANGED <<disp, frame, written, shown, invalid>>

\* resolve_access_address reads whether the frame is clean.
ResolveWrite ==
    /\ vcpu.pc = "resolve"
    /\ vcpu' = [pc |-> IF frame.clean THEN "notify" ELSE "set", writable |-> TRUE]
    /\ UNCHANGED <<disp, frame, written, shown, invalid>>

\* Watcher::notify_dirty; then the advice of the instruction cache.
NotifyDirty ==
    /\ Cpu("notify", "mark") \/ Cpu("notify", "store")
    /\ frame' = [frame EXCEPT !.dirtyMap = TRUE]
    /\ UNCHANGED <<disp, written, shown, invalid>>

\* mark_phys_frame_dirty
MarkDirtyFrame ==
    /\ Cpu("mark", "set")
    /\ frame' = [frame EXCEPT !.clean = FALSE]
    /\ UNCHANGED <<disp, written, shown, invalid>>

\* read: a trapped read fills the metadata as well.
BeginRead ==
    /\ vcpu.pc = "idle"
    /\ "access" \in frame.meta
    /\ vcpu' = [pc |-> "read", writable |-> ~frame.clean]
    /\ UNCHANGED <<disp, frame, written, shown, invalid>>

\* MetadataMap::set of the page that was resolved
SetMetadata ==
    /\ Cpu("set", "store") \/ Cpu("read", "idle")
    /\ frame' = [frame EXCEPT !.meta = IF vcpu.writable THEN {} ELSE {"write"}, !.modified = TRUE]
    /\ invalid' = FALSE
    /\ UNCHANGED <<disp, written, shown>>

\* write_unchecked
Store ==
    /\ Cpu("store", "idle")
    /\ written' = written + 1
    /\ UNCHANGED <<disp, frame, shown, invalid>>

\* The planar modes: write_mem of the card writes, then notifies.
MmioStore ==
    /\ written < MaxWrites
    /\ Cpu("idle", "planes")
    /\ written' = written + 1
    /\ UNCHANGED <<disp, frame, shown, invalid>>

MmioNotify ==
    /\ Cpu("planes", "idle")
    /\ frame' = [frame EXCEPT !.dirtyMap = TRUE]
    /\ UNCHANGED <<disp, written, shown, invalid>>

\* invalidate_page
InvalidatePage ==
    /\ vcpu.pc = "idle"
    /\ frame' = [frame EXCEPT !.meta = AllTraps, !.modified = TRUE]
    /\ invalid' = TRUE
    /\ UNCHANGED <<vcpu, disp, written, shown>>

\* invalidate_all_pages, for the chunks that are marked as modified
InvalidateAll ==
    /\ vcpu.pc = "idle"
    /\ frame' = [frame EXCEPT !.meta = IF frame.modified THEN AllTraps ELSE @, !.modified = FALSE]
    /\ invalid' = TRUE
    /\ UNCHANGED <<vcpu, disp, written, shown>>

CpuStep ==
    \/ BeginWrite \/ ResolveWrite \/ NotifyDirty \/ MarkDirtyFrame \/ SetMetadata \/ Store
    \/ BeginRead \/ MmioStore \/ MmioNotify \/ InvalidatePage \/ InvalidateAll

-----------------------------------------------------------------------------
(* The display thread.                                                     *)

\* Ten seconds since last_vram_clean
TimerDue ==
    /\ ~disp.due
    /\ disp' = [disp EXCEPT !.due = TRUE]
    /\ UNCHANGED <<vcpu, frame, written, shown, invalid>>

\* The guest has set another mode; update will copy everything.
ModeSet ==
    /\ disp.pc = "idle" /\ ~disp.full
    /\ disp' = [disp EXCEPT !.full = TRUE]
    /\ UNCHANGED <<vcpu, frame, written, shown, invalid>>

\* update: what to copy this time
UpdateFull ==
    /\ disp.pc = "idle" /\ disp.full
    /\ disp' = [disp EXCEPT !.pc = "copy", !.full = FALSE, !.copy = TRUE]
    /\ UNCHANGED <<vcpu, frame, written, shown, invalid>>

\* Fault: cleaning is not followed by a full copy.
UpdateAndCleanOnly ==
    /\ disp.pc = "idle" /\ ~disp.full /\ disp.due
    /\ disp' = [disp EXCEPT !.pc = "clean", !.due = FALSE, !.copy = frame.dirtyMap]
    /\ frame' = [frame EXCEPT !.dirtyMap = FALSE]
    /\ UNCHANGED <<vcpu, written, shown, invalid>>

\* get_and_clear_dirty_ranges swaps the dirty map first.
UpdateAndClean ==
    /\ disp.pc = "idle" /\ ~disp.full /\ disp.due
    /\ disp' = [disp EXCEPT !.pc = "clean", !.full = TRUE, !.due = FALSE, !.copy = frame.dirtyMap]
    /\ frame' = [frame EXCEPT !.dirtyMap = FALSE]
    /\ UNCHANGED <<vcpu, written, shown, invalid>>

\* dirty_ranges
UpdateDirty ==
    /\ disp.pc = "idle" /\ ~disp.full /\ ~disp.due
    /\ disp' = [disp EXCEPT !.pc = "copy", !.copy = frame.dirtyMap]
    /\ UNCHANGED <<vcpu, frame, written, shown, invalid>>

\* clean_phys_frame_range: the frame, then the traps of the page, read and written back
CleanFrame ==
    /\ disp.pc = "clean"
    /\ frame' = [frame EXCEPT !.clean = TRUE]
    /\ disp' = [disp EXCEPT !.pc = "load"]
    /\ UNCHANGED <<vcpu, written, shown, invalid>>

LoadMetadata ==
    /\ disp.pc = "load"
    /\ disp' = [disp EXCEPT !.pc = IF frame.modified THEN "or" ELSE "copy", !.old = frame.meta]
    /\ UNCHANGED <<vcpu, frame, written, shown, invalid>>

StoreMetadata ==
    /\ disp.pc = "or"
    /\ frame' = [frame EXCEPT !.meta = disp.old \cup {"write"}]
    /\ disp' = [disp EXCEPT !.pc = "copy", !.old = {}]
    /\ UNCHANGED <<vcpu, written, shown, invalid>>

\* read_slice of the ranges
CopyRanges ==
    /\ disp.pc = "copy"
    /\ shown' = IF disp.copy THEN written ELSE shown
    /\ disp' = [disp EXCEPT !.pc = "idle", !.copy = FALSE, !.old = {}]
    /\ UNCHANGED <<vcpu, frame, written, invalid>>

DisplayStep ==
    UpdateFull \/ UpdateAndClean \/ UpdateDirty \/ CleanFrame \/ LoadMetadata \/ StoreMetadata \/ CopyRanges

VideoNext == CpuStep \/ DisplayStep \/ TimerDue \/ ModeSet

(* The window is redrawn over and over and time passes; the guest owes     *)
(* nothing.                                                                *)
VideoSpec ==
    VideoInit /\ [][VideoNext]_videoVars /\ WF_videoVars(DisplayStep) /\ WF_videoVars(TimerDue)

-----------------------------------------------------------------------------
(* Every write reaches the screen in the end, however the two threads      *)
(* interleave: a write whose notification the cleaning swallows is picked  *)
(* up by the full copy that follows (need_full_update).                    *)
EventuallyShown == \A k \in 1 .. MaxWrites : written >= k ~> shown >= k

(* A page that was invalidated traps until it is filled again: the doc of  *)
(* MetadataMap claims the region for itself.  The display thread reads and *)
(* writes back the traps without a lock, so an invalidation in between is  *)
(* undone.                                                                 *)
InvalidationKept == invalid => "access" \in frame.meta
=============================================================================

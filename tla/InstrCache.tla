----------------------------- MODULE InstrCache -----------------------------
(***************************************************************************)
(* The instruction cache of sem86-core (icache/mod.rs, icache/inner.rs,    *)
(* icache/entry.rs) and the part of the run loop that uses it: decoded     *)
(* instructions indexed by physical address, links between them that skip  *)
(* the lookup, dirty tracking of the frames that hold them, and the page   *)
(* code that compile threads produce for whole frames.                     *)
(*                                                                         *)
(* A frame has Size bytes; address a is byte a % Size of frame a \div Size. *)
(* A byte stands for an opcode: it fixes the length of the instruction and *)
(* how it continues.  Paging is off (linear = physical, every mapping is   *)
(* current) and no instruction crosses a frame, so the flags about the     *)
(* successor page stay clear; MappingTracker is not part of this module.   *)
(* Frames are compiled through the counter jit_page_in; jits_pending,      *)
(* which the benchmarks use to ask for every frame, is left out.           *)
(*                                                                         *)
(* A CacheEntryId is identified with the address its entry was made for:   *)
(* the code reuses an id only after ten more have been released, and       *)
(* LinksTracked states that nothing refers to a released entry.            *)
(***************************************************************************)
EXTENDS Naturals, FiniteSets, FiniteSetsExt, Sequences, SequencesExt

CONSTANTS
    NFrames, Size,       \* number of frames, bytes per frame (4096)
    Byte,                \* the opcodes
    Length,              \* [Byte -> 1..Size]: length of the instruction
    Relative,            \* opcodes whose jump is_fixed_relative
    Conditional,         \* those of Relative that may take a jump
    Handler,             \* opcodes that invoke a handler (MOV CR0, MOV SS)
    Delta,               \* displacement of the conditional jumps
    Envs,                \* EntryEnv: operand sizes and protected mode
    InitMem,             \* memory at power-on
    HeadBytes,           \* offsets up to HeadBytes always mark dirty (15)
    Writable, WriteLens, \* addresses and lengths of guest writes
    EntryPoints,         \* where interrupts and exceptions continue
    IndirectTargets,     \* where the opcodes outside Relative may jump
    DmaSlices,           \* <<start, length>> of the DMA transfers
    TlbSize,             \* slots of the TLB (a multiplicative hash in the code)
    CleaningDelay,       \* CLEANING_DELAY (30_000)
    JitDelay,            \* jit_page_in when armed (40_000, 60_000, MAX)
    MaxQueue,            \* requests queued before the page JIT backs off (30)
    MaxInFlight,         \* bound: requests and results not yet received
    MaxWrites,           \* bound: memory writes in a behaviour
    MaxPrev              \* bound: sum of the counts in prev_entry_indices

Frames == 0 .. NFrames - 1
Addr   == 0 .. NFrames * Size - 1
Slots  == 0 .. Size - 1
NoId    == NFrames * Size
NoBytes == <<>>

Frame(a)  == a \div Size
Offset(a) == a % Size

ASSUME SizeAssumption    == {Size, NFrames, TlbSize} \subseteq Nat \ {0}
ASSUME LengthAssumption  == Length \in [Byte -> 1 .. Size]
ASSUME OpcodeAssumption  == /\ Conditional \subseteq Relative
                            /\ Relative \subseteq Byte
                            /\ Handler \subseteq Byte \ Conditional
ASSUME InitMemAssumption == InitMem \in [Addr -> Byte]
ASSUME DelayAssumption   == CleaningDelay \in Nat \ {0, 1} /\ JitDelay \in Nat \ {0, 1}
ASSUME JumpAssumption    == /\ EntryPoints \cup IndirectTargets \subseteq Addr
                            /\ {Delta, HeadBytes, MaxQueue} \subseteq Nat
ASSUME WriteAssumption   == /\ Writable \subseteq Addr /\ WriteLens \subseteq Nat \ {0}
                            /\ \A d \in DmaSlices : d[1] \in Addr /\ d[2] \in Nat /\ d[1] + d[2] <= NFrames * Size

VARIABLES
    mem,      \* physical memory
    clean,    \* Mem32::frame_is_clean
    cache,    \* InnerCache (a record, see EmptyCache)
    queue,    \* page-JIT requests the compile threads have not taken
    results,  \* compiled pages not yet received
    cpu,      \* program counter, environment and the entry being executed
    writes    \* number of memory writes so far (for the bound only)

vars == <<mem, clean, cache, queue, results, cpu, writes>>

-----------------------------------------------------------------------------
(* Instructions and entries.                                               *)

\* The instruction at a fits in its frame.
Fits(m, a) == Offset(a) + Length[m[a]] <= Size

\* Its bytes.
InstrAt(m, a) == [i \in 1 .. Length[m[a]] |-> m[a + i - 1]]

EmptyLinks(kind) == [kind |-> kind, to |-> [taken \in BOOLEAN |-> NoId]]

\* CacheEntry::new: single execution, no links.  An entry's code is the set of
\* instructions of the page code attached to it.
NewEntry(m, a, env) ==
    [env |-> env, bytes |-> InstrAt(m, a), code |-> {},
     links |-> EmptyLinks(IF m[a] \in Relative THEN "unchecked" ELSE "speculative")]

\* An unused entry.
Blank == [env |-> NoBytes, bytes |-> NoBytes, code |-> {},
          links |-> EmptyLinks("unchecked")]

Opcode(e) == e.bytes[1]

\* The first address after the cached instruction at a.
End(c, a) == a + Len(c.entries[a].bytes)

\* instr_map: the addresses of frame f that hold an entry.
Mapped(c, f) == {a \in c.live : Frame(a) = f}

\* clear_for_release moves a released entry to frame 0.
FrameOf(c, a) == IF a \in c.live THEN Frame(a) ELSE 0

\* Links::clear
ClearLinks(e) == [e EXCEPT !.links =
    EmptyLinks(IF @.kind = "speculative" THEN "speculative" ELSE "unchecked")]

\* Changes the entries of the addresses in A.
Update(c, A, Op(_)) ==
    [c EXCEPT !.entries = [a \in Addr |-> IF a \in A THEN Op(@[a]) ELSE @[a]]]

-----------------------------------------------------------------------------
(* Frame bookkeeping (InnerCache and FrameEntry).                          *)

SetJitPageIn(c, f, n) ==
    [c EXCEPT !.jit_page_in[f] = n,
              !.checks[f] = IF n = 0 THEN @ \ {"counters"} ELSE @ \cup {"counters"}]

\* revert_to_single_execution on every entry of the frame
RevertFrame(c, f) == Update(c, Mapped(c, f), LAMBDA e : [e EXCEPT !.code = {}])

MarkFrameAsNeedingJit(c, f) ==
    IF c.jit_page_in[f] # 0 THEN c ELSE SetJitPageIn(c, f, JitDelay)

ClearTlb(c) == [c EXCEPT !.tlb = {}]

\* Tlb::insert evicts what its slot held.
TlbInsert(c, a) == [c EXCEPT !.tlb = {b \in @ : b % TlbSize # a % TlbSize} \cup {a}]

\* Where the links of e lead.
Targets(e) == {e.links.to[t] : t \in BOOLEAN} \ {NoId}

\* FrameEntry::remove_links_from_items_to for the entries of A, in the order of
\* instr_map: only the entries registered in prev_entry_indices of the frame are
\* searched; each loses one reference for an entry it leads to.  The entries of B
\* lose their own links when it is their turn (release_id, clear_links).
RemoveLinks(c, A, B) ==
    LET lost(e)    == {a \in A \cap Targets(c.entries[e]) : c.prev[Frame(a)][e] > 0 /\ (e \in B => a <= e)}
        cut(e)     == [c.entries[e] EXCEPT !.links.to =
                          [t \in BOOLEAN |-> IF @[t] \in lost(e) THEN NoId ELSE @[t]]]
        counted(f) == [e \in Addr |-> c.prev[f][e] - Cardinality({a \in lost(e) : Frame(a) = f})]
    IN [c EXCEPT !.entries = [e \in Addr |-> IF e \in B THEN ClearLinks(c.entries[e]) ELSE cut(e)],
                 !.prev    = [f \in Frames |-> counted(f)]]

RemoveLinksTo(c, a) == RemoveLinks(c, {a}, {})

\* Takes the entries at A out of their frame and releases their ids.
DropEntries(c, A) == [RemoveLinks(c, A, A) EXCEPT !.live = @ \ A]

NotifyExistingInstrChanged(c, f) ==
    ClearTlb(MarkFrameAsNeedingJit(RevertFrame(c, f), f))

\* update_cached_instr_bytes, called by decode_instr_at
UpdateCachedInstrBytes(c, m, a) ==
    LET f    == Frame(a)
        base == IF c.delay[f] # 0 /\ c.cached[f] = NoBytes
                THEN [o \in Slots |-> m[f * Size + o]] ELSE c.cached[f]
    IN [c EXCEPT !.cached[f] =
          IF base = NoBytes THEN NoBytes
          ELSE [o \in Slots |-> IF o \in Offset(a) .. Offset(a) + Length[m[a]] - 1
                                THEN m[f * Size + o] ELSE base[o]]]

\* The entries that start inside the instruction at a, after its first byte.
Covered(c, a) == {b \in c.live : a < b /\ b < End(c, a)}

\* Decodes the instruction of an existing entry again: decode_instr_at,
\* update_instr_len, notify_existing_instr_changed.
Redecode(c, m, a, env) ==
    LET c1 == [UpdateCachedInstrBytes(c, m, a) EXCEPT !.entries[a] = NewEntry(m, a, env)]
    IN NotifyExistingInstrChanged(DropEntries(c1, Covered(c1, a)), Frame(a))

\* Fault: the entry before the new one may reach into it.
InsertEntryKeepsOverlap(s, a, env) ==
    LET f  == Frame(a)
        c0 == UpdateCachedInstrBytes(s.cache, s.mem, a)
        c1 == [c0 EXCEPT !.live = @ \cup {a}, !.entries[a] = NewEntry(s.mem, a, env)]
    IN [s EXCEPT !.cache = SetJitPageIn(DropEntries(c1, Covered(c1, a)), f, JitDelay)]

\* A dirty frame without entries needs no delay.
Idle(c, f) == c.delay[f] # 0 /\ Mapped(c, f) = {}
CleanIdle(c, f) ==
    IF ~Idle(c, f) THEN c
    ELSE [c EXCEPT !.delay[f] = 0, !.checks[f] = @ \ {"dirty"}, !.cached[f] = NoBytes]

\* The entry before the one at a, if it reaches into it.
ReachingInto(c, a) ==
    LET before == {b \in Mapped(c, Frame(a)) : b < a}
    IN  {b \in before : End(c, b) > a /\ \A x \in before : x <= b}

\* Those that overlap the new entry at a go.
DropOverlap(c, a) ==
    LET kept == SetJitPageIn(DropEntries(DropEntries(c, Covered(c, a)), ReachingInto(c, a)), Frame(a), JitDelay)
    IN  IF Covered(c, a) \cup ReachingInto(c, a) = {} THEN kept ELSE NotifyExistingInstrChanged(kept, Frame(a))

\* insert_entry: a dirty frame without entries is cleaned at once; the entries
\* that overlap the new one are removed.
InsertEntry(s, a, env) ==
    [s EXCEPT !.cache = DropOverlap([CleanIdle(UpdateCachedInstrBytes(s.cache, s.mem, a), Frame(a)) EXCEPT
                                        !.live = @ \cup {a}, !.entries[a] = NewEntry(s.mem, a, env)], a),
              !.clean[Frame(a)] = @ \/ Idle(s.cache, Frame(a))]

-----------------------------------------------------------------------------
(* Lookup.  The operators work on the state as a record, the entry that    *)
(* was found in the field id.                                              *)

State == [mem |-> mem, clean |-> clean, cache |-> cache, queue |-> queue,
          writes |-> writes, id |-> NoId]

\* An entry for another environment is decoded again, and nothing links to it.
ForEnv(s, a, env) ==
    IF s.cache.entries[a].env = env THEN s
    ELSE [s EXCEPT !.cache = Redecode(RemoveLinksTo(@, a), s.mem, a, env)]

FindOrCreateEntry(s, a, env) ==
    ForEnv([IF a \in s.cache.tlb \cup s.cache.live THEN s ELSE InsertEntry(s, a, env) EXCEPT
              !.cache = TlbInsert(@, a), !.id = a], a, env)

\* FrameEntryExtra::entry_matches_memory
EntryMatchesMemory(c, m, a) ==
    \A x \in a .. End(c, a) - 1 : c.cached[Frame(a)][Offset(x)] = m[x]

\* The end of the cleaning delay in check_dirty_memory: entries that no longer match
\* are released, the others lose their links.
Sweep(c, m, f) ==
    LET stale == {a \in Mapped(c, f) : ~EntryMatchesMemory(c, m, a)}
    IN [RemoveLinks(c, stale, Mapped(c, f)) EXCEPT !.live = @ \ stale]

\* Fault: the TLB is left alone although entries have been released.
CleanFrameKeepsTlb(c, m, f) ==
    SetJitPageIn([Sweep(c, m, f) EXCEPT
        !.dirty_code_frames = @ \ {f}, !.cached[f] = NoBytes,
        !.delay[f] = 0, !.checks[f] = @ \ {"dirty"}], f, JitDelay)

CleanFrame(c, m, f) ==
    ClearTlb(SetJitPageIn([Sweep(c, m, f) EXCEPT
        !.dirty_code_frames = @ \ {f}, !.cached[f] = NoBytes,
        !.delay[f] = 0, !.checks[f] = @ \ {"dirty"}], f, JitDelay))

\* check_dirty_memory on an entry that still matches
CountDownCleaning(s, a) ==
    LET f    == Frame(a)
        next == s.cache.delay[f] - 1
    IN [s EXCEPT !.cache = IF next = 0 THEN CleanFrame(@, s.mem, f)
                           ELSE [@ EXCEPT !.delay[f] = next],
                 !.clean[f] = @ \/ next \in {0, CleaningDelay \div 2}]

\* entry_memory_has_changed, and what its callers do when it has
VerifyMemory(s, a, env) ==
    CASE s.cache.delay[Frame(a)] = 0 -> s
      [] s.cache.delay[Frame(a)] # 0 /\ EntryMatchesMemory(s.cache, s.mem, a) ->
           CountDownCleaning(s, a)
      [] OTHER -> [FindOrCreateEntry(s, a, env) EXCEPT !.cache = Redecode(@, s.mem, a, env)]

\* add_link: a link within a clean frame, of an opcode that fixes its target, stays
\* unchecked.  The slot is empty, so no earlier target has to be discounted.
AddLink(c, from, to, taken) ==
    LET f         == Frame(to)
        links     == c.entries[from].links
        unchecked == /\ FrameOf(c, from) = f
                     /\ Opcode(c.entries[from]) \in Relative
                     /\ c.delay[f] = 0
        linked    == [kind |-> IF unchecked THEN links.kind ELSE "checked",
                      to   |-> [links.to EXCEPT ![taken] = to]]
    IN [c EXCEPT !.entries[from].links = IF links.kind = "speculative" THEN @ ELSE linked,
                 !.prev[f][from] = @ + 1]

\* make_link: its entry-point flags are left out, see Exports.
MakeLink(s, from, taken) == [s EXCEPT !.cache = AddLink(@, from, s.id, taken)]

\* request_page_jit: the request names every instruction of the frame.
RequestPageJit(s, f) ==
    LET instr(a) == [at |-> a, bytes |-> s.cache.entries[a].bytes,
                     env |-> s.cache.entries[a].env]
    IN [s EXCEPT !.cache = SetJitPageIn(@, f, 0),
                 !.queue = Append(@, [frame  |-> f,
                                      instrs |-> {instr(a) : a \in Mapped(s.cache, f)}])]

\* should_jit_page: the counter goes down; when it runs out in a dirty frame it starts
\* again, and in a clean one (at 1) the page is to be compiled.
CountDownJit(c, f) ==
    LET n == c.jit_page_in[f] - 1
    IN CASE c.jit_page_in[f] = 0 -> c
         [] c.jit_page_in[f] # 0 /\ n = 1 /\ c.delay[f] # 0 -> SetJitPageIn(c, f, JitDelay)
         [] OTHER -> SetJitPageIn(c, f, n)

\* page_jit_if_needed, after the counter went down
CompileIfDue(s, f) ==
    CASE s.cache.jit_page_in[f] # 1 -> s
      [] s.cache.jit_page_in[f] = 1 /\ Len(s.queue) > MaxQueue ->
           [s EXCEPT !.cache = SetJitPageIn(@, f, JitDelay)]
      [] OTHER -> RequestPageJit(s, f)

PageJitIfNeeded(s) ==
    CompileIfDue([s EXCEPT !.cache = CountDownJit(@, Frame(s.id))], Frame(s.id))

\* perform_cache_frame_checks: the flags are those read before the checks.
CountIf(counts, s) == IF counts THEN PageJitIfNeeded(s) ELSE s
PerformCacheFrameChecks(s, a, env) ==
    LET flags == s.cache.checks[FrameOf(s.cache, s.id)]
    IN  CountIf("counters" \in flags, IF "dirty" \in flags THEN VerifyMemory(s, a, env) ELSE s)

\* A link from an entry of the same environment.
LinkFrom(s, env, from, taken) ==
    IF s.cache.entries[from].env = env THEN MakeLink(s, from, taken) ELSE s
FindAndLink(s, a, env, from, taken) ==
    LinkFrom(FindOrCreateEntry(s, a, env), env, from, taken)

\* lookup_next_from_entry: an unchecked link is followed as it is.
LookupNextFromEntry(s, a, env, from, taken) ==
    LET links == s.cache.entries[from].links
        known == IF links.kind # "speculative" THEN links.to[taken]
                 ELSE IF a \in s.cache.tlb THEN a ELSE NoId
    IN IF links.kind = "unchecked" /\ known # NoId THEN [s EXCEPT !.id = known]
       ELSE PerformCacheFrameChecks(
              IF known # NoId THEN [s EXCEPT !.id = known]
              ELSE FindAndLink(s, a, env, from, taken),
              a, env)

LookupFirst(s, a, env) == VerifyMemory(FindOrCreateEntry(s, a, env), a, env)

-----------------------------------------------------------------------------
(* Memory writes (Mem32) and the notifications they send to the cache.     *)

\* Fault: the links of the frame stay unchecked.
NotifyMemoryDirtyKeepsLinks(c, m, F) ==
    LET first == {f \in F : c.delay[f] = 0}
        noted == {f \in first : Mapped(c, f) # {}}
        dirtied(a) == [c.entries[a] EXCEPT !.code = {}]
    IN [c EXCEPT
          !.entries = [a \in Addr |-> IF a \in c.live /\ Frame(a) \in first THEN dirtied(a) ELSE @[a]],
          !.dirty_code_frames = @ \cup noted,
          !.cached = [f \in Frames |-> IF f \in noted THEN [o \in Slots |-> m[f * Size + o]] ELSE @[f]],
          !.delay  = [f \in Frames |-> IF f \in F THEN CleaningDelay ELSE @[f]],
          !.checks = [f \in Frames |-> IF f \in F THEN @[f] \cup {"dirty"} ELSE @[f]]]

\* notify_memory_dirty for the frames of F: the first notification of a clean frame
\* keeps a copy of the bytes, drops the page code and makes the links of the frame
\* checked.
NotifyMemoryDirty(c, m, F) ==
    LET first == {f \in F : c.delay[f] = 0}
        noted == {f \in first : Mapped(c, f) # {}}
        dirtied(a) == [c.entries[a] EXCEPT !.code = {},
                          !.links.kind = IF @ = "unchecked" THEN "checked" ELSE @]
    IN [c EXCEPT
          !.entries = [a \in Addr |-> IF a \in c.live /\ Frame(a) \in first THEN dirtied(a) ELSE @[a]],
          !.dirty_code_frames = @ \cup noted,
          !.cached = [f \in Frames |-> IF f \in noted THEN [o \in Slots |-> m[f * Size + o]] ELSE @[f]],
          !.delay  = [f \in Frames |-> IF f \in F THEN CleaningDelay ELSE @[f]],
          !.checks = [f \in Frames |-> IF f \in F THEN @[f] \cup {"dirty"} ELSE @[f]]]

\* Mem32::mark_phys_frame_dirty on each frame of F, before the write.
MarkDirty(s, F) ==
    LET hit == {f \in F : s.clean[f]}
    IN [s EXCEPT !.clean = [f \in Frames |-> @[f] /\ f \notin hit],
                 !.cache = NotifyMemoryDirty(@, s.mem, hit)]

\* Fault: an instruction that starts at the written address counts as before it.
DoNotMarkOffByOne(c, a, len) ==
    /\ Offset(a) > HeadBytes
    /\ Mapped(c, Frame(a)) # {}
    /\ \A b \in Mapped(c, Frame(a)) : b <= a \/ a + len <= b

\* advise_mark_dirty: DoNotMark
DoNotMark(c, a, len) ==
    /\ Offset(a) > HeadBytes
    /\ Mapped(c, Frame(a)) # {}
    /\ \A b \in Mapped(c, Frame(a)) : End(c, b) <= a \/ a + len <= b

Store(s, a, len, b) ==
    [s EXCEPT !.mem = [x \in Addr |-> IF x \in a .. a + len - 1 THEN b ELSE @[x]],
              !.writes = @ + 1]

\* A write of the guest (handle_trapped_linear_memory_write when the frame is clean);
\* one that crosses frames is split by the code.
GuestWrite(s, a, len, b) ==
    Store(IF s.clean[Frame(a)] /\ DoNotMark(s.cache, a, len) THEN s
          ELSE MarkDirty(s, {Frame(a)}), a, len, b)

\* Mem32::write_physical_slice: marks the frames of start, start + Size, ...
DmaWrite(s, start, len, b) ==
    Store(MarkDirty(s, {Frame(start + n) : n \in {k \in 0 .. len - 1 : k % Size = 0}}),
          start, len, b)

\* What an instruction may do to memory.
Effects(s) ==
    {s} \cup
    (IF s.writes >= MaxWrites THEN {}
     ELSE {GuestWrite(s, x[1], x[2], x[3]) :
             x \in {y \in Writable \X WriteLens \X Byte : Offset(y[1]) + y[2] <= Size}}
          \cup {DmaWrite(s, d[1], d[2], b) : d \in DmaSlices, b \in Byte})

-----------------------------------------------------------------------------
(* The run loop (enter_emulation, run_inner).  The thread of the guest     *)
(* executes an instruction, or page code, and looks up the next entry      *)
(* before it does anything else.                                           *)

\* Where the instruction of opcode op at a can continue: <<address, jump taken>>.
Successors(a, op) ==
    LET wrap(x) == x % (NFrames * Size)
    IN IF op \in Relative
       THEN {<<wrap(a + Length[op]), FALSE>>} \cup
            (IF op \in Conditional THEN {<<wrap(a + Delta), TRUE>>} ELSE {})
       ELSE IndirectTargets \X {op \notin Handler}

\* Only a handler can change the environment.
EnvAfter(op) == IF op \in Handler THEN Envs ELSE {cpu.env}

\* Nothing reads the instruction of a released entry after the lookup.
Forget(c) ==
    Update(c, Addr \ c.live, LAMBDA e : [Blank EXCEPT !.links = e.links])

\* The sum of the counts in prev_entry_indices (for the bound only).
References(c) ==
    FoldSet(LAMBDA x, n : n + c.prev[x[1]][x[2]], 0,
            {x \in Frames \X Addr : c.prev[x[1]][x[2]] > 0})

Found(s, a, env) ==
    /\ Len(s.queue) + Cardinality(results) <= MaxInFlight
    /\ References(s.cache) <= MaxPrev
    /\ mem' = s.mem /\ clean' = s.clean /\ cache' = Forget(s.cache)
    /\ queue' = s.queue /\ writes' = s.writes
    /\ cpu' = [phase |-> "execute", pc |-> a, env |-> env, id |-> s.id]
    /\ UNCHANGED results

Restart(s, a, env) ==
    /\ mem' = s.mem /\ clean' = s.clean /\ cache' = s.cache
    /\ queue' = s.queue /\ writes' = s.writes
    /\ cpu' = [phase |-> "first", pc |-> a, env |-> env, id |-> NoId]
    /\ UNCHANGED results

DoLookupFirst ==
    /\ cpu.phase = "first"
    /\ Found(LookupFirst(State, cpu.pc, cpu.env), cpu.pc, cpu.env)

ExecuteSingle ==
    /\ cpu.phase = "execute"
    /\ cache.entries[cpu.id].code = {}
    /\ LET op == Opcode(cache.entries[cpu.id])
       IN \E s \in Effects(State), next \in Successors(cpu.pc, op), env \in EnvAfter(op) :
             /\ Fits(s.mem, next[1])
             /\ Found(LookupNextFromEntry(s, next[1], env, cpu.id, next[2]), next[1], env)

\* Page code runs until some instruction of the page exits.  If the entry lost its
\* code meanwhile the loop starts over with lookup_first.
ExecuteJittedPage ==
    /\ cpu.phase = "execute"
    /\ \E i \in cache.entries[cpu.id].code :
          \E s \in Effects(State), next \in Successors(i.at, i.bytes[1]), env \in EnvAfter(i.bytes[1]) :
             /\ Fits(s.mem, next[1])
             /\ IF s.cache.entries[cpu.id].code = {} THEN Restart(s, next[1], env)
                ELSE Found(LookupNextFromEntry(s, next[1], env, i.at, next[2]), next[1], env)

\* An interrupt, an exception or a pause: back to run_inner, then lookup_first.
Interrupt ==
    /\ cpu.phase = "execute"
    /\ \E a \in EntryPoints \cup {cpu.pc}, env \in Envs :
          /\ Fits(mem, a)
          /\ Restart(State, a, env)

\* Fault: the pruned frame stays in dirty_code_frames.
ClearPhysFrameKeepsDirty(c, f) ==
    MarkFrameAsNeedingJit(
        [ClearTlb(DropEntries(c, Mapped(c, f))) EXCEPT !.cached[f] = NoBytes], f)

\* clear_phys_frame releases every entry of a frame.
ClearPhysFrame(c, f) ==
    LET c1 == ClearTlb(DropEntries(c, Mapped(c, f)))
    IN MarkFrameAsNeedingJit(
         IF c1.delay[f] = 0 THEN c1
         ELSE [c1 EXCEPT !.cached[f] = NoBytes, !.dirty_code_frames = @ \ {f}], f)

\* prune_old_dirty_frames
PruneOldDirtyFrames ==
    /\ cpu.phase = "first"
    /\ \E f \in cache.dirty_code_frames : cache' = Forget(ClearPhysFrame(cache, f))
    /\ UNCHANGED <<mem, clean, queue, results, cpu, writes>>

\* A compile thread takes a request and compiles it.
Compile ==
    /\ queue # <<>>
    /\ results' = results \cup {Head(queue)}
    /\ queue' = Tail(queue)
    /\ UNCHANGED <<mem, clean, cache, cpu, writes>>

\* What a compiled page exports: code for the entry points (flags that make_link and
\* lookup_first set) and for the blocks that break_loops adds, any instructions of
\* the page here.  The compile thread decides; nobody looks before the page arrives.
Exports(r) == SUBSET {i.at : i \in r.instrs}

\* Fault: the instructions are not compared with the cached ones.
ReceiveUncompared ==
    /\ cpu.phase = "first"
    /\ \E r \in results : \E export \in Exports(r) :
          /\ results' = results \ {r}
          /\ cache' = IF cache.delay[r.frame] = 0
                      THEN Update(cache, export, LAMBDA e : [e EXCEPT !.code = r.instrs])
                      ELSE cache
    /\ UNCHANGED <<mem, clean, queue, cpu, writes>>

\* receive_compiled_chains: the page code is attached only if the frame is clean
\* and each of its instructions is still cached as it was when requested.
ReceiveCompiledChains ==
    /\ cpu.phase = "first"
    /\ \E r \in results : \E export \in Exports(r) :
          LET current(i) == /\ i.at \in cache.live
                            /\ cache.entries[i.at].bytes = i.bytes
                            /\ cache.entries[i.at].env = i.env
              ok    == cache.delay[r.frame] = 0 /\ \A i \in r.instrs : current(i)
          IN /\ results' = results \ {r}
             /\ cache' = IF ok THEN Update(cache, export, LAMBDA e : [e EXCEPT !.code = r.instrs])
                         ELSE cache
    /\ UNCHANGED <<mem, clean, queue, cpu, writes>>

EmptyCache ==
    [entries |-> [a \in Addr |-> Blank],
     live    |-> {},
     tlb     |-> {},
     delay   |-> [f \in Frames |-> 0],           \* cleaning_delay, 0 for None
     cached  |-> [f \in Frames |-> NoBytes],     \* cached_instr_bytes
     checks  |-> [f \in Frames |-> {"counters"}],
     jit_page_in |-> [f \in Frames |-> JitDelay],
     prev        |-> [f \in Frames |-> [a \in Addr |-> 0]],  \* prev_entry_indices
     dirty_code_frames |-> {}]

\* Ev::ClearCaches: InnerCache::clear releases every entry; every frame of memory
\* becomes clean.  Requests and results in flight stay.
ClearCaches ==
    /\ cpu.phase = "first"
    /\ cache' = EmptyCache
    /\ clean' = [f \in Frames |-> TRUE]
    /\ UNCHANGED <<mem, queue, results, cpu, writes>>

Init ==
    /\ mem = InitMem
    /\ clean = [f \in Frames |-> TRUE]
    /\ \E env \in Envs, a \in EntryPoints :
          /\ Fits(mem, a)
          /\ cpu = [phase |-> "first", pc |-> a, env |-> env, id |-> NoId]
    /\ cache = EmptyCache
    /\ queue = <<>>
    /\ results = {}
    /\ writes = 0

Next ==
    \/ DoLookupFirst
    \/ ExecuteSingle
    \/ ExecuteJittedPage
    \/ Interrupt
    \/ PruneOldDirtyFrames
    \/ ReceiveCompiledChains
    \/ ClearCaches
    \/ Compile

Spec == Init /\ [][Next]_vars

-----------------------------------------------------------------------------
(* Properties.                                                             *)

\* Type invariant: the counters of a frame stay in their ranges and the queue within
\* the limit at which the page JIT backs off.
TypeOK ==
    /\ mem \in [Addr -> Byte]
    /\ clean \in [Frames -> BOOLEAN]
    /\ cache.live \subseteq Addr
    /\ cache.delay \in [Frames -> 0 .. CleaningDelay]
    /\ cache.jit_page_in \in [Frames -> 0 .. JitDelay]
    /\ cache.prev \in [Frames -> [Addr -> Nat]]
    /\ cache.dirty_code_frames \subseteq Frames
    /\ cpu.phase \in {"first", "execute"}
    /\ cpu.pc \in Addr /\ cpu.env \in Envs /\ cpu.id \in Addr \cup {NoId}
    /\ Len(queue) <= MaxQueue + 1

\* The cached instruction at a is the one in memory.
Current(a) == \A i \in DOMAIN cache.entries[a].bytes : cache.entries[a].bytes[i] = mem[a + i - 1]

\* What lookup_first and lookup_next_from_entry return is the live entry of the
\* program counter, and its instruction is the one in memory now.
FreshExecution ==
    cpu.phase = "execute" => /\ cpu.id = cpu.pc
                             /\ cpu.id \in cache.live
                             /\ Current(cpu.id)

\* Page code is attached only in clean frames, and each of its instructions is
\* still cached and is the instruction in memory.
JitCodeCurrent ==
    \A a \in cache.live : \A i \in cache.entries[a].code :
       /\ cache.delay[Frame(i.at)] = 0
       /\ i.at \in cache.live
       /\ cache.entries[i.at].bytes = i.bytes
       /\ Current(i.at)

\* Links and the TLB lead only to live entries, and each link is counted in the
\* prev_entry_indices of its target's frame, where removing the target finds it.
LinksTracked ==
    /\ \A a \in Addr, t \in BOOLEAN :
          LET to == cache.entries[a].links.to[t]
          IN to # NoId => to \in cache.live /\ cache.prev[Frame(to)][a] > 0
    /\ cache.tlb \subseteq cache.live

\* The cached instructions of a frame never overlap.
NoOverlap == \A a \in cache.live : Covered(cache, a) = {}

\* A dirty frame that holds instructions has a copy of their bytes and is in
\* dirty_code_frames; a clean one has neither; a frame that memory has marked
\* dirty is dirty for the cache; and the flags that let a lookup skip its checks
\* are exact.
DirtyFramesTracked ==
    \A f \in Frames :
       /\ cache.delay[f] = 0 => cache.cached[f] = NoBytes /\ f \notin cache.dirty_code_frames
       /\ cache.delay[f] # 0 /\ Mapped(cache, f) # {} =>
             cache.cached[f] # NoBytes /\ f \in cache.dirty_code_frames
       /\ ~clean[f] => cache.delay[f] # 0
       /\ "dirty" \in cache.checks[f] <=> cache.delay[f] # 0
       /\ "counters" \in cache.checks[f] <=> cache.jit_page_in[f] # 0

\* The bookkeeping by which an invalidation finds everything it has to drop:
\* links and the TLB, the instructions of a frame, and its dirty state.
CacheConsistent == LinksTracked /\ NoOverlap /\ DirtyFramesTracked

\* The entry returned by a lookup was decoded for the current environment.
EnvCurrent == cpu.phase = "execute" => cache.entries[cpu.id].env = cpu.env

\* A frame that the cache holds for clean has not been written behind its back:
\* every instruction cached in it is the one in memory.
CleanFramesCurrent ==
    \A a \in cache.live : cache.delay[Frame(a)] = 0 => Current(a)
=============================================================================

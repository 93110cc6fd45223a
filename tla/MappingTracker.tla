--------------------------- MODULE MappingTracker ---------------------------
(***************************************************************************)
(* How the instruction cache follows the guest's page tables: the tracked  *)
(* mappings of icache/mapping.rs, the TLB of icache/tlb.rs and the page    *)
(* version of util/version.rs.                                             *)
(*                                                                         *)
(* Page tables are read only when a page is resolved; in between they may  *)
(* change.  The guest promises to reload CR3 or to invalidate the page.    *)
(* An entry of the TLB is a linear page with the frame of its instruction. *)
(***************************************************************************)
EXTENDS Naturals, FiniteSets

CONSTANTS
    NPages,      \* linear pages, and physical frames (2^20)
    TableFrames, \* frames the page tables refer to
    WrapAt,      \* pages up to the one where A20 wraps (256)
    ChunkSize,   \* frames per bit of frame_chunks_with_page_mappings_current
    NTlb,        \* slots of the TLB
    MaxVersion,  \* largest page version (2^16 - 1)
    MaxEdits     \* bound: changes of the page tables

MappingAssumption ==
    /\ NPages \in Nat /\ NPages >= 2
    /\ {WrapAt, ChunkSize, NTlb, MaxVersion} \subseteq Nat \ {0}
    /\ TableFrames \subseteq 0 .. NPages - 1

Pages  == 0 .. NPages - 1
PhysFrames == Pages
NoFrame == NPages

VARIABLES
    table,    \* page -> frame in the guest's page tables
    paging,   \* CR0.PG
    a20,      \* the A20 line
    tracker,  \* MappingTracker, Tlb and Versioner
    seen,     \* history: <<paging, frame>> of a page since the cache was told
    edits     \* for the bound

mapVars == <<table, paging, a20, tracker, seen, edits>>

Up(p)   == (p + 1) % NPages
Down(p) == (p + NPages - 1) % NPages

EmptyTlb == [s \in 0 .. NTlb - 1 |-> [page |-> 0, frame |-> 0, version |-> 0]]

\* MappingTracker::new, Tlb::new and Versioner::new
NewTracker ==
    [map |-> [p \in Pages |-> NoFrame], info |-> [f \in PhysFrames |-> {}],
     current |-> {}, chunks |-> {}, tlb |-> EmptyTlb, version |-> 1]

\* page_walk: what the page tables, or without paging the A20 line, say of p.
PageWalk(tab, pg, line, p) == IF pg THEN tab[p] ELSE IF line THEN p ELSE p % WrapAt
Walk(p) == PageWalk(table, paging, a20, p)

-----------------------------------------------------------------------------
(* The tracked mappings.                                                   *)

\* The recorded mapping of frame f at page p.
Mapping(t, f, p) == CHOOSE m \in t.info[f] : m.page = p

\* The neighbours of a mapping m learn that its page is now frame f.
SetPredecessor(info, m, f) ==
    IF m.successor = NoFrame THEN info
    ELSE [info EXCEPT ![m.successor] =
            {IF o.page = Up(m.page) THEN [o EXCEPT !.predecessor = f] ELSE o : o \in @}]
SetSuccessor(info, m, f) ==
    IF m.predecessor = NoFrame THEN info
    ELSE [info EXCEPT ![m.predecessor] =
            {IF o.page = Down(m.page) THEN [o EXCEPT !.successor = f] ELSE o : o \in @}]
Relink(info, m, f) == SetSuccessor(SetPredecessor(info, m, f), m, f)

\* The observer's mapping_removed clears the TLB.
TlbCleared(t) == [t EXCEPT !.tlb = EmptyTlb]

MakeCurrent(t, f) == [t EXCEPT !.current = @ \cup {f}, !.chunks = @ \cup {f \div ChunkSize}]

\* update_frame_page_mapping of a page that is tracked.
MoveMapping(t, f, p) ==
    LET old == t.map[p]
        m == Mapping(t, old, p)
        without == [t.info EXCEPT ![old] = @ \ {m}]
    IN  TlbCleared([t EXCEPT !.map[p] = f, !.info = [Relink(without, m, f) EXCEPT ![f] = @ \cup {m}]])

\* Fault: any frame is made current by a new mapping.
TrackMappingCurrent(t, f, p) ==
    LET m == [page |-> p, successor |-> t.map[Up(p)], predecessor |-> t.map[Down(p)]]
        with == [t.info EXCEPT ![f] = @ \cup {m}]
    IN  MakeCurrent([t EXCEPT !.map[p] = f, !.info = Relink(with, m, f)], f)
\* ... of a page that is not: a frame with one mapping is then current.
TrackMapping(t, f, p) ==
    LET m == [page |-> p, successor |-> t.map[Up(p)], predecessor |-> t.map[Down(p)]]
        with == [t.info EXCEPT ![f] = @ \cup {m}]
        added == [t EXCEPT !.map[p] = f, !.info = Relink(with, m, f)]
    IN  IF f \notin t.current /\ Cardinality(added.info[f]) = 1 THEN MakeCurrent(added, f) ELSE added

UpdateFramePageMapping(t, f, p) ==
    IF t.map[p] = NoFrame THEN TrackMapping(t, f, p)
    ELSE IF t.map[p] # f THEN MoveMapping(t, f, p) ELSE t

\* Fault: the neighbours keep their link to the frame.
RemoveFramePageMappingOnly(t, p) ==
    IF t.map[p] = NoFrame THEN t
    ELSE TlbCleared([t EXCEPT !.map[p] = NoFrame,
                            !.info[t.map[p]] = @ \ {Mapping(t, t.map[p], p)}])
RemoveFramePageMapping(t, p) ==
    IF t.map[p] = NoFrame THEN t
    ELSE LET old == t.map[p]
             m == Mapping(t, old, p)
             without == [t.info EXCEPT ![old] = @ \ {m}]
         IN  TlbCleared([t EXCEPT !.map[p] = NoFrame, !.info = Relink(without, m, NoFrame)])

ResolvePhysFrameIndex(t, p) ==
    IF Walk(p) = NoFrame THEN RemoveFramePageMapping(t, p) ELSE UpdateFramePageMapping(t, Walk(p), p)

\* rewalk_pages makes the frame current and resolves every page of it; the order does
\* not matter.
RewalkPages(t, f) ==
    LET resolved[s \in SUBSET Pages] ==
          IF s = {} THEN MakeCurrent(t, f)
          ELSE LET p == CHOOSE q \in s : TRUE IN ResolvePhysFrameIndex(resolved[s \ {p}], p)
    IN  resolved[{m.page : m \in t.info[f]}]

\* mark_all_mappings_as_stale visits the chunks that were made current.
MarkAllMappingsAsStale(t) ==
    [t EXCEPT !.current = {f \in @ : f \div ChunkSize \notin t.chunks}, !.chunks = {}]

\* Versioner::increment; the TLB is cleared when the version wraps.
IncrementVersion(t) == IF t.version < MaxVersion THEN [t EXCEPT !.version = @ + 1]
                       ELSE TlbCleared([t EXCEPT !.version = 1])

NotifyAllPageMappingsUpdated(t) == IncrementVersion(MarkAllMappingsAsStale(t))

\* Tlb::lookup and Tlb::insert
TlbHit(t, p) == LET e == t.tlb[p % NTlb] IN e.page = p /\ e.version >= t.version
TlbInserted(t, p, f) == [t EXCEPT !.tlb[p % NTlb] = [page |-> p, frame |-> f, version |-> t.version]]

-----------------------------------------------------------------------------
(* The guest and the lookups of the cache.                                 *)

Tracks(t) == tracker' = t /\ UNCHANGED <<table, paging, a20, seen, edits>>

\* The translations of all pages from now on.
FreshSeen(tab, pg, line) == [p \in Pages |-> {<<pg, PageWalk(tab, pg, line, p)>>}]

MapInit ==
    /\ \E f \in TableFrames \cup {NoFrame} : table = [p \in Pages |-> f]
    /\ paging = FALSE /\ a20 = FALSE
    /\ tracker = NewTracker
    /\ seen = FreshSeen(table, paging, a20)
    /\ edits = 0

\* The guest changes its page tables, or turns paging on or off: the cache is
\* not told (update_cr0 changes the memory only).
Edit(tab, pg) ==
    /\ edits < MaxEdits /\ edits' = edits + 1
    /\ table' = tab /\ paging' = pg
    /\ seen' = [p \in Pages |-> seen[p] \cup {<<pg, PageWalk(tab, pg, a20, p)>>}]
    /\ UNCHANGED <<a20, tracker>>
WriteTable(p, f) == Edit([table EXCEPT ![p] = f], paging)
WriteCr0 == Edit(table, ~paging)

\* MOV CR3
WriteCr3 ==
    /\ tracker' = NotifyAllPageMappingsUpdated(tracker)
    /\ seen' = FreshSeen(table, paging, a20)
    /\ UNCHANGED <<table, paging, a20, edits>>
\* The keyboard controller or port 0x92 changes the A20 line.
UpdateA20(line) ==
    /\ edits < MaxEdits /\ edits' = edits + 1
    /\ a20' = line
    /\ tracker' = NotifyAllPageMappingsUpdated(tracker)
    /\ seen' = FreshSeen(table, paging, line)
    /\ UNCHANGED <<table, paging>>
\* INVLPG
InvalidatePage(p) ==
    /\ tracker' = ResolvePhysFrameIndex(tracker, p)
    /\ seen' = [seen EXCEPT ![p] = {<<paging, Walk(p)>>}]
    /\ UNCHANGED <<table, paging, a20, edits>>

\* find_or_create_entry for an instruction in page p: a page fault, or its
\* entry is in the TLB afterwards.
LookupPage(p) ==
    /\ ~TlbHit(tracker, p)
    /\ Tracks(LET t == ResolvePhysFrameIndex(tracker, p)
              IN  IF Walk(p) = NoFrame THEN t ELSE TlbInserted(t, p, Walk(p)))
\* decode_instr_at resolves the second page of an instruction that crosses.
DecodeSecondPage(p) == Tracks(ResolvePhysFrameIndex(tracker, p))
\* page_mapping_mismatch, for the frame of the next instruction or the one after it.
PageMappingMismatch(f) == f \notin tracker.current /\ Tracks(RewalkPages(tracker, f))
\* InstructionCache::clear
Clear == Tracks(NewTracker)

MapNext ==
    \/ \E p \in Pages : \/ \E f \in TableFrames \cup {NoFrame} : WriteTable(p, f)
                        \/ InvalidatePage(p) \/ LookupPage(p) \/ DecodeSecondPage(p)
    \/ WriteCr0 \/ WriteCr3 \/ Clear
    \/ \E line \in BOOLEAN : UpdateA20(line)
    \/ \E f \in PhysFrames : PageMappingMismatch(f)

MapSpec == MapInit /\ [][MapNext]_mapVars

-----------------------------------------------------------------------------
(* Properties.                                                             *)

\* What check_consistency would assert (it is switched off), and what the
\* expects and assertions of the updates rely on: the two maps are inverse,
\* and successors and predecessors are dual.
LinksDual ==
    \A p \in Pages, f \in PhysFrames :
        /\ tracker.map[p] = f <=> \E m \in tracker.info[f] : m.page = p
        /\ \A m \in tracker.info[f] :
             m.page = p => /\ m.successor = tracker.map[Up(p)]
                           /\ m.predecessor = tracker.map[Down(p)]
                           /\ Cardinality({o \in tracker.info[f] : o.page = p}) = 1

\* A frame that is flagged current, and a hit in the TLB, give a translation
\* that the page tables have had since the cache was last told of a change;
\* and the two directions of the tracked mappings agree.
TranslationsFresh ==
    /\ \A p \in Pages :
          /\ tracker.map[p] \in tracker.current => tracker.map[p] \in {s[2] : s \in seen[p]}
          /\ TlbHit(tracker, p) => tracker.tlb[p % NTlb].frame \in {s[2] : s \in seen[p]}
    /\ LinksDual
=============================================================================

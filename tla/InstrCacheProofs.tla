-------------------------- MODULE InstrCacheProofs ---------------------------
(***************************************************************************)
(* Proofs about the instruction cache (InstrCache): with any memory, any   *)
(* opcodes and any number of frames and environments, what is executed is  *)
(* what memory holds, page code included, and the bookkeeping by which an  *)
(* invalidation finds what it has to drop is consistent.  At the end: what *)
(* the mapping tracker (MappingTracker) promises, for any page tables.     *)
(*                                                                         *)
(* The cache is a value that operators transform, so most lemmas are about *)
(* a cache c, the memory m and the clean frames cl of one moment.          *)
(***************************************************************************)
EXTENDS InstrCache, MappingTracker, Integers, FiniteSetTheorems, NaturalSets, TLAPS

-----------------------------------------------------------------------------
(* The inductive invariant.                                                *)

Kinds    == {"unchecked", "checked", "speculative"}
Links    == [kind : Kinds, to : [BOOLEAN -> Addr \cup {NoId}]]
Instr    == [at : Addr, bytes : Seq(Byte), env : Envs]
Entry    == [env : Envs \cup {NoBytes}, bytes : Seq(Byte), code : SUBSET Instr, links : Links]
Requests == [frame : Frames, instrs : SUBSET Instr]
Cache    == [entries : [Addr -> Entry], live : SUBSET Addr, tlb : SUBSET Addr,
             delay : [Frames -> 0 .. CleaningDelay], cached : [Frames -> [Slots -> Byte] \cup {NoBytes}],
             checks : [Frames -> SUBSET {"dirty", "counters"}], jit_page_in : [Frames -> 0 .. JitDelay],
             prev : [Frames -> [Addr -> Nat]], dirty_code_frames : SUBSET Frames]

\* The entry at a, if there is one, holds a whole instruction.
Whole(c) ==
    \A a \in c.live :
        LET e == c.entries[a]
        IN  /\ e.bytes # << >> /\ Len(e.bytes) = Length[Opcode(e)] /\ Offset(a) + Len(e.bytes) <= Size
            /\ e.env \in Envs
            /\ e.links.kind = "speculative" <=> Opcode(e) \notin Relative

Apart(c) == \A a, b \in c.live : a < b => End(c, a) <= b

\* Links, of released entries too, lead to entries, and prev counts them.
Leading(e, f) == {x \in Targets(e) : Frame(x) = f}
Counted(c) ==
    \A e \in Addr : /\ Targets(c.entries[e]) \subseteq c.live
                    /\ \A f \in Frames : Cardinality(Leading(c.entries[e], f)) <= c.prev[f][e]

\* A link that is followed without a look at the program counter leads to where
\* the opcode continues, and one that is followed without any check stays in a
\* clean frame.
JumpTarget(a, op, t) == (a + IF t THEN Delta ELSE Length[op]) % (NFrames * Size)
Fixed(c) ==
    \A a \in c.live, t \in BOOLEAN :
        LET e  == c.entries[a]
            to == e.links.to[t]
        IN  e.links.kind # "speculative" /\ to # NoId =>
              /\ to = JumpTarget(a, Opcode(e), t)
              /\ e.links.kind = "unchecked" => Frame(to) = Frame(a) /\ c.delay[Frame(a)] = 0

\* The dirty state of the frames.
Noted(c, cl) ==
    \A f \in Frames :
        /\ c.delay[f] = 0 => c.cached[f] = NoBytes /\ f \notin c.dirty_code_frames
        /\ c.delay[f] # 0 => /\ f \in c.dirty_code_frames <=> Mapped(c, f) # {}
                             /\ c.cached[f] # NoBytes <=> Mapped(c, f) # {}
        /\ ~cl[f] => c.delay[f] # 0
        /\ "dirty" \in c.checks[f] <=> c.delay[f] # 0
        /\ "counters" \in c.checks[f] <=> c.jit_page_in[f] # 0

\* An entry holds what memory holds in a clean frame, and what memory held when its
\* frame was noticed to be dirty, or when it was decoded, in a dirty one.
ByteAt(c, m, x) == IF c.delay[Frame(x)] = 0 THEN m[x] ELSE c.cached[Frame(x)][Offset(x)]
Holds(c, m, a) ==
    \A i \in 1 .. Len(c.entries[a].bytes) : c.entries[a].bytes[i] = ByteAt(c, m, a + i - 1)

\* Page code is attached in clean frames, and its instructions are cached.
Attached(c) ==
    \A a \in c.live : \A i \in c.entries[a].code :
        /\ i.at \in c.live /\ Frame(i.at) = Frame(a) /\ c.delay[Frame(a)] = 0
        /\ c.entries[i.at].bytes = i.bytes /\ c.entries[i.at].env = i.env

\* What the entries say.
Core(c, m) ==
    /\ c \in Cache /\ Whole(c) /\ Apart(c) /\ Counted(c) /\ Fixed(c)
    /\ \A a \in c.live : Holds(c, m, a)

CacheOK(c, m, cl) == Core(c, m) /\ Noted(c, cl) /\ Attached(c) /\ c.tlb \subseteq c.live

CpuOK ==
    /\ cpu \in [phase : {"first", "execute"}, pc : Addr, env : Envs, id : Addr \cup {NoId}]
    /\ cpu.phase = "first" => Fits(mem, cpu.pc)

\* A request names instructions of its frame.
InFrame(r) == \A i \in r.instrs : Frame(i.at) = r.frame
QueueOK(q) == q \in Seq(Requests) /\ Len(q) <= MaxQueue + 1 /\ \A n \in 1 .. Len(q) : InFrame(q[n])

JitOK == QueueOK(queue) /\ results \subseteq Requests /\ \A r \in results : InFrame(r)

IInv ==
    /\ mem \in [Addr -> Byte] /\ clean \in [Frames -> BOOLEAN] /\ writes \in Nat
    /\ CacheOK(cache, mem, clean) /\ CpuOK /\ JitOK /\ FreshExecution

\* A step that continues at the instruction it came from, for another environment
\* than that of its entry: the entry is decoded again before it is linked to itself.
Executing ==
    IF cache.entries[cpu.id].code # {} THEN cache.entries[cpu.id].code
    ELSE {[at |-> cpu.id, bytes |-> cache.entries[cpu.id].bytes, env |-> cache.entries[cpu.id].env]}
SelfSwitch ==
    /\ cpu.phase = "execute" /\ cpu'.phase = "execute"
    /\ \E i \in Executing : /\ i.at = cpu'.pc /\ i.env # cpu'.env
                            /\ \E t \in BOOLEAN : <<i.at, t>> \in Successors(i.at, Opcode(i))

-----------------------------------------------------------------------------
(* Addresses.                                                              *)

\* An address is byte Offset of its frame.
LEMMA Places ==
    /\ Size \in Nat \ {0} /\ NFrames \in Nat \ {0} /\ TlbSize \in Nat \ {0}
    /\ \A a \in Addr : a \in Nat /\ Frame(a) \in Frames /\ Offset(a) \in Slots /\ Frame(a) * Size + Offset(a) = a
    /\ \A f \in Frames, o \in Slots : f \in Nat /\ o \in Nat /\ f * Size + o \in Addr /\ Frame(f * Size + o) = f /\ Offset(f * Size + o) = o
    /\ NoId \in Nat /\ NoId \notin Addr
<1>1. Size \in Nat \ {0} /\ NFrames \in Nat \ {0} /\ TlbSize \in Nat \ {0}  BY SizeAssumption
<1>2. NFrames * Size \in Nat  BY <1>1
<1>3. ASSUME NEW a \in Addr PROVE a \in Nat /\ Frame(a) \in Frames /\ Offset(a) \in Slots /\ Frame(a) * Size + Offset(a) = a
  <2>1. a \in Nat /\ a < NFrames * Size  BY <1>2, <1>3 DEF Addr
  <2>2. a \div Size \in Nat /\ a % Size \in 0 .. Size - 1  BY <1>1, <2>1
  <2>3. a - Size * (a \div Size) = a % Size  BY <1>1, <2>1, Z3
  <2> DEFINE q == a \div Size
             r == a % Size
  <2>4. q \in Nat /\ r \in Nat /\ r < Size /\ a - Size * q = r  BY <2>2, <2>3, <1>1
  <2>5. q <= NFrames - 1
    <3> HIDE DEF q, r
    <3>1. SUFFICES ASSUME q >= NFrames PROVE FALSE  BY <2>4, <1>1
    <3>2. \A x, y, z \in Nat : x >= y => x * z >= y * z  OBVIOUS
    <3>3. q * Size >= NFrames * Size  BY <3>1, <3>2, <2>4, <1>1
    <3> QED  BY <3>3, <2>4, <2>1, <1>1, <1>2
  <2>6. q * Size + r = a
    <3> HIDE DEF q, r
    <3> QED  BY <2>4, <2>1, <1>1
  <2> QED  BY <2>1, <2>2, <2>4, <2>5, <2>6, <1>1 DEF Frame, Offset, Frames, Slots
<1>4. ASSUME NEW f \in Frames, NEW o \in Slots
      PROVE  f \in Nat /\ o \in Nat /\ f * Size + o \in Addr /\ Frame(f * Size + o) = f /\ Offset(f * Size + o) = o
  <2>1. f \in Nat /\ o \in Nat /\ o < Size /\ f <= NFrames - 1  BY <1>1 DEF Frames, Slots
  <2>2. \A s \in Nat \ {0}, q, r \in Nat : r < s => (s * q + r) \div s = q /\ (s * q + r) % s = r  OBVIOUS
  <2>3. Size * f + o = f * Size + o  BY <2>1, <1>1
  <2>4. (f * Size + o) \div Size = f /\ (f * Size + o) % Size = o  BY <2>1, <2>2, <2>3, <1>1
  <2>5. \A x, y, z, w \in Nat : x <= y - 1 /\ w < z => x * z + w < y * z  OBVIOUS
  <2>6. f * Size + o \in Nat /\ f * Size + o < NFrames * Size  BY <2>1, <2>5, <1>1
  <2> QED  BY <2>1, <2>4, <2>6, <1>2 DEF Frame, Offset, Addr
<1> QED  BY <1>1, <1>2, <1>3, <1>4 DEF Addr, NoId

\* The bytes that follow an address in its frame.
LEMMA Along ==
    ASSUME NEW a \in Addr, NEW n \in Nat, Offset(a) + n < Size
    PROVE  a + n \in Addr /\ Frame(a + n) = Frame(a) /\ Offset(a + n) = Offset(a) + n
<1>1. Frame(a) \in Frames /\ Offset(a) \in Nat /\ Frame(a) * Size + Offset(a) = a /\ Size \in Nat /\ a \in Nat  BY Places DEF Slots
<1>2. Offset(a) + n \in Slots  BY <1>1 DEF Slots
<1>3. Frame(a) \in Nat  BY Places
<1>4. Frame(a) * Size + (Offset(a) + n) = a + n
  <2> DEFINE p == Frame(a) * Size
  <2>1. p \in Nat  BY <1>1, <1>3
  <2>2. p + Offset(a) = a  BY <1>1
  <2> HIDE DEF p
  <2>3. p + (Offset(a) + n) = a + n  BY <2>1, <2>2, <1>1
  <2> QED  BY <2>3 DEF p
<1> QED  BY <1>1, <1>2, <1>4, Places

\* Two addresses of a frame differ by as much as their offsets.
LEMMA Apace ==
    ASSUME NEW a \in Addr, NEW b \in Addr, Frame(a) = Frame(b)
    PROVE  a - b = Offset(a) - Offset(b)
<1> DEFINE p == Frame(a) * Size
<1>1. p \in Nat /\ p + Offset(a) = a /\ p + Offset(b) = b /\ Offset(a) \in Nat /\ Offset(b) \in Nat  BY Places DEF Slots
<1> HIDE DEF p
<1> QED  BY <1>1

-----------------------------------------------------------------------------
(* Links.                                                                  *)

\* What the fields of an entry and of a cache are.
LEMMA EntryFields ==
    ASSUME NEW e \in Entry
    PROVE  /\ e.env \in Envs \cup {NoBytes} /\ e.bytes \in Seq(Byte) /\ e.code \in SUBSET Instr /\ e.links \in Links
           /\ e.links.kind \in Kinds /\ e.links.to \in [BOOLEAN -> Addr \cup {NoId}]
BY DEF Entry, Links

\* The fields of a cache.
LEMMA CacheFields ==
    ASSUME NEW c \in Cache
    PROVE  /\ c.entries \in [Addr -> Entry] /\ c.live \in SUBSET Addr /\ c.tlb \in SUBSET Addr
           /\ c.delay \in [Frames -> 0 .. CleaningDelay] /\ c.cached \in [Frames -> [Slots -> Byte] \cup {NoBytes}]
           /\ c.checks \in [Frames -> SUBSET {"dirty", "counters"}] /\ c.jit_page_in \in [Frames -> 0 .. JitDelay]
           /\ c.prev \in [Frames -> [Addr -> Nat]] /\ c.dirty_code_frames \in SUBSET Frames
BY DEF Cache

\* An entry has at most two links.
LEMMA FewTargets ==
    ASSUME NEW e \in Entry
    PROVE  /\ Targets(e) \subseteq Addr /\ IsFiniteSet(Targets(e))
           /\ \A f : IsFiniteSet(Leading(e, f)) /\ Cardinality(Leading(e, f)) \in Nat
<1>1. e.links.to \in [BOOLEAN -> Addr \cup {NoId}]  BY EntryFields
<1>2. Targets(e) \subseteq {e.links.to[TRUE]} \cup {e.links.to[FALSE]}  BY DEF Targets
<1>3. IsFiniteSet({e.links.to[TRUE]} \cup {e.links.to[FALSE]})  BY FS_Singleton, FS_Union
<1>4. IsFiniteSet(Targets(e))  BY <1>2, <1>3, FS_Subset
<1>5. ASSUME NEW f PROVE IsFiniteSet(Leading(e, f)) /\ Cardinality(Leading(e, f)) \in Nat
  <2>1. Leading(e, f) \in SUBSET Targets(e)  BY DEF Leading
  <2> QED  BY <2>1, <1>4, FS_Subset, FS_CardinalityType
<1>6. Targets(e) \subseteq Addr  BY <1>1 DEF Targets
<1> QED  BY <1>4, <1>5, <1>6

\* Links::clear
LEMMA Cleared ==
    ASSUME NEW e \in Entry
    PROVE  /\ ClearLinks(e) \in Entry
           /\ ClearLinks(e).env = e.env /\ ClearLinks(e).bytes = e.bytes /\ ClearLinks(e).code = e.code
           /\ ClearLinks(e).links.kind = "speculative" <=> e.links.kind = "speculative"
           /\ ClearLinks(e).links.to = [t \in BOOLEAN |-> NoId]
           /\ Targets(ClearLinks(e)) = {}
<1> DEFINE k == IF e.links.kind = "speculative" THEN "speculative" ELSE "unchecked"
           l == EmptyLinks(k)
<1>1. l = [kind |-> k, to |-> [t \in BOOLEAN |-> NoId]] /\ l \in Links  BY DEF EmptyLinks, Links, Kinds
<1>2. ClearLinks(e) = [e EXCEPT !.links = l]  BY DEF ClearLinks
<1> HIDE DEF l
<1>3. /\ ClearLinks(e) \in Entry /\ ClearLinks(e).links = l
      /\ ClearLinks(e).env = e.env /\ ClearLinks(e).bytes = e.bytes /\ ClearLinks(e).code = e.code
  BY <1>1, <1>2 DEF Entry
<1>4. l.kind = k /\ l.to = [t \in BOOLEAN |-> NoId]  BY <1>1
<1>5. Targets(ClearLinks(e)) = {}  BY <1>3, <1>4 DEF Targets
<1> QED  BY <1>3, <1>4, <1>5

\* What removing links leaves as it is, and what may happen to an entry.
Kept(e, d) ==
    /\ d.env = e.env /\ d.bytes = e.bytes
    /\ d.links.kind = "speculative" <=> e.links.kind = "speculative"
    /\ \A t \in BOOLEAN : d.links.to[t] \in {e.links.to[t], NoId}
    /\ Targets(d) # {} => d.links.kind = e.links.kind
Shrunk(e, d) == Kept(e, d) /\ d.code = e.code
Framed(c, d) ==
    /\ d.tlb = c.tlb /\ d.delay = c.delay /\ d.cached = c.cached /\ d.checks = c.checks
    /\ d.jit_page_in = c.jit_page_in /\ d.dirty_code_frames = c.dirty_code_frames

\* remove_links_from_items_to finds every link to the entries of A.
LEMMA LinksRemoved ==
    ASSUME NEW c \in Cache, Counted(c), NEW A \in SUBSET Addr, NEW B \in SUBSET Addr
    PROVE  LET d == RemoveLinks(c, A, B)
           IN  /\ d \in Cache /\ d.live = c.live /\ Framed(c, d)
               /\ \A e \in Addr : /\ Shrunk(c.entries[e], d.entries[e])
                                  /\ Targets(d.entries[e]) \subseteq Targets(c.entries[e]) \ A
                                  /\ \A f \in Frames : Cardinality(Leading(d.entries[e], f)) <= d.prev[f][e]
<1> DEFINE lost(e)    == {a \in A \cap Targets(c.entries[e]) : c.prev[Frame(a)][e] > 0 /\ (e \in B => a <= e)}
           cut(e)     == [c.entries[e] EXCEPT !.links.to = [t \in BOOLEAN |-> IF @[t] \in lost(e) THEN NoId ELSE @[t]]]
           gone(e, f) == {a \in lost(e) : Frame(a) = f}
           entries    == [e \in Addr |-> IF e \in B THEN ClearLinks(c.entries[e]) ELSE cut(e)]
           prev       == [f \in Frames |-> [e \in Addr |-> c.prev[f][e] - Cardinality(gone(e, f))]]
           d          == RemoveLinks(c, A, B)
<1>1. d = [c EXCEPT !.entries = entries, !.prev = prev]  BY DEF RemoveLinks
<1>2. c.entries \in [Addr -> Entry] /\ c.prev \in [Frames -> [Addr -> Nat]]  BY CacheFields
<1>3. ASSUME NEW e \in Addr
      PROVE  /\ entries[e] \in Entry /\ Shrunk(c.entries[e], entries[e])
             /\ Targets(entries[e]) \subseteq Targets(c.entries[e]) \ A
             /\ \A f \in Frames : /\ Cardinality(gone(e, f)) \in Nat /\ Cardinality(gone(e, f)) <= c.prev[f][e]
                                  /\ Cardinality(Leading(entries[e], f)) <= c.prev[f][e] - Cardinality(gone(e, f))
  <2>1. c.entries[e] \in Entry  BY <1>2
  <2>2. Targets(c.entries[e]) \subseteq Addr  BY <2>1, FewTargets
  <2>3. ASSUME NEW f \in Frames
        PROVE  /\ IsFiniteSet(Leading(c.entries[e], f)) /\ Cardinality(Leading(c.entries[e], f)) \in Nat
               /\ Cardinality(Leading(c.entries[e], f)) <= c.prev[f][e] /\ c.prev[f][e] \in Nat
               /\ IsFiniteSet(gone(e, f)) /\ Cardinality(gone(e, f)) \in Nat
               /\ Cardinality(gone(e, f)) <= Cardinality(Leading(c.entries[e], f))
               /\ gone(e, f) \subseteq Leading(c.entries[e], f)
    <3>1. IsFiniteSet(Leading(c.entries[e], f)) /\ Cardinality(Leading(c.entries[e], f)) \in Nat  BY <2>1, FewTargets
    <3>2. gone(e, f) \in SUBSET Leading(c.entries[e], f)  BY DEF Leading
    <3>3. IsFiniteSet(gone(e, f)) /\ Cardinality(gone(e, f)) <= Cardinality(Leading(c.entries[e], f))
      <4> HIDE DEF gone
      <4> QED  BY <3>1, <3>2, FS_Subset
    <3>4. Cardinality(gone(e, f)) \in Nat
      <4> HIDE DEF gone
      <4> QED  BY <3>3, FS_CardinalityType
    <3>5. Cardinality(Leading(c.entries[e], f)) <= c.prev[f][e]  BY DEF Counted
    <3>6. c.prev[f][e] \in Nat  BY <1>2
    <3> QED  BY <3>1, <3>2, <3>3, <3>4, <3>5, <3>6
  <2>4. e \notin B => lost(e) = A \cap Targets(c.entries[e])
    <3>1. SUFFICES ASSUME NEW a \in A \cap Targets(c.entries[e]) PROVE c.prev[Frame(a)][e] > 0  OBVIOUS
    <3> DEFINE f == Frame(a)
    <3>2. f \in Frames  BY <2>2, Places
    <3>3. a \in Leading(c.entries[e], f)  BY DEF Leading
    <3> HIDE DEF f
    <3>4. Cardinality(Leading(c.entries[e], f)) # 0  BY <2>3, <3>2, <3>3, FS_EmptySet
    <3>5. Cardinality(Leading(c.entries[e], f)) \in Nat /\ Cardinality(Leading(c.entries[e], f)) <= c.prev[f][e] /\ c.prev[f][e] \in Nat
      <4> HIDE DEF gone, lost
      <4> QED  BY <2>3, <3>2
    <3>6. \A x, y \in Nat : x # 0 /\ x <= y => y > 0  OBVIOUS
    <3>7. c.prev[f][e] > 0  BY <3>4, <3>5, <3>6
    <3> QED  BY <3>7 DEF f
  <2>5. CASE e \in B
    <3>1. entries[e] = ClearLinks(c.entries[e])  BY <2>5
    <3>2. /\ entries[e] \in Entry /\ Targets(entries[e]) = {} /\ Shrunk(c.entries[e], entries[e])
      <4> HIDE DEF entries
      <4> QED  BY <3>1, <2>1, Cleared DEF Kept, Shrunk
    <3>3. ASSUME NEW f \in Frames PROVE Cardinality(Leading(entries[e], f)) = 0
      <4>1. Leading(entries[e], f) = {}  BY <3>2 DEF Leading
      <4> QED  BY <4>1, FS_EmptySet
    <3> HIDE DEF entries, gone
    <3> QED  BY <3>2, <3>3, <2>3
  <2>6. CASE e \notin B
    <3>1. entries[e] = cut(e)  BY <2>6
    <3>2. c.entries[e].links \in Links /\ c.entries[e].links.to \in [BOOLEAN -> Addr \cup {NoId}]  BY <2>1, EntryFields
    <3> DEFINE to == [t \in BOOLEAN |-> IF c.entries[e].links.to[t] \in lost(e) THEN NoId ELSE c.entries[e].links.to[t]]
    <3>3. to \in [BOOLEAN -> Addr \cup {NoId}]  BY <3>2
    <3>4. cut(e) = [c.entries[e] EXCEPT !.links = [@ EXCEPT !.to = to]]  OBVIOUS
    <3>5. ASSUME NEW t \in BOOLEAN PROVE to[t] = IF c.entries[e].links.to[t] \in lost(e) THEN NoId ELSE c.entries[e].links.to[t]
      OBVIOUS
    <3> HIDE DEF entries, to, cut
    <3>6. /\ entries[e] \in Entry /\ entries[e].links.to = to /\ entries[e].links.kind = c.entries[e].links.kind
          /\ entries[e].env = c.entries[e].env /\ entries[e].bytes = c.entries[e].bytes /\ entries[e].code = c.entries[e].code
      BY <3>1, <3>2, <3>3, <3>4, <2>1 DEF Entry, Links
    <3>7. Shrunk(c.entries[e], entries[e])  BY <3>6, <3>5 DEF Kept, Shrunk
    <3>8. Targets(entries[e]) \subseteq Targets(c.entries[e]) \ lost(e)  BY <3>6, <3>5 DEF Targets
    <3>9. ASSUME NEW f \in Frames
          PROVE  Cardinality(Leading(entries[e], f)) <= c.prev[f][e] - Cardinality(gone(e, f))
      <4>1. Leading(entries[e], f) \in SUBSET (Leading(c.entries[e], f) \ gone(e, f))  BY <3>8 DEF Leading
      <4> HIDE DEF gone
      <4>2. /\ IsFiniteSet(Leading(c.entries[e], f) \ gone(e, f))
            /\ Cardinality(Leading(c.entries[e], f) \ gone(e, f))
                 = Cardinality(Leading(c.entries[e], f)) - Cardinality(gone(e, f))
        <5> DEFINE L == Leading(c.entries[e], f)
                   G == gone(e, f)
        <5>1. IsFiniteSet(L) /\ IsFiniteSet(G) /\ G \subseteq L  BY <2>3
        <5>2. L \ G \in SUBSET L /\ (L \ G) \cup G = L /\ (L \ G) \cap G = {}  BY <5>1
        <5> HIDE DEF L, G
        <5>3. IsFiniteSet(L \ G)  BY <5>1, <5>2, FS_Subset
        <5>4. Cardinality((L \ G) \cup G) = Cardinality(L \ G) + Cardinality(G) - Cardinality((L \ G) \cap G)
          BY <5>1, <5>3, FS_Union
        <5>5. Cardinality(L) = Cardinality(L \ G) + Cardinality(G) - 0  BY <5>2, <5>4, FS_EmptySet
        <5>6. Cardinality(L \ G) \in Nat /\ Cardinality(G) \in Nat  BY <5>1, <5>3, FS_CardinalityType
        <5>7. Cardinality(L \ G) = Cardinality(L) - Cardinality(G)  BY <5>5, <5>6
        <5> QED  BY <5>3, <5>7 DEF L, G
      <4>3. Cardinality(Leading(entries[e], f)) <= Cardinality(Leading(c.entries[e], f) \ gone(e, f))
        BY <4>1, <4>2, FS_Subset
      <4>4. Cardinality(Leading(entries[e], f)) \in Nat  BY <3>6, FewTargets
      <4> QED  BY <4>2, <4>3, <4>4, <2>3
    <3>10. Targets(entries[e]) \subseteq Targets(c.entries[e]) \ A  BY <3>8, <2>4, <2>6
    <3> HIDE DEF gone
    <3>11. \A f \in Frames : Cardinality(gone(e, f)) \in Nat /\ Cardinality(gone(e, f)) <= c.prev[f][e]  BY <2>3
    <3> QED  BY <3>6, <3>7, <3>9, <3>10, <3>11
  <2> QED  BY <2>5, <2>6
<1> HIDE DEF gone
<1>4. prev \in [Frames -> [Addr -> Nat]] /\ \A f \in Frames, e \in Addr : prev[f][e] = c.prev[f][e] - Cardinality(gone(e, f))
  <2>1. ASSUME NEW f \in Frames, NEW e \in Addr
        PROVE  c.prev[f][e] - Cardinality(gone(e, f)) \in Nat
    <3>1. c.prev[f][e] \in Nat /\ Cardinality(gone(e, f)) \in Nat /\ Cardinality(gone(e, f)) <= c.prev[f][e]  BY <1>2, <1>3
    <3> QED  BY <3>1
  <2> QED  BY <2>1
<1>5. entries \in [Addr -> Entry]
  <2>1. \A e \in Addr : entries[e] \in Entry  BY <1>3
  <2>2. entries = [e \in Addr |-> entries[e]]  OBVIOUS
  <2> HIDE DEF entries
  <2> QED  BY <2>1, <2>2
<1> HIDE DEF entries, prev, d
<1>6. /\ d \in Cache /\ d.entries = entries /\ d.prev = prev /\ d.live = c.live /\ Framed(c, d)
  BY <1>1, <1>4, <1>5 DEF Cache, Framed
<1>7. ASSUME NEW e \in Addr
      PROVE  /\ Shrunk(c.entries[e], d.entries[e])
             /\ Targets(d.entries[e]) \subseteq Targets(c.entries[e]) \ A
             /\ \A f \in Frames : Cardinality(Leading(d.entries[e], f)) <= d.prev[f][e]
  BY <1>3, <1>4, <1>6
<1> QED  BY <1>6, <1>7 DEF d

-----------------------------------------------------------------------------
(* What the entries say, and the operators that leave it alone.            *)

\* Dropping entries and links.
LEMMA CoreShrinks ==
    ASSUME NEW m, NEW c, Core(c, m), NEW d \in Cache, Counted(d), d.live \subseteq c.live,
           d.delay = c.delay, d.cached = c.cached, \A e \in d.live : Kept(c.entries[e], d.entries[e])
    PROVE  Core(d, m)
<1>1. c \in Cache /\ d.live \subseteq Addr  BY CacheFields DEF Core
<1>2. \A a \in d.live : /\ Opcode(d.entries[a]) = Opcode(c.entries[a]) /\ End(d, a) = End(c, a)
                        /\ d.entries[a].bytes = c.entries[a].bytes
  BY DEF Opcode, End, Kept
<1>3. Whole(d)
  <2>1. SUFFICES ASSUME NEW a \in d.live
                 PROVE  LET e == d.entries[a]
                        IN  /\ e.bytes # << >> /\ Len(e.bytes) = Length[Opcode(e)] /\ Offset(a) + Len(e.bytes) <= Size
                            /\ e.env \in Envs
                            /\ e.links.kind = "speculative" <=> Opcode(e) \notin Relative
    BY DEF Whole
  <2>2. a \in c.live /\ Kept(c.entries[a], d.entries[a])  OBVIOUS
  <2> QED  BY <2>2, <1>2 DEF Core, Whole, Kept
<1>4. Apart(d)  BY <1>2 DEF Core, Apart
<1>5. Fixed(d)
  <2>1. SUFFICES ASSUME NEW a \in d.live, NEW t \in BOOLEAN, d.entries[a].links.kind # "speculative", d.entries[a].links.to[t] # NoId
                 PROVE  /\ d.entries[a].links.to[t] = JumpTarget(a, Opcode(d.entries[a]), t)
                        /\ d.entries[a].links.kind = "unchecked" => Frame(d.entries[a].links.to[t]) = Frame(a) /\ d.delay[Frame(a)] = 0
    BY DEF Fixed
  <2>2. a \in c.live /\ Kept(c.entries[a], d.entries[a])  OBVIOUS
  <2>3. d.entries[a].links.to[t] = c.entries[a].links.to[t] /\ c.entries[a].links.kind # "speculative"  BY <2>1, <2>2 DEF Kept
  <2>4. d.entries[a].links.kind = c.entries[a].links.kind  BY <2>1, <2>2 DEF Kept, Targets
  <2> QED  BY <2>1, <2>2, <2>3, <2>4, <1>2 DEF Core, Fixed
<1>6. \A a \in d.live : Holds(d, m, a)  BY <1>2 DEF Core, Holds, ByteAt
<1> QED  BY <1>3, <1>4, <1>5, <1>6 DEF Core

Same(c, d) ==
    /\ d.entries = c.entries /\ d.live = c.live /\ d.prev = c.prev
    /\ d.delay = c.delay /\ d.cached = c.cached /\ d.dirty_code_frames = c.dirty_code_frames

\* Fields that Core and Attached do not mention may change.
LEMMA SameKeeps ==
    ASSUME NEW c \in Cache, NEW d \in Cache, Same(c, d)
    PROVE  /\ \A m : Core(c, m) => Core(d, m)
           /\ Attached(c) => Attached(d)
           /\ \A f : Mapped(d, f) = Mapped(c, f)
<1>1. \A a : End(d, a) = End(c, a)  BY DEF End, Same
<1>2. Whole(c) => Whole(d)  BY DEF Whole, Same
<1>3. Apart(c) => Apart(d)  BY <1>1 DEF Apart, Same
<1>4. Counted(c) => Counted(d)  BY DEF Counted, Same
<1>5. Fixed(c) => Fixed(d)  BY DEF Fixed, Same
<1>6. \A m, a : Holds(c, m, a) => Holds(d, m, a)  BY DEF Holds, ByteAt, Same
<1>7. Attached(c) => Attached(d)  BY DEF Attached, Same
<1> QED  BY <1>2, <1>3, <1>4, <1>5, <1>6, <1>7 DEF Core, Mapped, Same

\* The flags for the checks of a lookup, and the TLB.
LEMMA CounterSet ==
    ASSUME NEW c \in Cache, NEW f \in Frames, NEW n \in 0 .. JitDelay
    PROVE  LET d == SetJitPageIn(c, f, n)
           IN  /\ d \in Cache /\ Same(c, d) /\ d.tlb = c.tlb
               /\ \A g \in Frames : "dirty" \in d.checks[g] <=> "dirty" \in c.checks[g]
               /\ "counters" \in d.checks[f] <=> d.jit_page_in[f] # 0
               /\ \A g \in Frames \ {f} : d.checks[g] = c.checks[g] /\ d.jit_page_in[g] = c.jit_page_in[g]
               /\ \A cl : Noted(c, cl) => Noted(d, cl)
<1> DEFINE k == IF n = 0 THEN c.checks[f] \ {"counters"} ELSE c.checks[f] \cup {"counters"}
           d == SetJitPageIn(c, f, n)
<1>1. c.checks \in [Frames -> SUBSET {"dirty", "counters"}] /\ c.jit_page_in \in [Frames -> 0 .. JitDelay]  BY CacheFields
<1>2. k \in SUBSET {"dirty", "counters"} /\ ("counters" \in k <=> n # 0) /\ ("dirty" \in k <=> "dirty" \in c.checks[f])
  BY <1>1
<1>3. d = [c EXCEPT !.jit_page_in = [@ EXCEPT ![f] = n], !.checks = [@ EXCEPT ![f] = k]]  BY DEF SetJitPageIn
<1> HIDE DEF d, k
<1>4. /\ d \in Cache /\ Same(c, d) /\ d.tlb = c.tlb
      /\ d.jit_page_in = [c.jit_page_in EXCEPT ![f] = n] /\ d.checks = [c.checks EXCEPT ![f] = k]
  BY <1>1, <1>2, <1>3 DEF Cache, Same
<1>5. \A g \in Frames : "dirty" \in d.checks[g] <=> "dirty" \in c.checks[g]  BY <1>1, <1>2, <1>4
<1>6. \A g \in Frames \ {f} : d.checks[g] = c.checks[g] /\ d.jit_page_in[g] = c.jit_page_in[g]  BY <1>1, <1>4
<1>7. "counters" \in d.checks[f] <=> d.jit_page_in[f] # 0  BY <1>1, <1>2, <1>4
<1>8. ASSUME NEW cl, Noted(c, cl) PROVE Noted(d, cl)
  <2>1. \A g \in Frames : Mapped(d, g) = Mapped(c, g)  BY <1>4 DEF Mapped, Same
  <2>2. \A g \in Frames : "counters" \in d.checks[g] <=> d.jit_page_in[g] # 0  BY <1>6, <1>7, <1>8 DEF Noted
  <2> QED  BY <2>1, <2>2, <1>4, <1>5, <1>8 DEF Noted, Same
<1> QED  BY <1>4, <1>5, <1>6, <1>7, <1>8 DEF d

\* The TLB may be changed at will.
LEMMA TlbSet ==
    ASSUME NEW c \in Cache, NEW T \in SUBSET Addr
    PROVE  LET d == [c EXCEPT !.tlb = T]
           IN  /\ d \in Cache /\ Same(c, d) /\ d.tlb = T
               /\ \A cl : Noted(c, cl) => Noted(d, cl)
<1> DEFINE d == [c EXCEPT !.tlb = T]
<1>1. /\ d \in Cache /\ Same(c, d) /\ d.tlb = T /\ d.checks = c.checks /\ d.jit_page_in = c.jit_page_in
  BY DEF Cache, Same
<1> HIDE DEF d
<1>2. \A g \in Frames : Mapped(d, g) = Mapped(c, g)  BY <1>1 DEF Mapped, Same
<1>3. \A cl : Noted(c, cl) => Noted(d, cl)  BY <1>1, <1>2 DEF Noted, Same
<1> QED  BY <1>1, <1>3 DEF d

\* Tlb::insert
LEMMA Inserted ==
    ASSUME NEW c \in Cache, NEW a \in Addr
    PROVE  LET d == TlbInsert(c, a)
           IN  /\ d \in Cache /\ Same(c, d) /\ d.tlb \subseteq c.tlb \cup {a}
               /\ \A cl : Noted(c, cl) => Noted(d, cl)
<1> DEFINE T == {b \in c.tlb : b % TlbSize # a % TlbSize} \cup {a}
<1>1. T \in SUBSET Addr /\ T \subseteq c.tlb \cup {a}  BY CacheFields
<1>2. TlbInsert(c, a) = [c EXCEPT !.tlb = T]  BY DEF TlbInsert
<1> HIDE DEF T
<1> DEFINE d == [c EXCEPT !.tlb = T]
<1>3. d \in Cache /\ Same(c, d) /\ d.tlb = T /\ \A cl : Noted(c, cl) => Noted(d, cl)  BY <1>1, TlbSet
<1> HIDE DEF d
<1>4. TlbInsert(c, a) = d  BY <1>2 DEF d
<1> QED  BY <1>1, <1>3, <1>4

\* mark_frame_as_needing_jit
LEMMA Marked ==
    ASSUME NEW c \in Cache, NEW f \in Frames
    PROVE  LET d == MarkFrameAsNeedingJit(c, f)
           IN  /\ d \in Cache /\ Same(c, d) /\ d.tlb = c.tlb
               /\ \A cl : Noted(c, cl) => Noted(d, cl)
<1>1. JitDelay \in 0 .. JitDelay  BY DelayAssumption
<1>2. CASE c.jit_page_in[f] # 0
  <2>1. MarkFrameAsNeedingJit(c, f) = c  BY <1>2 DEF MarkFrameAsNeedingJit
  <2> QED  BY <2>1 DEF Same
<1>3. CASE c.jit_page_in[f] = 0
  <2>1. MarkFrameAsNeedingJit(c, f) = SetJitPageIn(c, f, JitDelay)  BY <1>3 DEF MarkFrameAsNeedingJit
  <2> QED  BY <2>1, <1>1, CounterSet
<1> QED  BY <1>2, <1>3

\* revert_to_single_execution on the entries of a set.
Reverted(c, d, A) ==
    /\ d.live = c.live /\ d.prev = c.prev /\ d.delay = c.delay /\ d.cached = c.cached
    /\ d.dirty_code_frames = c.dirty_code_frames
    /\ \A e \in Addr : /\ d.entries[e].env = c.entries[e].env /\ d.entries[e].bytes = c.entries[e].bytes
                       /\ d.entries[e].links = c.entries[e].links
                       /\ d.entries[e].code = IF e \in A THEN {} ELSE c.entries[e].code

\* revert_to_single_execution on the entries of a frame changes their code only.
LEMMA FrameReverted ==
    ASSUME NEW c \in Cache, NEW f \in Frames
    PROVE  LET d == RevertFrame(c, f)
           IN  /\ d \in Cache /\ Reverted(c, d, Mapped(c, f)) /\ d.tlb = c.tlb
               /\ d.checks = c.checks /\ d.jit_page_in = c.jit_page_in
<1> DEFINE E == [a \in Addr |-> IF a \in Mapped(c, f) THEN [c.entries[a] EXCEPT !.code = {}] ELSE c.entries[a]]
           d == RevertFrame(c, f)
<1>1. d = [c EXCEPT !.entries = E]  BY DEF RevertFrame, Update
<1>2. c.entries \in [Addr -> Entry]  BY CacheFields
<1>3. ASSUME NEW a \in Addr
      PROVE  /\ E[a] \in Entry /\ E[a].env = c.entries[a].env /\ E[a].bytes = c.entries[a].bytes
             /\ E[a].links = c.entries[a].links
             /\ E[a].code = IF a \in Mapped(c, f) THEN {} ELSE c.entries[a].code
  <2>1. c.entries[a] \in Entry  BY <1>2
  <2>2. E[a] = IF a \in Mapped(c, f) THEN [c.entries[a] EXCEPT !.code = {}] ELSE c.entries[a]  OBVIOUS
  <2> HIDE DEF E
  <2> QED  BY <2>1, <2>2 DEF Entry
<1>4. E \in [Addr -> Entry]
  <2>1. E = [a \in Addr |-> E[a]]  OBVIOUS
  <2> HIDE DEF E
  <2> QED  BY <2>1, <1>3
<1> HIDE DEF E, d
<1>5. d \in Cache /\ d.entries = E  BY <1>1, <1>4 DEF Cache
<1>6. /\ d.live = c.live /\ d.prev = c.prev /\ d.delay = c.delay /\ d.cached = c.cached
      /\ d.dirty_code_frames = c.dirty_code_frames /\ d.tlb = c.tlb /\ d.checks = c.checks /\ d.jit_page_in = c.jit_page_in
  BY <1>1 DEF Cache
<1> QED  BY <1>3, <1>5, <1>6 DEF Reverted, d

\* Losing page code leaves what the entries say.
LEMMA RevertedKeeps ==
    ASSUME NEW c \in Cache, NEW d \in Cache, NEW A, Reverted(c, d, A)
    PROVE  \A m : Core(c, m) => Core(d, m)
<1>1. SUFFICES ASSUME NEW m, Core(c, m) PROVE Core(d, m)  OBVIOUS
<1>2. d.live \subseteq Addr  BY CacheFields
<1>3. \A e \in Addr : Targets(d.entries[e]) = Targets(c.entries[e])  BY DEF Targets, Reverted
<1>4. Counted(d)
  <2>1. \A e \in Addr : \A f : Leading(d.entries[e], f) = Leading(c.entries[e], f)  BY <1>3 DEF Leading
  <2> QED  BY <2>1, <1>1, <1>3 DEF Counted, Core, Reverted
<1>5. \A e \in d.live : Kept(c.entries[e], d.entries[e])  BY <1>2 DEF Kept, Reverted
<1> QED  BY <1>1, <1>4, <1>5, CoreShrinks DEF Reverted

\* notify_existing_instr_changed
LEMMA Notified ==
    ASSUME NEW c \in Cache, NEW f \in Frames
    PROVE  LET d == NotifyExistingInstrChanged(c, f)
           IN  /\ d \in Cache /\ Reverted(c, d, Mapped(c, f)) /\ d.tlb = {}
               /\ \A cl : Noted(c, cl) => Noted(d, cl)
<1> DEFINE c1 == RevertFrame(c, f)
           c2 == MarkFrameAsNeedingJit(c1, f)
           d  == [c2 EXCEPT !.tlb = {}]
<1>1. /\ c1 \in Cache /\ Reverted(c, c1, Mapped(c, f))
      /\ c1.checks = c.checks /\ c1.jit_page_in = c.jit_page_in
  BY FrameReverted
<1>2. \A cl : Noted(c, cl) => Noted(c1, cl)
  <2> HIDE DEF c1
  <2>1. \A g \in Frames : Mapped(c1, g) = Mapped(c, g)  BY <1>1 DEF Mapped, Reverted
  <2> QED  BY <1>1, <2>1 DEF Noted, Reverted
<1> HIDE DEF c1
<1>3. c2 \in Cache /\ Same(c1, c2) /\ \A cl : Noted(c1, cl) => Noted(c2, cl)  BY <1>1, Marked
<1> HIDE DEF c2
<1>4. {} \in SUBSET Addr  OBVIOUS
<1>5. d \in Cache /\ Same(c2, d) /\ d.tlb = {} /\ \A cl : Noted(c2, cl) => Noted(d, cl)  BY <1>3, <1>4, TlbSet
<1>6. NotifyExistingInstrChanged(c, f) = d  BY DEF NotifyExistingInstrChanged, ClearTlb, d, c1, c2
<1> HIDE DEF d
<1>7. Reverted(c, d, Mapped(c, f))  BY <1>1, <1>3, <1>5 DEF Reverted, Same
<1> QED  BY <1>2, <1>3, <1>5, <1>6, <1>7

-----------------------------------------------------------------------------
(* Releasing entries.                                                      *)

\* Takes the entries of A out of their frames; those of B lose their links.
Released(c, A, B) == [RemoveLinks(c, A, B) EXCEPT !.live = @ \ A]

\* Releasing entries leaves every link counted.
LEMMA Shed ==
    ASSUME NEW c \in Cache, Counted(c), NEW A \in SUBSET Addr, NEW B \in SUBSET Addr
    PROVE  LET d == Released(c, A, B)
           IN  /\ d \in Cache /\ Counted(d) /\ d.live = c.live \ A /\ Framed(c, d)
               /\ \A e \in Addr : Shrunk(c.entries[e], d.entries[e])
<1> DEFINE r == RemoveLinks(c, A, B)
           d == [r EXCEPT !.live = @ \ A]
<1>1. /\ r \in Cache /\ r.live = c.live /\ Framed(c, r)
      /\ \A e \in Addr : /\ Shrunk(c.entries[e], r.entries[e])
                         /\ Targets(r.entries[e]) \subseteq Targets(c.entries[e]) \ A
                         /\ \A f \in Frames : Cardinality(Leading(r.entries[e], f)) <= r.prev[f][e]
  BY LinksRemoved
<1>2. d = Released(c, A, B)  BY DEF Released
<1> HIDE DEF r
<1>3. /\ d \in Cache /\ d.live = c.live \ A /\ Framed(c, d) /\ d.entries = r.entries /\ d.prev = r.prev
  BY <1>1, CacheFields DEF Cache, Framed
<1> HIDE DEF d
<1>4. Counted(d)  BY <1>1, <1>3 DEF Counted
<1> QED  BY <1>1, <1>2, <1>3, <1>4

\* Releasing entries together with their links.
LEMMA Dropped ==
    ASSUME NEW c \in Cache, Counted(c), NEW A \in SUBSET Addr
    PROVE  LET d == DropEntries(c, A)
           IN  /\ d \in Cache /\ Counted(d) /\ d.live = c.live \ A /\ Framed(c, d)
               /\ \A e \in Addr : Shrunk(c.entries[e], d.entries[e])
<1> DEFINE d == Released(c, A, A)
<1>1. DropEntries(c, A) = d  BY DEF DropEntries, Released
<1>2. /\ d \in Cache /\ Counted(d) /\ d.live = c.live \ A /\ Framed(c, d)
      /\ \A e \in Addr : Shrunk(c.entries[e], d.entries[e])
  BY Shed
<1> HIDE DEF d
<1> QED  BY <1>1, <1>2

\* After remove_links_from_items_to nothing leads to the entry.
LEMMA Unlinked ==
    ASSUME NEW c \in Cache, Counted(c), NEW a \in Addr
    PROVE  LET d == RemoveLinksTo(c, a)
           IN  /\ d \in Cache /\ Counted(d) /\ d.live = c.live /\ Framed(c, d)
               /\ \A e \in Addr : /\ Shrunk(c.entries[e], d.entries[e])
                                  /\ \A t \in BOOLEAN : d.entries[e].links.to[t] # a
<1> DEFINE d == RemoveLinks(c, {a}, {})
<1>1. {a} \in SUBSET Addr /\ {} \in SUBSET Addr  OBVIOUS
<1>2. /\ d \in Cache /\ d.live = c.live /\ Framed(c, d)
      /\ \A e \in Addr : /\ Shrunk(c.entries[e], d.entries[e])
                         /\ Targets(d.entries[e]) \subseteq Targets(c.entries[e]) \ {a}
                         /\ \A f \in Frames : Cardinality(Leading(d.entries[e], f)) <= d.prev[f][e]
  BY <1>1, LinksRemoved
<1>3. RemoveLinksTo(c, a) = d  BY DEF RemoveLinksTo
<1> HIDE DEF d
<1>4. Counted(d)  BY <1>2 DEF Counted
<1>5. ASSUME NEW e \in Addr, NEW t \in BOOLEAN PROVE d.entries[e].links.to[t] # a
  <2>1. a # NoId  BY Places
  <2>2. a \notin Targets(d.entries[e])  BY <1>2
  <2> QED  BY <2>1, <2>2 DEF Targets
<1> QED  BY <1>2, <1>3, <1>4, <1>5

\* What keeps the page code attached rightly, and the dirty state of the frames.
LEMMA AttachedKeeps ==
    ASSUME NEW c, NEW d, Attached(c),
           \A a \in d.live : d.entries[a].code # {} =>
              /\ a \in c.live /\ d.entries[a].code = c.entries[a].code
              /\ c.delay[Frame(a)] = 0 => d.delay[Frame(a)] = 0
              /\ \A b \in c.live : Frame(b) = Frame(a) =>
                    /\ b \in d.live
                    /\ d.entries[b].bytes = c.entries[b].bytes /\ d.entries[b].env = c.entries[b].env
    PROVE  Attached(d)
BY DEF Attached

\* What leaves the dirty state of the frames right.
LEMMA NotedKeeps ==
    ASSUME NEW c, NEW d, NEW cl, Noted(c, cl),
           d.delay = c.delay, d.dirty_code_frames = c.dirty_code_frames,
           d.checks = c.checks, d.jit_page_in = c.jit_page_in,
           \A f \in Frames : /\ d.cached[f] = NoBytes <=> c.cached[f] = NoBytes
                             /\ Mapped(d, f) = {} <=> Mapped(c, f) = {}
    PROVE  Noted(d, cl)
BY DEF Noted

-----------------------------------------------------------------------------
(* Decoding.                                                               *)

\* The instruction in memory at an address.
LEMMA Lengths ==
    ASSUME NEW m \in [Addr -> Byte], NEW a \in Addr, Fits(m, a)
    PROVE  /\ m[a] \in Byte /\ Length[m[a]] \in Nat \ {0} /\ Offset(a) + Length[m[a]] <= Size
           /\ Offset(a) \in Nat /\ a \in Nat
           /\ InstrAt(m, a) \in Seq(Byte) /\ Len(InstrAt(m, a)) = Length[m[a]] /\ InstrAt(m, a)[1] = m[a]
           /\ \A i \in 1 .. Length[m[a]] : InstrAt(m, a)[i] = m[a + i - 1]
           /\ \A i \in 1 .. Length[m[a]] : a + i - 1 \in Addr /\ Frame(a + i - 1) = Frame(a) /\ Offset(a + i - 1) = Offset(a) + i - 1
<1> DEFINE n == Length[m[a]]
<1>1. m[a] \in Byte /\ n \in Nat \ {0} /\ Offset(a) + n <= Size  BY LengthAssumption, SizeAssumption DEF Fits
<1>2. Offset(a) \in Nat /\ a \in Nat /\ Size \in Nat  BY Places DEF Slots
<1> HIDE DEF n
<1>3. ASSUME NEW i \in 1 .. n
      PROVE  a + i - 1 \in Addr /\ Frame(a + i - 1) = Frame(a) /\ Offset(a + i - 1) = Offset(a) + i - 1
  <2>1. i - 1 \in Nat /\ Offset(a) + (i - 1) < Size  BY <1>1, <1>2
  <2>2. a + (i - 1) = a + i - 1 /\ Offset(a) + (i - 1) = Offset(a) + i - 1  BY <1>2
  <2> QED  BY <2>1, <2>2, Along
<1>4. InstrAt(m, a) = [i \in 1 .. n |-> m[a + i - 1]]  BY DEF InstrAt, n
<1>5. \A i \in 1 .. n : InstrAt(m, a)[i] = m[a + i - 1]  BY <1>4
<1>6. \A i \in 1 .. n : m[a + i - 1] \in Byte  BY <1>3
<1>7. InstrAt(m, a) \in Seq(Byte) /\ Len(InstrAt(m, a)) = n  BY <1>1, <1>4, <1>6
<1>8. InstrAt(m, a)[1] = m[a]  BY <1>1, <1>2, <1>5
<1> QED  BY <1>1, <1>2, <1>3, <1>5, <1>7, <1>8 DEF n

\* CacheEntry::new
LEMMA Decoded ==
    ASSUME NEW m \in [Addr -> Byte], NEW a \in Addr, Fits(m, a), NEW env \in Envs
    PROVE  LET e == NewEntry(m, a, env)
           IN  /\ e \in Entry /\ e.env = env /\ e.bytes = InstrAt(m, a) /\ e.code = {} /\ Opcode(e) = m[a]
               /\ e.links.kind = "speculative" <=> m[a] \notin Relative
               /\ Targets(e) = {}
               /\ \A t \in BOOLEAN : e.links.to[t] = NoId
<1> DEFINE k == IF m[a] \in Relative THEN "unchecked" ELSE "speculative"
           l == EmptyLinks(k)
           e == NewEntry(m, a, env)
<1>1. l = [kind |-> k, to |-> [t \in BOOLEAN |-> NoId]] /\ l \in Links  BY DEF EmptyLinks, Links, Kinds
<1>2. l.kind = k /\ l.to = [t \in BOOLEAN |-> NoId]  BY <1>1
<1>3. e = [env |-> env, bytes |-> InstrAt(m, a), code |-> {}, links |-> l]  BY DEF NewEntry
<1>4. InstrAt(m, a) \in Seq(Byte) /\ InstrAt(m, a)[1] = m[a]  BY Lengths
<1> HIDE DEF l, e
<1>5. e \in Entry /\ e.env = env /\ e.bytes = InstrAt(m, a) /\ e.code = {} /\ e.links = l
  BY <1>1, <1>3, <1>4 DEF Entry
<1>6. Targets(e) = {}  BY <1>2, <1>5 DEF Targets
<1> QED  BY <1>2, <1>4, <1>5, <1>6 DEF e, Opcode

\* A frame is not empty.
LEMMA FrameBytes ==
    ASSUME NEW b \in [Slots -> Byte]
    PROVE  b # NoBytes
<1>1. 0 \in Slots  BY Places DEF Slots
<1>2. 0 \in DOMAIN b  BY <1>1
<1>3. 0 \notin DOMAIN NoBytes  BY DEF NoBytes
<1> QED  BY <1>2, <1>3

\* update_cached_instr_bytes
LEMMA BytesCached ==
    ASSUME NEW c \in Cache, NEW m \in [Addr -> Byte], NEW a \in Addr, Fits(m, a)
    PROVE  LET d == UpdateCachedInstrBytes(c, m, a)
               f == Frame(a)
           IN  /\ d \in Cache
               /\ d.entries = c.entries /\ d.live = c.live /\ d.tlb = c.tlb /\ d.delay = c.delay
               /\ d.checks = c.checks /\ d.jit_page_in = c.jit_page_in /\ d.prev = c.prev
               /\ d.dirty_code_frames = c.dirty_code_frames
               /\ \A g \in Frames \ {f} : d.cached[g] = c.cached[g]
               /\ c.delay[f] = 0 => d.cached[f] = c.cached[f] \/ c.cached[f] # NoBytes
               /\ c.cached[f] # NoBytes => d.cached[f] # NoBytes
               /\ c.cached[f] # NoBytes => \A x \in Addr : Frame(x) = f =>
                    d.cached[f][Offset(x)] = IF a <= x /\ x < a + Length[m[a]] THEN m[x] ELSE c.cached[f][Offset(x)]
<1> DEFINE f     == Frame(a)
           base  == IF c.delay[f] # 0 /\ c.cached[f] = NoBytes THEN [o \in Slots |-> m[f * Size + o]] ELSE c.cached[f]
           bytes == [o \in Slots |-> IF o \in Offset(a) .. Offset(a) + Length[m[a]] - 1 THEN m[f * Size + o] ELSE base[o]]
           new   == IF base = NoBytes THEN NoBytes ELSE bytes
           d     == UpdateCachedInstrBytes(c, m, a)
<1>1. f \in Frames  BY Places
<1>2. c.cached \in [Frames -> [Slots -> Byte] \cup {NoBytes}]  BY CacheFields
<1>3. \A o \in Slots : m[f * Size + o] \in Byte  BY <1>1, Places
<1>4. base \in [Slots -> Byte] \cup {NoBytes}  BY <1>1, <1>2, <1>3
<1>5. d = [c EXCEPT !.cached = [@ EXCEPT ![f] = new]]  BY DEF UpdateCachedInstrBytes
<1>6. base # NoBytes => bytes \in [Slots -> Byte]
  <2>1. SUFFICES ASSUME base # NoBytes PROVE bytes \in [Slots -> Byte]  OBVIOUS
  <2>2. base \in [Slots -> Byte]  BY <1>4, <2>1
  <2> HIDE DEF base
  <2> QED  BY <1>3, <2>2
<1>7. c.delay[f] = 0 => base = c.cached[f]  OBVIOUS
<1>8. c.cached[f] # NoBytes => base = c.cached[f]  OBVIOUS
<1>9. \A o \in Slots : bytes[o] = IF o \in Offset(a) .. Offset(a) + Length[m[a]] - 1 THEN m[f * Size + o] ELSE base[o]
  OBVIOUS
<1> HIDE DEF base, bytes
<1>10. new \in [Slots -> Byte] \cup {NoBytes}  BY <1>6
<1>11. /\ base = NoBytes => new = NoBytes
       /\ base # NoBytes => new = bytes
  OBVIOUS
<1> HIDE DEF new, d, f
<1>12. /\ d \in Cache /\ d.cached = [c.cached EXCEPT ![f] = new]
       /\ d.entries = c.entries /\ d.live = c.live /\ d.tlb = c.tlb /\ d.delay = c.delay
       /\ d.checks = c.checks /\ d.jit_page_in = c.jit_page_in /\ d.prev = c.prev
       /\ d.dirty_code_frames = c.dirty_code_frames
  BY <1>1, <1>2, <1>5, <1>10 DEF Cache
<1>13. d.cached[f] = new /\ \A g \in Frames \ {f} : d.cached[g] = c.cached[g]  BY <1>1, <1>2, <1>12
<1>14. c.delay[f] = 0 => d.cached[f] = c.cached[f] \/ c.cached[f] # NoBytes  BY <1>7, <1>11, <1>13
<1>15. ASSUME c.cached[f] # NoBytes
       PROVE  /\ d.cached[f] # NoBytes
              /\ \A x \in Addr : Frame(x) = f =>
                    d.cached[f][Offset(x)] = IF a <= x /\ x < a + Length[m[a]] THEN m[x] ELSE c.cached[f][Offset(x)]
  <2>1. d.cached[f] = bytes /\ bytes \in [Slots -> Byte] /\ base = c.cached[f]  BY <1>6, <1>8, <1>11, <1>13, <1>15
  <2>2. d.cached[f] # NoBytes  BY <2>1, FrameBytes
  <2>3. ASSUME NEW x \in Addr, Frame(x) = f
        PROVE  d.cached[f][Offset(x)] = IF a <= x /\ x < a + Length[m[a]] THEN m[x] ELSE c.cached[f][Offset(x)]
    <3>1. Offset(x) \in Slots /\ f * Size + Offset(x) = x /\ x \in Nat /\ Offset(x) \in Nat  BY <2>3, Places DEF Slots
    <3>2. x - a = Offset(x) - Offset(a)  BY <2>3, Apace DEF f
    <3>3. a \in Nat /\ Offset(a) \in Nat /\ Length[m[a]] \in Nat \ {0}  BY Lengths
    <3>4. Offset(x) \in Offset(a) .. Offset(a) + Length[m[a]] - 1 <=> a <= x /\ x < a + Length[m[a]]  BY <3>1, <3>2, <3>3
    <3> QED  BY <1>9, <2>1, <3>1, <3>4
  <2> QED  BY <2>2, <2>3
<1> QED  BY <1>12, <1>13, <1>14, <1>15 DEF d, f

\* The bytes of an entry.
LEMMA Spans ==
    ASSUME NEW c \in Cache, Whole(c), NEW a \in c.live
    PROVE  /\ a \in Addr /\ a \in Nat /\ c.entries[a] \in Entry
           /\ Len(c.entries[a].bytes) \in Nat \ {0} /\ End(c, a) \in Nat /\ a < End(c, a)
           /\ End(c, a) = a + Len(c.entries[a].bytes)
           /\ Offset(a) \in Nat /\ Size \in Nat /\ Offset(a) + Len(c.entries[a].bytes) <= Size
           /\ \A x \in Nat : a <= x /\ x < End(c, a) => x \in Addr /\ Frame(x) = Frame(a)
           /\ \A i \in 1 .. Len(c.entries[a].bytes) :
                 /\ a + i - 1 \in Addr /\ Frame(a + i - 1) = Frame(a) /\ a <= a + i - 1 /\ a + i - 1 < End(c, a)
<1> DEFINE n == Len(c.entries[a].bytes)
<1>1. a \in Addr /\ a \in Nat /\ c.entries[a] \in Entry /\ Offset(a) \in Nat /\ Size \in Nat  BY CacheFields, Places DEF Slots
<1>2. n \in Nat \ {0} /\ Offset(a) + n <= Size
  <2>1. c.entries[a].bytes \in Seq(Byte)  BY <1>1, EntryFields
  <2>2. c.entries[a].bytes # << >> /\ Offset(a) + n <= Size  BY DEF Whole
  <2> QED  BY <2>1, <2>2
<1>3. End(c, a) = a + n  BY DEF End
<1> HIDE DEF n
<1>4. ASSUME NEW x \in Nat, a <= x, x < End(c, a) PROVE x \in Addr /\ Frame(x) = Frame(a)
  <2>1. x - a \in Nat /\ Offset(a) + (x - a) < Size /\ a + (x - a) = x  BY <1>1, <1>2, <1>3, <1>4
  <2> QED  BY <1>1, <2>1, Along
<1>5. ASSUME NEW i \in 1 .. n
      PROVE  /\ a + i - 1 \in Addr /\ Frame(a + i - 1) = Frame(a) /\ a <= a + i - 1 /\ a + i - 1 < End(c, a)
  <2>1. a + i - 1 \in Nat /\ a <= a + i - 1 /\ a + i - 1 < End(c, a)  BY <1>1, <1>2, <1>3, <1>5
  <2> QED  BY <1>4, <2>1
<1>6. \A x \in Nat : a <= x /\ x < End(c, a) => x \in Addr /\ Frame(x) = Frame(a)  BY <1>4
<1>7. \A i \in 1 .. n :
         /\ a + i - 1 \in Addr /\ Frame(a + i - 1) = Frame(a) /\ a <= a + i - 1 /\ a + i - 1 < End(c, a)
  BY <1>5
<1>8. End(c, a) \in Nat /\ a < End(c, a)  BY <1>1, <1>2, <1>3
<1>9. n = Len(c.entries[a].bytes)  BY DEF n
<1> QED  BY <1>1, <1>2, <1>3, <1>6, <1>7, <1>8, <1>9

\* An instruction decoded where no other one remains, into a cache whose remaining
\* entries say what they said.
LEMMA DecodedCore ==
    ASSUME NEW m \in [Addr -> Byte], NEW c, Core(c, m), NEW a \in Addr, Fits(m, a), NEW env \in Envs,
           NEW d \in Cache, Counted(d), a \in d.live, d.live \ {a} \subseteq c.live,
           Kept(NewEntry(m, a, env), d.entries[a]),
           \A b \in d.live \ {a} : /\ Kept(c.entries[b], d.entries[b])
                                   /\ End(c, b) <= a \/ a + Length[m[a]] <= b,
           \A f \in Frames : c.delay[f] = 0 => d.delay[f] = 0,
           \A x \in Addr : a <= x /\ x < a + Length[m[a]] => ByteAt(d, m, x) = m[x],
           \A b \in d.live \ {a} : \A x \in Addr : b <= x /\ x < End(c, b) => ByteAt(d, m, x) = ByteAt(c, m, x)
    PROVE  Core(d, m)
<1> DEFINE n == NewEntry(m, a, env)
<1>1. c \in Cache /\ d.live \subseteq Addr  BY CacheFields DEF Core
<1>2. /\ n.env = env /\ n.bytes = InstrAt(m, a) /\ Opcode(n) = m[a]
      /\ n.links.kind = "speculative" <=> m[a] \notin Relative
      /\ \A t \in BOOLEAN : n.links.to[t] = NoId
  BY Decoded
<1>3. /\ Length[m[a]] \in Nat \ {0} /\ Offset(a) + Length[m[a]] <= Size /\ a \in Nat
      /\ Len(InstrAt(m, a)) = Length[m[a]]
      /\ \A i \in 1 .. Length[m[a]] : InstrAt(m, a)[i] = m[a + i - 1] /\ a + i - 1 \in Addr
  BY Lengths
<1> HIDE DEF n
<1>4. /\ d.entries[a].env = env /\ d.entries[a].bytes = InstrAt(m, a) /\ Opcode(d.entries[a]) = m[a]
      /\ d.entries[a].links.kind = "speculative" <=> m[a] \notin Relative
      /\ \A t \in BOOLEAN : d.entries[a].links.to[t] = NoId
      /\ End(d, a) = a + Length[m[a]]
  BY <1>2, <1>3 DEF Kept, Opcode, End, n
<1>5. \A b \in d.live \ {a} : /\ Opcode(d.entries[b]) = Opcode(c.entries[b]) /\ End(d, b) = End(c, b)
                              /\ d.entries[b].bytes = c.entries[b].bytes
  BY DEF Kept, Opcode, End
<1>6. Whole(d)
  <2>1. SUFFICES ASSUME NEW b \in d.live
                 PROVE  LET e == d.entries[b]
                        IN  /\ e.bytes # << >> /\ Len(e.bytes) = Length[Opcode(e)] /\ Offset(b) + Len(e.bytes) <= Size
                            /\ e.env \in Envs
                            /\ e.links.kind = "speculative" <=> Opcode(e) \notin Relative
    BY DEF Whole
  <2>2. CASE b = a
    <3>1. InstrAt(m, a) # << >>  BY <1>3
    <3> QED  BY <2>2, <3>1, <1>3, <1>4
  <2>3. CASE b # a
    <3>1. b \in c.live /\ Kept(c.entries[b], d.entries[b])  BY <2>3
    <3> QED  BY <2>3, <3>1, <1>5 DEF Core, Whole, Kept
  <2> QED  BY <2>2, <2>3
<1>7. Apart(d)
  <2>1. SUFFICES ASSUME NEW b \in d.live, NEW x \in d.live, b < x PROVE End(d, b) <= x  BY DEF Apart
  <2>2. a \in Nat /\ b \in Nat /\ x \in Nat  BY <1>1, Places
  <2>3. CASE b = a
    <3>1. x # a /\ a < x  BY <2>1, <2>2, <2>3
    <3>2. a + Length[m[a]] <= x
      <4>1. End(c, x) <= a \/ a + Length[m[a]] <= x  BY <3>1
      <4>2. End(c, x) \in Nat /\ End(c, x) >= x  BY <3>1, <1>1, Spans DEF Core
      <4> QED  BY <3>1, <4>1, <4>2, <2>2, <1>3
    <3> QED  BY <2>3, <3>2, <1>4
  <2>4. CASE b # a /\ x = a
    <3>1. End(c, b) <= a \/ a + Length[m[a]] <= b  BY <2>4
    <3> QED  BY <3>1, <2>1, <2>2, <2>4, <1>3, <1>5
  <2>5. CASE b # a /\ x # a  BY <2>1, <2>5, <1>5 DEF Core, Apart
  <2> QED  BY <2>3, <2>4, <2>5
<1>8. Fixed(d)
  <2>1. SUFFICES ASSUME NEW b \in d.live, NEW t \in BOOLEAN, d.entries[b].links.kind # "speculative", d.entries[b].links.to[t] # NoId
                 PROVE  /\ d.entries[b].links.to[t] = JumpTarget(b, Opcode(d.entries[b]), t)
                        /\ d.entries[b].links.kind = "unchecked" => Frame(d.entries[b].links.to[t]) = Frame(b) /\ d.delay[Frame(b)] = 0
    BY DEF Fixed
  <2>2. b # a  BY <2>1, <1>4
  <2>3. b \in c.live /\ Kept(c.entries[b], d.entries[b]) /\ Frame(b) \in Frames  BY <2>2, <1>1, Places
  <2>4. d.entries[b].links.to[t] = c.entries[b].links.to[t] /\ c.entries[b].links.kind # "speculative"  BY <2>1, <2>3 DEF Kept
  <2>5. d.entries[b].links.kind = c.entries[b].links.kind  BY <2>1, <2>3 DEF Kept, Targets
  <2> QED  BY <2>1, <2>2, <2>3, <2>4, <2>5, <1>5 DEF Core, Fixed
<1>9. ASSUME NEW b \in d.live, NEW i \in 1 .. Len(d.entries[b].bytes)
      PROVE  d.entries[b].bytes[i] = ByteAt(d, m, b + i - 1)
  <2>1. CASE b = a
    <3>1. i \in 1 .. Length[m[a]] /\ d.entries[b].bytes[i] = m[a + i - 1] /\ a + i - 1 \in Addr  BY <2>1, <1>3, <1>4
    <3>2. a <= a + i - 1 /\ a + i - 1 < a + Length[m[a]]  BY <3>1, <1>3
    <3> QED  BY <2>1, <3>1, <3>2
  <2>2. CASE b # a
    <3>1. b \in c.live /\ b \in Addr /\ b \in Nat  BY <2>2, <1>1, Places
    <3>2. i \in 1 .. Len(c.entries[b].bytes) /\ d.entries[b].bytes[i] = c.entries[b].bytes[i]  BY <2>2, <1>5
    <3>3. c.entries[b].bytes[i] = ByteAt(c, m, b + i - 1)  BY <3>1, <3>2 DEF Core, Holds
    <3>4. b + i - 1 \in Addr /\ b <= b + i - 1 /\ b + i - 1 < End(c, b)  BY <3>1, <3>2, <1>1, Spans DEF Core
    <3> QED  BY <2>2, <3>2, <3>3, <3>4
  <2> QED  BY <2>1, <2>2
<1> QED  BY <1>6, <1>7, <1>8, <1>9 DEF Core, Holds

\* The entry of an address, replaced or added, without links.
Placed(c, a, e) == [c EXCEPT !.live = @ \cup {a}, !.entries[a] = e]

\* A new entry is not counted, and needs not be.
LEMMA PlacedCounted ==
    ASSUME NEW c \in Cache, Counted(c), NEW a \in Addr, NEW e \in Entry, Targets(e) = {}
    PROVE  LET d == Placed(c, a, e)
           IN  /\ d \in Cache /\ Counted(d) /\ d.live = c.live \cup {a} /\ Framed(c, d)
               /\ d.entries[a] = e /\ \A b \in Addr \ {a} : d.entries[b] = c.entries[b]
<1> DEFINE d == Placed(c, a, e)
<1>1. c.entries \in [Addr -> Entry] /\ c.live \in SUBSET Addr /\ c.prev \in [Frames -> [Addr -> Nat]]  BY CacheFields
<1>2. d = [c EXCEPT !.live = @ \cup {a}, !.entries = [@ EXCEPT ![a] = e]]  BY DEF Placed
<1> HIDE DEF d
<1>3. /\ d \in Cache /\ d.live = c.live \cup {a} /\ Framed(c, d) /\ d.prev = c.prev /\ d.entries = [c.entries EXCEPT ![a] = e]
  BY <1>1, <1>2 DEF Cache, Framed
<1>4. d.entries[a] = e /\ \A b \in Addr \ {a} : d.entries[b] = c.entries[b]  BY <1>1, <1>3
<1>5. Counted(d)
  <2>1. SUFFICES ASSUME NEW b \in Addr
                 PROVE  /\ Targets(d.entries[b]) \subseteq d.live
                        /\ \A f \in Frames : Cardinality(Leading(d.entries[b], f)) <= d.prev[f][b]
    BY DEF Counted
  <2>2. CASE b = a
    <3>1. \A f \in Frames : Leading(e, f) = {}  BY DEF Leading
    <3>2. \A f \in Frames : Cardinality(Leading(e, f)) = 0  BY <3>1, FS_EmptySet
    <3>3. \A f \in Frames : d.prev[f][b] \in Nat  BY <1>1, <1>3
    <3>4. \A f \in Frames : Cardinality(Leading(e, f)) <= d.prev[f][b]  BY <3>2, <3>3
    <3> QED  BY <2>2, <3>4, <1>4
  <2>3. CASE b # a  BY <2>3, <1>3, <1>4 DEF Counted
  <2> QED  BY <2>2, <2>3
<1> QED  BY <1>3, <1>4, <1>5 DEF d

\* The current instruction of an address.
CurrentIn(c, m, a) == \A i \in DOMAIN c.entries[a].bytes : c.entries[a].bytes[i] = m[a + i - 1]

\* An existing entry is decoded again: it becomes current, the entries inside it go,
\* and those that were right remain so.
LEMMA Redecoded ==
    ASSUME NEW m \in [Addr -> Byte], NEW c, Core(c, m), NEW a \in c.live, Fits(m, a), NEW env \in Envs,
           NEW cl, Noted(c, cl), Attached(c)
    PROVE  LET d == Redecode(c, m, a, env)
           IN  /\ Core(d, m) /\ Noted(d, cl) /\ Attached(d) /\ d.tlb = {}
               /\ a \in d.live /\ d.live \subseteq c.live /\ d.delay = c.delay
               /\ d.entries[a].env = env /\ Opcode(d.entries[a]) = m[a] /\ CurrentIn(d, m, a)
               /\ \A b \in Addr \ {a} : Kept(c.entries[b], d.entries[b])
<1> DEFINE f  == Frame(a)
           n  == NewEntry(m, a, env)
           c0 == UpdateCachedInstrBytes(c, m, a)
           c1 == [c0 EXCEPT !.entries[a] = n]
           D  == Covered(c1, a)
           c2 == DropEntries(c1, D)
           d  == NotifyExistingInstrChanged(c2, f)
<1>1. c \in Cache /\ a \in Addr /\ f \in Frames /\ Whole(c) /\ Counted(c) /\ Apart(c)  BY CacheFields, Places DEF Core
<1>2. d = Redecode(c, m, a, env)  BY DEF Redecode
<1>3. /\ n \in Entry /\ n.env = env /\ n.bytes = InstrAt(m, a) /\ Opcode(n) = m[a] /\ Targets(n) = {} /\ n.code = {}
  BY <1>1, Decoded
<1>4. /\ c0 \in Cache
      /\ c0.entries = c.entries /\ c0.live = c.live /\ c0.tlb = c.tlb /\ c0.delay = c.delay
      /\ c0.checks = c.checks /\ c0.jit_page_in = c.jit_page_in /\ c0.prev = c.prev
      /\ c0.dirty_code_frames = c.dirty_code_frames
      /\ \A g \in Frames \ {f} : c0.cached[g] = c.cached[g]
      /\ c.delay[f] = 0 => c0.cached[f] = c.cached[f] \/ c.cached[f] # NoBytes
      /\ c.cached[f] # NoBytes => c0.cached[f] # NoBytes
      /\ c.cached[f] # NoBytes => \A x \in Addr : Frame(x) = f =>
           c0.cached[f][Offset(x)] = IF a <= x /\ x < a + Length[m[a]] THEN m[x] ELSE c.cached[f][Offset(x)]
  BY <1>1, BytesCached
<1> HIDE DEF c0, n
<1>5. c1 = Placed(c0, a, n)
  <2>1. c0.live = c0.live \cup {a}  BY <1>4
  <2>2. c0 = [c0 EXCEPT !.live = c0.live]  BY <1>4 DEF Cache
  <2> QED  BY <2>1, <2>2, <1>4 DEF Placed, Cache
<1>6. Counted(c0)  BY <1>1, <1>4 DEF Counted
<1>7. /\ c1 \in Cache /\ Counted(c1) /\ c1.live = c.live /\ Framed(c0, c1)
      /\ c1.entries[a] = n /\ \A b \in Addr \ {a} : c1.entries[b] = c.entries[b]
  <2> DEFINE e == Placed(c0, a, n)
  <2>1. /\ e \in Cache /\ Counted(e) /\ e.live = c0.live \cup {a} /\ Framed(c0, e)
        /\ e.entries[a] = n /\ \A b \in Addr \ {a} : e.entries[b] = c0.entries[b]
    BY <1>1, <1>3, <1>4, <1>6, PlacedCounted
  <2>2. c1 = e  BY <1>5
  <2> HIDE DEF e, c1
  <2> QED  BY <2>1, <2>2, <1>1, <1>4
<1> HIDE DEF c1
<1>8. /\ Length[m[a]] \in Nat \ {0} /\ a \in Nat /\ Len(InstrAt(m, a)) = Length[m[a]]
      /\ \A i \in 1 .. Length[m[a]] : InstrAt(m, a)[i] = m[a + i - 1]
      /\ \A i \in 1 .. Length[m[a]] : a + i - 1 \in Addr /\ Frame(a + i - 1) = f
  BY <1>1, Lengths
<1>9. \A x \in Nat : a <= x /\ x < a + Length[m[a]] => x \in Addr /\ Frame(x) = f
  <2>1. SUFFICES ASSUME NEW x \in Nat, a <= x, x < a + Length[m[a]] PROVE x \in Addr /\ Frame(x) = f  OBVIOUS
  <2>2. x - a + 1 \in 1 .. Length[m[a]] /\ a + (x - a + 1) - 1 = x
    <3> DEFINE k == Length[m[a]]
    <3>1. k \in Nat \ {0} /\ a \in Nat /\ x \in Nat /\ a <= x /\ x < a + k  BY <2>1, <1>8
    <3> HIDE DEF k
    <3>2. x - a + 1 \in 1 .. k /\ a + (x - a + 1) - 1 = x  BY ONLY <3>1
    <3> QED  BY <3>2 DEF k
  <2> QED  BY <2>2, <1>8
<1>10. D = {b \in c.live : a < b /\ b < a + Length[m[a]]}  BY <1>3, <1>7, <1>8 DEF Covered, End
<1>11. D \in SUBSET Addr /\ a \notin D /\ \A b \in D : Frame(b) = f
  <2>1. \A b \in D : b \in Addr /\ b \in Nat /\ a < b /\ b < a + Length[m[a]]  BY <1>1, <1>10, CacheFields, Places
  <2>2. a \notin D  BY <2>1, <1>8
  <2>3. \A b \in D : Frame(b) = f  BY <2>1, <1>8, <1>9
  <2> QED  BY <2>1, <2>2, <2>3
<1>12. /\ c2 \in Cache /\ Counted(c2) /\ c2.live = c.live \ D /\ Framed(c1, c2)
       /\ \A e \in Addr : Shrunk(c1.entries[e], c2.entries[e])
  BY <1>7, <1>11, Dropped
<1> HIDE DEF c2
<1>13. /\ c2.delay = c.delay /\ c2.dirty_code_frames = c.dirty_code_frames /\ c2.checks = c.checks
       /\ c2.jit_page_in = c.jit_page_in /\ c2.cached = c0.cached
  BY <1>4, <1>7, <1>12 DEF Framed
<1>14. a \in c2.live /\ c2.live \subseteq c.live /\ c2.live \subseteq Addr  BY <1>11, <1>12, CacheFields
<1>15. c.delay[f] # 0 => c.cached[f] # NoBytes
  <2>1. Mapped(c, f) # {}  BY DEF Mapped
  <2> QED  BY <2>1, <1>1 DEF Noted
<1>16. \A b \in c2.live \ {a} : /\ Kept(c.entries[b], c2.entries[b])
                                /\ End(c, b) <= a \/ a + Length[m[a]] <= b
  <2>1. SUFFICES ASSUME NEW b \in c2.live \ {a}
                 PROVE  Kept(c.entries[b], c2.entries[b]) /\ (End(c, b) <= a \/ a + Length[m[a]] <= b)
    OBVIOUS
  <2>2. b \in c.live /\ b \in Nat /\ b \in Addr  BY <1>14, Places
  <2>3. Kept(c.entries[b], c2.entries[b])  BY <2>1, <2>2, <1>7, <1>12 DEF Shrunk
  <2>4. CASE b < a  BY <2>2, <2>3, <2>4, <1>1 DEF Apart
  <2>5. CASE a < b  BY <2>1, <2>2, <2>3, <2>5, <1>8, <1>10, <1>12
  <2> QED  BY <2>1, <2>2, <2>4, <2>5, <1>8
<1>17. \A x \in Addr : a <= x /\ x < a + Length[m[a]] => ByteAt(c2, m, x) = m[x]
  <2>1. SUFFICES ASSUME NEW x \in Addr, a <= x, x < a + Length[m[a]] PROVE ByteAt(c2, m, x) = m[x]  OBVIOUS
  <2>2. Frame(x) = f  BY <2>1, <1>9, Places
  <2> QED  BY <2>1, <2>2, <1>4, <1>13, <1>15 DEF ByteAt
<1>18. \A b \in c2.live \ {a} : \A x \in Addr : b <= x /\ x < End(c, b) => ByteAt(c2, m, x) = ByteAt(c, m, x)
  <2>1. SUFFICES ASSUME NEW b \in c2.live \ {a}, NEW x \in Addr, b <= x, x < End(c, b) PROVE ByteAt(c2, m, x) = ByteAt(c, m, x)
    OBVIOUS
  <2>2. ~(a <= x /\ x < a + Length[m[a]])
    <3>1. b \in c.live /\ End(c, b) \in Nat /\ b \in Nat  BY <1>1, <1>14, Spans
    <3>2. End(c, b) <= a \/ a + Length[m[a]] <= b  BY <2>1, <1>16
    <3>3. x \in Nat  BY Places
    <3> QED  BY <3>1, <3>2, <3>3, <2>1, <1>8
  <2>3. CASE Frame(x) = f  BY <2>2, <2>3, <1>4, <1>13, <1>15 DEF ByteAt
  <2>4. CASE Frame(x) # f  BY <2>4, <1>4, <1>13, Places DEF ByteAt
  <2> QED  BY <2>3, <2>4
<1>19. Core(c2, m)
  <2>1. Kept(n, c2.entries[a])  BY <1>1, <1>7, <1>12 DEF Shrunk
  <2> QED  BY <2>1, <1>1, <1>12, <1>13, <1>14, <1>16, <1>17, <1>18, DecodedCore DEF n
<1>20. Noted(c2, cl)
  <2>1. ASSUME NEW g \in Frames PROVE c2.cached[g] = NoBytes <=> c.cached[g] = NoBytes
    <3>1. CASE g = f
      <4>1. c.delay[f] = 0 => c.cached[f] = NoBytes  BY <1>1 DEF Noted
      <4> QED  BY <3>1, <4>1, <1>4, <1>13, <1>15
    <3>2. CASE g # f  BY <3>2, <1>4, <1>13
    <3> QED  BY <3>1, <3>2
  <2>2. ASSUME NEW g \in Frames PROVE Mapped(c2, g) = {} <=> Mapped(c, g) = {}
    <3>1. CASE g = f  BY <3>1, <1>14 DEF Mapped
    <3>2. CASE g # f  BY <3>2, <1>11, <1>12 DEF Mapped
    <3> QED  BY <3>1, <3>2
  <2> QED  BY <2>1, <2>2, <1>13, NotedKeeps
<1>21. d \in Cache /\ Reverted(c2, d, Mapped(c2, f)) /\ d.tlb = {} /\ Noted(d, cl)  BY <1>1, <1>12, <1>20, Notified
<1> HIDE DEF d
<1>22. Core(d, m)  BY <1>12, <1>19, <1>21, RevertedKeeps
<1>23. \A b \in Addr \ {a} : Kept(c.entries[b], d.entries[b])
  <2>1. SUFFICES ASSUME NEW b \in Addr \ {a} PROVE Kept(c.entries[b], d.entries[b])  OBVIOUS
  <2>2. Kept(c.entries[b], c2.entries[b])  BY <1>7, <1>12 DEF Shrunk
  <2> QED  BY <2>2, <1>21 DEF Kept, Reverted, Targets
<1>24. Attached(d)
  <2>1. SUFFICES ASSUME NEW x \in d.live, d.entries[x].code # {}
                 PROVE  /\ x \in c.live /\ d.entries[x].code = c.entries[x].code
                        /\ c.delay[Frame(x)] = 0 => d.delay[Frame(x)] = 0
                        /\ \A b \in c.live : Frame(b) = Frame(x) =>
                              /\ b \in d.live
                              /\ d.entries[b].bytes = c.entries[b].bytes /\ d.entries[b].env = c.entries[b].env
    BY AttachedKeeps
  <2>2. x \in c2.live /\ x \in Addr /\ x \in c.live  BY <1>14, <1>21 DEF Reverted
  <2>3. Frame(x) # f  BY <2>1, <2>2, <1>21 DEF Reverted, Mapped
  <2>4. d.entries[x].code = c2.entries[x].code  BY <2>1, <2>2, <1>21 DEF Reverted
  <2>5. d.entries[x].code = c.entries[x].code  BY <2>2, <2>3, <2>4, <1>7, <1>12 DEF Shrunk
  <2>6. ASSUME NEW b \in c.live, Frame(b) = Frame(x)
        PROVE  b \in d.live /\ d.entries[b].bytes = c.entries[b].bytes /\ d.entries[b].env = c.entries[b].env
    <3>1. b \in Addr /\ b # a /\ b \notin D  BY <2>3, <2>6, <1>1, <1>11, CacheFields
    <3> QED  BY <3>1, <1>12, <1>21, <1>23 DEF Kept, Reverted
  <2> QED  BY <2>2, <2>5, <2>6, <1>13, <1>21 DEF Reverted
<1>25. d.entries[a].env = env /\ d.entries[a].bytes = InstrAt(m, a)
  BY <1>1, <1>3, <1>7, <1>12, <1>21 DEF Shrunk, Kept, Reverted
<1>26. Opcode(d.entries[a]) = m[a]  BY <1>25, <1>3 DEF Opcode
<1>27. CurrentIn(d, m, a)
  <2>1. DOMAIN InstrAt(m, a) = 1 .. Length[m[a]]  BY DEF InstrAt
  <2> QED  BY <2>1, <1>8, <1>25 DEF CurrentIn
<1> QED  BY <1>2, <1>13, <1>14, <1>21, <1>22, <1>23, <1>24, <1>25, <1>26, <1>27 DEF Reverted

\* A dirty frame without entries becomes clean.
LEMMA IdleCleaned ==
    ASSUME NEW c \in Cache, NEW f \in Frames
    PROVE  LET d == CleanIdle(c, f)
           IN  /\ d \in Cache /\ d.entries = c.entries /\ d.live = c.live /\ d.tlb = c.tlb /\ d.prev = c.prev
               /\ d.jit_page_in = c.jit_page_in /\ d.dirty_code_frames = c.dirty_code_frames
               /\ \A g \in Frames \ {f} : d.delay[g] = c.delay[g] /\ d.checks[g] = c.checks[g] /\ d.cached[g] = c.cached[g]
               /\ Idle(c, f) => d.delay[f] = 0 /\ d.cached[f] = NoBytes /\ d.checks[f] = c.checks[f] \ {"dirty"}
               /\ ~Idle(c, f) => d = c
<1> DEFINE d == CleanIdle(c, f)
<1>1. CASE ~Idle(c, f)  BY <1>1 DEF CleanIdle
<1>2. CASE Idle(c, f)
  <2>1. /\ c.delay \in [Frames -> 0 .. CleaningDelay] /\ c.checks \in [Frames -> SUBSET {"dirty", "counters"}]
        /\ c.cached \in [Frames -> [Slots -> Byte] \cup {NoBytes}]
    BY CacheFields
  <2> DEFINE k == c.checks[f] \ {"dirty"}
  <2>2. k \in SUBSET {"dirty", "counters"}  BY <2>1
  <2>3. d = [c EXCEPT !.delay = [@ EXCEPT ![f] = 0], !.checks = [@ EXCEPT ![f] = k], !.cached = [@ EXCEPT ![f] = NoBytes]]
    BY <1>2 DEF CleanIdle
  <2> HIDE DEF d, k
  <2>4. 0 \in 0 .. CleaningDelay  BY DelayAssumption
  <2>5. /\ d \in Cache /\ d.entries = c.entries /\ d.live = c.live /\ d.tlb = c.tlb /\ d.prev = c.prev
        /\ d.jit_page_in = c.jit_page_in /\ d.dirty_code_frames = c.dirty_code_frames
        /\ d.delay = [c.delay EXCEPT ![f] = 0] /\ d.checks = [c.checks EXCEPT ![f] = k] /\ d.cached = [c.cached EXCEPT ![f] = NoBytes]
    BY <2>1, <2>2, <2>3, <2>4 DEF Cache
  <2>6. d.delay[f] = 0 /\ d.cached[f] = NoBytes /\ d.checks[f] = k  BY <2>1, <2>5
  <2>7. \A g \in Frames \ {f} : d.delay[g] = c.delay[g] /\ d.checks[g] = c.checks[g] /\ d.cached[g] = c.cached[g]
    BY <2>1, <2>5
  <2> QED  BY <1>2, <2>5, <2>6, <2>7 DEF d, k
<1> QED  BY <1>1, <1>2

\* The state of a frame that holds the new entry a, before the entry is placed.
Opened(c, m, a) == CleanIdle(UpdateCachedInstrBytes(c, m, a), Frame(a))

\* The frame of a new entry is ready for it: no byte of another entry changes.
LEMMA FrameOpened ==
    ASSUME NEW m \in [Addr -> Byte], NEW c, Core(c, m), NEW a \in Addr, Fits(m, a), NEW cl, Noted(c, cl)
    PROVE  LET d == Opened(c, m, a)
               f == Frame(a)
           IN  /\ d \in Cache /\ d.entries = c.entries /\ d.live = c.live /\ d.tlb = c.tlb /\ d.prev = c.prev
               /\ d.jit_page_in = c.jit_page_in /\ d.dirty_code_frames = c.dirty_code_frames
               /\ \A g \in Frames \ {f} : d.delay[g] = c.delay[g] /\ d.checks[g] = c.checks[g] /\ d.cached[g] = c.cached[g]
               /\ Idle(c, f) => d.delay[f] = 0 /\ d.cached[f] = NoBytes /\ d.checks[f] = c.checks[f] \ {"dirty"}
               /\ ~Idle(c, f) => d.delay[f] = c.delay[f] /\ d.checks[f] = c.checks[f]
               /\ d.delay[f] = 0 <=> d.cached[f] = NoBytes
               /\ d.delay[f] # 0 => ~Idle(c, f) /\ \A x \in Addr : Frame(x) = f =>
                    d.cached[f][Offset(x)] = IF a <= x /\ x < a + Length[m[a]] THEN m[x] ELSE c.cached[f][Offset(x)]
<1> DEFINE f == Frame(a)
           u == UpdateCachedInstrBytes(c, m, a)
           d == Opened(c, m, a)
<1>1. c \in Cache /\ f \in Frames  BY Places DEF Core
<1>2. /\ u \in Cache
      /\ u.entries = c.entries /\ u.live = c.live /\ u.tlb = c.tlb /\ u.delay = c.delay
      /\ u.checks = c.checks /\ u.jit_page_in = c.jit_page_in /\ u.prev = c.prev
      /\ u.dirty_code_frames = c.dirty_code_frames
      /\ \A g \in Frames \ {f} : u.cached[g] = c.cached[g]
      /\ c.delay[f] = 0 => u.cached[f] = c.cached[f] \/ c.cached[f] # NoBytes
      /\ c.cached[f] # NoBytes => u.cached[f] # NoBytes
      /\ c.cached[f] # NoBytes => \A x \in Addr : Frame(x) = f =>
           u.cached[f][Offset(x)] = IF a <= x /\ x < a + Length[m[a]] THEN m[x] ELSE c.cached[f][Offset(x)]
  BY <1>1, BytesCached
<1>3. d = CleanIdle(u, f)  BY DEF Opened
<1> HIDE DEF u, d
<1>4. Idle(u, f) <=> Idle(c, f)  BY <1>2 DEF Idle, Mapped
<1>5. /\ d \in Cache /\ d.entries = u.entries /\ d.live = u.live /\ d.tlb = u.tlb /\ d.prev = u.prev
      /\ d.jit_page_in = u.jit_page_in /\ d.dirty_code_frames = u.dirty_code_frames
      /\ \A g \in Frames \ {f} : d.delay[g] = u.delay[g] /\ d.checks[g] = u.checks[g] /\ d.cached[g] = u.cached[g]
      /\ Idle(u, f) => d.delay[f] = 0 /\ d.cached[f] = NoBytes /\ d.checks[f] = u.checks[f] \ {"dirty"}
      /\ ~Idle(u, f) => d = u
  BY <1>1, <1>2, <1>3, IdleCleaned
<1>6. c.delay[f] = 0 => c.cached[f] = NoBytes  BY <1>1 DEF Noted
<1>7. c.delay[f] # 0 /\ ~Idle(c, f) => c.cached[f] # NoBytes  BY <1>1 DEF Noted, Idle
<1>8. d.delay[f] = 0 <=> d.cached[f] = NoBytes  BY <1>2, <1>4, <1>5, <1>6, <1>7
<1>9. d.delay[f] # 0 => c.cached[f] # NoBytes /\ ~Idle(c, f) /\ d = u  BY <1>2, <1>4, <1>5, <1>7
<1> QED  BY <1>2, <1>4, <1>5, <1>8, <1>9 DEF d

\* insert_entry on the cache: the new entry is current, what overlaps it goes.
LEMMA EntryInserted ==
    ASSUME NEW m \in [Addr -> Byte], NEW c, Core(c, m), NEW a \in Addr, a \notin c.live, Fits(m, a), NEW env \in Envs,
           NEW cl, Noted(c, cl), Attached(c), c.tlb \subseteq c.live,
           NEW co, \A g \in Frames : co[g] <=> cl[g] \/ (g = Frame(a) /\ Idle(c, g))
    PROVE  LET d == DropOverlap(Placed(Opened(c, m, a), a, NewEntry(m, a, env)), a)
           IN  /\ Core(d, m) /\ Noted(d, co) /\ Attached(d) /\ d.tlb \subseteq d.live
               /\ a \in d.live /\ d.live \subseteq c.live \cup {a}
               /\ d.entries[a].env = env /\ Opcode(d.entries[a]) = m[a] /\ CurrentIn(d, m, a)
               /\ \A b \in Addr \ {a} : Kept(c.entries[b], d.entries[b])
<1> DEFINE f  == Frame(a)
           n  == NewEntry(m, a, env)
           c0 == Opened(c, m, a)
           c1 == Placed(c0, a, n)
           D1 == Covered(c1, a)
           D2 == ReachingInto(c1, a)
           c2 == DropEntries(c1, D1)
           c3 == DropEntries(c2, D2)
           c4 == SetJitPageIn(c3, f, JitDelay)
           d  == IF D1 \cup D2 = {} THEN c4 ELSE NotifyExistingInstrChanged(c4, f)
<1>1. c \in Cache /\ f \in Frames /\ Whole(c) /\ Counted(c) /\ Apart(c)  BY Places DEF Core
<1>2. d = DropOverlap(c1, a)  BY DEF DropOverlap
<1>3. /\ n \in Entry /\ n.env = env /\ n.bytes = InstrAt(m, a) /\ Opcode(n) = m[a] /\ Targets(n) = {} /\ n.code = {}
  BY <1>1, Decoded
<1>4. /\ c0 \in Cache /\ c0.entries = c.entries /\ c0.live = c.live /\ c0.tlb = c.tlb /\ c0.prev = c.prev
      /\ c0.jit_page_in = c.jit_page_in /\ c0.dirty_code_frames = c.dirty_code_frames
      /\ \A g \in Frames \ {f} : c0.delay[g] = c.delay[g] /\ c0.checks[g] = c.checks[g] /\ c0.cached[g] = c.cached[g]
      /\ Idle(c, f) => c0.delay[f] = 0 /\ c0.cached[f] = NoBytes /\ c0.checks[f] = c.checks[f] \ {"dirty"}
      /\ ~Idle(c, f) => c0.delay[f] = c.delay[f] /\ c0.checks[f] = c.checks[f]
      /\ c0.delay[f] = 0 <=> c0.cached[f] = NoBytes
      /\ c0.delay[f] # 0 => ~Idle(c, f) /\ \A x \in Addr : Frame(x) = f =>
           c0.cached[f][Offset(x)] = IF a <= x /\ x < a + Length[m[a]] THEN m[x] ELSE c.cached[f][Offset(x)]
  BY <1>1, FrameOpened
<1> HIDE DEF c0, n
<1>5. Counted(c0)  BY <1>1, <1>4 DEF Counted
<1>6. /\ c1 \in Cache /\ Counted(c1) /\ c1.live = c0.live \cup {a} /\ Framed(c0, c1)
      /\ c1.entries[a] = n /\ \A b \in Addr \ {a} : c1.entries[b] = c0.entries[b]
  BY <1>3, <1>4, <1>5, PlacedCounted
<1> HIDE DEF c1
<1>7. c1.live = c.live \cup {a} /\ \A b \in Addr \ {a} : c1.entries[b] = c.entries[b]  BY <1>4, <1>6
<1>8. /\ Length[m[a]] \in Nat \ {0} /\ a \in Nat /\ Len(InstrAt(m, a)) = Length[m[a]]
      /\ \A i \in 1 .. Length[m[a]] : InstrAt(m, a)[i] = m[a + i - 1]
      /\ \A i \in 1 .. Length[m[a]] : a + i - 1 \in Addr /\ Frame(a + i - 1) = f
  BY <1>1, Lengths
<1>9. \A x \in Nat : a <= x /\ x < a + Length[m[a]] => x \in Addr /\ Frame(x) = f
  <2>1. SUFFICES ASSUME NEW x \in Nat, a <= x, x < a + Length[m[a]] PROVE x \in Addr /\ Frame(x) = f  OBVIOUS
  <2>2. x - a + 1 \in 1 .. Length[m[a]] /\ a + (x - a + 1) - 1 = x
    <3> DEFINE k == Length[m[a]]
    <3>1. k \in Nat \ {0} /\ a \in Nat /\ x \in Nat /\ a <= x /\ x < a + k  BY <2>1, <1>8
    <3> HIDE DEF k
    <3>2. x - a + 1 \in 1 .. k /\ a + (x - a + 1) - 1 = x  BY ONLY <3>1
    <3> QED  BY <3>2 DEF k
  <2> QED  BY <2>2, <1>8
<1>10. c.live \subseteq Addr /\ \A b \in c.live : b \in Nat  BY <1>1, CacheFields, Places
<1>11. D1 = {b \in c.live : a < b /\ b < a + Length[m[a]]}
  <2>1. End(c1, a) = a + Length[m[a]]  BY <1>3, <1>6, <1>8 DEF End
  <2> QED  BY <2>1, <1>7, <1>8 DEF Covered
<1>12. D1 \in SUBSET Addr /\ D1 \subseteq c.live /\ a \notin D1 /\ \A b \in D1 : Frame(b) = f
  BY <1>8, <1>9, <1>10, <1>11
<1>13. \A b \in c.live : End(c1, b) = End(c, b)  BY <1>7, <1>10 DEF End
<1>14. /\ D2 \in SUBSET Addr /\ D2 \subseteq c.live /\ a \notin D2 /\ \A b \in D2 : Frame(b) = f
       /\ \A b \in c.live : b < a /\ Frame(b) = f /\ b \notin D2 =>
            End(c, b) <= a \/ \E x \in c.live : x < a /\ Frame(x) = f /\ ~(x <= b)
  <2> DEFINE before == {b \in Mapped(c1, f) : b < a}
  <2>1. before = {b \in c.live : Frame(b) = f /\ b < a}  BY <1>7, <1>8 DEF Mapped
  <2>2. D2 = {b \in before : End(c1, b) > a /\ \A x \in before : x <= b}  BY DEF ReachingInto
  <2> HIDE DEF before, D2
  <2>3. D2 \in SUBSET Addr /\ D2 \subseteq c.live /\ a \notin D2 /\ \A b \in D2 : Frame(b) = f
    BY <2>1, <2>2, <1>8, <1>10
  <2>4. ASSUME NEW b \in c.live, b < a, Frame(b) = f, b \notin D2
        PROVE  End(c, b) <= a \/ \E x \in c.live : x < a /\ Frame(x) = f /\ ~(x <= b)
    <3>1. b \in before  BY <2>1, <2>4
    <3>2. ~(End(c, b) > a) \/ \E x \in before : ~(x <= b)  BY <2>2, <2>4, <3>1, <1>13
    <3>3. End(c, b) \in Nat  BY <1>1, Spans
    <3> QED  BY <2>1, <3>2, <3>3, <1>8
  <2> QED  BY <2>3, <2>4
<1> HIDE DEF D1, D2
<1>15. /\ c2 \in Cache /\ Counted(c2) /\ c2.live = c1.live \ D1 /\ Framed(c1, c2)
       /\ \A e \in Addr : Shrunk(c1.entries[e], c2.entries[e])
  BY <1>6, <1>12, Dropped
<1> HIDE DEF c2
<1>16. /\ c3 \in Cache /\ Counted(c3) /\ c3.live = c2.live \ D2 /\ Framed(c2, c3)
       /\ \A e \in Addr : Shrunk(c2.entries[e], c3.entries[e])
  BY <1>14, <1>15, Dropped
<1> HIDE DEF c3
<1>17. \A e \in Addr : Shrunk(c1.entries[e], c3.entries[e])
  <2>1. SUFFICES ASSUME NEW e \in Addr PROVE Shrunk(c1.entries[e], c3.entries[e])  OBVIOUS
  <2>2. Shrunk(c1.entries[e], c2.entries[e]) /\ Shrunk(c2.entries[e], c3.entries[e])  BY <1>15, <1>16
  <2>3. \A x, y, z : Shrunk(x, y) /\ Shrunk(y, z) => Shrunk(x, z)  BY DEF Shrunk, Kept, Targets
  <2> QED  BY <2>2, <2>3
<1>18. /\ c3.delay = c0.delay /\ c3.dirty_code_frames = c.dirty_code_frames /\ c3.checks = c0.checks
       /\ c3.jit_page_in = c.jit_page_in /\ c3.cached = c0.cached /\ c3.tlb = c.tlb
  BY <1>4, <1>6, <1>15, <1>16 DEF Framed
<1>19. c3.live = (c.live \cup {a}) \ (D1 \cup D2) /\ a \in c3.live /\ c3.live \subseteq Addr
  BY <1>7, <1>12, <1>14, <1>15, <1>16, <1>10
<1>20. \A b \in c3.live \ {a} : Kept(c.entries[b], c3.entries[b]) /\ (End(c, b) <= a \/ a + Length[m[a]] <= b)
  <2>1. SUFFICES ASSUME NEW b \in c3.live \ {a}
                 PROVE  Kept(c.entries[b], c3.entries[b]) /\ (End(c, b) <= a \/ a + Length[m[a]] <= b)
    OBVIOUS
  <2>2. b \in c.live /\ b \in Nat /\ b \in Addr /\ b \notin D1 /\ b \notin D2  BY <1>10, <1>19
  <2>3. Kept(c.entries[b], c3.entries[b])  BY <2>1, <2>2, <1>7, <1>17 DEF Shrunk
  <2>4. End(c, b) \in Nat /\ \A x \in Nat : b <= x /\ x < End(c, b) => Frame(x) = Frame(b)  BY <2>2, <1>1, Spans
  <2>5. CASE a < b  BY <2>2, <2>3, <2>5, <1>8, <1>11
  <2>6. CASE b < a /\ Frame(b) # f
    <3>1. ~(a < End(c, b))  BY <2>2, <2>4, <2>6, <1>8
    <3> QED  BY <2>3, <2>4, <3>1, <1>8
  <2>7. CASE b < a /\ Frame(b) = f
    <3>1. CASE End(c, b) <= a  BY <2>3, <3>1
    <3>2. CASE \E x \in c.live : x < a /\ Frame(x) = f /\ ~(x <= b)
      <4>1. PICK x \in c.live : x < a /\ ~(x <= b)  BY <3>2
      <4>2. x \in Nat /\ b < x  BY <4>1, <2>2, <1>10
      <4>3. End(c, b) <= x  BY <4>2, <2>2, <1>1 DEF Apart
      <4> QED  BY <4>1, <4>2, <4>3, <2>3, <2>4, <1>8
    <3> QED  BY <3>1, <3>2, <2>2, <2>7, <1>14
  <2> QED  BY <2>1, <2>2, <2>5, <2>6, <2>7, <1>8
<1>21. \A x \in Addr : a <= x /\ x < a + Length[m[a]] => ByteAt(c3, m, x) = m[x]
  <2>1. SUFFICES ASSUME NEW x \in Addr, a <= x, x < a + Length[m[a]] PROVE ByteAt(c3, m, x) = m[x]  OBVIOUS
  <2>2. Frame(x) = f  BY <2>1, <1>9, Places
  <2> QED  BY <2>1, <2>2, <1>4, <1>18 DEF ByteAt
<1>22. \A b \in c3.live \ {a} : \A x \in Addr : b <= x /\ x < End(c, b) => ByteAt(c3, m, x) = ByteAt(c, m, x)
  <2>1. SUFFICES ASSUME NEW b \in c3.live \ {a}, NEW x \in Addr, b <= x, x < End(c, b) PROVE ByteAt(c3, m, x) = ByteAt(c, m, x)
    OBVIOUS
  <2>2. b \in c.live /\ End(c, b) \in Nat /\ b \in Nat /\ x \in Nat /\ Frame(x) = Frame(b)
    <3>1. b \in c.live /\ x \in Nat  BY <1>19, Places
    <3> QED  BY <3>1, <2>1, <1>1, Spans
  <2>3. ~(a <= x /\ x < a + Length[m[a]])
    <3>1. End(c, b) <= a \/ a + Length[m[a]] <= b  BY <2>1, <1>20
    <3> QED  BY <3>1, <2>1, <2>2, <1>8
  <2>4. CASE Frame(x) = f
    <3>1. ~Idle(c, f)  BY <2>2, <2>4 DEF Idle, Mapped
    <3> QED  BY <2>3, <2>4, <3>1, <1>4, <1>18 DEF ByteAt
  <2>5. CASE Frame(x) # f  BY <2>5, <1>4, <1>18, Places DEF ByteAt
  <2> QED  BY <2>4, <2>5
<1>23. \A g \in Frames : c.delay[g] = 0 => c3.delay[g] = 0
  <2>1. SUFFICES ASSUME NEW g \in Frames, c.delay[g] = 0 PROVE c3.delay[g] = 0  OBVIOUS
  <2>2. CASE g = f  BY <2>1, <2>2, <1>4, <1>18
  <2>3. CASE g # f  BY <2>1, <2>3, <1>4, <1>18
  <2> QED  BY <2>2, <2>3
<1>24. Core(c3, m)
  <2>1. Kept(n, c3.entries[a])  BY <1>6, <1>17 DEF Shrunk
  <2>2. c3.live \ {a} \subseteq c.live  BY <1>19
  <2> QED  BY <2>1, <2>2, <1>16, <1>19, <1>20, <1>21, <1>22, <1>23, DecodedCore DEF n
<1>25. Noted(c3, co)
  <2>1. SUFFICES ASSUME NEW g \in Frames
                 PROVE  /\ c3.delay[g] = 0 => c3.cached[g] = NoBytes /\ g \notin c3.dirty_code_frames
                        /\ c3.delay[g] # 0 => /\ g \in c3.dirty_code_frames <=> Mapped(c3, g) # {}
                                              /\ c3.cached[g] # NoBytes <=> Mapped(c3, g) # {}
                        /\ ~co[g] => c3.delay[g] # 0
                        /\ "dirty" \in c3.checks[g] <=> c3.delay[g] # 0
                        /\ "counters" \in c3.checks[g] <=> c3.jit_page_in[g] # 0
    BY DEF Noted
  <2>2. CASE g # f
    <3>1. Mapped(c3, g) = Mapped(c, g)  BY <2>2, <1>12, <1>14, <1>19 DEF Mapped
    <3>2. co[g] <=> cl[g]  BY <2>2
    <3> QED  BY <2>2, <3>1, <3>2, <1>4, <1>18 DEF Noted
  <2>3. CASE g = f /\ Idle(c, f)
    <3>1. c3.delay[f] = 0 /\ c3.cached[f] = NoBytes /\ c3.checks[f] = c.checks[f] \ {"dirty"}  BY <2>3, <1>4, <1>18
    <3>2. f \notin c.dirty_code_frames  BY <2>3, <1>1 DEF Noted, Idle
    <3>3. co[f]  BY <2>3, <1>1
    <3>4. "counters" \in c3.checks[f] <=> c3.jit_page_in[f] # 0  BY <3>1, <1>1, <1>18 DEF Noted
    <3> QED  BY <2>3, <3>1, <3>2, <3>3, <3>4, <1>18
  <2>4. CASE g = f /\ ~Idle(c, f)
    <3>1. Mapped(c3, f) # {}  BY <1>19 DEF Mapped
    <3>2. c3.delay[f] = c.delay[f] /\ c3.checks[f] = c.checks[f] /\ (c3.delay[f] = 0 <=> c3.cached[f] = NoBytes)
      BY <2>4, <1>4, <1>18
    <3>3. co[f] <=> cl[f]  BY <2>4, <1>1
    <3>4. c.delay[f] # 0 => f \in c.dirty_code_frames  BY <2>4, <1>1 DEF Noted, Idle
    <3>5. c.delay[f] = 0 => f \notin c.dirty_code_frames  BY <1>1 DEF Noted
    <3>6. /\ ~cl[f] => c.delay[f] # 0
          /\ "dirty" \in c.checks[f] <=> c.delay[f] # 0
          /\ "counters" \in c.checks[f] <=> c.jit_page_in[f] # 0
      BY <1>1 DEF Noted
    <3> QED  BY <2>4, <3>1, <3>2, <3>3, <3>4, <3>5, <3>6, <1>18
  <2> QED  BY <2>2, <2>3, <2>4
<1>26. c4 \in Cache /\ Same(c3, c4) /\ c4.tlb = c3.tlb /\ Core(c4, m) /\ Noted(c4, co)
  <2>1. JitDelay \in 0 .. JitDelay  BY DelayAssumption
  <2>2. c4 \in Cache /\ Same(c3, c4) /\ c4.tlb = c3.tlb /\ Noted(c4, co)  BY <2>1, <1>1, <1>16, <1>25, CounterSet
  <2> HIDE DEF c4
  <2> QED  BY <2>2, <1>16, <1>24, SameKeeps
<1> HIDE DEF c4
<1>27. /\ d \in Cache /\ Core(d, m) /\ Noted(d, co) /\ d.live = c3.live /\ d.delay = c3.delay /\ d.tlb \subseteq d.live
       /\ \A b \in Addr : /\ d.entries[b].env = c3.entries[b].env /\ d.entries[b].bytes = c3.entries[b].bytes
                          /\ d.entries[b].links = c3.entries[b].links
                          /\ d.entries[b].code = IF D1 \cup D2 # {} /\ b \in Mapped(c3, f) THEN {} ELSE c3.entries[b].code
  <2>1. CASE D1 \cup D2 = {}
    <3>1. d = c4  BY <2>1
    <3> HIDE DEF d
    <3>2. d.tlb \subseteq d.live  BY <2>1, <3>1, <1>18, <1>19, <1>26 DEF Same
    <3> QED  BY <2>1, <3>1, <3>2, <1>26 DEF Same
  <2>2. CASE D1 \cup D2 # {}
    <3> DEFINE r == NotifyExistingInstrChanged(c4, f)
    <3>1. r \in Cache /\ Reverted(c4, r, Mapped(c4, f)) /\ r.tlb = {} /\ Noted(r, co)  BY <1>1, <1>26, Notified
    <3>2. d = r  BY <2>2
    <3> HIDE DEF d, r
    <3>3. Core(r, m)  BY <3>1, <1>26, RevertedKeeps
    <3>4. Mapped(c4, f) = Mapped(c3, f)  BY <1>26 DEF Same, Mapped
    <3> QED  BY <2>2, <3>1, <3>2, <3>3, <3>4, <1>26 DEF Reverted, Same
  <2> QED  BY <2>1, <2>2
<1> HIDE DEF d
<1>28. \A b \in Addr \ {a} : Kept(c.entries[b], d.entries[b])
  <2>1. SUFFICES ASSUME NEW b \in Addr \ {a} PROVE Kept(c.entries[b], d.entries[b])  OBVIOUS
  <2>2. Kept(c.entries[b], c3.entries[b])  BY <1>7, <1>17 DEF Shrunk
  <2> QED  BY <2>2, <1>27 DEF Kept, Targets
<1>29. Attached(d)
  <2>1. SUFFICES ASSUME NEW x \in d.live, d.entries[x].code # {}
                 PROVE  /\ x \in c.live /\ d.entries[x].code = c.entries[x].code
                        /\ c.delay[Frame(x)] = 0 => d.delay[Frame(x)] = 0
                        /\ \A b \in c.live : Frame(b) = Frame(x) =>
                              /\ b \in d.live
                              /\ d.entries[b].bytes = c.entries[b].bytes /\ d.entries[b].env = c.entries[b].env
    BY AttachedKeeps
  <2>2. x \in Addr /\ x \in c3.live /\ Frame(x) \in Frames /\ ~(D1 \cup D2 # {} /\ x \in Mapped(c3, f))
    BY <2>1, <1>19, <1>27, Places
  <2>3. d.entries[x].code = c1.entries[x].code  BY <2>2, <1>17, <1>27 DEF Shrunk
  <2>4. x # a  BY <2>1, <2>3, <1>3, <1>6
  <2>5. x \in c.live /\ d.entries[x].code = c.entries[x].code  BY <2>2, <2>3, <2>4, <1>7, <1>19
  <2>6. D1 \cup D2 = {} \/ Frame(x) # f  BY <2>2 DEF Mapped
  <2>7. ASSUME NEW b \in c.live, Frame(b) = Frame(x)
        PROVE  b \in d.live /\ d.entries[b].bytes = c.entries[b].bytes /\ d.entries[b].env = c.entries[b].env
    <3>1. b \in Addr /\ b # a /\ b \notin D1 /\ b \notin D2  BY <2>6, <2>7, <1>10, <1>12, <1>14
    <3> QED  BY <3>1, <1>19, <1>27, <1>28 DEF Kept
  <2> QED  BY <2>2, <2>5, <2>7, <1>23, <1>27
<1>30. d.entries[a].env = env /\ d.entries[a].bytes = InstrAt(m, a)
  BY <1>3, <1>6, <1>17, <1>27 DEF Shrunk, Kept
<1>31. Opcode(d.entries[a]) = m[a]  BY <1>30, <1>3 DEF Opcode
<1>32. CurrentIn(d, m, a)
  <2>1. DOMAIN InstrAt(m, a) = 1 .. Length[m[a]]  BY DEF InstrAt
  <2> QED  BY <2>1, <1>8, <1>30 DEF CurrentIn
<1> QED  BY <1>2, <1>19, <1>27, <1>28, <1>29, <1>30, <1>31, <1>32 DEF c0, c1, n

-----------------------------------------------------------------------------
(* Lookup.                                                                 *)

States == [mem : [Addr -> Byte], clean : [Frames -> BOOLEAN], cache : Cache,
           queue : Seq(Requests), writes : Nat, id : Addr \cup {NoId}]
Sound(s) == s \in States /\ CacheOK(s.cache, s.mem, s.clean)

\* What a sound state consists of.
LEMMA StateFields ==
    ASSUME NEW s, Sound(s)
    PROVE  /\ s \in States /\ s.mem \in [Addr -> Byte] /\ s.clean \in [Frames -> BOOLEAN] /\ s.cache \in Cache
           /\ s.queue \in Seq(Requests) /\ s.writes \in Nat /\ s.id \in Addr \cup {NoId}
           /\ Core(s.cache, s.mem) /\ Noted(s.cache, s.clean) /\ Attached(s.cache) /\ s.cache.tlb \subseteq s.cache.live
           /\ s.cache.live \subseteq Addr /\ Whole(s.cache)
BY CacheFields DEF Sound, States, CacheOK, Core

\* A lookup leaves memory, the queue and the number of writes alone.
Alike(s, r) == r.mem = s.mem /\ r.queue = s.queue /\ r.writes = s.writes

\* insert_entry
LEMMA SoundInserted ==
    ASSUME NEW s, Sound(s), NEW a \in Addr, a \notin s.cache.live, Fits(s.mem, a), NEW env \in Envs
    PROVE  LET r == InsertEntry(s, a, env)
           IN  /\ Sound(r) /\ Alike(s, r) /\ r.id = s.id
               /\ a \in r.cache.live /\ r.cache.entries[a].env = env
               /\ \A b \in Addr \ {a} : Kept(s.cache.entries[b], r.cache.entries[b])
<1> DEFINE f  == Frame(a)
           c  == s.cache
           m  == s.mem
           k  == s.clean[f] \/ Idle(s.cache, f)
           co == [s.clean EXCEPT ![f] = k]
           d  == DropOverlap(Placed(Opened(s.cache, s.mem, a), a, NewEntry(s.mem, a, env)), a)
           r  == InsertEntry(s, a, env)
<1>1. r = [s EXCEPT !.cache = d, !.clean = co]
  <2> DEFINE p == [CleanIdle(UpdateCachedInstrBytes(s.cache, s.mem, a), Frame(a)) EXCEPT
                      !.live = @ \cup {a}, !.entries[a] = NewEntry(s.mem, a, env)]
  <2>1. p = Placed(Opened(s.cache, s.mem, a), a, NewEntry(s.mem, a, env))  BY DEF Placed, Opened
  <2>2. r = [s EXCEPT !.cache = DropOverlap(p, a), !.clean = co]  BY DEF InsertEntry
  <2> HIDE DEF p, r, co
  <2> QED  BY <2>1, <2>2
<1>2. f \in Frames /\ s.clean \in [Frames -> BOOLEAN] /\ m \in [Addr -> Byte]  BY Places, StateFields
<1>3. co \in [Frames -> BOOLEAN] /\ \A g \in Frames : co[g] <=> s.clean[g] \/ (g = f /\ Idle(c, g))  BY <1>2 DEF Idle
<1> HIDE DEF co
<1>4. Core(c, m) /\ Noted(c, s.clean) /\ Attached(c) /\ c.tlb \subseteq c.live  BY StateFields
<1>5. /\ Core(d, m) /\ Noted(d, co) /\ Attached(d) /\ d.tlb \subseteq d.live
      /\ a \in d.live /\ d.live \subseteq c.live \cup {a}
      /\ d.entries[a].env = env /\ Opcode(d.entries[a]) = m[a] /\ CurrentIn(d, m, a)
      /\ \A b \in Addr \ {a} : Kept(c.entries[b], d.entries[b])
  BY <1>2, <1>3, <1>4, EntryInserted
<1> HIDE DEF d, r
<1>6. d \in Cache  BY <1>5 DEF Core
<1>7. r \in States /\ r.cache = d /\ r.clean = co /\ r.id = s.id /\ Alike(s, r)
  BY <1>1, <1>3, <1>6, StateFields DEF States, Alike
<1>8. Sound(r)  BY <1>5, <1>7 DEF Sound, CacheOK, Alike
<1> QED  BY <1>5, <1>7, <1>8 DEF r

\* A new cache in a state.
LEMMA CacheChanged ==
    ASSUME NEW s, Sound(s), NEW d, CacheOK(d, s.mem, s.clean)
    PROVE  LET r == [s EXCEPT !.cache = d]
           IN  Sound(r) /\ Alike(s, r) /\ r.id = s.id /\ r.cache = d /\ r.clean = s.clean
<1> DEFINE r == [s EXCEPT !.cache = d]
<1>1. d \in Cache  BY DEF CacheOK, Core
<1>2. r \in States /\ r.cache = d /\ r.clean = s.clean /\ r.id = s.id /\ Alike(s, r)  BY <1>1, StateFields DEF States, Alike
<1> HIDE DEF r
<1>3. Sound(r)  BY <1>2 DEF Sound, Alike
<1> QED  BY <1>2, <1>3 DEF r

\* An entry for another environment is decoded again.
LEMMA SoundForEnv ==
    ASSUME NEW s, Sound(s), NEW a \in s.cache.live, Fits(s.mem, a), NEW env \in Envs
    PROVE  LET r == ForEnv(s, a, env)
           IN  /\ Sound(r) /\ Alike(s, r) /\ r.id = s.id
               /\ a \in r.cache.live /\ r.cache.entries[a].env = env
               /\ s.cache.entries[a].env = env => r.cache.entries[a] = s.cache.entries[a]
               /\ \A b \in Addr \ {a} : Kept(s.cache.entries[b], r.cache.entries[b])
<1> DEFINE c == s.cache
           m == s.mem
           u == RemoveLinksTo(c, a)
           d == Redecode(u, m, a, env)
           r == ForEnv(s, a, env)
<1>1. /\ Core(c, m) /\ Noted(c, s.clean) /\ Attached(c) /\ c.tlb \subseteq c.live
      /\ a \in Addr /\ c \in Cache /\ m \in [Addr -> Byte] /\ Counted(c)
  BY StateFields DEF Core
<1>2. CASE c.entries[a].env = env
  <2>1. r = s  BY <1>2 DEF ForEnv
  <2>2. \A e : Kept(e, e)  BY DEF Kept
  <2> QED  BY <1>2, <2>1, <2>2 DEF Alike
<1>3. CASE c.entries[a].env # env
  <2>1. r = [s EXCEPT !.cache = d]  BY <1>3 DEF ForEnv
  <2>2. /\ u \in Cache /\ Counted(u) /\ u.live = c.live /\ Framed(c, u)
        /\ \A e \in Addr : Shrunk(c.entries[e], u.entries[e])
    BY <1>1, Unlinked
  <2> HIDE DEF u
  <2>3. u.delay = c.delay /\ u.cached = c.cached /\ u.live \subseteq Addr  BY <2>2, CacheFields DEF Framed
  <2>4. \A e \in u.live : Kept(c.entries[e], u.entries[e])  BY <2>2, <2>3 DEF Shrunk
  <2>5. Core(u, m)  BY <1>1, <2>2, <2>3, <2>4, CoreShrinks
  <2>6. Noted(u, s.clean)
    <3>1. \A g \in Frames : Mapped(u, g) = Mapped(c, g)  BY <2>2 DEF Mapped
    <3> QED  BY <1>1, <2>2, <3>1, NotedKeeps DEF Framed
  <2>7. Attached(u)
    <3>1. \A e \in u.live : /\ u.entries[e].code = c.entries[e].code /\ u.entries[e].bytes = c.entries[e].bytes
                            /\ u.entries[e].env = c.entries[e].env
      BY <2>2, <2>3 DEF Shrunk, Kept
    <3> QED  BY <1>1, <2>2, <2>3, <3>1, AttachedKeeps
  <2>8. /\ Core(d, m) /\ Noted(d, s.clean) /\ Attached(d) /\ d.tlb = {} /\ a \in d.live /\ d.entries[a].env = env
        /\ \A b \in Addr \ {a} : Kept(u.entries[b], d.entries[b])
    BY <1>1, <2>2, <2>5, <2>6, <2>7, Redecoded
  <2> HIDE DEF d, r
  <2>9. CacheOK(d, m, s.clean)  BY <2>8 DEF CacheOK
  <2>10. Sound(r) /\ Alike(s, r) /\ r.id = s.id /\ r.cache = d  BY <2>1, <2>9, CacheChanged
  <2>11. \A b \in Addr \ {a} : Kept(c.entries[b], d.entries[b])
    <3>1. \A x, y, z : Kept(x, y) /\ Kept(y, z) => Kept(x, z)  BY DEF Kept, Targets
    <3> QED  BY <2>2, <2>8, <3>1 DEF Shrunk
  <2>12. ~(s.cache.entries[a].env = env)  BY <1>3
  <2>13. a \in r.cache.live /\ r.cache.entries[a].env = env  BY <2>8, <2>10
  <2>14. \A b \in Addr \ {a} : Kept(s.cache.entries[b], r.cache.entries[b])  BY <2>10, <2>11
  <2> QED  BY <2>10, <2>12, <2>13, <2>14 DEF r
<1> QED  BY <1>2, <1>3

\* find_or_create_entry
LEMMA SoundFound ==
    ASSUME NEW s, Sound(s), NEW a \in Addr, Fits(s.mem, a), NEW env \in Envs
    PROVE  LET r == FindOrCreateEntry(s, a, env)
           IN  /\ Sound(r) /\ Alike(s, r) /\ r.id = a
               /\ a \in r.cache.live /\ r.cache.entries[a].env = env
               /\ a \in s.cache.live /\ s.cache.entries[a].env = env => r.cache.entries[a] = s.cache.entries[a]
               /\ \A b \in Addr \ {a} : Kept(s.cache.entries[b], r.cache.entries[b])
<1> DEFINE s1 == IF a \in s.cache.tlb \cup s.cache.live THEN s ELSE InsertEntry(s, a, env)
           T  == TlbInsert(s1.cache, a)
           s2 == [s1 EXCEPT !.cache = T, !.id = a]
           r  == ForEnv(s2, a, env)
<1>1. r = FindOrCreateEntry(s, a, env)  BY DEF FindOrCreateEntry
<1>2. /\ Sound(s1) /\ Alike(s, s1) /\ a \in s1.cache.live
      /\ a \in s.cache.live => s1 = s
      /\ \A b \in Addr \ {a} : Kept(s.cache.entries[b], s1.cache.entries[b])
  <2>1. CASE a \in s.cache.tlb \cup s.cache.live
    <3>1. s1 = s  BY <2>1
    <3>2. a \in s.cache.live  BY <2>1, StateFields
    <3>3. \A e : Kept(e, e)  BY DEF Kept
    <3> QED  BY <3>1, <3>2, <3>3 DEF Alike
  <2>2. CASE a \notin s.cache.tlb \cup s.cache.live
    <3>1. s1 = InsertEntry(s, a, env)  BY <2>2
    <3> HIDE DEF s1
    <3> QED  BY <2>2, <3>1, SoundInserted
  <2> QED  BY <2>1, <2>2
<1> HIDE DEF s1
<1>3. s1.cache \in Cache /\ s1 \in States  BY <1>2, StateFields
<1>4. T \in Cache /\ Same(s1.cache, T) /\ T.tlb \subseteq s1.cache.tlb \cup {a} /\ Noted(T, s1.clean)
  BY <1>2, <1>3, StateFields, Inserted
<1> HIDE DEF T
<1>5. CacheOK(T, s1.mem, s1.clean)
  <2>1. Core(T, s1.mem) /\ Attached(T)  BY <1>2, <1>3, <1>4, StateFields, SameKeeps
  <2>2. T.tlb \subseteq T.live  BY <1>2, <1>4, StateFields DEF Same
  <2> QED  BY <1>4, <2>1, <2>2 DEF CacheOK
<1>6. s2 \in States /\ s2.cache = T /\ s2.clean = s1.clean /\ s2.id = a /\ Alike(s1, s2)  BY <1>3, <1>4 DEF States, Alike
<1> HIDE DEF s2
<1>7. Sound(s2) /\ a \in s2.cache.live /\ Fits(s2.mem, a) /\ s2.cache.entries = s1.cache.entries
  BY <1>2, <1>4, <1>5, <1>6 DEF Sound, Same, Alike
<1>8. /\ Sound(r) /\ Alike(s2, r) /\ r.id = s2.id
      /\ a \in r.cache.live /\ r.cache.entries[a].env = env
      /\ s2.cache.entries[a].env = env => r.cache.entries[a] = s2.cache.entries[a]
      /\ \A b \in Addr \ {a} : Kept(s2.cache.entries[b], r.cache.entries[b])
  BY <1>7, SoundForEnv
<1> HIDE DEF r
<1>9. \A b \in Addr \ {a} : Kept(s.cache.entries[b], r.cache.entries[b])
  <2>1. \A x, y, z : Kept(x, y) /\ Kept(y, z) => Kept(x, z)  BY DEF Kept, Targets
  <2> QED  BY <2>1, <1>2, <1>7, <1>8
<1>10. Alike(s, r) /\ r.id = a  BY <1>2, <1>6, <1>8 DEF Alike
<1>11. a \in s.cache.live /\ s.cache.entries[a].env = env => r.cache.entries[a] = s.cache.entries[a]  BY <1>2, <1>7, <1>8
<1> QED  BY <1>1, <1>8, <1>9, <1>10, <1>11

-----------------------------------------------------------------------------
(* The dirty frames.                                                       *)

\* The dirty state changes; what the entries say remains true.
Sames(c, d) == d.entries = c.entries /\ d.live = c.live /\ d.prev = c.prev

\* A frame may become clean if its entries still hold what memory holds.
LEMMA CoreKeeps ==
    ASSUME NEW m, NEW c, Core(c, m), NEW d \in Cache, Sames(c, d),
           \A g \in Frames : c.delay[g] = 0 => d.delay[g] = 0,
           \A a \in d.live : Holds(d, m, a)
    PROVE  Core(d, m)
<1>1. \A a : End(d, a) = End(c, a)  BY DEF End, Sames
<1>2. Whole(d) /\ Counted(d)  BY DEF Core, Whole, Counted, Sames
<1>3. Apart(d)  BY <1>1 DEF Core, Apart, Sames
<1>4. Fixed(d)
  <2>1. \A a \in d.live : Frame(a) \in Frames  BY CacheFields, Places
  <2> QED  BY <2>1 DEF Core, Fixed, Sames
<1> QED  BY <1>2, <1>3, <1>4 DEF Core

\* An entry whose cached bytes are those of memory is current, and so is one of a clean frame.
LEMMA MatchIsCurrent ==
    ASSUME NEW m, NEW c, Core(c, m), NEW a \in c.live, c.delay[Frame(a)] = 0 \/ EntryMatchesMemory(c, m, a)
    PROVE  \A i \in 1 .. Len(c.entries[a].bytes) : c.entries[a].bytes[i] = m[a + i - 1]
<1>1. SUFFICES ASSUME NEW i \in 1 .. Len(c.entries[a].bytes) PROVE c.entries[a].bytes[i] = m[a + i - 1]  OBVIOUS
<1> DEFINE x == a + i - 1
<1>2. c \in Cache /\ Whole(c) /\ c.entries[a].bytes[i] = ByteAt(c, m, x)  BY DEF Core, Holds
<1>3. x \in Addr /\ Frame(x) = Frame(a) /\ a <= x /\ x < End(c, a) /\ End(c, a) \in Nat /\ a \in Nat  BY <1>2, Spans
<1> HIDE DEF x
<1>4. CASE c.delay[Frame(a)] = 0  BY <1>2, <1>3, <1>4 DEF ByteAt, x
<1>5. CASE c.delay[Frame(a)] # 0
  <2>1. x \in a .. End(c, a) - 1  BY <1>3, Places
  <2>2. c.cached[Frame(a)][Offset(x)] = m[x]  BY <1>5, <2>1 DEF EntryMatchesMemory
  <2> QED  BY <1>2, <1>3, <1>5, <2>2 DEF ByteAt, x
<1> QED  BY <1>4, <1>5

\* Such an entry is current.
LEMMA Matched ==
    ASSUME NEW m, NEW c, Core(c, m), NEW a \in c.live, c.delay[Frame(a)] = 0 \/ EntryMatchesMemory(c, m, a)
    PROVE  CurrentIn(c, m, a)
<1>1. c.entries[a].bytes \in Seq(Byte)
  <2>1. c \in Cache /\ Whole(c)  BY DEF Core
  <2>2. c.entries[a] \in Entry  BY <2>1, Spans
  <2> QED  BY <2>2, EntryFields
<1>2. DOMAIN c.entries[a].bytes = 1 .. Len(c.entries[a].bytes)  BY <1>1
<1> QED  BY <1>2, MatchIsCurrent DEF CurrentIn

\* The end of the cleaning delay.
LEMMA FrameCleaned ==
    ASSUME NEW m, NEW c, Core(c, m), NEW f \in Frames, c.delay[f] # 0, NEW cl, Noted(c, cl), Attached(c),
           NEW co, \A g \in Frames : co[g] <=> cl[g] \/ g = f
    PROVE  LET d == CleanFrame(c, m, f)
           IN  /\ CacheOK(d, m, co)
               /\ d.live \subseteq c.live /\ \A a \in c.live : EntryMatchesMemory(c, m, a) => a \in d.live
               /\ \A b \in Addr : Kept(c.entries[b], d.entries[b])
<1> DEFINE stale == {a \in Mapped(c, f) : ~EntryMatchesMemory(c, m, a)}
           c1 == Released(c, stale, Mapped(c, f))
           c2 == [c1 EXCEPT !.dirty_code_frames = @ \ {f}, !.cached[f] = NoBytes, !.delay[f] = 0, !.checks[f] = @ \ {"dirty"}]
           c3 == SetJitPageIn(c2, f, JitDelay)
           d  == [c3 EXCEPT !.tlb = {}]
<1>1. c \in Cache /\ Counted(c) /\ Whole(c)  BY DEF Core
<1>2. c.live \subseteq Addr  BY <1>1, CacheFields
<1>3. d = CleanFrame(c, m, f)
  <2>1. Sweep(c, m, f) = c1  BY DEF Sweep, Released
  <2> HIDE DEF c1
  <2> QED  BY <2>1 DEF CleanFrame, ClearTlb
<1>4. stale \in SUBSET Addr /\ Mapped(c, f) \in SUBSET Addr /\ stale \subseteq Mapped(c, f)  BY <1>2 DEF Mapped
<1>5. \A a \in stale : a \in c.live /\ Frame(a) = f /\ ~EntryMatchesMemory(c, m, a)  BY DEF Mapped
<1>6. \A a \in c.live : Frame(a) = f /\ a \notin stale => EntryMatchesMemory(c, m, a)  BY DEF Mapped
<1> HIDE DEF stale
<1>7. /\ c1 \in Cache /\ Counted(c1) /\ c1.live = c.live \ stale /\ Framed(c, c1)
      /\ \A e \in Addr : Shrunk(c.entries[e], c1.entries[e])
  BY <1>1, <1>4, Shed
<1> HIDE DEF c1
<1>8. c1.delay = c.delay /\ c1.cached = c.cached /\ c1.live \subseteq c.live  BY <1>7 DEF Framed
<1>9. Core(c1, m)
  <2>1. \A e \in c1.live : Kept(c.entries[e], c1.entries[e])  BY <1>2, <1>7, <1>8 DEF Shrunk
  <2> QED  BY <2>1, <1>7, <1>8, CoreShrinks
<1> DEFINE k == c1.checks[f] \ {"dirty"}
<1>10. /\ c1.checks \in [Frames -> SUBSET {"dirty", "counters"}] /\ c1.delay \in [Frames -> 0 .. CleaningDelay]
       /\ c1.cached \in [Frames -> [Slots -> Byte] \cup {NoBytes}] /\ c1.dirty_code_frames \in SUBSET Frames
  BY <1>7, CacheFields
<1>11. k \in SUBSET {"dirty", "counters"} /\ 0 \in 0 .. CleaningDelay /\ JitDelay \in 0 .. JitDelay  BY <1>10, DelayAssumption
<1>12. c2 = [c1 EXCEPT !.dirty_code_frames = @ \ {f}, !.cached = [@ EXCEPT ![f] = NoBytes],
                       !.delay = [@ EXCEPT ![f] = 0], !.checks = [@ EXCEPT ![f] = k]]
  OBVIOUS
<1> HIDE DEF k, c2
<1>13. /\ c2 \in Cache /\ c2.entries = c1.entries /\ c2.live = c1.live /\ c2.prev = c1.prev /\ c2.jit_page_in = c1.jit_page_in
       /\ c2.dirty_code_frames = c1.dirty_code_frames \ {f}
       /\ c2.cached = [c1.cached EXCEPT ![f] = NoBytes]
       /\ c2.delay = [c1.delay EXCEPT ![f] = 0] /\ c2.checks = [c1.checks EXCEPT ![f] = k]
  BY <1>7, <1>10, <1>11, <1>12 DEF Cache
<1>14. c2.delay[f] = 0 /\ c2.cached[f] = NoBytes /\ c2.checks[f] = k  BY <1>10, <1>13
<1>15. \A g \in Frames \ {f} : c2.delay[g] = c.delay[g] /\ c2.cached[g] = c.cached[g] /\ c2.checks[g] = c1.checks[g]
  BY <1>8, <1>10, <1>13
<1>16. Core(c2, m)
  <2>1. ASSUME NEW a \in c2.live PROVE Holds(c2, m, a)
    <3>1. a \in c1.live /\ a \in c.live /\ a \in Addr /\ Frame(a) \in Frames  BY <1>2, <1>8, <1>13, Places
    <3>2. c2.entries[a].bytes = c1.entries[a].bytes /\ c2.entries[a].bytes = c.entries[a].bytes
      BY <3>1, <1>7, <1>13 DEF Shrunk, Kept
    <3>3. \A i \in 1 .. Len(c1.entries[a].bytes) : Frame(a + i - 1) = Frame(a)  BY <3>1, <1>7, <1>9, Spans DEF Core
    <3>4. CASE Frame(a) = f
      <4>1. EntryMatchesMemory(c, m, a)  BY <3>1, <3>4, <1>6, <1>7
      <4>2. \A i \in 1 .. Len(c.entries[a].bytes) : c.entries[a].bytes[i] = m[a + i - 1]  BY <3>1, <4>1, MatchIsCurrent
      <4> QED  BY <3>2, <3>3, <3>4, <4>2, <1>14 DEF Holds, ByteAt
    <3>5. CASE Frame(a) # f
      <4>1. Holds(c1, m, a)  BY <3>1, <1>9 DEF Core
      <4> QED  BY <3>1, <3>2, <3>3, <3>5, <4>1, <1>8, <1>15 DEF Holds, ByteAt
    <3> QED  BY <3>4, <3>5
  <2>2. \A g \in Frames : c1.delay[g] = 0 => c2.delay[g] = 0  BY <1>8, <1>14, <1>15
  <2>3. Sames(c1, c2)  BY <1>13 DEF Sames
  <2>4. c2 \in Cache  BY <1>13
  <2> QED  BY <2>1, <2>2, <2>3, <2>4, <1>9, CoreKeeps
<1>17. Noted(c2, co)
  <2>1. SUFFICES ASSUME NEW g \in Frames
                 PROVE  /\ c2.delay[g] = 0 => c2.cached[g] = NoBytes /\ g \notin c2.dirty_code_frames
                        /\ c2.delay[g] # 0 => /\ g \in c2.dirty_code_frames <=> Mapped(c2, g) # {}
                                              /\ c2.cached[g] # NoBytes <=> Mapped(c2, g) # {}
                        /\ ~co[g] => c2.delay[g] # 0
                        /\ "dirty" \in c2.checks[g] <=> c2.delay[g] # 0
                        /\ "counters" \in c2.checks[g] <=> c2.jit_page_in[g] # 0
    BY DEF Noted
  <2>2. c1.checks = c.checks /\ c1.jit_page_in = c.jit_page_in /\ c1.dirty_code_frames = c.dirty_code_frames  BY <1>7 DEF Framed
  <2>3. CASE g # f
    <3>1. Mapped(c2, g) = Mapped(c, g)  BY <2>3, <1>5, <1>7, <1>13 DEF Mapped
    <3>2. co[g] <=> cl[g]  BY <2>3
    <3>3. g \in c2.dirty_code_frames <=> g \in c.dirty_code_frames  BY <2>2, <2>3, <1>13
    <3> QED  BY <2>2, <2>3, <3>1, <3>2, <3>3, <1>13, <1>15 DEF Noted
  <2>4. CASE g = f
    <3>1. "counters" \in c.checks[f] <=> c.jit_page_in[f] # 0  BY DEF Noted
    <3> QED  BY <2>2, <2>4, <3>1, <1>13, <1>14 DEF k
  <2> QED  BY <2>3, <2>4
<1>18. c3 \in Cache /\ Same(c2, c3) /\ Noted(c3, co)  BY <1>11, <1>13, <1>17, CounterSet
<1> HIDE DEF c3
<1>19. d \in Cache /\ Same(c3, d) /\ d.tlb = {} /\ Noted(d, co)
  <2>1. {} \in SUBSET Addr  OBVIOUS
  <2> QED  BY <2>1, <1>18, TlbSet
<1> HIDE DEF d
<1>20. Core(d, m)
  <2>1. Core(c3, m)  BY <1>13, <1>16, <1>18, SameKeeps
  <2> QED  BY <2>1, <1>18, <1>19, SameKeeps
<1>21. d.entries = c1.entries /\ d.live = c.live \ stale /\ d.delay = c2.delay  BY <1>7, <1>13, <1>18, <1>19 DEF Same
<1>22. Attached(d)
  <2>1. SUFFICES ASSUME NEW x \in d.live, d.entries[x].code # {}
                 PROVE  /\ x \in c.live /\ d.entries[x].code = c.entries[x].code
                        /\ c.delay[Frame(x)] = 0 => d.delay[Frame(x)] = 0
                        /\ \A b \in c.live : Frame(b) = Frame(x) =>
                              /\ b \in d.live
                              /\ d.entries[b].bytes = c.entries[b].bytes /\ d.entries[b].env = c.entries[b].env
    BY AttachedKeeps
  <2>2. x \in c.live /\ x \in Addr /\ d.entries[x].code = c.entries[x].code  BY <1>2, <1>7, <1>21 DEF Shrunk
  <2>3. c.delay[Frame(x)] = 0 /\ Frame(x) \in Frames  BY <2>1, <2>2, Places DEF Attached
  <2>4. Frame(x) # f  BY <2>3
  <2>5. ASSUME NEW b \in c.live, Frame(b) = Frame(x)
        PROVE  b \in d.live /\ d.entries[b].bytes = c.entries[b].bytes /\ d.entries[b].env = c.entries[b].env
    <3>1. b \in Addr /\ b \notin stale  BY <2>4, <2>5, <1>2, <1>5
    <3> QED  BY <3>1, <1>7, <1>21 DEF Shrunk, Kept
  <2> QED  BY <2>2, <2>3, <2>4, <2>5, <1>15, <1>21
<1>23. CacheOK(d, m, co)  BY <1>19, <1>20, <1>22 DEF CacheOK
<1>24. d.live \subseteq c.live /\ \A a \in c.live : EntryMatchesMemory(c, m, a) => a \in d.live  BY <1>5, <1>21
<1>25. \A b \in Addr : Kept(c.entries[b], d.entries[b])  BY <1>7, <1>21 DEF Shrunk
<1> QED  BY <1>3, <1>23, <1>24, <1>25

\* The cleaning delay goes down.
LEMMA DelayLowered ==
    ASSUME NEW m, NEW c, Core(c, m), NEW f \in Frames, c.delay[f] # 0, NEW n \in 0 .. CleaningDelay, n # 0,
           NEW cl, Noted(c, cl), Attached(c), c.tlb \subseteq c.live,
           NEW co, \A g \in Frames : co[g] <=> cl[g] \/ (g = f /\ co[g])
    PROVE  LET d == [c EXCEPT !.delay[f] = n]
           IN  CacheOK(d, m, co) /\ d.live = c.live /\ d.entries = c.entries
<1> DEFINE d == [c EXCEPT !.delay[f] = n]
<1>1. c \in Cache /\ c.delay \in [Frames -> 0 .. CleaningDelay]  BY CacheFields DEF Core
<1>2. d = [c EXCEPT !.delay = [@ EXCEPT ![f] = n]]  OBVIOUS
<1> HIDE DEF d
<1>3. /\ d \in Cache /\ d.entries = c.entries /\ d.live = c.live /\ d.prev = c.prev /\ d.jit_page_in = c.jit_page_in
      /\ d.dirty_code_frames = c.dirty_code_frames /\ d.cached = c.cached /\ d.checks = c.checks /\ d.tlb = c.tlb
      /\ d.delay = [c.delay EXCEPT ![f] = n]
  BY <1>1, <1>2 DEF Cache
<1>4. \A g \in Frames : d.delay[g] = 0 <=> c.delay[g] = 0  BY <1>1, <1>3
<1>5. Core(d, m)
  <2>1. ASSUME NEW a \in d.live PROVE Holds(d, m, a)
    <3>1. c \in Cache /\ Whole(c) /\ a \in c.live /\ Frame(a) \in Frames /\ Holds(c, m, a)  BY <1>1, <1>3, CacheFields, Places DEF Core
    <3>2. \A i \in 1 .. Len(c.entries[a].bytes) : Frame(a + i - 1) = Frame(a)  BY <3>1, Spans
    <3> QED  BY <3>1, <3>2, <1>3, <1>4 DEF Holds, ByteAt
  <2>2. Sames(c, d)  BY <1>3 DEF Sames
  <2>3. d \in Cache  BY <1>3
  <2> QED  BY <2>1, <2>2, <2>3, <1>4, CoreKeeps
<1>6. Noted(d, co)
  <2>1. \A g \in Frames : Mapped(d, g) = Mapped(c, g)  BY <1>3 DEF Mapped
  <2>2. \A g \in Frames : ~co[g] => ~cl[g]  OBVIOUS
  <2> QED  BY <2>1, <2>2, <1>3, <1>4 DEF Noted
<1>7. Attached(d)
  <2>1. \A a \in c.live : Frame(a) \in Frames  BY <1>1, CacheFields, Places
  <2> QED  BY <2>1, <1>3, <1>4 DEF Attached
<1> QED  BY <1>3, <1>5, <1>6, <1>7 DEF CacheOK, d

\* What a lookup has to return.
Fresh(r, a) == Sound(r) /\ r.id = a /\ a \in r.cache.live /\ CurrentIn(r.cache, r.mem, a)

\* check_dirty_memory on an entry that still matches.
LEMMA Counted1 ==
    ASSUME NEW s, Sound(s), NEW a \in s.cache.live, s.id = a,
           s.cache.delay[Frame(a)] # 0, EntryMatchesMemory(s.cache, s.mem, a)
    PROVE  LET r == CountDownCleaning(s, a)
           IN  Fresh(r, a) /\ Alike(s, r)
<1> DEFINE c    == s.cache
           m    == s.mem
           f    == Frame(a)
           next == s.cache.delay[Frame(a)] - 1
           k    == s.clean[f] \/ next \in {0, CleaningDelay \div 2}
           co   == [s.clean EXCEPT ![f] = k]
           d    == IF next = 0 THEN CleanFrame(s.cache, s.mem, f) ELSE [s.cache EXCEPT !.delay[f] = next]
           r    == CountDownCleaning(s, a)
<1>1. r = [s EXCEPT !.cache = d, !.clean = co]  BY DEF CountDownCleaning
<1>2. /\ f \in Frames /\ a \in Addr /\ s.clean \in [Frames -> BOOLEAN] /\ c \in Cache /\ Core(c, m) /\ Noted(c, s.clean)
      /\ Attached(c) /\ c.tlb \subseteq c.live
  BY StateFields, Places
<1>3. next \in 0 .. CleaningDelay /\ CleaningDelay \in Nat
  <2>1. c.delay[f] \in 0 .. CleaningDelay /\ CleaningDelay \in Nat  BY <1>2, CacheFields, DelayAssumption
  <2> QED  BY <2>1
<1> HIDE DEF next
<1>4. co \in [Frames -> BOOLEAN] /\ co[f] = k /\ \A g \in Frames \ {f} : co[g] = s.clean[g]  BY <1>2
<1> HIDE DEF co
<1>5. CacheOK(d, m, co) /\ a \in d.live /\ d.entries[a].bytes = c.entries[a].bytes
  <2>1. CASE next = 0
    <3> DEFINE x == CleanFrame(s.cache, s.mem, f)
    <3>1. \A g \in Frames : co[g] <=> s.clean[g] \/ g = f  BY <2>1, <1>2, <1>4
    <3>2. /\ CacheOK(x, m, co)
          /\ x.live \subseteq c.live /\ \A b \in c.live : EntryMatchesMemory(c, m, b) => b \in x.live
          /\ \A b \in Addr : Kept(c.entries[b], x.entries[b])
      BY <3>1, <1>2, FrameCleaned
    <3>3. d = x  BY <2>1
    <3> HIDE DEF x, d
    <3> QED  BY <3>2, <3>3, <1>2 DEF Kept
  <2>2. CASE next # 0
    <3> DEFINE x == [s.cache EXCEPT !.delay[f] = next]
    <3>1. \A g \in Frames : co[g] <=> s.clean[g] \/ (g = f /\ co[g])  BY <1>2, <1>4
    <3>2. CacheOK(x, m, co) /\ x.live = c.live /\ x.entries = c.entries  BY <3>1, <2>2, <1>2, <1>3, DelayLowered
    <3>3. d = x  BY <2>2
    <3> HIDE DEF x, d
    <3> QED  BY <3>2, <3>3
  <2> QED  BY <2>1, <2>2
<1> HIDE DEF d, r
<1>6. d \in Cache  BY <1>5 DEF CacheOK, Core
<1>7. r \in States /\ r.cache = d /\ r.clean = co /\ r.id = s.id /\ Alike(s, r)
  <2>1. s \in States /\ co \in [Frames -> BOOLEAN]  BY <1>4, StateFields
  <2> QED  BY <1>1, <1>6, <2>1 DEF States, Alike
<1>8. Sound(r)  BY <1>5, <1>7 DEF Sound, Alike
<1>9. CurrentIn(c, m, a)  BY <1>2, Matched
<1>10. CurrentIn(d, m, a)  BY <1>5, <1>9 DEF CurrentIn
<1> QED  BY <1>5, <1>7, <1>8, <1>10 DEF Fresh, Alike, r

\* entry_memory_has_changed, and what its callers do when it has.
LEMMA Verified ==
    ASSUME NEW s, Sound(s), NEW a \in s.cache.live, s.id = a, Fits(s.mem, a), NEW env \in Envs
    PROVE  LET r == VerifyMemory(s, a, env)
           IN  Fresh(r, a) /\ Alike(s, r)
<1>1. /\ a \in Addr /\ s.cache \in Cache /\ Core(s.cache, s.mem)  BY StateFields
<1>2. CASE s.cache.delay[Frame(a)] = 0
  <2>1. VerifyMemory(s, a, env) = s  BY <1>2 DEF VerifyMemory
  <2>2. CurrentIn(s.cache, s.mem, a)  BY <1>1, <1>2, Matched
  <2> QED  BY <2>1, <2>2 DEF Fresh, Alike
<1>3. CASE s.cache.delay[Frame(a)] # 0 /\ EntryMatchesMemory(s.cache, s.mem, a)
  <2>1. VerifyMemory(s, a, env) = CountDownCleaning(s, a)  BY <1>3 DEF VerifyMemory
  <2> QED  BY <2>1, <1>3, Counted1
<1>4. CASE s.cache.delay[Frame(a)] # 0 /\ ~EntryMatchesMemory(s.cache, s.mem, a)
  <2> DEFINE t == FindOrCreateEntry(s, a, env)
             d == Redecode(t.cache, t.mem, a, env)
             r == [t EXCEPT !.cache = d]
  <2>1. VerifyMemory(s, a, env) = r
    <3>1. VerifyMemory(s, a, env) = [t EXCEPT !.cache = Redecode(t.cache, s.mem, a, env)]  BY <1>4 DEF VerifyMemory
    <3>2. t.mem = s.mem  BY <1>1, SoundFound DEF Alike
    <3> QED  BY <3>1, <3>2
  <2>2. Sound(t) /\ Alike(s, t) /\ t.id = a /\ a \in t.cache.live  BY <1>1, SoundFound
  <2> HIDE DEF t
  <2>3. /\ Core(t.cache, t.mem) /\ Noted(t.cache, t.clean) /\ Attached(t.cache) /\ t.mem \in [Addr -> Byte] /\ Fits(t.mem, a)
    BY <2>2, StateFields DEF Alike
  <2>4. Core(d, t.mem) /\ Noted(d, t.clean) /\ Attached(d) /\ d.tlb = {} /\ a \in d.live /\ CurrentIn(d, t.mem, a)
    BY <2>2, <2>3, Redecoded
  <2> HIDE DEF d
  <2>5. CacheOK(d, t.mem, t.clean)  BY <2>4 DEF CacheOK
  <2>6. Sound(r) /\ Alike(t, r) /\ r.id = t.id /\ r.cache = d  BY <2>2, <2>5, CacheChanged
  <2> HIDE DEF r
  <2>7. Alike(s, r) /\ r.mem = t.mem  BY <2>2, <2>6 DEF Alike
  <2> QED  BY <2>1, <2>2, <2>4, <2>6, <2>7 DEF Fresh
<1> QED  BY <1>2, <1>3, <1>4

-----------------------------------------------------------------------------
(* Following and making links.                                             *)

\* Where the cached instruction at from continues when its jump is taken or not.
Leads(c, from, to, taken) ==
    c.entries[from].links.kind # "speculative" => to = JumpTarget(from, Opcode(c.entries[from]), taken)

\* add_link: the link leads where the opcode continues, and is counted.
LEMMA LinkAdded ==
    ASSUME NEW m, NEW cl, NEW c, CacheOK(c, m, cl), NEW from \in Addr, NEW to \in c.live, NEW taken \in BOOLEAN,
           from \in c.live => Leads(c, from, to, taken)
    PROVE  LET d == AddLink(c, from, to, taken)
           IN  CacheOK(d, m, cl) /\ d.live = c.live
<1> DEFINE f         == Frame(to)
           old       == c.entries[from].links
           unchecked == FrameOf(c, from) = f /\ Opcode(c.entries[from]) \in Relative /\ c.delay[f] = 0
           kind      == IF unchecked THEN old.kind ELSE "checked"
           tos       == [old.to EXCEPT ![taken] = to]
           links     == IF old.kind = "speculative" THEN old ELSE [kind |-> kind, to |-> tos]
           e         == [c.entries[from] EXCEPT !.links = links]
           n         == c.prev[f][from] + 1
           d         == AddLink(c, from, to, taken)
<1>1. /\ c \in Cache /\ Whole(c) /\ Apart(c) /\ Counted(c) /\ Fixed(c) /\ Noted(c, cl) /\ Attached(c) /\ c.tlb \subseteq c.live
      /\ \A a \in c.live : Holds(c, m, a)
  BY DEF CacheOK, Core
<1>2. c.live \subseteq Addr /\ c.entries \in [Addr -> Entry] /\ c.prev \in [Frames -> [Addr -> Nat]]  BY <1>1, CacheFields
<1>3. to \in Addr /\ f \in Frames  BY <1>2, Places
<1>4. d = [c EXCEPT !.entries[from].links = links, !.prev[f][from] = n]
  BY DEF AddLink
<1>5. /\ c.entries[from] \in Entry /\ old \in Links /\ old.kind \in Kinds /\ old.to \in [BOOLEAN -> Addr \cup {NoId}]
      /\ n \in Nat /\ c.prev[f] \in [Addr -> Nat]
  BY <1>2, <1>3, EntryFields
<1>6. tos \in [BOOLEAN -> Addr \cup {NoId}] /\ tos[taken] = to /\ \A t \in BOOLEAN : t # taken => tos[t] = old.to[t]
  BY <1>3, <1>5
<1>7. kind \in Kinds /\ (old.kind # "speculative" => kind # "speculative")  BY <1>5 DEF Kinds
<1>8. /\ old.kind = "speculative" => links = old
      /\ old.kind # "speculative" => links = [kind |-> kind, to |-> tos]
  OBVIOUS
<1> HIDE DEF tos
<1>9. kind = "unchecked" => unchecked /\ old.kind = "unchecked"  OBVIOUS
<1> HIDE DEF kind, links
<1>10. links \in Links /\ (links.kind = "speculative" <=> old.kind = "speculative")
       /\ (old.kind # "speculative" => links.kind = kind /\ links.to = tos)
  BY <1>5, <1>6, <1>7, <1>8 DEF Links
<1>11. \A t \in BOOLEAN : links.to[t] = old.to[t] \/ (t = taken /\ links.to[t] = to /\ old.kind # "speculative")
  BY <1>6, <1>8, <1>10
<1>12. d = [c EXCEPT !.entries = [c.entries EXCEPT ![from] = e], !.prev = [c.prev EXCEPT ![f] = [c.prev[f] EXCEPT ![from] = n]]]
  <2> HIDE DEF d, n
  <2> QED  BY <1>1, <1>2, <1>3, <1>4 DEF Cache
<1> HIDE DEF d, n
<1>13. e \in Entry /\ e.links = links /\ e.bytes = c.entries[from].bytes /\ e.env = c.entries[from].env /\ e.code = c.entries[from].code
  BY <1>5, <1>10 DEF Entry
<1> HIDE DEF e
<1>14. /\ d \in Cache /\ d.live = c.live /\ Framed(c, d) /\ d.entries = [c.entries EXCEPT ![from] = e]
       /\ d.prev = [c.prev EXCEPT ![f] = [c.prev[f] EXCEPT ![from] = n]]
  BY <1>1, <1>2, <1>3, <1>5, <1>12, <1>13 DEF Cache, Framed
<1>15. d.entries[from] = e /\ \A a \in Addr \ {from} : d.entries[a] = c.entries[a]  BY <1>2, <1>14
<1>16. /\ d.prev[f][from] = n
       /\ \A g \in Frames, a \in Addr : g # f \/ a # from => d.prev[g][a] = c.prev[g][a]
  BY <1>2, <1>3, <1>5, <1>14
<1>17. \A a \in Addr : /\ d.entries[a].bytes = c.entries[a].bytes /\ d.entries[a].env = c.entries[a].env
                       /\ d.entries[a].code = c.entries[a].code
  BY <1>13, <1>15
<1>18. Whole(d)
  <2>1. SUFFICES ASSUME NEW a \in d.live
                 PROVE  LET x == d.entries[a]
                        IN  /\ x.bytes # << >> /\ Len(x.bytes) = Length[Opcode(x)] /\ Offset(a) + Len(x.bytes) <= Size
                            /\ x.env \in Envs
                            /\ x.links.kind = "speculative" <=> Opcode(x) \notin Relative
    BY DEF Whole
  <2>2. a \in c.live /\ a \in Addr  BY <1>2, <1>14
  <2>3. d.entries[a].links.kind = "speculative" <=> c.entries[a].links.kind = "speculative"  BY <2>2, <1>10, <1>13, <1>15
  <2> QED  BY <2>2, <2>3, <1>1, <1>17 DEF Whole, Opcode
<1>19. Apart(d)
  <2>1. \A a \in Addr : End(d, a) = End(c, a)  BY <1>17 DEF End
  <2> QED  BY <2>1, <1>1, <1>2, <1>14 DEF Apart
<1>20. Counted(d)
  <2>1. SUFFICES ASSUME NEW a \in Addr
                 PROVE  /\ Targets(d.entries[a]) \subseteq d.live
                        /\ \A g \in Frames : Cardinality(Leading(d.entries[a], g)) <= d.prev[g][a]
    BY DEF Counted
  <2>2. CASE a # from  BY <2>2, <1>1, <1>14, <1>15, <1>16 DEF Counted
  <2>3. CASE a = from
    <3>1. Targets(e) \subseteq Targets(c.entries[from]) \cup {to}  BY <1>11, <1>13 DEF Targets
    <3>2. Targets(d.entries[a]) \subseteq d.live  BY <3>1, <2>3, <1>1, <1>14, <1>15 DEF Counted
    <3>3. ASSUME NEW g \in Frames PROVE Cardinality(Leading(d.entries[a], g)) <= d.prev[g][a]
      <4> DEFINE L == Leading(c.entries[from], g)
                 N == Leading(e, g)
      <4>1. IsFiniteSet(L) /\ Cardinality(L) \in Nat /\ IsFiniteSet(N) /\ Cardinality(N) \in Nat  BY <1>5, <1>13, FewTargets
      <4>2. Cardinality(L) <= c.prev[g][from] /\ c.prev[g][from] \in Nat  BY <1>1, <1>2 DEF Counted
      <4>3. N = Leading(d.entries[a], g)  BY <2>3, <1>15
      <4>4. CASE g = f
        <5>1. N \in SUBSET (L \cup {to})  BY <3>1 DEF Leading
        <5> HIDE DEF L, N
        <5>2. IsFiniteSet(L \cup {to}) /\ Cardinality(L \cup {to}) <= Cardinality(L) + 1
          <6>1. IsFiniteSet(L)  BY <4>1
          <6>2. IsFiniteSet(L \cup {to}) /\ Cardinality(L \cup {to}) = IF to \in L THEN Cardinality(L) ELSE Cardinality(L) + 1
            BY <6>1, FS_AddElement
          <6> QED  BY <4>1, <6>2
        <5>3. Cardinality(N) <= Cardinality(L \cup {to}) /\ Cardinality(L \cup {to}) \in Nat  BY <5>1, <5>2, FS_Subset, FS_CardinalityType
        <5>4. d.prev[g][a] = c.prev[g][from] + 1  BY <4>4, <2>3, <1>16 DEF n
        <5> QED  BY <4>1, <4>2, <4>3, <5>2, <5>3, <5>4
      <4>5. CASE g # f
        <5>1. N \in SUBSET L  BY <3>1, <4>5 DEF Leading
        <5> HIDE DEF L, N
        <5>2. Cardinality(N) <= Cardinality(L)  BY <5>1, <4>1, FS_Subset
        <5>3. d.prev[g][a] = c.prev[g][from]  BY <4>5, <2>3, <1>16
        <5> QED  BY <4>1, <4>2, <4>3, <5>2, <5>3
      <4> QED  BY <4>4, <4>5
    <3> QED  BY <3>2, <3>3
  <2> QED  BY <2>2, <2>3
<1>21. Fixed(d)
  <2>1. SUFFICES ASSUME NEW a \in d.live, NEW t \in BOOLEAN, d.entries[a].links.kind # "speculative", d.entries[a].links.to[t] # NoId
                 PROVE  /\ d.entries[a].links.to[t] = JumpTarget(a, Opcode(d.entries[a]), t)
                        /\ d.entries[a].links.kind = "unchecked" => Frame(d.entries[a].links.to[t]) = Frame(a) /\ d.delay[Frame(a)] = 0
    BY DEF Fixed
  <2>2. a \in c.live /\ a \in Addr /\ d.delay = c.delay /\ Opcode(d.entries[a]) = Opcode(c.entries[a])
    BY <1>2, <1>14, <1>17 DEF Framed, Opcode
  <2>3. CASE a # from  BY <2>1, <2>2, <2>3, <1>1, <1>15 DEF Fixed
  <2>4. CASE a = from
    <3>1. d.entries[a].links = links /\ old.kind # "speculative" /\ links.kind = kind  BY <2>1, <2>4, <1>10, <1>13, <1>15
    <3>2. links.kind = "unchecked" => old.kind = "unchecked" /\ Frame(from) = f /\ c.delay[f] = 0
      BY <2>2, <2>4, <3>1, <1>9 DEF FrameOf
    <3>3. CASE links.to[t] = old.to[t]
      <4>1. old.to[t] # NoId  BY <2>1, <3>1, <3>3
      <4>2. /\ old.to[t] = JumpTarget(a, Opcode(c.entries[a]), t)
            /\ old.kind = "unchecked" => Frame(old.to[t]) = Frame(a) /\ c.delay[Frame(a)] = 0
        BY <2>2, <2>4, <3>1, <4>1, <1>1 DEF Fixed
      <4> QED  BY <2>2, <2>4, <3>1, <3>2, <3>3, <4>2
    <3>4. CASE t = taken /\ links.to[t] = to
      <4>1. to = JumpTarget(a, Opcode(c.entries[a]), t)  BY <2>2, <2>4, <3>1, <3>4 DEF Leads
      <4> QED  BY <2>2, <2>4, <3>1, <3>2, <3>4, <4>1
    <3> QED  BY <3>3, <3>4, <1>11
  <2> QED  BY <2>3, <2>4
<1>22. \A a \in d.live : Holds(d, m, a)
  <2>1. d.delay = c.delay /\ d.cached = c.cached  BY <1>14 DEF Framed
  <2>2. \A x : ByteAt(d, m, x) = ByteAt(c, m, x)  BY <2>1 DEF ByteAt
  <2>3. SUFFICES ASSUME NEW a \in d.live, NEW i \in 1 .. Len(d.entries[a].bytes)
                 PROVE  d.entries[a].bytes[i] = ByteAt(d, m, a + i - 1)
    BY DEF Holds
  <2>4. a \in c.live /\ d.entries[a].bytes = c.entries[a].bytes  BY <1>2, <1>14, <1>17
  <2>5. Holds(c, m, a)  BY <2>4, <1>1
  <2> QED  BY <2>2, <2>4, <2>5 DEF Holds
<1>23. Noted(d, cl)
  <2>1. \A g \in Frames : Mapped(d, g) = Mapped(c, g)  BY <1>14 DEF Mapped
  <2> QED  BY <2>1, <1>1, <1>14, NotedKeeps DEF Framed
<1>24. Attached(d)
  <2>1. d.delay = c.delay  BY <1>14 DEF Framed
  <2> QED  BY <2>1, <1>1, <1>2, <1>14, <1>17, AttachedKeeps
<1>25. d.tlb \subseteq d.live  BY <1>1, <1>14 DEF Framed
<1> QED  BY <1>14, <1>18, <1>19, <1>20, <1>21, <1>22, <1>23, <1>24, <1>25 DEF CacheOK, Core, d

-----------------------------------------------------------------------------
(* The requests to the page JIT, and whole lookups.                        *)

\* Only the counters of the page JIT and the TLB change.
LEMMA SameFresh ==
    ASSUME NEW s, NEW a, Fresh(s, a), NEW d \in Cache, Same(s.cache, d), d.tlb = s.cache.tlb, Noted(d, s.clean)
    PROVE  CacheOK(d, s.mem, s.clean) /\ a \in d.live /\ CurrentIn(d, s.mem, a)
<1>1. Sound(s) /\ s.cache \in Cache  BY StateFields DEF Fresh
<1>2. Core(d, s.mem) /\ Attached(d)
  <2>1. Core(s.cache, s.mem) /\ Attached(s.cache)  BY <1>1, StateFields
  <2> QED  BY <1>1, <2>1, SameKeeps
<1>3. d.tlb \subseteq d.live  BY <1>1, StateFields DEF Same
<1> QED  BY <1>2, <1>3 DEF CacheOK, Fresh, Same, CurrentIn

\* should_jit_page
LEMMA CountedDown ==
    ASSUME NEW c \in Cache, NEW f \in Frames
    PROVE  LET d == CountDownJit(c, f)
           IN  /\ d \in Cache /\ Same(c, d) /\ d.tlb = c.tlb
               /\ \A cl : Noted(c, cl) => Noted(d, cl)
<1> DEFINE n == c.jit_page_in[f] - 1
<1>1. c.jit_page_in[f] \in 0 .. JitDelay /\ JitDelay \in Nat  BY CacheFields, DelayAssumption
<1>2. JitDelay \in 0 .. JitDelay /\ (c.jit_page_in[f] # 0 => n \in 0 .. JitDelay)  BY <1>1
<1>3. \/ c.jit_page_in[f] = 0 /\ CountDownJit(c, f) = c
      \/ CountDownJit(c, f) = SetJitPageIn(c, f, JitDelay)
      \/ c.jit_page_in[f] # 0 /\ CountDownJit(c, f) = SetJitPageIn(c, f, n)
  BY DEF CountDownJit
<1> HIDE DEF n
<1>4. CASE CountDownJit(c, f) = c  BY <1>4 DEF Same
<1>5. CASE CountDownJit(c, f) = SetJitPageIn(c, f, JitDelay)  BY <1>2, <1>5, CounterSet
<1>6. CASE c.jit_page_in[f] # 0 /\ CountDownJit(c, f) = SetJitPageIn(c, f, n)  BY <1>2, <1>6, CounterSet
<1> QED  BY <1>3, <1>4, <1>5, <1>6

\* request_page_jit
LEMMA Requested ==
    ASSUME NEW s, NEW a, Fresh(s, a), QueueOK(s.queue), Len(s.queue) <= MaxQueue
    PROVE  LET r == RequestPageJit(s, Frame(a))
           IN  Fresh(r, a) /\ QueueOK(r.queue) /\ r.mem = s.mem /\ r.writes = s.writes
<1> DEFINE c        == s.cache
           f        == Frame(a)
           instr(b) == [at |-> b, bytes |-> s.cache.entries[b].bytes, env |-> s.cache.entries[b].env]
           I        == {instr(b) : b \in Mapped(s.cache, f)}
           q        == [frame |-> f, instrs |-> I]
           d        == SetJitPageIn(s.cache, f, 0)
           w        == Append(s.queue, q)
           r        == RequestPageJit(s, f)
<1>1. r = [s EXCEPT !.cache = d, !.queue = w]  BY DEF RequestPageJit
<1>2. Sound(s) /\ s \in States /\ c \in Cache /\ Whole(c) /\ c.live \subseteq Addr /\ a \in Addr /\ f \in Frames
  <2>1. Sound(s) /\ a \in c.live  BY DEF Fresh
  <2> QED  BY <2>1, StateFields, Places
<1>3. I \subseteq Instr /\ \A i \in I : Frame(i.at) = f
  <2>1. SUFFICES ASSUME NEW b \in Mapped(c, f) PROVE instr(b) \in Instr /\ Frame(instr(b).at) = f  OBVIOUS
  <2>2. b \in c.live /\ Frame(b) = f /\ b \in Addr  BY <1>2 DEF Mapped
  <2>3. c.entries[b] \in Entry /\ c.entries[b].env \in Envs  BY <2>2, <1>2, Spans DEF Whole
  <2>4. c.entries[b].bytes \in Seq(Byte)  BY <2>3, EntryFields
  <2> QED  BY <2>2, <2>3, <2>4 DEF Instr
<1> HIDE DEF I
<1>4. q \in Requests /\ InFrame(q)  BY <1>2, <1>3 DEF Requests, InFrame
<1> HIDE DEF q
<1>5. QueueOK(w)
  <2>1. s.queue \in Seq(Requests) /\ Len(s.queue) <= MaxQueue /\ MaxQueue \in Nat /\ \A n \in 1 .. Len(s.queue) : InFrame(s.queue[n])
    BY JumpAssumption DEF QueueOK
  <2>2. w \in Seq(Requests) /\ Len(w) = Len(s.queue) + 1  BY <2>1, <1>4
  <2>3. \A n \in 1 .. Len(w) : w[n] = IF n = Len(w) THEN q ELSE s.queue[n]  BY <2>1, <1>4
  <2>4. Len(s.queue) \in Nat  BY <2>1
  <2> HIDE DEF w
  <2>5. \A n \in 1 .. Len(w) : n # Len(w) => n \in 1 .. Len(s.queue)  BY <2>2, <2>4
  <2> QED  BY <2>1, <2>2, <2>3, <2>4, <2>5, <1>4 DEF QueueOK
<1> HIDE DEF w
<1>6. CacheOK(d, s.mem, s.clean) /\ a \in d.live /\ CurrentIn(d, s.mem, a) /\ d \in Cache
  <2>1. 0 \in 0 .. JitDelay  BY DelayAssumption
  <2>2. Noted(c, s.clean)  BY <1>2, StateFields
  <2>3. d \in Cache /\ Same(c, d) /\ d.tlb = c.tlb /\ Noted(d, s.clean)  BY <2>1, <2>2, <1>2, CounterSet
  <2> HIDE DEF d
  <2> QED  BY <2>3, SameFresh
<1> HIDE DEF d, r
<1>7. /\ r \in States /\ r.cache = d /\ r.queue = w /\ r.mem = s.mem /\ r.clean = s.clean /\ r.writes = s.writes /\ r.id = s.id
  <2>1. w \in Seq(Requests)  BY <1>5 DEF QueueOK
  <2> QED  BY <1>1, <1>2, <1>6, <2>1 DEF States
<1>8. s.id = a  BY DEF Fresh
<1> QED  BY <1>5, <1>6, <1>7, <1>8 DEF Fresh, Sound, r

\* page_jit_if_needed
LEMMA JitCounted ==
    ASSUME NEW s, NEW a, Fresh(s, a), QueueOK(s.queue)
    PROVE  LET r == PageJitIfNeeded(s)
           IN  Fresh(r, a) /\ QueueOK(r.queue) /\ r.mem = s.mem /\ r.writes = s.writes
<1> DEFINE f == Frame(a)
           d == CountDownJit(s.cache, f)
           t == [s EXCEPT !.cache = d]
           r == CompileIfDue(t, f)
<1>1. s.id = a /\ Sound(s) /\ a \in s.cache.live  BY DEF Fresh
<1>2. PageJitIfNeeded(s) = r  BY <1>1 DEF PageJitIfNeeded
<1>3. a \in Addr /\ f \in Frames /\ s.cache \in Cache /\ Noted(s.cache, s.clean)  BY <1>1, StateFields, Places
<1>4. d \in Cache /\ Same(s.cache, d) /\ d.tlb = s.cache.tlb /\ Noted(d, s.clean)  BY <1>3, CountedDown
<1> HIDE DEF d
<1>5. CacheOK(d, s.mem, s.clean) /\ a \in d.live /\ CurrentIn(d, s.mem, a)  BY <1>4, SameFresh
<1>6. Sound(t) /\ Alike(s, t) /\ t.id = s.id /\ t.cache = d /\ t.clean = s.clean  BY <1>1, <1>5, CacheChanged
<1> HIDE DEF t
<1>7. Fresh(t, a) /\ QueueOK(t.queue) /\ t.mem = s.mem /\ t.writes = s.writes  BY <1>1, <1>5, <1>6 DEF Fresh, Alike
<1>8. CASE t.cache.jit_page_in[f] # 1
  <2>1. r = t  BY <1>8 DEF CompileIfDue
  <2> QED  BY <1>2, <1>7, <2>1
<1>9. CASE t.cache.jit_page_in[f] = 1 /\ Len(t.queue) > MaxQueue
  <2> DEFINE e == SetJitPageIn(t.cache, f, JitDelay)
             u == [t EXCEPT !.cache = e]
  <2>1. r = u  BY <1>9 DEF CompileIfDue
  <2>2. JitDelay \in 0 .. JitDelay  BY DelayAssumption
  <2>3. t.cache \in Cache /\ Noted(t.cache, t.clean)  BY <1>6, StateFields
  <2>4. e \in Cache /\ Same(t.cache, e) /\ e.tlb = t.cache.tlb /\ Noted(e, t.clean)  BY <2>2, <2>3, <1>3, CounterSet
  <2> HIDE DEF e
  <2>5. CacheOK(e, t.mem, t.clean) /\ a \in e.live /\ CurrentIn(e, t.mem, a)  BY <2>4, <1>7, SameFresh
  <2>6. Sound(u) /\ Alike(t, u) /\ u.id = t.id /\ u.cache = e  BY <2>5, <1>6, CacheChanged
  <2> HIDE DEF u, r
  <2>7. Fresh(u, a) /\ QueueOK(u.queue) /\ u.mem = s.mem /\ u.writes = s.writes
    BY <2>5, <2>6, <1>1, <1>6, <1>7 DEF Fresh, Alike
  <2> QED  BY <2>1, <2>7, <1>2 DEF r
<1>10. CASE t.cache.jit_page_in[f] = 1 /\ ~(Len(t.queue) > MaxQueue)
  <2>1. r = RequestPageJit(t, f)  BY <1>10 DEF CompileIfDue
  <2>2. Len(t.queue) \in Nat /\ MaxQueue \in Nat  BY <1>7, JumpAssumption DEF QueueOK
  <2>3. Len(t.queue) <= MaxQueue  BY <1>10, <2>2
  <2> QED  BY <2>1, <2>3, <1>2, <1>7, Requested
<1> QED  BY <1>8, <1>9, <1>10

\* perform_cache_frame_checks
LEMMA ChecksPerformed ==
    ASSUME NEW s, Sound(s), NEW a \in s.cache.live, s.id = a, Fits(s.mem, a), NEW env \in Envs, QueueOK(s.queue)
    PROVE  LET r == PerformCacheFrameChecks(s, a, env)
           IN  Fresh(r, a) /\ QueueOK(r.queue) /\ r.mem = s.mem /\ r.writes = s.writes
<1> DEFINE flags == s.cache.checks[FrameOf(s.cache, s.id)]
           t     == IF "dirty" \in flags THEN VerifyMemory(s, a, env) ELSE s
           r     == CountIf("counters" \in flags, t)
<1>1. r = PerformCacheFrameChecks(s, a, env)  BY DEF PerformCacheFrameChecks
<1>2. a \in Addr /\ Frame(a) \in Frames /\ Core(s.cache, s.mem) /\ Noted(s.cache, s.clean)  BY StateFields, Places
<1>3. flags = s.cache.checks[Frame(a)]  BY DEF FrameOf
<1>4. "dirty" \in flags <=> s.cache.delay[Frame(a)] # 0  BY <1>2, <1>3 DEF Noted
<1> HIDE DEF flags
<1>5. Fresh(t, a) /\ Alike(s, t)
  <2>1. CASE "dirty" \in flags
    <3>1. t = VerifyMemory(s, a, env)  BY <2>1
    <3> HIDE DEF t
    <3> QED  BY <3>1, Verified
  <2>2. CASE "dirty" \notin flags
    <3>1. t = s  BY <2>2
    <3>2. CurrentIn(s.cache, s.mem, a)  BY <2>2, <1>2, <1>4, Matched
    <3> HIDE DEF t
    <3> QED  BY <3>1, <3>2 DEF Fresh, Alike
  <2> QED  BY <2>1, <2>2
<1> HIDE DEF t
<1>6. QueueOK(t.queue) /\ t.mem = s.mem /\ t.writes = s.writes  BY <1>5 DEF Alike
<1>7. CASE "counters" \in flags
  <2>1. r = PageJitIfNeeded(t)  BY <1>7 DEF CountIf
  <2> HIDE DEF r
  <2>2. Fresh(r, a) /\ QueueOK(r.queue) /\ r.mem = t.mem /\ r.writes = t.writes  BY <2>1, <1>5, <1>6, JitCounted
  <2> QED  BY <2>2, <1>1, <1>6
<1>8. CASE "counters" \notin flags
  <2>1. r = t  BY <1>8 DEF CountIf
  <2> QED  BY <2>1, <1>1, <1>5, <1>6
<1> QED  BY <1>7, <1>8

\* make_link after find_or_create_entry.
LEMMA FoundAndLinked ==
    ASSUME NEW s, Sound(s), NEW a \in Addr, Fits(s.mem, a), NEW env \in Envs,
           NEW from \in s.cache.live, NEW taken \in BOOLEAN,
           Leads(s.cache, from, a, taken), from = a => s.cache.entries[from].env = env
    PROVE  LET r == FindAndLink(s, a, env, from, taken)
           IN  Sound(r) /\ Alike(s, r) /\ r.id = a /\ a \in r.cache.live
<1> DEFINE t == FindOrCreateEntry(s, a, env)
           r == LinkFrom(t, env, from, taken)
<1>1. r = FindAndLink(s, a, env, from, taken)  BY DEF FindAndLink
<1>2. /\ Sound(t) /\ Alike(s, t) /\ t.id = a /\ a \in t.cache.live
      /\ a \in s.cache.live /\ s.cache.entries[a].env = env => t.cache.entries[a] = s.cache.entries[a]
      /\ \A b \in Addr \ {a} : Kept(s.cache.entries[b], t.cache.entries[b])
  BY SoundFound
<1> HIDE DEF t
<1>3. CASE t.cache.entries[from].env # env
  <2>1. r = t  BY <1>3 DEF LinkFrom
  <2> QED  BY <2>1, <1>1, <1>2
<1>4. CASE t.cache.entries[from].env = env
  <2> DEFINE d == AddLink(t.cache, from, a, taken)
             u == [t EXCEPT !.cache = d]
  <2>1. r = u  BY <1>2, <1>4 DEF LinkFrom, MakeLink
  <2>2. from \in Addr  BY StateFields
  <2>3. Leads(t.cache, from, a, taken)
    <3>1. CASE from = a
      <4>1. t.cache.entries[from] = s.cache.entries[from]  BY <3>1, <1>2
      <4> QED  BY <4>1 DEF Leads
    <3>2. CASE from # a
      <4>1. Kept(s.cache.entries[from], t.cache.entries[from])  BY <3>2, <2>2, <1>2
      <4> QED  BY <4>1 DEF Leads, Kept, Opcode
    <3> QED  BY <3>1, <3>2
  <2>4. CacheOK(t.cache, t.mem, t.clean)  BY <1>2 DEF Sound
  <2>5. CacheOK(d, t.mem, t.clean) /\ d.live = t.cache.live  BY <2>2, <2>3, <2>4, <1>2, LinkAdded
  <2> HIDE DEF d
  <2>6. Sound(u) /\ Alike(t, u) /\ u.id = t.id /\ u.cache = d  BY <2>5, <1>2, CacheChanged
  <2> HIDE DEF u, r
  <2>7. Sound(r) /\ Alike(s, r) /\ r.id = a /\ a \in r.cache.live  BY <2>1, <2>5, <2>6, <1>2 DEF Alike
  <2> QED  BY <2>7, <1>1
<1> QED  BY <1>3, <1>4

\* lookup_first and lookup_next_from_entry return the current instruction of the
\* program counter.
LEMMA LookedUpFirst ==
    ASSUME NEW s, Sound(s), NEW a \in Addr, Fits(s.mem, a), NEW env \in Envs
    PROVE  LET r == LookupFirst(s, a, env)
           IN  Fresh(r, a) /\ Alike(s, r)
<1> DEFINE t == FindOrCreateEntry(s, a, env)
           r == VerifyMemory(t, a, env)
<1>1. Sound(t) /\ Alike(s, t) /\ t.id = a /\ a \in t.cache.live  BY SoundFound
<1>2. r = LookupFirst(s, a, env)  BY DEF LookupFirst
<1> HIDE DEF t
<1>3. Fits(t.mem, a)  BY <1>1 DEF Alike
<1>4. Fresh(r, a) /\ Alike(t, r)  BY <1>1, <1>3, Verified
<1> HIDE DEF r
<1> QED  BY <1>1, <1>2, <1>4 DEF Alike

\* The same for the lookup from an entry: an unchecked link leads to the program
\* counter, and into a frame that is clean.
LEMMA LookedUpNext ==
    ASSUME NEW s, Sound(s), QueueOK(s.queue), NEW a \in Addr, Fits(s.mem, a), NEW env \in Envs,
           NEW from \in s.cache.live, NEW taken \in BOOLEAN,
           Leads(s.cache, from, a, taken), from = a => s.cache.entries[from].env = env
    PROVE  LET r == LookupNextFromEntry(s, a, env, from, taken)
           IN  Fresh(r, a) /\ QueueOK(r.queue) /\ r.mem = s.mem /\ r.writes = s.writes
<1> DEFINE links == s.cache.entries[from].links
           known == IF links.kind # "speculative" THEN links.to[taken]
                    ELSE IF a \in s.cache.tlb THEN a ELSE NoId
           here  == [s EXCEPT !.id = known]
           t     == IF known # NoId THEN here ELSE FindAndLink(s, a, env, from, taken)
           r     == LookupNextFromEntry(s, a, env, from, taken)
<1>1. r = IF links.kind = "unchecked" /\ known # NoId THEN here ELSE PerformCacheFrameChecks(t, a, env)
  BY DEF LookupNextFromEntry
<1>2. /\ s \in States /\ s.cache \in Cache /\ Core(s.cache, s.mem) /\ s.cache.tlb \subseteq s.cache.live
      /\ from \in Addr /\ a # NoId
  BY StateFields, Places
<1>3. known # NoId => known = a /\ a \in s.cache.live
  <2>1. CASE links.kind = "speculative"  BY <2>1, <1>2
  <2>2. CASE links.kind # "speculative" /\ known # NoId
    <3>1. known = links.to[taken]  BY <2>2
    <3>2. known = JumpTarget(from, Opcode(s.cache.entries[from]), taken)  BY <2>2, <3>1, <1>2 DEF Core, Fixed
    <3>3. known = a  BY <2>2, <3>2 DEF Leads
    <3>4. known \in Targets(s.cache.entries[from])  BY <2>2, <3>1 DEF Targets
    <3> QED  BY <3>3, <3>4, <1>2 DEF Core, Counted
  <2> QED  BY <2>1, <2>2
<1>4. links.kind = "unchecked" /\ known # NoId => s.cache.delay[Frame(a)] = 0
  <2>1. SUFFICES ASSUME links.kind = "unchecked", known # NoId PROVE s.cache.delay[Frame(a)] = 0  OBVIOUS
  <2>2. known = links.to[taken] /\ known = a  BY <2>1, <1>3
  <2> QED  BY <2>1, <2>2, <1>2 DEF Core, Fixed
<1> HIDE DEF known, links, r
<1>5. known # NoId => Sound(here) /\ Alike(s, here) /\ here.id = a /\ a \in here.cache.live /\ here.cache = s.cache
  <2>1. SUFFICES ASSUME known # NoId PROVE Sound(here) /\ Alike(s, here) /\ here.id = a /\ a \in here.cache.live /\ here.cache = s.cache
    OBVIOUS
  <2>2. here \in States /\ here.cache = s.cache /\ here.clean = s.clean /\ here.id = a /\ Alike(s, here)
    BY <2>1, <1>2, <1>3 DEF States, Alike
  <2> HIDE DEF here
  <2> QED  BY <2>1, <2>2, <1>3 DEF Sound, Alike
<1> HIDE DEF here
<1>6. CASE links.kind = "unchecked" /\ known # NoId
  <2>1. r = here  BY <1>1, <1>6
  <2>2. CurrentIn(s.cache, s.mem, a)  BY <1>2, <1>3, <1>4, <1>6, Matched
  <2>3. Fresh(here, a) /\ QueueOK(here.queue) /\ here.mem = s.mem /\ here.writes = s.writes
    BY <2>2, <1>5, <1>6 DEF Fresh, Alike
  <2> QED  BY <2>1, <2>3 DEF r
<1>7. CASE ~(links.kind = "unchecked" /\ known # NoId)
  <2>1. r = PerformCacheFrameChecks(t, a, env)  BY <1>1, <1>7
  <2>2. Sound(t) /\ Alike(s, t) /\ t.id = a /\ a \in t.cache.live
    <3>1. CASE known # NoId
      <4>1. t = here  BY <3>1
      <4> HIDE DEF t
      <4> QED  BY <3>1, <4>1, <1>5
    <3>2. CASE known = NoId
      <4>1. t = FindAndLink(s, a, env, from, taken)  BY <3>2
      <4> HIDE DEF t
      <4> QED  BY <4>1, FoundAndLinked
    <3> QED  BY <3>1, <3>2
  <2> HIDE DEF t
  <2>3. Fits(t.mem, a) /\ QueueOK(t.queue) /\ t.mem = s.mem /\ t.writes = s.writes  BY <2>2 DEF Alike
  <2>4. Fresh(r, a) /\ QueueOK(r.queue) /\ r.mem = t.mem /\ r.writes = t.writes  BY <2>1, <2>2, <2>3, ChecksPerformed
  <2> QED  BY <2>3, <2>4 DEF r
<1> QED  BY <1>6, <1>7

-----------------------------------------------------------------------------
(* Memory writes.                                                          *)

\* What a write may do to an entry: it loses its page code, its links become checked.
Writes(e, d) ==
    /\ d.env = e.env /\ d.bytes = e.bytes /\ d.code \in {e.code, {}}
    /\ d.links.kind = "speculative" <=> e.links.kind = "speculative"
    /\ d.links.to = e.links.to /\ d.links.kind \in {e.links.kind, "checked"}

\* The entry of a frame that is noticed to be dirty.
Dirtied(e) == [e EXCEPT !.code = {}, !.links.kind = IF @ = "unchecked" THEN "checked" ELSE @]

\* Its links are no longer unchecked.
LEMMA EntryDirtied ==
    ASSUME NEW e \in Entry
    PROVE  /\ Dirtied(e) \in Entry /\ Writes(e, Dirtied(e))
           /\ Dirtied(e).code = {} /\ Dirtied(e).links.kind # "unchecked"
<1> DEFINE k == IF e.links.kind = "unchecked" THEN "checked" ELSE e.links.kind
           l == [e.links EXCEPT !.kind = k]
<1>1. e.links \in Links /\ e.links.kind \in Kinds  BY EntryFields
<1>2. k \in Kinds /\ k # "unchecked" /\ (k = "speculative" <=> e.links.kind = "speculative") /\ k \in {e.links.kind, "checked"}
  BY <1>1 DEF Kinds
<1>3. Dirtied(e) = [e EXCEPT !.code = {}, !.links = l]  BY DEF Dirtied
<1> HIDE DEF k
<1>4. l \in Links /\ l.kind = k /\ l.to = e.links.to  BY <1>1, <1>2 DEF Links
<1> HIDE DEF l
<1> DEFINE d == Dirtied(e)
<1> HIDE DEF d
<1>5. d \in Entry /\ d.env = e.env /\ d.bytes = e.bytes /\ d.code = {} /\ d.links = l
  BY <1>3, <1>4 DEF Entry, d
<1>6. Writes(e, d) /\ d.links.kind # "unchecked"  BY <1>2, <1>4, <1>5 DEF Writes
<1> QED  BY <1>5, <1>6 DEF d

\* notify_memory_dirty
LEMMA FramesDirtied ==
    ASSUME NEW c, NEW m \in [Addr -> Byte], NEW cl, CacheOK(c, m, cl), NEW F \in SUBSET Frames,
           NEW co, \A f \in Frames : co[f] <=> cl[f] /\ f \notin F
    PROVE  LET d == NotifyMemoryDirty(c, m, F)
           IN  /\ CacheOK(d, m, co) /\ d.live = c.live
               /\ \A f \in F : d.delay[f] # 0
               /\ \A f \in Frames : c.delay[f] # 0 => d.delay[f] # 0
               /\ \A e \in Addr : Writes(c.entries[e], d.entries[e])
<1> DEFINE first == {f \in F : c.delay[f] = 0}
           noted == {f \in first : Mapped(c, f) # {}}
           hit(a) == a \in c.live /\ Frame(a) \in first
           E     == [a \in Addr |-> IF hit(a) THEN Dirtied(c.entries[a]) ELSE c.entries[a]]
           copy(f) == [o \in Slots |-> m[f * Size + o]]
           D     == c.dirty_code_frames \cup noted
           B     == [f \in Frames |-> IF f \in noted THEN copy(f) ELSE c.cached[f]]
           L     == [f \in Frames |-> IF f \in F THEN CleaningDelay ELSE c.delay[f]]
           K     == [f \in Frames |-> IF f \in F THEN c.checks[f] \cup {"dirty"} ELSE c.checks[f]]
           d     == NotifyMemoryDirty(c, m, F)
<1>1. d = [c EXCEPT !.entries = E, !.dirty_code_frames = D, !.cached = B, !.delay = L, !.checks = K]
  BY DEF NotifyMemoryDirty, Dirtied
<1>2. /\ c \in Cache /\ Core(c, m) /\ Noted(c, cl) /\ Attached(c) /\ c.tlb \subseteq c.live /\ Whole(c) /\ Apart(c) /\ Counted(c) /\ Fixed(c)
  BY DEF CacheOK, Core
<1>3. /\ c.entries \in [Addr -> Entry] /\ c.live \in SUBSET Addr /\ c.delay \in [Frames -> 0 .. CleaningDelay]
      /\ c.cached \in [Frames -> [Slots -> Byte] \cup {NoBytes}] /\ c.checks \in [Frames -> SUBSET {"dirty", "counters"}]
      /\ c.dirty_code_frames \in SUBSET Frames
  BY <1>2, CacheFields
<1>4. CleaningDelay \in Nat /\ CleaningDelay # 0 /\ CleaningDelay \in 0 .. CleaningDelay  BY DelayAssumption
<1>5. first \subseteq F /\ noted \subseteq first /\ \A f \in F : f \notin first => c.delay[f] # 0  OBVIOUS
<1>6. \A f \in first : c.delay[f] = 0 /\ (f \in noted <=> Mapped(c, f) # {})  OBVIOUS
<1> HIDE DEF first, noted
<1>7. \A f \in Frames : copy(f) \in [Slots -> Byte] /\ copy(f) # NoBytes
  <2>1. \A f \in Frames, o \in Slots : f * Size + o \in Addr  BY Places
  <2>2. \A f \in Frames : copy(f) \in [Slots -> Byte]  BY <2>1
  <2> HIDE DEF copy
  <2> QED  BY <2>2, FrameBytes
<1>8. \A f \in Frames, o \in Slots : copy(f)[o] = m[f * Size + o]  OBVIOUS
<1> HIDE DEF copy
<1>9. \A a \in Addr : /\ E[a] \in Entry /\ Writes(c.entries[a], E[a])
                      /\ hit(a) => E[a].code = {} /\ E[a].links.kind # "unchecked"
                      /\ ~hit(a) => E[a] = c.entries[a]
  <2>1. SUFFICES ASSUME NEW a \in Addr
                 PROVE  /\ E[a] \in Entry /\ Writes(c.entries[a], E[a])
                        /\ hit(a) => E[a].code = {} /\ E[a].links.kind # "unchecked"
                        /\ ~hit(a) => E[a] = c.entries[a]
    OBVIOUS
  <2>2. c.entries[a] \in Entry  BY <1>3
  <2>3. E[a] = IF hit(a) THEN Dirtied(c.entries[a]) ELSE c.entries[a]  OBVIOUS
  <2>4. Writes(c.entries[a], c.entries[a])  BY DEF Writes
  <2> HIDE DEF E, hit
  <2> QED  BY <2>2, <2>3, <2>4, EntryDirtied
<1>10. E \in [Addr -> Entry]
  <2>1. E = [a \in Addr |-> E[a]]  OBVIOUS
  <2> HIDE DEF E
  <2> QED  BY <2>1, <1>9
<1>11. D \in SUBSET Frames  BY <1>3, <1>5
<1>12. B \in [Frames -> [Slots -> Byte] \cup {NoBytes}]  BY <1>3, <1>7
<1>13. L \in [Frames -> 0 .. CleaningDelay]  BY <1>3, <1>4
<1>14. K \in [Frames -> SUBSET {"dirty", "counters"}]  BY <1>3
<1>15. \A f \in Frames : /\ B[f] = IF f \in noted THEN copy(f) ELSE c.cached[f]
                         /\ L[f] = IF f \in F THEN CleaningDelay ELSE c.delay[f]
                         /\ K[f] = IF f \in F THEN c.checks[f] \cup {"dirty"} ELSE c.checks[f]
  OBVIOUS
<1> HIDE DEF E, B, L, K, d
<1>16. /\ d \in Cache /\ d.entries = E /\ d.dirty_code_frames = D /\ d.cached = B /\ d.delay = L /\ d.checks = K
       /\ d.live = c.live /\ d.tlb = c.tlb /\ d.prev = c.prev /\ d.jit_page_in = c.jit_page_in
  BY <1>1, <1>2, <1>10, <1>11, <1>12, <1>13, <1>14 DEF Cache
<1> HIDE DEF D
<1>17. \A f \in Frames : /\ d.delay[f] = 0 <=> c.delay[f] = 0 /\ f \notin F
                         /\ f \notin noted => d.cached[f] = c.cached[f]
                         /\ f \in noted => d.cached[f] = copy(f)
  BY <1>4, <1>15, <1>16
<1>18. \A e \in Addr : Writes(c.entries[e], d.entries[e])  BY <1>9, <1>16
<1>19. \A a \in d.live : a \in Addr /\ a \in c.live /\ Frame(a) \in Frames  BY <1>3, <1>16, Places
<1>20. \A a \in d.live : Opcode(d.entries[a]) = Opcode(c.entries[a]) /\ End(d, a) = End(c, a)
  BY <1>18, <1>19 DEF Opcode, End, Writes
<1>21. Whole(d)
  <2>1. SUFFICES ASSUME NEW a \in d.live
                 PROVE  LET e == d.entries[a]
                        IN  /\ e.bytes # << >> /\ Len(e.bytes) = Length[Opcode(e)] /\ Offset(a) + Len(e.bytes) <= Size
                            /\ e.env \in Envs
                            /\ e.links.kind = "speculative" <=> Opcode(e) \notin Relative
    BY DEF Whole
  <2>2. a \in c.live /\ Writes(c.entries[a], d.entries[a]) /\ Opcode(d.entries[a]) = Opcode(c.entries[a])  BY <1>18, <1>19, <1>20
  <2> QED  BY <2>2, <1>2 DEF Whole, Writes
<1>22. Apart(d)  BY <1>2, <1>16, <1>20 DEF Apart
<1>23. Counted(d)
  <2>1. \A e \in Addr : Targets(d.entries[e]) = Targets(c.entries[e])  BY <1>18 DEF Targets, Writes
  <2>2. \A e \in Addr : \A f : Leading(d.entries[e], f) = Leading(c.entries[e], f)  BY <2>1 DEF Leading
  <2> QED  BY <2>1, <2>2, <1>2, <1>16 DEF Counted
<1>24. Fixed(d)
  <2>1. SUFFICES ASSUME NEW a \in d.live, NEW t \in BOOLEAN, d.entries[a].links.kind # "speculative", d.entries[a].links.to[t] # NoId
                 PROVE  /\ d.entries[a].links.to[t] = JumpTarget(a, Opcode(d.entries[a]), t)
                        /\ d.entries[a].links.kind = "unchecked" => Frame(d.entries[a].links.to[t]) = Frame(a) /\ d.delay[Frame(a)] = 0
    BY DEF Fixed
  <2>2. a \in c.live /\ a \in Addr /\ Frame(a) \in Frames /\ Writes(c.entries[a], d.entries[a])  BY <1>18, <1>19
  <2>3. d.entries[a].links.to[t] = c.entries[a].links.to[t] /\ c.entries[a].links.kind # "speculative"  BY <2>1, <2>2 DEF Writes
  <2>4. d.entries[a].links.to[t] = JumpTarget(a, Opcode(d.entries[a]), t)  BY <2>1, <2>2, <2>3, <1>2, <1>20 DEF Fixed
  <2>5. ASSUME d.entries[a].links.kind = "unchecked" PROVE Frame(d.entries[a].links.to[t]) = Frame(a) /\ d.delay[Frame(a)] = 0
    <3>1. ~hit(a)  BY <2>2, <2>5, <1>9, <1>16
    <3>2. c.entries[a].links.kind = "unchecked"  BY <2>2, <2>5, <3>1, <1>9, <1>16
    <3>3. Frame(c.entries[a].links.to[t]) = Frame(a) /\ c.delay[Frame(a)] = 0  BY <2>1, <2>2, <2>3, <3>2, <1>2 DEF Fixed
    <3>4. Frame(a) \notin F  BY <2>2, <3>1, <3>3, <1>5
    <3> QED  BY <2>2, <2>3, <3>3, <3>4, <1>17
  <2> QED  BY <2>4, <2>5
<1>25. ASSUME NEW a \in d.live PROVE Holds(d, m, a)
  <2>1. SUFFICES ASSUME NEW i \in 1 .. Len(d.entries[a].bytes) PROVE d.entries[a].bytes[i] = ByteAt(d, m, a + i - 1)  BY DEF Holds
  <2> DEFINE x == a + i - 1
  <2>2. a \in c.live /\ a \in Addr /\ Frame(a) \in Frames /\ d.entries[a].bytes = c.entries[a].bytes  BY <1>18, <1>19 DEF Writes
  <2>3. c.entries[a].bytes[i] = ByteAt(c, m, x)  BY <2>1, <2>2, <1>2 DEF Core, Holds
  <2>4. x \in Addr /\ Frame(x) = Frame(a)  BY <2>1, <2>2, <1>2, Spans
  <2> HIDE DEF x
  <2>5. ByteAt(d, m, x) = ByteAt(c, m, x)
    <3>1. CASE Frame(a) \notin F
      <4>1. Frame(a) \notin noted  BY <3>1, <1>5
      <4> QED  BY <2>2, <2>4, <3>1, <4>1, <1>17 DEF ByteAt
    <3>2. CASE Frame(a) \in F /\ Frame(a) \notin first
      <4>1. Frame(a) \notin noted /\ c.delay[Frame(a)] # 0  BY <3>2, <1>5
      <4> QED  BY <2>2, <2>4, <3>2, <4>1, <1>17 DEF ByteAt
    <3>3. CASE Frame(a) \in first
      <4>1. a \in Mapped(c, Frame(a))  BY <2>2 DEF Mapped
      <4>2. Frame(a) \in noted /\ c.delay[Frame(a)] = 0 /\ Frame(a) \in F  BY <3>3, <4>1, <1>5, <1>6
      <4>3. d.delay[Frame(a)] # 0 /\ d.cached[Frame(a)] = copy(Frame(a))  BY <2>2, <4>2, <1>17
      <4>4. Offset(x) \in Slots /\ Frame(x) * Size + Offset(x) = x  BY <2>4, Places
      <4>5. copy(Frame(x))[Offset(x)] = m[x]  BY <2>2, <2>4, <4>4, <1>8
      <4> QED  BY <2>2, <2>4, <4>2, <4>3, <4>5 DEF ByteAt
    <3> QED  BY <3>1, <3>2, <3>3
  <2> QED  BY <2>2, <2>3, <2>5 DEF x
<1>26. Core(d, m)  BY <1>16, <1>21, <1>22, <1>23, <1>24, <1>25 DEF Core
<1>27. Noted(d, co)
  <2>1. SUFFICES ASSUME NEW f \in Frames
                 PROVE  /\ d.delay[f] = 0 => d.cached[f] = NoBytes /\ f \notin d.dirty_code_frames
                        /\ d.delay[f] # 0 => /\ f \in d.dirty_code_frames <=> Mapped(d, f) # {}
                                             /\ d.cached[f] # NoBytes <=> Mapped(d, f) # {}
                        /\ ~co[f] => d.delay[f] # 0
                        /\ "dirty" \in d.checks[f] <=> d.delay[f] # 0
                        /\ "counters" \in d.checks[f] <=> d.jit_page_in[f] # 0
    BY DEF Noted
  <2>2. /\ c.delay[f] = 0 => c.cached[f] = NoBytes /\ f \notin c.dirty_code_frames
        /\ c.delay[f] # 0 => /\ f \in c.dirty_code_frames <=> Mapped(c, f) # {}
                             /\ c.cached[f] # NoBytes <=> Mapped(c, f) # {}
        /\ ~cl[f] => c.delay[f] # 0
        /\ "dirty" \in c.checks[f] <=> c.delay[f] # 0
        /\ "counters" \in c.checks[f] <=> c.jit_page_in[f] # 0
    BY <1>2 DEF Noted
  <2>3. Mapped(d, f) = Mapped(c, f)  BY <1>16 DEF Mapped
  <2>4. f \in d.dirty_code_frames <=> f \in c.dirty_code_frames \/ f \in noted  BY <1>16 DEF D
  <2>5. d.checks[f] = IF f \in F THEN c.checks[f] \cup {"dirty"} ELSE c.checks[f]  BY <1>15, <1>16
  <2>6. d.delay[f] = 0 => d.cached[f] = NoBytes /\ f \notin d.dirty_code_frames  BY <2>2, <2>4, <1>5, <1>17
  <2>7. d.delay[f] # 0 => /\ f \in d.dirty_code_frames <=> Mapped(d, f) # {}
                          /\ d.cached[f] # NoBytes <=> Mapped(d, f) # {}
    <3>1. CASE c.delay[f] # 0
      <4>1. f \notin noted  BY <3>1, <1>5, <1>6
      <4> QED  BY <2>2, <2>3, <2>4, <3>1, <4>1, <1>17
    <3>2. CASE c.delay[f] = 0 /\ f \in F
      <4>1. f \in first  BY <3>2, <1>5
      <4> QED  BY <2>2, <2>3, <2>4, <3>2, <4>1, <1>6, <1>7, <1>17
    <3>3. CASE c.delay[f] = 0 /\ f \notin F  BY <3>3, <1>17
    <3> QED  BY <3>1, <3>2, <3>3
  <2>8. ~co[f] => d.delay[f] # 0  BY <2>2, <1>17
  <2>9. "dirty" \in d.checks[f] <=> d.delay[f] # 0  BY <2>2, <2>5, <1>17
  <2>10. "counters" \in d.checks[f] <=> d.jit_page_in[f] # 0  BY <2>2, <2>5, <1>16
  <2> QED  BY <2>6, <2>7, <2>8, <2>9, <2>10
<1>28. Attached(d)
  <2>1. SUFFICES ASSUME NEW a \in d.live, d.entries[a].code # {}
                 PROVE  /\ a \in c.live /\ d.entries[a].code = c.entries[a].code
                        /\ c.delay[Frame(a)] = 0 => d.delay[Frame(a)] = 0
                        /\ \A b \in c.live : Frame(b) = Frame(a) =>
                              /\ b \in d.live
                              /\ d.entries[b].bytes = c.entries[b].bytes /\ d.entries[b].env = c.entries[b].env
    BY <1>2, AttachedKeeps
  <2>2. a \in c.live /\ a \in Addr /\ Frame(a) \in Frames /\ Writes(c.entries[a], d.entries[a])  BY <1>18, <1>19
  <2>3. ~hit(a)  BY <2>1, <2>2, <1>9, <1>16
  <2>4. d.entries[a].code = c.entries[a].code  BY <2>2, <2>3, <1>9, <1>16
  <2>5. c.delay[Frame(a)] = 0 => d.delay[Frame(a)] = 0  BY <2>2, <2>3, <1>5, <1>17
  <2>6. \A b \in c.live : b \in d.live /\ d.entries[b].bytes = c.entries[b].bytes /\ d.entries[b].env = c.entries[b].env
    BY <1>3, <1>16, <1>18 DEF Writes
  <2> QED  BY <2>2, <2>4, <2>5, <2>6
<1>29. CacheOK(d, m, co)  BY <1>2, <1>16, <1>26, <1>27, <1>28 DEF CacheOK
<1>30. \A f \in F : d.delay[f] # 0  BY <1>17
<1>31. \A f \in Frames : c.delay[f] # 0 => d.delay[f] # 0  BY <1>17
<1>32. d = NotifyMemoryDirty(c, m, F)  BY DEF d
<1> QED  BY <1>16, <1>18, <1>29, <1>30, <1>31, <1>32

\* What an instruction does to memory leaves the cache sound, and its entries where
\* they are.
Changed(s, r) ==
    /\ Sound(r) /\ r.queue = s.queue /\ r.id = s.id /\ r.cache.live = s.cache.live
    /\ \A e \in Addr : Writes(s.cache.entries[e], r.cache.entries[e])

\* mark_phys_frame_dirty on each frame of F
LEMMA DirtyMarked ==
    ASSUME NEW s, Sound(s), NEW F \in SUBSET Frames
    PROVE  LET r == MarkDirty(s, F)
           IN  /\ Changed(s, r) /\ r.mem = s.mem /\ r.writes = s.writes
               /\ \A f \in F : r.cache.delay[f] # 0
<1> DEFINE hit == {f \in F : s.clean[f]}
           co  == [f \in Frames |-> s.clean[f] /\ f \notin hit]
           d   == NotifyMemoryDirty(s.cache, s.mem, hit)
           r   == MarkDirty(s, F)
<1>1. r = [s EXCEPT !.clean = co, !.cache = d]  BY DEF MarkDirty
<1>2. /\ s \in States /\ s.mem \in [Addr -> Byte] /\ s.clean \in [Frames -> BOOLEAN] /\ Noted(s.cache, s.clean)
      /\ CacheOK(s.cache, s.mem, s.clean)
  BY StateFields DEF Sound
<1>3. hit \in SUBSET Frames /\ hit \subseteq F /\ \A f \in F : f \notin hit => ~s.clean[f]  OBVIOUS
<1> HIDE DEF hit
<1>4. co \in [Frames -> BOOLEAN] /\ \A f \in Frames : co[f] <=> s.clean[f] /\ f \notin hit  BY <1>2
<1> HIDE DEF co
<1>5. /\ CacheOK(d, s.mem, co) /\ d.live = s.cache.live
      /\ \A f \in hit : d.delay[f] # 0
      /\ \A f \in Frames : s.cache.delay[f] # 0 => d.delay[f] # 0
      /\ \A e \in Addr : Writes(s.cache.entries[e], d.entries[e])
  BY <1>2, <1>3, <1>4, FramesDirtied
<1> HIDE DEF d, r
<1>6. d \in Cache  BY <1>5 DEF CacheOK, Core
<1>7. /\ r \in States /\ r.cache = d /\ r.clean = co /\ r.mem = s.mem /\ r.queue = s.queue /\ r.id = s.id /\ r.writes = s.writes
  BY <1>1, <1>2, <1>4, <1>6 DEF States
<1>8. ASSUME NEW f \in F PROVE d.delay[f] # 0
  <2>1. CASE f \in hit  BY <2>1, <1>5
  <2>2. CASE f \notin hit  BY <2>2, <1>2, <1>3, <1>5 DEF Noted
  <2> QED  BY <2>1, <2>2
<1> QED  BY <1>5, <1>7, <1>8 DEF Changed, Sound, r

\* Bytes of dirty frames may be overwritten, and bytes outside every entry.
LEMMA Overwritten ==
    ASSUME NEW m, NEW c, Core(c, m), NEW n,
           \A x \in Addr : n[x] = m[x] \/ c.delay[Frame(x)] # 0
                           \/ \A b \in c.live : ~(b <= x /\ x < End(c, b))
    PROVE  Core(c, n)
<1>1. SUFFICES ASSUME NEW a \in c.live, NEW i \in 1 .. Len(c.entries[a].bytes)
               PROVE  c.entries[a].bytes[i] = ByteAt(c, n, a + i - 1)
  BY DEF Core, Holds
<1> DEFINE x == a + i - 1
<1>2. c \in Cache /\ Whole(c) /\ c.entries[a].bytes[i] = ByteAt(c, m, x)  BY DEF Core, Holds
<1>3. x \in Addr /\ a <= x /\ x < End(c, a)  BY <1>2, Spans
<1> HIDE DEF x
<1>4. n[x] = m[x] \/ c.delay[Frame(x)] # 0  BY <1>3
<1> QED  BY <1>2, <1>4 DEF ByteAt, x

\* The write itself.
LEMMA Stored ==
    ASSUME NEW s, NEW r, Changed(s, r), NEW a, NEW len, NEW b \in Byte,
           \A x \in Addr : x \in a .. a + len - 1 =>
              r.cache.delay[Frame(x)] # 0 \/ \A e \in r.cache.live : ~(e <= x /\ x < End(r.cache, e))
    PROVE  Changed(s, Store(r, a, len, b))
<1> DEFINE n == [x \in Addr |-> IF x \in a .. a + len - 1 THEN b ELSE r.mem[x]]
           w == r.writes + 1
           t == Store(r, a, len, b)
<1>1. t = [r EXCEPT !.mem = n, !.writes = w]  BY DEF Store
<1>2. /\ Sound(r) /\ r \in States /\ r.mem \in [Addr -> Byte] /\ Core(r.cache, r.mem) /\ CacheOK(r.cache, r.mem, r.clean)
      /\ w \in Nat
  BY StateFields DEF Changed, Sound
<1>3. n \in [Addr -> Byte] /\ \A x \in Addr : n[x] = r.mem[x] \/ x \in a .. a + len - 1  BY <1>2
<1> HIDE DEF n, w, t
<1>4. Core(r.cache, n)  BY <1>2, <1>3, Overwritten
<1>5. t \in States /\ t.mem = n /\ t.cache = r.cache /\ t.clean = r.clean /\ t.queue = r.queue /\ t.id = r.id
  BY <1>1, <1>2, <1>3 DEF States
<1>6. Sound(t)  BY <1>2, <1>4, <1>5 DEF Sound, CacheOK
<1> QED  BY <1>5, <1>6 DEF Changed, t

\* A write of the guest.
LEMMA GuestWritten ==
    ASSUME NEW s, Sound(s), NEW a \in Addr, NEW len \in Nat, Offset(a) + len <= Size, NEW b \in Byte
    PROVE  Changed(s, GuestWrite(s, a, len, b))
<1>1. /\ Frame(a) \in Frames /\ s.cache \in Cache /\ Whole(s.cache) /\ a \in Nat /\ Offset(a) \in Nat /\ Size \in Nat
      /\ s.cache.live \subseteq Addr
  BY Places, StateFields DEF Slots
<1>2. \A x \in Addr : x \in a .. a + len - 1 => Frame(x) = Frame(a)
  <2>1. SUFFICES ASSUME NEW x \in Addr, x \in a .. a + len - 1 PROVE Frame(x) = Frame(a)  OBVIOUS
  <2>2. x - a \in Nat /\ Offset(a) + (x - a) < Size /\ a + (x - a) = x  BY <2>1, <1>1, Places
  <2> QED  BY <2>2, Along
<1>3. CASE s.clean[Frame(a)] /\ DoNotMark(s.cache, a, len)
  <2>1. GuestWrite(s, a, len, b) = Store(s, a, len, b)  BY <1>3 DEF GuestWrite
  <2>2. Changed(s, s)
    <3>1. \A e : Writes(e, e)  BY DEF Writes
    <3> QED  BY <3>1 DEF Changed
  <2>3. ASSUME NEW x \in Addr, x \in a .. a + len - 1, NEW e \in s.cache.live PROVE ~(e <= x /\ x < End(s.cache, e))
    <3>1. SUFFICES ASSUME e <= x, x < End(s.cache, e) PROVE FALSE  OBVIOUS
    <3>2. x \in Nat  BY Places
    <3>3. Frame(x) = Frame(e) /\ e \in Nat /\ End(s.cache, e) \in Nat  BY <3>1, <3>2, <1>1, Spans
    <3>4. e \in Mapped(s.cache, Frame(a))  BY <2>3, <3>3, <1>2 DEF Mapped
    <3>5. End(s.cache, e) <= a \/ a + len <= e  BY <1>3, <3>4 DEF DoNotMark
    <3> QED  BY <2>3, <3>1, <3>2, <3>3, <3>5, <1>1
  <2> QED  BY <2>1, <2>2, <2>3, Stored
<1>4. CASE ~(s.clean[Frame(a)] /\ DoNotMark(s.cache, a, len))
  <2> DEFINE F == {Frame(a)}
             r == MarkDirty(s, F)
  <2>1. GuestWrite(s, a, len, b) = Store(r, a, len, b)  BY <1>4 DEF GuestWrite
  <2>2. F \in SUBSET Frames  BY <1>1
  <2>3. Changed(s, r) /\ \A f \in F : r.cache.delay[f] # 0  BY <2>2, DirtyMarked
  <2> HIDE DEF r
  <2>4. \A x \in Addr : x \in a .. a + len - 1 => r.cache.delay[Frame(x)] # 0  BY <2>3, <1>2
  <2>5. Changed(s, Store(r, a, len, b))  BY <2>3, <2>4, Stored
  <2> QED  BY <2>1, <2>5
<1> QED  BY <1>3, <1>4

\* The transfers mark every frame that they write.
DmaMarks ==
    \A d \in DmaSlices : \A k \in 0 .. d[2] - 1 :
        \E n \in 0 .. d[2] - 1 : n % Size = 0 /\ Frame(d[1] + n) = Frame(d[1] + k)

\* write_physical_slice
LEMMA DmaWritten ==
    ASSUME DmaMarks, NEW s, Sound(s), NEW d \in DmaSlices, NEW b \in Byte
    PROVE  Changed(s, DmaWrite(s, d[1], d[2], b))
<1> DEFINE a == d[1]
           len == d[2]
           F == {Frame(a + n) : n \in {k \in 0 .. len - 1 : k % Size = 0}}
           r == MarkDirty(s, F)
<1>1. a \in Addr /\ a \in Nat /\ len \in Nat /\ a + len <= NFrames * Size /\ NFrames * Size \in Nat
  <2>1. a \in Addr /\ len \in Nat /\ a + len <= NFrames * Size  BY WriteAssumption
  <2>2. NFrames * Size \in Nat  BY SizeAssumption
  <2> QED  BY <2>1, <2>2, Places
<1>2. \A x \in Nat : a <= x /\ x < a + len => x \in Addr  BY <1>1 DEF Addr
<1>3. F \in SUBSET Frames
  <2>1. SUFFICES ASSUME NEW n \in 0 .. len - 1 PROVE Frame(a + n) \in Frames  OBVIOUS
  <2>2. a + n \in Addr  BY <1>1, <1>2
  <2> QED  BY <2>2, Places
<1>4. \A x \in Addr : x \in a .. a + len - 1 => Frame(x) \in F
  <2>1. SUFFICES ASSUME NEW x \in Addr, x \in a .. a + len - 1 PROVE Frame(x) \in F  OBVIOUS
  <2>2. x - a \in 0 .. len - 1 /\ a + (x - a) = x  BY <2>1, <1>1, Places
  <2>3. PICK n \in 0 .. len - 1 : n % Size = 0 /\ Frame(a + n) = Frame(a + (x - a))  BY <2>2 DEF DmaMarks
  <2> QED  BY <2>2, <2>3
<1>5. DmaWrite(s, a, len, b) = Store(r, a, len, b)  BY DEF DmaWrite
<1> HIDE DEF F
<1>6. Changed(s, r) /\ \A f \in F : r.cache.delay[f] # 0  BY <1>3, DirtyMarked
<1> HIDE DEF r, a, len
<1>7. \A x \in Addr : x \in a .. a + len - 1 => r.cache.delay[Frame(x)] # 0  BY <1>4, <1>6
<1>8. Changed(s, Store(r, a, len, b))  BY <1>6, <1>7, Stored
<1> QED  BY <1>5, <1>8 DEF a, len

\* A transfer that starts at a frame marks every frame that it writes.
LEMMA AlignedMarks ==
    ASSUME \A d \in DmaSlices : d[1] % Size = 0
    PROVE  DmaMarks
<1>1. SUFFICES ASSUME NEW d \in DmaSlices, NEW k \in 0 .. d[2] - 1
               PROVE  \E n \in 0 .. d[2] - 1 : n % Size = 0 /\ Frame(d[1] + n) = Frame(d[1] + k)
  BY DEF DmaMarks
<1> DEFINE a == d[1]
           q == k \div Size
           r == k % Size
           p == a \div Size
           n == q * Size
<1>2. Size \in Nat \ {0} /\ a \in Nat /\ k \in Nat /\ d[2] \in Nat
  <2>1. a \in Addr /\ d[2] \in Nat  BY WriteAssumption
  <2> QED  BY <2>1, Places
<1>3. q \in Nat /\ r \in Nat /\ r < Size /\ k = Size * q + r  BY <1>2, Z3
<1>4. p \in Nat /\ a = Size * p
  <2>1. a % Size = 0  OBVIOUS
  <2> DEFINE t == a % Size
  <2>2. p \in Nat /\ t \in Nat /\ a = Size * p + t  BY <1>2, Z3
  <2>3. t = 0  BY <2>1
  <2> HIDE DEF p, t
  <2> QED  BY <2>2, <2>3, <1>2
<1> HIDE DEF q, r, p
<1>5. n \in Nat /\ n <= k  BY <1>2, <1>3
<1>6. \A s \in Nat \ {0}, x, y \in Nat : y < s => (s * x + y) \div s = x /\ (s * x + y) % s = y  OBVIOUS
<1>7. n % Size = 0
  <2>1. \A y \in Nat : y < Size => (Size * q + y) % Size = y  BY <1>2, <1>3, <1>6
  <2>2. (Size * q + 0) % Size = 0  BY <2>1, <1>2
  <2>3. n = Size * q + 0  BY <1>2, <1>3
  <2> QED  BY <2>2, <2>3
<1>8. (a + n) \div Size = p + q
  <2> DEFINE v == p + q
  <2>1. a + n = Size * v + 0  BY <1>2, <1>3, <1>4
  <2>2. v \in Nat  BY <1>3, <1>4
  <2> HIDE DEF v
  <2>3. (Size * v + 0) \div Size = v  BY <2>2, <1>2, <1>3, <1>6
  <2> QED  BY <2>1, <2>3 DEF v
<1>9. (a + k) \div Size = p + q
  <2> DEFINE v == p + q
  <2>1. a + k = Size * v + r  BY <1>2, <1>3, <1>4
  <2>2. v \in Nat  BY <1>3, <1>4
  <2> HIDE DEF v
  <2>3. (Size * v + r) \div Size = v  BY <2>2, <1>2, <1>3, <1>6
  <2> QED  BY <2>1, <2>3 DEF v
<1>10. n \in 0 .. d[2] - 1  BY <1>2, <1>5
<1> QED  BY <1>7, <1>8, <1>9, <1>10 DEF Frame

\* Whatever an instruction does to memory.
LEMMA EffectsKeep ==
    ASSUME DmaMarks, NEW s, Sound(s), NEW r \in Effects(s)
    PROVE  Changed(s, r)
<1>1. \/ r = s
      \/ \E x \in {y \in Writable \X WriteLens \X Byte : Offset(y[1]) + y[2] <= Size} : r = GuestWrite(s, x[1], x[2], x[3])
      \/ \E d \in DmaSlices, b \in Byte : r = DmaWrite(s, d[1], d[2], b)
  BY DEF Effects
<1>2. CASE r = s
  <2>1. \A e : Writes(e, e)  BY DEF Writes
  <2> QED  BY <2>1, <1>2 DEF Changed
<1>3. CASE \E x \in {y \in Writable \X WriteLens \X Byte : Offset(y[1]) + y[2] <= Size} : r = GuestWrite(s, x[1], x[2], x[3])
  <2>1. PICK x \in Writable \X WriteLens \X Byte : Offset(x[1]) + x[2] <= Size /\ r = GuestWrite(s, x[1], x[2], x[3])
    BY <1>3
  <2>2. x[1] \in Addr /\ x[2] \in Nat /\ x[3] \in Byte  BY WriteAssumption
  <2> QED  BY <2>1, <2>2, GuestWritten
<1>4. CASE \E d \in DmaSlices, b \in Byte : r = DmaWrite(s, d[1], d[2], b)  BY <1>4, DmaWritten
<1> QED  BY <1>1, <1>2, <1>3, <1>4

-----------------------------------------------------------------------------
(* The steps outside the lookups.                                          *)

\* Only entries change, and they keep what Core says of them.
LEMMA EntriesChanged ==
    ASSUME NEW c \in Cache, NEW E \in [Addr -> Entry],
           \A e \in Addr : Targets(E[e]) = Targets(c.entries[e]),
           \A e \in c.live : Kept(c.entries[e], E[e])
    PROVE  LET d == [c EXCEPT !.entries = E]
           IN  /\ d \in Cache /\ d.entries = E /\ d.live = c.live /\ d.tlb = c.tlb /\ d.delay = c.delay
               /\ \A m : Core(c, m) => Core(d, m)
               /\ \A cl : Noted(c, cl) => Noted(d, cl)
<1> DEFINE d == [c EXCEPT !.entries = E]
<1>1. /\ d \in Cache /\ d.entries = E /\ d.live = c.live /\ d.tlb = c.tlb /\ d.delay = c.delay /\ d.prev = c.prev
      /\ d.cached = c.cached /\ d.checks = c.checks /\ d.jit_page_in = c.jit_page_in
      /\ d.dirty_code_frames = c.dirty_code_frames
  BY DEF Cache
<1> HIDE DEF d
<1>2. ASSUME NEW m, Core(c, m) PROVE Core(d, m)
  <2>1. \A e \in Addr : \A f : Leading(d.entries[e], f) = Leading(c.entries[e], f)  BY <1>1 DEF Leading
  <2>2. Counted(d)  BY <2>1, <1>1, <1>2 DEF Core, Counted
  <2>3. \A e \in d.live : Kept(c.entries[e], d.entries[e])  BY <1>1
  <2> QED  BY <2>2, <2>3, <1>1, <1>2, CoreShrinks
<1>3. ASSUME NEW cl, Noted(c, cl) PROVE Noted(d, cl)
  <2>1. \A f \in Frames : Mapped(d, f) = Mapped(c, f)  BY <1>1 DEF Mapped
  <2> QED  BY <2>1, <1>1, <1>3, NotedKeeps
<1> QED  BY <1>1, <1>2, <1>3 DEF d

\* The instructions of released entries are forgotten.
LEMMA Forgotten ==
    ASSUME NEW c, NEW m, NEW cl, CacheOK(c, m, cl)
    PROVE  LET d == Forget(c)
           IN  /\ CacheOK(d, m, cl) /\ d.live = c.live
               /\ \A a \in c.live : d.entries[a] = c.entries[a]
<1> DEFINE blank(e) == [Blank EXCEPT !.links = e.links]
           E == [a \in Addr |-> IF a \in Addr \ c.live THEN blank(c.entries[a]) ELSE c.entries[a]]
           d == [c EXCEPT !.entries = E]
<1>1. Forget(c) = d  BY DEF Forget, Update
<1>2. /\ c \in Cache /\ Core(c, m) /\ Noted(c, cl) /\ Attached(c) /\ c.tlb \subseteq c.live /\ c.live \subseteq Addr
      /\ c.entries \in [Addr -> Entry]
  BY CacheFields DEF CacheOK, Core
<1>3. ASSUME NEW e \in Entry PROVE blank(e) \in Entry /\ blank(e).links = e.links
  <2>1. blank(e) = [env |-> NoBytes, bytes |-> << >>, code |-> {}, links |-> e.links]  BY DEF Blank, NoBytes
  <2>2. e.links \in Links /\ << >> \in Seq(Byte)  BY EntryFields
  <2> HIDE DEF blank
  <2> QED  BY <2>1, <2>2 DEF Entry
<1>4. ASSUME NEW a \in Addr
      PROVE  E[a] \in Entry /\ E[a].links = c.entries[a].links /\ (a \in c.live => E[a] = c.entries[a])
  <2>1. c.entries[a] \in Entry  BY <1>2
  <2>2. E[a] = IF a \in Addr \ c.live THEN blank(c.entries[a]) ELSE c.entries[a]  OBVIOUS
  <2> HIDE DEF E, blank
  <2> QED  BY <2>1, <2>2, <1>3
<1>5. E \in [Addr -> Entry]
  <2>1. E = [a \in Addr |-> E[a]]  OBVIOUS
  <2> HIDE DEF E
  <2> QED  BY <2>1, <1>4
<1> HIDE DEF E
<1>6. \A e \in Addr : Targets(E[e]) = Targets(c.entries[e])  BY <1>4 DEF Targets
<1>7. \A e \in c.live : Kept(c.entries[e], E[e])  BY <1>2, <1>4 DEF Kept
<1>8. /\ d \in Cache /\ d.entries = E /\ d.live = c.live /\ d.tlb = c.tlb /\ d.delay = c.delay
      /\ Core(d, m) /\ Noted(d, cl)
  BY <1>2, <1>5, <1>6, <1>7, EntriesChanged
<1> HIDE DEF d
<1>9. \A a \in c.live : d.entries[a] = c.entries[a]  BY <1>2, <1>4, <1>8
<1>10. Attached(d)  BY <1>2, <1>8, <1>9 DEF Attached
<1> QED  BY <1>1, <1>2, <1>8, <1>9, <1>10 DEF CacheOK

\* receive_compiled_chains
LEMMA CodeAttached ==
    ASSUME NEW c, NEW m, NEW cl, CacheOK(c, m, cl), NEW r \in Requests, InFrame(r), NEW export \in Exports(r),
           c.delay[r.frame] = 0,
           \A i \in r.instrs : i.at \in c.live /\ c.entries[i.at].bytes = i.bytes /\ c.entries[i.at].env = i.env
    PROVE  CacheOK(Update(c, export, LAMBDA e : [e EXCEPT !.code = r.instrs]), m, cl)
<1> DEFINE coded(e) == [e EXCEPT !.code = r.instrs]
           E == [a \in Addr |-> IF a \in export THEN coded(c.entries[a]) ELSE c.entries[a]]
           d == [c EXCEPT !.entries = E]
<1>1. Update(c, export, LAMBDA e : [e EXCEPT !.code = r.instrs]) = d  BY DEF Update
<1>2. /\ c \in Cache /\ Core(c, m) /\ Noted(c, cl) /\ Attached(c) /\ c.tlb \subseteq c.live /\ c.live \subseteq Addr
      /\ c.entries \in [Addr -> Entry] /\ r.instrs \in SUBSET Instr
  BY CacheFields DEF CacheOK, Core, Requests
<1>3. ASSUME NEW e \in Entry
      PROVE  coded(e) \in Entry /\ coded(e).links = e.links /\ coded(e).bytes = e.bytes /\ coded(e).env = e.env
             /\ coded(e).code = r.instrs
  BY <1>2 DEF Entry
<1>4. ASSUME NEW a \in Addr
      PROVE  /\ E[a] \in Entry /\ E[a].links = c.entries[a].links /\ E[a].bytes = c.entries[a].bytes
             /\ E[a].env = c.entries[a].env
             /\ E[a].code = IF a \in export THEN r.instrs ELSE c.entries[a].code
  <2>1. c.entries[a] \in Entry  BY <1>2
  <2>2. E[a] = IF a \in export THEN coded(c.entries[a]) ELSE c.entries[a]  OBVIOUS
  <2> HIDE DEF E, coded
  <2> QED  BY <2>1, <2>2, <1>3
<1>5. E \in [Addr -> Entry]
  <2>1. E = [a \in Addr |-> E[a]]  OBVIOUS
  <2> HIDE DEF E
  <2> QED  BY <2>1, <1>4
<1> HIDE DEF E
<1>6. \A e \in Addr : Targets(E[e]) = Targets(c.entries[e])  BY <1>4 DEF Targets
<1>7. \A e \in c.live : Kept(c.entries[e], E[e])  BY <1>2, <1>4 DEF Kept
<1>8. /\ d \in Cache /\ d.entries = E /\ d.live = c.live /\ d.tlb = c.tlb /\ d.delay = c.delay
      /\ Core(d, m) /\ Noted(d, cl)
  BY <1>2, <1>5, <1>6, <1>7, EntriesChanged
<1> HIDE DEF d
<1>9. Attached(d)
  <2>1. SUFFICES ASSUME NEW a \in d.live, NEW i \in d.entries[a].code
                 PROVE  /\ i.at \in d.live /\ Frame(i.at) = Frame(a) /\ d.delay[Frame(a)] = 0
                        /\ d.entries[i.at].bytes = i.bytes /\ d.entries[i.at].env = i.env
    BY DEF Attached
  <2>2. a \in c.live /\ a \in Addr  BY <1>2, <1>8
  <2>3. \A b \in c.live : d.entries[b].bytes = c.entries[b].bytes /\ d.entries[b].env = c.entries[b].env
    BY <1>2, <1>4, <1>8
  <2>4. CASE a \in export
    <3>1. i \in r.instrs  BY <2>1, <2>2, <2>4, <1>4, <1>8
    <3>2. PICK j \in r.instrs : a = j.at  BY <2>4 DEF Exports
    <3>3. Frame(i.at) = r.frame /\ Frame(a) = r.frame  BY <3>1, <3>2 DEF InFrame
    <3> QED  BY <2>3, <3>1, <3>3, <1>8
  <2>5. CASE a \notin export
    <3>1. i \in c.entries[a].code  BY <2>1, <2>2, <2>5, <1>4, <1>8
    <3> QED  BY <2>2, <2>3, <3>1, <1>2, <1>8 DEF Attached
  <2> QED  BY <2>4, <2>5
<1> QED  BY <1>1, <1>2, <1>8, <1>9 DEF CacheOK

\* clear_phys_frame
LEMMA FrameCleared ==
    ASSUME NEW c, NEW m, NEW cl, CacheOK(c, m, cl), NEW f \in Frames
    PROVE  CacheOK(ClearPhysFrame(c, f), m, cl)
<1> DEFINE A  == Mapped(c, f)
           c1 == DropEntries(c, A)
           c2 == [c1 EXCEPT !.tlb = {}]
           D  == c2.dirty_code_frames \ {f}
           B  == [c2.cached EXCEPT ![f] = NoBytes]
           c3 == IF c2.delay[f] = 0 THEN c2 ELSE [c2 EXCEPT !.cached = B, !.dirty_code_frames = D]
           d  == MarkFrameAsNeedingJit(c3, f)
<1>1. ClearPhysFrame(c, f) = d  BY DEF ClearPhysFrame, ClearTlb
<1>2. /\ c \in Cache /\ Core(c, m) /\ Noted(c, cl) /\ Attached(c) /\ Counted(c) /\ c.live \subseteq Addr
  BY CacheFields DEF CacheOK, Core
<1>3. A \in SUBSET Addr /\ \A a \in c.live : a \in A <=> Frame(a) = f  BY <1>2 DEF Mapped
<1> HIDE DEF A
<1>4. /\ c1 \in Cache /\ Counted(c1) /\ c1.live = c.live \ A /\ Framed(c, c1)
      /\ \A e \in Addr : Shrunk(c.entries[e], c1.entries[e])
  BY <1>2, <1>3, Dropped
<1> HIDE DEF c1
<1>5. {} \in SUBSET Addr  OBVIOUS
<1>6. c2 \in Cache /\ Same(c1, c2) /\ c2.tlb = {} /\ c2.checks = c.checks /\ c2.jit_page_in = c.jit_page_in
  <2>1. c2 \in Cache /\ Same(c1, c2) /\ c2.tlb = {}  BY <1>4, <1>5, TlbSet
  <2>2. c2.checks = c1.checks /\ c2.jit_page_in = c1.jit_page_in  BY <1>4 DEF Cache
  <2> HIDE DEF c2
  <2> QED  BY <2>1, <2>2, <1>4 DEF Framed
<1> HIDE DEF c2
<1>7. Core(c2, m)
  <2>1. c1.live \subseteq Addr /\ c1.live \subseteq c.live  BY <1>2, <1>4
  <2>2. \A e \in c1.live : Kept(c.entries[e], c1.entries[e])  BY <2>1, <1>4 DEF Shrunk
  <2>3. c1.delay = c.delay /\ c1.cached = c.cached  BY <1>4 DEF Framed
  <2>4. Core(c1, m)  BY <2>1, <2>2, <2>3, <1>2, <1>4, CoreShrinks
  <2> QED  BY <2>4, <1>4, <1>6, SameKeeps
<1>8. /\ c2.live = c.live \ A /\ c2.delay = c.delay /\ c2.cached = c.cached /\ c2.dirty_code_frames = c.dirty_code_frames
  BY <1>4, <1>6 DEF Same, Framed
<1>9. /\ c3 \in Cache /\ Sames(c2, c3) /\ c3.tlb = {} /\ c3.delay = c2.delay /\ c3.checks = c2.checks
      /\ c3.jit_page_in = c2.jit_page_in
      /\ \A g \in Frames \ {f} : c3.cached[g] = c2.cached[g] /\ (g \in c3.dirty_code_frames <=> g \in c2.dirty_code_frames)
      /\ c2.delay[f] = 0 => c3.cached[f] = c2.cached[f] /\ (f \in c3.dirty_code_frames <=> f \in c2.dirty_code_frames)
      /\ c2.delay[f] # 0 => c3.cached[f] = NoBytes /\ f \notin c3.dirty_code_frames
  <2>1. c2.cached \in [Frames -> [Slots -> Byte] \cup {NoBytes}] /\ c2.dirty_code_frames \in SUBSET Frames  BY <1>6, CacheFields
  <2>2. B \in [Frames -> [Slots -> Byte] \cup {NoBytes}] /\ D \in SUBSET Frames  BY <2>1
  <2>3. B[f] = NoBytes /\ \A g \in Frames \ {f} : B[g] = c2.cached[g]  BY <2>1
  <2>4. f \notin D /\ \A g \in Frames \ {f} : g \in D <=> g \in c2.dirty_code_frames  OBVIOUS
  <2> HIDE DEF B, D
  <2>5. CASE c2.delay[f] = 0
    <3>1. c3 = c2  BY <2>5
    <3> HIDE DEF c3
    <3> QED  BY <2>5, <3>1, <1>6 DEF Sames
  <2>6. CASE c2.delay[f] # 0
    <3>1. c3 = [c2 EXCEPT !.cached = B, !.dirty_code_frames = D]  BY <2>6
    <3> HIDE DEF c3
    <3>2. /\ c3 \in Cache /\ c3.entries = c2.entries /\ c3.live = c2.live /\ c3.prev = c2.prev /\ c3.tlb = c2.tlb
          /\ c3.delay = c2.delay /\ c3.checks = c2.checks /\ c3.jit_page_in = c2.jit_page_in
          /\ c3.cached = B /\ c3.dirty_code_frames = D
      BY <2>2, <3>1, <1>6 DEF Cache
    <3> QED  BY <2>3, <2>4, <2>6, <3>2, <1>6 DEF Sames
  <2> QED  BY <2>5, <2>6
<1> HIDE DEF c3
<1>10. Core(c3, m)
  <2>1. ASSUME NEW a \in c3.live PROVE Holds(c3, m, a)
    <3>1. a \in c2.live /\ Frame(a) \in Frames /\ Frame(a) # f /\ c3.entries[a].bytes = c2.entries[a].bytes
      <4>1. a \in c.live /\ a \notin A /\ a \in c2.live  BY <2>1, <1>8, <1>9 DEF Sames
      <4> QED  BY <4>1, <1>2, <1>3, <1>9, Places DEF Sames
    <3>2. Holds(c2, m, a) /\ Whole(c2)  BY <3>1, <1>7 DEF Core
    <3>3. \A i \in 1 .. Len(c2.entries[a].bytes) : Frame(a + i - 1) = Frame(a)  BY <3>1, <3>2, <1>6, Spans
    <3> QED  BY <3>1, <3>2, <3>3, <1>9 DEF Holds, ByteAt
  <2> QED  BY <2>1, <1>7, <1>9, CoreKeeps
<1>11. Noted(c3, cl)
  <2>1. SUFFICES ASSUME NEW g \in Frames
                 PROVE  /\ c3.delay[g] = 0 => c3.cached[g] = NoBytes /\ g \notin c3.dirty_code_frames
                        /\ c3.delay[g] # 0 => /\ g \in c3.dirty_code_frames <=> Mapped(c3, g) # {}
                                              /\ c3.cached[g] # NoBytes <=> Mapped(c3, g) # {}
                        /\ ~cl[g] => c3.delay[g] # 0
                        /\ "dirty" \in c3.checks[g] <=> c3.delay[g] # 0
                        /\ "counters" \in c3.checks[g] <=> c3.jit_page_in[g] # 0
    BY DEF Noted
  <2>2. /\ c.delay[g] = 0 => c.cached[g] = NoBytes /\ g \notin c.dirty_code_frames
        /\ c.delay[g] # 0 => /\ g \in c.dirty_code_frames <=> Mapped(c, g) # {}
                             /\ c.cached[g] # NoBytes <=> Mapped(c, g) # {}
        /\ ~cl[g] => c.delay[g] # 0
        /\ "dirty" \in c.checks[g] <=> c.delay[g] # 0
        /\ "counters" \in c.checks[g] <=> c.jit_page_in[g] # 0
    BY <1>2 DEF Noted
  <2>3. c3.live = c.live \ A  BY <1>8, <1>9 DEF Sames
  <2>4. c3.delay = c.delay /\ c3.checks = c.checks /\ c3.jit_page_in = c.jit_page_in  BY <1>6, <1>8, <1>9
  <2>5. CASE g = f
    <3>1. Mapped(c3, g) = {}  BY <2>3, <2>5, <1>3 DEF Mapped
    <3>2. c.delay[g] = 0 => c3.cached[g] = c.cached[g] /\ (g \in c3.dirty_code_frames <=> g \in c.dirty_code_frames)
      BY <2>5, <1>8, <1>9
    <3>3. c.delay[g] # 0 => c3.cached[g] = NoBytes /\ g \notin c3.dirty_code_frames  BY <2>5, <1>8, <1>9
    <3> QED  BY <2>2, <2>4, <3>1, <3>2, <3>3
  <2>6. CASE g # f
    <3>1. Mapped(c3, g) = Mapped(c, g)  BY <2>3, <2>6, <1>3 DEF Mapped
    <3>2. c3.cached[g] = c.cached[g] /\ (g \in c3.dirty_code_frames <=> g \in c.dirty_code_frames)  BY <2>6, <1>8, <1>9
    <3> QED  BY <2>2, <2>4, <3>1, <3>2
  <2> QED  BY <2>5, <2>6
<1>12. Attached(c3)
  <2>1. c3.live = c.live \ A /\ c3.entries = c1.entries /\ c3.delay = c.delay  BY <1>6, <1>8, <1>9 DEF Sames, Same
  <2>2. \A a \in c.live : /\ c3.entries[a].code = c.entries[a].code /\ c3.entries[a].bytes = c.entries[a].bytes
                          /\ c3.entries[a].env = c.entries[a].env
    BY <2>1, <1>2, <1>4 DEF Shrunk, Kept
  <2> QED  BY <2>1, <2>2, <1>2, <1>3, AttachedKeeps
<1>13. d \in Cache /\ Same(c3, d) /\ d.tlb = c3.tlb /\ Noted(d, cl)  BY <1>9, <1>11, Marked
<1> HIDE DEF d
<1>14. Core(d, m) /\ Attached(d)  BY <1>9, <1>10, <1>12, <1>13, SameKeeps
<1> QED  BY <1>1, <1>9, <1>13, <1>14 DEF CacheOK

\* InnerCache::clear
LEMMA CacheCleared ==
    ASSUME NEW m
    PROVE  CacheOK(EmptyCache, m, [f \in Frames |-> TRUE])
<1> DEFINE c == EmptyCache
<1>1. /\ c.entries = [a \in Addr |-> Blank] /\ c.live = {} /\ c.tlb = {} /\ c.delay = [f \in Frames |-> 0]
      /\ c.cached = [f \in Frames |-> NoBytes] /\ c.checks = [f \in Frames |-> {"counters"}]
      /\ c.jit_page_in = [f \in Frames |-> JitDelay] /\ c.prev = [f \in Frames |-> [a \in Addr |-> 0]]
      /\ c.dirty_code_frames = {}
  BY DEF EmptyCache
<1>2. Blank \in Entry /\ Blank.links.to = [t \in BOOLEAN |-> NoId]
  <2> DEFINE l == EmptyLinks("unchecked")
  <2>1. l = [kind |-> "unchecked", to |-> [t \in BOOLEAN |-> NoId]]  BY DEF EmptyLinks
  <2>2. l \in Links /\ l.to = [t \in BOOLEAN |-> NoId]  BY <2>1 DEF Links, Kinds
  <2>3. Blank = [env |-> NoBytes, bytes |-> << >>, code |-> {}, links |-> l]  BY DEF Blank, NoBytes
  <2>4. << >> \in Seq(Byte) /\ {} \in SUBSET Instr /\ NoBytes \in Envs \cup {NoBytes}  OBVIOUS
  <2> HIDE DEF l
  <2> QED  BY <2>2, <2>3, <2>4 DEF Entry
<1>3. Targets(Blank) = {}  BY <1>2 DEF Targets
<1>4. JitDelay \in Nat /\ JitDelay # 0 /\ CleaningDelay \in Nat  BY DelayAssumption
<1>5. c \in Cache
  <2>1. [a \in Addr |-> Blank] \in [Addr -> Entry]  BY <1>2
  <2>2. [f \in Frames |-> 0] \in [Frames -> 0 .. CleaningDelay]  BY <1>4
  <2>3. [f \in Frames |-> NoBytes] \in [Frames -> [Slots -> Byte] \cup {NoBytes}]  OBVIOUS
  <2>4. [f \in Frames |-> {"counters"}] \in [Frames -> SUBSET {"dirty", "counters"}]  OBVIOUS
  <2>5. [f \in Frames |-> JitDelay] \in [Frames -> 0 .. JitDelay]  BY <1>4
  <2>6. [f \in Frames |-> [a \in Addr |-> 0]] \in [Frames -> [Addr -> Nat]]  OBVIOUS
  <2> QED  BY <2>1, <2>2, <2>3, <2>4, <2>5, <2>6 DEF EmptyCache, Cache
<1> HIDE DEF c
<1>6. Counted(c)
  <2>1. \A f : Leading(Blank, f) = {}  BY <1>3 DEF Leading
  <2>2. \A f : Cardinality(Leading(Blank, f)) = 0  BY <2>1, FS_EmptySet
  <2> QED  BY <2>2, <1>1, <1>3 DEF Counted
<1>7. Core(c, m)  BY <1>1, <1>5, <1>6 DEF Core, Whole, Apart, Fixed
<1>8. Noted(c, [f \in Frames |-> TRUE])
  <2>1. \A f \in Frames : Mapped(c, f) = {}  BY <1>1 DEF Mapped
  <2> QED  BY <2>1, <1>1, <1>4 DEF Noted
<1> QED  BY <1>1, <1>7, <1>8 DEF CacheOK, Attached, c

-----------------------------------------------------------------------------
(* The steps of the run loop.                                              *)

\* Where an instruction continues.
LEMMA Continuations ==
    ASSUME NEW a \in Addr, NEW op \in Byte, NEW next \in Successors(a, op)
    PROVE  /\ next = <<next[1], next[2]>> /\ next[1] \in Addr /\ next[2] \in BOOLEAN
           /\ op \in Relative => next[1] = JumpTarget(a, op, next[2])
<1> DEFINE N == NFrames * Size
<1>1. N \in Nat \ {0}
  <2>1. \A x, y \in Nat \ {0} : x * y \in Nat \ {0}  OBVIOUS
  <2> QED  BY <2>1, SizeAssumption
<1>2. Addr = 0 .. N - 1  BY DEF Addr
<1>3. a \in Nat /\ Length[op] \in Nat /\ Delta \in Nat  BY Places, LengthAssumption, JumpAssumption
<1>4. \/ op \in Relative /\ next = <<(a + Length[op]) % N, FALSE>>
      \/ op \in Conditional /\ next = <<(a + Delta) % N, TRUE>>
      \/ op \notin Relative /\ next \in IndirectTargets \X {op \notin Handler}
  BY DEF Successors
<1>5. \A t \in BOOLEAN : JumpTarget(a, op, t) = (a + IF t THEN Delta ELSE Length[op]) % N  BY DEF JumpTarget
<1> HIDE DEF N
<1>6. \A x \in Nat : x % N \in Addr  BY <1>1, <1>2
<1>7. CASE op \in Relative /\ next = <<(a + Length[op]) % N, FALSE>>
  <2>1. a + Length[op] \in Nat  BY <1>3
  <2> QED  BY <2>1, <1>5, <1>6, <1>7
<1>8. CASE op \in Conditional /\ next = <<(a + Delta) % N, TRUE>>
  <2>1. a + Delta \in Nat  BY <1>3
  <2> QED  BY <2>1, <1>5, <1>6, <1>8
<1>9. CASE op \notin Relative /\ next \in IndirectTargets \X {op \notin Handler}
  <2>1. IndirectTargets \subseteq Addr  BY JumpAssumption
  <2> DEFINE h == op \notin Handler
  <2>2. h \in BOOLEAN  OBVIOUS
  <2>3. next \in IndirectTargets \X {h}  BY <1>9
  <2> HIDE DEF h
  <2>4. next = <<next[1], next[2]>> /\ next[1] \in IndirectTargets /\ next[2] = h  BY <2>3
  <2> QED  BY <2>1, <2>2, <2>4, <1>9
<1> QED  BY <1>4, <1>7, <1>8, <1>9

\* The state as a record.
LEMMA StateSound ==
    ASSUME IInv
    PROVE  /\ Sound(State) /\ QueueOK(State.queue) /\ State.cache = cache /\ State.mem = mem
           /\ State.clean = clean /\ State.queue = queue /\ State.writes = writes
<1> DEFINE s == State
<1>1. s = [mem |-> mem, clean |-> clean, cache |-> cache, queue |-> queue, writes |-> writes, id |-> NoId]  BY DEF State
<1>2. cache \in Cache /\ queue \in Seq(Requests) /\ QueueOK(queue)  BY DEF IInv, JitOK, QueueOK, CacheOK, Core
<1> HIDE DEF s
<1>3. /\ s \in States /\ s.cache = cache /\ s.mem = mem /\ s.clean = clean /\ s.queue = queue /\ s.writes = writes
  BY <1>1, <1>2 DEF IInv, States
<1> QED  BY <1>2, <1>3 DEF IInv, Sound, s

\* A lookup from the live entry of an instruction that has taken effect.
LEMMA Continued ==
    ASSUME IInv, DmaMarks, NEW s \in Effects(State), NEW from \in cache.live,
           NEW next \in Successors(from, Opcode(cache.entries[from])), NEW env \in Envs, Fits(s.mem, next[1]),
           from = next[1] => cache.entries[from].env = env
    PROVE  LET r == LookupNextFromEntry(s, next[1], env, from, next[2])
           IN  Fresh(r, next[1]) /\ QueueOK(r.queue)
<1> DEFINE op == Opcode(cache.entries[from])
           a  == next[1]
           t  == next[2]
<1>1. Sound(State) /\ QueueOK(State.queue) /\ State.cache = cache  BY StateSound
<1>2. Changed(State, s)  BY <1>1, EffectsKeep
<1>3. from \in Addr /\ cache \in Cache /\ Whole(cache)  BY <1>1, StateFields
<1>4. op \in Byte
  <2>1. cache.entries[from].bytes \in Seq(Byte) /\ Len(cache.entries[from].bytes) \in Nat \ {0}
    <3>1. cache.entries[from] \in Entry /\ Len(cache.entries[from].bytes) \in Nat \ {0}  BY <1>3, Spans
    <3> QED  BY <3>1, EntryFields
  <2> QED  BY <2>1 DEF Opcode
<1>5. a \in Addr /\ t \in BOOLEAN /\ (op \in Relative => a = JumpTarget(from, op, t))  BY <1>3, <1>4, Continuations
<1>6. /\ Sound(s) /\ QueueOK(s.queue) /\ from \in s.cache.live
      /\ Writes(cache.entries[from], s.cache.entries[from])
  BY <1>1, <1>2, <1>3 DEF Changed
<1>7. Opcode(s.cache.entries[from]) = op  BY <1>6 DEF Writes, Opcode
<1>8. Leads(s.cache, from, a, t)
  <2>1. Whole(s.cache)  BY <1>6, StateFields
  <2>2. s.cache.entries[from].links.kind # "speculative" => op \in Relative  BY <2>1, <1>6, <1>7 DEF Whole
  <2> QED  BY <2>2, <1>5, <1>7 DEF Leads
<1>9. from = a => s.cache.entries[from].env = env  BY <1>6 DEF Writes
<1> HIDE DEF a, t, op
<1>10. Fits(s.mem, a)  BY DEF a
<1> DEFINE r == LookupNextFromEntry(s, a, env, from, t)
<1>11. Fresh(r, a) /\ QueueOK(r.queue)  BY <1>5, <1>6, <1>8, <1>9, <1>10, LookedUpNext
<1> QED  BY <1>11 DEF a, t

\* What was found is executed next.
LEMMA FoundKeeps ==
    ASSUME IInv, NEW r, NEW a \in Addr, NEW env \in Envs, Fresh(r, a), QueueOK(r.queue), Found(r, a, env)
    PROVE  IInv'
<1> DEFINE d == Forget(r.cache)
<1>1. /\ Sound(r) /\ r.mem \in [Addr -> Byte] /\ r.clean \in [Frames -> BOOLEAN] /\ r.writes \in Nat
      /\ CacheOK(r.cache, r.mem, r.clean)
      /\ r.id = a /\ a \in r.cache.live /\ CurrentIn(r.cache, r.mem, a)
  BY StateFields DEF Fresh, Sound
<1>2. CacheOK(d, r.mem, r.clean) /\ d.live = r.cache.live /\ d.entries[a] = r.cache.entries[a]  BY <1>1, Forgotten
<1> HIDE DEF d
<1>3. /\ mem' = r.mem /\ clean' = r.clean /\ cache' = d /\ queue' = r.queue /\ writes' = r.writes
      /\ cpu' = [phase |-> "execute", pc |-> a, env |-> env, id |-> r.id] /\ results' = results
  BY DEF Found, d
<1>4. CpuOK'  BY <1>1, <1>3 DEF CpuOK
<1>5. JitOK'  BY <1>3 DEF IInv, JitOK
<1>6. FreshExecution'
  <2>1. cpu'.id = a /\ cpu'.pc = a  BY <1>1, <1>3
  <2>2. a \in cache'.live /\ cache'.entries[a].bytes = r.cache.entries[a].bytes /\ mem' = r.mem  BY <1>1, <1>2, <1>3
  <2>3. \A i \in DOMAIN cache'.entries[a].bytes : cache'.entries[a].bytes[i] = mem'[a + i - 1]
    BY <2>2, <1>1 DEF CurrentIn
  <2> QED  BY <2>1, <2>2, <2>3 DEF FreshExecution, Current
<1>7. CacheOK(cache', mem', clean')  BY <1>2, <1>3
<1> QED  BY <1>1, <1>3, <1>4, <1>5, <1>6, <1>7 DEF IInv

\* Back to run_inner.
LEMMA RestartKeeps ==
    ASSUME IInv, NEW s, Sound(s), QueueOK(s.queue), NEW a \in Addr, NEW env \in Envs, Fits(s.mem, a), Restart(s, a, env)
    PROVE  IInv'
<1>1. /\ s.mem \in [Addr -> Byte] /\ s.clean \in [Frames -> BOOLEAN] /\ s.writes \in Nat
      /\ CacheOK(s.cache, s.mem, s.clean)
  BY StateFields DEF Sound
<1>2. /\ mem' = s.mem /\ clean' = s.clean /\ cache' = s.cache /\ queue' = s.queue /\ writes' = s.writes
      /\ cpu' = [phase |-> "first", pc |-> a, env |-> env, id |-> NoId] /\ results' = results
  BY DEF Restart
<1>3. CpuOK'  BY <1>2 DEF CpuOK, Fits
<1>4. JitOK'  BY <1>2 DEF IInv, JitOK
<1>5. FreshExecution'  BY <1>2 DEF FreshExecution
<1> QED  BY <1>1, <1>2, <1>3, <1>4, <1>5 DEF IInv

\* A step that changes the cache between two lookups.
LEMMA CacheKeeps ==
    ASSUME IInv, cpu.phase = "first", CacheOK(cache', mem, clean'), clean' \in [Frames -> BOOLEAN],
           UNCHANGED <<mem, queue, cpu, writes>>, results' \subseteq results
    PROVE  IInv'
<1>1. CpuOK'  BY DEF IInv, CpuOK, Fits
<1>2. JitOK'  BY DEF IInv, JitOK
<1>3. FreshExecution'  BY DEF FreshExecution
<1> QED  BY <1>1, <1>2, <1>3 DEF IInv

\* The steps, one by one.  A single instruction:
LEMMA ExecuteSingleKeeps ==
    ASSUME IInv, DmaMarks, ExecuteSingle, ~SelfSwitch
    PROVE  IInv'
<1> DEFINE from == cpu.id
           op   == Opcode(cache.entries[from])
<1>1. cpu.phase = "execute" /\ cpu.id = cpu.pc /\ from \in cache.live /\ cpu.env \in Envs /\ cache.entries[from].code = {}
  BY DEF ExecuteSingle, IInv, FreshExecution, CpuOK
<1>2. PICK s \in Effects(State), next \in Successors(cpu.pc, op), env \in EnvAfter(op) :
        /\ Fits(s.mem, next[1])
        /\ Found(LookupNextFromEntry(s, next[1], env, cpu.id, next[2]), next[1], env)
  BY DEF ExecuteSingle
<1>3. env \in Envs  BY <1>1 DEF EnvAfter
<1>4. next \in Successors(from, op)  BY <1>1
<1>5. op \in Byte /\ from \in Addr
  <2>1. Sound(State) /\ State.cache = cache  BY StateSound
  <2>2. cache \in Cache /\ Whole(cache)  BY <2>1, StateFields
  <2>3. cache.entries[from] \in Entry /\ Len(cache.entries[from].bytes) \in Nat \ {0} /\ from \in Addr  BY <2>2, <1>1, Spans
  <2>4. cache.entries[from].bytes \in Seq(Byte)  BY <2>3, EntryFields
  <2> QED  BY <2>3, <2>4 DEF Opcode
<1>6. next = <<next[1], next[2]>> /\ next[1] \in Addr /\ next[2] \in BOOLEAN  BY <1>4, <1>5, Continuations
<1>7. cpu'.phase = "execute" /\ cpu'.pc = next[1] /\ cpu'.env = env  BY <1>2 DEF Found
<1>8. from = next[1] => cache.entries[from].env = env
  <2>1. SUFFICES ASSUME from = next[1], cache.entries[from].env # env PROVE FALSE  OBVIOUS
  <2> DEFINE i == [at |-> from, bytes |-> cache.entries[from].bytes, env |-> cache.entries[from].env]
  <2>2. i \in Executing  BY <1>1 DEF Executing
  <2>3. i.at = from /\ i.env = cache.entries[from].env /\ Opcode(i) = op  BY DEF Opcode
  <2> HIDE DEF i
  <2>4. i.at = cpu'.pc /\ i.env # cpu'.env  BY <2>1, <2>3, <1>7
  <2>5. <<i.at, next[2]>> \in Successors(i.at, Opcode(i))  BY <2>1, <2>3, <1>4, <1>6
  <2> QED  BY <2>2, <2>4, <2>5, <1>1, <1>6, <1>7 DEF SelfSwitch
<1> HIDE DEF from
<1> DEFINE r == LookupNextFromEntry(s, next[1], env, from, next[2])
<1>9. Fresh(r, next[1]) /\ QueueOK(r.queue)  BY <1>1, <1>2, <1>3, <1>4, <1>8, Continued
<1>10. Found(r, next[1], env)  BY <1>2 DEF from
<1> HIDE DEF r
<1> QED  BY <1>3, <1>6, <1>9, <1>10, FoundKeeps

\* Page code, left at some instruction of the page:
LEMMA ExecuteJittedPageKeeps ==
    ASSUME IInv, DmaMarks, ExecuteJittedPage, ~SelfSwitch
    PROVE  IInv'
<1>1. cpu.phase = "execute" /\ cpu.id \in cache.live /\ cpu.env \in Envs
  BY DEF ExecuteJittedPage, IInv, FreshExecution, CpuOK
<1>2. PICK i \in cache.entries[cpu.id].code :
        \E s \in Effects(State), next \in Successors(i.at, i.bytes[1]), env \in EnvAfter(i.bytes[1]) :
             /\ Fits(s.mem, next[1])
             /\ IF s.cache.entries[cpu.id].code = {} THEN Restart(s, next[1], env)
                ELSE Found(LookupNextFromEntry(s, next[1], env, i.at, next[2]), next[1], env)
  BY DEF ExecuteJittedPage
<1>3. PICK s \in Effects(State), next \in Successors(i.at, i.bytes[1]), env \in EnvAfter(i.bytes[1]) :
             /\ Fits(s.mem, next[1])
             /\ IF s.cache.entries[cpu.id].code = {} THEN Restart(s, next[1], env)
                ELSE Found(LookupNextFromEntry(s, next[1], env, i.at, next[2]), next[1], env)
  BY <1>2
<1> DEFINE from == i.at
           op   == Opcode(cache.entries[from])
<1>4. Sound(State) /\ QueueOK(State.queue) /\ State.cache = cache  BY StateSound
<1>5. from \in cache.live /\ cache.entries[from].bytes = i.bytes /\ cache.entries[from].env = i.env
  <2>1. Attached(cache)  BY <1>4, StateFields
  <2> QED  BY <2>1, <1>1, <1>2 DEF Attached
<1>6. op = i.bytes[1] /\ op \in Byte /\ from \in Addr
  <2>1. cache \in Cache /\ Whole(cache)  BY <1>4, StateFields
  <2>2. cache.entries[from] \in Entry /\ Len(cache.entries[from].bytes) \in Nat \ {0} /\ from \in Addr  BY <2>1, <1>5, Spans
  <2>3. cache.entries[from].bytes \in Seq(Byte)  BY <2>2, EntryFields
  <2> QED  BY <2>2, <2>3, <1>5 DEF Opcode
<1>7. env \in Envs  BY <1>1, <1>3 DEF EnvAfter
<1>8. next \in Successors(from, op)  BY <1>3, <1>6
<1> HIDE DEF op
<1>9. next = <<next[1], next[2]>> /\ next[1] \in Addr /\ next[2] \in BOOLEAN  BY <1>6, <1>8, Continuations
<1>10. CASE s.cache.entries[cpu.id].code = {}
  <2>1. Restart(s, next[1], env) /\ Fits(s.mem, next[1])  BY <1>3, <1>10
  <2>2. Sound(s) /\ QueueOK(s.queue)
    <3>1. Changed(State, s)  BY <1>3, <1>4, EffectsKeep
    <3> QED  BY <3>1, <1>4 DEF Changed
  <2> QED  BY <2>1, <2>2, <1>7, <1>9, RestartKeeps
<1>11. CASE s.cache.entries[cpu.id].code # {}
  <2> DEFINE r == LookupNextFromEntry(s, next[1], env, from, next[2])
  <2>1. Found(r, next[1], env) /\ Fits(s.mem, next[1])  BY <1>3, <1>11
  <2>2. cpu'.phase = "execute" /\ cpu'.pc = next[1] /\ cpu'.env = env  BY <2>1 DEF Found
  <2>3. from = next[1] => cache.entries[from].env = env
    <3>1. SUFFICES ASSUME from = next[1], cache.entries[from].env # env PROVE FALSE  OBVIOUS
    <3>2. i \in Executing  BY <1>2 DEF Executing
    <3>3. i.at = cpu'.pc /\ i.env # cpu'.env  BY <3>1, <2>2, <1>5
    <3>4. <<i.at, next[2]>> \in Successors(i.at, Opcode(i))  BY <3>1, <1>3, <1>9 DEF Opcode
    <3> QED  BY <3>2, <3>3, <3>4, <2>2, <1>1, <1>9 DEF SelfSwitch
  <2>4. next \in Successors(from, Opcode(cache.entries[from]))  BY <1>8 DEF op
  <2> HIDE DEF from
  <2>5. Fresh(r, next[1]) /\ QueueOK(r.queue)  BY <2>1, <2>3, <2>4, <1>3, <1>5, <1>7, Continued
  <2> HIDE DEF r
  <2> QED  BY <2>1, <2>5, <1>7, <1>9, FoundKeeps
<1> QED  BY <1>10, <1>11

\* The first lookup:
LEMMA DoLookupFirstKeeps ==
    ASSUME IInv, DoLookupFirst
    PROVE  IInv'
<1> DEFINE r == LookupFirst(State, cpu.pc, cpu.env)
<1>1. cpu.phase = "first" /\ cpu.pc \in Addr /\ cpu.env \in Envs /\ Fits(mem, cpu.pc)  BY DEF DoLookupFirst, IInv, CpuOK
<1>2. Sound(State) /\ QueueOK(State.queue) /\ State.mem = mem  BY StateSound
<1>3. Fits(State.mem, cpu.pc)  BY <1>1, <1>2
<1>4. Fresh(r, cpu.pc) /\ Alike(State, r)  BY <1>1, <1>2, <1>3, LookedUpFirst
<1>5. Found(r, cpu.pc, cpu.env)  BY DEF DoLookupFirst
<1> HIDE DEF r
<1>6. QueueOK(r.queue)  BY <1>2, <1>4 DEF Alike
<1> QED  BY <1>1, <1>4, <1>5, <1>6, FoundKeeps

\* An interrupt, an exception or a pause:
LEMMA InterruptKeeps ==
    ASSUME IInv, Interrupt
    PROVE  IInv'
<1>1. PICK a \in EntryPoints \cup {cpu.pc}, env \in Envs : Fits(mem, a) /\ Restart(State, a, env)  BY DEF Interrupt
<1>2. a \in Addr  BY <1>1, JumpAssumption DEF IInv, CpuOK
<1>3. Sound(State) /\ QueueOK(State.queue) /\ State.mem = mem  BY StateSound
<1>4. Fits(State.mem, a)  BY <1>1, <1>3
<1> QED  BY <1>1, <1>2, <1>3, <1>4, RestartKeeps

\* prune_old_dirty_frames:
LEMMA PruneKeeps ==
    ASSUME IInv, PruneOldDirtyFrames
    PROVE  IInv'
<1>1. PICK f \in cache.dirty_code_frames : cache' = Forget(ClearPhysFrame(cache, f))  BY DEF PruneOldDirtyFrames
<1>2. CacheOK(cache, mem, clean) /\ cache \in Cache  BY DEF IInv, CacheOK, Core
<1>3. f \in Frames  BY <1>1, <1>2, CacheFields
<1>4. CacheOK(ClearPhysFrame(cache, f), mem, clean)  BY <1>2, <1>3, FrameCleared
<1>5. CacheOK(cache', mem, clean)  BY <1>1, <1>4, Forgotten
<1>6. cpu.phase = "first" /\ UNCHANGED <<mem, clean, queue, results, cpu, writes>>  BY DEF PruneOldDirtyFrames
<1>7. clean \in [Frames -> BOOLEAN]  BY DEF IInv
<1> QED  BY <1>5, <1>6, <1>7, CacheKeeps

\* receive_compiled_chains:
LEMMA ReceiveKeeps ==
    ASSUME IInv, ReceiveCompiledChains
    PROVE  IInv'
<1> DEFINE current(i) == i.at \in cache.live /\ cache.entries[i.at].bytes = i.bytes /\ cache.entries[i.at].env = i.env
           ok(r) == cache.delay[r.frame] = 0 /\ \A i \in r.instrs : current(i)
<1>1. PICK r \in results : \E export \in Exports(r) :
        /\ results' = results \ {r}
        /\ cache' = IF ok(r) THEN Update(cache, export, LAMBDA e : [e EXCEPT !.code = r.instrs]) ELSE cache
  BY DEF ReceiveCompiledChains
<1>2. PICK export \in Exports(r) :
        /\ results' = results \ {r}
        /\ cache' = IF ok(r) THEN Update(cache, export, LAMBDA e : [e EXCEPT !.code = r.instrs]) ELSE cache
  BY <1>1
<1>3. CacheOK(cache, mem, clean) /\ clean \in [Frames -> BOOLEAN] /\ r \in Requests /\ InFrame(r)  BY DEF IInv, JitOK
<1>4. CacheOK(cache', mem, clean)
  <2>1. CASE ok(r)
    <3> DEFINE d == Update(cache, export, LAMBDA e : [e EXCEPT !.code = r.instrs])
    <3>1. cache' = d  BY <2>1, <1>2
    <3>2. CacheOK(d, mem, clean)  BY <2>1, <1>3, CodeAttached
    <3> HIDE DEF d
    <3> QED  BY <3>1, <3>2
  <2>2. CASE ~ok(r)
    <3>1. cache' = cache  BY <2>2, <1>2
    <3> QED  BY <3>1, <1>3
  <2> QED  BY <2>1, <2>2
<1>5. cpu.phase = "first" /\ UNCHANGED <<mem, clean, queue, cpu, writes>>  BY DEF ReceiveCompiledChains
<1>6. results' \subseteq results  BY <1>2
<1> QED  BY <1>3, <1>4, <1>5, <1>6, CacheKeeps

\* Ev::ClearCaches:
LEMMA ClearKeeps ==
    ASSUME IInv, ClearCaches
    PROVE  IInv'
<1>1. /\ cpu.phase = "first" /\ cache' = EmptyCache /\ clean' = [f \in Frames |-> TRUE]
      /\ UNCHANGED <<mem, queue, results, cpu, writes>>
  BY DEF ClearCaches
<1>2. CacheOK(cache', mem, clean')  BY <1>1, CacheCleared
<1>3. clean' \in [Frames -> BOOLEAN]  BY <1>1
<1> QED  BY <1>1, <1>2, <1>3, CacheKeeps

\* A compile thread:
LEMMA CompileKeeps ==
    ASSUME IInv, Compile
    PROVE  IInv'
<1>1. /\ queue # << >> /\ results' = results \cup {Head(queue)} /\ queue' = Tail(queue)
      /\ UNCHANGED <<mem, clean, cache, cpu, writes>>
  BY DEF Compile
<1>2. QueueOK(queue) /\ results \subseteq Requests /\ \A r \in results : InFrame(r)  BY DEF IInv, JitOK
<1>3. /\ Head(queue) \in Requests /\ Head(queue) = queue[1] /\ Tail(queue) \in Seq(Requests)
      /\ Len(queue) \in Nat \ {0} /\ Len(Tail(queue)) = Len(queue) - 1
      /\ \A n \in 1 .. Len(queue) - 1 : Tail(queue)[n] = queue[n + 1]
  BY <1>1, <1>2 DEF QueueOK
<1>4. InFrame(Head(queue))  BY <1>2, <1>3 DEF QueueOK
<1>5. QueueOK(Tail(queue))
  <2> DEFINE q == Tail(queue)
  <2>1. q \in Seq(Requests) /\ Len(q) = Len(queue) - 1 /\ \A n \in 1 .. Len(queue) - 1 : q[n] = queue[n + 1]  BY <1>3
  <2> HIDE DEF q
  <2>2. Len(q) <= MaxQueue + 1  BY <2>1, <1>2, <1>3, JumpAssumption DEF QueueOK
  <2>3. \A n \in 1 .. Len(q) : InFrame(q[n])  BY <2>1, <1>2, <1>3 DEF QueueOK
  <2> QED  BY <2>1, <2>2, <2>3 DEF QueueOK, q
<1>6. JitOK'  BY <1>1, <1>2, <1>3, <1>4, <1>5 DEF JitOK
<1>7. CpuOK' /\ FreshExecution'  BY <1>1 DEF IInv, CpuOK, Fits, FreshExecution, Current
<1> QED  BY <1>1, <1>6, <1>7 DEF IInv

-----------------------------------------------------------------------------
(* The theorems.                                                           *)

\* Every step keeps the invariant, but for the one that SelfSwitch excludes.
LEMMA NextKeeps ==
    ASSUME IInv, DmaMarks, Next, ~SelfSwitch
    PROVE  IInv'
BY DoLookupFirstKeeps, ExecuteSingleKeeps, ExecuteJittedPageKeeps, InterruptKeeps, PruneKeeps, ReceiveKeeps,
   ClearKeeps, CompileKeeps DEF Next

\* With one environment no step switches it.
OneEnvironment == \A e, f \in Envs : e = f

\* Then no step continues at its own instruction for another one.
LEMMA NeverSwitched ==
    ASSUME IInv, OneEnvironment, Next
    PROVE  ~SelfSwitch
<1>1. SUFFICES ASSUME SelfSwitch PROVE FALSE  OBVIOUS
<1>2. PICK i \in Executing : i.at = cpu'.pc /\ i.env # cpu'.env  BY <1>1 DEF SelfSwitch
<1>3. cpu.phase = "execute" /\ cpu'.phase = "execute" /\ cpu.id \in cache.live  BY <1>1 DEF SelfSwitch, IInv, FreshExecution
<1>4. Whole(cache) /\ Attached(cache)
  <2>1. Sound(State) /\ State.cache = cache  BY StateSound
  <2> QED  BY <2>1, StateFields
<1>5. i.env \in Envs
  <2>1. CASE cache.entries[cpu.id].code # {}
    <3>1. i \in cache.entries[cpu.id].code  BY <2>1, <1>2 DEF Executing
    <3>2. i.at \in cache.live /\ cache.entries[i.at].env = i.env  BY <3>1, <1>3, <1>4 DEF Attached
    <3> QED  BY <3>2, <1>4 DEF Whole
  <2>2. CASE cache.entries[cpu.id].code = {}
    <3>1. i.env = cache.entries[cpu.id].env  BY <2>2, <1>2 DEF Executing
    <3> QED  BY <3>1, <1>3, <1>4 DEF Whole
  <2> QED  BY <2>1, <2>2
<1>6. cpu.env \in Envs  BY DEF IInv, CpuOK
<1>7. cpu'.env \in Envs
  <2>1. CASE ExecuteSingle
    <3>1. PICK s \in Effects(State), next \in Successors(cpu.pc, Opcode(cache.entries[cpu.id])),
               env \in EnvAfter(Opcode(cache.entries[cpu.id])) :
            Found(LookupNextFromEntry(s, next[1], env, cpu.id, next[2]), next[1], env)
      BY <2>1 DEF ExecuteSingle
    <3>2. env \in Envs  BY <1>6 DEF EnvAfter
    <3>3. cpu'.env = env  BY <3>1 DEF Found
    <3> QED  BY <3>2, <3>3
  <2>2. CASE ExecuteJittedPage
    <3>1. PICK j \in cache.entries[cpu.id].code :
            \E s \in Effects(State), next \in Successors(j.at, j.bytes[1]), env \in EnvAfter(j.bytes[1]) :
               IF s.cache.entries[cpu.id].code = {} THEN Restart(s, next[1], env)
               ELSE Found(LookupNextFromEntry(s, next[1], env, j.at, next[2]), next[1], env)
      BY <2>2 DEF ExecuteJittedPage
    <3>2. PICK s \in Effects(State), next \in Successors(j.at, j.bytes[1]), env \in EnvAfter(j.bytes[1]) :
               IF s.cache.entries[cpu.id].code = {} THEN Restart(s, next[1], env)
               ELSE Found(LookupNextFromEntry(s, next[1], env, j.at, next[2]), next[1], env)
      BY <3>1
    <3>3. env \in Envs  BY <1>6 DEF EnvAfter
    <3>4. cpu'.env = env  BY <3>2 DEF Found, Restart
    <3> QED  BY <3>3, <3>4
  <2>3. CASE Interrupt
    <3>1. cpu'.phase = "first"  BY <2>3 DEF Interrupt, Restart
    <3> QED  BY <3>1, <1>3
  <2>4. CASE DoLookupFirst \/ PruneOldDirtyFrames \/ ReceiveCompiledChains \/ ClearCaches
    <3>1. cpu.phase = "first"  BY <2>4 DEF DoLookupFirst, PruneOldDirtyFrames, ReceiveCompiledChains, ClearCaches
    <3> QED  BY <3>1, <1>3
  <2>5. CASE Compile
    <3>1. cpu' = cpu  BY <2>5 DEF Compile
    <3> QED  BY <3>1, <1>6
  <2> QED  BY <2>1, <2>2, <2>3, <2>4, <2>5 DEF Next
<1> QED  BY <1>2, <1>5, <1>7 DEF OneEnvironment

\* At power-on.
LEMMA InitHolds ==
    ASSUME Init
    PROVE  IInv
<1>1. /\ mem \in [Addr -> Byte] /\ clean = [f \in Frames |-> TRUE] /\ cache = EmptyCache /\ queue = << >> /\ results = {} /\ writes = 0
  BY InitMemAssumption DEF Init
<1>2. PICK env \in Envs, a \in EntryPoints : Fits(mem, a) /\ cpu = [phase |-> "first", pc |-> a, env |-> env, id |-> NoId]
  BY DEF Init
<1>3. a \in Addr  BY JumpAssumption
<1>4. CpuOK  BY <1>2, <1>3 DEF CpuOK
<1>5. JitOK
  <2>1. queue \in Seq(Requests) /\ Len(queue) = 0 /\ MaxQueue \in Nat  BY <1>1, JumpAssumption
  <2>2. QueueOK(queue)  BY <2>1 DEF QueueOK
  <2> QED  BY <2>2, <1>1 DEF JitOK
<1>6. CacheOK(cache, mem, clean)  BY <1>1, CacheCleared
<1>7. FreshExecution  BY <1>2 DEF FreshExecution
<1>8. clean \in [Frames -> BOOLEAN] /\ writes \in Nat  BY <1>1
<1> QED  BY <1>1, <1>4, <1>5, <1>6, <1>7, <1>8 DEF IInv

\* A step that leaves every variable as it is.
LEMMA StutterKeeps ==
    ASSUME IInv, UNCHANGED vars
    PROVE  IInv'
<1>1. /\ mem' = mem /\ clean' = clean /\ cache' = cache /\ queue' = queue /\ results' = results /\ cpu' = cpu /\ writes' = writes
  BY DEF vars
<1>2. CpuOK' /\ JitOK' /\ FreshExecution'  BY <1>1 DEF IInv, CpuOK, JitOK, Fits, FreshExecution, Current
<1> QED  BY <1>1, <1>2 DEF IInv

\* The inductive invariant implies the properties.
LEMMA InvariantImplies ==
    ASSUME IInv
    PROVE  TypeOK /\ FreshExecution /\ JitCodeCurrent /\ CacheConsistent /\ CleanFramesCurrent
<1>1. /\ Core(cache, mem) /\ Noted(cache, clean) /\ Attached(cache) /\ cache.tlb \subseteq cache.live
      /\ cache \in Cache /\ Whole(cache) /\ Apart(cache) /\ Counted(cache) /\ cache.live \subseteq Addr
  BY CacheFields DEF IInv, CacheOK, Core
<1>2. \A a \in cache.live : Frame(a) \in Frames /\ (cache.delay[Frame(a)] = 0 => CurrentIn(cache, mem, a))
  BY <1>1, Matched, Places
<1>3. \A a : CurrentIn(cache, mem, a) <=> Current(a)  BY DEF CurrentIn, Current
<1>4. TypeOK
  <2>1. /\ cache.delay \in [Frames -> 0 .. CleaningDelay] /\ cache.jit_page_in \in [Frames -> 0 .. JitDelay]
        /\ cache.prev \in [Frames -> [Addr -> Nat]] /\ cache.dirty_code_frames \in SUBSET Frames
    BY <1>1, CacheFields
  <2>2. cpu.phase \in {"first", "execute"} /\ cpu.pc \in Addr /\ cpu.env \in Envs /\ cpu.id \in Addr \cup {NoId}
    BY DEF IInv, CpuOK
  <2>3. mem \in [Addr -> Byte] /\ clean \in [Frames -> BOOLEAN] /\ Len(queue) <= MaxQueue + 1  BY DEF IInv, JitOK, QueueOK
  <2> QED  BY <2>1, <2>2, <2>3, <1>1 DEF TypeOK
<1>5. FreshExecution  BY DEF IInv
<1>6. JitCodeCurrent
  <2>1. SUFFICES ASSUME NEW a \in cache.live, NEW i \in cache.entries[a].code
                 PROVE  /\ cache.delay[Frame(i.at)] = 0 /\ i.at \in cache.live
                        /\ cache.entries[i.at].bytes = i.bytes /\ Current(i.at)
    BY DEF JitCodeCurrent
  <2>2. i.at \in cache.live /\ cache.delay[Frame(i.at)] = 0 /\ cache.entries[i.at].bytes = i.bytes  BY <2>1, <1>1 DEF Attached
  <2> QED  BY <2>2, <1>2, <1>3
<1>7. CleanFramesCurrent  BY <1>2, <1>3 DEF CleanFramesCurrent
<1>8. LinksTracked
  <2>1. SUFFICES ASSUME NEW a \in Addr, NEW t \in BOOLEAN, cache.entries[a].links.to[t] # NoId
                 PROVE  cache.entries[a].links.to[t] \in cache.live /\ cache.prev[Frame(cache.entries[a].links.to[t])][a] > 0
    BY <1>1 DEF LinksTracked
  <2> DEFINE e  == cache.entries[a]
             to == e.links.to[t]
             f  == Frame(to)
  <2>2. to \in Targets(e)  BY <2>1 DEF Targets
  <2>3. e \in Entry
    <3>1. cache.entries \in [Addr -> Entry]  BY <1>1, CacheFields
    <3> QED  BY <3>1
  <2>4. to \in Addr /\ to \in cache.live  BY <2>2, <1>1 DEF Counted
  <2>5. f \in Frames /\ to \in Leading(e, f)  BY <2>2, <2>4, Places DEF Leading
  <2>6. cache.prev[f][a] \in Nat
    <3>1. cache.prev \in [Frames -> [Addr -> Nat]]  BY <1>1, CacheFields
    <3> QED  BY <2>5, <3>1
  <2>7. Cardinality(Leading(e, f)) <= cache.prev[f][a]  BY <2>5, <1>1 DEF Counted
  <2> HIDE DEF e, f
  <2>8. IsFiniteSet(Leading(e, f)) /\ Cardinality(Leading(e, f)) \in Nat  BY <2>3, FewTargets
  <2>9. Cardinality(Leading(e, f)) # 0  BY <2>5, <2>8, FS_EmptySet
  <2>10. cache.prev[f][a] > 0  BY <2>6, <2>7, <2>8, <2>9
  <2> QED  BY <2>4, <2>10 DEF f, e
<1>9. NoOverlap
  <2>1. SUFFICES ASSUME NEW a \in cache.live, NEW b \in cache.live, a < b, b < End(cache, a) PROVE FALSE  BY DEF NoOverlap, Covered
  <2>2. End(cache, a) <= b  BY <2>1, <1>1 DEF Apart
  <2>3. b \in Nat /\ End(cache, a) \in Nat  BY <1>1, Spans
  <2> QED  BY <2>1, <2>2, <2>3
<1>10. DirtyFramesTracked  BY <1>1 DEF DirtyFramesTracked, Noted
<1> QED  BY <1>4, <1>5, <1>6, <1>7, <1>8, <1>9, <1>10 DEF CacheConsistent

\* With transfers that mark what they write, and but for the step that SelfSwitch
\* describes, the invariant holds in every state: whatever the guest writes, wherever
\* it jumps and whenever compiled pages arrive.
THEOREM InductiveInvariant ==
    ASSUME DmaMarks
    PROVE  Spec /\ [][~SelfSwitch]_vars => []IInv
<1>1. Init => IInv  BY InitHolds
<1>2. IInv /\ [Next]_vars /\ [~SelfSwitch]_vars => IInv'
  <2>1. SUFFICES ASSUME IInv, [Next]_vars, [~SelfSwitch]_vars PROVE IInv'  OBVIOUS
  <2>2. CASE UNCHANGED vars  BY <2>1, <2>2, StutterKeeps
  <2>3. CASE Next /\ ~SelfSwitch  BY <2>1, <2>3, NextKeeps
  <2> QED  BY <2>1, <2>2, <2>3
<1> QED  BY <1>1, <1>2, PTL DEF Spec

\* With one environment SelfSwitch never happens, and the invariant holds in every
\* behaviour.
THEOREM OneEnvironmentInvariant ==
    ASSUME DmaMarks, OneEnvironment
    PROVE  Spec => []IInv
<1>1. Init => IInv  BY InitHolds
<1>2. IInv /\ [Next]_vars => IInv'
  <2>1. SUFFICES ASSUME IInv, [Next]_vars PROVE IInv'  OBVIOUS
  <2>2. CASE UNCHANGED vars  BY <2>1, <2>2, StutterKeeps
  <2>3. CASE Next /\ ~SelfSwitch  BY <2>1, <2>3, NextKeeps
  <2>4. CASE Next /\ SelfSwitch  BY <2>1, <2>4, NeverSwitched
  <2> QED  BY <2>1, <2>2, <2>3, <2>4
<1> QED  BY <1>1, <1>2, PTL DEF Spec

\* The counters of a frame stay in their ranges and the queue of requests within
\* the limit at which the page JIT backs off.
THEOREM TypeCorrect ==
    ASSUME DmaMarks
    PROVE  Spec /\ [][~SelfSwitch]_vars => []TypeOK
<1>1. IInv => TypeOK  BY InvariantImplies
<1> QED  BY <1>1, InductiveInvariant, PTL

\* lookup_first and lookup_next_from_entry return the instruction that memory holds
\* at the program counter, whichever checks a link lets them skip, if DMA transfers
\* mark every frame they write and no instruction becomes its own successor in
\* another environment.
THEOREM ExecutesMemory ==
    ASSUME DmaMarks
    PROVE  Spec /\ [][~SelfSwitch]_vars => []FreshExecution
<1>1. IInv => FreshExecution  BY InvariantImplies
<1> QED  BY <1>1, InductiveInvariant, PTL

\* Page code runs only what is still cached and still in memory, however long a
\* compile thread took, under the same two hypotheses.
THEOREM PageCodeIsCurrent ==
    ASSUME DmaMarks
    PROVE  Spec /\ [][~SelfSwitch]_vars => []JitCodeCurrent
<1>1. IInv => JitCodeCurrent  BY InvariantImplies
<1> QED  BY <1>1, InductiveInvariant, PTL

\* An invalidation finds everything it has to drop: the links, the instructions of a
\* frame and its dirty state, under the same two hypotheses.
THEOREM CacheIsConsistent ==
    ASSUME DmaMarks
    PROVE  Spec /\ [][~SelfSwitch]_vars => []CacheConsistent
<1>1. IInv => CacheConsistent  BY InvariantImplies
<1> QED  BY <1>1, InductiveInvariant, PTL

\* The writes for which advise_mark_dirty answers DoNotMark change no cached
\* instruction.  That transfers mark every frame they write is needed here:
\* write_physical_slice does not guarantee it for those that start inside a frame.
THEOREM CleanFramesAreCurrent ==
    ASSUME DmaMarks
    PROVE  Spec /\ [][~SelfSwitch]_vars => []CleanFramesCurrent
<1>1. IInv => CleanFramesCurrent  BY InvariantImplies
<1> QED  BY <1>1, InductiveInvariant, PTL

\* With one environment, and transfers that mark what they write, they hold in every
\* behaviour.
THEOREM OneEnvironmentCorrect ==
    ASSUME DmaMarks, OneEnvironment
    PROVE  Spec => [](FreshExecution /\ JitCodeCurrent /\ CacheConsistent /\ CleanFramesCurrent)
<1>1. IInv => FreshExecution /\ JitCodeCurrent /\ CacheConsistent /\ CleanFramesCurrent  BY InvariantImplies
<1> QED  BY <1>1, OneEnvironmentInvariant, PTL

-----------------------------------------------------------------------------
(* The mapping tracker, which is another module of the cache: what it      *)
(* promises is proved of MappingTracker alone.                             *)

MaybeFrame == PhysFrames \cup {NoFrame}

\* The mapping of page p, as the tracker records it if the pages show the frames of map.
Recorded(map, p) == [page |-> p, successor |-> map[Up(p)], predecessor |-> map[Down(p)]]
Showing(map, f)  == {p \in Pages : map[p] = f}
Records(map, ps) == {Recorded(map, p) : p \in ps}

TlbSlots    == 0 .. NTlb - 1
Trackers ==
    [map : [Pages -> MaybeFrame],
     info : [PhysFrames -> SUBSET [page : Pages, successor : MaybeFrame, predecessor : MaybeFrame]],
     current : SUBSET PhysFrames, chunks : SUBSET Nat,
     tlb : [TlbSlots -> [page : Pages, frame : PhysFrames, version : Nat]], version : Nat \ {0}]

\* An entry of the TLB that is not outdated is what its page shows.
TlbOK(t) ==
    \A s \in TlbSlots :
        /\ t.tlb[s].version <= t.version
        /\ t.tlb[s].version = t.version => t.tlb[s].frame = t.map[t.tlb[s].page]

TrackerOK(t) ==
    /\ t \in Trackers
    /\ t.info = [f \in PhysFrames |-> Records(t.map, Showing(t.map, f))]
    /\ \A f \in t.current : f \div ChunkSize \in t.chunks
    /\ TlbOK(t)

\* What page p showed since the cache was told, with the history se.
Shown(se, p) == {s[2] : s \in se[p]}

FreshIn(t, se) ==
    /\ \A p \in Pages : t.map[p] \in t.current => t.map[p] \in Shown(se, p)
    /\ \A s \in TlbSlots : t.tlb[s].version = t.version => t.tlb[s].frame \in Shown(se, t.tlb[s].page)

MapTypes ==
    /\ table \in [Pages -> MaybeFrame] /\ paging \in BOOLEAN /\ a20 \in BOOLEAN
    /\ seen \in [Pages -> SUBSET (BOOLEAN \X MaybeFrame)]

MapInv ==
    /\ MapTypes
    /\ TrackerOK(tracker)
    /\ \A p \in Pages : <<paging, Walk(p)>> \in seen[p]
    /\ FreshIn(tracker, seen)

\* The pages are a ring.
LEMMA RingOfPages ==
    ASSUME MappingAssumption, NEW p \in Pages
    PROVE  /\ Up(p) \in Pages /\ Down(p) \in Pages
           /\ Up(p) # p /\ Down(p) # p
           /\ \A q \in Pages : (Down(q) = p <=> q = Up(p)) /\ (Up(q) = p <=> q = Down(p))
<1>1. NPages \in Nat /\ NPages >= 2  BY DEF MappingAssumption
<1>2. ASSUME NEW q \in Pages
      PROVE  /\ Up(q) = IF q = NPages - 1 THEN 0 ELSE q + 1
             /\ Down(q) = IF q = 0 THEN NPages - 1 ELSE q - 1
  <2>1. q \in Nat /\ q <= NPages - 1  BY <1>1 DEF Pages
  <2>2. CASE q = NPages - 1
    <3>1. (q + 1) % NPages = 0  BY <1>1, <2>2, Z3
    <3>2. q # 0 /\ q + NPages - 1 = (q - 1) + NPages /\ q - 1 < NPages /\ q - 1 \in Nat  BY <1>1, <2>2
    <3>3. (q + NPages - 1) % NPages = q - 1  BY <1>1, <3>2, Z3
    <3> QED  BY <2>2, <3>1, <3>2, <3>3 DEF Up, Down
  <2>3. CASE q # NPages - 1
    <3>1. q + 1 \in Nat /\ q + 1 < NPages  BY <1>1, <2>1, <2>3
    <3>2. (q + 1) % NPages = q + 1  BY <1>1, <3>1, Z3
    <3>3. CASE q = 0
      <4>1. (q + NPages - 1) % NPages = NPages - 1  BY <1>1, <3>3, Z3
      <4> QED  BY <2>3, <3>2, <3>3, <4>1 DEF Up, Down
    <3>4. CASE q # 0
      <4>1. q - 1 \in Nat /\ q - 1 < NPages /\ q + NPages - 1 = (q - 1) + NPages  BY <1>1, <2>1, <3>4
      <4>2. (q + NPages - 1) % NPages = q - 1  BY <1>1, <4>1, Z3
      <4> QED  BY <2>3, <3>2, <3>4, <4>2 DEF Up, Down
    <3> QED  BY <3>3, <3>4
  <2> QED  BY <2>2, <2>3
<1> QED  BY <1>1, <1>2 DEF Pages

FiniteSetOfPages ==
    /\ IsFiniteSet(Pages)
    /\ \A s \in SUBSET Pages : IsFiniteSet(s) /\ Cardinality(s) \in 0 .. NPages
    /\ \A s \in SUBSET Pages : \A p \in s : Cardinality(s \ {p}) = Cardinality(s) - 1

LEMMA SetsOfPages == ASSUME MappingAssumption PROVE FiniteSetOfPages
<1>1. NPages \in Nat  BY DEF MappingAssumption
<1>2. IsFiniteSet(Pages) /\ Cardinality(Pages) = NPages
  <2>1. IsFiniteSet(0 .. NPages - 1) /\ Cardinality(0 .. NPages - 1) = IF 0 > NPages - 1 THEN 0 ELSE NPages - 1 - 0 + 1
    <3>1. 0 \in Int /\ NPages - 1 \in Int  BY <1>1
    <3> QED  BY <3>1, FS_Interval
  <2>2. NPages >= 2 /\ ~(0 > NPages - 1) /\ NPages - 1 - 0 + 1 = NPages  BY <1>1 DEF MappingAssumption
  <2> QED  BY <2>1, <2>2 DEF Pages
<1>3. ASSUME NEW s \in SUBSET Pages PROVE IsFiniteSet(s) /\ Cardinality(s) \in 0 .. NPages
  <2>1. IsFiniteSet(s) /\ Cardinality(s) <= NPages  BY <1>2, FS_Subset
  <2>2. Cardinality(s) \in Nat  BY <2>1, FS_CardinalityType
  <2> QED  BY <1>1, <2>1, <2>2
<1>4. ASSUME NEW s \in SUBSET Pages, NEW p \in s PROVE Cardinality(s \ {p}) = Cardinality(s) - 1
  BY <1>3, FS_RemoveElement
<1> QED  BY <1>2, <1>3, <1>4 DEF FiniteSetOfPages

LEMMA RecordsDiffer ==
    ASSUME NEW map, NEW p, NEW q, Recorded(map, p) = Recorded(map, q)
    PROVE  p = q
BY DEF Recorded

\* The recorded mapping of a page that shows a frame.
LEMMA MappingOfPage ==
    ASSUME NEW t, TrackerOK(t), NEW p \in Pages, t.map[p] # NoFrame
    PROVE  t.map[p] \in PhysFrames /\ Mapping(t, t.map[p], p) = Recorded(t.map, p)
<1>1. t.map[p] \in PhysFrames  BY DEF TrackerOK, Trackers, MaybeFrame
<1>2. t.info[t.map[p]] = Records(t.map, Showing(t.map, t.map[p]))  BY <1>1 DEF TrackerOK
<1>3. Recorded(t.map, p) \in t.info[t.map[p]]  BY <1>2 DEF Records, Showing
<1>4. \A m \in t.info[t.map[p]] : m.page = p => m = Recorded(t.map, p)  BY <1>2 DEF Records, Recorded
<1>5. Recorded(t.map, p).page = p  BY DEF Recorded
<1> QED  BY <1>1, <1>3, <1>4, <1>5 DEF Mapping

\* Both neighbours of page p learn that it shows v now, and no other record changes.
LEMMA Relinked ==
    ASSUME MappingAssumption, NEW map \in [Pages -> MaybeFrame], NEW p \in Pages, NEW v \in MaybeFrame,
           NEW Q \in [PhysFrames -> SUBSET Pages],
           \A g \in PhysFrames, q \in Pages : q # p /\ q \in Q[g] => map[q] = g,
           NEW info, info = [g \in PhysFrames |-> Records(map, Q[g])]
    PROVE  Relink(info, Recorded(map, p), v)
             = [g \in PhysFrames |-> Records([map EXCEPT ![p] = v], Q[g])]
<1> DEFINE a == Up(p)
           b == Down(p)
           m == Recorded(map, p)
           new == [map EXCEPT ![p] = v]
           one == SetPredecessor(info, m, v)
           Pre(o) == IF o.page = a THEN [o EXCEPT !.predecessor = v] ELSE o
           Suc(o) == IF o.page = b THEN [o EXCEPT !.successor = v] ELSE o
<1>1. /\ a \in Pages /\ b \in Pages /\ a # p /\ b # p
      /\ \A q \in Pages : (Down(q) = p <=> q = a) /\ (Up(q) = p <=> q = b)
      /\ \A q \in Pages : Up(q) \in Pages /\ Down(q) \in Pages
  BY RingOfPages
<1>2. m.page = p /\ m.successor = map[a] /\ m.predecessor = map[b]  BY DEF Recorded
<1>3. map[a] \in MaybeFrame /\ map[b] \in MaybeFrame  BY <1>1
<1>4. one = [g \in PhysFrames |-> {Pre(o) : o \in info[g]}]
  <2>1. ASSUME NEW g \in PhysFrames, g # map[a] PROVE info[g] = {Pre(o) : o \in info[g]}
    <3>1. a \notin Q[g]  BY <1>1, <2>1
    <3>2. \A o \in info[g] : o.page # a  BY <3>1 DEF Records, Recorded
    <3> QED  BY <3>2
  <2>2. CASE map[a] = NoFrame
    <3>1. map[a] \notin PhysFrames  BY <2>2, MappingAssumption DEF NoFrame, PhysFrames, Pages, MappingAssumption
    <3>2. one = info  BY <1>2, <2>2 DEF SetPredecessor
    <3> QED  BY <2>1, <3>1, <3>2
  <2>3. CASE map[a] # NoFrame
    <3>1. map[a] \in PhysFrames  BY <1>3, <2>3 DEF MaybeFrame
    <3>2. one = [info EXCEPT ![map[a]] = {Pre(o) : o \in @}]
      BY <1>2, <2>3 DEF SetPredecessor
    <3> QED  BY <2>1, <3>1, <3>2
  <2> QED  BY <2>2, <2>3
<1>5. \A g \in PhysFrames : \A o \in one[g] : o.page = b => g = map[b]
  <2> TAKE g \in PhysFrames
  <2> TAKE o \in one[g]
  <2>1. PICK x \in info[g] : o = Pre(x)  BY <1>4
  <2>2. PICK q \in Q[g] : x = Recorded(map, q)  BY DEF Records
  <2>3. o.page = q  BY <2>1, <2>2 DEF Recorded
  <2> QED  BY <1>1, <2>2, <2>3
<1>6. SetSuccessor(one, m, v) = [g \in PhysFrames |-> {Suc(o) : o \in one[g]}]
  <2>1. ASSUME NEW g \in PhysFrames, g # map[b] PROVE one[g] = {Suc(o) : o \in one[g]}
    BY <1>5, <2>1
  <2>2. CASE map[b] = NoFrame
    <3>1. map[b] \notin PhysFrames  BY <2>2, MappingAssumption DEF NoFrame, PhysFrames, Pages, MappingAssumption
    <3>2. SetSuccessor(one, m, v) = one  BY <1>2, <2>2 DEF SetSuccessor
    <3> QED  BY <1>4, <2>1, <3>1, <3>2
  <2>3. CASE map[b] # NoFrame
    <3>1. map[b] \in PhysFrames  BY <1>3, <2>3 DEF MaybeFrame
    <3>2. SetSuccessor(one, m, v) = [one EXCEPT ![map[b]] = {Suc(o) : o \in @}]
      BY <1>2, <2>3 DEF SetSuccessor
    <3> QED  BY <1>4, <2>1, <3>1, <3>2
  <2> QED  BY <2>2, <2>3
<1>7. ASSUME NEW q \in Pages PROVE Suc(Pre(Recorded(map, q))) = Recorded(new, q)
  <2>1. Pre(Recorded(map, q)) = [page |-> q, successor |-> map[Up(q)], predecessor |-> new[Down(q)]]
    BY <1>1 DEF Recorded
  <2>2. Suc(Pre(Recorded(map, q))) = [page |-> q, successor |-> new[Up(q)], predecessor |-> new[Down(q)]]
    BY <1>1, <2>1
  <2> QED  BY <2>2 DEF Recorded
<1>8. ASSUME NEW g \in PhysFrames PROVE {Suc(o) : o \in one[g]} = Records(new, Q[g])
  <2>1. {Suc(o) : o \in one[g]} = {Suc(Pre(o)) : o \in info[g]}
    <3>1. one[g] = {Pre(o) : o \in info[g]}  BY <1>4
    <3> HIDE DEF one, Suc, Pre
    <3> QED  BY <3>1
  <2>2. info[g] = {Recorded(map, q) : q \in Q[g]}  BY DEF Records
  <2>3. {Suc(Pre(o)) : o \in info[g]} = {Suc(Pre(Recorded(map, q))) : q \in Q[g]}
    <3> HIDE DEF Suc, Pre
    <3> QED  BY <2>2
  <2> HIDE DEF Suc, Pre, one, new
  <2> QED  BY <1>7, <2>1, <2>3 DEF Records
<1> QED  BY <1>6, <1>8 DEF Relink

-----------------------------------------------------------------------------
(* Resolving one page.                                                     *)

\* What the resolution of page p, which shows w now, makes of tracker t.
Resolves(t, u, p, w) ==
    /\ TrackerOK(u)
    /\ u.map = [t.map EXCEPT ![p] = w] /\ u.version = t.version
    /\ u.tlb = t.tlb \/ u.tlb = EmptyTlb
    /\ \/ u.current = t.current
       \/ /\ t.map[p] = NoFrame /\ u.current = t.current \cup {w}
          /\ \A q \in Pages : u.map[q] = w => q = p

\* The constants.
LEMMA FrameFacts ==
    ASSUME MappingAssumption
    PROVE  /\ NoFrame \notin PhysFrames /\ PhysFrames = Pages /\ 0 \in Pages
           /\ \A f \in PhysFrames : f \div ChunkSize \in Nat
           /\ NTlb \in Nat \ {0} /\ MaxVersion \in Nat \ {0}
<1>1. NPages \in Nat /\ NPages >= 2  BY DEF MappingAssumption
<1>2. ChunkSize \in Nat \ {0} /\ NTlb \in Nat \ {0} /\ MaxVersion \in Nat \ {0}  BY DEF MappingAssumption
<1>3. PhysFrames = Pages /\ NoFrame \notin PhysFrames /\ 0 \in Pages
  BY <1>1 DEF PhysFrames, Pages, NoFrame
<1>4. ASSUME NEW f \in PhysFrames PROVE f \div ChunkSize \in Nat
  <2>1. f \in Nat  BY <1>1 DEF PhysFrames, Pages
  <2> QED  BY <1>2, <2>1, Z3
<1> QED  BY <1>2, <1>3, <1>4

\* A cleared TLB has no entry that is not outdated.
LEMMA ClearedTlb ==
    ASSUME MappingAssumption
    PROVE  /\ EmptyTlb \in [TlbSlots -> [page : Pages, frame : PhysFrames, version : Nat]]
           /\ \A s \in TlbSlots : EmptyTlb[s].version = 0
BY FrameFacts DEF EmptyTlb, TlbSlots

LEMMA RecordTypes ==
    ASSUME MappingAssumption, NEW map \in [Pages -> MaybeFrame], NEW Q \in [PhysFrames -> SUBSET Pages]
    PROVE  [g \in PhysFrames |-> Records(map, Q[g])]
             \in [PhysFrames -> SUBSET [page : Pages, successor : MaybeFrame, predecessor : MaybeFrame]]
<1>1. ASSUME NEW p \in Pages
      PROVE  Recorded(map, p) \in [page : Pages, successor : MaybeFrame, predecessor : MaybeFrame]
  BY RingOfPages DEF Recorded
<1> QED  BY <1>1 DEF Records

\* A page that was not tracked.
LEMMA TrackMappingExact ==
    ASSUME MappingAssumption, NEW t, TrackerOK(t), NEW p \in Pages, NEW f \in PhysFrames,
           t.map[p] = NoFrame
    PROVE  Resolves(t, TrackMapping(t, f, p), p, f)
<1> DEFINE m     == [page |-> p, successor |-> t.map[Up(p)], predecessor |-> t.map[Down(p)]]
           info  == [t.info EXCEPT ![f] = @ \cup {m}]
           added == [t EXCEPT !.map[p] = f, !.info = Relink(info, m, f)]
           new   == [t.map EXCEPT ![p] = f]
           Q     == [g \in PhysFrames |-> IF g = f THEN Showing(t.map, g) \cup {p} ELSE Showing(t.map, g)]
<1>1. t \in Trackers /\ t.map \in [Pages -> MaybeFrame]  BY DEF TrackerOK, Trackers
<1>2. Q \in [PhysFrames -> SUBSET Pages]  BY DEF Showing
<1>3. info = [g \in PhysFrames |-> Records(t.map, Q[g])]
  <2>1. t.info = [g \in PhysFrames |-> Records(t.map, Showing(t.map, g))]  BY DEF TrackerOK
  <2>2. m = Recorded(t.map, p)  BY DEF Recorded
  <2>3. Records(t.map, Showing(t.map, f) \cup {p}) = Records(t.map, Showing(t.map, f)) \cup {m}  BY <2>2 DEF Records
  <2> HIDE DEF m
  <2> QED  BY <2>1, <2>3
<1>4. Relink(info, m, f) = [g \in PhysFrames |-> Records(new, Q[g])]
  <2>1. f \in MaybeFrame  BY DEF MaybeFrame
  <2>2. m = Recorded(t.map, p)  BY DEF Recorded
  <2>3. \A g \in PhysFrames, q \in Pages : q # p /\ q \in Q[g] => t.map[q] = g  BY DEF Showing
  <2> HIDE DEF m, info, Q
  <2> QED  BY <1>1, <1>2, <1>3, <2>1, <2>2, <2>3, Relinked
<1>5. \A g \in PhysFrames : Q[g] = Showing(new, g)
  BY <1>1, FrameFacts DEF Showing
<1>6. added = [t EXCEPT !.map = new, !.info = [g \in PhysFrames |-> Records(new, Showing(new, g))]]
  <2>1. added = [t EXCEPT !.map[p] = f, !.info = Relink(info, m, f)]  OBVIOUS
  <2>2. [g \in PhysFrames |-> Records(new, Q[g])] = [g \in PhysFrames |-> Records(new, Showing(new, g))]  BY <1>5
  <2> HIDE DEF Q, info, m, added
  <2> QED  BY <1>1, <1>4, <2>1, <2>2 DEF Trackers
<1>7. new \in [Pages -> MaybeFrame]  BY <1>1 DEF MaybeFrame
<1> DEFINE S == [g \in PhysFrames |-> Showing(new, g)]
<1>8. added.info = [g \in PhysFrames |-> Records(new, Showing(new, g))]
      /\ added.info \in [PhysFrames -> SUBSET [page : Pages, successor : MaybeFrame, predecessor : MaybeFrame]]
  <2>1. S \in [PhysFrames -> SUBSET Pages]  BY DEF Showing
  <2> DEFINE x == [g \in PhysFrames |-> Records(new, Showing(new, g))]
  <2>2. x = [g \in PhysFrames |-> Records(new, S[g])]  OBVIOUS
  <2>3. added.info = x
    <3> HIDE DEF x, new, added
    <3>1. added = [t EXCEPT !.map = new, !.info = x]  BY <1>6 DEF x
    <3> QED  BY <1>1, <3>1 DEF Trackers
  <2> HIDE DEF added, new, x, S
  <2> QED  BY <1>7, <2>1, <2>2, <2>3, RecordTypes DEF x
<1>9. /\ added \in Trackers /\ added.map = new /\ added.version = t.version /\ added.tlb = t.tlb
      /\ added.current = t.current /\ added.chunks = t.chunks
  <2> HIDE DEF new
  <2>1. DOMAIN added = DOMAIN t /\ added = [t EXCEPT !.map = new, !.info = added.info]  BY <1>1, <1>6 DEF Trackers
  <2> HIDE DEF added
  <2> QED  BY <1>1, <1>7, <1>8, <2>1 DEF Trackers
<1>10. TlbOK(added)
  <2> SUFFICES ASSUME NEW s \in TlbSlots, added.tlb[s].version = added.version
               PROVE  added.tlb[s].frame = new[added.tlb[s].page]
    <3> HIDE DEF added, new
    <3> QED  BY <1>9 DEF TlbOK, TrackerOK
  <2>1. t.tlb[s].version = t.version /\ t.tlb[s] \in [page : Pages, frame : PhysFrames, version : Nat]
    <3> HIDE DEF added, new
    <3> QED  BY <1>1, <1>9 DEF Trackers
  <2>2. t.tlb[s].frame = t.map[t.tlb[s].page]  BY <2>1 DEF TrackerOK, TlbOK
  <2>3. t.tlb[s].page # p  BY <2>1, <2>2, FrameFacts
  <2>4. new[t.tlb[s].page] = t.map[t.tlb[s].page]  BY <1>1, <2>1, <2>3
  <2> HIDE DEF added, new
  <2> QED  BY <1>9, <2>2, <2>4
<1> HIDE DEF added, new
<1>11. TrackerOK(added)  BY <1>8, <1>9, <1>10 DEF TrackerOK
<1>12. CASE ~(f \notin t.current /\ Cardinality(added.info[f]) = 1)
  <2>1. TrackMapping(t, f, p) = added  BY <1>9, <1>12 DEF TrackMapping, added
  <2> QED  BY <1>9, <1>11, <2>1 DEF Resolves, new
<1>13. CASE f \notin t.current /\ Cardinality(added.info[f]) = 1
  <2>1. TrackMapping(t, f, p) = MakeCurrent(added, f)  BY <1>13 DEF TrackMapping, added
  <2> DEFINE u == MakeCurrent(added, f)
  <2>2. u = [added EXCEPT !.current = t.current \cup {f}, !.chunks = t.chunks \cup {f \div ChunkSize}]
    BY <1>9 DEF MakeCurrent
  <2>3. /\ u \in Trackers /\ u.map = new /\ u.info = added.info /\ u.version = t.version /\ u.tlb = t.tlb
        /\ u.current = t.current \cup {f} /\ u.chunks = t.chunks \cup {f \div ChunkSize}
    <3>1. f \div ChunkSize \in Nat  BY FrameFacts
    <3> HIDE DEF u
    <3> QED  BY <1>9, <2>2, <3>1 DEF Trackers
  <2> HIDE DEF u
  <2>4. TrackerOK(u)
    <3>1. TlbOK(u)  BY <1>9, <1>10, <2>3 DEF TlbOK
    <3>2. \A g \in u.current : g \div ChunkSize \in u.chunks  BY <2>3 DEF TrackerOK
    <3> QED  BY <1>9, <1>11, <2>3, <3>1, <3>2 DEF TrackerOK
  <2>5. ASSUME NEW q \in Pages, u.map[q] = f PROVE q = p
    <3>1. added.info[f] = Records(new, Showing(new, f))  BY <1>8
    <3>2. new[p] = f  BY <1>1 DEF new
    <3>3. Recorded(new, p) \in added.info[f] /\ Recorded(new, q) \in added.info[f]
      BY <2>3, <2>5, <3>1, <3>2 DEF Records, Showing
    <3>4. IsFiniteSet(added.info[f])
      <4>2. IsFiniteSet(Showing(new, f))  BY SetsOfPages DEF Showing, FiniteSetOfPages
      <4> DEFINE at == [q1 \in Showing(new, f) |-> Recorded(new, q1)]
      <4>3. at \in Surjection(Showing(new, f), Records(new, Showing(new, f)))
        BY DEF Surjection, Records
      <4> QED  BY <3>1, <4>2, <4>3, FS_Surjection
    <3>5. PICK x : added.info[f] = {x}  BY <1>13, <3>4, FS_Singleton
    <3> QED  BY <3>3, <3>5, RecordsDiffer
  <2> QED  BY <1>13, <2>1, <2>3, <2>4, <2>5 DEF Resolves, new, u
<1> QED  BY <1>12, <1>13

\* The records of all pages, and a tracker with them and without its TLB.
AllRecords(map) == [g \in PhysFrames |-> Records(map, Showing(map, g))]
Replaced(t, u, map, info) == u = TlbCleared([t EXCEPT !.map = map, !.info = info])

LEMMA TrackerCleared ==
    ASSUME MappingAssumption, NEW t, TrackerOK(t), NEW new \in [Pages -> MaybeFrame],
           NEW info, info = AllRecords(new), NEW u, Replaced(t, u, new, info)
    PROVE  /\ TrackerOK(u) /\ u.map = new /\ u.version = t.version /\ u.tlb = EmptyTlb /\ u.current = t.current
<1> DEFINE S == [g \in PhysFrames |-> Showing(new, g)]
<1>1. t \in Trackers  BY DEF TrackerOK
<1>2. info \in [PhysFrames -> SUBSET [page : Pages, successor : MaybeFrame, predecessor : MaybeFrame]]
  <2>1. S \in [PhysFrames -> SUBSET Pages]  BY DEF Showing
  <2>2. info = [g \in PhysFrames |-> Records(new, S[g])]  BY DEF AllRecords
  <2> HIDE DEF S
  <2> QED  BY <2>1, <2>2, RecordTypes
<1>3. u = [[t EXCEPT !.map = new, !.info = info] EXCEPT !.tlb = EmptyTlb]  BY DEF TlbCleared, Replaced
<1>4. /\ u \in Trackers /\ u.map = new /\ u.info = info /\ u.version = t.version /\ u.tlb = EmptyTlb
      /\ u.current = t.current /\ u.chunks = t.chunks
  BY <1>1, <1>2, <1>3, ClearedTlb DEF Trackers
<1>5. TlbOK(u)
  <2>1. u.version \in Nat \ {0}  BY <1>4 DEF Trackers
  <2> QED  BY <1>4, <2>1, ClearedTlb DEF TlbOK
<1>6. \A g \in u.current : g \div ChunkSize \in u.chunks  BY <1>4 DEF TrackerOK
<1> QED  BY <1>4, <1>5, <1>6 DEF TrackerOK, AllRecords

\* The mapping of page p is taken out, before its neighbours learn of it.
LEMMA TakenOut ==
    ASSUME MappingAssumption, NEW t, TrackerOK(t), NEW p \in Pages, t.map[p] # NoFrame,
           NEW v \in MaybeFrame, NEW m, m = Mapping(t, t.map[p], p)
    PROVE  Relink([t.info EXCEPT ![t.map[p]] = @ \ {m}], m, v)
             = [g \in PhysFrames |-> Records([t.map EXCEPT ![p] = v], Showing(t.map, g) \ {p})]
<1> DEFINE Q    == [g \in PhysFrames |-> Showing(t.map, g) \ {p}]
           info == [t.info EXCEPT ![t.map[p]] = @ \ {m}]
<1>1. t.map \in [Pages -> MaybeFrame]  BY DEF TrackerOK, Trackers
<1>2. Q \in [PhysFrames -> SUBSET Pages]  BY DEF Showing
<1>3. m = Recorded(t.map, p)  BY MappingOfPage
<1>4. info = [g \in PhysFrames |-> Records(t.map, Q[g])]
  <2>1. t.info = [g \in PhysFrames |-> Records(t.map, Showing(t.map, g))]  BY DEF TrackerOK
  <2>2. Records(t.map, Showing(t.map, t.map[p])) \ {m} = Records(t.map, Showing(t.map, t.map[p]) \ {p})
    BY <1>3, RecordsDiffer DEF Records
  <2>3. ASSUME NEW g \in PhysFrames, g # t.map[p] PROVE Showing(t.map, g) = Showing(t.map, g) \ {p}
    BY <2>3 DEF Showing
  <2> QED  BY <2>1, <2>2, <2>3
<1>5. \A g \in PhysFrames, q \in Pages : q # p /\ q \in Q[g] => t.map[q] = g  BY DEF Showing
<1>6. Relink(info, m, v) = [g \in PhysFrames |-> Records([t.map EXCEPT ![p] = v], Q[g])]
  <2> HIDE DEF info, Q
  <2> QED  BY <1>1, <1>2, <1>3, <1>4, <1>5, Relinked
<1> QED  BY <1>6

\* A page that shows another frame now.
LEMMA MoveMappingExact ==
    ASSUME MappingAssumption, NEW t, TrackerOK(t), NEW p \in Pages, NEW f \in PhysFrames,
           t.map[p] # NoFrame, t.map[p] # f
    PROVE  Resolves(t, MoveMapping(t, f, p), p, f)
<1> DEFINE m     == Mapping(t, t.map[p], p)
           new   == [t.map EXCEPT ![p] = f]
           moved == Relink([t.info EXCEPT ![t.map[p]] = @ \ {m}], m, f)
           u     == MoveMapping(t, f, p)
<1>1. t \in Trackers /\ t.map \in [Pages -> MaybeFrame] /\ f \in MaybeFrame
  BY DEF TrackerOK, Trackers, MaybeFrame
<1>2. moved = [g \in PhysFrames |-> Records(new, Showing(t.map, g) \ {p})]  BY <1>1, TakenOut
<1>3. m = Recorded(new, p)
  <2>1. m = Recorded(t.map, p)  BY MappingOfPage
  <2>2. Up(p) \in Pages /\ Down(p) \in Pages /\ Up(p) # p /\ Down(p) # p  BY RingOfPages
  <2> QED  BY <1>1, <2>1, <2>2 DEF Recorded
<1>4. [moved EXCEPT ![f] = @ \cup {m}] = [g \in PhysFrames |-> Records(new, Showing(new, g))]
  <2>1. Showing(new, f) = (Showing(t.map, f) \ {p}) \cup {p}  BY <1>1 DEF Showing
  <2>2. Records(new, Showing(new, f)) = Records(new, Showing(t.map, f) \ {p}) \cup {m}
    <3> HIDE DEF m, new
    <3> QED  BY <1>3, <2>1 DEF Records
  <2>3. ASSUME NEW g \in PhysFrames, g # f PROVE Showing(new, g) = Showing(t.map, g) \ {p}
    BY <1>1, <2>3 DEF Showing
  <2> HIDE DEF m, new, moved
  <2> QED  BY <1>2, <2>2, <2>3
<1>5. new \in [Pages -> MaybeFrame]  BY <1>1
<1>6. u = TlbCleared([t EXCEPT !.map = new, !.info = [g \in PhysFrames |-> Records(new, Showing(new, g))]])
  <2>1. u = TlbCleared([t EXCEPT !.map[p] = f, !.info = [moved EXCEPT ![f] = @ \cup {m}]])
    BY DEF MoveMapping
  <2>2. [t EXCEPT !.map[p] = f, !.info = [moved EXCEPT ![f] = @ \cup {m}]]
          = [t EXCEPT !.map = new, !.info = [moved EXCEPT ![f] = @ \cup {m}]]
    <3> DEFINE x == [moved EXCEPT ![f] = @ \cup {m}]
    <3> HIDE DEF x
    <3> QED  BY <1>1 DEF Trackers
  <2> HIDE DEF u, moved, m, new
  <2> QED  BY <1>4, <2>1, <2>2
<1>8. Replaced(t, u, new, AllRecords(new))  BY <1>6 DEF Replaced, AllRecords
<1> HIDE DEF u, new, m, moved
<1>7. TrackerOK(u) /\ u.map = new /\ u.version = t.version /\ u.tlb = EmptyTlb /\ u.current = t.current
  BY <1>5, <1>8, TrackerCleared
<1> QED  BY <1>7 DEF Resolves, u, new

\* A page that shows nothing any more.
LEMMA RemoveMappingExact ==
    ASSUME MappingAssumption, NEW t, TrackerOK(t), NEW p \in Pages
    PROVE  Resolves(t, RemoveFramePageMapping(t, p), p, NoFrame)
<1> DEFINE m   == Mapping(t, t.map[p], p)
           new == [t.map EXCEPT ![p] = NoFrame]
           u   == RemoveFramePageMapping(t, p)
<1>1. t \in Trackers /\ t.map \in [Pages -> MaybeFrame] /\ NoFrame \in MaybeFrame
  BY DEF TrackerOK, Trackers, MaybeFrame
<1>2. CASE t.map[p] = NoFrame
  <2>1. u = t  BY <1>2 DEF RemoveFramePageMapping
  <2>2. new = t.map  BY <1>1, <1>2
  <2> QED  BY <2>1, <2>2 DEF Resolves
<1>3. CASE t.map[p] # NoFrame
  <2> DEFINE taken == Relink([t.info EXCEPT ![t.map[p]] = @ \ {m}], m, NoFrame)
  <2>1. taken = [g \in PhysFrames |-> Records(new, Showing(t.map, g) \ {p})]  BY <1>1, <1>3, TakenOut
  <2>2. ASSUME NEW g \in PhysFrames PROVE Showing(new, g) = Showing(t.map, g) \ {p}
    BY <1>1, FrameFacts DEF Showing
  <2>3. taken = [g \in PhysFrames |-> Records(new, Showing(new, g))]
    <3> HIDE DEF taken, new
    <3> QED  BY <2>1, <2>2
  <2>4. u = TlbCleared([t EXCEPT !.map[p] = NoFrame, !.info = taken])
    BY <1>1, <1>3 DEF RemoveFramePageMapping, Trackers
  <2>5. [t EXCEPT !.map[p] = NoFrame, !.info = taken] = [t EXCEPT !.map = new, !.info = taken]
    <3> HIDE DEF taken
    <3> QED  BY <1>1 DEF Trackers
  <2>6. new \in [Pages -> MaybeFrame]  BY <1>1
  <2> HIDE DEF u, new, taken
  <2>7. Replaced(t, u, new, taken) /\ taken = AllRecords(new)  BY <2>3, <2>4, <2>5 DEF Replaced, AllRecords
  <2>8. TrackerOK(u) /\ u.map = new /\ u.version = t.version /\ u.tlb = EmptyTlb /\ u.current = t.current
    BY <2>6, <2>7, TrackerCleared
  <2> QED  BY <2>8 DEF Resolves, u, new
<1> QED  BY <1>2, <1>3

\* What a page shows now is a frame or nothing.
LEMMA WalkType ==
    ASSUME MappingAssumption, MapTypes, NEW p \in Pages
    PROVE  Walk(p) \in MaybeFrame
<1>1. table[p] \in MaybeFrame /\ p \in MaybeFrame  BY DEF MapTypes, MaybeFrame, PhysFrames
<1>2. p % WrapAt \in MaybeFrame
  <2>1. p \in Nat /\ NPages \in Nat /\ p <= NPages - 1 /\ WrapAt \in Nat \ {0}
    BY DEF Pages, MappingAssumption
  <2>2. p % WrapAt \in Nat /\ p % WrapAt <= p  BY <2>1, Z3
  <2> QED  BY <2>1, <2>2 DEF MaybeFrame, PhysFrames, Pages
<1> QED  BY <1>1, <1>2 DEF Walk, PageWalk

\* resolve_phys_frame_index records what the page shows now, and nothing else.
LEMMA ResolveExact ==
    ASSUME MappingAssumption, MapTypes, NEW t, TrackerOK(t), NEW p \in Pages
    PROVE  Resolves(t, ResolvePhysFrameIndex(t, p), p, Walk(p))
<1> DEFINE w == Walk(p)
<1>1. w \in MaybeFrame  BY WalkType
<1>2. CASE w = NoFrame
  BY <1>2, RemoveMappingExact DEF ResolvePhysFrameIndex
<1>3. CASE w # NoFrame
  <2>1. w \in PhysFrames  BY <1>1, <1>3 DEF MaybeFrame
  <2>2. ResolvePhysFrameIndex(t, p) = UpdateFramePageMapping(t, w, p)
    BY <1>3 DEF ResolvePhysFrameIndex
  <2> HIDE DEF w
  <2>3. CASE t.map[p] = NoFrame
    BY <2>1, <2>2, <2>3, TrackMappingExact DEF UpdateFramePageMapping, w
  <2>4. CASE t.map[p] # NoFrame /\ t.map[p] # w
    BY <2>1, <2>2, <2>4, MoveMappingExact DEF UpdateFramePageMapping, w
  <2>5. CASE t.map[p] = w
    <3>1. ResolvePhysFrameIndex(t, p) = t  BY <1>3, <2>2, <2>5 DEF UpdateFramePageMapping, w
    <3>2. t.map = [t.map EXCEPT ![p] = w]
      <4>1. t.map \in [Pages -> MaybeFrame]  BY DEF TrackerOK, Trackers
      <4> QED  BY <2>5, <4>1
    <3> QED  BY <3>1, <3>2 DEF Resolves, w
  <2> QED  BY <2>3, <2>4, <2>5
<1> QED  BY <1>2, <1>3

-----------------------------------------------------------------------------
(* Resolving the pages of a frame, one after another.                      *)

\* What is resolved of the pages s, from those without its choice.
Rewalked(g, t, f, s) ==
    IF s = {} THEN MakeCurrent(t, f)
    ELSE LET p == CHOOSE q \in s : TRUE IN ResolvePhysFrameIndex(g[s \ {p}], p)

UpTo(n) == {s \in SUBSET Pages : Cardinality(s) <= n}

\* The function that rewalk_pages is defined with exists: up to any size of the sets.
LEMMA RewalkDefined ==
    ASSUME MappingAssumption, NEW t, NEW f
    PROVE  \E g : g = [s \in SUBSET Pages |-> Rewalked(g, t, f, s)]
<1> DEFINE Defines(g, n) == g = [s \in UpTo(n) |-> Rewalked(g, t, f, s)]
           bad == {n \in Nat : ~ \E g : Defines(g, n)}
<1>1. FiniteSetOfPages  BY SetsOfPages
<1>2. \E g : Defines(g, 0)
  <2> DEFINE g == [s \in UpTo(0) |-> MakeCurrent(t, f)]
  <2>1. \A s \in UpTo(0) : s = {}
    <3> TAKE s \in UpTo(0)
    <3>1. IsFiniteSet(s) /\ Cardinality(s) = 0  BY <1>1 DEF UpTo, FiniteSetOfPages
    <3> QED  BY <3>1, FS_EmptySet
  <2>2. \A s \in UpTo(0) : Rewalked(g, t, f, s) = MakeCurrent(t, f)  BY <2>1 DEF Rewalked
  <2>3. Defines(g, 0)
    <3> HIDE DEF g
    <3>1. g = [s \in UpTo(0) |-> MakeCurrent(t, f)]  BY DEF g
    <3> QED  BY <2>2, <3>1
  <2> HIDE DEF g, Defines
  <2> QED  BY <2>3
<1>3. ASSUME NEW n \in Nat, NEW g, Defines(g, n) PROVE \E h : Defines(h, n + 1)
  <2> DEFINE h == [s \in UpTo(n + 1) |-> Rewalked(g, t, f, s)]
  <2>1. \A s \in UpTo(n + 1) : \A p \in s : s \ {p} \in UpTo(n)
    <3> TAKE s \in UpTo(n + 1)
    <3> TAKE p \in s
    <3>1. Cardinality(s \ {p}) = Cardinality(s) - 1 /\ Cardinality(s) \in Nat /\ Cardinality(s) <= n + 1
          /\ s \in SUBSET Pages
      BY <1>1 DEF UpTo, FiniteSetOfPages
    <3> QED  BY <3>1 DEF UpTo
  <2>2. UpTo(n) \subseteq UpTo(n + 1)
    <3> SUFFICES ASSUME NEW s \in UpTo(n) PROVE s \in UpTo(n + 1)  OBVIOUS
    <3>1. s \in SUBSET Pages /\ Cardinality(s) \in Nat /\ Cardinality(s) <= n  BY <1>1 DEF UpTo, FiniteSetOfPages
    <3> QED  BY <3>1 DEF UpTo
  <2>3. \A s \in UpTo(n) : h[s] = g[s]
    <3> TAKE s \in UpTo(n)
    <3>1. g[s] = Rewalked(g, t, f, s)  BY <1>3
    <3> QED  BY <2>2, <3>1
  <2>4. \A s \in UpTo(n + 1) : Rewalked(h, t, f, s) = Rewalked(g, t, f, s)
    <3> HIDE DEF h
    <3> TAKE s \in UpTo(n + 1)
    <3>1. CASE s = {}  BY <3>1 DEF Rewalked
    <3>2. CASE s # {}
      <4>1. (CHOOSE q \in s : TRUE) \in s  BY <3>2
      <4>2. s \ {CHOOSE q \in s : TRUE} \in UpTo(n)  BY <2>1, <4>1
      <4> QED  BY <2>3, <4>2 DEF Rewalked
    <3> QED  BY <3>1, <3>2
  <2>5. Defines(h, n + 1)
    <3>1. h = [s \in UpTo(n + 1) |-> Rewalked(g, t, f, s)]  OBVIOUS
    <3> HIDE DEF h
    <3> QED  BY <2>4, <3>1
  <2> HIDE DEF h, Defines
  <2> QED  BY <2>5
<1> HIDE DEF Defines
<1>4. bad = {}
  <2>1. SUFFICES ASSUME bad # {} PROVE FALSE  OBVIOUS
  <2>2. bad \in SUBSET Nat  OBVIOUS
  <2> DEFINE m == Min(bad)
  <2>3. m \in bad /\ \A y \in bad : m <= y
    <3> HIDE DEF bad
    <3> QED  BY <2>1, <2>2, LeastOfNaturals
  <2> HIDE DEF m
  <2>4. m \in Nat /\ m # 0  BY <1>2, <2>3
  <2>5. m - 1 \in Nat /\ m - 1 \notin bad /\ (m - 1) + 1 = m
    <3>1. m - 1 \in Nat /\ ~(m <= m - 1) /\ (m - 1) + 1 = m  BY <2>4
    <3> QED  BY <2>3, <3>1
  <2>6. \E g : Defines(g, m - 1)  BY <2>5
  <2>7. \E h : Defines(h, m)  BY <1>3, <2>5, <2>6
  <2> QED  BY <2>3, <2>7
<1>5. NPages \in Nat /\ UpTo(NPages) = SUBSET Pages
  <2>1. NPages \in Nat  BY DEF MappingAssumption
  <2>2. \A s \in SUBSET Pages : Cardinality(s) <= NPages  BY <1>1 DEF FiniteSetOfPages
  <2> QED  BY <2>1, <2>2 DEF UpTo
<1>6. PICK g : Defines(g, NPages)  BY <1>4, <1>5
<1> QED  BY <1>5, <1>6 DEF Defines

\* The pages of a frame.
LEMMA PagesOfFrame ==
    ASSUME NEW t, TrackerOK(t), NEW f \in PhysFrames
    PROVE  {m.page : m \in t.info[f]} = Showing(t.map, f)
<1>1. t.info[f] = {Recorded(t.map, p) : p \in Showing(t.map, f)}  BY DEF TrackerOK, Records
<1>2. \A p : Recorded(t.map, p).page = p  BY DEF Recorded
<1> QED  BY <1>1, <1>2

\* What is resolved when the pages s of frame f have been.
RewalkedTo(t, u, f, s) ==
    /\ TrackerOK(u)
    /\ u.map = [p \in Pages |-> IF p \in s THEN Walk(p) ELSE t.map[p]]
    /\ u.version = t.version /\ u.current = t.current \cup {f}
    /\ u.tlb = t.tlb \/ u.tlb = EmptyTlb

\* rewalk_pages records what the pages of the frame show now, and makes only that frame current.
LEMMA RewalkExact ==
    ASSUME MappingAssumption, MapTypes, NEW t, TrackerOK(t), NEW f \in PhysFrames
    PROVE  RewalkedTo(t, RewalkPages(t, f), f, Showing(t.map, f))
<1> DEFINE g == CHOOSE g : g = [s \in SUBSET Pages |-> Rewalked(g, t, f, s)]
<1>1. g = [s \in SUBSET Pages |-> Rewalked(g, t, f, s)]  BY RewalkDefined
<1>2. RewalkPages(t, f) = g[Showing(t.map, f)]
  BY PagesOfFrame DEF RewalkPages, Rewalked
<1> HIDE DEF g
<1> DEFINE mine == Showing(t.map, f)
           bad  == {n \in Nat : \E s \in SUBSET mine : Cardinality(s) = n /\ ~RewalkedTo(t, g[s], f, s)}
<1>3. t \in Trackers /\ t.map \in [Pages -> MaybeFrame] /\ mine \in SUBSET Pages /\ FiniteSetOfPages
  BY SetsOfPages DEF TrackerOK, Trackers, Showing
<1>4. RewalkedTo(t, g[{}], f, {})
  <2>1. g[{}] = MakeCurrent(t, f)  BY <1>1 DEF Rewalked
  <2> DEFINE u == MakeCurrent(t, f)
  <2>2. u = [t EXCEPT !.current = t.current \cup {f}, !.chunks = t.chunks \cup {f \div ChunkSize}]
    BY <1>3 DEF MakeCurrent, Trackers
  <2>3. /\ u \in Trackers /\ u.map = t.map /\ u.info = t.info /\ u.version = t.version /\ u.tlb = t.tlb
        /\ u.current = t.current \cup {f} /\ u.chunks = t.chunks \cup {f \div ChunkSize}
    <3>1. f \div ChunkSize \in Nat  BY FrameFacts
    <3> HIDE DEF u
    <3> QED  BY <1>3, <2>2, <3>1 DEF Trackers
  <2> HIDE DEF u
  <2>4. TlbOK(u)  BY <2>3 DEF TlbOK, TrackerOK
  <2>5. \A h \in u.current : h \div ChunkSize \in u.chunks  BY <2>3 DEF TrackerOK
  <2>6. TrackerOK(u)  BY <2>3, <2>4, <2>5 DEF TrackerOK
  <2>7. u.map = [p \in Pages |-> IF p \in {} THEN Walk(p) ELSE t.map[p]]  BY <1>3, <2>3
  <2> QED  BY <2>1, <2>3, <2>6, <2>7 DEF RewalkedTo, u
<1>5. ASSUME NEW s \in SUBSET mine, NEW p \in s, p = CHOOSE q \in s : TRUE,
             RewalkedTo(t, g[s \ {p}], f, s \ {p})
      PROVE  RewalkedTo(t, g[s], f, s)
  <2> DEFINE v == g[s \ {p}]
             u == g[s]
  <2>1. u = ResolvePhysFrameIndex(v, p)
    <3>1. s \in SUBSET Pages /\ s # {}  BY <1>3
    <3>2. u = Rewalked(g, t, f, s)  BY <1>1, <3>1
    <3> QED  BY <1>5, <3>1, <3>2 DEF Rewalked
  <2>2. p \in Pages /\ t.map[p] = f /\ p \notin s \ {p}  BY DEF Showing
  <2> HIDE DEF u, v
  <2>3. RewalkedTo(t, v, f, s \ {p})  BY <1>5 DEF v
  <2>4. Resolves(v, u, p, Walk(p))  BY <2>1, <2>2, <2>3, ResolveExact DEF RewalkedTo
  <2>5. v.map[p] = f /\ f # NoFrame  BY <2>2, <2>3, FrameFacts DEF RewalkedTo
  <2>6. u.current = t.current \cup {f} /\ u.version = t.version /\ (u.tlb = t.tlb \/ u.tlb = EmptyTlb)
    BY <2>3, <2>4, <2>5 DEF RewalkedTo, Resolves
  <2>7. u.map = [q \in Pages |-> IF q \in s THEN Walk(q) ELSE t.map[q]]
    <3>1. v.map = [q \in Pages |-> IF q \in s \ {p} THEN Walk(q) ELSE t.map[q]]  BY <2>3 DEF RewalkedTo
    <3>2. u.map = [v.map EXCEPT ![p] = Walk(p)]  BY <2>4 DEF Resolves
    <3> QED  BY <2>2, <3>1, <3>2
  <2>8. TrackerOK(u)  BY <2>4 DEF Resolves
  <2> QED  BY <2>6, <2>7, <2>8 DEF RewalkedTo, u
<1>6. bad = {}
  <2>1. SUFFICES ASSUME bad # {} PROVE FALSE  OBVIOUS
  <2>2. bad \in SUBSET Nat  OBVIOUS
  <2> DEFINE n == Min(bad)
  <2>3. n \in bad /\ \A y \in bad : n <= y
    <3> HIDE DEF bad
    <3> QED  BY <2>1, <2>2, LeastOfNaturals
  <2> HIDE DEF n
  <2>4. PICK s \in SUBSET mine : Cardinality(s) = n /\ ~RewalkedTo(t, g[s], f, s)  BY <2>3
  <2>5. s # {}  BY <1>4, <2>4
  <2>6. PICK p \in s : p = CHOOSE q \in s : TRUE  BY <2>5
  <2>7. Cardinality(s \ {p}) = n - 1 /\ n \in Nat /\ Cardinality(s \ {p}) \in Nat
    <3>1. s \in SUBSET Pages /\ s \ {p} \in SUBSET Pages  BY <1>3
    <3> QED  BY <1>3, <2>3, <2>4, <3>1 DEF FiniteSetOfPages
  <2>8. n - 1 \notin bad
    <3>1. ~(n <= n - 1)  BY <2>7
    <3> QED  BY <2>3, <3>1
  <2>9. RewalkedTo(t, g[s \ {p}], f, s \ {p})  BY <2>7, <2>8
  <2> QED  BY <1>5, <2>4, <2>6, <2>9
<1>7. RewalkedTo(t, g[mine], f, mine)
  <2>1. Cardinality(mine) \in Nat  BY <1>3 DEF FiniteSetOfPages
  <2> QED  BY <1>6, <2>1
<1> QED  BY <1>2, <1>7

-----------------------------------------------------------------------------
(* The invariant holds.                                                    *)

\* A history that grew, or whose pages show the same.
LEMMA FreshLater ==
    ASSUME NEW t, NEW se, NEW sf, FreshIn(t, se), t \in Trackers,
           \A p \in Pages : Shown(se, p) \subseteq Shown(sf, p)
    PROVE  FreshIn(t, sf)
<1>1. \A s \in TlbSlots : t.tlb[s].page \in Pages  BY DEF Trackers
<1> QED  BY <1>1 DEF FreshIn

\* Resolving page p keeps the translations fresh if what it shows now is one of them.
LEMMA FreshResolved ==
    ASSUME MappingAssumption, NEW t, NEW u, NEW p \in Pages, NEW w, NEW se, NEW sf,
           TrackerOK(t), FreshIn(t, se), Resolves(t, u, p, w), w \in Shown(sf, p),
           \A q \in Pages : q # p => Shown(sf, q) = Shown(se, q)
    PROVE  FreshIn(u, sf)
<1>1. t \in Trackers /\ u \in Trackers /\ t.map \in [Pages -> MaybeFrame] /\ u.version \in Nat \ {0}
  BY DEF TrackerOK, Trackers, Resolves
<1>2. u.map = [t.map EXCEPT ![p] = w]  BY DEF Resolves
<1>3. ASSUME NEW q \in Pages, u.map[q] \in u.current PROVE u.map[q] \in Shown(sf, q)
  <2>1. CASE q = p  BY <1>1, <1>2, <2>1
  <2>2. CASE q # p /\ u.map[q] \in t.current
    <3>1. u.map[q] = t.map[q]  BY <1>1, <1>2, <2>2
    <3> QED  BY <2>2, <3>1 DEF FreshIn
  <2>3. CASE q # p /\ u.map[q] \notin t.current
    <3>1. u.map[q] = w /\ \A r \in Pages : u.map[r] = w => r = p  BY <1>3, <2>3 DEF Resolves
    <3> QED  BY <2>3, <3>1
  <2> QED  BY <2>1, <2>2, <2>3
<1>4. ASSUME NEW s \in TlbSlots, u.tlb[s].version = u.version PROVE u.tlb[s].frame \in Shown(sf, u.tlb[s].page)
  <2>1. u.tlb = t.tlb /\ u.version = t.version  BY <1>1, <1>4, ClearedTlb DEF Resolves
  <2>2. u.tlb[s].page \in Pages  BY <1>1 DEF Trackers
  <2>3. CASE u.tlb[s].page = p
    <3>1. u.tlb[s].frame = u.map[p]  BY <1>4, <2>3 DEF Resolves, TrackerOK, TlbOK
    <3> QED  BY <1>1, <1>2, <2>3, <3>1
  <2>4. CASE u.tlb[s].page # p
    <3>1. t.tlb[s].frame \in Shown(se, t.tlb[s].page)  BY <1>4, <2>1 DEF FreshIn
    <3> QED  BY <2>1, <2>2, <2>4, <3>1
  <2> QED  BY <2>3, <2>4
<1> QED  BY <1>3, <1>4 DEF FreshIn

\* What the pages show now is in their history.
LEMMA WalkShown ==
    ASSUME MapInv, NEW p \in Pages
    PROVE  Walk(p) \in Shown(seen, p)
<1>1. <<paging, Walk(p)>> \in seen[p]  BY DEF MapInv
<1> QED  BY <1>1 DEF Shown

\* InstructionCache::clear
LEMMA NewTrackerOK ==
    ASSUME MappingAssumption
    PROVE  TrackerOK(NewTracker) /\ \A se : FreshIn(NewTracker, se)
<1> DEFINE t == NewTracker
<1>1. /\ t.map = [p \in Pages |-> NoFrame] /\ t.info = [f \in PhysFrames |-> {}]
      /\ t.current = {} /\ t.chunks = {} /\ t.tlb = EmptyTlb /\ t.version = 1
      /\ t \in Trackers
  BY ClearedTlb DEF NewTracker, Trackers, MaybeFrame
<1> HIDE DEF t
<1>2. t.info = [f \in PhysFrames |-> Records(t.map, Showing(t.map, f))]
  BY <1>1, FrameFacts DEF Records, Showing
<1>3. TlbOK(t)  BY <1>1, ClearedTlb DEF TlbOK
<1>4. TrackerOK(t)  BY <1>1, <1>2, <1>3 DEF TrackerOK
<1>5. ASSUME NEW se PROVE FreshIn(t, se)  BY <1>1, ClearedTlb DEF FreshIn
<1> QED  BY <1>4, <1>5 DEF t

\* A notice outdates every mapping and every entry of the TLB.
LEMMA NoticeOK ==
    ASSUME MappingAssumption, NEW t, TrackerOK(t), NEW u, u = NotifyAllPageMappingsUpdated(t)
    PROVE  TrackerOK(u) /\ \A se : FreshIn(u, se)
<1> DEFINE m == MarkAllMappingsAsStale(t)
<1>1. t \in Trackers  BY DEF TrackerOK
<1>2. {f \in t.current : f \div ChunkSize \notin t.chunks} = {}  BY DEF TrackerOK
<1>3. m = [t EXCEPT !.current = {}, !.chunks = {}]  BY <1>1, <1>2 DEF MarkAllMappingsAsStale, Trackers
<1>4. /\ m \in Trackers /\ m.map = t.map /\ m.info = t.info /\ m.tlb = t.tlb /\ m.version = t.version
      /\ m.current = {} /\ m.chunks = {} /\ m.version \in Nat \ {0}
  BY <1>1, <1>3 DEF Trackers
<1> HIDE DEF m
<1>5. u = IF m.version < MaxVersion THEN [m EXCEPT !.version = m.version + 1]
          ELSE [[m EXCEPT !.version = 1] EXCEPT !.tlb = EmptyTlb]
  BY <1>4 DEF NotifyAllPageMappingsUpdated, IncrementVersion, TlbCleared, m, Trackers
<1>6. /\ u \in Trackers /\ u.map = t.map /\ u.info = t.info /\ u.current = {} /\ u.chunks = {}
      /\ \/ u.version = t.version + 1 /\ u.tlb = t.tlb
         \/ u.version = 1 /\ u.tlb = EmptyTlb
  <2>1. CASE m.version < MaxVersion
    <3>1. m.version + 1 \in Nat \ {0}  BY <1>4
    <3> DEFINE n == m.version + 1
    <3>2. u = [m EXCEPT !.version = n]  BY <1>5, <2>1
    <3>3. n \in Nat \ {0} /\ n = t.version + 1  BY <1>4, <3>1
    <3> HIDE DEF n
    <3> QED  BY <1>4, <3>2, <3>3 DEF Trackers
  <2>2. CASE ~(m.version < MaxVersion)
    <3>1. u = [[m EXCEPT !.version = 1] EXCEPT !.tlb = EmptyTlb]  BY <1>5, <2>2
    <3>2. u \in Trackers
      <4> DEFINE x == [m EXCEPT !.version = 1]
      <4>1. x \in Trackers  BY <1>4 DEF Trackers
      <4>2. u = [x EXCEPT !.tlb = EmptyTlb]  BY <3>1
      <4> HIDE DEF x
      <4> QED  BY <4>1, <4>2, ClearedTlb DEF Trackers
    <3>3. /\ u.map = m.map /\ u.info = m.info /\ u.current = m.current /\ u.chunks = m.chunks /\ u.version = 1
          /\ u.tlb = EmptyTlb
      BY <1>4, <3>1 DEF Trackers
    <3> QED  BY <1>4, <3>2, <3>3
  <2> QED  BY <2>1, <2>2
<1>7. \A s \in TlbSlots : u.tlb[s].version <= u.version /\ u.tlb[s].version # u.version
  <2> TAKE s \in TlbSlots
  <2>1. t.version \in Nat /\ t.tlb[s].version \in Nat /\ t.tlb[s].version <= t.version
    BY <1>1 DEF Trackers, TrackerOK, TlbOK
  <2>2. CASE u.version = t.version + 1 /\ u.tlb = t.tlb  BY <2>1, <2>2
  <2>3. CASE u.version = 1 /\ u.tlb = EmptyTlb  BY <2>3, ClearedTlb
  <2> QED  BY <1>6, <2>2, <2>3
<1>8. TrackerOK(u)  BY <1>6, <1>7 DEF TrackerOK, TlbOK
<1>9. ASSUME NEW se PROVE FreshIn(u, se)  BY <1>6, <1>7 DEF FreshIn
<1> QED  BY <1>8, <1>9

\* The entry of an instruction goes into the TLB once its page is resolved.
LEMMA InsertOK ==
    ASSUME MappingAssumption, NEW t, TrackerOK(t), NEW se, FreshIn(t, se), NEW p \in Pages,
           NEW f \in PhysFrames, t.map[p] = f, f \in Shown(se, p), NEW u, u = TlbInserted(t, p, f)
    PROVE  TrackerOK(u) /\ FreshIn(u, se)
<1> DEFINE k == p % NTlb
           e == [page |-> p, frame |-> f, version |-> t.version]
<1>1. t \in Trackers  BY DEF TrackerOK
<1>2. k \in TlbSlots
  <2>1. p \in Nat /\ NTlb \in Nat \ {0}  BY DEF Pages, MappingAssumption
  <2> QED  BY <2>1, Z3 DEF TlbSlots
<1>3. u = [t EXCEPT !.tlb[k] = e]  BY DEF TlbInserted
<1>4. e \in [page : Pages, frame : PhysFrames, version : Nat]  BY <1>1 DEF Trackers
<1> HIDE DEF k
<1>5. /\ u \in Trackers /\ u.map = t.map /\ u.info = t.info /\ u.version = t.version /\ u.current = t.current
      /\ u.chunks = t.chunks /\ u.tlb = [t.tlb EXCEPT ![k] = e]
  <2> HIDE DEF e
  <2> DEFINE x == [t.tlb EXCEPT ![k] = e]
  <2>1. x \in [TlbSlots -> [page : Pages, frame : PhysFrames, version : Nat]]  BY <1>1, <1>2, <1>4 DEF Trackers
  <2>2. u = [t EXCEPT !.tlb = x]  BY <1>1, <1>3 DEF Trackers
  <2> HIDE DEF x
  <2>3. u \in Trackers /\ u.tlb = x  BY <1>1, <2>1, <2>2 DEF Trackers
  <2>4. /\ u.map = t.map /\ u.info = t.info /\ u.version = t.version /\ u.current = t.current /\ u.chunks = t.chunks
    BY <1>1, <2>2 DEF Trackers
  <2> QED  BY <2>3, <2>4 DEF x
<1>6. \A s \in TlbSlots : u.tlb[s] = IF s = k THEN e ELSE t.tlb[s]  BY <1>1, <1>2, <1>5 DEF Trackers
<1>7. TlbOK(u)
  <2> SUFFICES ASSUME NEW s \in TlbSlots
               PROVE  /\ u.tlb[s].version <= u.version
                      /\ u.tlb[s].version = u.version => u.tlb[s].frame = u.map[u.tlb[s].page]
    BY DEF TlbOK
  <2>1. CASE s = k
    <3>1. t.version \in Nat  BY <1>1 DEF Trackers
    <3> QED  BY <1>5, <1>6, <2>1, <3>1
  <2>2. CASE s # k  BY <1>5, <1>6, <2>2 DEF TrackerOK, TlbOK
  <2> QED  BY <2>1, <2>2
<1>8. TrackerOK(u)  BY <1>5, <1>7 DEF TrackerOK
<1>9. FreshIn(u, se)  BY <1>5, <1>6 DEF FreshIn
<1> QED  BY <1>8, <1>9

LEMMA MapStarts == ASSUME MappingAssumption, MapInit PROVE MapInv
<1>1. table \in [Pages -> MaybeFrame] /\ paging = FALSE /\ a20 = FALSE
  BY DEF MapInit, MappingAssumption, MaybeFrame, PhysFrames, Pages
<1>2. seen = [p \in Pages |-> {<<paging, Walk(p)>>}]  BY DEF MapInit, FreshSeen, Walk
<1>3. MapTypes
  <2>1. \A p \in Pages : PageWalk(table, paging, a20, p) \in MaybeFrame
    <3> TAKE p \in Pages
    <3>1. p \in Nat /\ NPages \in Nat /\ p <= NPages - 1 /\ WrapAt \in Nat \ {0}
      BY DEF Pages, MappingAssumption
    <3>2. p % WrapAt \in Nat /\ p % WrapAt <= p  BY <3>1, Z3
    <3> QED  BY <1>1, <3>1, <3>2 DEF MaybeFrame, PhysFrames, Pages, PageWalk
  <2>2. seen \in [Pages -> SUBSET (BOOLEAN \X MaybeFrame)]
    <3>1. \A p \in Pages : <<paging, Walk(p)>> \in BOOLEAN \X MaybeFrame  BY <1>1, <2>1 DEF Walk
    <3> QED  BY <1>2, <3>1
  <2>3. paging \in BOOLEAN /\ a20 \in BOOLEAN  BY <1>1
  <2> QED  BY <1>1, <2>2, <2>3 DEF MapTypes
<1>4. TrackerOK(tracker) /\ FreshIn(tracker, seen)  BY NewTrackerOK DEF MapInit
<1> QED  BY <1>2, <1>3, <1>4 DEF MapInv

\* The guest changes its page tables or CR0, of which the tracker does not hear.
LEMMA MapEdited ==
    ASSUME MappingAssumption, MapInv, NEW tab \in [Pages -> MaybeFrame], NEW pg \in BOOLEAN, Edit(tab, pg)
    PROVE  MapInv'
<1>1. UNCHANGED <<a20, tracker>> /\ table' = tab /\ paging' = pg  BY DEF Edit
<1>2. MapTypes  BY DEF MapInv
<1>3. \A p \in Pages : PageWalk(tab, pg, a20, p) \in MaybeFrame
  <2> TAKE p \in Pages
  <2>1. p \in Nat /\ NPages \in Nat /\ p <= NPages - 1 /\ WrapAt \in Nat \ {0}
    BY DEF Pages, MappingAssumption
  <2>2. p % WrapAt \in Nat /\ p % WrapAt <= p  BY <2>1, Z3
  <2> QED  BY <2>1, <2>2 DEF MaybeFrame, PhysFrames, Pages, PageWalk
<1>4. seen' = [p \in Pages |-> seen[p] \cup {<<pg, PageWalk(tab, pg, a20, p)>>}]  BY DEF Edit
<1>5. MapTypes'  BY <1>1, <1>2, <1>3, <1>4 DEF MapTypes
<1>6. \A p \in Pages : <<paging', Walk(p)'>> \in seen'[p]  BY <1>1, <1>4 DEF Walk
<1>7. \A p \in Pages : Shown(seen, p) \subseteq Shown(seen', p)  BY <1>4 DEF Shown
<1>8. FreshIn(tracker, seen')  BY <1>7, FreshLater DEF MapInv, TrackerOK
<1> QED  BY <1>1, <1>5, <1>6, <1>8 DEF MapInv

\* The cache is told that all mappings may have changed, of CR3 or of the A20 line.
LEMMA MapNoticed ==
    ASSUME MappingAssumption, MapInv, NEW line \in BOOLEAN, a20' = line, UNCHANGED <<table, paging>>,
           tracker' = NotifyAllPageMappingsUpdated(tracker), seen' = FreshSeen(table, paging, line)
    PROVE  MapInv'
<1>1. MapTypes /\ TrackerOK(tracker)  BY DEF MapInv
<1>2. \A p \in Pages : PageWalk(table, paging, line, p) \in MaybeFrame
  <2> TAKE p \in Pages
  <2>1. p \in Nat /\ NPages \in Nat /\ p <= NPages - 1 /\ WrapAt \in Nat \ {0}
    BY DEF Pages, MappingAssumption
  <2>2. p % WrapAt \in Nat /\ p % WrapAt <= p  BY <2>1, Z3
  <2>3. table[p] \in MaybeFrame  BY <1>1 DEF MapTypes
  <2> QED  BY <2>1, <2>2, <2>3 DEF MaybeFrame, PhysFrames, Pages, PageWalk
<1>3. seen' = [p \in Pages |-> {<<paging, PageWalk(table, paging, line, p)>>}]  BY DEF FreshSeen
<1>4. MapTypes'  BY <1>1, <1>2, <1>3 DEF MapTypes
<1>5. \A p \in Pages : <<paging', Walk(p)'>> \in seen'[p]  BY <1>3 DEF Walk
<1>6. TrackerOK(tracker') /\ FreshIn(tracker', seen')  BY <1>1, NoticeOK
<1> QED  BY <1>4, <1>5, <1>6 DEF MapInv

\* The tracker resolves a page, of INVLPG, of an instruction or of its second page.
LEMMA MapResolved ==
    ASSUME MappingAssumption, MapInv, NEW p \in Pages,
           InvalidatePage(p) \/ LookupPage(p) \/ DecodeSecondPage(p)
    PROVE  MapInv'
<1> DEFINE w == Walk(p)
           u == ResolvePhysFrameIndex(tracker, p)
<1>1. MapTypes /\ TrackerOK(tracker) /\ FreshIn(tracker, seen) /\ w \in Shown(seen, p)
  BY WalkShown DEF MapInv
<1>2. Resolves(tracker, u, p, w) /\ w \in MaybeFrame  BY <1>1, ResolveExact, WalkType
<1>3. UNCHANGED <<table, paging, a20>>
  BY DEF InvalidatePage, LookupPage, DecodeSecondPage, Tracks
<1>4. \A q \in Pages : Walk(q)' = Walk(q)  BY <1>3 DEF Walk
<1>5. CASE InvalidatePage(p)
  <2>1. tracker' = u /\ seen' = [seen EXCEPT ![p] = {<<paging, w>>}]  BY <1>5 DEF InvalidatePage
  <2> HIDE DEF u, w
  <2>2. MapTypes'  BY <1>1, <1>2, <1>3, <2>1 DEF MapTypes
  <2>3. \A q \in Pages : <<paging', Walk(q)'>> \in seen'[q]
    BY <1>1, <1>3, <1>4, <2>1 DEF MapInv, MapTypes, w
  <2>4. seen'[p] = {<<paging, w>>} /\ \A q \in Pages : q # p => seen'[q] = seen[q]
    BY <1>1, <2>1 DEF MapTypes
  <2>5. w \in Shown(seen', p) /\ \A q \in Pages : q # p => Shown(seen', q) = Shown(seen, q)
    BY <2>4 DEF Shown
  <2>6. FreshIn(u, seen')  BY <1>1, <1>2, <2>5, FreshResolved
  <2>7. TrackerOK(u)  BY <1>2 DEF Resolves
  <2> QED  BY <2>1, <2>2, <2>3, <2>6, <2>7 DEF MapInv
<1>6. TrackerOK(u) /\ FreshIn(u, seen)
  <2> HIDE DEF u, w
  <2>1. FreshIn(u, seen)  BY <1>1, <1>2, FreshResolved
  <2> QED  BY <1>2, <2>1 DEF Resolves
<1>7. ASSUME UNCHANGED seen, TrackerOK(tracker'), FreshIn(tracker', seen) PROVE MapInv'
  <2>1. MapTypes'  BY <1>1, <1>3, <1>7 DEF MapTypes
  <2>2. \A q \in Pages : <<paging', Walk(q)'>> \in seen'[q]  BY <1>3, <1>4, <1>7 DEF MapInv
  <2> QED  BY <1>7, <2>1, <2>2 DEF MapInv
<1>8. CASE DecodeSecondPage(p)
  <2>1. tracker' = u /\ UNCHANGED seen  BY <1>8 DEF DecodeSecondPage, Tracks
  <2> QED  BY <1>6, <1>7, <2>1
<1>9. CASE LookupPage(p)
  <2>1. tracker' = (IF w = NoFrame THEN u ELSE TlbInserted(u, p, w)) /\ UNCHANGED seen
    BY <1>9 DEF LookupPage, Tracks
  <2>2. CASE w = NoFrame  BY <1>6, <1>7, <2>1, <2>2
  <2>3. CASE w # NoFrame
    <3>1. w \in PhysFrames  BY <1>2, <2>3 DEF MaybeFrame
    <3>2. tracker' = TlbInserted(u, p, w)  BY <2>1, <2>3
    <3> HIDE DEF u, w
    <3>3. u.map[p] = w
      <4>1. tracker.map \in [Pages -> MaybeFrame]  BY <1>1 DEF TrackerOK, Trackers
      <4> QED  BY <1>2, <4>1 DEF Resolves
    <3>4. TrackerOK(tracker') /\ FreshIn(tracker', seen)  BY <1>1, <1>6, <3>1, <3>2, <3>3, InsertOK
    <3> QED  BY <1>7, <2>1, <3>4
  <2> QED  BY <2>2, <2>3
<1> QED  BY <1>5, <1>8, <1>9

\* The pages of a frame that is not current are resolved.
LEMMA MapRewalked ==
    ASSUME MappingAssumption, MapInv, NEW f \in PhysFrames, PageMappingMismatch(f)
    PROVE  MapInv'
<1> DEFINE u == RewalkPages(tracker, f)
<1>1. MapTypes /\ TrackerOK(tracker) /\ FreshIn(tracker, seen)  BY DEF MapInv
<1>2. tracker' = u /\ UNCHANGED <<table, paging, a20, seen>>  BY DEF PageMappingMismatch, Tracks
<1>3. RewalkedTo(tracker, u, f, Showing(tracker.map, f))  BY <1>1, RewalkExact
<1> HIDE DEF u
<1>4. ASSUME NEW p \in Pages, u.map[p] \in u.current PROVE u.map[p] \in Shown(seen, p)
  <2>1. CASE tracker.map[p] = f
    <3>1. u.map[p] = Walk(p)  BY <1>3, <2>1 DEF RewalkedTo, Showing
    <3> QED  BY <3>1, WalkShown
  <2>2. CASE tracker.map[p] # f
    <3>1. u.map[p] = tracker.map[p] /\ u.current = tracker.current \cup {f}
      BY <1>3, <2>2 DEF RewalkedTo, Showing
    <3> QED  BY <1>1, <1>4, <2>2, <3>1 DEF FreshIn
  <2> QED  BY <2>1, <2>2
<1>5. ASSUME NEW s \in TlbSlots, u.tlb[s].version = u.version PROVE u.tlb[s].frame \in Shown(seen, u.tlb[s].page)
  <2>1. u.version \in Nat \ {0}  BY <1>3 DEF RewalkedTo, TrackerOK, Trackers
  <2>2. u.tlb = tracker.tlb /\ u.version = tracker.version  BY <1>3, <1>5, <2>1, ClearedTlb DEF RewalkedTo
  <2> QED  BY <1>1, <1>5, <2>2 DEF FreshIn
<1>6. TrackerOK(u) /\ FreshIn(u, seen)  BY <1>3, <1>4, <1>5 DEF FreshIn, RewalkedTo
<1>7. MapTypes'  BY <1>1, <1>2 DEF MapTypes
<1>8. \A q \in Pages : <<paging', Walk(q)'>> \in seen'[q]  BY <1>2 DEF Walk, MapInv
<1> QED  BY <1>2, <1>6, <1>7, <1>8 DEF MapInv

LEMMA MapStep == ASSUME MappingAssumption, MapInv, [MapNext]_(mapVars) PROVE MapInv'
<1>1. MapTypes  BY DEF MapInv
<1>2. ASSUME NEW p \in Pages, NEW f \in TableFrames \cup {NoFrame}, WriteTable(p, f) PROVE MapInv'
  <2>1. f \in MaybeFrame  BY DEF MappingAssumption, MaybeFrame, PhysFrames, Pages
  <2>2. [table EXCEPT ![p] = f] \in [Pages -> MaybeFrame] /\ paging \in BOOLEAN  BY <1>1, <2>1 DEF MapTypes
  <2> QED  BY <1>2, <2>2, MapEdited DEF WriteTable
<1>3. CASE WriteCr0
  <2>1. table \in [Pages -> MaybeFrame] /\ (~paging) \in BOOLEAN  BY <1>1 DEF MapTypes
  <2> QED  BY <1>3, <2>1, MapEdited DEF WriteCr0
<1>4. CASE WriteCr3
  <2>1. a20 \in BOOLEAN  BY <1>1 DEF MapTypes
  <2> QED  BY <1>4, <2>1, MapNoticed DEF WriteCr3
<1>5. ASSUME NEW line \in BOOLEAN, UpdateA20(line) PROVE MapInv'
  BY <1>5, MapNoticed DEF UpdateA20
<1>6. CASE Clear
  <2>1. tracker' = NewTracker /\ UNCHANGED <<table, paging, a20, seen>>  BY <1>6 DEF Clear, Tracks
  <2>2. TrackerOK(tracker') /\ FreshIn(tracker', seen')  BY <2>1, NewTrackerOK
  <2>3. MapTypes'  BY <1>1, <2>1 DEF MapTypes
  <2>4. \A q \in Pages : <<paging', Walk(q)'>> \in seen'[q]  BY <2>1 DEF Walk, MapInv
  <2> QED  BY <2>2, <2>3, <2>4 DEF MapInv
<1>7. CASE UNCHANGED mapVars
  <2>1. UNCHANGED <<table, paging, a20, tracker, seen>>  BY <1>7 DEF mapVars
  <2>2. \A q \in Pages : <<paging', Walk(q)'>> \in seen'[q]  BY <2>1 DEF Walk, MapInv
  <2> QED  BY <1>1, <2>1, <2>2 DEF MapInv, MapTypes
<1> QED  BY <1>2, <1>3, <1>4, <1>5, <1>6, <1>7, MapResolved, MapRewalked DEF MapNext

\* The invariant gives the properties.
LEMMA MapHolds ==
    ASSUME MappingAssumption, MapInv
    PROVE  TranslationsFresh
<1>1. TrackerOK(tracker) /\ tracker \in Trackers /\ FreshIn(tracker, seen)  BY DEF MapInv, TrackerOK
<1>2. \A p \in Pages :
        /\ tracker.map[p] \in tracker.current => tracker.map[p] \in {s[2] : s \in seen[p]}
        /\ TlbHit(tracker, p) => tracker.tlb[p % NTlb].frame \in {s[2] : s \in seen[p]}
  <2> SUFFICES ASSUME NEW p \in Pages, TlbHit(tracker, p)
               PROVE  tracker.tlb[p % NTlb].frame \in Shown(seen, p)
    BY <1>1 DEF FreshIn, Shown
  <2> DEFINE k == p % NTlb
  <2>1. k \in TlbSlots
    <3>1. p \in Nat /\ NTlb \in Nat \ {0}  BY DEF Pages, MappingAssumption
    <3> QED  BY <3>1, Z3 DEF TlbSlots
  <2>2. tracker.tlb[k].page = p /\ tracker.tlb[k].version >= tracker.version  BY DEF TlbHit
  <2> HIDE DEF k
  <2>3. tracker.tlb[k].version <= tracker.version /\ tracker.tlb[k].version \in Nat /\ tracker.version \in Nat
    BY <1>1, <2>1 DEF TrackerOK, TlbOK, Trackers
  <2>4. tracker.tlb[k].version = tracker.version  BY <2>2, <2>3
  <2>5. tracker.tlb[k].frame \in Shown(seen, p)  BY <1>1, <2>1, <2>2, <2>4 DEF FreshIn
  <2> QED  BY <2>5 DEF k
<1>3. ASSUME NEW p \in Pages, NEW f \in PhysFrames
      PROVE  /\ tracker.map[p] = f <=> \E m \in tracker.info[f] : m.page = p
             /\ \A m \in tracker.info[f] :
                  m.page = p => /\ m.successor = tracker.map[Up(p)]
                                /\ m.predecessor = tracker.map[Down(p)]
                                /\ Cardinality({o \in tracker.info[f] : o.page = p}) = 1
  <2>1. tracker.info[f] = Records(tracker.map, Showing(tracker.map, f))  BY <1>1 DEF TrackerOK
  <2>6. \A q : Recorded(tracker.map, q).page = q  BY DEF Recorded
  <2>2. \A m \in tracker.info[f] : m.page = p => m = Recorded(tracker.map, p)  BY <2>1, <2>6 DEF Records
  <2>3. tracker.map[p] = f <=> \E m \in tracker.info[f] : m.page = p  BY <2>1, <2>6 DEF Records, Showing
  <2>4. ASSUME NEW m \in tracker.info[f], m.page = p PROVE Cardinality({o \in tracker.info[f] : o.page = p}) = 1
    <3>1. {o \in tracker.info[f] : o.page = p} = {m}  BY <2>2, <2>4
    <3> QED  BY <3>1, FS_Singleton
  <2>5. Recorded(tracker.map, p).successor = tracker.map[Up(p)]
        /\ Recorded(tracker.map, p).predecessor = tracker.map[Down(p)]
    BY DEF Recorded
  <2> QED  BY <2>2, <2>3, <2>4, <2>5
<1> QED  BY <1>2, <1>3 DEF TranslationsFresh, LinksDual

\* A frame that is flagged current and a hit in the TLB give a translation the page tables have
\* had since the cache was last told of a change, however mappings were added, moved, removed
\* and re-walked before, and the tracked mappings agree with each other (icache/mapping.rs,
\* icache/tlb.rs, util/version.rs).
THEOREM MappingsAreFresh ==
    MappingAssumption /\ MapSpec => []TranslationsFresh
<1> SUFFICES ASSUME MappingAssumption PROVE MapSpec => []TranslationsFresh
  OBVIOUS
<1>1. MapInit => MapInv  BY MapStarts
<1>2. MapInv /\ [MapNext]_mapVars => MapInv'  BY MapStep
<1>3. MapInv => TranslationsFresh  BY MapHolds
<1> QED  BY <1>1, <1>2, <1>3, PTL DEF MapSpec
=============================================================================

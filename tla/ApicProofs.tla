----------------------------- MODULE ApicProofs ------------------------------
(***************************************************************************)
(* Proofs about the APICs (Apic): with any lines, vectors and number of    *)
(* device threads, what starts service outranks everything in service;     *)
(* with the synchronous clock the local APIC's share of INTR is exact      *)
(* between instructions and a pulse is not lost.                           *)
(***************************************************************************)
EXTENDS Apic, NaturalSets, TLAPS

-----------------------------------------------------------------------------
(* The inductive invariant.                                                *)

AnyVector   == Vectors \cup {0}
Raising     == {"raise", "isr", "prio", "tpr", "intr"}
Pulsing     == {"line", "entry", "latch", "clear", "receive", "after"} \cup Raising
OnlyCpu     == {"fetch", "exec", "ack", "none", "reset", "service", "enter", "pending", "assign", "high"}
Labels(t)   == Pulsing \cup IF t = CPU THEN OnlyCpu ELSE {"idle"}
AllLabels   == Pulsing \cup OnlyCpu \cup {"idle"}
Locals      == [line : Lines \cup {NoLine, 0}, val : BOOLEAN, changed : BOOLEAN, entry : Entry,
                vector : AnyVector, word : 0 .. 7]

Types ==
  /\ async \in BOOLEAN /\ enabled \in BOOLEAN /\ periodic \in BOOLEAN /\ iflag \in BOOLEAN
  /\ irq_lines \subseteq Lines /\ entries \in [Lines -> Entry]
  /\ requests \subseteq AnyVector /\ in_service \subseteq AnyVector
  /\ task_priority \in Priorities \cup {0} /\ pending_intr \in BOOLEAN
  /\ pc \in [Threads -> AllLabels] /\ loc \in [Threads -> Locals] /\ due \in [Threads -> SUBSET AnyVector]
  /\ \A t \in Threads : pc[t] \in Labels(t)

\* A pulse has a line; only the CPU raises a vector without one.
Shape(t) ==
  /\ pc[t] \in Pulsing \ Raising => loc[t].line \in Lines
  /\ pc[t] \in Raising => loc[t].line \in Lines \/ (t = CPU /\ loc[t].line = NoLine)

\* Only the CPU changes what is in service, so its choice stays the strongest.
Outranks ==
  pc[CPU] \in {"reset", "service"} =>
    \A w \in in_service : Priority(loc[CPU].vector) > Priority(w)

\* The line of a pulse is high between the two sets.
High(t) == pc[t] \in Pulsing /\ (loc[t].val <=> pc[t] # "line")
LineOK(t) ==
  /\ High(t) => irq_lines = {loc[t].line}
  /\ pc[t] = "entry" => loc[t].changed

\* What a scan of the bitset S has not loaded yet holds all of S.
ToScan(t, S) == \A v \in S : v \div 32 <= loc[t].word

\* The share of INTR while a vector is raised, chosen or looked for again.
Exact == pending_intr <=> Eligible # {}
RaiseOK(t) ==
  LET v == loc[t].vector
  IN  /\ pc[t] \in {"isr", "prio", "tpr"} => v \in requests /\ (pending_intr <=> Eligible \ {v} # {})
      /\ pc[t] = "prio" => ToScan(t, in_service)
      /\ pc[t] = "tpr" => in_service = {}
      /\ pc[t] = "intr" => v \in Eligible
ChoiceOK(t) ==
  LET v == loc[t].vector
  IN  /\ pc[t] \in {"ack", "pending"} => ToScan(t, requests)
      /\ pc[t] \in {"reset", "assign"} => v \in requests
      /\ pc[t] \in {"reset", "service", "assign"} => \A r \in requests : r <= v
      /\ pc[t] \in {"enter", "none"} => Eligible = {}
      /\ pc[t] = "pending" /\ requests = {} => ~pending_intr
Unsettled == {"isr", "prio", "tpr", "intr", "reset", "service", "enter", "none", "pending", "assign"}

\* A vector that a pulse has to request: the entry stays what it was, and the
\* request is made by the first set or, if the line is active low, by the second.
Settings(e) == [vector |-> e.vector, level |-> e.level, low |-> e.low, masked |-> e.masked]
SecondDue(t) ==
  LET e == entries[loc[t].line] IN e.low /\ (e.level => ~e.pending)
ToCome(t) ==
  LET e == entries[loc[t].line]
  IN  \/ pc[t] \in {"line", "entry"} /\ loc[t].val /\ MustDeliver(e)
      \/ pc[t] \in {"line", "entry"} /\ ~loc[t].val /\ SecondDue(t)
      \/ pc[t] = "clear" /\ loc[t].val /\ e.low
      \/ pc[t] \in {"receive", "raise"}
DueOK(t) ==
  due[t] # {} =>
    LET e == entries[loc[t].line]
    IN  /\ pc[t] \in Pulsing /\ loc[t].line \in Lines
        /\ due[t] = {e.vector} /\ ~e.masked
        /\ pc[t] \notin {"line", "entry"} =>
             Settings(loc[t].entry) = Settings(e) /\ loc[t].vector = e.vector
        /\ due[t] \subseteq requests \/ ToCome(t)

ThreadOK(t) == LineOK(t) /\ RaiseOK(t) /\ ChoiceOK(t) /\ DueOK(t)

\* With the synchronous clock one thread runs at a time.
SyncInv ==
  ~async =>
    /\ \A t, u \in Threads : t # u => pc[t] = Rest(t) \/ pc[u] = Rest(u)
    /\ \A t \in Threads : ThreadOK(t)
    /\ (\A t \in Threads : pc[t] \notin Unsettled) => Exact
    /\ (\A t \in Threads : ~High(t)) => irq_lines = {}

IInv == Types /\ (\A t \in Threads : Shape(t)) /\ Outranks /\ SyncInv

-----------------------------------------------------------------------------
(* Priorities.                                                             *)

\* A vector's priority is its high half, so it grows with the vector.
LEMMA PriorityMonotone ==
  /\ \A a \in 0 .. 255 : Priority(a) \in Nat
  /\ \A a, b \in 0 .. 255 : a <= b => Priority(a) <= Priority(b)
BY DEF Priority

\* Vectors and priorities are bytes.
LEMMA VectorRange ==
  /\ AnyVector \subseteq 0 .. 255 /\ Vectors \subseteq 0 .. 255
  /\ Priorities \cup {0} \subseteq 0 .. 255
<1>1. \A v \in Vectors : v \in 0 .. 255
  BY VectorsAssumption
<1>2. \A v \in AnyVector : v \in 0 .. 255
  BY <1>1 DEF AnyVector
<1>3. \A p \in Priorities \cup {0} : p \in 0 .. 255
  BY LinesAssumption
<1> QED BY <1>1, <1>2, <1>3

\* The strongest vector of a set.
LEMMA Strongest ==
  ASSUME NEW S \in SUBSET AnyVector, S # {}
  PROVE  /\ Max(S) \in S /\ Max(S) \in 0 .. 255
         /\ \A w \in S : w <= Max(S) /\ Priority(w) <= Priority(Max(S))
<1>1. S \in SUBSET (0 .. 255)
  BY VectorRange
<1>2. Max(S) \in S /\ \A w \in S : w <= Max(S)
  <2>1. 255 \in Nat
    OBVIOUS
  <2> QED BY <1>1, <2>1, GreatestOfNaturals, Zenon
<1> QED BY <1>1, <1>2, PriorityMonotone

\* current_priority: that of the strongest vector in service, or the task's.
LEMMA PriorityNow ==
  ASSUME in_service \subseteq AnyVector, task_priority \in Priorities \cup {0}
  PROVE  /\ CurrentPriority \in Nat
         /\ in_service = {} => CurrentPriority = Priority(task_priority)
         /\ in_service # {} => CurrentPriority = Priority(Max(in_service))
         /\ \A w \in in_service : Priority(w) <= CurrentPriority
<1>1. CASE in_service = {}
  <2>1. CurrentPriority = Priority(task_priority)
    BY <1>1 DEF CurrentPriority
  <2>2. Priority(task_priority) \in Nat
    BY VectorRange, PriorityMonotone
  <2> QED BY <1>1, <2>1, <2>2
<1>2. CASE in_service # {}
  <2>1. CurrentPriority = Priority(Max(in_service))
    BY <1>2 DEF CurrentPriority
  <2>2. Max(in_service) \in 0 .. 255 /\ \A w \in in_service : Priority(w) <= Priority(Max(in_service))
    BY <1>2, Strongest
  <2> QED BY <1>2, <2>1, <2>2, PriorityMonotone
<1> QED BY <1>1, <1>2

\* next_pending_interrupt looks at the strongest request only, which is enough.
LEMMA StrongestDecides ==
  ASSUME Types
  PROVE  /\ requests # {} => /\ Max(requests) \in requests /\ \A r \in requests : r <= Max(requests)
                             /\ (Eligible # {} <=> Priority(Max(requests)) > CurrentPriority)
         /\ requests = {} => Eligible = {}
<1>1. requests \subseteq AnyVector /\ CurrentPriority \in Nat
  BY PriorityNow DEF Types
<1>2. CASE requests # {}
  <2>1. /\ Max(requests) \in requests
        /\ \A w \in requests : w <= Max(requests) /\ Priority(w) <= Priority(Max(requests))
    BY <1>1, <1>2, Strongest
  <2>2. \A w \in requests : Priority(w) \in Nat
    BY <1>1, VectorRange, PriorityMonotone
  <2>3. Eligible # {} => Priority(Max(requests)) > CurrentPriority
    BY <1>1, <2>1, <2>2 DEF Eligible
  <2>4. Priority(Max(requests)) > CurrentPriority => Eligible # {}
    BY <2>1 DEF Eligible
  <2> QED BY <1>2, <2>1, <2>3, <2>4
<1>3. CASE requests = {}
  BY <1>3 DEF Eligible
<1> QED BY <1>2, <1>3

\* highest_index_set: the first word that is not empty holds the strongest
\* vector; if the last one is empty too, so is the set.
LEMMA ScanFinds ==
  ASSUME IInv, NEW t \in Threads, NEW S \in SUBSET AnyVector
  PROVE  /\ Loaded(t, S) # {} => Max(Loaded(t, S)) \in S
         /\ ToScan(t, S) /\ Loaded(t, S) # {} => Max(Loaded(t, S)) = Max(S)
         /\ ToScan(t, S) /\ Loaded(t, S) = {} /\ ScanEnds(t, S) => S = {}
<1> DEFINE L == Loaded(t, S)
<1>0. loc[t].word \in 0 .. 7 /\ L \in SUBSET AnyVector /\ L \subseteq S
  BY DEF IInv, Types, Locals, Loaded
<1>1. \A v \in S : v \in 0 .. 255
  BY VectorRange
<1>2. ASSUME L # {}
      PROVE  Max(L) \in L /\ Max(L) \in 0 .. 255 /\ \A w \in L : w <= Max(L)
  BY <1>0, <1>2, Strongest
<1>3. ASSUME ToScan(t, S), L # {}
      PROVE  Max(L) = Max(S)
  <2>1. Max(L) \div 32 = loc[t].word
    BY <1>2, <1>3 DEF Loaded
  <2>2. \A w \in S : w <= Max(L)
    <3> TAKE w \in S
    <3>1. CASE w \in L
      BY <1>2, <1>3, <3>1
    <3>2. CASE w \notin L
      <4>1. w \div 32 <= loc[t].word /\ w \div 32 # loc[t].word
        BY <1>3, <3>2 DEF ToScan, Loaded
      <4>2. w \in 0 .. 255 /\ w \div 32 \in 0 .. 7 /\ Max(L) \in 0 .. 255
        BY <1>1, <1>2, <1>3
      <4> HIDE DEF L
      <4> QED BY <1>0, <2>1, <4>1, <4>2
    <3> QED BY <3>1, <3>2
  <2>3. Max(S) \in S /\ Max(S) \in 0 .. 255 /\ \A w \in S : w <= Max(S)
    BY <1>0, <1>3, Strongest
  <2>4. Max(L) \in S /\ Max(L) \in 0 .. 255
    BY <1>0, <1>2, <1>3
  <2>5. Max(L) <= Max(S) /\ Max(S) <= Max(L)
    BY <2>2, <2>3, <2>4
  <2>6. \A a, b \in 0 .. 255 : a <= b /\ b <= a => a = b
    OBVIOUS
  <2> HIDE DEF L
  <2> QED BY <2>3, <2>4, <2>5, <2>6, Zenon
<1>4. ASSUME ToScan(t, S), L = {}, ScanEnds(t, S)
      PROVE  S = {}
  <2>1. loc[t].word = 0
    BY <1>4 DEF ScanEnds
  <2>2. \A v \in S : v \div 32 = 0
    BY <1>1, <1>4, <2>1 DEF ToScan
  <2> QED BY <1>4, <2>1, <2>2 DEF Loaded
<1> QED BY <1>0, <1>2, <1>3, <1>4

\* A scan starts with everything before it; a word that is empty is passed.
LEMMA ScanCovers ==
  ASSUME IInv, NEW t \in Threads, NEW S \in SUBSET AnyVector
  PROVE  /\ \A v \in S : v \div 32 <= TopWord
         /\ ToScan(t, S) /\ ~ScanEnds(t, S) => \A v \in S : v \div 32 <= loc[t].word - 1
         /\ TopWord \in 0 .. 7 /\ (~ScanEnds(t, S) => loc[t].word - 1 \in 0 .. 7)
<1>0. loc[t].word \in 0 .. 7
  BY DEF IInv, Types, Locals
<1>1. \A v \in S : v \in 0 .. 255 /\ v \div 32 \in 0 .. 7
  BY VectorRange
<1>2. ASSUME ToScan(t, S), ~ScanEnds(t, S)
      PROVE  \A v \in S : v \div 32 <= loc[t].word - 1
  <2>1. \A v \in S : v \div 32 <= loc[t].word /\ v \div 32 # loc[t].word
    BY <1>2 DEF ToScan, ScanEnds, Loaded
  <2> QED BY <1>0, <1>1, <2>1
<1> QED BY <1>0, <1>1, <1>2 DEF ScanEnds, TopWord

-----------------------------------------------------------------------------
(* What every step has in common.                                          *)

\* The power-on state: no line high, nothing requested, every thread at rest.
LEMMA InitInv == Init => IInv
<1> SUFFICES ASSUME Init PROVE IInv
  OBVIOUS
<1>0. \A t \in Threads : /\ pc[t] = Rest(t) /\ pc[t] \in {"fetch", "idle"} /\ pc[t] \in Labels(t)
                         /\ loc[t] = NoLocals /\ due[t] = {}
  BY DEF Init, Rest, Labels, OnlyCpu
<1>1. Types
  <2>1. NoEntry \in Entry
    BY DEF NoEntry, Entry
  <2>2. NoLocals \in Locals
    BY <2>1 DEF NoLocals, Locals, AnyVector
  <2>3. pc \in [Threads -> AllLabels] /\ loc \in [Threads -> Locals] /\ due \in [Threads -> SUBSET AnyVector]
    BY <2>2 DEF Init, Rest, AllLabels, OnlyCpu
  <2>4. /\ async \in BOOLEAN /\ enabled \in BOOLEAN /\ periodic \in BOOLEAN /\ iflag \in BOOLEAN
        /\ pending_intr \in BOOLEAN
    BY Zenon DEF Init
  <2>5. entries \in [Lines -> Entry] /\ task_priority \in Priorities \cup {0}
    BY <2>1 DEF Init
  <2>6. irq_lines \subseteq Lines /\ requests \subseteq AnyVector /\ in_service \subseteq AnyVector
    BY DEF Init
  <2> QED BY <1>0, <2>3, <2>4, <2>5, <2>6 DEF Types
<1>2. CPU \in Threads
  BY DEF Threads
<1>3. \A t \in Threads : Shape(t) /\ ThreadOK(t) /\ ~High(t)
  BY <1>0 DEF Shape, ThreadOK, LineOK, High, RaiseOK, ChoiceOK, DueOK, Pulsing, Raising
<1>4. Outranks
  BY <1>0, <1>2 DEF Outranks
<1>5. Exact /\ irq_lines = {}
  BY DEF Init, Exact, Eligible
<1> QED BY <1>0, <1>1, <1>3, <1>4, <1>5 DEF IInv, SyncInv

\* With the synchronous clock a thread whose turn it is finds the others at rest.
LEMMA Alone ==
  ASSUME IInv, NEW t \in Threads, Turn(t), ~async
  PROVE  /\ ThreadOK(t)
         /\ pc[t] \notin Unsettled => Exact
         /\ ~High(t) => irq_lines = {}
         /\ \A u \in Threads \ {t} : pc[u] = Rest(u)
<1>1. \A u \in Threads \ {t} : pc[u] = Rest(u)
  BY DEF Turn
<1>2. \A u \in Threads \ {t} : pc[u] \notin Unsettled /\ ~High(u)
  BY <1>1 DEF Rest, Unsettled, High, Pulsing, Raising
<1> QED BY <1>1, <1>2 DEF IInv, SyncInv

\* A step of one thread: what is to be shown is about that thread only.
LEMMA StepInv ==
  ASSUME IInv, NEW t \in Threads, Turn(t),
         pc' \in [Threads -> AllLabels], loc' \in [Threads -> Locals], due' \in [Threads -> SUBSET AnyVector],
         pc'[t] \in Labels(t),
         \A u \in Threads \ {t} : pc'[u] = pc[u] /\ loc'[u] = loc[u] /\ due'[u] = due[u],
         async' = async, enabled' \in BOOLEAN, periodic' \in BOOLEAN, iflag' \in BOOLEAN,
         irq_lines' \subseteq Lines, entries' \in [Lines -> Entry],
         requests' \subseteq AnyVector, in_service' \subseteq AnyVector,
         task_priority' \in Priorities \cup {0}, pending_intr' \in BOOLEAN,
         Shape(t)', Outranks',
         ~async => /\ ThreadOK(t)'
                   /\ pc'[t] \notin Unsettled => Exact'
                   /\ ~High(t)' => irq_lines' = {}
  PROVE  IInv'
<1>1. Types'
  <2>1. \A u \in Threads : pc'[u] \in Labels(u)
    BY DEF IInv, Types
  <2> QED BY <2>1 DEF IInv, Types, Labels
<1>2. \A u \in Threads : Shape(u)'
  <2>1. \A u \in Threads \ {t} : Shape(u)'
    BY DEF IInv, Shape
  <2> QED BY <2>1
<1>3. SyncInv'
  <2> SUFFICES ASSUME ~async PROVE SyncInv'
    BY DEF SyncInv
  <2>1. \A u \in Threads \ {t} : pc'[u] = Rest(u) /\ pc[u] = Rest(u) /\ due'[u] = due[u]
    BY Alone
  <2>2. \A u \in Threads \ {t} : due[u] = {}
    <3> TAKE u \in Threads \ {t}
    <3>1. DueOK(u)
      BY DEF IInv, SyncInv, ThreadOK
    <3>2. pc[u] \notin Pulsing
      BY <2>1 DEF Rest, Pulsing, Raising
    <3> QED BY <3>1, <3>2 DEF DueOK
  <2>3. \A u \in Threads \ {t} : ThreadOK(u)' /\ ~High(u)'
    BY <2>1, <2>2 DEF ThreadOK, LineOK, High, RaiseOK, ChoiceOK, DueOK, Rest, Pulsing, Raising
  <2>4. \A u, v \in Threads : u # v => pc'[u] = Rest(u) \/ pc'[v] = Rest(v)
    BY <2>1
  <2> QED BY <2>3, <2>4 DEF SyncInv, Rest
<1> QED BY <1>1, <1>2, <1>3 DEF IInv

\* The program counter, the locals and the due vectors of one thread change.
LEMMA Moved ==
  ASSUME IInv, NEW t \in Threads, NEW label \in Labels(t), NEW c \in Locals, NEW s \in SUBSET AnyVector,
         pc' = [pc EXCEPT ![t] = label],
         loc' = [loc EXCEPT ![t] = c] \/ (loc' = loc /\ c = loc[t]),
         due' = [due EXCEPT ![t] = s] \/ (due' = due /\ s = due[t])
  PROVE  /\ pc' \in [Threads -> AllLabels] /\ loc' \in [Threads -> Locals] /\ due' \in [Threads -> SUBSET AnyVector]
         /\ pc'[t] = label /\ loc'[t] = c /\ due'[t] = s
         /\ \A u \in Threads \ {t} : pc'[u] = pc[u] /\ loc'[u] = loc[u] /\ due'[u] = due[u]
<1>1. pc \in [Threads -> AllLabels] /\ loc \in [Threads -> Locals] /\ due \in [Threads -> SUBSET AnyVector]
  BY DEF IInv, Types
<1>2. label \in AllLabels
  BY DEF Labels, AllLabels
<1>3. pc' \in [Threads -> AllLabels] /\ pc'[t] = label /\ \A u \in Threads \ {t} : pc'[u] = pc[u]
  BY <1>1, <1>2
<1>4. loc' \in [Threads -> Locals] /\ loc'[t] = c /\ \A u \in Threads \ {t} : loc'[u] = loc[u]
  BY <1>1
<1>5. due' \in [Threads -> SUBSET AnyVector] /\ due'[t] = s /\ \A u \in Threads \ {t} : due'[u] = due[u]
  BY <1>1
<1> QED BY <1>3, <1>4, <1>5

\* A set of the line is over: the pulse goes on with the second one, or is over.
LEMMA EndSetMoves ==
  ASSUME IInv, NEW t \in Threads, loc[t].line \in Lines, EndSet(t)
  PROVE  /\ pc' \in [Threads -> AllLabels] /\ loc' \in [Threads -> Locals] /\ due' \in [Threads -> SUBSET AnyVector]
         /\ pc'[t] \in Labels(t)
         /\ \A u \in Threads \ {t} : pc'[u] = pc[u] /\ loc'[u] = loc[u] /\ due'[u] = due[u]
         /\ loc[t].val => /\ pc'[t] = "line" /\ loc'[t].line = loc[t].line /\ ~loc'[t].val /\ due'[t] = due[t]
         /\ ~loc[t].val => pc'[t] = Rest(t) /\ loc'[t] = NoLocals /\ due'[t] = {}
<1>0. NoEntry \in Entry
  BY DEF NoEntry, Entry
<1>1. NoLocals \in Locals
  BY <1>0 DEF NoLocals, Locals, AnyVector
<1>2. "line" \in Labels(t) /\ Rest(t) \in Labels(t)
  BY DEF Labels, Pulsing, OnlyCpu, Rest
<1>3. due[t] \in SUBSET AnyVector /\ {} \in SUBSET AnyVector
  BY DEF IInv, Types
<1> DEFINE c == [NoLocals EXCEPT !.line = loc[t].line]
<1>4. c \in Locals /\ c.line = loc[t].line /\ ~c.val
  <2>1. NoLocals.val = FALSE
    BY DEF NoLocals
  <2> QED BY <1>1, <2>1 DEF Locals
<1> HIDE DEF c
<1>5. CASE loc[t].val
  <2>1. pc' = [pc EXCEPT ![t] = "line"] /\ loc' = [loc EXCEPT ![t] = c] /\ due' = due
    BY <1>5 DEF EndSet, Goto, c
  <2> QED BY <1>2, <1>3, <1>4, <1>5, <2>1, Moved
<1>6. CASE ~loc[t].val
  <2>1. pc' = [pc EXCEPT ![t] = Rest(t)] /\ loc' = [loc EXCEPT ![t] = NoLocals] /\ due' = [due EXCEPT ![t] = {}]
    BY <1>6 DEF EndSet, Goto
  <2> QED BY <1>1, <1>2, <1>3, <1>6, <2>1, Moved
<1> QED BY <1>5, <1>6

\* Nothing of the local APIC changes when a set ends, and the settings of the
\* entry stay.
LEMMA EndSetInv ==
  ASSUME IInv, NEW t \in Threads, Turn(t), pc[t] \in {"entry", "latch", "clear", "after"}, EndSet(t),
         entries' \in [Lines -> Entry],
         UNCHANGED <<async, irq_lines, requests, in_service, task_priority, pending_intr, enabled, periodic, iflag>>,
         ~async /\ due[t] # {} /\ loc[t].val =>
           /\ Settings(entries'[loc[t].line]) = Settings(entries[loc[t].line])
           /\ \/ due[t] \subseteq requests
              \/ LET e == entries'[loc[t].line] IN e.low /\ (e.level => ~e.pending)
  PROVE  IInv'
<1>1. loc[t].line \in Lines
  BY DEF IInv, Shape, Pulsing, Raising
<1>2. /\ pc' \in [Threads -> AllLabels] /\ loc' \in [Threads -> Locals] /\ due' \in [Threads -> SUBSET AnyVector]
      /\ pc'[t] \in Labels(t)
      /\ \A u \in Threads \ {t} : pc'[u] = pc[u] /\ loc'[u] = loc[u] /\ due'[u] = due[u]
      /\ loc[t].val => /\ pc'[t] = "line" /\ loc'[t].line = loc[t].line /\ ~loc'[t].val /\ due'[t] = due[t]
      /\ ~loc[t].val => pc'[t] = Rest(t) /\ loc'[t] = NoLocals /\ due'[t] = {}
  BY <1>1, EndSetMoves
<1>3. pc'[t] \in {"line", "fetch", "idle"}
  BY <1>2 DEF Rest
<1>4. Shape(t)'
  BY <1>1, <1>2, <1>3 DEF Shape, Pulsing, Raising, Rest
<1>5. Outranks'
  BY <1>2, <1>3 DEF IInv, Outranks, Threads
<1>6. ASSUME ~async
      PROVE  ThreadOK(t)' /\ (pc'[t] \notin Unsettled => Exact') /\ (~High(t)' => irq_lines' = {})
  <2>1. ThreadOK(t) /\ (pc[t] \notin Unsettled => Exact) /\ (~High(t) => irq_lines = {})
    BY <1>6, Alone
  <2>2. High(t) <=> loc[t].val
    BY DEF High, Pulsing
  <2>3. High(t)' <=> loc[t].val
    BY <1>2 DEF High, Pulsing, Raising, Rest
  <2>4. LineOK(t)' /\ (~High(t)' => irq_lines' = {})
    BY <1>2, <1>3, <2>1, <2>2, <2>3 DEF ThreadOK, LineOK
  <2>5. RaiseOK(t)' /\ ChoiceOK(t)' /\ Exact'
    BY <1>3, <2>1 DEF RaiseOK, ChoiceOK, Exact, Eligible, CurrentPriority, Unsettled
  <2>6. DueOK(t)'
    <3>1. CASE ~loc[t].val
      BY <1>2, <3>1 DEF DueOK
    <3>2. CASE loc[t].val /\ due[t] # {}
      <4>1. due[t] = {entries[loc[t].line].vector} /\ ~entries[loc[t].line].masked
        BY <2>1, <3>2 DEF ThreadOK, DueOK
      <4>2. /\ entries'[loc[t].line].vector = entries[loc[t].line].vector
            /\ entries'[loc[t].line].masked = entries[loc[t].line].masked
        BY <1>6, <3>2 DEF Settings
      <4>3. due'[t] \subseteq requests' \/ ToCome(t)'
        BY <1>2, <1>6, <3>2 DEF ToCome, SecondDue
      <4> QED BY <1>1, <1>2, <3>2, <4>1, <4>2, <4>3 DEF DueOK, Pulsing
    <3>3. CASE loc[t].val /\ due[t] = {}
      BY <1>2, <3>3 DEF DueOK
    <3> QED BY <3>1, <3>2, <3>3
  <2> QED BY <2>4, <2>5, <2>6 DEF ThreadOK
<1> QED BY <1>2, <1>4, <1>5, <1>6, StepInv DEF IInv, Types

-----------------------------------------------------------------------------
(* A pulse.                                                                *)

\* The values of unused locals have their types.
LEMMA NothingTyped == NoEntry \in Entry /\ NoLocals \in Locals
<1>1. NoEntry \in Entry
  BY DEF NoEntry, Entry
<1> QED BY <1>1 DEF NoLocals, Locals, AnyVector

\* DynamicApicIrqLine::pulse begins with the line low.
LEMMA PulseInv ==
  ASSUME IInv, NEW t \in Threads, NEW l \in Lines, Pulse(t, l)
  PROVE  IInv'
<1> DEFINE c == [NoLocals EXCEPT !.line = l, !.val = TRUE]
           s == IF ~async /\ MustDeliver(entries[l]) THEN {entries[l].vector} ELSE {}
<1>0. /\ Turn(t) /\ pc[t] \in {"exec", "idle"}
      /\ pc' = [pc EXCEPT ![t] = "line"] /\ loc' = [loc EXCEPT ![t] = c] /\ due' = [due EXCEPT ![t] = s]
      /\ UNCHANGED <<async, irq_lines, entries, requests, in_service, task_priority, pending_intr, enabled,
                     periodic, iflag>>
  BY DEF Pulse, Exec, At, Goto, io, local
<1>1. c \in Locals /\ c.line = l /\ c.val /\ s \in SUBSET AnyVector /\ "line" \in Labels(t)
  <2>1. entries[l].vector \in AnyVector
    BY DEF IInv, Types, Entry, AnyVector
  <2> QED BY <2>1, NothingTyped DEF Locals, Labels, Pulsing
<1>2. s # {} => s = {entries[l].vector} /\ MustDeliver(entries[l])
  OBVIOUS
<1> HIDE DEF c, s
<1>3. /\ pc' \in [Threads -> AllLabels] /\ loc' \in [Threads -> Locals] /\ due' \in [Threads -> SUBSET AnyVector]
      /\ pc'[t] = "line" /\ loc'[t] = c /\ due'[t] = s
      /\ \A u \in Threads \ {t} : pc'[u] = pc[u] /\ loc'[u] = loc[u] /\ due'[u] = due[u]
  BY <1>0, <1>1, Moved
<1>4. Shape(t)'
  BY <1>1, <1>3 DEF Shape, Pulsing, Raising
<1>5. Outranks'
  BY <1>0, <1>3 DEF IInv, Outranks, Threads
<1>6. ASSUME ~async
      PROVE  ThreadOK(t)' /\ (pc'[t] \notin Unsettled => Exact') /\ (~High(t)' => irq_lines' = {})
  <2>1. Exact /\ irq_lines = {}
    BY <1>0, <1>6, Alone DEF Unsettled, High, Pulsing, Raising
  <2>2. ~High(t)'
    BY <1>1, <1>3 DEF High
  <2>3. LineOK(t)' /\ RaiseOK(t)' /\ ChoiceOK(t)'
    BY <1>3, <2>2 DEF LineOK, RaiseOK, ChoiceOK
  <2>4. DueOK(t)'
    BY <1>0, <1>1, <1>2, <1>3 DEF DueOK, ToCome, MustDeliver, Pulsing
  <2> QED BY <1>0, <2>1, <2>3, <2>4 DEF ThreadOK, Exact, Eligible, CurrentPriority
<1> QED BY <1>0, <1>1, <1>3, <1>4, <1>5, <1>6, StepInv DEF IInv, Types

\* The first half of a set: the level, and whether it changed.
LEMMA SetLineInv ==
  ASSUME IInv, NEW t \in Threads, SetLine(t)
  PROVE  IInv'
<1> DEFINE l == loc[t].line
           c == [loc[t] EXCEPT !.changed = (l \in irq_lines) # loc[t].val]
<1>0. /\ Turn(t) /\ pc[t] = "line"
      /\ irq_lines' = IF loc[t].val THEN irq_lines \cup {l} ELSE irq_lines \ {l}
      /\ pc' = [pc EXCEPT ![t] = "entry"] /\ loc' = [loc EXCEPT ![t] = c] /\ due' = due
      /\ UNCHANGED <<async, entries, requests, in_service, task_priority, pending_intr, enabled, periodic, iflag>>
  BY DEF SetLine, At, Goto, local
<1>1. loc[t] \in Locals /\ l \in Lines /\ due[t] \in SUBSET AnyVector /\ "entry" \in Labels(t)
  BY <1>0 DEF IInv, Types, Shape, Pulsing, Raising, Labels
<1>2. c \in Locals /\ c.line = l /\ c.val = loc[t].val /\ c.changed = ((l \in irq_lines) # loc[t].val)
  BY <1>1 DEF Locals
<1> HIDE DEF c
<1>3. /\ pc' \in [Threads -> AllLabels] /\ loc' \in [Threads -> Locals] /\ due' \in [Threads -> SUBSET AnyVector]
      /\ pc'[t] = "entry" /\ loc'[t] = c /\ due'[t] = due[t]
      /\ \A u \in Threads \ {t} : pc'[u] = pc[u] /\ loc'[u] = loc[u] /\ due'[u] = due[u]
  BY <1>0, <1>1, <1>2, Moved
<1>4. Shape(t)' /\ irq_lines' \subseteq Lines
  BY <1>0, <1>1, <1>2, <1>3 DEF Shape, Pulsing, Raising, IInv, Types
<1>5. Outranks'
  BY <1>0, <1>3 DEF IInv, Outranks, Threads
<1>6. ASSUME ~async
      PROVE  ThreadOK(t)' /\ (pc'[t] \notin Unsettled => Exact') /\ (~High(t)' => irq_lines' = {})
  <2>1. ThreadOK(t) /\ Exact /\ (~High(t) => irq_lines = {})
    BY <1>0, <1>6, Alone DEF Unsettled
  <2>2. loc[t].val \in BOOLEAN
    BY <1>1 DEF Locals
  <2>3. (High(t) <=> ~loc[t].val) /\ (High(t)' <=> loc[t].val)
    BY <1>0, <1>2, <1>3, <2>2 DEF High, Pulsing
  <2>4. irq_lines = IF loc[t].val THEN {} ELSE {l}
    BY <2>1, <2>3 DEF ThreadOK, LineOK
  <2>5. c.changed /\ irq_lines' = IF loc[t].val THEN {l} ELSE {}
    BY <1>0, <1>2, <2>2, <2>4
  <2>6. LineOK(t)' /\ (~High(t)' => irq_lines' = {})
    BY <1>2, <1>3, <2>3, <2>5 DEF LineOK
  <2>7. RaiseOK(t)' /\ ChoiceOK(t)'
    BY <1>3 DEF RaiseOK, ChoiceOK
  <2>8. DueOK(t)'
    BY <1>0, <1>1, <1>2, <1>3, <2>1 DEF ThreadOK, DueOK, ToCome, SecondDue, Pulsing
  <2> QED BY <1>0, <2>1, <2>6, <2>7, <2>8 DEF ThreadOK, Exact, Eligible, CurrentPriority
<1> QED BY <1>0, <1>1, <1>3, <1>4, <1>5, <1>6, StepInv DEF IInv, Types

\* What set decides, by the settings of the entry.
LEMMA Decisions ==
  ASSUME NEW e \in Entry, NEW val \in BOOLEAN, NEW changed \in BOOLEAN
  PROVE  /\ Decision(e, val, changed) \in {"latch", "raise", "receive", "clear", "ignore"}
         /\ Decision(e, val, changed) = "latch" => e.masked
         /\ Decision(e, val, changed) = "clear" => ~e.masked /\ e.level /\ val = e.low
         /\ Decision(e, val, changed) = "ignore" /\ ~e.masked /\ changed =>
              \/ ~e.level /\ val = e.low
              \/ e.level /\ val # e.low /\ e.pending
<1>1. e.masked \in BOOLEAN /\ e.level \in BOOLEAN /\ e.low \in BOOLEAN /\ e.pending \in BOOLEAN
  BY DEF Entry
<1> QED BY <1>1 DEF Decision

\* The second half of a set loads the entry and decides.
LEMMA LoadEntryInv ==
  ASSUME IInv, NEW t \in Threads, LoadEntry(t)
  PROVE  IInv'
<1> DEFINE e == entries[loc[t].line]
           d == Decision(e, loc[t].val, loc[t].changed)
           c == [loc[t] EXCEPT !.entry = e, !.vector = e.vector]
<1>0. /\ Turn(t) /\ pc[t] = "entry"
      /\ IF d = "ignore" THEN EndSet(t)
         ELSE pc' = [pc EXCEPT ![t] = d] /\ loc' = [loc EXCEPT ![t] = c] /\ due' = due
      /\ UNCHANGED <<async, irq_lines, entries, requests, in_service, task_priority, pending_intr, enabled,
                     periodic, iflag>>
  BY DEF LoadEntry, At, Goto, io, local
<1>1. loc[t] \in Locals /\ loc[t].line \in Lines /\ due[t] \in SUBSET AnyVector /\ entries \in [Lines -> Entry]
  BY <1>0 DEF IInv, Types, Shape, Pulsing, Raising
<1>2. e \in Entry /\ e.vector \in AnyVector /\ loc[t].val \in BOOLEAN /\ loc[t].changed \in BOOLEAN
  BY <1>1 DEF Entry, AnyVector, Locals
<1>3. /\ d \in {"latch", "raise", "receive", "clear", "ignore"}
      /\ d = "latch" => e.masked
      /\ d = "clear" => ~e.masked /\ e.level /\ loc[t].val = e.low
      /\ d = "ignore" /\ ~e.masked /\ loc[t].changed =>
           \/ ~e.level /\ loc[t].val = e.low
           \/ e.level /\ loc[t].val # e.low /\ e.pending
  BY <1>2, Decisions
<1>4. c \in Locals /\ c.line = loc[t].line /\ c.val = loc[t].val /\ c.entry = e /\ c.vector = e.vector
  <2> HIDE DEF e
  <2> QED BY <1>1, <1>2 DEF Locals
<1> HIDE DEF d, c
<1>5. ~async => ThreadOK(t) /\ Exact /\ (~High(t) => irq_lines = {})
  BY <1>0, Alone DEF Unsettled
<1>6. CASE d = "ignore"
  <2>1. ASSUME ~async, due[t] # {}, loc[t].val
        PROVE  due[t] \subseteq requests \/ (e.low /\ (e.level => ~e.pending))
    <3>1. ~e.masked /\ loc[t].changed /\ (due[t] \subseteq requests \/ MustDeliver(e))
      BY <1>0, <1>5, <2>1 DEF ThreadOK, DueOK, LineOK, ToCome
    <3>2. e.low \in BOOLEAN /\ e.level \in BOOLEAN /\ e.pending \in BOOLEAN
      BY <1>2 DEF Entry
    <3> QED BY <1>3, <1>6, <2>1, <3>1, <3>2 DEF MustDeliver
  <2>2. EndSet(t)
    BY <1>0, <1>6
  <2> QED BY <1>0, <1>1, <2>1, <2>2, EndSetInv
<1>7. CASE d # "ignore"
  <2>1. pc' = [pc EXCEPT ![t] = d] /\ loc' = [loc EXCEPT ![t] = c] /\ due' = due /\ d \in Labels(t)
    BY <1>0, <1>3, <1>7 DEF Labels, Pulsing, Raising
  <2>2. /\ pc' \in [Threads -> AllLabels] /\ loc' \in [Threads -> Locals] /\ due' \in [Threads -> SUBSET AnyVector]
        /\ pc'[t] = d /\ loc'[t] = c /\ due'[t] = due[t]
        /\ \A u \in Threads \ {t} : pc'[u] = pc[u] /\ loc'[u] = loc[u] /\ due'[u] = due[u]
    BY <1>1, <1>4, <2>1, Moved
  <2>3. d \in {"latch", "raise", "receive", "clear"}
    BY <1>3, <1>7
  <2>4. Shape(t)'
    BY <1>1, <1>4, <2>2 DEF Shape
  <2>5. Outranks'
    BY <1>0, <2>2, <2>3 DEF IInv, Outranks, Threads
  <2>6. ASSUME ~async
        PROVE  ThreadOK(t)' /\ (pc'[t] \notin Unsettled => Exact') /\ (~High(t)' => irq_lines' = {})
    <3>1. High(t)' <=> High(t)
      BY <1>0, <1>4, <2>2, <2>3 DEF High, Pulsing, Raising
    <3>2. LineOK(t)' /\ (~High(t)' => irq_lines' = {})
      BY <1>0, <1>4, <1>5, <2>2, <2>3, <2>6, <3>1 DEF ThreadOK, LineOK
    <3>3. RaiseOK(t)' /\ ChoiceOK(t)' /\ Exact'
      BY <1>0, <1>5, <2>2, <2>3, <2>6 DEF RaiseOK, ChoiceOK, Exact, Eligible, CurrentPriority
    <3>4. DueOK(t)'
      <4> SUFFICES ASSUME due[t] # {} PROVE DueOK(t)'
        BY <2>2 DEF DueOK
      <4>1. due[t] = {e.vector} /\ ~e.masked /\ (due[t] \subseteq requests \/ ToCome(t))
        BY <1>5, <2>6 DEF ThreadOK, DueOK
      <4>2. loc'[t].line = loc[t].line /\ entries' = entries /\ loc'[t].entry = e /\ loc'[t].vector = e.vector
        BY <1>0, <1>4, <2>2
      <4>3. d \in {"raise", "receive", "clear"}
        BY <1>3, <2>3, <4>1
      <4>4. e.low \in BOOLEAN
        BY <1>2 DEF Entry
      <4>5. d = "clear" /\ ToCome(t) => loc[t].val /\ e.low
        BY <1>0, <1>2, <1>3, <4>4 DEF ToCome, SecondDue
      <4>6. due'[t] \subseteq requests' \/ ToCome(t)'
        BY <1>0, <1>4, <2>2, <4>1, <4>2, <4>3, <4>5 DEF ToCome
      <4>7. Settings(loc'[t].entry) = Settings(entries'[loc'[t].line])
        BY <4>2
      <4> QED BY <1>1, <2>2, <4>1, <4>2, <4>3, <4>6, <4>7 DEF DueOK, Pulsing, Raising
    <3> QED BY <3>2, <3>3, <3>4 DEF ThreadOK
  <2> QED BY <1>0, <2>2, <2>4, <2>5, <2>6, <2>1, StepInv DEF IInv, Types
<1> QED BY <1>6, <1>7

\* A copy of the entry, with other delivery bits, is an entry.
LEMMA CopyTyped ==
  ASSUME IInv, NEW t \in Threads, loc[t].line \in Lines, NEW p \in BOOLEAN, NEW r \in BOOLEAN,
         NEW e, e = [loc[t].entry EXCEPT !.pending = p, !.received = r],
         entries' = [entries EXCEPT ![loc[t].line] = e]
  PROVE  /\ e \in Entry /\ Settings(e) = Settings(loc[t].entry) /\ e.pending = p
         /\ entries' \in [Lines -> Entry] /\ entries'[loc[t].line] = e
<1>1. loc[t].entry \in Entry /\ entries \in [Lines -> Entry]
  BY DEF IInv, Types, Locals
<1>2. e \in Entry /\ e.pending = p /\ e.vector = loc[t].entry.vector /\ e.level = loc[t].entry.level
        /\ e.low = loc[t].entry.low /\ e.masked = loc[t].entry.masked
  BY <1>1 DEF Entry
<1> QED BY <1>1, <1>2 DEF Settings

\* The entry is written back, and the set is over.
LEMMA StoreInv ==
  ASSUME IInv, NEW t \in Threads, LatchMasked(t) \/ ClearLevel(t) \/ AfterSend(t)
  PROVE  IInv'
<1>1. /\ Turn(t) /\ pc[t] \in {"latch", "clear", "after"} /\ EndSet(t)
      /\ UNCHANGED <<async, irq_lines, requests, in_service, task_priority, pending_intr, enabled, periodic, iflag>>
  BY DEF LatchMasked, ClearLevel, AfterSend, StoreEntry, At, local
<1>2. loc[t].line \in Lines /\ loc[t].entry \in Entry
  BY <1>1 DEF IInv, Types, Locals, Shape, Pulsing, Raising
<1>3. loc[t].entry = [loc[t].entry EXCEPT !.pending = loc[t].entry.pending, !.received = loc[t].entry.received]
        /\ loc[t].entry.pending \in BOOLEAN /\ loc[t].entry.received \in BOOLEAN /\ loc[t].entry.level \in BOOLEAN
  BY <1>2 DEF Entry
<1>4. PICK p \in BOOLEAN, r \in BOOLEAN :
        /\ entries' = [entries EXCEPT ![loc[t].line] = [loc[t].entry EXCEPT !.pending = p, !.received = r]]
        /\ pc[t] = "clear" => ~p
  <2>1. CASE LatchMasked(t)
    <3>1. [loc[t].entry EXCEPT !.pending = TRUE]
            = [loc[t].entry EXCEPT !.pending = TRUE, !.received = loc[t].entry.received]
      BY <1>2 DEF Entry
    <3> QED BY <1>3, <2>1, <3>1 DEF LatchMasked, StoreEntry, At
  <2>2. CASE ClearLevel(t)
    BY <2>2 DEF ClearLevel, StoreEntry
  <2>3. CASE AfterSend(t)
    <3>1. [loc[t].entry EXCEPT !.pending = loc[t].entry.level]
            = [loc[t].entry EXCEPT !.pending = loc[t].entry.level, !.received = loc[t].entry.received]
      BY <1>2 DEF Entry
    <3> QED BY <1>3, <2>3, <3>1 DEF AfterSend, StoreEntry, At
  <2> QED BY <2>1, <2>2, <2>3
<1> DEFINE e == [loc[t].entry EXCEPT !.pending = p, !.received = r]
<1>5. /\ e \in Entry /\ Settings(e) = Settings(loc[t].entry) /\ e.pending = p
      /\ entries' \in [Lines -> Entry] /\ entries'[loc[t].line] = e
  BY <1>2, <1>4, CopyTyped
<1> HIDE DEF e
<1>6. ASSUME ~async, due[t] # {}, loc[t].val
      PROVE  /\ Settings(e) = Settings(entries[loc[t].line])
             /\ due[t] \subseteq requests \/ (e.low /\ (e.level => ~e.pending))
  <2>1. DueOK(t)
    BY <1>1, <1>6, Alone DEF ThreadOK
  <2>2. Settings(loc[t].entry) = Settings(entries[loc[t].line]) /\ (due[t] \subseteq requests \/ ToCome(t))
    BY <1>1, <1>6, <2>1 DEF DueOK
  <2>3. ToCome(t) => pc[t] = "clear" /\ entries[loc[t].line].low
    BY <1>1 DEF ToCome
  <2>4. e.low = entries[loc[t].line].low
    BY <1>5, <2>2 DEF Settings
  <2> QED BY <1>4, <1>5, <2>2, <2>3, <2>4
<1> QED BY <1>1, <1>5, <1>6, EndSetInv

\* A level is received before its vector is raised.
LEMMA MarkReceivedInv ==
  ASSUME IInv, NEW t \in Threads, MarkReceived(t)
  PROVE  IInv'
<1>0. /\ Turn(t) /\ pc[t] = "receive" /\ pc' = [pc EXCEPT ![t] = "raise"] /\ loc' = loc /\ due' = due
      /\ entries' = [entries EXCEPT ![loc[t].line] = [loc[t].entry EXCEPT !.received = TRUE]]
      /\ UNCHANGED <<async, irq_lines, requests, in_service, task_priority, pending_intr, enabled, periodic, iflag>>
  BY DEF MarkReceived, StoreEntry, At, Goto, local
<1>1. /\ loc[t] \in Locals /\ loc[t].line \in Lines /\ due[t] \in SUBSET AnyVector /\ loc[t].entry \in Entry
      /\ "raise" \in Labels(t)
  BY <1>0 DEF IInv, Types, Locals, Shape, Pulsing, Raising, Labels
<1> DEFINE e == [loc[t].entry EXCEPT !.received = TRUE]
<1>2. e = [loc[t].entry EXCEPT !.pending = loc[t].entry.pending, !.received = TRUE]
        /\ loc[t].entry.pending \in BOOLEAN
  BY <1>1 DEF Entry
<1>3. e \in Entry /\ Settings(e) = Settings(loc[t].entry)
        /\ entries' \in [Lines -> Entry] /\ entries'[loc[t].line] = e
  BY <1>0, <1>1, <1>2, CopyTyped
<1> HIDE DEF e
<1>4. /\ pc' \in [Threads -> AllLabels] /\ loc' \in [Threads -> Locals] /\ due' \in [Threads -> SUBSET AnyVector]
      /\ pc'[t] = "raise" /\ loc'[t] = loc[t] /\ due'[t] = due[t]
      /\ \A u \in Threads \ {t} : pc'[u] = pc[u] /\ loc'[u] = loc[u] /\ due'[u] = due[u]
  BY <1>0, <1>1, Moved
<1>5. Shape(t)'
  BY <1>1, <1>4 DEF Shape
<1>6. Outranks'
  BY <1>0, <1>4 DEF IInv, Outranks, Threads
<1>7. ASSUME ~async
      PROVE  ThreadOK(t)' /\ (pc'[t] \notin Unsettled => Exact') /\ (~High(t)' => irq_lines' = {})
  <2>1. ThreadOK(t) /\ Exact /\ (~High(t) => irq_lines = {})
    BY <1>0, <1>7, Alone DEF Unsettled
  <2>2. High(t)' <=> High(t)
    BY <1>0, <1>4 DEF High, Pulsing, Raising
  <2>3. LineOK(t)' /\ (~High(t)' => irq_lines' = {})
    BY <1>0, <1>4, <2>1, <2>2 DEF ThreadOK, LineOK
  <2>4. RaiseOK(t)' /\ ChoiceOK(t)' /\ Exact'
    BY <1>0, <1>4, <2>1 DEF RaiseOK, ChoiceOK, Exact, Eligible, CurrentPriority
  <2>5. DueOK(t)'
    <3> SUFFICES ASSUME due[t] # {} PROVE DueOK(t)'
      BY <1>4 DEF DueOK
    <3>1. /\ due[t] = {entries[loc[t].line].vector} /\ ~entries[loc[t].line].masked
          /\ Settings(loc[t].entry) = Settings(entries[loc[t].line])
          /\ loc[t].vector = entries[loc[t].line].vector
      BY <1>0, <2>1 DEF ThreadOK, DueOK
    <3>2. e.vector = entries[loc[t].line].vector /\ e.masked = entries[loc[t].line].masked
            /\ Settings(loc[t].entry) = Settings(e)
      BY <1>3, <3>1 DEF Settings
    <3>3. ToCome(t)'
      BY <1>4 DEF ToCome
    <3> QED BY <1>1, <1>3, <1>4, <3>1, <3>2, <3>3 DEF DueOK, Pulsing, Raising
  <2> QED BY <2>3, <2>4, <2>5 DEF ThreadOK
<1> QED BY <1>0, <1>1, <1>3, <1>4, <1>5, <1>6, <1>7, StepInv DEF IInv, Types

-----------------------------------------------------------------------------
(* raise_interrupt.                                                        *)

\* Where raise_interrupt returns to: the pulse, or the guest.
LEMMA RaisedTo ==
  ASSUME IInv, NEW t \in Threads, pc[t] \in Raising
  PROVE  /\ Raised(t) \in Labels(t) /\ Raised(t) \in {"fetch", "after"}
         /\ loc[t].line \in Lines <=> Raised(t) = "after"
<1>1. NoLine \notin Lines
  BY LinesAssumption DEF NoLine
<1>2. loc[t].line \in Lines \/ (t = CPU /\ loc[t].line = NoLine)
  BY DEF IInv, Shape
<1> QED BY <1>1, <1>2 DEF Raised, Labels, Pulsing, OnlyCpu

\* Between the request and the end of the call only the share of INTR changes.
LEMMA RaiseStepInv ==
  ASSUME IInv, NEW t \in Threads, Turn(t), pc[t] \in {"raise", "isr", "prio", "tpr", "intr"},
         NEW label, label \in {"isr", "prio", "tpr", "intr", Raised(t)}, pc' = [pc EXCEPT ![t] = label],
         pending_intr' \in BOOLEAN, requests' \subseteq AnyVector, requests \subseteq requests',
         pc[t] = "raise" => loc[t].vector \in requests',
         NEW c \in Locals, loc' = [loc EXCEPT ![t] = c] \/ (loc' = loc /\ c = loc[t]),
         c.line = loc[t].line, c.val = loc[t].val, c.entry = loc[t].entry, c.vector = loc[t].vector,
         UNCHANGED <<async, irq_lines, entries, in_service, task_priority, enabled, periodic, iflag, due>>,
         ~async => RaiseOK(t)' /\ (label = Raised(t) => Exact')
  PROVE  IInv'
<1>1. /\ label \in Labels(t) /\ label \in {"isr", "prio", "tpr", "intr", "fetch", "after"}
      /\ label = Raised(t) <=> label \in {"fetch", "after"}
      /\ loc[t].line \in Lines => label # "fetch"
      /\ label = "after" => loc[t].line \in Lines
  BY RaisedTo DEF Labels, Pulsing, Raising
<1>2. loc[t] \in Locals /\ due[t] \in SUBSET AnyVector
  BY DEF IInv, Types
<1>3. /\ pc' \in [Threads -> AllLabels] /\ loc' \in [Threads -> Locals] /\ due' \in [Threads -> SUBSET AnyVector]
      /\ pc'[t] = label /\ loc'[t] = c /\ due'[t] = due[t]
      /\ \A u \in Threads \ {t} : pc'[u] = pc[u] /\ loc'[u] = loc[u] /\ due'[u] = due[u]
  BY <1>1, <1>2, Moved
<1>4. Shape(t)'
  BY <1>1, <1>3 DEF IInv, Shape, Pulsing, Raising
<1>5. Outranks'
  BY <1>1, <1>3 DEF IInv, Outranks, Threads
<1>6. ASSUME ~async
      PROVE  ThreadOK(t)' /\ (pc'[t] \notin Unsettled => Exact') /\ (~High(t)' => irq_lines' = {})
  <2>1. ThreadOK(t) /\ (~High(t) => irq_lines = {})
    BY <1>6, Alone
  <2>2. High(t) => loc[t].line \in Lines
    <3>1. High(t) => irq_lines = {loc[t].line}
      BY <2>1 DEF ThreadOK, LineOK
    <3>2. irq_lines \subseteq Lines
      BY DEF IInv, Types
    <3> QED BY <3>1, <3>2
  <2>3. (High(t)' <=> High(t)) \/ label = "fetch"
    BY <1>1, <1>3 DEF High, Pulsing, Raising
  <2>4. label = "fetch" => ~High(t) /\ ~High(t)'
    BY <1>1, <1>3, <2>2 DEF High, Pulsing, Raising
  <2>5. LineOK(t)' /\ (~High(t)' => irq_lines' = {})
    BY <1>1, <1>3, <2>1, <2>3, <2>4 DEF ThreadOK, LineOK
  <2>6. ChoiceOK(t)' /\ (label \notin Unsettled => Exact')
    BY <1>1, <1>3, <1>6 DEF ChoiceOK, Unsettled
  <2>7. DueOK(t)'
    <3> SUFFICES ASSUME due[t] # {} PROVE DueOK(t)'
      BY <1>3 DEF DueOK
    <3>1. /\ due[t] = {entries[loc[t].line].vector} /\ ~entries[loc[t].line].masked /\ loc[t].line \in Lines
          /\ Settings(loc[t].entry) = Settings(entries[loc[t].line])
          /\ loc[t].vector = entries[loc[t].line].vector
          /\ due[t] \subseteq requests \/ ToCome(t)
      BY <2>1 DEF ThreadOK, DueOK
    <3>2. due[t] \subseteq requests'
      BY <3>1 DEF ToCome
    <3> QED BY <1>1, <1>3, <3>1, <3>2 DEF DueOK, Pulsing, Raising
  <2> QED BY <1>3, <1>6, <2>5, <2>6, <2>7 DEF ThreadOK
<1> QED BY <1>1, <1>3, <1>4, <1>5, <1>6, StepInv DEF IInv, Types

\* The vector is requested: if it is new, INTR was exact without it.
LEMMA SetRequestInv ==
  ASSUME IInv, NEW t \in Threads, SetRequest(t)
  PROVE  IInv'
<1> DEFINE v == loc[t].vector
           label == IF v \in requests THEN Raised(t) ELSE "isr"
<1>0. /\ Turn(t) /\ pc[t] = "raise" /\ requests' = requests \cup {v} /\ pc' = [pc EXCEPT ![t] = label]
      /\ UNCHANGED <<async, irq_lines, entries, in_service, task_priority, pending_intr, enabled, periodic, iflag,
                     loc, due>>
  BY DEF SetRequest, At, Goto, io
<1>1. v \in AnyVector /\ requests' \subseteq AnyVector /\ pending_intr' \in BOOLEAN
  BY <1>0 DEF IInv, Types, Locals
<1>2. pc'[t] = label /\ Raised(t) \in {"fetch", "after"}
  BY <1>0, RaisedTo DEF IInv, Types, Raising
<1>3. ASSUME ~async
      PROVE  RaiseOK(t)' /\ (label = Raised(t) => Exact')
  <2>1. Exact
    BY <1>0, <1>3, Alone DEF Unsettled
  <2>2. CASE v \in requests
    BY <1>0, <1>2, <2>1, <2>2 DEF RaiseOK, Exact, Eligible, CurrentPriority
  <2>3. CASE v \notin requests
    <3>1. Eligible' \ {v} = Eligible
      BY <1>0, <2>3 DEF Eligible, CurrentPriority
    <3>2. pc'[t] = "isr" /\ loc'[t].vector = v /\ v \in requests'
      BY <1>0, <1>2, <2>3
    <3>3. pending_intr' <=> Eligible' \ {v} # {}
      BY <1>0, <2>1, <3>1 DEF Exact
    <3>4. RaiseOK(t)'
      BY <3>2, <3>3 DEF RaiseOK
    <3> QED BY <1>2, <2>3, <3>4
  <2> QED BY <2>2, <2>3
<1>4. label \in {"isr", Raised(t)}
  OBVIOUS
<1>5. loc[t] \in Locals
  BY DEF IInv, Types
<1> HIDE DEF label
<1> QED BY <1>0, <1>1, <1>3, <1>4, <1>5, RaiseStepInv

\* The scan of what is in service, the comparison with it or with the task
\* priority, and INTR.
LEMMA CompareInv ==
  ASSUME IInv, NEW t \in Threads,
         \/ LookInService(t) \/ (ScanOn(t) /\ pc[t] = "prio") \/ LoadPriority(t) \/ LoadTaskPriority(t)
         \/ RaiseIntr(t)
  PROVE  IInv'
<1> DEFINE v == loc[t].vector
           top == Max(Loaded(t, in_service))
           w == CASE pc[t] = "isr" -> TopWord
                  [] ScanOn(t) /\ pc[t] = "prio" -> loc[t].word - 1
                  [] OTHER -> loc[t].word
           c == [loc[t] EXCEPT !.word = w]
<1>0. /\ in_service \subseteq AnyVector /\ task_priority \in Priorities \cup {0} /\ v \in AnyVector
      /\ requests \subseteq AnyVector /\ pending_intr \in BOOLEAN /\ loc[t] \in Locals
      /\ loc \in [Threads -> Locals]
  BY DEF IInv, Types, Locals
<1>1. /\ Turn(t) /\ pc[t] \in {"isr", "prio", "tpr", "intr"} /\ pc[t] \in Raising
      /\ UNCHANGED <<async, irq_lines, entries, requests, in_service, task_priority, enabled, periodic, iflag, due>>
      /\ pending_intr' = IF pc[t] = "intr" THEN TRUE ELSE pending_intr
  BY DEF LookInService, ScanOn, LoadPriority, LoadTaskPriority, RaiseIntr, Compare, At, io, local, Raising
<1>2. PICK label \in {"prio", "tpr", "intr", Raised(t)} :
        /\ pc' = [pc EXCEPT ![t] = label]
        /\ loc' = [loc EXCEPT ![t] = c] \/ (loc' = loc /\ c = loc[t])
        /\ pc[t] = "isr" => label = IF v \in in_service THEN Raised(t) ELSE "prio"
        /\ pc[t] = "prio" => \/ label = "prio" /\ ~ScanEnds(t, in_service) /\ w = loc[t].word - 1
                             \/ /\ ScanEnds(t, in_service)
                                /\ label = IF Loaded(t, in_service) # {}
                                           THEN IF Priority(v) > Priority(top) THEN "intr" ELSE Raised(t)
                                           ELSE "tpr"
        /\ pc[t] = "tpr" => label = IF Priority(v) > Priority(task_priority) THEN "intr" ELSE Raised(t)
        /\ pc[t] = "intr" => label = Raised(t)
  <2>0. pc \in [Threads -> AllLabels] /\ (pc[t] = "prio" => pc = [pc EXCEPT ![t] = "prio"])
    BY DEF IInv, Types
  <2>a. w = loc[t].word => c = loc[t]
    BY <1>0 DEF Locals
  <2>1. CASE LookInService(t)
    BY <2>1 DEF LookInService, StartScan, At, Goto
  <2>2. CASE ScanOn(t) /\ pc[t] = "prio"
    <3>1. w = loc[t].word - 1
      BY <2>2
    <3> HIDE DEF w
    <3> QED BY <2>0, <2>2, <3>1 DEF ScanOn, At
  <2>3. CASE LoadPriority(t)
    <3>1. ~ScanOn(t) /\ pc[t] = "prio"
      BY <2>3 DEF LoadPriority, ScanOn, At
    <3>2. w = loc[t].word
      BY <3>1
    <3> HIDE DEF w, c
    <3> QED BY <2>3, <2>a, <3>1, <3>2 DEF LoadPriority, Compare, At, Goto
  <2>4. CASE LoadTaskPriority(t)
    <3>1. pc[t] = "tpr"
      BY <2>4 DEF LoadTaskPriority, At
    <3>2. w = loc[t].word
      BY <3>1
    <3> HIDE DEF w, c
    <3> QED BY <2>4, <2>a, <3>1, <3>2 DEF LoadTaskPriority, Compare, At, Goto
  <2>5. CASE RaiseIntr(t)
    <3>1. pc[t] = "intr"
      BY <2>5 DEF RaiseIntr, At
    <3>2. w = loc[t].word
      BY <3>1
    <3> HIDE DEF w, c
    <3> QED BY <2>5, <2>a, <3>1, <3>2 DEF RaiseIntr, At, Goto
  <2> QED BY <2>1, <2>2, <2>3, <2>4, <2>5
<1>a. /\ \A x \in in_service : x \div 32 <= TopWord
      /\ ToScan(t, in_service) /\ ~ScanEnds(t, in_service) =>
           \A x \in in_service : x \div 32 <= loc[t].word - 1
      /\ TopWord \in 0 .. 7 /\ (~ScanEnds(t, in_service) => loc[t].word - 1 \in 0 .. 7)
      /\ Loaded(t, in_service) # {} /\ ToScan(t, in_service) => in_service # {} /\ top = Max(in_service)
      /\ Loaded(t, in_service) = {} /\ ToScan(t, in_service) /\ ScanEnds(t, in_service) => in_service = {}
  BY <1>0, ScanFinds, ScanCovers DEF Loaded
<1>b. w \in 0 .. 7
  <2>1. ScanOn(t) /\ pc[t] = "prio" => ~ScanEnds(t, in_service)
    BY DEF ScanOn, At
  <2>2. loc[t].word \in 0 .. 7
    BY <1>0 DEF Locals
  <2> QED BY <1>a, <2>1, <2>2
<1>c. /\ c \in Locals /\ c.word = w /\ c.line = loc[t].line /\ c.val = loc[t].val /\ c.entry = loc[t].entry
      /\ c.vector = v
  <2> HIDE DEF w
  <2> QED BY <1>0, <1>b DEF Locals
<1>3. pc'[t] = label /\ Raised(t) \in {"fetch", "after"} /\ loc'[t] = c
  <2> HIDE DEF c
  <2> QED BY <1>0, <1>1, <1>2, <1>c, RaisedTo DEF IInv, Types
<1>w. pc[t] = "isr" => w = TopWord
  OBVIOUS
<1> HIDE DEF c, w, top
<1>5. /\ CurrentPriority \in Nat
      /\ in_service = {} => CurrentPriority = Priority(task_priority)
      /\ in_service # {} => CurrentPriority = Priority(Max(in_service))
      /\ \A x \in in_service : Priority(x) <= CurrentPriority
  BY <1>0, PriorityNow
<1>6. Priority(v) \in Nat
  BY <1>0, VectorRange, PriorityMonotone
<1>7. ASSUME ~async
      PROVE  RaiseOK(t)' /\ (label = Raised(t) => Exact')
  <2>1. /\ pc[t] # "intr" => v \in requests /\ (pending_intr <=> Eligible \ {v} # {})
        /\ pc[t] = "prio" => ToScan(t, in_service)
        /\ pc[t] = "tpr" => in_service = {}
        /\ pc[t] = "intr" => v \in Eligible
    BY <1>1, <1>7, Alone DEF ThreadOK, RaiseOK
  <2>2. Eligible' = Eligible
    BY <1>1 DEF Eligible, CurrentPriority
  <2>3. CASE label \in {"prio", "tpr"}
    <3>1. pc[t] # "intr" /\ pc[t] # "tpr" /\ pending_intr' = pending_intr
      BY <1>1, <1>2, <1>3, <2>3
    <3>2. label = "tpr" => in_service = {}
      BY <1>1, <1>2, <1>3, <1>a, <2>1, <2>3
    <3>3. label = "prio" => \A x \in in_service : x \div 32 <= w
      BY <1>1, <1>2, <1>3, <1>a, <1>w, <2>1, <2>3
    <3>4. label = "prio" => ToScan(t, in_service)'
      BY <1>1, <1>3, <1>c, <3>3 DEF ToScan
    <3>5. v \in requests /\ (pending_intr <=> Eligible \ {v} # {})
      BY <2>1, <3>1
    <3> QED BY <1>1, <1>3, <1>c, <2>2, <2>3, <3>1, <3>2, <3>4, <3>5 DEF RaiseOK
  <2>4. CASE label = "intr"
    <3>1. pc[t] \in {"prio", "tpr"} /\ Priority(v) > CurrentPriority
      BY <1>1, <1>2, <1>3, <1>5, <1>a, <2>1, <2>4
    <3>2. v \in Eligible
      BY <2>1, <3>1 DEF Eligible
    <3> QED BY <1>1, <1>3, <1>c, <2>2, <2>4, <3>2 DEF RaiseOK
  <2>5. CASE label = Raised(t)
    <3>1. RaiseOK(t)'
      BY <1>3, <2>5 DEF RaiseOK
    <3>2. CASE pc[t] = "intr"
      <4>1. pending_intr' = TRUE /\ Eligible' # {}
        BY <1>1, <2>1, <2>2, <3>2
      <4> QED BY <3>1, <4>1, Zenon DEF Exact
    <3>3. CASE pc[t] # "intr"
      <4>1. ~(Priority(v) > CurrentPriority)
        BY <1>1, <1>2, <1>3, <1>5, <1>6, <1>a, <2>1, <2>5, <3>3
      <4>2. Eligible \ {v} = Eligible
        BY <4>1 DEF Eligible
      <4>3. pending_intr' = pending_intr /\ (pending_intr <=> Eligible # {})
        BY <1>1, <2>1, <3>3, <4>2
      <4> QED BY <2>2, <3>1, <4>3, Zenon DEF Exact
    <3> QED BY <3>1, <3>2, <3>3
  <2> QED BY <2>3, <2>4, <2>5
<1>8. /\ pending_intr' \in BOOLEAN /\ requests' \subseteq AnyVector /\ requests \subseteq requests'
      /\ pc[t] # "raise" /\ pc[t] \in {"raise", "isr", "prio", "tpr", "intr"}
      /\ label \in {"isr", "prio", "tpr", "intr", Raised(t)}
  BY <1>0, <1>1
<1>9. /\ pc' = [pc EXCEPT ![t] = label]
      /\ loc' = [loc EXCEPT ![t] = c] \/ (loc' = loc /\ c = loc[t])
  BY <1>2
<1> QED BY <1>1, <1>7, <1>8, <1>9, <1>c, RaiseStepInv

-----------------------------------------------------------------------------
(* The processor.                                                          *)

\* A step of the CPU outside a pulse: its choice and the share of INTR.
LEMMA CpuInv ==
  ASSUME IInv, Turn(CPU), pc[CPU] \in OnlyCpu, NEW label \in OnlyCpu, NEW c \in Locals,
         pc' = [pc EXCEPT ![CPU] = label],
         loc' = [loc EXCEPT ![CPU] = c] \/ (loc' = loc /\ c = loc[CPU]),
         UNCHANGED <<async, irq_lines, due>>, entries' \in [Lines -> Entry],
         enabled' \in BOOLEAN, periodic' \in BOOLEAN, iflag' \in BOOLEAN,
         requests' \subseteq AnyVector, in_service' \subseteq AnyVector,
         task_priority' \in Priorities \cup {0}, pending_intr' \in BOOLEAN,
         Outranks',
         ~async => ChoiceOK(CPU)' /\ (label \notin Unsettled => Exact')
  PROVE  IInv'
<1>0. CPU \in Threads /\ label \in Labels(CPU) /\ due[CPU] \in SUBSET AnyVector
  BY DEF Threads, Labels, IInv, Types
<1>1. /\ pc' \in [Threads -> AllLabels] /\ loc' \in [Threads -> Locals] /\ due' \in [Threads -> SUBSET AnyVector]
      /\ pc'[CPU] = label /\ loc'[CPU] = c /\ due'[CPU] = due[CPU]
      /\ \A u \in Threads \ {CPU} : pc'[u] = pc[u] /\ loc'[u] = loc[u] /\ due'[u] = due[u]
  BY <1>0, Moved
<1>2. Shape(CPU)'
  BY <1>1 DEF Shape, OnlyCpu, Pulsing, Raising
<1>3. ASSUME ~async
      PROVE  ThreadOK(CPU)' /\ (pc'[CPU] \notin Unsettled => Exact') /\ (~High(CPU)' => irq_lines' = {})
  <2>1. DueOK(CPU) /\ (~High(CPU) => irq_lines = {})
    BY <1>0, <1>3, Alone DEF ThreadOK
  <2>2. ~High(CPU) /\ ~High(CPU)' /\ due[CPU] = {}
    BY <1>1, <2>1 DEF High, DueOK, OnlyCpu, Pulsing, Raising
  <2>3. LineOK(CPU)' /\ RaiseOK(CPU)' /\ DueOK(CPU)'
    BY <1>1, <2>2 DEF LineOK, RaiseOK, DueOK, OnlyCpu
  <2> QED BY <1>1, <1>3, <2>1, <2>2, <2>3 DEF ThreadOK
<1>4. irq_lines' \subseteq Lines /\ pc'[CPU] \in Labels(CPU)
  BY <1>0, <1>1 DEF IInv, Types
<1> QED BY <1>0, <1>1, <1>2, <1>3, <1>4, StepInv

\* The CPU starts a scan of the requests: every word is still to come.
LEMMA ScanStarts ==
  ASSUME IInv, StartScan(CPU) \/ loc' = loc
  PROVE  \E c \in Locals : /\ loc' = [loc EXCEPT ![CPU] = c] \/ (loc' = loc /\ c = loc[CPU])
                           /\ StartScan(CPU) => \A r \in requests : r \div 32 <= c.word
<1>0. CPU \in Threads /\ loc[CPU] \in Locals /\ requests \subseteq AnyVector /\ loc \in [Threads -> Locals]
  BY DEF Threads, IInv, Types
<1>1. TopWord \in 0 .. 7 /\ \A r \in requests : r \div 32 <= TopWord
  BY <1>0, ScanCovers
<1>2. CASE StartScan(CPU)
  <2> DEFINE c == [loc[CPU] EXCEPT !.word = TopWord]
  <2>1. c \in Locals /\ c.word = TopWord
    BY <1>0, <1>1 DEF Locals
  <2>2. loc' = [loc EXCEPT ![CPU] = c]
    BY <1>2 DEF StartScan
  <2> HIDE DEF c
  <2> QED BY <1>1, <2>1, <2>2
<1>3. CASE ~StartScan(CPU)
  BY <1>0, <1>3
<1> QED BY <1>2, <1>3

\* The CPU's scan passes an empty word.
LEMMA ScanOnInv ==
  ASSUME IInv, NEW t \in Threads, ScanOn(t), pc[t] # "prio"
  PROVE  IInv'
<1> DEFINE c == [loc[CPU] EXCEPT !.word = loc[CPU].word - 1]
<1>0. t = CPU /\ pc[CPU] \in {"ack", "pending"} /\ pc[CPU] \in OnlyCpu
  <2>1. pc[t] \in {"ack", "pending"} /\ pc[t] \in Labels(t)
    BY DEF ScanOn, At, IInv, Types
  <2> QED BY <2>1 DEF Labels, Pulsing, Raising, OnlyCpu
<1>1. /\ Turn(CPU) /\ CPU \in Threads /\ ~ScanEnds(CPU, requests) /\ loc' = [loc EXCEPT ![CPU] = c]
      /\ UNCHANGED <<async, irq_lines, entries, requests, in_service, task_priority, pending_intr, enabled,
                     periodic, iflag, pc, due>>
  BY <1>0 DEF ScanOn, At, Threads, io, local
<1>2. /\ requests \in SUBSET AnyVector /\ loc[CPU] \in Locals /\ loc \in [Threads -> Locals]
      /\ pc \in [Threads -> AllLabels] /\ pc' = [pc EXCEPT ![CPU] = pc[CPU]]
  BY <1>1 DEF IInv, Types
<1>3. c \in Locals /\ c.word = loc[CPU].word - 1 /\ c.vector = loc[CPU].vector
  <2>1. loc[CPU].word - 1 \in 0 .. 7
    BY <1>1, <1>2, ScanCovers
  <2> QED BY <1>2, <2>1 DEF Locals
<1> HIDE DEF c
<1>4. loc'[CPU] = c
  BY <1>1, <1>2
<1>5. Outranks'
  BY <1>0, <1>1 DEF Outranks
<1>6. ~async => ChoiceOK(CPU)' /\ (pc[CPU] \notin Unsettled => Exact')
  <2> SUFFICES ASSUME ~async PROVE ChoiceOK(CPU)' /\ (pc[CPU] \notin Unsettled => Exact')
    OBVIOUS
  <2>1. ChoiceOK(CPU) /\ (pc[CPU] \notin Unsettled => Exact)
    BY <1>1, Alone DEF ThreadOK
  <2>2. \A v \in requests : v \div 32 <= loc[CPU].word - 1
    BY <1>0, <1>1, <1>2, <2>1, ScanCovers DEF ChoiceOK
  <2>3. ToScan(CPU, requests)'
    BY <1>1, <1>3, <1>4, <2>2 DEF ToScan
  <2>4. pc[CPU] \notin Unsettled => Exact'
    BY <1>1, <2>1 DEF Exact, Eligible, CurrentPriority
  <2> QED BY <1>0, <1>1, <2>1, <2>3, <2>4 DEF ChoiceOK
<1> QED BY <1>0, <1>1, <1>2, <1>3, <1>5, <1>6, CpuInv DEF IInv, Types

\* The poll of INTR.
LEMMA PollInv ==
  ASSUME IInv, Poll
  PROVE  IInv'
<1>1. /\ Turn(CPU) /\ pc[CPU] = "fetch" /\ CPU \in Threads /\ periodic' \in BOOLEAN
      /\ UNCHANGED <<async, irq_lines, entries, requests, in_service, task_priority, pending_intr, enabled, iflag,
                     due>>
  BY DEF Poll, At, Threads, io, local, IInv, Types
<1>2. PICK label \in {"ack", "fetch", "exec"} :
        /\ pc' = [pc EXCEPT ![CPU] = label]
        /\ \/ StartScan(CPU)
           \/ loc' = loc /\ label = "exec"
  BY DEF Poll, Goto
<1>s. PICK c \in Locals : /\ loc' = [loc EXCEPT ![CPU] = c] \/ (loc' = loc /\ c = loc[CPU])
                          /\ label = "ack" => \A r \in requests : r \div 32 <= c.word
  BY <1>1, <1>2, ScanStarts
<1>a. loc \in [Threads -> Locals] /\ pc \in [Threads -> AllLabels]
  BY DEF IInv, Types
<1>b. loc'[CPU] = c
  BY <1>1, <1>s, <1>a
<1>3. label \in OnlyCpu /\ pc[CPU] \in OnlyCpu /\ loc[CPU] \in Locals /\ pc'[CPU] = label
  BY <1>1, <1>2, <1>a DEF OnlyCpu
<1>4. Outranks'
  BY <1>3 DEF Outranks
<1>5. ~async => ChoiceOK(CPU)' /\ Exact'
  <2>1. ~async => Exact
    BY <1>1, Alone DEF Unsettled
  <2>2. label = "ack" => ToScan(CPU, requests)'
    BY <1>1, <1>s, <1>b DEF ToScan
  <2> QED BY <1>1, <1>3, <2>1, <2>2 DEF ChoiceOK, Exact, Eligible, CurrentPriority
<1> QED BY <1>1, <1>2, <1>s, <1>3, <1>4, <1>5, CpuInv DEF IInv, Types

\* next_pending_interrupt chooses the strongest request, or finds none to serve.
LEMMA NextPendingInv ==
  ASSUME IInv, NextPending
  PROVE  IInv'
<1> DEFINE L == Loaded(CPU, requests)
           v == Max(L)
           found == L # {} /\ Priority(v) > CurrentPriority
           c == IF found THEN [loc[CPU] EXCEPT !.vector = v] ELSE loc[CPU]
           label == IF found THEN "reset" ELSE "none"
<1>1. /\ Turn(CPU) /\ pc[CPU] = "ack" /\ CPU \in Threads
      /\ pc' = [pc EXCEPT ![CPU] = label]
      /\ loc' = [loc EXCEPT ![CPU] = c] \/ (loc' = loc /\ c = loc[CPU])
      /\ UNCHANGED <<async, irq_lines, entries, requests, in_service, task_priority, pending_intr, enabled,
                     periodic, iflag, due>>
  BY DEF NextPending, At, Goto, Threads, io, local
<1>2. /\ requests \subseteq AnyVector /\ in_service \subseteq AnyVector
      /\ task_priority \in Priorities \cup {0} /\ loc[CPU] \in Locals
      /\ L # {} => v \in requests
  BY <1>1, ScanFinds DEF IInv, Types
<1>a. ASSUME ~async
      PROVE  /\ L # {} => v \in requests /\ \A r \in requests : r <= v
             /\ L # {} => (Eligible # {} <=> Priority(v) > CurrentPriority)
             /\ L = {} => Eligible = {}
  <2>1. ToScan(CPU, requests)
    BY <1>1, <1>a, Alone DEF ThreadOK, ChoiceOK
  <2>2. ScanEnds(CPU, requests)
    BY DEF NextPending
  <2>3. L # {} => requests # {} /\ v = Max(requests)
    BY <1>1, <1>2, <2>1, ScanFinds
  <2>4. L = {} => requests = {}
    BY <1>1, <1>2, <2>1, <2>2, ScanFinds
  <2>5. /\ requests # {} => /\ Max(requests) \in requests /\ \A r \in requests : r <= Max(requests)
                            /\ (Eligible # {} <=> Priority(Max(requests)) > CurrentPriority)
        /\ requests = {} => Eligible = {}
    BY StrongestDecides DEF IInv
  <2> HIDE DEF L, v
  <2> QED BY <2>3, <2>4, <2>5
<1>3. c \in Locals /\ (found => c.vector = v)
  <2>1. found => v \in AnyVector
    BY <1>2
  <2> HIDE DEF v, found
  <2> QED BY <1>2, <2>1 DEF Locals
<1>4. label \in OnlyCpu /\ pc[CPU] \in OnlyCpu /\ label \in Unsettled
  BY <1>1 DEF OnlyCpu, Unsettled
<1>5. pc'[CPU] = label /\ loc'[CPU] = c
  <2> HIDE DEF c, label
  <2> QED BY <1>1, <1>2, <1>3 DEF IInv, Types
<1>6. Outranks'
  <2> SUFFICES ASSUME found PROVE Outranks'
    BY <1>5 DEF Outranks
  <2>1. \A w \in in_service : Priority(w) <= CurrentPriority /\ Priority(w) \in Nat
    BY <1>2, PriorityNow, VectorRange, PriorityMonotone
  <2>2. CurrentPriority \in Nat /\ Priority(v) \in Nat
    BY <1>2, PriorityNow, VectorRange, PriorityMonotone
  <2>3. \A w \in in_service : Priority(v) > Priority(w)
    BY <2>1, <2>2
  <2>4. loc'[CPU].vector = v /\ in_service' = in_service
    BY <1>1, <1>3, <1>5
  <2> QED BY <2>3, <2>4 DEF Outranks
<1>7. ~async => ChoiceOK(CPU)'
  <2> SUFFICES ASSUME ~async PROVE ChoiceOK(CPU)'
    OBVIOUS
  <2>1. CASE found
    <3>1. pc'[CPU] = "reset" /\ loc'[CPU].vector = v /\ requests' = requests
      BY <1>1, <1>3, <1>5, <2>1
    <3>2. v \in requests /\ \A r \in requests : r <= v
      BY <1>a, <2>1
    <3> QED BY <3>1, <3>2 DEF ChoiceOK
  <2>2. CASE ~found
    <3>1. Eligible = {}
      BY <1>a, <2>2
    <3> QED BY <1>1, <1>5, <2>2, <3>1 DEF ChoiceOK, Eligible, CurrentPriority
  <2> QED BY <2>1, <2>2
<1> HIDE DEF c, label, found, v, L
<1> QED BY <1>1, <1>3, <1>4, <1>6, <1>7, CpuInv DEF IInv, Types

\* The request is withdrawn, the vector starts service: nothing is left that
\* outranks it.
LEMMA StartServiceInv ==
  ASSUME IInv, ResetRequest \/ StartService
  PROVE  IInv'
<1> DEFINE v == loc[CPU].vector
<1>0. CPU \in Threads /\ loc[CPU] \in Locals /\ v \in AnyVector /\ requests \subseteq AnyVector
        /\ in_service \subseteq AnyVector /\ task_priority \in Priorities \cup {0}
  BY DEF Threads, IInv, Types, Locals
<1>1. CASE ResetRequest
  <2>1. /\ Turn(CPU) /\ pc[CPU] = "reset" /\ pc' = [pc EXCEPT ![CPU] = "service"]
        /\ requests' = requests \ {v}
        /\ UNCHANGED <<async, irq_lines, entries, in_service, task_priority, pending_intr, enabled, periodic, iflag,
                       loc, due>>
    BY <1>1 DEF ResetRequest, At, Goto, io
  <2>2. "service" \in OnlyCpu /\ pc[CPU] \in OnlyCpu /\ pc'[CPU] = "service" /\ "service" \in Unsettled
    BY <1>0, <2>1 DEF OnlyCpu, Unsettled, IInv, Types
  <2>3. Outranks'
    BY <2>1, <2>2 DEF IInv, Outranks
  <2>4. ~async => ChoiceOK(CPU)'
    <3>1. ~async => \A r \in requests : r <= v
      BY <1>0, <2>1, Alone DEF ThreadOK, ChoiceOK
    <3> QED BY <2>1, <2>2, <3>1 DEF ChoiceOK
  <2>5. requests' \subseteq AnyVector
    BY <1>0, <2>1
  <2> QED BY <1>0, <2>1, <2>2, <2>3, <2>4, <2>5, CpuInv DEF IInv, Types
<1>2. CASE StartService
  <2>1. /\ Turn(CPU) /\ pc[CPU] = "service" /\ pc' = [pc EXCEPT ![CPU] = "enter"]
        /\ in_service' = in_service \cup {v}
        /\ UNCHANGED <<async, irq_lines, entries, requests, task_priority, pending_intr, enabled, periodic, iflag,
                       loc, due>>
    BY <1>2 DEF StartService, At, Goto, io
  <2>2. "enter" \in OnlyCpu /\ pc[CPU] \in OnlyCpu /\ pc'[CPU] = "enter" /\ "enter" \in Unsettled
    BY <1>0, <2>1 DEF OnlyCpu, Unsettled, IInv, Types
  <2>3. Outranks'
    BY <2>2 DEF Outranks
  <2>4. in_service' \subseteq AnyVector
    BY <1>0, <2>1
  <2>5. ~async => Eligible' = {}
    <3> SUFFICES ASSUME ~async PROVE Eligible' = {}
      OBVIOUS
    <3>1. \A r \in requests : r <= v
      BY <1>0, <2>1, Alone DEF ThreadOK, ChoiceOK
    <3>2. \A r \in requests : Priority(r) \in Nat /\ Priority(r) <= Priority(v)
      BY <1>0, <3>1, VectorRange, PriorityMonotone
    <3>3. Max(in_service') \in AnyVector /\ Priority(v) <= Priority(Max(in_service'))
      BY <1>0, <2>1, <2>4, Strongest
    <3>4. CurrentPriority' = Priority(Max(in_service')) /\ Priority(Max(in_service')) \in Nat /\ Priority(v) \in Nat
      BY <1>0, <2>1, <3>3, VectorRange, PriorityMonotone DEF CurrentPriority
    <3>5. \A r \in requests' : ~(Priority(r) > CurrentPriority')
      BY <2>1, <3>2, <3>3, <3>4
    <3>6. Eligible' = {r \in requests' : Priority(r) > CurrentPriority'}
      BY DEF Eligible, Priority
    <3> QED BY <3>5, <3>6
  <2>6. ~async => ChoiceOK(CPU)'
    BY <2>2, <2>5 DEF ChoiceOK
  <2> QED BY <1>0, <2>1, <2>2, <2>3, <2>4, <2>6, CpuInv DEF IInv, Types
<1> QED BY <1>1, <1>2

\* INTR is released when nothing is left to serve.
LEMMA ReleaseIntrInv ==
  ASSUME IInv, ReleaseIntr
  PROVE  IInv'
<1>1. /\ Turn(CPU) /\ pc[CPU] \in {"enter", "none"} /\ CPU \in Threads
      /\ pending_intr' = FALSE /\ iflag' = (iflag /\ pc[CPU] = "none")
      /\ pc' = [pc EXCEPT ![CPU] = "fetch"] /\ loc' = [loc EXCEPT ![CPU] = NoLocals]
      /\ UNCHANGED <<async, irq_lines, entries, requests, in_service, task_priority, enabled, periodic, due>>
  BY DEF ReleaseIntr, Goto, Threads, io
<1>2. "fetch" \in OnlyCpu /\ pc[CPU] \in OnlyCpu /\ pc'[CPU] = "fetch"
  BY <1>1 DEF OnlyCpu, IInv, Types
<1>3. iflag' \in BOOLEAN /\ pending_intr' \in BOOLEAN
  BY <1>1 DEF IInv, Types
<1>4. Outranks'
  BY <1>2 DEF Outranks
<1>5. ~async => ChoiceOK(CPU)' /\ Exact'
  <2>1. ~async => Eligible = {}
    BY <1>1, Alone DEF ThreadOK, ChoiceOK
  <2>2. Eligible' = Eligible
    BY <1>1 DEF Eligible, CurrentPriority
  <2>3. ChoiceOK(CPU)'
    BY <1>2 DEF ChoiceOK
  <2> QED BY <1>1, <2>1, <2>2, <2>3 DEF Exact
<1> QED BY <1>1, <1>2, <1>3, <1>4, <1>5, NothingTyped, CpuInv DEF IInv, Types

\* The end of an interrupt and the task priority change what is eligible;
\* check_pending looks again.
LEMMA LookAgainInv ==
  ASSUME IInv, WriteEoi \/ \E p \in Priorities : WriteTaskPriority(p)
  PROVE  IInv'
<1>0. CPU \in Threads /\ loc[CPU] \in Locals /\ requests \subseteq AnyVector /\ in_service \subseteq AnyVector
  BY DEF Threads, IInv, Types
<1>1. /\ Turn(CPU) /\ pc[CPU] = "exec"
      /\ UNCHANGED <<async, irq_lines, entries, requests, pending_intr, enabled, periodic, iflag, due>>
      /\ in_service' \subseteq AnyVector /\ task_priority' \in Priorities \cup {0}
  BY <1>0 DEF WriteEoi, WriteTaskPriority, Exec, At, io, IInv, Types
<1>2. PICK label \in {"pending", "fetch"} :
        /\ pc' = [pc EXCEPT ![CPU] = label]
        /\ label = "fetch" => UNCHANGED <<in_service, task_priority>>
        /\ StartScan(CPU) \/ (loc' = loc /\ label = "fetch")
  BY DEF WriteEoi, WriteTaskPriority, Goto
<1>s. PICK c \in Locals : /\ loc' = [loc EXCEPT ![CPU] = c] \/ (loc' = loc /\ c = loc[CPU])
                          /\ label = "pending" => \A r \in requests : r \div 32 <= c.word
  BY <1>2, ScanStarts
<1>a. loc \in [Threads -> Locals] /\ pc \in [Threads -> AllLabels]
  BY DEF IInv, Types
<1>b. loc'[CPU] = c
  BY <1>0, <1>s, <1>a
<1>3. label \in OnlyCpu /\ pc[CPU] \in OnlyCpu /\ pc'[CPU] = label
  BY <1>0, <1>1, <1>2, <1>a DEF OnlyCpu
<1>4. Outranks'
  BY <1>3 DEF Outranks
<1>5. ~async => ChoiceOK(CPU)' /\ (label \notin Unsettled => Exact')
  <2> SUFFICES ASSUME ~async PROVE ChoiceOK(CPU)' /\ (label \notin Unsettled => Exact')
    OBVIOUS
  <2>1. Exact
    BY <1>0, <1>1, Alone DEF Unsettled
  <2>2. requests = {} => ~pending_intr
    BY <2>1 DEF Exact, Eligible
  <2>3. CASE label = "pending"
    <3>1. ToScan(CPU, requests)'
      BY <1>1, <1>s, <1>b, <2>3 DEF ToScan
    <3> QED BY <1>1, <1>3, <2>2, <2>3, <3>1 DEF ChoiceOK, Unsettled
  <2>4. CASE label = "fetch"
    BY <1>1, <1>2, <1>3, <2>1, <2>4 DEF ChoiceOK, Exact, Eligible, CurrentPriority
  <2> QED BY <2>3, <2>4
<1> QED BY <1>0, <1>1, <1>2, <1>s, <1>3, <1>4, <1>5, CpuInv DEF IInv, Types

\* check_pending: the end of the scan of the requests and the store of the line.
LEMMA CheckPendingInv ==
  ASSUME IInv, CheckPending \/ AssignIntr
  PROVE  IInv'
<1>0. CPU \in Threads /\ loc[CPU] \in Locals /\ requests \subseteq AnyVector
  BY DEF Threads, IInv, Types
<1>a. /\ requests # {} => Max(requests) \in requests /\ \A r \in requests : r <= Max(requests)
      /\ requests = {} => Eligible = {}
  BY StrongestDecides DEF IInv
<1>1. CASE CheckPending
  <2> DEFINE L == Loaded(CPU, requests)
             v == Max(L)
             c == IF L # {} THEN [loc[CPU] EXCEPT !.vector = v] ELSE NoLocals
             label == IF L # {} THEN "assign" ELSE "fetch"
  <2>1. /\ Turn(CPU) /\ pc[CPU] = "pending" /\ pc' = [pc EXCEPT ![CPU] = label]
        /\ loc' = [loc EXCEPT ![CPU] = c] /\ ScanEnds(CPU, requests)
        /\ UNCHANGED <<async, irq_lines, entries, requests, in_service, task_priority, pending_intr, enabled,
                       periodic, iflag, due>>
    BY <1>1 DEF CheckPending, At, Goto, io, local
  <2>2. c \in Locals /\ (L # {} => c.vector = v)
    <3>1. L # {} => v \in AnyVector
      BY <1>0, ScanFinds
    <3> HIDE DEF v, L
    <3> QED BY <1>0, <3>1, NothingTyped DEF Locals
  <2>3. label \in OnlyCpu /\ pc[CPU] \in OnlyCpu
    BY <2>1 DEF OnlyCpu
  <2>4. pc'[CPU] = label /\ loc'[CPU] = c
    <3> HIDE DEF c, label
    <3> QED BY <1>0, <2>1, <2>2 DEF IInv, Types
  <2>5. Outranks'
    BY <2>4 DEF Outranks
  <2>6. ~async => ChoiceOK(CPU)' /\ (label \notin Unsettled => Exact')
    <3> SUFFICES ASSUME ~async PROVE ChoiceOK(CPU)' /\ (label \notin Unsettled => Exact')
      OBVIOUS
    <3>1. requests = {} => ~pending_intr
      BY <1>0, <2>1, Alone DEF ThreadOK, ChoiceOK
    <3>a. ToScan(CPU, requests)
      BY <1>0, <2>1, Alone DEF ThreadOK, ChoiceOK
    <3>2. CASE L = {}
      <4>0. requests = {}
        BY <1>0, <2>1, <3>a, <3>2, ScanFinds
      <4>1. Eligible' = {} /\ pending_intr' = pending_intr /\ ~pending_intr
        BY <2>1, <3>1, <4>0 DEF Eligible
      <4>2. Exact'
        BY <4>1 DEF Exact
      <4> QED BY <2>4, <3>2, <4>2 DEF ChoiceOK
    <3>3. CASE L # {}
      <4>0. requests # {} /\ v = Max(requests)
        BY <1>0, <3>a, <3>3, ScanFinds
      <4>1. pc'[CPU] = "assign" /\ loc'[CPU].vector = v /\ requests' = requests
        BY <2>1, <2>2, <2>4, <3>3
      <4> HIDE DEF c, v
      <4> QED BY <1>a, <3>3, <4>0, <4>1 DEF ChoiceOK, Unsettled
    <3> QED BY <3>2, <3>3
  <2> HIDE DEF c, label, v, L
  <2> QED BY <2>1, <2>2, <2>3, <2>5, <2>6, CpuInv DEF IInv, Types
<1>2. CASE AssignIntr
  <2>1. /\ Turn(CPU) /\ pc[CPU] = "assign"
        /\ pending_intr' = (Priority(loc[CPU].vector) > CurrentPriority)
        /\ pc' = [pc EXCEPT ![CPU] = "fetch"] /\ loc' = [loc EXCEPT ![CPU] = NoLocals]
        /\ UNCHANGED <<async, irq_lines, entries, requests, in_service, task_priority, enabled, periodic, iflag, due>>
    BY <1>2 DEF AssignIntr, At, Goto, io
  <2>2. "fetch" \in OnlyCpu /\ pc[CPU] \in OnlyCpu /\ pc'[CPU] = "fetch" /\ pending_intr' \in BOOLEAN
    BY <1>0, <2>1 DEF OnlyCpu, IInv, Types
  <2>3. Outranks'
    BY <2>2 DEF Outranks
  <2>4. ~async => ChoiceOK(CPU)' /\ Exact'
    <3> SUFFICES ASSUME ~async PROVE ChoiceOK(CPU)' /\ Exact'
      OBVIOUS
    <3> DEFINE v == loc[CPU].vector
    <3>1. v \in requests /\ \A r \in requests : r <= v
      BY <1>0, <2>1, Alone DEF ThreadOK, ChoiceOK
    <3>2. CurrentPriority \in Nat /\ \A r \in requests : Priority(r) \in Nat /\ Priority(r) <= Priority(v)
      BY <1>0, <3>1, PriorityNow, VectorRange, PriorityMonotone DEF IInv, Types
    <3>3. Eligible # {} <=> Priority(v) > CurrentPriority
      <4>1. Priority(v) > CurrentPriority => v \in Eligible
        BY <3>1 DEF Eligible
      <4>2. \A r \in Eligible : Priority(v) > CurrentPriority
        BY <3>1, <3>2 DEF Eligible
      <4> QED BY <4>1, <4>2
    <3>4. Eligible' = Eligible
      BY <2>1 DEF Eligible, CurrentPriority
    <3>5. Exact'
      BY <2>1, <3>3, <3>4 DEF Exact
    <3> QED BY <2>2, <3>5 DEF ChoiceOK
  <2> QED BY <2>1, <2>2, <2>3, <2>4, NothingTyped, CpuInv DEF IInv, Types
<1> QED BY <1>1, <1>2

\* The other accesses to the local APIC and to the I/O APIC, and changes of IF.
LEMMA GuestInv ==
  ASSUME IInv, GuestStep
  PROVE  IInv'
<1>0. CPU \in Threads /\ loc[CPU] \in Locals /\ ("fetch" \in OnlyCpu) /\ ("exec" \in OnlyCpu)
  BY DEF Threads, IInv, Types, OnlyCpu
<1>a. Turn(CPU) /\ pc[CPU] = "exec" /\ ~async => Exact
  BY <1>0, Alone DEF Unsettled
<1>1. ASSUME NEW v \in Vectors, WriteIcr(v)
      PROVE  IInv'
  <2> DEFINE c == [NoLocals EXCEPT !.line = NoLine, !.vector = v]
  <2>1. /\ Turn(CPU) /\ pc[CPU] = "exec"
        /\ pc' = [pc EXCEPT ![CPU] = "raise"] /\ loc' = [loc EXCEPT ![CPU] = c] /\ due' = due
        /\ UNCHANGED <<async, irq_lines, entries, requests, in_service, task_priority, pending_intr, enabled,
                       periodic, iflag>>
    BY <1>1 DEF WriteIcr, Exec, At, Goto, io, local
  <2>2. c \in Locals /\ c.line = NoLine /\ ~c.val
    <3>1. NoLocals.val = FALSE
      BY DEF NoLocals
    <3> QED BY <3>1, NothingTyped DEF Locals, AnyVector
  <2> HIDE DEF c
  <2>3. "raise" \in Labels(CPU) /\ due[CPU] \in SUBSET AnyVector
    BY <1>0 DEF Labels, Pulsing, Raising, IInv, Types
  <2>4. /\ pc' \in [Threads -> AllLabels] /\ loc' \in [Threads -> Locals] /\ due' \in [Threads -> SUBSET AnyVector]
        /\ pc'[CPU] = "raise" /\ loc'[CPU] = c /\ due'[CPU] = due[CPU]
        /\ \A u \in Threads \ {CPU} : pc'[u] = pc[u] /\ loc'[u] = loc[u] /\ due'[u] = due[u]
    BY <1>0, <2>1, <2>2, <2>3, Moved
  <2>5. Shape(CPU)' /\ Outranks'
    BY <2>2, <2>4 DEF Shape, Outranks, Pulsing, Raising
  <2>6. ASSUME ~async
        PROVE  ThreadOK(CPU)' /\ (pc'[CPU] \notin Unsettled => Exact') /\ (~High(CPU)' => irq_lines' = {})
    <3>1. DueOK(CPU) /\ (~High(CPU) => irq_lines = {})
      BY <1>0, <2>1, <2>6, Alone DEF ThreadOK
    <3>2. ~High(CPU) /\ ~High(CPU)' /\ due[CPU] = {}
      BY <2>1, <2>2, <2>4, <3>1 DEF High, DueOK, Pulsing, Raising
    <3>3. ThreadOK(CPU)'
      BY <2>4, <3>2 DEF ThreadOK, LineOK, RaiseOK, ChoiceOK, DueOK
    <3>4. Exact'
      BY <1>a, <2>1, <2>6 DEF Exact, Eligible, CurrentPriority
    <3> QED BY <2>1, <3>1, <3>2, <3>3, <3>4
  <2> QED BY <1>0, <2>1, <2>3, <2>4, <2>5, <2>6, StepInv DEF IInv, Types
<1>2. ASSUME NEW l \in Lines, LoadEntryHigh(l)
      PROVE  IInv'
  <2> DEFINE c == [NoLocals EXCEPT !.line = l, !.entry = entries[l]]
  <2>1. /\ Turn(CPU) /\ pc[CPU] = "exec"
        /\ pc' = [pc EXCEPT ![CPU] = "high"] /\ loc' = [loc EXCEPT ![CPU] = c]
        /\ UNCHANGED <<async, irq_lines, entries, requests, in_service, task_priority, pending_intr, enabled,
                       periodic, iflag, due>>
    BY <1>2 DEF LoadEntryHigh, Exec, At, Goto, io, local
  <2>2. c \in Locals
    <3>1. entries[l] \in Entry
      BY DEF IInv, Types
    <3> QED BY <3>1, NothingTyped DEF Locals
  <2> HIDE DEF c
  <2>3. "high" \in OnlyCpu /\ pc'[CPU] = "high"
    BY <1>0, <2>1 DEF OnlyCpu, IInv, Types
  <2>4. Outranks'
    BY <2>3 DEF Outranks
  <2>5. ~async => ChoiceOK(CPU)' /\ Exact'
    BY <1>a, <2>1, <2>3 DEF ChoiceOK, Exact, Eligible, CurrentPriority
  <2> QED BY <1>0, <2>1, <2>2, <2>3, <2>4, <2>5, CpuInv DEF IInv, Types
<1>3. ASSUME NEW l \in Lines, NEW e \in GuestEntries, WriteEntryLow(l, e)
      PROVE  IInv'
  <2>1. /\ Turn(CPU) /\ pc[CPU] = "exec" /\ pc' = [pc EXCEPT ![CPU] = "fetch"]
        /\ entries' = [entries EXCEPT ![l] = e]
        /\ UNCHANGED <<async, irq_lines, requests, in_service, task_priority, pending_intr, enabled,
                       periodic, iflag, loc, due>>
    BY <1>3 DEF WriteEntryLow, Exec, At, Goto, local
  <2>2. entries' \in [Lines -> Entry]
    BY <2>1, EntriesAssumption DEF IInv, Types
  <2>3. pc'[CPU] = "fetch"
    BY <1>0, <2>1 DEF IInv, Types
  <2>4. Outranks'
    BY <2>3 DEF Outranks
  <2>5. ~async => ChoiceOK(CPU)' /\ Exact'
    BY <1>a, <2>1, <2>3 DEF ChoiceOK, Exact, Eligible, CurrentPriority
  <2> QED BY <1>0, <2>1, <2>2, <2>4, <2>5, CpuInv DEF IInv, Types
<1>4. ASSUME Disable \/ \E b \in BOOLEAN : SetIf(b)
      PROVE  IInv'
  <2>1. /\ Turn(CPU) /\ pc[CPU] = "exec" /\ pc' = [pc EXCEPT ![CPU] = "fetch"]
        /\ enabled' \in BOOLEAN /\ iflag' \in BOOLEAN
        /\ UNCHANGED <<async, irq_lines, entries, requests, in_service, task_priority, pending_intr,
                       periodic, loc, due>>
    BY <1>4 DEF Disable, SetIf, Exec, At, Goto, io, local, IInv, Types
  <2>2. pc'[CPU] = "fetch"
    BY <1>0, <2>1 DEF IInv, Types
  <2>3. Outranks'
    BY <2>2 DEF Outranks
  <2>4. ~async => ChoiceOK(CPU)' /\ Exact'
    BY <1>a, <2>1, <2>2 DEF ChoiceOK, Exact, Eligible, CurrentPriority
  <2> QED BY <1>0, <2>1, <2>3, <2>4, CpuInv DEF IInv, Types
<1> QED BY <1>0, <1>1, <1>2, <1>3, <1>4, LookAgainInv, PulseInv DEF GuestStep

\* The write of the high half ends with the low half it has loaded.
LEMMA StoreEntryHighInv ==
  ASSUME IInv, StoreEntryHigh
  PROVE  IInv'
<1>0. CPU \in Threads /\ loc[CPU] \in Locals /\ "fetch" \in OnlyCpu /\ "high" \in OnlyCpu
  BY DEF Threads, IInv, Types, OnlyCpu
<1>1. /\ Turn(CPU) /\ pc[CPU] = "high" /\ pc' = [pc EXCEPT ![CPU] = "fetch"]
      /\ loc' = [loc EXCEPT ![CPU] = NoLocals]
      /\ entries' = [entries EXCEPT ![loc[CPU].line] = loc[CPU].entry]
      /\ UNCHANGED <<async, irq_lines, requests, in_service, task_priority, pending_intr, enabled, periodic, iflag,
                     due>>
  BY DEF StoreEntryHigh, StoreEntry, At, Goto, local
<1>2. entries' \in [Lines -> Entry] /\ pc'[CPU] = "fetch"
  <2>1. loc[CPU].entry \in Entry
    BY <1>0 DEF Locals
  <2> QED BY <1>0, <1>1, <2>1 DEF IInv, Types
<1>3. Outranks'
  BY <1>2 DEF Outranks
<1>4. ~async => ChoiceOK(CPU)' /\ Exact'
  <2>1. ~async => Exact
    BY <1>0, <1>1, Alone DEF Unsettled
  <2> QED BY <1>1, <1>2, <2>1 DEF ChoiceOK, Exact, Eligible, CurrentPriority
<1> QED BY <1>0, <1>1, <1>2, <1>3, <1>4, NothingTyped, CpuInv DEF IInv, Types

\* Every step, and a step of nothing, keeps the invariant.
LEMMA NextInv == IInv /\ [Next]_vars => IInv'
<1> SUFFICES ASSUME IInv, [Next]_vars PROVE IInv'
  OBVIOUS
<1>1. CASE CpuStep
  BY <1>1, PollInv, NextPendingInv, StartServiceInv, ReleaseIntrInv, CheckPendingInv, StoreEntryHighInv DEF CpuStep
<1>2. CASE GuestStep
  BY <1>2, GuestInv
<1>3. ASSUME NEW t \in Threads, PulseStep(t)
      PROVE  IInv'
  BY <1>3, SetLineInv, LoadEntryInv, StoreInv, MarkReceivedInv, SetRequestInv, CompareInv, ScanOnInv DEF PulseStep
<1>4. CASE \E t \in Devices, l \in Lines : Pulse(t, l)
  BY <1>4, PulseInv DEF Threads
<1>5. CASE PeriodicTick \/ UNCHANGED vars
  <2>1. /\ periodic' \in BOOLEAN
        /\ UNCHANGED <<async, irq_lines, entries, requests, in_service, task_priority, pending_intr, enabled,
                       iflag, pc, loc, due>>
    BY <1>5 DEF PeriodicTick, vars, io, local, IInv, Types
  <2>2. Types' /\ (\A t \in Threads : Shape(t)') /\ Outranks'
    BY <2>1 DEF IInv, Types, Shape, Outranks
  <2>3. \A t \in Threads : ThreadOK(t)' <=> ThreadOK(t)
    BY <2>1 DEF ThreadOK, LineOK, High, RaiseOK, ChoiceOK, DueOK, ToCome, SecondDue, MustDeliver, Eligible,
                CurrentPriority, ToScan
  <2>4. SyncInv'
    BY <2>1, <2>3 DEF IInv, SyncInv, High, Exact, Eligible, CurrentPriority
  <2> QED BY <2>2, <2>4 DEF IInv
<1> QED BY <1>1, <1>2, <1>3, <1>4, <1>5 DEF Next

\* The inductive invariant holds in every reachable state of either clock mode.
THEOREM InductiveInvariant == Spec => []IInv
  BY InitInv, NextInv, PTL DEF Spec

-----------------------------------------------------------------------------
(* What it is for.                                                         *)

\* The types of the registers and of the threads' local variables.
THEOREM TypeCorrect == Spec => []TypeOK
<1>1. IInv => TypeOK
  BY DEF IInv, Types, TypeOK, Locals, AnyVector
<1> QED BY <1>1, InductiveInvariant, PTL

\* With the synchronous clock the local APIC's share of INTR is asserted between
\* guest instructions if and only if a requested vector outranks the current
\* priority.
THEOREM IntrIsExact == Spec => []IntrExact
<1>1. IInv => IntrExact
  <2>1. AtRest => \A t \in Threads : pc[t] \notin Unsettled
    BY DEF AtRest, Unsettled
  <2> QED BY <2>1 DEF IInv, SyncInv, Exact, IntrExact
<1> QED BY <1>1, InductiveInvariant, PTL

\* What starts service outranks everything in service, whatever the device
\* threads raise while highest_index_set loads the words of the requests and
\* between the choice and the start.
THEOREM ServiceIsLegal == Spec => ServiceLegal
<1> DEFINE Legal == \A v \in in_service' \ in_service : \A w \in in_service : Priority(v) > Priority(w)
<1>1. IInv /\ [Next]_vars => [Legal]_vars
  <2> SUFFICES ASSUME IInv, [Next]_vars PROVE Legal \/ UNCHANGED vars
    OBVIOUS
  <2>1. CASE StartService
    BY <2>1 DEF StartService, At, IInv, Outranks
  <2>2. CASE in_service' \subseteq in_service
    BY <2>2
  <2>3. CpuStep /\ ~StartService => in_service' \subseteq in_service
    BY DEF CpuStep, Poll, NextPending, ResetRequest, ReleaseIntr, CheckPending, AssignIntr, StoreEntryHigh,
           StoreEntry, io, local
  <2>4. GuestStep => in_service' \subseteq in_service
    BY DEF GuestStep, WriteEoi, Disable, WriteTaskPriority, WriteIcr, Pulse, LoadEntryHigh, WriteEntryLow, SetIf,
           io, local
  <2>5. \A t \in Threads : PulseStep(t) => in_service' \subseteq in_service
    BY DEF PulseStep, SetLine, LoadEntry, LatchMasked, ClearLevel, MarkReceived, AfterSend, StoreEntry, SetRequest,
           LookInService, ScanOn, LoadPriority, LoadTaskPriority, RaiseIntr, io, local
  <2>6. (\E t \in Devices, l \in Lines : Pulse(t, l)) \/ PeriodicTick => in_service' \subseteq in_service
    BY DEF Pulse, PeriodicTick, local
  <2> QED BY <2>1, <2>2, <2>3, <2>4, <2>5, <2>6 DEF Next
<1> QED BY <1>1, InductiveInvariant, PTL DEF Spec, ServiceLegal

\* Only pulses change what is due.
LEMMA DueMoves ==
  [Next]_vars => \/ due' = due
                 \/ \E t \in Threads : PulseStep(t) \/ \E l \in Lines : Pulse(t, l)
<1>1. CpuStep => due' = due
  BY DEF CpuStep, Poll, NextPending, ResetRequest, StartService, ReleaseIntr, CheckPending, AssignIntr,
         StoreEntryHigh
<1>2. GuestStep => due' = due \/ \E l \in Lines : Pulse(CPU, l)
  BY DEF GuestStep, WriteEoi, Disable, WriteTaskPriority, WriteIcr, LoadEntryHigh, WriteEntryLow, SetIf
<1>3. PeriodicTick \/ UNCHANGED vars => due' = due
  BY DEF PeriodicTick, vars
<1> QED BY <1>1, <1>2, <1>3 DEF Next, Threads

\* With device threads of their own nothing is due: the pulse may find the entry
\* changed.
NoneDue == async => \A t \in Threads : due[t] = {}

\* The history is only kept with the synchronous clock.
LEMMA NothingDue == Spec => []NoneDue
<1>1. Init => NoneDue
  BY DEF Init, NoneDue
<1>2. IInv /\ NoneDue /\ [Next]_vars => NoneDue'
  <2> SUFFICES ASSUME IInv, NoneDue, [Next]_vars PROVE NoneDue'
    OBVIOUS
  <2>0. due \in [Threads -> SUBSET AnyVector]
    BY DEF IInv, Types
  <2>1. async' = async
    BY DEF Next, CpuStep, Poll, NextPending, ResetRequest, StartService, ReleaseIntr, CheckPending, AssignIntr,
           StoreEntryHigh, StoreEntry, GuestStep, WriteEoi, Disable, WriteTaskPriority, WriteIcr, Pulse,
           LoadEntryHigh, WriteEntryLow, SetIf, PulseStep, SetLine, LoadEntry, LatchMasked, ClearLevel,
           MarkReceived, AfterSend, SetRequest, LookInService, ScanOn, LoadPriority, LoadTaskPriority, RaiseIntr,
           PeriodicTick, vars
  <2>2. CASE due' = due
    BY <2>1, <2>2 DEF NoneDue
  <2>3. ASSUME NEW t \in Threads, due' = [due EXCEPT ![t] = {}]
        PROVE  NoneDue'
    BY <2>0, <2>1, <2>3 DEF NoneDue
  <2>4. ASSUME NEW t \in Threads, NEW l \in Lines, Pulse(t, l)
        PROVE  NoneDue'
    <3> SUFFICES ASSUME async PROVE \A u \in Threads : due'[u] = {}
      BY <2>1 DEF NoneDue
    <3>1. due' = [due EXCEPT ![t] = {}]
      BY <2>4 DEF Pulse
    <3> QED BY <2>0, <3>1 DEF NoneDue
  <2>5. \A t \in Threads : EndSet(t) => due' = due \/ due' = [due EXCEPT ![t] = {}]
    BY DEF EndSet
  <2>6. \A t \in Threads : PulseStep(t) => due' = due \/ EndSet(t)
    BY DEF PulseStep, SetLine, LoadEntry, LatchMasked, ClearLevel, MarkReceived, AfterSend, SetRequest,
           LookInService, ScanOn, LoadPriority, LoadTaskPriority, RaiseIntr
  <2> QED BY <2>2, <2>3, <2>4, <2>5, <2>6, DueMoves
<1> QED BY <1>1, <1>2, InductiveInvariant, PTL DEF Spec

\* A set that ends the pulse leaves a due vector requested: the entry was loaded
\* unmasked, and the set that had to request its vector has done so.
LEMMA EndDelivers ==
  ASSUME IInv, NEW t \in Threads, LoadEntry(t) \/ LatchMasked(t) \/ ClearLevel(t) \/ AfterSend(t),
         ~async, due[t] # {}, due'[t] = {}
  PROVE  due[t] \subseteq requests'
<1>1. Turn(t) /\ pc[t] \in {"entry", "latch", "clear", "after"} /\ requests' = requests
  BY DEF LoadEntry, LatchMasked, ClearLevel, AfterSend, StoreEntry, At, local
<1>2. ThreadOK(t)
  BY <1>1, Alone
<1>3. loc[t].line \in Lines /\ loc[t] \in Locals /\ entries \in [Lines -> Entry]
  BY <1>1 DEF IInv, Types, Shape, Pulsing, Raising
<1>4. EndSet(t) => ~loc[t].val
  BY <1>3, EndSetMoves
<1>5. EndSet(t)
  BY DEF LoadEntry, LatchMasked, ClearLevel, AfterSend
<1>6. due[t] \subseteq requests \/ ToCome(t)
  BY <1>2 DEF ThreadOK, DueOK
<1>7. CASE pc[t] # "entry"
  BY <1>1, <1>4, <1>5, <1>6, <1>7 DEF ToCome
<1>8. CASE pc[t] = "entry"
  <2> DEFINE e == entries[loc[t].line]
             d == Decision(e, loc[t].val, loc[t].changed)
  <2>1. d = "ignore"
    BY <1>8 DEF LoadEntry, LatchMasked, ClearLevel, AfterSend, At
  <2>2. loc[t].changed /\ ~e.masked
    BY <1>2, <1>8 DEF ThreadOK, LineOK, DueOK
  <2>3. e \in Entry /\ loc[t].val \in BOOLEAN /\ loc[t].changed \in BOOLEAN
    BY <1>3 DEF Locals
  <2>4. \/ ~e.level /\ loc[t].val = e.low
        \/ e.level /\ loc[t].val # e.low /\ e.pending
    BY <2>1, <2>2, <2>3, Decisions
  <2>5. ~(e.low /\ (e.level => ~e.pending))
    BY <1>4, <1>5, <2>4
  <2>6. ~ToCome(t)
    BY <1>4, <1>5, <1>8, <2>5 DEF ToCome, SecondDue
  <2> QED BY <1>1, <1>6, <2>6
<1> QED BY <1>7, <1>8

\* With the synchronous clock a pulse that has to be delivered ends with its
\* vector requested.
THEOREM PulseIsDelivered == Spec => PulseDelivered
<1> DEFINE Delivered == \A t \in Threads : due[t] # {} /\ due'[t] = {} => due[t] \subseteq requests'
<1>1. IInv /\ NoneDue /\ [Next]_vars => [Delivered]_vars
  <2> SUFFICES ASSUME IInv, NoneDue, ~async, [Next]_vars PROVE Delivered
    BY DEF NoneDue
  <2>0. due \in [Threads -> SUBSET AnyVector]
    BY DEF IInv, Types
  <2>1. CASE due' = due
    BY <2>1
  <2>2. ASSUME NEW t \in Threads, NEW l \in Lines, Pulse(t, l)
        PROVE  Delivered
    <3>1. Turn(t) /\ pc[t] \in {"exec", "idle"}
      BY <2>2 DEF Pulse, Exec, At
    <3>2. \A u \in Threads \ {t} : due'[u] = due[u]
      BY <2>0, <2>2 DEF Pulse
    <3>3. due[t] = {}
      BY <3>1, Alone DEF ThreadOK, DueOK, Pulsing, Raising
    <3> QED BY <3>2, <3>3
  <2>3. ASSUME NEW t \in Threads, LoadEntry(t) \/ LatchMasked(t) \/ ClearLevel(t) \/ AfterSend(t)
        PROVE  Delivered
    <3>1. pc[t] \in {"entry", "latch", "clear", "after"} /\ (EndSet(t) \/ due' = due)
      BY <2>3 DEF LoadEntry, LatchMasked, ClearLevel, AfterSend, At
    <3>2. loc[t].line \in Lines
      BY <3>1 DEF IInv, Shape, Pulsing, Raising
    <3>3. \A u \in Threads \ {t} : due'[u] = due[u]
      BY <3>1, <3>2, EndSetMoves
    <3>4. due[t] # {} /\ due'[t] = {} => due[t] \subseteq requests'
      BY <2>3, EndDelivers
    <3> QED BY <3>3, <3>4
  <2>4. \A t \in Threads : PulseStep(t) =>
          due' = due \/ LoadEntry(t) \/ LatchMasked(t) \/ ClearLevel(t) \/ AfterSend(t)
    BY DEF PulseStep, SetLine, MarkReceived, SetRequest, LookInService, ScanOn, LoadPriority, LoadTaskPriority, RaiseIntr
  <2> QED BY <2>1, <2>2, <2>3, <2>4, DueMoves
<1> QED BY <1>1, InductiveInvariant, NothingDue, PTL DEF Spec, PulseDelivered
=============================================================================

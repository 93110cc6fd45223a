--------------------------- MODULE LegacyPicProofs ---------------------------
(***************************************************************************)
(* Proofs about the pair of 8259 controllers (LegacyPic): with any lines   *)
(* and any number of device threads a line that starts service is          *)
(* requested, not masked and more important than those in service; with    *)
(* the synchronous clock the share of INTR is exact between instructions.  *)
(***************************************************************************)
EXTENDS LegacyPic, NaturalSets, TLAPS

-----------------------------------------------------------------------------
(* Priorities.                                                             *)

\* A line has a place in the order of priorities.
LEMMA PriorityOfLine ==
  ASSUME NEW l \in 0 .. 15
  PROVE  Priority(l) \in 1 .. 16 /\ PriorityOrder[Priority(l)] = l
<1>1. \E p \in 1 .. 16 : PriorityOrder[p] = l
  BY DEF PriorityOrder
<1> QED BY <1>1 DEF Priority

\* A line belongs to one of the two controllers.
LEMMA ControllerOfLine ==
  ASSUME NEW l \in 0 .. 15
  PROVE  l \div 8 \in Controllers
  BY DEF Controllers

\* highest_priority_line of a set of lines that is not empty: one of its lines,
\* none of which is more important.
LEMMA HighestOfLines ==
  ASSUME NEW S \in SUBSET Lines, S # {}
  PROVE  /\ HighestPriority(S) \in 1 .. 16
         /\ HighestLine(S) \in S /\ Priority(HighestLine(S)) = HighestPriority(S)
         /\ \A k \in S : HighestPriority(S) <= Priority(k)
<1> DEFINE P == {Priority(l) : l \in S}
<1>1. \A l \in S : Priority(l) \in 1 .. 16
  BY PriorityOfLine, LinesAssumption
<1>2. P \in SUBSET Nat /\ P # {} /\ P \subseteq 1 .. 16
  BY <1>1
<1>3. Min(P) \in P /\ \A y \in P : Min(P) <= y
  BY <1>2, LeastOfNaturals
<1>4. HighestPriority(S) = Min(P)
  BY DEF HighestPriority
<1>5. \E l \in S : Priority(l) = HighestPriority(S)
  BY <1>3, <1>4
<1>6. HighestLine(S) \in S /\ Priority(HighestLine(S)) = HighestPriority(S)
  BY <1>5 DEF HighestLine
<1>7. \A k \in S : HighestPriority(S) <= Priority(k)
  BY <1>3, <1>4
<1> QED BY <1>2, <1>3, <1>4, <1>6, <1>7

-----------------------------------------------------------------------------
(* The inductive invariant.                                                *)

CpuLabels == {"fetch", "exec", "ack", "update", "eoi", "clear"}

Types ==
  /\ async \in BOOLEAN
  /\ pending \subseteq Lines /\ in_service \subseteq Lines /\ imr \subseteq Lines
  /\ request \in BOOLEAN /\ periodic \in BOOLEAN
  /\ icw \in [Controllers -> IcwStates]
  /\ iflag \in BOOLEAN /\ halted \in BOOLEAN
  /\ pc \in [Threads -> CpuLabels \cup {"idle"}]
  /\ pc[CPU] \in CpuLabels /\ \A d \in Devices : pc[d] \in {"idle", "update"}
  /\ loads \in [Threads -> Seq(SUBSET Lines)] /\ \A t \in Threads : Len(loads[t]) <= 8
  /\ arg \in Int

\* The k-th load of a decision, made now.
Current(k) == Register(LoadOrder[k][1]) \cap Of(LoadOrder[k][2])

Loading(t) == pc[t] \in {"update", "ack"}

LoadsKept == \A t \in Threads : ~Loading(t) => loads[t] = << >>

\* With the synchronous clock one thread is in the controllers at a time, so what
\* it has loaded is what the registers hold.
OneAtATime == ~async => \A t, u \in Threads : t # u => pc[t] = Idle(t) \/ pc[u] = Idle(u)
SyncExact  == ~async => \A t \in Threads : \A k \in 1 .. Len(loads[t]) : loads[t][k] = Current(k)

\* While the CPU decides what to service, only device threads run, and all they
\* do to the registers is to make more lines pending.
AckExact ==
  pc[CPU] = "ack" =>
    \A k \in 1 .. Len(loads[CPU]) :
      /\ loads[CPU][k] \subseteq Current(k)
      /\ LoadOrder[k][1] # "pending" => loads[CPU][k] = Current(k)

\* With the synchronous clock the share of INTR is exact whenever no update is due.
Updating     == {"update", "eoi", "clear"}
RequestTaken == ~async /\ (\A t \in Threads : pc[t] \notin Updating) => (request <=> Ready # {})

IInv == Types /\ LoadsKept /\ OneAtATime /\ SyncExact /\ AckExact /\ RequestTaken

\* The eight loads, one by one.
LEMMA LoadsInOrder ==
  /\ Current(1) = pending \cap Of(0) /\ Current(2) = in_service \cap Of(0) /\ Current(3) = imr \cap Of(0)
  /\ Current(4) = pending \cap Of(1) /\ Current(5) = in_service \cap Of(1) /\ Current(6) = imr \cap Of(1)
  /\ Current(7) = in_service \cap Of(0) /\ Current(8) = in_service \cap Of(1)
  /\ LoadOrder[1][1] = "pending" /\ LoadOrder[4][1] = "pending"
  /\ \A k \in {2, 3, 5, 6, 7, 8} : LoadOrder[k][1] # "pending"
  /\ \A k \in 1 .. 8 : Current(k) \subseteq Lines
BY DEF Current, Register, LoadOrder, Of

\* The two controllers have all the lines.
LEMMA BothControllers ==
  /\ Of(0) \subseteq Lines /\ Of(1) \subseteq Lines
  /\ \A l \in Lines : l \in Of(0) \/ l \in Of(1)
BY ControllerOfLine, LinesAssumption DEF Of, Controllers

\* A decision on the registers as they are.
LEMMA FiresExact ==
  ASSUME pending \subseteq Lines, in_service \subseteq Lines, imr \subseteq Lines,
         NEW v, \A k \in 1 .. 8 : v[k] = Current(k)
  PROVE  Fires(v) <=> Ready # {}
<1>1. Effective(v) = (pending \ in_service) \ imr /\ InService(v) = in_service
  BY LoadsInOrder, BothControllers DEF Effective, InService
<1> DEFINE E == (pending \ in_service) \ imr
<1>2. E \in SUBSET Lines /\ in_service \in SUBSET Lines
  OBVIOUS
<1>3. \A l \in Lines : Priority(l) \in 1 .. 16
  BY PriorityOfLine, LinesAssumption
<1>4. HighestPriority(in_service) \in 1 .. 255
  BY HighestOfLines DEF HighestPriority, NoPriority
<1>5. CASE E = {}
  BY <1>1, <1>4, <1>5 DEF Fires, Ready, HighestPriority, NoPriority
<1>6. CASE E # {}
  <2>1. /\ HighestPriority(E) \in 1 .. 16 /\ HighestLine(E) \in E /\ Priority(HighestLine(E)) = HighestPriority(E)
        /\ \A k \in E : HighestPriority(E) <= Priority(k)
    BY <1>2, <1>6, HighestOfLines
  <2>2. (HighestPriority(E) < HighestPriority(in_service)) <=> \E l \in E : Priority(l) < HighestPriority(in_service)
    <3> HIDE DEF E
    <3>1. \A k \in E : Priority(k) \in 1 .. 16
      BY <1>2, <1>3
    <3> QED BY <1>4, <2>1, <3>1
  <2> QED BY <1>1, <2>2 DEF Fires, Ready
<1> QED BY <1>5, <1>6

\* A decision of the CPU to service a line.
LEMMA AcknowledgedLine ==
  ASSUME IInv, pc[CPU] = "ack", Len(loads[CPU]) = 8, Fires(loads[CPU])
  PROVE  LET l == HighestLine(Effective(loads[CPU]))
         IN  /\ l \in Lines /\ l \in pending \ imr
             /\ \A k \in in_service : Priority(l) < Priority(k)
<1> DEFINE v == loads[CPU]
           E == Effective(v)
<1>1. \A k \in 1 .. 8 : v[k] \subseteq Current(k) /\ (LoadOrder[k][1] # "pending" => v[k] = Current(k))
  BY DEF IInv, AckExact
<1>2. pending \subseteq Lines /\ in_service \subseteq Lines
  BY DEF IInv, Types
<1>3. /\ v[1] \subseteq pending \cap Of(0) /\ v[4] \subseteq pending \cap Of(1)
      /\ v[2] = in_service \cap Of(0) /\ v[3] = imr \cap Of(0)
      /\ v[5] = in_service \cap Of(1) /\ v[6] = imr \cap Of(1)
      /\ v[7] = in_service \cap Of(0) /\ v[8] = in_service \cap Of(1)
  BY <1>1, LoadsInOrder
<1> HIDE DEF v
<1>4. E \subseteq pending \ imr /\ InService(v) = in_service /\ E \in SUBSET Lines
  BY <1>2, <1>3, BothControllers DEF Effective, InService
<1>5. HighestPriority(E) < HighestPriority(in_service)
  BY <1>4 DEF Fires, v
<1> HIDE DEF E
<1>6. E # {}
  <2> SUFFICES ASSUME E = {} PROVE FALSE
    OBVIOUS
  <2>1. HighestPriority(E) = 255
    BY DEF HighestPriority, NoPriority
  <2>2. in_service = {} => HighestPriority(in_service) = 255
    BY DEF HighestPriority, NoPriority
  <2>3. in_service # {} => HighestPriority(in_service) \in 1 .. 16
    BY <1>2, HighestOfLines
  <2> QED BY <1>5, <2>1, <2>2, <2>3
<1>7. HighestLine(E) \in E /\ Priority(HighestLine(E)) = HighestPriority(E) /\ HighestPriority(E) \in 1 .. 16
  BY <1>4, <1>6, HighestOfLines
<1>8. ASSUME NEW k \in in_service
      PROVE  Priority(HighestLine(E)) < Priority(k)
  <2>1. HighestPriority(in_service) <= Priority(k) /\ HighestPriority(in_service) \in 1 .. 16
    BY <1>2, HighestOfLines
  <2>2. Priority(k) \in 1 .. 16
    BY <1>2, PriorityOfLine, LinesAssumption
  <2> QED BY <1>5, <1>7, <2>1, <2>2
<1> QED BY <1>4, <1>7, <1>8 DEF E, v

\* The power-on state of the pair.
LEMMA InitInv == Init => IInv
<1> SUFFICES ASSUME Init PROVE IInv
  OBVIOUS
<1>1. \A t \in Threads : pc[t] = Idle(t) /\ loads[t] = << >>
  BY DEF Init
<1>2. pc[CPU] = "fetch" /\ \A d \in Devices : pc[d] = "idle"
  BY <1>1, ThreadAssumption DEF Idle, Threads
<1>3. Types
  <2>1. pc \in [Threads -> CpuLabels \cup {"idle"}] /\ pc[CPU] \in CpuLabels
          /\ \A d \in Devices : pc[d] \in {"idle", "update"}
    BY <1>2 DEF Init, Idle, CpuLabels
  <2>2. loads \in [Threads -> Seq(SUBSET Lines)] /\ \A t \in Threads : Len(loads[t]) <= 8
    BY <1>1 DEF Init
  <2>3. icw \in [Controllers -> IcwStates]
    BY DEF Init, Ready8259, IcwStates
  <2>4. async \in BOOLEAN /\ request \in BOOLEAN /\ periodic \in BOOLEAN /\ iflag \in BOOLEAN /\ halted \in BOOLEAN
    BY Zenon DEF Init
  <2>5. pending \subseteq Lines /\ in_service \subseteq Lines /\ imr \subseteq Lines /\ arg \in Int
    BY DEF Init
  <2> QED BY <2>1, <2>2, <2>3, <2>4, <2>5 DEF Types
<1>4. LoadsKept /\ OneAtATime
  BY <1>1 DEF LoadsKept, OneAtATime
<1>5. SyncExact /\ AckExact
  BY <1>1, <1>2 DEF SyncExact, AckExact
<1>6. RequestTaken
  BY DEF Init, RequestTaken, Ready
<1> QED BY <1>3, <1>4, <1>5, <1>6 DEF IInv

-----------------------------------------------------------------------------
(* The steps.                                                              *)

\* A thread that is not loading moves on; the registers change only if an update
\* is due after it.
LEMMA MoveInv ==
  ASSUME IInv, NEW t \in Threads, NEW label,
         Turn(t), ~Loading(t), pc' = [pc EXCEPT ![t] = label],
         IF t = CPU THEN label \in CpuLabels
                    ELSE label = "update" /\ pending \subseteq pending' /\ UNCHANGED <<in_service, imr>>,
         label \notin Updating => pc[t] \notin Updating /\ UNCHANGED <<core, request>>,
         pending' \subseteq Lines, in_service' \subseteq Lines, imr' \subseteq Lines,
         request' \in BOOLEAN, periodic' \in BOOLEAN, icw' \in [Controllers -> IcwStates],
         iflag' \in BOOLEAN, halted' \in BOOLEAN, arg' \in Int,
         UNCHANGED <<async, loads>>
  PROVE  IInv'
<1>0. /\ pc \in [Threads -> CpuLabels \cup {"idle"}] /\ label \in CpuLabels
      /\ pc'[t] = label /\ \A u \in Threads \ {t} : pc'[u] = pc[u]
      /\ CPU \in Threads /\ CPU \notin Devices /\ Threads = Devices \cup {CPU}
  BY ThreadAssumption DEF IInv, Types, CpuLabels, Threads
<1>a. ~async => \A u \in Threads \ {t} : pc[u] = Idle(u) /\ ~Loading(u)
  BY DEF Turn, Idle, Loading
<1>1. Types'
  <2>1. pc' \in [Threads -> CpuLabels \cup {"idle"}]
    BY <1>0
  <2>2. pc'[CPU] \in CpuLabels /\ \A d \in Devices : pc'[d] \in {"idle", "update"}
    BY <1>0 DEF IInv, Types
  <2> QED BY <2>1, <2>2 DEF IInv, Types
<1>2. LoadsKept'
  BY <1>0 DEF IInv, LoadsKept, Loading
<1>3. OneAtATime'
  BY <1>0, <1>a DEF OneAtATime, Idle
<1>4. SyncExact'
  BY <1>a DEF IInv, LoadsKept, SyncExact
<1>5. AckExact'
  <2>1. CASE t = CPU
    <3>1. Len(loads'[CPU]) = 0
      BY <2>1 DEF IInv, LoadsKept
    <3> QED BY <3>1 DEF AckExact
  <2>2. CASE t # CPU
    <3>1. pc'[CPU] = pc[CPU] /\ pending \subseteq pending' /\ in_service' = in_service /\ imr' = imr
      BY <1>0, <2>2
    <3>2. \A k \in 1 .. 8 : /\ Current(k) \subseteq Current(k)'
                            /\ LoadOrder[k][1] # "pending" => Current(k)' = Current(k)
      BY <3>1 DEF Current, Register, LoadOrder
    <3>3. loads[CPU] \in Seq(SUBSET Lines) /\ Len(loads[CPU]) <= 8
      BY <1>0 DEF IInv, Types
    <3>4. \A k \in 1 .. Len(loads[CPU]) : k \in 1 .. 8
      BY <3>3
    <3> QED BY <3>1, <3>2, <3>4 DEF IInv, AckExact
  <2> QED BY <2>1, <2>2
<1>6. RequestTaken'
  <2> SUFFICES ASSUME ~async, \A u \in Threads : pc'[u] \notin Updating
               PROVE  request' <=> Ready' # {}
    BY DEF RequestTaken
  <2>1. \A u \in Threads : pc[u] \notin Updating
    BY <1>0
  <2>2. UNCHANGED <<core, request>>
    BY <1>0
  <2> QED BY <2>1, <2>2 DEF IInv, RequestTaken, Ready, core
<1> QED BY <1>1, <1>2, <1>3, <1>4, <1>5, <1>6 DEF IInv

\* One more register is read.
LEMMA LoadInv ==
  ASSUME IInv, NEW t \in Threads, Load(t)
  PROVE  IInv'
<1> DEFINE n == Len(loads[t]) + 1
<1>0. /\ Loading(t) /\ Turn(t) /\ n \in 1 .. 8
      /\ loads' = [loads EXCEPT ![t] = Append(@, Current(n))]
      /\ UNCHANGED <<async, pending, in_service, imr, request, periodic, icw, iflag, halted, pc, arg>>
  <2>1. Len(LoadOrder) = 8
    BY DEF LoadOrder
  <2>2. Len(loads[t]) \in Nat /\ Len(loads[t]) < 8
    BY <2>1 DEF Load, IInv, Types
  <2> QED BY <2>2 DEF Load, Loading, Current, core, guest
<1>1. loads \in [Threads -> Seq(SUBSET Lines)] /\ Current(n) \in SUBSET Lines
  BY <1>0, LoadsInOrder DEF IInv, Types
<1>2. /\ loads'[t] = Append(loads[t], Current(n))
      /\ \A u \in Threads \ {t} : loads'[u] = loads[u]
  BY <1>0, <1>1
<1>3. /\ loads'[t] \in Seq(SUBSET Lines) /\ Len(loads'[t]) = n /\ loads'[t][n] = Current(n)
      /\ \A k \in 1 .. Len(loads[t]) : loads'[t][k] = loads[t][k]
      /\ \A k \in 1 .. n : k = n \/ k \in 1 .. Len(loads[t])
  BY <1>1, <1>2
<1> HIDE DEF n
<1>4. Types'
  <2>1. loads' \in [Threads -> Seq(SUBSET Lines)]
    BY <1>0, <1>1, <1>2, <1>3
  <2>2. \A u \in Threads : Len(loads'[u]) <= 8
    BY <1>0, <1>2, <1>3 DEF IInv, Types
  <2> QED BY <1>0, <2>1, <2>2 DEF IInv, Types
<1>5. LoadsKept'
  BY <1>0, <1>2 DEF IInv, LoadsKept, Loading
<1>6. OneAtATime'
  BY <1>0 DEF IInv, OneAtATime, Idle
<1>7. \A k : Current(k)' = Current(k)
  BY <1>0 DEF Current, Register
<1>8. SyncExact'
  <2> SUFFICES ASSUME ~async, NEW u \in Threads, NEW k \in 1 .. Len(loads'[u])
               PROVE  loads'[u][k] = Current(k)
    BY <1>0, <1>7 DEF SyncExact
  <2>1. CASE u # t
    BY <1>2, <2>1 DEF IInv, SyncExact
  <2>2. CASE u = t
    BY <1>3, <2>2 DEF IInv, SyncExact
  <2> QED BY <2>1, <2>2
<1>9. AckExact'
  <2> SUFFICES ASSUME pc[CPU] = "ack", NEW k \in 1 .. Len(loads'[CPU])
               PROVE  /\ loads'[CPU][k] \subseteq Current(k)
                      /\ LoadOrder[k][1] # "pending" => loads'[CPU][k] = Current(k)
    BY <1>0, <1>7 DEF AckExact
  <2>1. CASE CPU # t
    BY <1>2, <2>1 DEF IInv, AckExact, Threads
  <2>2. CASE CPU = t
    BY <1>3, <2>2 DEF IInv, AckExact
  <2> QED BY <2>1, <2>2
<1>10. RequestTaken'
  BY <1>0 DEF IInv, RequestTaken, Ready
<1> QED BY <1>4, <1>5, <1>6, <1>8, <1>9, <1>10 DEF IInv

\* A thread that has loaded everything leaves the controllers.
LEMMA LoadedAll ==
  ASSUME IInv, NEW t \in Threads, NEW label, Loaded(t, label)
  PROVE  Turn(t) /\ pc[t] = label /\ Len(loads[t]) = 8
         /\ (~async => (Fires(loads[t]) <=> Ready # {}))
<1>1. Turn(t) /\ pc[t] = label /\ Len(loads[t]) = 8
  BY DEF Loaded, At, LoadOrder
<1>2. ~async => \A k \in 1 .. 8 : loads[t][k] = Current(k)
  BY <1>1 DEF IInv, SyncExact
<1>3. pending \subseteq Lines /\ in_service \subseteq Lines /\ imr \subseteq Lines
  BY DEF IInv, Types
<1> QED BY <1>1, <1>2, <1>3, FiresExact

\* The locked half of update_pending_interrupt.
LEMMA UpdateInv ==
  ASSUME IInv, NEW t \in Threads, UpdateRequest(t)
  PROVE  IInv'
<1>0. /\ request' = Fires(loads[t]) /\ loads' = [loads EXCEPT ![t] = << >>] /\ pc' = [pc EXCEPT ![t] = Idle(t)]
      /\ UNCHANGED <<async, pending, in_service, imr, periodic, icw, iflag, halted, arg>>
  BY DEF UpdateRequest, Goto, core, guest
<1>1. Turn(t) /\ (~async => (Fires(loads[t]) <=> Ready # {}))
  BY LoadedAll DEF UpdateRequest
<1>2. /\ pc \in [Threads -> CpuLabels \cup {"idle"}] /\ loads \in [Threads -> Seq(SUBSET Lines)]
      /\ CPU \notin Devices /\ Threads = Devices \cup {CPU}
  BY ThreadAssumption DEF IInv, Types, Threads
<1>3. /\ pc'[t] = Idle(t) /\ loads'[t] = << >>
      /\ \A u \in Threads \ {t} : pc'[u] = pc[u] /\ loads'[u] = loads[u]
  BY <1>0, <1>2
<1>4. Types'
  <2>1. Idle(t) \in CpuLabels \cup {"idle"} /\ request' \in BOOLEAN
    BY <1>0 DEF Idle, CpuLabels, Fires
  <2>2. pc' \in [Threads -> CpuLabels \cup {"idle"}] /\ loads' \in [Threads -> Seq(SUBSET Lines)]
    BY <1>0, <1>2, <2>1
  <2>3. pc'[CPU] \in CpuLabels /\ \A d \in Devices : pc'[d] \in {"idle", "update"}
    BY <1>2, <1>3 DEF IInv, Types, Idle, CpuLabels
  <2>4. \A u \in Threads : Len(loads'[u]) <= 8
    BY <1>3 DEF IInv, Types
  <2> QED BY <1>0, <2>1, <2>2, <2>3, <2>4 DEF IInv, Types
<1>5. LoadsKept'
  BY <1>3 DEF IInv, LoadsKept, Loading
<1>6. OneAtATime'
  BY <1>0, <1>3 DEF IInv, OneAtATime, Idle
<1>7. \A k : Current(k)' = Current(k)
  BY <1>0 DEF Current, Register
<1>8. SyncExact'
  BY <1>0, <1>3, <1>7 DEF IInv, SyncExact
<1>9. AckExact'
  <2>1. CASE t = CPU
    BY <1>3, <2>1 DEF AckExact, Idle
  <2>2. CASE t # CPU
    BY <1>2, <1>3, <1>7, <2>2 DEF IInv, AckExact
  <2> QED BY <2>1, <2>2
<1>10. RequestTaken'
  BY <1>0, <1>1 DEF RequestTaken, Ready
<1> QED BY <1>4, <1>5, <1>6, <1>8, <1>9, <1>10 DEF IInv

\* get_next_interrupt: a line starts service, or there is nothing to do.
LEMMA AcknowledgeInv ==
  ASSUME IInv, Acknowledge
  PROVE  IInv'
<1> DEFINE l == HighestLine(Effective(loads[CPU]))
           fires == Fires(loads[CPU])
<1>0. /\ IF fires THEN in_service' = in_service \cup {l} /\ pc' = [pc EXCEPT ![CPU] = "update"]
                        /\ iflag' = FALSE /\ halted' = FALSE
                  ELSE pc' = [pc EXCEPT ![CPU] = "fetch"] /\ UNCHANGED <<in_service, iflag, halted>>
      /\ loads' = [loads EXCEPT ![CPU] = << >>]
      /\ UNCHANGED <<async, pending, imr, request, periodic, icw, arg>>
  BY DEF Acknowledge, Goto
<1>1. /\ Turn(CPU) /\ pc[CPU] = "ack" /\ Len(loads[CPU]) = 8 /\ (~async => (fires <=> Ready # {}))
      /\ CPU \in Threads
  BY LoadedAll DEF Acknowledge, Threads
<1>2. /\ pc \in [Threads -> CpuLabels \cup {"idle"}] /\ loads \in [Threads -> Seq(SUBSET Lines)]
      /\ CPU \notin Devices /\ Threads = Devices \cup {CPU}
  BY ThreadAssumption DEF IInv, Types, Threads
<1>3. /\ pc'[CPU] = (IF fires THEN "update" ELSE "fetch") /\ loads'[CPU] = << >>
      /\ \A u \in Devices : pc'[u] = pc[u] /\ loads'[u] = loads[u]
  BY <1>0, <1>2
<1>4. fires => l \in Lines
  BY <1>1, AcknowledgedLine
<1>a. ~async => \A u \in Devices : pc[u] = "idle" /\ loads[u] = << >>
  BY <1>1, <1>2 DEF Turn, Idle, IInv, LoadsKept, Loading
<1> HIDE DEF l, fires
<1>5. Types'
  <2>1. pc' \in [Threads -> CpuLabels \cup {"idle"}] /\ loads' \in [Threads -> Seq(SUBSET Lines)]
    BY <1>0, <1>2 DEF CpuLabels
  <2>2. pc'[CPU] \in CpuLabels /\ \A d \in Devices : pc'[d] \in {"idle", "update"}
    BY <1>3 DEF IInv, Types, CpuLabels
  <2>3. \A u \in Threads : Len(loads'[u]) <= 8
    BY <1>2, <1>3 DEF IInv, Types
  <2>4. in_service' \subseteq Lines
    BY <1>0, <1>4 DEF IInv, Types
  <2>5. iflag' \in BOOLEAN /\ halted' \in BOOLEAN
    BY <1>0 DEF IInv, Types
  <2> QED BY <1>0, <2>1, <2>2, <2>3, <2>4, <2>5 DEF IInv, Types
<1>6. LoadsKept'
  BY <1>2, <1>3 DEF IInv, LoadsKept, Loading
<1>7. OneAtATime'
  BY <1>0, <1>2, <1>3, <1>a DEF OneAtATime, Idle
<1>8. SyncExact'
  BY <1>0, <1>2, <1>3, <1>a DEF SyncExact
<1>9. AckExact'
  BY <1>3 DEF AckExact
<1>10. RequestTaken'
  <2>1. CASE fires
    BY <1>1, <1>3, <2>1 DEF RequestTaken, Updating
  <2>2. CASE ~fires
    <3>1. ~async => \A u \in Threads : pc[u] \notin Updating
      BY <1>1, <1>2, <1>a DEF Updating
    <3> QED BY <1>0, <2>2, <3>1 DEF IInv, RequestTaken, Ready
  <2> QED BY <2>1, <2>2
<1> QED BY <1>5, <1>6, <1>7, <1>8, <1>9, <1>10 DEF IInv

\* A line is pulsed by a device thread or by a port handler.
LEMMA PulseInv ==
  ASSUME IInv, NEW t \in Threads, NEW l \in Lines, Pulse(t, l)
  PROVE  IInv'
<1>1. /\ Turn(t) /\ ~Loading(t) /\ pc' = [pc EXCEPT ![t] = "update"] /\ pending' = pending \cup {l}
      /\ UNCHANGED <<async, in_service, imr, request, periodic, icw, iflag, halted, loads, arg>>
  BY DEF Pulse, Exec, At, Goto, Loading, guest
<1> QED BY <1>1, MoveInv DEF IInv, Types, CpuLabels, Updating

\* The CPU polls INTR and then decides, or executes an instruction.
LEMMA PollInv ==
  ASSUME IInv, Poll
  PROVE  IInv'
<1>1. /\ Turn(CPU) /\ pc[CPU] = "fetch" /\ CPU \in Threads /\ periodic' \in BOOLEAN
      /\ UNCHANGED <<async, pending, in_service, imr, request, icw, iflag, halted, loads, arg>>
  BY DEF Poll, At, Threads, core, guest, IInv, Types
<1>2. PICK label \in {"ack", "exec"} : pc' = [pc EXCEPT ![CPU] = label]
  BY DEF Poll, Goto
<1>3. ~Loading(CPU) /\ pc[CPU] \notin Updating /\ label \in CpuLabels /\ label \notin Updating
  BY <1>1 DEF Loading, Updating, CpuLabels
<1>4. UNCHANGED <<core, request>>
  BY <1>1 DEF core
<1> QED BY <1>1, <1>2, <1>3, <1>4, MoveInv DEF IInv, Types

\* A guest instruction.
LEMMA GuestInv ==
  ASSUME IInv, GuestStep
  PROVE  IInv'
<1>0. CPU \in Threads /\ (pc[CPU] = "exec" => ~Loading(CPU) /\ pc[CPU] \notin Updating)
  BY DEF Threads, Loading, Updating
<1>1. ASSUME NEW n \in Controllers, NonSpecificEoi(n)
      PROVE  IInv'
  <2>1. /\ Turn(CPU) /\ pc[CPU] = "exec"
        /\ UNCHANGED <<async, pending, imr, request, periodic, icw, iflag, halted, loads>>
    BY <1>1 DEF NonSpecificEoi, Exec, At, guest
  <2>2. CASE pc' = [pc EXCEPT ![CPU] = "eoi"] /\ in_service' = in_service \ {Min(in_service \cap Of(n))}
               /\ arg' = Min(in_service \cap Of(n)) /\ in_service \cap Of(n) # {}
    <3>1. arg' \in Int
      <4>1. in_service \cap Of(n) \in SUBSET Nat
        <5>1. in_service \subseteq Lines /\ Lines \subseteq 0 .. 15
          BY LinesAssumption DEF IInv, Types
        <5>2. \A x \in in_service \cap Of(n) : x \in Nat
          BY <5>1
        <5> QED BY <5>2
      <4> QED BY <2>2, <4>1, LeastOfNaturals
    <3>2. in_service' \subseteq Lines
      BY <2>2 DEF IInv, Types
    <3> QED BY <1>0, <2>1, <2>2, <3>1, <3>2, MoveInv DEF IInv, Types, CpuLabels, Updating
  <2>3. CASE pc' = [pc EXCEPT ![CPU] = "fetch"] /\ UNCHANGED <<in_service, arg>>
    BY <1>0, <2>1, <2>3, MoveInv DEF IInv, Types, CpuLabels, Updating, core
  <2> QED BY <1>1, <2>2, <2>3 DEF NonSpecificEoi, EndOfInterrupt, Goto
<1>2. ASSUME NEW l \in Lines, SpecificEoi(l)
      PROVE  IInv'
  <2>1. /\ Turn(CPU) /\ pc[CPU] = "exec"
        /\ UNCHANGED <<async, pending, imr, request, periodic, icw, iflag, halted, loads>>
    BY <1>2 DEF SpecificEoi, Exec, At, guest
  <2>2. CASE pc' = [pc EXCEPT ![CPU] = "eoi"] /\ in_service' = in_service \ {l} /\ arg' = l
    <3>1. arg' \in Int /\ in_service' \subseteq Lines
      BY <2>2, LinesAssumption DEF IInv, Types
    <3> QED BY <1>0, <2>1, <2>2, <3>1, MoveInv DEF IInv, Types, CpuLabels, Updating
  <2>3. CASE pc' = [pc EXCEPT ![CPU] = "fetch"] /\ UNCHANGED <<in_service, arg>>
    BY <1>0, <2>1, <2>3, MoveInv DEF IInv, Types, CpuLabels, Updating, core
  <2> QED BY <1>2, <2>2, <2>3 DEF SpecificEoi, EndOfInterrupt, Goto
<1>3. ASSUME NEW n \in Controllers, ClearPending(n)
      PROVE  IInv'
  <2>1. /\ Turn(CPU) /\ pc[CPU] = "exec" /\ pc' = [pc EXCEPT ![CPU] = "clear"]
        /\ pending' \subseteq Lines /\ arg' \in Int
        /\ UNCHANGED <<async, in_service, imr, request, periodic, icw, iflag, halted, loads>>
    BY <1>3 DEF ClearPending, Exec, At, Goto, guest, IInv, Types, Controllers
  <2> QED BY <1>0, <2>1, MoveInv DEF IInv, Types, CpuLabels, Updating
<1>4. ASSUME NEW n \in Controllers, NEW S \in SUBSET Of(n), WriteImr(n, S)
      PROVE  IInv'
  <2>1. /\ Turn(CPU) /\ pc[CPU] = "exec" /\ pc' = [pc EXCEPT ![CPU] = "update"]
        /\ imr' = (imr \ Of(n)) \cup S
        /\ UNCHANGED <<async, pending, in_service, request, periodic, icw, iflag, halted, loads, arg>>
    BY <1>4 DEF WriteImr, Exec, At, Goto, guest
  <2>2. imr' \subseteq Lines
    BY <2>1 DEF IInv, Types, Of
  <2> QED BY <1>0, <2>1, <2>2, MoveInv DEF IInv, Types, CpuLabels, Updating
<1>5. ASSUME NEW n \in Reinit, NEW s \in BOOLEAN, NEW i \in BOOLEAN, WriteIcw(n) \/ WriteIcw1(n, s, i)
      PROVE  IInv'
  <2>1. /\ Turn(CPU) /\ pc[CPU] = "exec" /\ pc' = [pc EXCEPT ![CPU] = "fetch"]
        /\ UNCHANGED <<async, core, request, periodic, iflag, halted, loads, arg>>
    BY <1>5 DEF WriteIcw, WriteIcw1, Exec, At, Goto
  <2>2. n \in Controllers /\ icw \in [Controllers -> IcwStates]
    BY LinesAssumption DEF Controllers, IInv, Types
  <2>3. AfterIcw(icw[n]) \in IcwStates
    BY <2>2 DEF AfterIcw, IcwStates, Ready8259
  <2>4. [at |-> "icw2", single |-> s, need_icw4 |-> i] \in IcwStates
    BY DEF IcwStates
  <2>5. icw' \in [Controllers -> IcwStates]
    BY <1>5, <2>2, <2>3, <2>4 DEF WriteIcw, WriteIcw1
  <2> QED BY <1>0, <2>1, <2>5, MoveInv DEF IInv, Types, CpuLabels, Updating, core
<1>6. ASSUME NEW b \in BOOLEAN, SetIf(b) \/ Halt
      PROVE  IInv'
  <2>1. /\ Turn(CPU) /\ pc[CPU] = "exec" /\ pc' = [pc EXCEPT ![CPU] = "fetch"]
        /\ iflag' \in BOOLEAN /\ halted' \in BOOLEAN
        /\ UNCHANGED <<async, core, request, periodic, icw, loads, arg>>
    BY <1>6 DEF SetIf, Halt, Exec, At, Goto, IInv, Types
  <2> QED BY <1>0, <2>1, MoveInv DEF IInv, Types, CpuLabels, Updating, core
<1> QED BY <1>0, <1>1, <1>2, <1>3, <1>4, <1>5, <1>6, PulseInv DEF GuestStep

\* The second store of an EOI and of clear_pending, before the update.
LEMMA SecondStoreInv ==
  ASSUME IInv, EoiClearPending \/ ClearInService
  PROVE  IInv'
<1>1. /\ Turn(CPU) /\ ~Loading(CPU) /\ pc' = [pc EXCEPT ![CPU] = "update"] /\ CPU \in Threads
      /\ pending' \subseteq Lines /\ in_service' \subseteq Lines /\ arg' \in Int
      /\ UNCHANGED <<async, imr, request, periodic, icw, iflag, halted, loads>>
  BY DEF EoiClearPending, ClearInService, At, Goto, Loading, Threads, guest, IInv, Types
<1> QED BY <1>1, MoveInv DEF IInv, Types, CpuLabels, Updating

\* Every step, and a step of nothing, keeps the invariant.
LEMMA NextInv == IInv /\ [Next]_vars => IInv'
<1> SUFFICES ASSUME IInv, [Next]_vars PROVE IInv'
  OBVIOUS
<1>1. CPU \in Threads /\ Devices \subseteq Threads
  BY DEF Threads
<1>2. CASE CpuStep
  BY <1>1, <1>2, LoadInv, UpdateInv, PollInv, AcknowledgeInv, SecondStoreInv DEF CpuStep
<1>3. CASE GuestStep
  BY <1>3, GuestInv
<1>4. CASE \E t \in Devices : DeviceStep(t) \/ \E l \in Lines : Pulse(t, l)
  BY <1>1, <1>4, LoadInv, UpdateInv, PulseInv DEF DeviceStep
<1>5. CASE PeriodicTick \/ UNCHANGED vars
  <2>1. /\ periodic' \in BOOLEAN
        /\ UNCHANGED <<async, pending, in_service, imr, request, icw, iflag, halted, pc, loads, arg>>
    BY <1>5 DEF PeriodicTick, vars, core, guest, IInv, Types
  <2>2. \A k : Current(k)' = Current(k)
    BY <2>1 DEF Current, Register
  <2>3. Types'
    BY <2>1 DEF IInv, Types
  <2>4. LoadsKept' /\ OneAtATime' /\ RequestTaken'
    BY <2>1 DEF IInv, LoadsKept, Loading, OneAtATime, Idle, RequestTaken, Ready
  <2>5. SyncExact' /\ AckExact'
    BY <2>1, <2>2 DEF IInv, SyncExact, AckExact
  <2> QED BY <2>3, <2>4, <2>5 DEF IInv
<1> QED BY <1>2, <1>3, <1>4, <1>5 DEF Next

\* The inductive invariant holds in every reachable state of either clock mode.
THEOREM InductiveInvariant == Spec => []IInv
  BY InitInv, NextInv, PTL DEF Spec

-----------------------------------------------------------------------------
(* What it is for.                                                         *)

\* The types of the registers and of the threads.
THEOREM TypeCorrect == Spec => []TypeOK
<1>1. IInv => TypeOK
  BY DEF IInv, Types, TypeOK, CpuLabels
<1> QED BY <1>1, InductiveInvariant, PTL

\* With the synchronous clock the PIC's share of INTR is asserted between guest
\* instructions if and only if some line is to be signalled.
THEOREM RequestIsExact == Spec => []RequestExact
<1>1. IInv => RequestExact
  <2>1. AtRest => \A t \in Threads : pc[t] \notin Updating
    BY DEF AtRest, Updating
  <2> QED BY <2>1 DEF IInv, RequestTaken, RequestExact
<1> QED BY <1>1, InductiveInvariant, PTL

\* A line that starts service is requested, not masked and more important than
\* every line in service, whatever the device threads did during the loads.
THEOREM ServiceIsLegal == Spec => ServiceLegal
<1> DEFINE Legal == \A l \in in_service' \ in_service :
                      /\ l \in pending \ imr
                      /\ \A k \in in_service : Priority(l) < Priority(k)
<1>1. IInv /\ [Next]_vars => [Legal]_vars
  <2> SUFFICES ASSUME IInv, [Next]_vars PROVE Legal \/ UNCHANGED vars
    OBVIOUS
  <2>1. CASE Acknowledge
    <3>1. CASE Fires(loads[CPU])
      <4>1. pc[CPU] = "ack" /\ Len(loads[CPU]) = 8
        BY <2>1, LoadedAll DEF Acknowledge, Threads
      <4>2. in_service' = in_service \cup {HighestLine(Effective(loads[CPU]))}
        BY <2>1, <3>1 DEF Acknowledge
      <4> QED BY <3>1, <4>1, <4>2, AcknowledgedLine
    <3>2. CASE ~Fires(loads[CPU])
      BY <2>1, <3>2 DEF Acknowledge
    <3> QED BY <3>1, <3>2
  <2>2. CASE in_service' \subseteq in_service
    BY <2>2
  <2>3. CpuStep /\ ~Acknowledge => in_service' \subseteq in_service
    BY DEF CpuStep, Load, UpdateRequest, Poll, EoiClearPending, ClearInService, core
  <2>4. GuestStep => in_service' \subseteq in_service
    BY DEF GuestStep, NonSpecificEoi, EndOfInterrupt, SpecificEoi, ClearPending, WriteImr, WriteIcw, WriteIcw1, Pulse,
           SetIf, Halt, core
  <2>5. (\E t \in Devices : DeviceStep(t) \/ \E l \in Lines : Pulse(t, l)) \/ PeriodicTick
          => in_service' \subseteq in_service
    BY DEF DeviceStep, Load, UpdateRequest, Pulse, PeriodicTick, core
  <2> QED BY <2>1, <2>2, <2>3, <2>4, <2>5 DEF Next
<1> QED BY <1>1, InductiveInvariant, PTL DEF Spec, ServiceLegal
=============================================================================

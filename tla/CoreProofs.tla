----------------------------- MODULE CoreProofs -----------------------------
(***************************************************************************)
(* Proofs about the core of the emulator.                                  *)
(*                                                                         *)
(* The INTR counter of Intr: for any number of threads and requests the    *)
(* counter is exact up to what the build missed, its decrement underflows  *)
(* only after a build that missed a request, and the deallocation waits    *)
(* for every reference it can see.                                         *)
(*                                                                         *)
(* The guest's memory of Memory: for pages of any size, any number of      *)
(* pages and frames and any tables and maps, an access reaches the bytes   *)
(* that the page tables say, and a page that can be written without a trap *)
(* shows a dirty frame.                                                    *)
(*                                                                         *)
(* The page code of PageLoops: for any pages of instructions a block jumps *)
(* to blocks, the groups are the strongly connected components, and no     *)
(* loop of a component with an entry is left whole.  Tarjan's algorithm    *)
(* and the search of a group are proved on a graph first (VisitInv and     *)
(* BreakInv), then for the state of the model (LoopsInv).                  *)
(***************************************************************************)
EXTENDS Intr, Memory, PageLoops, FiniteSetTheorems, SequenceTheorems, NaturalSets, TLAPS

Before(t) == pc[t] \in {"check", "ref", "access"}

\* What a thread's call refers to: an idle thread has no call, a request or a
\* drop is about exactly one PendingRequest, and only a drop fails.
CallShape ==
  \A t \in Threads :
    /\ pc[t] = "idle" => call[t] = NoCall
    /\ pc[t] = "failed" => call[t].op = "release"
    /\ call[t].op # "poll" => \E r \in Requests : call[t].req = {r}
    /\ call[t].op = "poll" => call[t].req = {}

\* A PendingRequest has one owner: the caller or one running call.
OneOwner ==
  \A t \in Threads :
    /\ call[t].req \cap held = {}
    /\ \A u \in Threads \ {t} : call[t].req \cap call[u].req = {}

\* Whether the increment of a request is in the counter.
Accounting ==
  /\ valid => held \subseteq counted
  /\ \A t \in Threads :
       /\ call[t].op = "request" /\ Before(t) => call[t].req \cap counted = {}
       /\ call[t].op = "request" /\ pc[t] = "unref" => call[t].req \subseteq counted
       /\ call[t].op = "release" /\ Before(t) /\ (valid \/ pc[t] # "check")
            => call[t].req \subseteq counted

\* Nothing is missed before the build has loaded the counter.
NoneMissed == phase = "early" => missed = 0

RefExact == refcount = Cardinality(Inside)

IInv ==
  /\ TypeOK
  /\ CallShape
  /\ OneOwner
  /\ Accounting
  /\ NoneMissed
  /\ RefExact
  /\ CountExact
  /\ NoUnderflow
  /\ DrainedBeforeFree

PcType == pc \in [Threads -> Places]

\* Facts about finite sets used for the two counters.
LEMMA Finite ==
  ASSUME TypeOK
  PROVE  /\ IsFiniteSet(Inside) /\ Cardinality(Inside) \in Nat
         /\ IsFiniteSet(counted) /\ Cardinality(counted) \in Nat
<1>1. Inside \subseteq Threads /\ counted \subseteq Requests
  BY DEF Inside, TypeOK
<1>2. IsFiniteSet(Inside) /\ IsFiniteSet(counted)
  BY <1>1, FS_Subset, ThreadsAssumption, RequestsAssumption
<1> QED BY <1>2, FS_CardinalityType

\* A step that changes no pc between inside and outside of `with` keeps the
\* set of references.
LEMMA InsideSame ==
  ASSUME PcType, NEW t \in Threads, NEW x \in Places,
         pc' = [pc EXCEPT ![t] = x],
         t \in Inside <=> x \in {"access", "unref", "failed"}
  PROVE  Inside' = Inside
BY DEF PcType, Places, Inside

\* TakeRef adds its thread to the references.
LEMMA InsideAdd ==
  ASSUME PcType, NEW t \in Threads, pc' = [pc EXCEPT ![t] = "access"]
  PROVE  Inside' = Inside \cup {t}
BY DEF PcType, Places, Inside

\* DropRef removes its thread from the references.
LEMMA InsideRemove ==
  ASSUME PcType, NEW t \in Threads, NEW x \in {"idle", "panicked"}, pc' = [pc EXCEPT ![t] = x]
  PROVE  Inside' = Inside \ {t}
BY DEF PcType, Places, Inside

\* The start of a call: `with` is about to check the pointer, and the call is
\* about a PendingRequest nobody else refers to.
LEMMA EnterInv ==
  ASSUME IInv, NEW t \in Threads, MayCall(t), NEW o \in Ops, NEW r,
         Enter(t, o, r), held' \subseteq held,
         o = "poll" => r = {},
         o # "poll" => \E x \in Requests : r = {x},
         r \cap held' = {},
         \A u \in Threads : call[u].req \cap r = {},
         o = "request" => r \cap counted = {},
         o = "release" => r \subseteq held
  PROVE  IInv'
<1>0. /\ pc' = [pc EXCEPT ![t] = "check"]
      /\ call' = [call EXCEPT ![t] = [op |-> o, req |-> r]]
      /\ UNCHANGED <<phase, count, loaded, valid, refcount, counted, missed, late>>
      /\ pc[t] = "idle"
  BY DEF Enter, MayCall
<1>1. TypeOK'
  <2>1. [op |-> o, req |-> r] \in Calls  BY DEF Calls
  <2> QED BY <1>0, <2>1 DEF IInv, TypeOK, Places
<1>2. CallShape'
  BY <1>0 DEF IInv, TypeOK, CallShape, NoCall
<1>3. OneOwner'
  BY <1>0 DEF IInv, TypeOK, OneOwner
<1>4. Accounting'
  BY <1>0 DEF IInv, TypeOK, Accounting, Before
<1>5. NoneMissed'
  BY <1>0 DEF IInv, NoneMissed
<1>6. Inside' = Inside
  BY <1>0, InsideSame DEF IInv, TypeOK, PcType, Inside
<1>7. RefExact' /\ CountExact' /\ DrainedBeforeFree' /\ NoUnderflow'
  BY <1>0, <1>6 DEF IInv, TypeOK, RefExact, NoneMissed, CountExact, DrainedBeforeFree, NoUnderflow
<1> QED BY <1>1, <1>2, <1>3, <1>4, <1>5, <1>7 DEF IInv

\* The end of a call keeps one owner per PendingRequest: the caller takes over
\* the one a request made.
LEMMA ReturnOwner ==
  ASSUME IInv, NEW t \in Threads, NEW x \in {"idle", "panicked"}, Return(t, x)
  PROVE  CallShape' /\ OneOwner'
<1>1. CallShape'
  BY DEF IInv, TypeOK, CallShape, Return, NoCall
<1>2. OneOwner'
  BY DEF IInv, TypeOK, OneOwner, Return, NoCall
<1> QED BY <1>1, <1>2

\* The load starts the window in which a change of the counter is missed.
LEMMA BuildLoadInv ==
  ASSUME IInv, BuildLoad
  PROVE  IInv'
<1> USE DEF BuildLoad
<1>1. TypeOK'
  BY DEF IInv, TypeOK, Phases
<1>2. CallShape' /\ OneOwner' /\ Accounting'
  BY DEF IInv, CallShape, OneOwner, Accounting, Before
<1>3. NoneMissed'
  BY DEF IInv, NoneMissed
<1>4. Inside' = Inside
  BY DEF Inside
<1>5. RefExact' /\ CountExact' /\ DrainedBeforeFree' /\ NoUnderflow'
  BY <1>4 DEF IInv, TypeOK, RefExact, NoneMissed, CountExact, DrainedBeforeFree, NoUnderflow
<1> QED BY <1>1, <1>2, <1>3, <1>5 DEF IInv

\* The structure is written with the value that was loaded, and what was
\* missed is missed for good.
LEMMA BuildStoreInv ==
  ASSUME IInv, BuildStore
  PROVE  IInv'
<1> USE DEF BuildStore
<1>1. TypeOK'
  BY DEF IInv, TypeOK, Phases
<1>2. CallShape' /\ OneOwner' /\ Accounting'
  BY DEF IInv, CallShape, OneOwner, Accounting, Before
<1>3. NoneMissed'
  BY DEF IInv, NoneMissed
<1>4. Inside' = Inside
  BY DEF Inside
<1>5. RefExact' /\ CountExact' /\ DrainedBeforeFree' /\ NoUnderflow'
  BY <1>4 DEF IInv, TypeOK, RefExact, NoneMissed, CountExact, DrainedBeforeFree, NoUnderflow
<1> QED BY <1>1, <1>2, <1>3, <1>5 DEF IInv

\* The three calls start with a PendingRequest of their own.
LEMMA CallInv ==
  ASSUME IInv, NEW t \in Threads, Request(t) \/ Release(t) \/ AnyPending(t)
  PROVE  IInv'
<1>1. CASE Request(t)
  <2>1. PICK r \in Requests \ InUse : Enter(t, "request", {r})
    BY <1>1 DEF Request
  <2>2. held' = held /\ MayCall(t)
    BY <1>1 DEF Request
  <2>3. {r} \cap held = {} /\ {r} \cap counted = {} /\ \A u \in Threads : call[u].req \cap {r} = {}
    BY <2>1 DEF InUse
  <2> QED BY <2>1, <2>2, <2>3, EnterInv DEF Ops
<1>2. CASE Release(t)
  <2>1. PICK r \in held : Enter(t, "release", {r}) /\ held' = held \ {r}
    BY <1>2 DEF Release
  <2>2. r \in Requests /\ MayCall(t)
    BY <1>2, <2>1 DEF Release, IInv, TypeOK
  <2>3. \A u \in Threads : call[u].req \cap {r} = {}
    BY <2>1 DEF IInv, OneOwner
  <2> QED BY <2>1, <2>2, <2>3, EnterInv DEF Ops
<1>3. CASE AnyPending(t)
  <2>1. Enter(t, "poll", {}) /\ held' = held /\ MayCall(t)
    BY <1>3 DEF AnyPending
  <2> QED BY <2>1, EnterInv DEF Ops
<1> QED BY <1>1, <1>2, <1>3

\* A call that finds the pointer invalid leaves the counter alone; the
\* PendingRequest it may return is not in the counter, and never will be.
LEMMA CheckValidInv ==
  ASSUME IInv, NEW t \in Threads, CheckValid(t)
  PROVE  IInv'
<1>0. pc[t] = "check" /\ UNCHANGED <<phase, count, loaded, valid, refcount, counted, missed, late>>
  BY DEF CheckValid
<1>1. CASE valid
  <2>1. pc' = [pc EXCEPT ![t] = "ref"] /\ call' = call /\ held' = held
    BY <1>1 DEF CheckValid
  <2>2. TypeOK' /\ CallShape' /\ OneOwner'
    BY <1>0, <2>1 DEF IInv, TypeOK, CallShape, OneOwner, Places
  <2>3. Accounting'
    BY <1>0, <1>1, <2>1 DEF IInv, TypeOK, Accounting, Before
  <2>4. NoneMissed'
    BY <1>0, <2>1 DEF IInv, NoneMissed
  <2>5. Inside' = Inside
    BY <1>0, <2>1, InsideSame DEF IInv, TypeOK, PcType, Inside
  <2>6. RefExact' /\ CountExact' /\ DrainedBeforeFree'
    BY <1>0, <2>5 DEF IInv, RefExact, CountExact, DrainedBeforeFree
  <2>u. NoUnderflow'
    BY <1>0, <2>1 DEF IInv, TypeOK, NoUnderflow, Return
  <2> QED BY <2>2, <2>3, <2>4, <2>6, <2>u DEF IInv
<1>2. CASE ~valid
  <2>1. Return(t, "idle")
    BY <1>2 DEF CheckValid
  <2>2. TypeOK'
    <3>1. NoCall \in Calls  BY DEF NoCall, Calls, Ops
    <3>2. call[t].req \subseteq Requests
      BY DEF IInv, TypeOK, Calls
    <3> QED BY <1>0, <2>1, <3>1, <3>2 DEF IInv, TypeOK, Return, Places
  <2>3. CallShape' /\ OneOwner'
    BY <2>1, ReturnOwner
  <2>4. Accounting'
    BY <1>0, <1>2, <2>1 DEF IInv, TypeOK, Accounting, Before, Return, NoCall
  <2>5. NoneMissed'
    BY <1>0, <2>1 DEF IInv, NoneMissed
  <2>6. Inside' = Inside
    BY <1>0, <2>1, InsideSame DEF IInv, TypeOK, PcType, Inside, Return
  <2>7. RefExact' /\ CountExact' /\ DrainedBeforeFree'
    BY <1>0, <2>6 DEF IInv, RefExact, CountExact, DrainedBeforeFree
  <2>u. NoUnderflow'
    BY <1>0, <2>1 DEF IInv, TypeOK, NoUnderflow, Return
  <2> QED BY <2>2, <2>3, <2>4, <2>5, <2>7, <2>u DEF IInv
<1> QED BY <1>1, <1>2

\* The reference count follows the threads inside `with`.
LEMMA TakeRefInv ==
  ASSUME IInv, NEW t \in Threads, TakeRef(t)
  PROVE  IInv'
<1> USE DEF TakeRef
<1>1. TypeOK' /\ CallShape' /\ OneOwner'
  BY DEF IInv, TypeOK, CallShape, OneOwner, Places
<1>2. Accounting'
  BY DEF IInv, TypeOK, Accounting, Before
<1>3. NoneMissed'
  BY DEF IInv, NoneMissed
<1>4. Inside' = Inside \cup {t} /\ t \notin Inside
  BY InsideAdd DEF IInv, TypeOK, PcType, Inside
<1>5. RefExact'
  BY <1>4, Finite, FS_AddElement DEF IInv, RefExact
<1>6. CountExact' /\ DrainedBeforeFree'
  BY <1>4 DEF IInv, CountExact, DrainedBeforeFree
<1>7. NoUnderflow'
  BY DEF IInv, TypeOK, NoUnderflow
<1> QED BY <1>1, <1>2, <1>3, <1>5, <1>6, <1>7 DEF IInv

\* The closure changes the counter by exactly the request it is about, which
\* was not in it (request) or was in it (drop); the history of what the build
\* misses changes with it between the load and the write.
LEMMA AccessInv ==
  ASSUME IInv, NEW t \in Threads, Access(t)
  PROVE  IInv'
<1> DEFINE seen == IF Underflows(t) THEN "failed" ELSE "unref"
           step == Change(call[t].op)
<1>0. /\ pc[t] = "access" /\ pc' = [pc EXCEPT ![t] = seen]
      /\ seen \in {"failed", "unref"} /\ seen \in Places
      /\ seen = "failed" => call[t].op = "release"
      /\ UNCHANGED <<phase, loaded, valid, refcount, call, held, late>>
  BY DEF Access, Places, Underflows
<1>a. call[t].op \in Ops /\ call[t].req \subseteq Requests /\ step \in Int
  BY DEF IInv, TypeOK, Calls, Change
<1>b. /\ count' = IF phase = "freed" THEN count ELSE count + step
      /\ missed' = IF phase = "building" THEN missed + step ELSE missed
      /\ count' \in Int /\ missed' \in Int
  BY <1>a DEF Access, IInv, TypeOK
<1>1. Cardinality(counted') = Cardinality(counted) + step /\ Accounting' /\ counted' \subseteq Requests
  <2>b. CASE call[t].op = "request"
    <3>1. PICK r \in Requests : call[t].req = {r}
      BY <2>b DEF IInv, CallShape
    <3>2. r \notin counted /\ counted' = counted \cup {r}
      BY <1>0, <2>b, <3>1 DEF IInv, Accounting, Before, Access
    <3>3. Cardinality(counted') = Cardinality(counted) + 1
      BY <3>2, Finite, FS_AddElement DEF IInv
    <3>4. Accounting'
      BY <1>0, <2>b, <3>1, <3>2 DEF IInv, TypeOK, Accounting, Before, OneOwner
    <3>5. step = 1 /\ counted' \subseteq Requests
      BY <2>b, <3>2 DEF IInv, TypeOK, Change
    <3> QED BY <3>3, <3>4, <3>5
  <2>c. CASE call[t].op = "release"
    <3>1. PICK r \in Requests : call[t].req = {r}
      BY <2>c DEF IInv, CallShape
    <3>2. r \in counted /\ counted' = counted \ {r}
      BY <1>0, <2>c, <3>1 DEF IInv, Accounting, Before, Access
    <3>3. Cardinality(counted') = Cardinality(counted) - 1
      BY <3>2, Finite, FS_RemoveElement DEF IInv
    <3>4. Accounting'
      BY <1>0, <2>c, <3>1, <3>2 DEF IInv, TypeOK, Accounting, Before, OneOwner
    <3>5. step = -1 /\ counted' \subseteq Requests
      BY <2>c, <3>2 DEF IInv, TypeOK, Change
    <3>6. Cardinality(counted) - 1 = Cardinality(counted) + step
      BY <3>5, Finite DEF IInv
    <3> QED BY <3>3, <3>4, <3>5, <3>6
  <2>d. CASE call[t].op = "poll"
    <3>1. step = 0 /\ counted' = counted
      BY <2>d DEF IInv, CallShape, Change, Access
    <3>2. Accounting'
      BY <1>0, <2>d, <3>1 DEF IInv, TypeOK, Accounting, Before
    <3>3. Cardinality(counted) = Cardinality(counted) + step
      BY <3>1, Finite DEF IInv
    <3> QED BY <3>1, <3>2, <3>3 DEF IInv, TypeOK
  <2> QED BY <1>a, <2>b, <2>c, <2>d DEF Ops
<1> HIDE DEF seen, step
<1>2. TypeOK' /\ CallShape' /\ OneOwner'
  BY <1>0, <1>1, <1>b DEF IInv, TypeOK, CallShape, OneOwner
<1>3. NoneMissed'
  BY <1>0, <1>b DEF IInv, NoneMissed
<1>4. Inside' = Inside
  BY <1>0, InsideSame DEF IInv, TypeOK, PcType, Inside
<1>5. RefExact' /\ DrainedBeforeFree'
  BY <1>0, <1>4 DEF IInv, RefExact, DrainedBeforeFree
<1>6. CountExact'
  BY <1>0, <1>1, <1>a, <1>b, Finite DEF IInv, TypeOK, CountExact
<1>7. NoUnderflow'
  <2>1. CASE \E u \in Threads : pc[u] \in {"failed", "panicked"}
    BY <1>0, <1>b, <2>1 DEF IInv, NoUnderflow
  <2>2. CASE Underflows(t)
    <3>1. PICK r \in Requests : call[t].req = {r}
      BY <2>2 DEF IInv, CallShape, Underflows
    <3>2. r \in counted
      BY <1>0, <2>2, <3>1 DEF IInv, Accounting, Before, Underflows
    <3>3. Cardinality(counted) > 0
      BY <3>2, Finite, FS_EmptySet DEF IInv
    <3>4. phase \notin {"early", "building"} /\ missed > 0
      BY <2>2, <3>3, Finite DEF IInv, TypeOK, CountExact, Underflows
    <3> QED BY <1>0, <1>b, <3>4 DEF NoUnderflow
  <2>3. CASE ~Underflows(t) /\ ~\E u \in Threads : pc[u] \in {"failed", "panicked"}
    <3>1. seen = "unref"
      BY <2>3 DEF seen
    <3>2. ~\E u \in Threads : pc'[u] \in {"failed", "panicked"}
      BY <1>0, <2>3, <3>1 DEF IInv, TypeOK
    <3> QED BY <3>2 DEF NoUnderflow
  <2> QED BY <2>1, <2>2, <2>3
<1> QED BY <1>1, <1>2, <1>3, <1>5, <1>6, <1>7 DEF IInv

\* Giving back a reference finds a positive reference count.
LEMMA DropRefInv ==
  ASSUME IInv, NEW t \in Threads, DropRef(t)
  PROVE  IInv'
<1>0. PICK x \in {"idle", "panicked"} :
      /\ pc[t] \in {"unref", "failed"} /\ refcount' = refcount - 1 /\ Return(t, x) /\ late' = late \ {t}
      /\ x = (IF pc[t] = "failed" THEN "panicked" ELSE "idle")
      /\ UNCHANGED <<phase, count, loaded, valid, counted, missed>>
  BY DEF DropRef
<1>1. Inside' = Inside \ {t} /\ t \in Inside
  BY <1>0, InsideRemove DEF IInv, TypeOK, PcType, Inside, Return
<1>2. IsFiniteSet(Inside') /\ Cardinality(Inside') = Cardinality(Inside) - 1 /\ Cardinality(Inside') \in Nat
  BY <1>1, Finite, FS_RemoveElement, FS_CardinalityType DEF IInv
<1>3. RefExact' /\ refcount' \in Nat
  BY <1>0, <1>2 DEF IInv, RefExact
<1>4. TypeOK'
  <2>1. NoCall \in Calls  BY DEF NoCall, Calls, Ops
  <2>2. call[t].req \subseteq Requests
    BY DEF IInv, TypeOK, Calls
  <2> QED BY <1>0, <1>3, <2>1, <2>2 DEF IInv, TypeOK, Return, Places
<1>5. CallShape' /\ OneOwner'
  BY <1>0, ReturnOwner
<1>6. Accounting'
  BY <1>0 DEF IInv, TypeOK, CallShape, Accounting, Before, Return, NoCall
<1>7. NoneMissed' /\ CountExact' /\ DrainedBeforeFree'
  BY <1>0, <1>1 DEF IInv, NoneMissed, CountExact, DrainedBeforeFree
<1>8. NoUnderflow'
  BY <1>0 DEF IInv, TypeOK, NoUnderflow, Return
<1> QED BY <1>3, <1>4, <1>5, <1>6, <1>7, <1>8 DEF IInv

\* The two steps of Intr::drop; a deallocation finds nobody inside `with`.
LEMMA DropInv ==
  ASSUME IInv, Invalidate \/ Deallocate
  PROVE  IInv'
<1>0. UNCHANGED <<count, loaded, refcount, pc, call, held, counted, missed, late>>
  BY DEF Invalidate, Deallocate
<1>1. /\ phase' \in {"draining", "freed"} /\ phase \in {"live", "draining"}
      /\ valid' \in BOOLEAN /\ (valid' => valid)
  <2>1. CASE Invalidate
    BY <2>1, Zenon DEF Invalidate
  <2>2. CASE Deallocate
    BY <2>2, Zenon DEF Deallocate, IInv, TypeOK
  <2> QED BY <2>1, <2>2
<1>2. TypeOK' /\ CallShape' /\ OneOwner'
  BY <1>0, <1>1 DEF IInv, TypeOK, CallShape, OneOwner, Phases
<1>3. Accounting'
  BY <1>0, <1>1 DEF IInv, Accounting, Before
<1>4. NoneMissed'
  BY <1>0, <1>1 DEF IInv, NoneMissed
<1>5. Inside' = Inside
  BY <1>0 DEF Inside
<1>6. RefExact' /\ CountExact' /\ NoUnderflow'
  BY <1>0, <1>1, <1>5 DEF IInv, RefExact, CountExact, NoUnderflow
<1>7. DrainedBeforeFree'
  <2>1. CASE Invalidate
    BY <2>1 DEF Invalidate, DrainedBeforeFree
  <2>2. CASE Deallocate
    <3>1. Cardinality(Inside) = 0
      BY <2>2 DEF Deallocate, IInv, RefExact
    <3>2. Inside = {}
      BY <3>1, Finite, FS_EmptySet DEF IInv
    <3> QED BY <1>5, <3>2 DEF DrainedBeforeFree
  <2> QED BY <2>1, <2>2
<1> QED BY <1>2, <1>3, <1>4, <1>6, <1>7 DEF IInv

\* Stuttering.
LEMMA StutterInv ==
  ASSUME IInv, UNCHANGED vars
  PROVE  IInv'
<1>1. Inside' = Inside
  BY DEF vars, Inside
<1>2. TypeOK' /\ CallShape' /\ OneOwner' /\ Accounting'
  BY DEF vars, IInv, TypeOK, CallShape, OneOwner, Accounting, Before
<1>3. NoneMissed' /\ RefExact' /\ CountExact' /\ DrainedBeforeFree' /\ NoUnderflow'
  BY <1>1 DEF vars, IInv, NoneMissed, RefExact, CountExact, DrainedBeforeFree, NoUnderflow
<1> QED BY <1>2, <1>3 DEF IInv

\* The counter starts empty, with nobody inside.
LEMMA InitInv == Init => IInv
<1> SUFFICES ASSUME Init PROVE IInv
  OBVIOUS
<1> USE DEF Init
<1>1. TypeOK
  BY DEF TypeOK, Phases, Places, Calls, NoCall, Ops
<1>2. CallShape /\ OneOwner /\ Accounting /\ NoneMissed
  BY ThreadsAssumption DEF CallShape, OneOwner, Accounting, Before, NoneMissed, NoCall
<1>3. Inside = {}
  BY DEF Inside
<1>4. RefExact /\ CountExact /\ DrainedBeforeFree /\ NoUnderflow
  BY <1>3, FS_EmptySet DEF RefExact, CountExact, DrainedBeforeFree, NoUnderflow
<1> QED BY <1>1, <1>2, <1>4 DEF IInv

\* IInv is an invariant of every behaviour of IntrHandle, EarlyIntr and Intr.
THEOREM Inductive == Spec => []IInv
<1>1. IInv /\ [Next]_vars => IInv'
  <2> SUFFICES ASSUME IInv, [Next]_vars PROVE IInv'
    OBVIOUS
  <2>1. ASSUME NEW t \in Threads, WithSteps(t) PROVE IInv'
    BY <2>1, CheckValidInv, TakeRefInv, AccessInv, DropRefInv DEF WithSteps
  <2> QED BY <2>1, BuildLoadInv, BuildStoreInv, CallInv, DropInv, StutterInv DEF Next
<1> QED BY <1>1, InitInv, PTL DEF Spec

\* Type correctness of the INTR counter, its handles and their calls.
THEOREM TypeCorrect == Spec => []TypeOK
<1>1. IInv => TypeOK
  BY DEF IInv
<1> QED BY <1>1, Inductive, PTL

\* INTR counts the requests added and not dropped, up to what the build missed,
\* for any threads, whichever of them call before and during the build.
THEOREM IntrCountExact == Spec => []CountExact
<1>1. IInv => CountExact
  BY DEF IInv
<1> QED BY <1>1, Inductive, PTL

\* The assertion of PendingRequest::drop fires only after a build that missed a
\* request.
THEOREM UnderflowNeedsMiss == Spec => []NoUnderflow
<1>1. IInv => NoUnderflow
  BY DEF IInv
<1> QED BY <1>1, Inductive, PTL

\* Intr::drop waits for every reference taken before its last check.
THEOREM DropDrains == Spec => []DrainedBeforeFree
<1>1. IInv => DrainedBeforeFree
  BY DEF IInv
<1> QED BY <1>1, Inductive, PTL

Kinds == {"default", "shm", "rom", "mmio"}
Cpus  == [a20 : BOOLEAN, paging : BOOLEAN, wp : BOOLEAN, pse : BOOLEAN, pae : BOOLEAN]
Shown == ({"ram"} \X (0 .. RamFrames - 1)) \cup ({"shm"} \X Nat)
Views ==
    [meta : [Pages -> SUBSET Traps], modified : SUBSET Nat,
     window : [Pages -> {None} \cup Shown], current : [Pages -> {None} \cup {<<n>> : n \in Nat}]]

-----------------------------------------------------------------------------
(* Addresses.                                                              *)

LEMMA FramesAreNaturals ==
  /\ PageSize \in Nat /\ PageSize >= 2 /\ Pages \subseteq Frames /\ Frames \subseteq Nat
  /\ RamFrames \in Nat /\ ShmPage \in Int /\ WrapAt \in Nat /\ WrapAt >= 1
BY MemoryAssumption

\* A byte of a page, and the page of a byte.
LEMMA BytesOfPages ==
  ASSUME NEW n \in Nat, NEW o \in 0 .. PageSize - 1
  PROVE  /\ n * PageSize + o \in Nat
         /\ Page(n * PageSize + o) = n
         /\ Offset(n * PageSize + o) = o
<1>1. PageSize \in Nat /\ PageSize >= 2
  BY FramesAreNaturals
<1>2. n * PageSize \in Nat
  BY <1>1
<1>3. (n * PageSize + o) \div PageSize = n /\ (n * PageSize + o) % PageSize = o
  BY <1>1, Z3
<1> QED BY <1>2, <1>3 DEF Page, Offset

LEMMA PagesOfBytes ==
  ASSUME NEW x \in Nat
  PROVE  /\ Page(x) \in Nat /\ Offset(x) \in 0 .. PageSize - 1
         /\ x = Page(x) * PageSize + Offset(x)
<1>1. PageSize \in Nat /\ PageSize >= 2
  BY FramesAreNaturals
<1> QED BY <1>1, Z3 DEF Page, Offset

\* Bytes of one page are as far apart as their offsets.
LEMMA SamePage ==
  ASSUME NEW x \in Nat, NEW i \in Nat, Page(x + i) = Page(x)
  PROVE  Offset(x + i) = Offset(x) + i
<1>1. x + i \in Nat
  OBVIOUS
<1>2. /\ Page(x) \in Nat /\ Offset(x) \in Nat /\ Offset(x + i) \in Nat
      /\ x = Page(x) * PageSize + Offset(x)
      /\ x + i = Page(x) * PageSize + Offset(x + i)
  BY <1>1, PagesOfBytes, FramesAreNaturals
<1>3. Page(x) * PageSize \in Nat
  BY <1>2, FramesAreNaturals
<1> HIDE DEF Page, Offset
<1> QED BY <1>2, <1>3

\* The bytes below a page are those of the pages below it.
LEMMA BelowPage ==
  ASSUME NEW n \in Nat, NEW m \in Nat, NEW o \in 0 .. PageSize - 1
  PROVE  n * PageSize + o < m * PageSize <=> n < m
<1>1. PageSize \in Nat /\ PageSize >= 2
  BY FramesAreNaturals
<1>2. n < m => n * PageSize + PageSize <= m * PageSize
  BY <1>1
<1>3. ~(n < m) => m * PageSize <= n * PageSize
  BY <1>1
<1>4. n * PageSize \in Nat /\ m * PageSize \in Nat
  BY <1>1
<1> QED BY <1>1, <1>2, <1>3, <1>4

LEMMA SumOfPages ==
  ASSUME NEW n \in Int, NEW m \in Int
  PROVE  (n + m) * PageSize = n * PageSize + m * PageSize
BY FramesAreNaturals

-----------------------------------------------------------------------------
(* The cells of memory.                                                    *)

\* The frame a page shows.
FrameOf(t, p) == IF cpu.paging THEN Frame(cpu, t, p) ELSE p

\* The memory has a frame f.
Backed(f) == phys.map[f] \in {"shm", "rom"} \/ (phys.map[f] = "default" /\ f < RamFrames)

\* The window of page p is that of frame f, or it is left to another area.
ShownAt(v, p, f) == v.window[p] = WindowOf(f) \/ LeftBehind(v, p, f)

MapOK ==
    /\ cpu \in Cpus /\ phys.map \in [Frames -> Kinds]
    /\ \A f \in Frames : phys.map[f] \in {"shm", "rom"} => f + ShmPage \in Nat

\* A20 does not matter to the first frames.
LEMMA BelowA20 ==
  ASSUME NEW f \in Frames, NEW o \in 0 .. PageSize - 1, MapOK, cpu.a20 \/ f < WrapAt
  PROVE  Wrapped(f * PageSize + o) = f * PageSize + o /\ (InRam(f * PageSize + o) <=> f < RamFrames)
<1>1. f \in Nat /\ WrapAt \in Nat /\ RamFrames \in Nat /\ WrapAt >= 1 /\ PageSize \in Nat /\ PageSize >= 2
  BY FramesAreNaturals
<1>2. InRam(f * PageSize + o) <=> f < RamFrames
  BY <1>1, BelowPage DEF InRam
<1>3. ASSUME f < WrapAt PROVE (f * PageSize + o) % (WrapAt * PageSize) = f * PageSize + o
  <2>1. f * PageSize + o < WrapAt * PageSize
    BY <1>1, <1>3, BelowPage
  <2>2. f * PageSize + o \in Nat /\ WrapAt * PageSize \in Nat
    BY <1>1, BytesOfPages
  <2>3. \A x, y \in Nat : x < y => x % y = x
    OBVIOUS
  <2> QED BY <2>1, <2>2, <2>3
<1> QED BY <1>2, <1>3 DEF Wrapped

\* The cell of a byte of a frame.
LEMMA CellOfByte ==
  ASSUME NEW f \in Frames, NEW o \in 0 .. PageSize - 1, MapOK, cpu.a20 \/ f < WrapAt
  PROVE  LET x == f * PageSize + o IN
         /\ phys.map[f] = "mmio" => Cell(x) = <<"mmio", x>>
         /\ phys.map[f] \in {"shm", "rom"} => Cell(x) = <<"shm", x + ShmPage * PageSize>>
         /\ phys.map[f] = "default" /\ f < RamFrames => Cell(x) = <<"ram", x>>
         /\ phys.map[f] = "default" /\ ~(f < RamFrames) => Cell(x) = None
<1> DEFINE x == f * PageSize + o
<1>1. f \in Nat /\ Page(x) = f
  BY FramesAreNaturals, BytesOfPages
<1>2. Wrapped(x) = x /\ (InRam(x) <=> f < RamFrames)
  BY BelowA20
<1> HIDE DEF x
<1> SUFFICES /\ phys.map[f] = "mmio" => Cell(x) = <<"mmio", x>>
             /\ phys.map[f] \in {"shm", "rom"} => Cell(x) = <<"shm", x + ShmPage * PageSize>>
             /\ phys.map[f] = "default" /\ f < RamFrames => Cell(x) = <<"ram", x>>
             /\ phys.map[f] = "default" /\ ~(f < RamFrames) => Cell(x) = None
  BY DEF x
<1> QED BY <1>1, <1>2 DEF Cell, ShmOffset

\* A byte read through the window of its frame is the cell it should be.
LEMMA WindowIsCell ==
  ASSUME NEW f \in Frames, NEW v, NEW b \in Nat, MapOK, cpu.a20 \/ f < WrapAt,
         Backed(f), v.window[Page(b)] = WindowOf(f)
  PROVE  Window(v, b) = Cell(f * PageSize + Offset(b)) /\ Window(v, b) # None
<1> DEFINE o == Offset(b)
<1>1. o \in 0 .. PageSize - 1 /\ f \in Nat /\ ShmPage \in Int /\ PageSize \in Nat
  BY PagesOfBytes, FramesAreNaturals
<1>2. (f + ShmPage) * PageSize + o = f * PageSize + o + ShmPage * PageSize
  BY <1>1, SumOfPages
<1>3. Window(v, b) = <<WindowOf(f)[1], WindowOf(f)[2] * PageSize + o>>
  BY DEF Window, WindowOf, None
<1> HIDE DEF o
<1>4. CASE phys.map[f] \in {"shm", "rom"}
  <2>1. Cell(f * PageSize + o) = <<"shm", f * PageSize + o + ShmPage * PageSize>>
    BY <1>1, <1>4, CellOfByte
  <2> QED BY <1>2, <1>3, <1>4, <2>1 DEF WindowOf, None, o
<1>5. CASE phys.map[f] = "default" /\ f < RamFrames
  <2>1. Cell(f * PageSize + o) = <<"ram", f * PageSize + o>>
    BY <1>1, <1>5, CellOfByte
  <2> QED BY <1>3, <1>5, <2>1 DEF WindowOf, None, o
<1> QED BY <1>4, <1>5 DEF Backed

-----------------------------------------------------------------------------
(* The page walk.                                                          *)

\* t is what the walks of an access may make of the tables u: accessed and dirty bits are set.
Walked(u, t) ==
    /\ t \in PageTables /\ u \in PageTables
    /\ t.dir.present = u.dir.present /\ t.dir.pdpe = u.dir.pdpe
    /\ t.dir.w = u.dir.w /\ t.dir.u = u.dir.u /\ t.dir.big = u.dir.big
    /\ u.dir.a => t.dir.a
    /\ u.dir.d => t.dir.d
    /\ \A p \in Pages :
         /\ t.leaf[p].present = u.leaf[p].present /\ t.leaf[p].frame = u.leaf[p].frame
         /\ t.leaf[p].w = u.leaf[p].w /\ t.leaf[p].u = u.leaf[p].u
         /\ u.leaf[p].a => t.leaf[p].a
         /\ u.leaf[p].d => t.leaf[p].d

LEMMA WalkedTransitive ==
  ASSUME NEW r, NEW s, NEW t, Walked(r, s), Walked(s, t)
  PROVE  Walked(r, t)
BY DEF Walked

LEMMA WalkedReflexive ==
  ASSUME NEW t \in PageTables
  PROVE  Walked(t, t)
BY DEF Walked

\* The walks change nothing of what a page maps to and who may use it.
LEMMA WalkedSame ==
  ASSUME NEW u, NEW t, Walked(u, t), NEW p \in Pages
  PROVE  /\ Big(cpu, t) <=> Big(cpu, u)
         /\ Mapped(cpu, t, p) <=> Mapped(cpu, u, p)
         /\ Frame(cpu, t, p) = Frame(cpu, u, p)
         /\ Writable(cpu, t, p) <=> Writable(cpu, u, p)
         /\ UserAccessible(cpu, t, p) <=> UserAccessible(cpu, u, p)
         /\ DirtyBit(cpu, u, p) => DirtyBit(cpu, t, p)
         /\ AccessedBit(cpu, u, p) => AccessedBit(cpu, t, p)
         /\ FrameOf(t, p) = FrameOf(u, p)
         /\ \A write, user \in BOOLEAN : Faults(cpu, t, p, write, user) <=> Faults(cpu, u, p, write, user)
<1>1. Big(cpu, t) <=> Big(cpu, u)
  BY DEF Walked, Big
<1>2. /\ Mapped(cpu, t, p) <=> Mapped(cpu, u, p)
      /\ Frame(cpu, t, p) = Frame(cpu, u, p)
      /\ Writable(cpu, t, p) <=> Writable(cpu, u, p)
      /\ UserAccessible(cpu, t, p) <=> UserAccessible(cpu, u, p)
  BY <1>1 DEF Walked, Mapped, DirPresent, Frame, Writable, UserAccessible
<1>3. DirtyBit(cpu, u, p) => DirtyBit(cpu, t, p)
  BY <1>1 DEF Walked, DirtyBit
<1>4. AccessedBit(cpu, u, p) => AccessedBit(cpu, t, p)
  BY <1>1 DEF Walked, AccessedBit
<1>5. FrameOf(t, p) = FrameOf(u, p)
  BY <1>2 DEF FrameOf
<1>6. \A write, user \in BOOLEAN : Faults(cpu, t, p, write, user) <=> Faults(cpu, u, p, write, user)
  BY <1>2 DEF Faults
<1> QED BY <1>1, <1>2, <1>3, <1>4, <1>5, <1>6

LEMMA FrameIsFrame ==
  ASSUME NEW t \in PageTables, NEW p \in Pages
  PROVE  FrameOf(t, p) \in Frames
BY FramesAreNaturals DEF FrameOf, Frame, PageTables, LeafEntries

LEMMA MarkAccessedWalks ==
  ASSUME MapOK, NEW t \in PageTables, NEW p \in Pages
  PROVE  /\ Walked(t, MarkAccessed(cpu, t, p))
         /\ Mapped(cpu, t, p) => AccessedBit(cpu, MarkAccessed(cpu, t, p), p)
<1> DEFINE m == MarkAccessed(cpu, t, p)
<1>1. /\ t.dir \in DirEntries /\ t.leaf \in [Pages -> LeafEntries] /\ t.leaf[p] \in LeafEntries
      /\ cpu.pae \in BOOLEAN /\ cpu.pse \in BOOLEAN
  BY DEF PageTables, MapOK, Cpus
<1>2. DirPresent(cpu, t) \in BOOLEAN /\ Big(cpu, t) \in BOOLEAN /\ Mapped(cpu, t, p) \in BOOLEAN
  BY <1>1 DEF DirPresent, Big, Mapped, DirEntries, LeafEntries
<1>3. m.dir = [t.dir EXCEPT !.a = @ \/ DirPresent(cpu, t)]
  BY DEF MarkAccessed
<1>4. m.leaf = [t.leaf EXCEPT ![p] = [t.leaf[p] EXCEPT !.a = @ \/ (Mapped(cpu, t, p) /\ ~Big(cpu, t))]]
  BY Zenon DEF MarkAccessed
<1>5. /\ m.dir \in DirEntries
      /\ m.dir.present = t.dir.present /\ m.dir.pdpe = t.dir.pdpe /\ m.dir.w = t.dir.w
      /\ m.dir.u = t.dir.u /\ m.dir.big = t.dir.big /\ m.dir.d = t.dir.d
      /\ t.dir.a => m.dir.a
      /\ DirPresent(cpu, t) => m.dir.a
  BY <1>1, <1>2, <1>3 DEF DirEntries
<1> DEFINE l == [t.leaf[p] EXCEPT !.a = @ \/ (Mapped(cpu, t, p) /\ ~Big(cpu, t))]
<1>6. /\ l \in LeafEntries
      /\ l.present = t.leaf[p].present /\ l.frame = t.leaf[p].frame /\ l.w = t.leaf[p].w
      /\ l.u = t.leaf[p].u /\ l.d = t.leaf[p].d
      /\ t.leaf[p].a => l.a
      /\ Mapped(cpu, t, p) /\ ~Big(cpu, t) => l.a
  BY <1>1, <1>2 DEF LeafEntries
<1>7. m = [dir |-> m.dir, leaf |-> m.leaf]
  BY DEF MarkAccessed
<1> HIDE DEF m, l
<1>8. /\ m.leaf \in [Pages -> LeafEntries] /\ m.leaf[p] = l
      /\ \A q \in Pages : q # p => m.leaf[q] = t.leaf[q]
  BY <1>1, <1>4, <1>6 DEF l
<1>9. Walked(t, m)
  BY <1>5, <1>6, <1>7, <1>8 DEF Walked, PageTables
<1>10. Mapped(cpu, t, p) => AccessedBit(cpu, m, p)
  BY <1>5, <1>6, <1>8 DEF AccessedBit, Mapped, Big
<1> QED BY <1>9, <1>10 DEF m

LEMMA MarkDirtyWalks ==
  ASSUME NEW t \in PageTables, NEW p \in Pages
  PROVE  /\ Walked(t, MarkDirty(cpu, t, p))
         /\ DirtyBit(cpu, MarkDirty(cpu, t, p), p)
<1> DEFINE m == MarkDirty(cpu, t, p)
<1>1. /\ t = [dir |-> t.dir, leaf |-> t.leaf]
      /\ t.dir \in DirEntries /\ t.leaf \in [Pages -> LeafEntries] /\ t.leaf[p] \in LeafEntries
  BY DEF PageTables
<1>2. CASE Big(cpu, t)
  <2> DEFINE d == [t.dir EXCEPT !.d = TRUE]
  <2>1. m = [dir |-> d, leaf |-> t.leaf]
    BY <1>1, <1>2 DEF MarkDirty
  <2>2. /\ d \in DirEntries
        /\ d.present = t.dir.present /\ d.pdpe = t.dir.pdpe /\ d.w = t.dir.w
        /\ d.u = t.dir.u /\ d.big = t.dir.big /\ d.a = t.dir.a /\ d.d = TRUE
    BY <1>1 DEF DirEntries
  <2> HIDE DEF d
  <2>3. m.dir = d /\ m.leaf = t.leaf /\ m \in PageTables
    BY <1>1, <2>1, <2>2 DEF PageTables
  <2> HIDE DEF m
  <2>4. Walked(t, m)
    BY <1>1, <2>2, <2>3 DEF Walked
  <2>5. Big(cpu, m)
    BY <1>2, <2>2, <2>3 DEF Big
  <2> QED BY <2>2, <2>3, <2>4, <2>5 DEF DirtyBit, m
<1>3. CASE ~Big(cpu, t)
  <2> DEFINE l == [t.leaf[p] EXCEPT !.d = TRUE]
  <2>1. m = [dir |-> t.dir, leaf |-> [t.leaf EXCEPT ![p] = l]]
    BY <1>1, <1>3 DEF MarkDirty
  <2>2. /\ l \in LeafEntries
        /\ l.present = t.leaf[p].present /\ l.frame = t.leaf[p].frame /\ l.w = t.leaf[p].w
        /\ l.u = t.leaf[p].u /\ l.a = t.leaf[p].a /\ l.d = TRUE
    BY <1>1 DEF LeafEntries
  <2> HIDE DEF l
  <2>3. /\ m.dir = t.dir /\ m.leaf \in [Pages -> LeafEntries] /\ m.leaf[p] = l
        /\ \A q \in Pages : q # p => m.leaf[q] = t.leaf[q]
    BY <1>1, <2>1, <2>2
  <2>4. m \in PageTables
    BY <1>1, <2>1, <2>3 DEF PageTables
  <2> HIDE DEF m
  <2>5. Walked(t, m)
    BY <2>2, <2>3, <2>4 DEF Walked
  <2>6. ~Big(cpu, m)
    BY <1>3, <2>3 DEF Big
  <2> QED BY <2>2, <2>3, <2>5, <2>6 DEF DirtyBit, m
<1> QED BY <1>2, <1>3

-----------------------------------------------------------------------------
(* The metadata and the windows.                                           *)

\* A chunk of pages that trap differently from a page never filled is marked, and what is known
\* of a window is right.
ViewOK(v) ==
    /\ v \in Views
    /\ \A p \in Pages :
         /\ v.meta[p] # Traps => Chunk(p) \in v.modified
         /\ v.current[p] # None => v.window[p] # None /\ v.current[p] = <<v.window[p][2]>>

LEMMA ChunksAreNaturals ==
  ASSUME NEW p \in Pages
  PROVE  Chunk(p) \in Nat
<1>1. p \in Nat
  BY FramesAreNaturals
<1>2. ChunkSize \in Nat \ {0}
  BY MemoryAssumption, Zenon
<1>3. ChunkSize \in Nat /\ ChunkSize >= 1
  BY ONLY <1>2
<1> QED BY <1>1, <1>3, Z3 DEF Chunk

LEMMA SetMetaKeeps ==
  ASSUME NEW v, ViewOK(v), NEW p \in Pages, NEW traps \in SUBSET Traps
  PROVE  /\ ViewOK(SetMeta(v, p, traps))
         /\ SetMeta(v, p, traps).meta = [v.meta EXCEPT ![p] = traps]
         /\ SetMeta(v, p, traps).window = v.window
         /\ SetMeta(v, p, traps).current = v.current
<1> DEFINE m == SetMeta(v, p, traps)
<1>1. Chunk(p) \in Nat
  BY ChunksAreNaturals
<1>2. v \in Views
  BY DEF ViewOK
<1>3. m = [meta |-> [v.meta EXCEPT ![p] = traps], modified |-> v.modified \cup {Chunk(p)},
           window |-> v.window, current |-> v.current]
  <2> DEFINE x == [v.meta EXCEPT ![p] = traps]
  <2>1. m = [v EXCEPT !.meta = x, !.modified = v.modified \cup {Chunk(p)}]
    BY Zenon DEF SetMeta
  <2> HIDE DEF x, m
  <2>2. m = [meta |-> x, modified |-> v.modified \cup {Chunk(p)}, window |-> v.window, current |-> v.current]
    BY <1>2, <2>1 DEF Views
  <2> QED BY <2>2 DEF x
<1> HIDE DEF m
<1>4. m \in Views
  BY <1>1, <1>2, <1>3 DEF Views
<1>5. \A q \in Pages : m.meta[q] # Traps => Chunk(q) \in m.modified
  <2> TAKE q \in Pages
  <2>1. v.meta[q] # Traps => Chunk(q) \in v.modified
    BY DEF ViewOK
  <2>2. q # p => m.meta[q] = v.meta[q]
    BY <1>2, <1>3 DEF Views
  <2> QED BY <1>3, <2>1, <2>2
<1>6. \A q \in Pages : m.current[q] # None => m.window[q] # None /\ m.current[q] = <<m.window[q][2]>>
  BY <1>3 DEF ViewOK
<1> QED BY <1>3, <1>4, <1>5, <1>6 DEF ViewOK, m

\* After a fill the window has the right offset, and the right area if it was moved.
FillShown(v, p, traps, w, m) ==
    /\ ViewOK(m)
    /\ m.meta = [v.meta EXCEPT ![p] = traps]
    /\ m.current[p] = <<w[2]>>
    /\ m.window[p] = w \/ (m.window[p] = v.window[p] /\ v.current[p] = <<w[2]>>)
    /\ \A q \in Pages : q # p => m.window[q] = v.window[q] /\ m.current[q] = v.current[q]

LEMMA FillShows ==
  ASSUME NEW v, ViewOK(v), NEW e \in Nat, Page(e) \in Pages, NEW traps \in SUBSET Traps,
         NEW shm, NEW offset, <<shm, Page(offset)>> \in Shown,
         NEW m, m = MapWindow(SetMeta(v, Page(e), traps), e, shm, offset)
  PROVE  FillShown(v, Page(e), traps, <<shm, Page(offset)>>, m)
<1> DEFINE p == Page(e)
           o == Page(offset)
           s == SetMeta(v, p, traps)
<1>1. /\ ViewOK(s) /\ s.meta = [v.meta EXCEPT ![p] = traps] /\ s.window = v.window /\ s \in Views
      /\ s.current = v.current
  BY SetMetaKeeps DEF ViewOK
<1>2. p \in Pages /\ <<shm, o>> \in Shown /\ o \in Nat
  BY FramesAreNaturals DEF Shown
<1>3. CASE s.current[p] = <<o>>
  <2>1. m = s
    BY <1>3 DEF MapWindow
  <2> HIDE DEF s, p, o
  <2>2. /\ m.current[p] = <<o>> /\ v.current[p] = <<o>> /\ m.window[p] = v.window[p]
        /\ \A q \in Pages : m.window[q] = v.window[q] /\ m.current[q] = v.current[q]
    BY <1>1, <1>3, <2>1
  <2>3. FillShown(v, p, traps, <<shm, o>>, m)
    BY <1>1, <2>1, <2>2 DEF FillShown
  <2> QED BY <2>3 DEF p, o
<1>4. CASE s.current[p] # <<o>>
  <2>1. m = [meta |-> s.meta, modified |-> s.modified, window |-> [s.window EXCEPT ![p] = <<shm, o>>],
             current |-> [s.current EXCEPT ![p] = <<o>>]]
    BY <1>1, <1>4 DEF MapWindow, Views
  <2> HIDE DEF s, p, o
  <2>2. m \in Views
    <3>1. /\ s.meta \in [Pages -> SUBSET Traps] /\ s.modified \in SUBSET Nat
          /\ [s.window EXCEPT ![p] = <<shm, o>>] \in [Pages -> {None} \cup Shown]
          /\ [s.current EXCEPT ![p] = <<o>>] \in [Pages -> {None} \cup {<<n>> : n \in Nat}]
      BY <1>1, <1>2 DEF Views
    <3> QED BY ONLY <2>1, <3>1 DEF Views
  <2>3. \A q \in Pages : m.meta[q] # Traps => Chunk(q) \in m.modified
    BY <1>1, <2>1 DEF ViewOK
  <2>4. \A q \in Pages : m.current[q] # None => m.window[q] # None /\ m.current[q] = <<m.window[q][2]>>
    <3> TAKE q \in Pages
    <3>1. CASE q = p
      <4>1. m.window[q] = <<shm, o>> /\ m.current[q] = <<o>>
        BY <1>1, <2>1, <3>1 DEF Views
      <4> QED BY <4>1 DEF None
    <3>2. CASE q # p
      <4>1. m.window[q] = s.window[q] /\ m.current[q] = s.current[q]
        BY <1>1, <2>1, <3>2 DEF Views
      <4> QED BY <1>1, <4>1 DEF ViewOK
    <3> QED BY <3>1, <3>2
  <2>5. m.meta = [v.meta EXCEPT ![p] = traps]
    BY <1>1, <2>1
  <2>6. m.current[p] = <<o>> /\ m.window[p] = <<shm, o>>
    BY <1>1, <1>2, <2>1 DEF Views
  <2>7. \A q \in Pages : q # p => m.window[q] = v.window[q] /\ m.current[q] = v.current[q]
    BY <1>1, <2>1 DEF Views
  <2>8. FillShown(v, p, traps, <<shm, o>>, m)
    BY <2>2, <2>3, <2>4, <2>5, <2>6, <2>7 DEF ViewOK, FillShown
  <2> QED BY <2>8 DEF p, o
<1> QED BY <1>3, <1>4

\* A clear reaches every page, as no page of an unmarked chunk was set.
LEMMA ClearReachesAll ==
  ASSUME NEW v, ViewOK(v)
  PROVE  /\ ViewOK(ClearMeta(v))
         /\ \A p \in Pages : ClearMeta(v).meta[p] = Traps
<1> DEFINE m == ClearMeta(v)
<1>1. v \in Views
  BY DEF ViewOK
<1>2. m = [meta |-> [p \in Pages |-> IF Chunk(p) \in v.modified THEN Traps ELSE v.meta[p]], modified |-> {},
           window |-> v.window, current |-> v.current]
  <2> DEFINE x == [p \in Pages |-> IF Chunk(p) \in v.modified THEN Traps ELSE v.meta[p]]
  <2>1. m = [v EXCEPT !.meta = x, !.modified = {}]
    BY Zenon DEF ClearMeta
  <2> HIDE DEF x, m
  <2>2. m = [meta |-> x, modified |-> {}, window |-> v.window, current |-> v.current]
    BY <1>1, <2>1 DEF Views
  <2> QED BY <2>2 DEF x
<1> HIDE DEF m
<1>3. \A p \in Pages : m.meta[p] = Traps
  BY <1>2 DEF ViewOK
<1>4. m \in Views
  BY <1>1, <1>2 DEF Views
<1> QED BY <1>2, <1>3, <1>4 DEF ViewOK, m

\* So does a trap on writes.
LEMMA WritesTrapped ==
  ASSUME NEW v, ViewOK(v)
  PROVE  LET m == EnableForAll(v, "write") IN
         /\ ViewOK(m) /\ m.window = v.window /\ m.current = v.current
         /\ \A p \in Pages : "write" \in m.meta[p] /\ v.meta[p] \subseteq m.meta[p]
<1> DEFINE m == EnableForAll(v, "write")
<1>1. v \in Views
  BY DEF ViewOK
<1>2. m = [meta |-> [p \in Pages |-> IF Chunk(p) \in v.modified THEN v.meta[p] \cup {"write"} ELSE v.meta[p]],
           modified |-> v.modified, window |-> v.window, current |-> v.current]
  <2> DEFINE x == [p \in Pages |-> IF Chunk(p) \in v.modified THEN v.meta[p] \cup {"write"} ELSE v.meta[p]]
  <2>1. m = [v EXCEPT !.meta = x]
    BY Zenon DEF EnableForAll
  <2> HIDE DEF x, m
  <2>2. m = [meta |-> x, modified |-> v.modified, window |-> v.window, current |-> v.current]
    BY <1>1, <2>1 DEF Views
  <2> QED BY <2>2 DEF x
<1>3. \A p \in Pages : Chunk(p) \notin v.modified => v.meta[p] = Traps
  BY DEF ViewOK
<1> HIDE DEF m
<1>4. \A p \in Pages : "write" \in m.meta[p] /\ v.meta[p] \subseteq m.meta[p]
  BY <1>2, <1>3 DEF Traps
<1>5. m.meta \in [Pages -> SUBSET Traps]
  BY <1>1, <1>2 DEF Views, Traps
<1>6. m \in Views
  BY <1>1, <1>2, <1>5 DEF Views
<1>7. \A p \in Pages : m.meta[p] # Traps => Chunk(p) \in m.modified
  BY <1>2, <1>3
<1> QED BY <1>2, <1>4, <1>6, <1>7 DEF ViewOK, m

-----------------------------------------------------------------------------
(* The state that an access threads through its steps.                     *)

\* A page that does not trap is what the page tables say.
PageFresh(t, v, p) ==
    /\ cpu.paging =>
         /\ Mapped(cpu, t, p)
         /\ "user" \notin v.meta[p] => UserAccessible(cpu, t, p)
         /\ "write" \notin v.meta[p] => Writable(cpu, t, p) \/ ~cpu.wp
    /\ cpu.a20 \/ FrameOf(t, p) < WrapAt =>
         /\ Backed(FrameOf(t, p)) /\ ShownAt(v, p, FrameOf(t, p))
         /\ "write" \notin v.meta[p] => phys.map[FrameOf(t, p)] # "rom"

\* A page that does not trap writes shows a dirty frame.
PageTracked(t, dirty, v, stale, p) ==
    "write" \notin v.meta[p] =>
        /\ cpu.a20 => \E f \in dirty : Backed(f) /\ ShownAt(v, p, f)
        /\ p \notin stale /\ cpu.paging => DirtyBit(cpu, t, p) /\ AccessedBit(cpu, t, p)

\* The tables, the dirty frames and the view of the pages, but for pages that are stale.
Threaded(t, dirty, v, stale) ==
    /\ t \in PageTables /\ dirty \subseteq Frames /\ ViewOK(v)
    /\ \A f \in dirty : phys.map[f] \in {"default", "shm"}
    /\ \A p \in Pages : "access" \notin v.meta[p] =>
         /\ p \notin stale => PageFresh(t, v, p)
         /\ PageTracked(t, dirty, v, stale, p)

\* An access that began with the tables as they are.
Sound(s) ==
    /\ s = [t |-> s.t, dirty |-> s.dirty, v |-> s.v, cells |-> s.cells, filled |-> s.filled]
    /\ Threaded(s.t, s.dirty, s.v, ghost.stale \ s.filled)
    /\ Walked(tables, s.t)

\* What Resolve found of the page of address e, in an access that has come to s.
Resolved(s, acc, e) ==
    LET p == Page(e)
        f == FrameOf(tables, p)
    IN  /\ e \in Nat /\ p \in Pages /\ acc.emu = e /\ acc.phys = f * PageSize + Offset(e)
        /\ {acc.writable, acc.needsMark, acc.user} \subseteq BOOLEAN
        /\ cpu.paging =>
             /\ Mapped(cpu, tables, p)
             /\ acc.user => UserAccessible(cpu, tables, p)
             /\ acc.writable => /\ Writable(cpu, tables, p) \/ ~cpu.wp
                                /\ DirtyBit(cpu, s.t, p) /\ AccessedBit(cpu, s.t, p)
        /\ acc.writable => acc.needsMark \/ f \in s.dirty

LEMMA WalkKeeps ==
  ASSUME NEW t, NEW u, NEW dirty, NEW v, NEW stale, Threaded(t, dirty, v, stale), Walked(t, u)
  PROVE  Threaded(u, dirty, v, stale)
<1>1. u \in PageTables
  BY DEF Walked
<1>2. ASSUME NEW p \in Pages, "access" \notin v.meta[p], p \notin stale
      PROVE  PageFresh(u, v, p)
  <2>1. PageFresh(t, v, p)
    BY <1>2 DEF Threaded
  <2> QED BY <2>1, WalkedSame DEF PageFresh
<1>3. ASSUME NEW p \in Pages, "access" \notin v.meta[p]
      PROVE  PageTracked(u, dirty, v, stale, p)
  <2>1. PageTracked(t, dirty, v, stale, p)
    BY <1>3 DEF Threaded
  <2> QED BY <2>1, WalkedSame DEF PageTracked
<1> QED BY <1>1, <1>2, <1>3 DEF Threaded

\* A page fault leaves accessed bits behind, and nothing else.
LEMMA ResolveFaults ==
  ASSUME MapOK, NEW s, Sound(s), NEW e \in Nat, Page(e) \in Pages, NEW write \in BOOLEAN, NEW user \in BOOLEAN,
         Faults(cpu, tables, Page(e), write, user)
  PROVE  LET r == Resolve(s, e, write, user) IN
         /\ r.fault = TRUE /\ Sound(r.s)
         /\ r.s.filled = s.filled /\ r.s.v = s.v
<1> DEFINE p == Page(e)
           w == MarkAccessed(cpu, s.t, p)
           r == Resolve(s, e, write, user)
<1>1. s.t \in PageTables /\ Walked(tables, s.t)
  BY DEF Sound, Threaded
<1>2. Faults(cpu, s.t, p, write, user)
  BY <1>1, WalkedSame
<1>3. r = [fault |-> TRUE, s |-> [s EXCEPT !.t = w]]
  BY <1>2, Zenon DEF Resolve
<1>4. Walked(s.t, w)
  BY <1>1, MarkAccessedWalks
<1> HIDE DEF w
<1> DEFINE x == [s EXCEPT !.t = w]
<1>5. x = [t |-> w, dirty |-> s.dirty, v |-> s.v, cells |-> s.cells, filled |-> s.filled]
  BY DEF Sound
<1>6. r.fault = TRUE /\ r.s = x
  BY <1>3
<1> HIDE DEF x, r
<1>7. Sound(x)
  <2>1. Threaded(x.t, x.dirty, x.v, ghost.stale \ x.filled)
    BY <1>4, <1>5, WalkKeeps DEF Sound
  <2>2. Walked(tables, x.t)
    BY <1>1, <1>4, <1>5, WalkedTransitive
  <2> QED BY <1>5, <2>1, <2>2 DEF Sound
<1> QED BY <1>5, <1>6, <1>7 DEF r

\* What Resolve leaves of an access that does not fault.
Shaped(r) ==
    r = [fault |-> r.fault, s |-> r.s, emu |-> r.emu, phys |-> r.phys, writable |-> r.writable,
         needsMark |-> r.needsMark, user |-> r.user]

Succeeded(s, e, write, r) ==
    /\ r.fault = FALSE /\ Sound(r.s) /\ Resolved(r.s, r, e) /\ Shaped(r)
    /\ r.needsMark => write
    /\ write => r.writable
    /\ r.s.filled = s.filled /\ r.s.v = s.v /\ r.s.cells = s.cells /\ r.s.dirty = s.dirty
    /\ Walked(s.t, r.s.t)

\* The result of a walk that does not fault.
LEMMA ResolveSucceeds ==
  ASSUME MapOK, NEW s, Sound(s), NEW e \in Nat, Page(e) \in Pages, NEW write \in BOOLEAN, NEW user \in BOOLEAN,
         ~Faults(cpu, tables, Page(e), write, user)
  PROVE  Succeeded(s, e, write, Resolve(s, e, write, user))
<1> DEFINE p  == Page(e)
           w  == MarkAccessed(cpu, s.t, p)
           t2 == IF write THEN MarkDirty(cpu, w, p) ELSE w
           f  == IF cpu.paging THEN Frame(cpu, s.t, p) ELSE p
           clean == f \notin s.dirty
           may == Writable(cpu, t2, p) \/ (~user /\ ~cpu.wp)
           x  == IF cpu.paging THEN [s EXCEPT !.t = t2] ELSE s
           wr == write \/ (~clean /\ (cpu.paging => may /\ DirtyBit(cpu, t2, p)))
           us == cpu.paging => UserAccessible(cpu, t2, p)
           r  == Resolve(s, e, write, user)
<1>1. s.t \in PageTables /\ Walked(tables, s.t) /\ s.dirty \subseteq Frames
  BY DEF Sound, Threaded
<1>2. ~Faults(cpu, s.t, p, write, user)
  BY <1>1, WalkedSame
<1>3. r = [fault |-> FALSE, s |-> x, emu |-> e, phys |-> f * PageSize + Offset(e),
           writable |-> wr, needsMark |-> write /\ clean, user |-> us]
  BY <1>2, Zenon DEF Resolve
<1>4. Walked(s.t, w) /\ w \in PageTables
  BY <1>1, MarkAccessedWalks DEF Walked
<1>5. Walked(w, t2) /\ (write => DirtyBit(cpu, t2, p))
  <2> HIDE DEF w
  <2> QED BY <1>4, MarkDirtyWalks, WalkedReflexive
<1>6. Walked(s.t, t2)
  BY <1>4, <1>5, WalkedTransitive
<1>7. Mapped(cpu, s.t, p) => AccessedBit(cpu, t2, p)
  BY <1>1, <1>4, <1>5, MarkAccessedWalks, WalkedSame
<1>8. f = FrameOf(tables, p)
  BY <1>1, WalkedSame DEF FrameOf
<1> HIDE DEF t2, w
<1> DEFINE y == [t |-> IF cpu.paging THEN t2 ELSE s.t, dirty |-> s.dirty, v |-> s.v, cells |-> s.cells,
                 filled |-> s.filled]
<1>9. x = y
  <2>1. s = [t |-> s.t, dirty |-> s.dirty, v |-> s.v, cells |-> s.cells, filled |-> s.filled]
    BY DEF Sound
  <2> QED BY <2>1
<1> HIDE DEF x
<1>10. Walked(s.t, y.t)
  BY <1>1, <1>6, WalkedReflexive
<1>11. Sound(y)
  <2>1. Threaded(y.t, y.dirty, y.v, ghost.stale \ y.filled)
    <3> DEFINE z == y.t
    <3>1. Walked(s.t, z)
      BY <1>10
    <3> HIDE DEF z
    <3>2. Threaded(z, s.dirty, s.v, ghost.stale \ s.filled)
      BY <3>1, WalkKeeps DEF Sound
    <3> QED BY <3>2 DEF z
  <2>2. Walked(tables, y.t)
    BY <1>1, <1>10, WalkedTransitive
  <2> HIDE DEF y
  <2>3. y = [t |-> y.t, dirty |-> y.dirty, v |-> y.v, cells |-> y.cells, filled |-> y.filled]
    BY DEF y
  <2> QED BY <2>1, <2>2, <2>3 DEF Sound
<1>12. ~cpu.paging \/ (Mapped(cpu, tables, p) /\ (write => Writable(cpu, tables, p) \/ ~cpu.wp))
  BY DEF Faults
<1> HIDE DEF y
<1>13. r.s = y /\ r.fault = FALSE /\ r.emu = e /\ r.phys = f * PageSize + Offset(e) /\ "emu" \in DOMAIN r
  BY <1>3, <1>9
<1>14. cpu.paging \in BOOLEAN /\ cpu.wp \in BOOLEAN
  BY DEF MapOK, Cpus
<1>15. us \in BOOLEAN /\ wr \in BOOLEAN /\ (write /\ clean) \in BOOLEAN
  OBVIOUS
<1>16. r.user = us /\ r.writable = wr /\ r.needsMark = (write /\ clean)
  BY <1>3
<1>17. Walked(tables, t2)
  BY <1>1, <1>6, WalkedTransitive
<1>18. ASSUME cpu.paging
       PROVE  /\ Mapped(cpu, tables, p)
              /\ us => UserAccessible(cpu, tables, p)
              /\ wr => /\ Writable(cpu, tables, p) \/ ~cpu.wp
                       /\ DirtyBit(cpu, y.t, p) /\ AccessedBit(cpu, y.t, p)
  <2>1. y.t = t2
    BY <1>18 DEF y
  <2>2. us => UserAccessible(cpu, tables, p)
    BY <1>17, <1>18, WalkedSame
  <2>3. Mapped(cpu, tables, p) /\ Mapped(cpu, s.t, p)
    BY <1>1, <1>12, <1>18, WalkedSame
  <2>4. wr => Writable(cpu, tables, p) \/ ~cpu.wp
    BY <1>12, <1>17, <1>18, WalkedSame
  <2>5. wr => DirtyBit(cpu, t2, p)
    BY <1>5, <1>18
  <2>6. AccessedBit(cpu, t2, p)
    BY <1>7, <2>3
  <2> QED BY <2>1, <2>2, <2>3, <2>4, <2>5, <2>6
<1>19. wr => (write /\ clean) \/ f \in s.dirty
  OBVIOUS
<1>20. y.filled = s.filled /\ y.v = s.v /\ y.cells = s.cells /\ y.dirty = s.dirty
  BY DEF y
<1>21. r.phys = FrameOf(tables, p) * PageSize + Offset(e) /\ r.fault = FALSE /\ r.s = y /\ r.emu = e
  BY <1>8, <1>13
<1> HIDE DEF us, wr, clean, r
<1>22. Resolved(y, r, e)
  <2> HIDE DEF f
  <2>1. clean <=> f \notin s.dirty
    BY DEF clean
  <2> QED BY <1>8, <1>15, <1>16, <1>18, <1>19, <1>20, <1>21, <2>1 DEF Resolved
<1>23. Resolved(r.s, r, e) /\ Sound(r.s) /\ Walked(s.t, r.s.t)
  BY <1>10, <1>11, <1>21, <1>22
<1>24. (write => r.writable) /\ (r.needsMark => write)
  BY <1>16 DEF wr
<1>25. Shaped(r)
  BY ONLY <1>3 DEF r, Shaped
<1>26. Succeeded(s, e, write, r)
  BY <1>13, <1>20, <1>21, <1>23, <1>24, <1>25 DEF Succeeded
<1> QED BY <1>26 DEF r

\* A resolved access, for a read and for a write.
ResolveDone(s, e, write, user, r) ==
    /\ Faults(cpu, tables, Page(e), write, user) => r.fault = TRUE /\ Sound(r.s)
    /\ ~Faults(cpu, tables, Page(e), write, user) => Succeeded(s, e, write, r)

LEMMA ResolveKeeps ==
  ASSUME MapOK, NEW s, Sound(s), NEW e \in Nat, Page(e) \in Pages, NEW user \in BOOLEAN
  PROVE  /\ ResolveDone(s, e, FALSE, user, Resolve(s, e, FALSE, user))
         /\ ResolveDone(s, e, TRUE, user, Resolve(s, e, TRUE, user))
<1>1. \A w \in BOOLEAN : ResolveDone(s, e, w, user, Resolve(s, e, w, user))
  <2> TAKE w \in BOOLEAN
  <2>1. ASSUME Faults(cpu, tables, Page(e), w, user)
        PROVE  Resolve(s, e, w, user).fault = TRUE /\ Sound(Resolve(s, e, w, user).s)
    BY <2>1, ResolveFaults
  <2>2. ASSUME ~Faults(cpu, tables, Page(e), w, user)
        PROVE  Succeeded(s, e, w, Resolve(s, e, w, user))
    BY <2>2, ResolveSucceeds
  <2> QED BY <2>1, <2>2 DEF ResolveDone
<1> QED BY <1>1

-----------------------------------------------------------------------------
(* Filling the metadata and the window of a page.                          *)

\* The windows of the other pages than p are left alone.
SameElsewhere(v, w, p) == \A q \in Pages : q # p => w.window[q] = v.window[q] /\ w.current[q] = v.current[q]

\* The address bus reaches the frame of page p, and its window is not left to another area.
Exposed(v, p) == (cpu.a20 \/ FrameOf(tables, p) < WrapAt) /\ ~LeftBehind(v, p, FrameOf(tables, p))

FillDone(s, e, m) ==
    /\ Sound(m) /\ "access" \notin m.v.meta[Page(e)]
    /\ m.filled = s.filled \cup {Page(e)} /\ m.cells = s.cells /\ m.dirty = s.dirty /\ m.t = s.t
    /\ SameElsewhere(s.v, m.v, Page(e))
    /\ Exposed(s.v, Page(e)) => Exposed(m.v, Page(e))

LEMMA FillKeeps ==
  ASSUME MapOK, NEW s, Sound(s), NEW acc, NEW e, Resolved(s, acc, e),
         NEW area, NEW offset, <<area, Page(offset)>> \in Shown,
         acc.writable => FrameOf(tables, Page(e)) \in s.dirty,
         cpu.a20 \/ FrameOf(tables, Page(e)) < WrapAt =>
            /\ Backed(FrameOf(tables, Page(e)))
            /\ <<area, Page(offset)>> = WindowOf(FrameOf(tables, Page(e))),
         NEW m, m = Fill(s, acc, area, offset)
  PROVE  FillDone(s, e, m)
<1> DEFINE p == Page(e)
           f == FrameOf(tables, p)
           traps == (IF acc.user THEN {} ELSE {"user"}) \cup (IF acc.writable THEN {} ELSE {"write"})
           v == MapWindow(SetMeta(s.v, p, traps), e, area, offset)
<1>1. /\ e \in Nat /\ p \in Pages /\ acc.emu = e
      /\ acc.writable \in BOOLEAN /\ acc.user \in BOOLEAN
      /\ cpu.paging \in BOOLEAN /\ cpu.wp \in BOOLEAN /\ cpu.a20 \in BOOLEAN
  BY DEF Resolved, MapOK, Cpus
<1>2. traps \in SUBSET Traps /\ "access" \notin traps /\ ("user" \notin traps => acc.user)
      /\ ("write" \notin traps => acc.writable)
  BY <1>1 DEF Traps
<1>3. ViewOK(s.v) /\ s.v \in Views
  BY DEF Sound, Threaded, ViewOK
<1> HIDE DEF traps
<1>4. FillShown(s.v, p, traps, <<area, Page(offset)>>, v)
  <2>1. v = MapWindow(SetMeta(s.v, Page(e), traps), e, area, offset)
    OBVIOUS
  <2> HIDE DEF v
  <2>2. e \in Nat /\ Page(e) \in Pages /\ <<area, Page(offset)>> \in Shown
    BY <1>1
  <2> QED BY <1>2, <1>3, <2>1, <2>2, FillShows
<1>5. /\ v.meta[p] = traps
      /\ \A q \in Pages : q # p =>
            v.meta[q] = s.v.meta[q] /\ v.window[q] = s.v.window[q] /\ v.current[q] = s.v.current[q]
  <2> HIDE DEF v, p
  <2> QED BY <1>1, <1>3, <1>4 DEF Views, FillShown
<1>20. <<area, Page(offset)>> = WindowOf(f) => ShownAt(v, p, f) /\ (~LeftBehind(s.v, p, f) => ~LeftBehind(v, p, f))
  <2> DEFINE w == <<area, Page(offset)>>
  <2>1. /\ v.current[p] = <<w[2]>>
        /\ v.window[p] = w \/ (v.window[p] = s.v.window[p] /\ s.v.current[p] = <<w[2]>>)
    BY <1>4 DEF FillShown
  <2> HIDE DEF w, v, f, p
  <2>2. w = WindowOf(f) => ShownAt(v, p, f) /\ (~LeftBehind(s.v, p, f) => ~LeftBehind(v, p, f))
    BY <2>1 DEF ShownAt, LeftBehind
  <2> QED BY <2>2 DEF w
<1>21. ViewOK(v)
  BY <1>4 DEF FillShown
<1>6. m = [s EXCEPT !.v = v, !.filled = s.filled \cup {p}]
  BY <1>1, Zenon DEF Fill, traps
<1> HIDE DEF v
<1>7. s = [t |-> s.t, dirty |-> s.dirty, v |-> s.v, cells |-> s.cells, filled |-> s.filled]
  BY DEF Sound
<1>8. m = [t |-> s.t, dirty |-> s.dirty, v |-> v, cells |-> s.cells, filled |-> s.filled \cup {p}]
  BY <1>6, <1>7
<1>9. m.t = s.t /\ m.dirty = s.dirty /\ m.v = v /\ m.cells = s.cells /\ m.filled = s.filled \cup {p}
  BY <1>8
<1> DEFINE stale == ghost.stale \ s.filled
           stale2 == ghost.stale \ (s.filled \cup {p})
<1>10. Threaded(s.t, s.dirty, s.v, stale) /\ Walked(tables, s.t)
  BY DEF Sound
<1>11. \A q \in Pages : q # p => (q \in stale <=> q \in stale2)
  OBVIOUS
<1> HIDE DEF stale, stale2
<1>12. FrameOf(s.t, p) = f
  BY <1>1, <1>10, WalkedSame
<1> HIDE DEF f, p
<1>13. PageFresh(s.t, v, p)
  <2>1. ASSUME cpu.paging
        PROVE  /\ Mapped(cpu, s.t, p)
               /\ "user" \notin v.meta[p] => UserAccessible(cpu, s.t, p)
               /\ "write" \notin v.meta[p] => Writable(cpu, s.t, p) \/ ~cpu.wp
    <3>1. /\ Mapped(cpu, tables, p)
          /\ acc.user => UserAccessible(cpu, tables, p)
          /\ acc.writable => Writable(cpu, tables, p) \/ ~cpu.wp
      BY <2>1 DEF Resolved, p
    <3> QED BY <1>1, <1>2, <1>5, <1>10, <3>1, WalkedSame
  <2>2. "write" \notin v.meta[p] => phys.map[f] # "rom"
    <3>1. acc.writable => phys.map[f] \in {"default", "shm"}
      BY <1>10 DEF Threaded, f, p
    <3> QED BY <1>2, <1>5, <3>1
  <2>3. cpu.a20 \/ f < WrapAt => Backed(f) /\ ShownAt(v, p, f)
    BY <1>20 DEF f, p
  <2> QED BY <1>12, <2>1, <2>2, <2>3 DEF PageFresh
<1>14. PageTracked(s.t, s.dirty, v, stale2, p)
  <2>1. SUFFICES ASSUME "write" \notin v.meta[p]
                 PROVE  /\ cpu.a20 => \E g \in s.dirty : Backed(g) /\ ShownAt(v, p, g)
                        /\ cpu.paging => DirtyBit(cpu, s.t, p) /\ AccessedBit(cpu, s.t, p)
    BY DEF PageTracked
  <2>2. acc.writable
    BY <1>2, <1>5, <2>1
  <2>3. f \in s.dirty
    BY <2>2 DEF f, p
  <2>4. cpu.a20 => Backed(f) /\ ShownAt(v, p, f)
    BY <1>20 DEF f, p
  <2>5. cpu.paging => DirtyBit(cpu, s.t, p) /\ AccessedBit(cpu, s.t, p)
    BY <2>2 DEF Resolved, p
  <2> QED BY <2>3, <2>4, <2>5
<1>15. ASSUME NEW q \in Pages, "access" \notin v.meta[q]
       PROVE  /\ q \notin stale2 => PageFresh(s.t, v, q)
              /\ PageTracked(s.t, s.dirty, v, stale2, q)
  <2>1. CASE q = p
    BY <1>13, <1>14, <2>1
  <2>2. CASE q # p
    <3>1. /\ v.meta[q] = s.v.meta[q] /\ v.window[q] = s.v.window[q] /\ v.current[q] = s.v.current[q]
          /\ q \in stale <=> q \in stale2
      BY <1>5, <1>11, <2>2
    <3>2. /\ q \notin stale => PageFresh(s.t, s.v, q)
          /\ PageTracked(s.t, s.dirty, s.v, stale, q)
      BY <1>10, <1>15, <3>1 DEF Threaded
    <3> QED BY <3>1, <3>2 DEF PageFresh, PageTracked, ShownAt, LeftBehind
  <2> QED BY <2>1, <2>2
<1>16. Threaded(s.t, s.dirty, v, stale2)
  BY <1>21, <1>10, <1>15 DEF Threaded
<1>17. Sound(m)
  BY <1>8, <1>9, <1>10, <1>16 DEF Sound, stale2
<1>18. SameElsewhere(s.v, m.v, p)
  BY <1>5, <1>9 DEF SameElsewhere
<1>19. Exposed(s.v, p) => Exposed(m.v, p)
  BY <1>9, <1>20 DEF Exposed, f, p
<1> QED BY <1>2, <1>5, <1>9, <1>17, <1>18, <1>19 DEF p, FillDone

-----------------------------------------------------------------------------
(* The bytes of an access.                                                 *)

LEMMA PagesGrow ==
  ASSUME NEW x \in Nat, NEW y \in Nat, x <= y
  PROVE  Page(x) <= Page(y)
<1>1. PageSize \in Nat /\ PageSize >= 2
  BY FramesAreNaturals
<1>2. /\ Page(x) \in Nat /\ Page(y) \in Nat /\ Offset(x) \in 0 .. PageSize - 1 /\ Offset(y) \in 0 .. PageSize - 1
      /\ x = Page(x) * PageSize + Offset(x) /\ y = Page(y) * PageSize + Offset(y)
  BY PagesOfBytes
<1> HIDE DEF Page, Offset
<1>3. SUFFICES ASSUME Page(y) < Page(x) PROVE FALSE
  BY <1>2
<1>4. Page(y) * PageSize + Offset(y) < Page(x) * PageSize + 0
  BY <1>1, <1>2, <1>3, BelowPage
<1>5. Page(x) * PageSize \in Nat /\ Page(y) * PageSize \in Nat
  BY <1>1, <1>2
<1> QED BY <1>1, <1>2, <1>4, <1>5

\* The bytes of an access that stays within its page.
LEMMA SpanInPage ==
  ASSUME NEW e \in Nat, NEW n \in Nat, n >= 1, Page(e + n - 1) = Page(e), NEW i \in 0 .. n - 1
  PROVE  e + i \in Nat /\ Page(e + i) = Page(e) /\ Offset(e + i) = Offset(e) + i
<1>1. e + i \in Nat /\ e <= e + i /\ e + i <= e + n - 1 /\ e + n - 1 \in Nat
  OBVIOUS
<1>2. Page(e) \in Nat /\ Page(e + i) \in Nat
  BY <1>1, PagesOfBytes
<1>3. Page(e) <= Page(e + i) /\ Page(e + i) <= Page(e + n - 1)
  BY <1>1, PagesGrow
<1>4. Page(e + i) = Page(e)
  BY <1>2, <1>3
<1> QED BY <1>1, <1>4, SamePage

\* The physical byte of a linear one.
LEMMA PhysOfByte ==
  ASSUME NEW b \in Nat, Page(b) \in Pages, tables \in PageTables
  PROVE  /\ PhysOf(b) = FrameOf(tables, Page(b)) * PageSize + Offset(b)
         /\ Page(PhysOf(b)) = FrameOf(tables, Page(b)) /\ PhysOf(b) \in Nat
<1>1. PhysOf(b) = FrameOf(tables, Page(b)) * PageSize + Offset(b)
  BY DEF PhysOf, FrameOf
<1>2. FrameOf(tables, Page(b)) \in Nat /\ Offset(b) \in 0 .. PageSize - 1
  BY FrameIsFrame, FramesAreNaturals, PagesOfBytes
<1> QED BY <1>1, <1>2, BytesOfPages

\* A byte that is claimed and does not trap is where the page tables say.
LEMMA FastByte ==
  ASSUME MapOK, NEW s, Sound(s), NEW b \in Nat, Page(b) \in Pages, "access" \notin s.v.meta[Page(b)],
         Page(b) \notin ghost.stale \ s.filled, Exposed(s.v, Page(b))
  PROVE  /\ Window(s.v, b) = Cell(PhysOf(b)) /\ Cell(PhysOf(b)) # None
         /\ \A write, user \in BOOLEAN :
               ~ShouldTrap(s.v, Page(b), write, user) /\ ~(write /\ user /\ ~cpu.wp) =>
                  /\ ~Faults(cpu, tables, Page(b), write, user)
                  /\ write => phys.map[FrameOf(tables, Page(b))] # "rom"
<1> DEFINE p == Page(b)
           f == FrameOf(tables, p)
<1>1. /\ Walked(tables, s.t) /\ tables \in PageTables /\ PageFresh(s.t, s.v, p)
  BY DEF Sound, Threaded, Walked
<1>2. f \in Frames /\ FrameOf(s.t, p) = f
  BY <1>1, FrameIsFrame, WalkedSame
<1>3. Backed(f) /\ s.v.window[p] = WindowOf(f) /\ (cpu.a20 \/ f < WrapAt)
  BY <1>1, <1>2 DEF PageFresh, ShownAt, Exposed
<1>4. Window(s.v, b) = Cell(PhysOf(b)) /\ Cell(PhysOf(b)) # None
  BY <1>1, <1>2, <1>3, WindowIsCell, PhysOfByte
<1>5. ASSUME NEW write \in BOOLEAN, NEW user \in BOOLEAN,
             ~ShouldTrap(s.v, p, write, user), ~(write /\ user /\ ~cpu.wp)
      PROVE  /\ ~Faults(cpu, tables, p, write, user)
             /\ write => phys.map[f] # "rom"
  <2>1. (user => "user" \notin s.v.meta[p]) /\ (write => "write" \notin s.v.meta[p])
    BY <1>5 DEF ShouldTrap
  <2>2. write => phys.map[f] # "rom"
    BY <1>1, <1>2, <1>3, <2>1 DEF PageFresh
  <2>3. cpu.paging => /\ Mapped(cpu, s.t, p)
                      /\ user => UserAccessible(cpu, s.t, p)
                      /\ write => Writable(cpu, s.t, p) \/ ~cpu.wp
    BY <1>1, <2>1 DEF PageFresh
  <2>4. ~Faults(cpu, s.t, p, write, user)
    BY <1>5, <2>3 DEF Faults
  <2> QED BY <1>1, <2>2, <2>4, WalkedSame
<1> QED BY <1>4, <1>5

\* The windows of the bytes of an access show the cells their addresses are mapped to.
SpanShown(s, e, n) == {Window(s.v, b) : b \in Span(e, n)} = {Cell(PhysOf(b)) : b \in Span(e, n)}

\* The bytes of a claimed access to one page that does not trap.
LEMMA FastSpan ==
  ASSUME MapOK, NEW s, Sound(s), NEW e \in Nat, NEW n \in Nat, n >= 1, Page(e + n - 1) = Page(e),
         Page(e) \in Pages, "access" \notin s.v.meta[Page(e)],
         Page(e) \notin ghost.stale \ s.filled, Exposed(s.v, Page(e))
  PROVE  SpanShown(s, e, n)
<1>1. \A b \in Span(e, n) : Window(s.v, b) = Cell(PhysOf(b))
  <2>1. SUFFICES ASSUME NEW i \in 0 .. n - 1
                 PROVE  Window(s.v, e + i) = Cell(PhysOf(e + i))
    BY DEF Span
  <2>2. e + i \in Nat /\ Page(e + i) = Page(e)
    BY SpanInPage
  <2> QED BY <2>2, FastByte
<1> QED BY <1>1 DEF SpanShown

\* The physical bytes of an access to one page.
LEMMA PhysicalSpan ==
  ASSUME NEW e \in Nat, NEW n \in Nat, n >= 1, Page(e + n - 1) = Page(e), Page(e) \in Pages,
         tables \in PageTables, NEW i \in 0 .. n - 1
  PROVE  /\ PhysOf(e + i) = PhysOf(e) + i /\ PhysOf(e) \in Nat
         /\ PhysOf(e + i) = FrameOf(tables, Page(e)) * PageSize + Offset(e + i)
         /\ Offset(e + i) \in 0 .. PageSize - 1
<1>1. e + i \in Nat /\ Page(e + i) = Page(e) /\ Offset(e + i) = Offset(e) + i
  BY SpanInPage
<1>2. /\ PhysOf(e) = FrameOf(tables, Page(e)) * PageSize + Offset(e) /\ PhysOf(e) \in Nat
      /\ PhysOf(e + i) = FrameOf(tables, Page(e)) * PageSize + Offset(e + i)
  BY <1>1, PhysOfByte
<1>3. Offset(e + i) \in 0 .. PageSize - 1 /\ Offset(e) \in Nat
  BY <1>1, PagesOfBytes, FramesAreNaturals
<1>4. FrameOf(tables, Page(e)) * PageSize \in Nat
  <2>1. FrameOf(tables, Page(e)) \in Nat /\ PageSize \in Nat
    BY FrameIsFrame, FramesAreNaturals
  <2> HIDE DEF FrameOf, Page
  <2> QED BY <2>1
<1> HIDE DEF PhysOf, Offset, FrameOf
<1> QED BY <1>1, <1>2, <1>3, <1>4

-----------------------------------------------------------------------------
(* Trapped reads and writes.                                               *)

LEMMA CellsKeep ==
  ASSUME NEW s, Sound(s), NEW c,
         NEW x, x = [t |-> s.t, dirty |-> s.dirty, v |-> s.v, cells |-> c, filled |-> s.filled]
  PROVE  Sound(x) /\ x.cells = c /\ x.v = s.v /\ x.t = s.t /\ x.dirty = s.dirty /\ x.filled = s.filled
<1>1. x.cells = c /\ x.v = s.v /\ x.t = s.t /\ x.dirty = s.dirty /\ x.filled = s.filled
  OBVIOUS
<1> QED BY <1>1 DEF Sound

LEMMA DirtyKeeps ==
  ASSUME NEW s, Sound(s), NEW f \in Frames, phys.map[f] \in {"default", "shm"},
         NEW x, x = [t |-> s.t, dirty |-> s.dirty \cup {f}, v |-> s.v, cells |-> s.cells, filled |-> s.filled]
  PROVE  /\ Sound(x) /\ x.cells = s.cells /\ x.v = s.v /\ x.t = s.t /\ x.filled = s.filled
         /\ x.dirty = s.dirty \cup {f}
<1>1. x.cells = s.cells /\ x.v = s.v /\ x.t = s.t /\ x.filled = s.filled /\ x.dirty = s.dirty \cup {f}
  OBVIOUS
<1>2. Threaded(s.t, s.dirty, s.v, ghost.stale \ s.filled)
  BY DEF Sound
<1>3. Threaded(s.t, s.dirty \cup {f}, s.v, ghost.stale \ s.filled)
  BY <1>2 DEF Threaded, PageTracked
<1> QED BY <1>1, <1>3 DEF Sound

\* The cells of a page that is filled, or that has no window.
LEMMA ReachedCells ==
  ASSUME MapOK, tables \in PageTables, NEW e \in Nat, NEW n \in Nat, n >= 1, Page(e + n - 1) = Page(e),
         Page(e) \in Pages, cpu.a20 \/ FrameOf(tables, Page(e)) < WrapAt
  PROVE  LET f == FrameOf(tables, Page(e))
             C == {Cell(PhysOf(b)) : b \in Span(e, n)}
         IN  /\ phys.map[f] = "mmio" => C = {<<"mmio", b>> : b \in Span(PhysOf(e), n)}
             /\ phys.map[f] \in {"shm", "rom"} => C = {<<"shm", b>> : b \in Span(ShmOffset(PhysOf(e)), n)}
             /\ phys.map[f] = "default" /\ f < RamFrames => C = {<<"ram", b>> : b \in Span(PhysOf(e), n)}
             /\ phys.map[f] = "default" /\ ~(f < RamFrames) => C = {None}
<1> DEFINE f == FrameOf(tables, Page(e))
           q == PhysOf(e)
<1>1. f \in Frames /\ q \in Nat
  BY FrameIsFrame, PhysOfByte
<1>2. ASSUME NEW i \in 0 .. n - 1
      PROVE  /\ PhysOf(e + i) = q + i
             /\ phys.map[f] = "mmio" => Cell(q + i) = <<"mmio", q + i>>
             /\ phys.map[f] \in {"shm", "rom"} => Cell(q + i) = <<"shm", q + i + ShmPage * PageSize>>
             /\ phys.map[f] = "default" /\ f < RamFrames => Cell(q + i) = <<"ram", q + i>>
             /\ phys.map[f] = "default" /\ ~(f < RamFrames) => Cell(q + i) = None
  <2>1. PhysOf(e + i) = q + i /\ q + i = f * PageSize + Offset(e + i) /\ Offset(e + i) \in 0 .. PageSize - 1
    <3>1. /\ PhysOf(e + i) = PhysOf(e) + i /\ PhysOf(e) \in Nat
          /\ PhysOf(e + i) = FrameOf(tables, Page(e)) * PageSize + Offset(e + i)
          /\ Offset(e + i) \in 0 .. PageSize - 1
      BY PhysicalSpan, Zenon
    <3> QED BY <3>1, Zenon
  <2> HIDE DEF f, q
  <2> QED BY <1>1, <2>1, CellOfByte DEF f
<1>3. ShmPage * PageSize \in Int
  BY FramesAreNaturals
<1> DEFINE C == {Cell(PhysOf(b)) : b \in Span(e, n)}
<1>4. C = {Cell(q + i) : i \in 0 .. n - 1}
  BY <1>2 DEF Span
<1> HIDE DEF f, q, C
<1>5. ASSUME phys.map[f] = "mmio" PROVE C = {<<"mmio", b>> : b \in Span(q, n)}
  BY <1>2, <1>4, <1>5 DEF Span
<1>6. ASSUME phys.map[f] \in {"shm", "rom"} PROVE C = {<<"shm", b>> : b \in Span(ShmOffset(q), n)}
  <2>1. ASSUME NEW i \in 0 .. n - 1 PROVE q + i + ShmPage * PageSize = ShmOffset(q) + i
    <3> DEFINE k == ShmPage * PageSize
    <3>1. k \in Int
      BY <1>3
    <3> HIDE DEF k
    <3>2. q + i + k = q + k + i
      BY <1>1, <3>1
    <3> QED BY <3>2 DEF ShmOffset, k
  <2>2. \A i \in 0 .. n - 1 : Cell(q + i) = <<"shm", ShmOffset(q) + i>>
    BY <1>2, <1>6, <2>1
  <2> QED BY <1>4, <2>2 DEF Span
<1>7. ASSUME phys.map[f] = "default", f < RamFrames PROVE C = {<<"ram", b>> : b \in Span(q, n)}
  BY <1>2, <1>4, <1>7 DEF Span
<1>8. ASSUME phys.map[f] = "default", ~(f < RamFrames) PROVE C = {None}
  <2>1. 0 \in 0 .. n - 1
    OBVIOUS
  <2> QED BY <1>2, <1>4, <1>8, <2>1
<1> QED BY <1>5, <1>6, <1>7, <1>8 DEF f, q, C

\* After a fill, the bytes of the access are read or written where they should be.
LEMMA FilledCells ==
  ASSUME MapOK, NEW m, Sound(m), NEW e \in Nat, NEW n \in Nat, n >= 1, Page(e + n - 1) = Page(e),
         Page(e) \in Pages, "access" \notin m.v.meta[Page(e)], NEW x, x = Unchecked(m, e, n)
  PROVE  /\ Sound(x) /\ x.v = m.v
         /\ Page(e) \notin ghost.stale /\ Exposed(m.v, Page(e)) =>
               x.cells = m.cells \cup {Cell(PhysOf(b)) : b \in Span(e, n)}
<1> DEFINE c == m.cells \cup {Window(m.v, b) : b \in Span(e, n)}
<1>1. x = [m EXCEPT !.cells = c]
  BY DEF Unchecked
<1> HIDE DEF c
<1>2. Sound(x) /\ x.cells = c /\ x.v = m.v
  <2>1. m = [t |-> m.t, dirty |-> m.dirty, v |-> m.v, cells |-> m.cells, filled |-> m.filled]
    BY DEF Sound
  <2>2. x = [t |-> m.t, dirty |-> m.dirty, v |-> m.v, cells |-> c, filled |-> m.filled]
    BY ONLY <1>1, <2>1
  <2> QED BY ONLY Sound(m), <2>2, CellsKeep
<1>3. ASSUME Page(e) \notin ghost.stale, Exposed(m.v, Page(e))
      PROVE  c = m.cells \cup {Cell(PhysOf(b)) : b \in Span(e, n)}
  <2>1. Page(e) \notin ghost.stale \ m.filled
    BY <1>3, Zenon
  <2>2. {Window(m.v, b) : b \in Span(e, n)} = {Cell(PhysOf(b)) : b \in Span(e, n)}
    <3>1. SpanShown(m, e, n)
      BY <1>3, <2>1, FastSpan
    <3> QED BY ONLY <3>1 DEF SpanShown
  <2> QED BY ONLY <2>2 DEF c
<1> QED BY <1>2, <1>3, Zenon

LEMMA ResolvedLater ==
  ASSUME NEW s, NEW s2, NEW acc, NEW e, Resolved(s, acc, e),
         s.dirty \subseteq s2.dirty, Walked(s.t, s2.t)
  PROVE  Resolved(s2, acc, e)
<1>1. Page(e) \in Pages
  BY DEF Resolved
<1>2. DirtyBit(cpu, s.t, Page(e)) => DirtyBit(cpu, s2.t, Page(e))
  BY <1>1, WalkedSame
<1>3. AccessedBit(cpu, s.t, Page(e)) => AccessedBit(cpu, s2.t, Page(e))
  BY <1>1, WalkedSame
<1> QED BY <1>2, <1>3 DEF Resolved

\* Where the windows of a physical address start.
LEMMA Offsets ==
  ASSUME MapOK, NEW f \in Frames, NEW o \in 0 .. PageSize - 1, NEW x, x = f * PageSize + o
  PROVE  /\ Page(x) = f
         /\ phys.map[f] \in {"shm", "rom"} => /\ Page(ShmOffset(x)) = f + ShmPage
                                            /\ <<"shm", f + ShmPage>> \in Shown
         /\ InRam(Wrapped(x)) => <<"ram", Page(Wrapped(x))>> \in Shown
         /\ InRam(x) <=> f < RamFrames
         /\ InRam(x) => <<"ram", f>> \in Shown
         /\ cpu.a20 \/ f < WrapAt => Wrapped(x) = x
<1>1. /\ f \in Nat /\ ShmPage \in Int /\ RamFrames \in Nat /\ PageSize \in Nat /\ PageSize >= 2
      /\ WrapAt \in Nat /\ WrapAt >= 1
      /\ phys.map[f] \in {"shm", "rom"} => f + ShmPage \in Nat
  BY FramesAreNaturals DEF MapOK
<1>2. Page(x) = f /\ x \in Nat
  BY <1>1, BytesOfPages
<1>3. ShmOffset(x) = (f + ShmPage) * PageSize + o
  BY <1>1, SumOfPages DEF ShmOffset
<1>4. phys.map[f] \in {"shm", "rom"} => Page(ShmOffset(x)) = f + ShmPage
  BY <1>1, <1>3, BytesOfPages
<1>5. InRam(x) <=> f < RamFrames
  BY <1>1, BelowPage DEF InRam
<1>6. Wrapped(x) \in Nat
  <2>1. WrapAt * PageSize \in Nat /\ WrapAt * PageSize >= 1
    BY <1>1
  <2>2. x % (WrapAt * PageSize) \in Nat
    BY <1>2, <2>1
  <2> QED BY <1>2, <2>2 DEF Wrapped
<1>7. InRam(Wrapped(x)) => Page(Wrapped(x)) \in 0 .. RamFrames - 1
  <2> DEFINE y == Wrapped(x)
  <2>1. y \in Nat
    BY <1>6
  <2> HIDE DEF y
  <2>2. Page(y) \in Nat /\ Offset(y) \in 0 .. PageSize - 1 /\ y = Page(y) * PageSize + Offset(y)
    BY <2>1, PagesOfBytes
  <2>3. InRam(y) => Page(y) < RamFrames
    BY <1>1, <2>2, BelowPage DEF InRam
  <2> QED BY <1>1, <2>2, <2>3 DEF y
<1>8. cpu.a20 \/ f < WrapAt => Wrapped(x) = x
  BY BelowA20
<1> HIDE DEF Page
<1>9. InRam(Wrapped(x)) => <<"ram", Page(Wrapped(x))>> \in Shown
  BY <1>7 DEF Shown
<1>10. f < RamFrames => <<"ram", f>> \in Shown
  BY <1>1 DEF Shown
<1>11. phys.map[f] \in {"shm", "rom"} => <<"shm", f + ShmPage>> \in Shown
  BY <1>1 DEF Shown
<1> QED BY <1>2, <1>4, <1>5, <1>8, <1>9, <1>10, <1>11

\* What a trapped read of n bytes leaves.
TrappedReadDone(s, e, n, m) ==
    /\ Sound(m) /\ SameElsewhere(s.v, m.v, Page(e))
    /\ Page(e) \notin ghost.stale /\ Exposed(s.v, Page(e)) =>
         m.cells = s.cells \cup {Cell(PhysOf(b)) : b \in Span(e, n)}

LEMMA TrappedReadKeeps ==
  ASSUME MapOK, NEW s, Sound(s), NEW acc, NEW e, Resolved(s, acc, e), ~acc.needsMark,
         NEW n \in Nat, n >= 1, Page(e + n - 1) = Page(e), NEW m, m = TrappedRead(s, acc, n)
  PROVE  TrappedReadDone(s, e, n, m)
<1> DEFINE p == Page(e)
           f == FrameOf(tables, p)
           x == acc.phys
           C == {Cell(PhysOf(b)) : b \in Span(e, n)}
           claimed == Page(e) \notin ghost.stale /\ Exposed(s.v, Page(e))
<1>1. /\ e \in Nat /\ p \in Pages /\ acc.emu = e /\ x = f * PageSize + Offset(e)
      /\ tables \in PageTables
  BY DEF Resolved, Sound, Walked
<1>2. f \in Frames /\ Offset(e) \in 0 .. PageSize - 1 /\ x = PhysOf(e)
  BY <1>1, FrameIsFrame, PagesOfBytes, PhysOfByte
<1>3. /\ Page(x) = f
      /\ phys.map[f] \in {"shm", "rom"} => Page(ShmOffset(x)) = f + ShmPage /\ <<"shm", f + ShmPage>> \in Shown
      /\ InRam(Wrapped(x)) => <<"ram", Page(Wrapped(x))>> \in Shown
      /\ InRam(x) <=> f < RamFrames
      /\ cpu.a20 \/ f < WrapAt => Wrapped(x) = x
  BY <1>1, <1>2, Offsets
<1>4. acc.writable => f \in s.dirty
  BY DEF Resolved
<1>5. phys.map[f] \in Kinds
  BY <1>2 DEF MapOK
<1>6. s = [t |-> s.t, dirty |-> s.dirty, v |-> s.v, cells |-> s.cells, filled |-> s.filled]
  BY DEF Sound
<1>12. claimed => cpu.a20 \/ f < WrapAt
  BY DEF Exposed
<1>7. /\ claimed => /\ phys.map[f] = "mmio" => C = {<<"mmio", b>> : b \in Span(x, n)}
                    /\ phys.map[f] = "default" /\ ~(f < RamFrames) => C = {None}
  BY <1>1, <1>2, <1>12, ReachedCells
<1> HIDE DEF f, x, C, p, claimed
<1> SUFFICES Sound(m) /\ (claimed => m.cells = s.cells \cup C) /\ SameElsewhere(s.v, m.v, p)
  BY DEF TrappedReadDone, claimed, C, p
<1>8. CASE phys.map[f] = "mmio"
  <2> DEFINE c == s.cells \cup {<<"mmio", b>> : b \in Span(x, n)}
  <2>1. m = [s EXCEPT !.cells = c]
    BY <1>3, <1>8 DEF TrappedRead, x
  <2> HIDE DEF c
  <2>2. m = [t |-> s.t, dirty |-> s.dirty, v |-> s.v, cells |-> c, filled |-> s.filled]
    BY ONLY <1>6, <2>1
  <2>3. Sound(m) /\ m.cells = c /\ m.v = s.v
    BY ONLY Sound(s), <2>2, CellsKeep
  <2> QED BY <1>7, <1>8, <2>3 DEF c, SameElsewhere
<1>9. CASE phys.map[f] \in {"shm", "rom"}
  <2> DEFINE d == Fill(s, acc, "shm", ShmOffset(x))
  <2>1. m = Unchecked(d, e, n)
    BY <1>1, <1>3, <1>9 DEF TrappedRead, x
  <2>2. <<"shm", Page(ShmOffset(x))>> \in Shown /\ <<"shm", Page(ShmOffset(x))>> = WindowOf(f) /\ Backed(f)
    BY <1>3, <1>9 DEF WindowOf, Backed
  <2>3. FillDone(s, e, d)
    <3>1. d = Fill(s, acc, "shm", ShmOffset(x))
      OBVIOUS
    <3> HIDE DEF d
    <3> QED BY <1>4, <2>2, <3>1, FillKeeps DEF f, p
  <2> HIDE DEF d
  <2>4. Sound(d) /\ "access" \notin d.v.meta[Page(e)] /\ d.cells = s.cells
        /\ SameElsewhere(s.v, d.v, p) /\ (Exposed(s.v, Page(e)) => Exposed(d.v, Page(e)))
    BY <2>3 DEF FillDone, p
  <2>5. /\ Sound(m) /\ m.v = d.v
        /\ Page(e) \notin ghost.stale /\ Exposed(d.v, Page(e)) => m.cells = d.cells \cup C
    BY <1>1, <2>1, <2>4, FilledCells DEF p, C
  <2> QED BY <2>4, <2>5 DEF claimed
<1>10. CASE phys.map[f] = "default" /\ InRam(Wrapped(x))
  <2> DEFINE d == Fill(s, acc, "ram", Wrapped(x))
  <2>1. m = Unchecked(d, e, n)
    BY <1>1, <1>3, <1>10 DEF TrappedRead, x
  <2>2. cpu.a20 \/ f < WrapAt => <<"ram", Page(Wrapped(x))>> = WindowOf(f) /\ Backed(f)
    BY <1>3, <1>10 DEF WindowOf, Backed
  <2>3. FillDone(s, e, d)
    <3>1. d = Fill(s, acc, "ram", Wrapped(x))
      OBVIOUS
    <3> HIDE DEF d
    <3> QED BY <1>3, <1>4, <1>10, <2>2, <3>1, FillKeeps DEF f, p
  <2> HIDE DEF d
  <2>4. Sound(d) /\ "access" \notin d.v.meta[Page(e)] /\ d.cells = s.cells
        /\ SameElsewhere(s.v, d.v, p) /\ (Exposed(s.v, Page(e)) => Exposed(d.v, Page(e)))
    BY <2>3 DEF FillDone, p
  <2>5. /\ Sound(m) /\ m.v = d.v
        /\ Page(e) \notin ghost.stale /\ Exposed(d.v, Page(e)) => m.cells = d.cells \cup C
    BY <1>1, <2>1, <2>4, FilledCells DEF p, C
  <2> QED BY <2>4, <2>5 DEF claimed
<1>11. CASE phys.map[f] = "default" /\ ~InRam(Wrapped(x))
  <2> DEFINE c == s.cells \cup {None}
  <2>1. m = [s EXCEPT !.cells = c]
    BY <1>3, <1>11 DEF TrappedRead, x
  <2> HIDE DEF c
  <2>2. m = [t |-> s.t, dirty |-> s.dirty, v |-> s.v, cells |-> c, filled |-> s.filled]
    BY ONLY <1>6, <2>1
  <2>3. Sound(m) /\ m.cells = c /\ m.v = s.v
    BY ONLY Sound(s), <2>2, CellsKeep
  <2>4. claimed => ~(f < RamFrames)
    BY <1>3, <1>11, <1>12
  <2> QED BY <1>7, <1>11, <2>3, <2>4 DEF c, SameElsewhere
<1> QED BY <1>5, <1>8, <1>9, <1>10, <1>11 DEF Kinds, C, p, f

\* The cells that a write should reach: none of a ROM, or beyond the RAM.
Written(e, n) ==
    {Cell(PhysOf(b)) : b \in {b2 \in Span(e, n) :
        phys.map[Page(PhysOf(b2))] # "rom" /\ Cell(PhysOf(b2)) # None}}

LEMMA WrittenCells ==
  ASSUME MapOK, tables \in PageTables, NEW e \in Nat, NEW n \in Nat, n >= 1, Page(e + n - 1) = Page(e),
         Page(e) \in Pages, cpu.a20 \/ FrameOf(tables, Page(e)) < WrapAt
  PROVE  LET f == FrameOf(tables, Page(e))
         IN  /\ phys.map[f] = "rom" \/ (phys.map[f] = "default" /\ ~(f < RamFrames)) => Written(e, n) = {}
             /\ ~(phys.map[f] = "rom" \/ (phys.map[f] = "default" /\ ~(f < RamFrames))) =>
                   Written(e, n) = {Cell(PhysOf(b)) : b \in Span(e, n)}
<1> DEFINE f == FrameOf(tables, Page(e))
<1>1. f \in Frames /\ phys.map[f] \in Kinds
  BY FrameIsFrame DEF MapOK
<1>2. ASSUME NEW b \in Span(e, n)
      PROVE  /\ Page(PhysOf(b)) = f
             /\ phys.map[f] = "default" /\ ~(f < RamFrames) => Cell(PhysOf(b)) = None
             /\ phys.map[f] \in {"mmio", "shm"} \/ (phys.map[f] = "default" /\ f < RamFrames) =>
                   Cell(PhysOf(b)) # None
  <2>1. PICK i \in 0 .. n - 1 : b = e + i
    BY <1>2 DEF Span
  <2>2. b \in Nat /\ Page(b) = Page(e)
    BY <2>1, SpanInPage
  <2>3. PhysOf(b) = f * PageSize + Offset(b) /\ Page(PhysOf(b)) = f /\ Offset(b) \in 0 .. PageSize - 1
    BY <2>2, PhysOfByte, PagesOfBytes
  <2> HIDE DEF f
  <2>4. cpu.a20 \/ f < WrapAt
    BY DEF f
  <2>5. /\ phys.map[f] = "mmio" => Cell(PhysOf(b)) = <<"mmio", PhysOf(b)>>
        /\ phys.map[f] = "shm" => Cell(PhysOf(b)) = <<"shm", PhysOf(b) + ShmPage * PageSize>>
        /\ phys.map[f] = "default" /\ f < RamFrames => Cell(PhysOf(b)) = <<"ram", PhysOf(b)>>
        /\ phys.map[f] = "default" /\ ~(f < RamFrames) => Cell(PhysOf(b)) = None
    BY <1>1, <2>3, <2>4, CellOfByte
  <2>6. \A k, y : <<k, y>> # None
    BY DEF None
  <2> DEFINE c == Cell(PhysOf(b))
             q == PhysOf(b)
  <2>7. /\ phys.map[f] \in {"mmio", "shm"} => c # None
        /\ phys.map[f] = "default" /\ f < RamFrames => c # None
    BY <2>5, <2>6
  <2> QED BY <2>3, <2>5, <2>7
<1> HIDE DEF f
<1> QED BY <1>1, <1>2 DEF Written, Kinds, f

\* What a trapped write of n bytes leaves.
TrappedWriteDone(s, e, n, to, m) ==
    /\ Sound(m) /\ s.dirty \subseteq m.dirty /\ m.t = s.t
    /\ to = e /\ Page(e + n - 1) = Page(e) /\ Page(e) \notin ghost.stale /\ Exposed(s.v, Page(e)) =>
          m.cells = s.cells \cup Written(e, n)

LEMMA TrappedWriteKeeps ==
  ASSUME MapOK, NEW s, Sound(s), NEW acc, NEW e, Resolved(s, acc, e), acc.writable,
         NEW n \in Nat, n >= 1, NEW to, NEW advice, NEW m, m = TrappedWrite(s, acc, n, to, advice)
  PROVE  TrappedWriteDone(s, e, n, to, m)
<1> DEFINE p == Page(e)
           f == FrameOf(tables, p)
           x == acc.phys
           C == {Cell(PhysOf(b)) : b \in Span(e, n)}
           claimed == /\ to = e /\ Page(e + n - 1) = Page(e)
                      /\ Page(e) \notin ghost.stale /\ Exposed(s.v, Page(e))
           shm == phys.map[f] \in {"shm", "rom"}
           area == IF shm THEN "shm" ELSE "ram"
           offset == IF shm THEN ShmOffset(x) ELSE x
<1>1. /\ e \in Nat /\ p \in Pages /\ acc.emu = e /\ x = f * PageSize + Offset(e)
      /\ tables \in PageTables /\ acc.needsMark \in BOOLEAN
  BY DEF Resolved, Sound, Walked
<1>2. f \in Frames /\ Offset(e) \in 0 .. PageSize - 1 /\ x = PhysOf(e)
  BY <1>1, FrameIsFrame, PagesOfBytes, PhysOfByte
<1>3. /\ Page(x) = f
      /\ phys.map[f] \in {"shm", "rom"} => Page(ShmOffset(x)) = f + ShmPage /\ <<"shm", f + ShmPage>> \in Shown
      /\ InRam(x) <=> f < RamFrames
      /\ InRam(x) => <<"ram", f>> \in Shown
  BY <1>1, <1>2, Offsets
<1>4. acc.needsMark \/ f \in s.dirty
  BY DEF Resolved
<1>5. phys.map[f] \in Kinds
  BY <1>2 DEF MapOK
<1>6. s = [t |-> s.t, dirty |-> s.dirty, v |-> s.v, cells |-> s.cells, filled |-> s.filled]
  BY DEF Sound
<1>15. claimed => cpu.a20 \/ f < WrapAt
  BY DEF Exposed
<1>7. claimed => /\ phys.map[f] = "mmio" => C = {<<"mmio", b>> : b \in Span(x, n)}
                 /\ shm => C = {<<"shm", b>> : b \in Span(ShmOffset(x), n)}
                 /\ phys.map[f] = "default" /\ f < RamFrames => C = {<<"ram", b>> : b \in Span(x, n)}
  BY <1>1, <1>2, <1>15, ReachedCells
<1>8. claimed =>
         /\ phys.map[f] = "rom" \/ (phys.map[f] = "default" /\ ~(f < RamFrames)) => Written(e, n) = {}
         /\ ~(phys.map[f] = "rom" \/ (phys.map[f] = "default" /\ ~(f < RamFrames))) => Written(e, n) = C
  BY <1>1, <1>15, WrittenCells
<1>9. f \in s.dirty => phys.map[f] \in {"default", "shm"}
  BY DEF Sound, Threaded
<1>10. Walked(s.t, s.t)
  BY WalkedReflexive DEF Sound, Threaded
<1> HIDE DEF f, x, C, p, area, offset, claimed
<1> SUFFICES /\ Sound(m) /\ s.dirty \subseteq m.dirty /\ m.t = s.t
             /\ claimed => m.cells = s.cells \cup Written(e, n)
  BY DEF claimed, TrappedWriteDone
<1>11. CASE phys.map[f] = "mmio"
  <2> DEFINE c == s.cells \cup {<<"mmio", b>> : b \in Span(x, n)}
  <2>1. m = [s EXCEPT !.cells = c]
    BY <1>3, <1>11 DEF TrappedWrite, x
  <2> HIDE DEF c
  <2>2. m = [t |-> s.t, dirty |-> s.dirty, v |-> s.v, cells |-> c, filled |-> s.filled]
    BY ONLY <1>6, <2>1
  <2>3. Sound(m) /\ m.cells = c /\ m.dirty = s.dirty /\ m.t = s.t
    BY ONLY Sound(s), <2>2, CellsKeep
  <2> QED BY <1>7, <1>8, <1>11, <2>3 DEF c
<1>12. CASE \/ phys.map[f] = "rom" /\ acc.needsMark
            \/ phys.map[f] = "default" /\ ~InRam(x)
  <2>1. m = s
    BY <1>3, <1>12 DEF TrappedWrite, x
  <2> QED BY <1>3, <1>8, <1>12, <2>1
<1>13. CASE /\ \/ phys.map[f] = "shm"
               \/ phys.map[f] = "default" /\ InRam(x)
            /\ acc.needsMark /\ advice = "DoNotMark"
  <2> DEFINE c == s.cells \cup {<<area, b>> : b \in Span(offset, n)}
  <2>1. m = [s EXCEPT !.cells = c]
    BY <1>3, <1>13 DEF TrappedWrite, x, area, offset
  <2> HIDE DEF c
  <2>2. m = [t |-> s.t, dirty |-> s.dirty, v |-> s.v, cells |-> c, filled |-> s.filled]
    BY ONLY <1>6, <2>1
  <2>3. Sound(m) /\ m.cells = c /\ m.dirty = s.dirty /\ m.t = s.t
    BY ONLY Sound(s), <2>2, CellsKeep
  <2> QED BY <1>3, <1>7, <1>8, <1>13, <2>3 DEF c, area, offset
<1>14. CASE /\ \/ phys.map[f] = "shm"
               \/ phys.map[f] = "default" /\ InRam(x)
            /\ ~(acc.needsMark /\ advice = "DoNotMark")
  <2> DEFINE marked == IF acc.needsMark THEN MarkFrameDirty(s, x) ELSE s
             d == Fill(marked, acc, area, offset)
  <2>1. m = Unchecked(d, to, n)
    BY <1>3, <1>14 DEF TrappedWrite, x, area, offset
  <2>2. /\ Sound(marked) /\ marked.cells = s.cells /\ marked.t = s.t /\ marked.v = s.v
        /\ s.dirty \subseteq marked.dirty /\ f \in marked.dirty
    <3>1. CASE acc.needsMark
      <4> DEFINE y == [t |-> s.t, dirty |-> s.dirty \cup {f}, v |-> s.v, cells |-> s.cells, filled |-> s.filled]
      <4>1. marked = [s EXCEPT !.dirty = s.dirty \cup {f}]
        BY <1>3, <3>1 DEF MarkFrameDirty
      <4> HIDE DEF marked
      <4>2. marked = y
        BY ONLY <1>6, <4>1
      <4>3. phys.map[f] \in {"default", "shm"}
        BY <1>14
      <4> QED BY ONLY Sound(s), <1>2, <4>2, <4>3, DirtyKeeps
    <3>2. CASE ~acc.needsMark
      BY <1>4, <3>2
    <3> QED BY <1>1, <3>1, <3>2
  <2> HIDE DEF marked
  <2>3. Resolved(marked, acc, e)
    BY <1>10, <2>2, ResolvedLater
  <2>4. <<area, Page(offset)>> \in Shown /\ <<area, Page(offset)>> = WindowOf(f) /\ Backed(f)
    BY <1>3, <1>14 DEF WindowOf, Backed, area, offset
  <2>12. FillDone(marked, e, d)
    <3>1. d = Fill(marked, acc, area, offset)
      OBVIOUS
    <3> HIDE DEF d
    <3> QED BY <2>2, <2>3, <2>4, <3>1, FillKeeps DEF f, p
  <2> HIDE DEF d
  <2>5. /\ Sound(d) /\ "access" \notin d.v.meta[Page(e)] /\ d.cells = s.cells /\ d.dirty = marked.dirty /\ d.t = s.t
        /\ Exposed(s.v, Page(e)) => Exposed(d.v, Page(e))
    BY <2>2, <2>12 DEF FillDone
  <2> DEFINE c == d.cells \cup {Window(d.v, b) : b \in Span(to, n)}
  <2>6. m = [d EXCEPT !.cells = c]
    BY <2>1 DEF Unchecked
  <2> HIDE DEF c
  <2>7. d = [t |-> d.t, dirty |-> d.dirty, v |-> d.v, cells |-> d.cells, filled |-> d.filled]
    BY <2>5 DEF Sound
  <2>8. m = [t |-> d.t, dirty |-> d.dirty, v |-> d.v, cells |-> c, filled |-> d.filled]
    BY ONLY <2>6, <2>7
  <2>9. Sound(m) /\ m.t = d.t /\ m.dirty = d.dirty
    BY ONLY <2>5, <2>8, CellsKeep
  <2>10. claimed => m.cells = s.cells \cup C
    <3>1. SUFFICES ASSUME claimed PROVE m.cells = d.cells \cup C
      BY <2>5
    <3>2. m = Unchecked(d, e, n)
      BY <2>1, <3>1 DEF claimed
    <3>3. Page(e) \notin ghost.stale /\ Exposed(d.v, Page(e)) /\ Page(e + n - 1) = Page(e)
      BY <2>5, <3>1 DEF claimed
    <3> QED BY <1>1, <2>5, <3>2, <3>3, FilledCells DEF C, p
  <2>11. claimed => Written(e, n) = C
    BY <1>3, <1>8, <1>14
  <2> QED BY <2>2, <2>5, <2>9, <2>10, <2>11
<1> QED BY <1>4, <1>5, <1>9, <1>11, <1>12, <1>13, <1>14 DEF Kinds

-----------------------------------------------------------------------------
(* Reads.                                                                  *)

\* Claims are made of page p.
ClaimedPage(v, p) == p \notin ghost.stale /\ Exposed(v, p)

\* What an access of n bytes that does not trap leaves.
FastDone(s, e, n, write, user, m) ==
    /\ Sound(m) /\ m.v = s.v
    /\ ClaimedPage(s.v, Page(e)) /\ ~(write /\ user /\ ~cpu.wp) =>
         /\ ~Faults(cpu, tables, Page(e), write, user)
         /\ m.cells = s.cells \cup (IF write THEN Written(e, n) ELSE {Cell(PhysOf(b)) : b \in Span(e, n)})

LEMMA FastPathKeeps ==
  ASSUME MapOK, NEW s, Sound(s), NEW e \in Nat, NEW n \in Nat, n >= 1, Page(e + n - 1) = Page(e),
         Page(e) \in Pages, NEW write \in BOOLEAN, NEW user \in BOOLEAN, FastPath(s.v, e, n, write, user),
         NEW m, m = Unchecked(s, e, n)
  PROVE  FastDone(s, e, n, write, user, m)
<1>1. ~ShouldTrap(s.v, Page(e), write, user) /\ "access" \notin s.v.meta[Page(e)]
  BY DEF FastPath, ShouldTrap
<1>2. /\ Sound(m) /\ m.v = s.v
      /\ ClaimedPage(s.v, Page(e)) => m.cells = s.cells \cup {Cell(PhysOf(b)) : b \in Span(e, n)}
  BY <1>1, FilledCells DEF ClaimedPage
<1>3. ASSUME ClaimedPage(s.v, Page(e)), ~(write /\ user /\ ~cpu.wp)
      PROVE  /\ ~Faults(cpu, tables, Page(e), write, user)
             /\ write => Written(e, n) = {Cell(PhysOf(b)) : b \in Span(e, n)}
  <2>1. /\ Page(e) \notin ghost.stale \ s.filled /\ (cpu.a20 \/ FrameOf(tables, Page(e)) < WrapAt)
        /\ Exposed(s.v, Page(e))
    BY <1>3 DEF ClaimedPage, Exposed
  <2>2. /\ Cell(PhysOf(e)) # None
        /\ ~Faults(cpu, tables, Page(e), write, user)
        /\ write => phys.map[FrameOf(tables, Page(e))] # "rom"
    BY <1>1, <1>3, <2>1, FastByte
  <2>3. tables \in PageTables
    BY DEF Sound, Walked
  <2>4. PhysOf(e) = FrameOf(tables, Page(e)) * PageSize + Offset(e) /\ FrameOf(tables, Page(e)) \in Frames
        /\ Offset(e) \in 0 .. PageSize - 1
    BY <2>3, PhysOfByte, FrameIsFrame, PagesOfBytes
  <2> DEFINE f == FrameOf(tables, Page(e))
  <2>5. ~(phys.map[f] = "default" /\ ~(f < RamFrames))
    <3>1. cpu.a20 \/ f < WrapAt
      BY <2>1
    <3> HIDE DEF f
    <3> QED BY <2>2, <2>4, <3>1, CellOfByte DEF f
  <2> QED BY <2>1, <2>2, <2>3, <2>5, WrittenCells
<1> QED BY <1>2, <1>3 DEF FastDone

Reached(e, n) == {Cell(PhysOf(b)) : b \in Span(e, n)}
ReadFaults(p, user) == Faults(cpu, tables, p, FALSE, user)

\* The outcome r of a read within the page of e, that began in s.
ReadDone(s, e, n, user, r) ==
    /\ Sound(r.s) /\ r.fault \in BOOLEAN
    /\ ClaimedPage(s.v, Page(e)) =>
         /\ r.fault <=> ReadFaults(Page(e), user)
         /\ ~r.fault => r.s.cells = s.cells \cup Reached(e, n)
    /\ ~r.fault => SameElsewhere(s.v, r.s.v, Page(e))

\* A read within a page.
LEMMA ReadInPageKeeps ==
  ASSUME MapOK, NEW s, Sound(s), NEW e \in Nat, NEW n \in Nat, n >= 1, Page(e + n - 1) = Page(e),
         Page(e) \in Pages, NEW user \in BOOLEAN, NEW r, r = ReadInPage(s, e, n, user)
  PROVE  ReadDone(s, e, n, user, r)
<1>1. CASE FastPath(s.v, e, n, FALSE, user)
  <2> DEFINE m == Unchecked(s, e, n)
  <2>1. r = [fault |-> FALSE, s |-> m]
    BY <1>1 DEF ReadInPage
  <2>2. /\ Sound(m) /\ m.v = s.v
        /\ ClaimedPage(s.v, Page(e)) =>
             /\ ~Faults(cpu, tables, Page(e), FALSE, user)
             /\ m.cells = s.cells \cup {Cell(PhysOf(b)) : b \in Span(e, n)}
    <3>1. m = Unchecked(s, e, n)
      OBVIOUS
    <3> HIDE DEF m
    <3>2. \A w \in BOOLEAN : w = FALSE => FastDone(s, e, n, w, user, m)
      <4> TAKE w \in BOOLEAN
      <4> SUFFICES ASSUME w = FALSE, FastPath(s.v, e, n, w, user) PROVE FastDone(s, e, n, w, user, m)
        BY <1>1
      <4>1. e \in Nat /\ n \in Nat /\ n >= 1 /\ Page(e + n - 1) = Page(e) /\ Page(e) \in Pages
        OBVIOUS
      <4> QED BY ONLY MapOK, Sound(s), <3>1, <4>1, w \in BOOLEAN, user \in BOOLEAN,
                      FastPath(s.v, e, n, w, user), FastPathKeeps
    <3> QED BY <3>2 DEF FastDone
  <2> HIDE DEF m
  <2>3. r.s = m /\ r.fault = FALSE
    BY ONLY <2>1
  <2>4. SameElsewhere(s.v, r.s.v, Page(e))
    BY <2>2, <2>3 DEF SameElsewhere
  <2> QED BY <2>2, <2>3, <2>4 DEF Reached, ReadFaults, ReadDone
<1>2. CASE ~FastPath(s.v, e, n, FALSE, user)
  <2> DEFINE acc == Resolve(s, e, FALSE, user)
  <2>1. r = IF acc.fault THEN acc ELSE [fault |-> FALSE, s |-> TrappedRead(acc.s, acc, n)]
    BY <1>2 DEF ReadInPage
  <2>2. CASE Faults(cpu, tables, Page(e), FALSE, user)
    <3>1. acc.fault = TRUE /\ Sound(acc.s)
      BY <2>2, ResolveKeeps DEF ResolveDone
    <3> HIDE DEF acc
    <3> QED BY <2>1, <2>2, <3>1 DEF ReadFaults, ReadDone
  <2>3. CASE ~Faults(cpu, tables, Page(e), FALSE, user)
    <3>0. Succeeded(s, e, FALSE, acc)
      BY <2>3, ResolveKeeps DEF ResolveDone
    <3> DEFINE m == TrappedRead(acc.s, acc, n)
    <3>2. m = TrappedRead(acc.s, acc, n)
      OBVIOUS
    <3> HIDE DEF acc, m
    <3>1. /\ acc.fault = FALSE /\ Sound(acc.s) /\ Resolved(acc.s, acc, e) /\ ~acc.needsMark
          /\ acc.s.cells = s.cells /\ acc.s.v = s.v
      BY <3>0 DEF Succeeded
    <3>3. r = [fault |-> FALSE, s |-> m]
      BY <2>1, <3>1, <3>2
    <3>6. TrappedReadDone(acc.s, e, n, m)
      BY <3>1, <3>2, TrappedReadKeeps
    <3>4. /\ Sound(m) /\ SameElsewhere(s.v, m.v, Page(e))
          /\ ClaimedPage(s.v, Page(e)) => m.cells = s.cells \cup {Cell(PhysOf(b)) : b \in Span(e, n)}
      BY <3>1, <3>6 DEF TrappedReadDone, ClaimedPage
    <3>5. r.s = m /\ r.fault = FALSE
      BY ONLY <3>3
    <3> QED BY <2>3, <3>1, <3>4, <3>5 DEF Reached, ReadFaults, ReadDone
  <2> QED BY <2>2, <2>3
<1> QED BY <1>1, <1>2

-----------------------------------------------------------------------------
(* Accesses.                                                               *)

InMemory(a, n) ==
    /\ a \in Nat /\ n \in Nat /\ n >= 1 /\ Page(a) \in Pages
    /\ ~Crosses(a, n) => Page(a + n - 1) = Page(a)
    /\ Crosses(a, n) => n = 2 /\ Page(a + 1) \in Pages /\ Page(a) + 1 \in Pages

LEMMA AccessesInMemory ==
  ASSUME NEW x \in Accesses
  PROVE  InMemory(x[1], x[2])
<1>1. /\ x[1] \in Nat /\ x[2] \in 1 .. PageSize /\ Page(x[1] + x[2] - 1) < NPages
      /\ Crosses(x[1], x[2]) => x[2] = 2
      /\ NPages \in Nat
  BY MemoryAssumption
<1>2. x[2] \in Nat /\ x[2] >= 1 /\ x[1] + x[2] - 1 \in Nat /\ x[1] <= x[1] + x[2] - 1
  BY <1>1, FramesAreNaturals
<1>3. Page(x[1]) <= Page(x[1] + x[2] - 1) /\ Page(x[1]) \in Nat /\ Page(x[1] + x[2] - 1) \in Nat
  BY <1>1, <1>2, PagesGrow, PagesOfBytes
<1>4. Page(x[1]) \in Pages
  BY <1>1, <1>3 DEF Pages
<1>5. ASSUME Crosses(x[1], x[2]) PROVE x[2] = 2 /\ Page(x[1] + 1) \in Pages /\ Page(x[1]) + 1 \in Pages
  <2>1. x[2] = 2 /\ x[1] + x[2] - 1 = x[1] + 1
    BY <1>1, <1>5
  <2>2. Page(x[1]) < Page(x[1] + 1) /\ Page(x[1] + 1) < NPages
    BY <1>1, <1>3, <1>5, <2>1 DEF Crosses
  <2>3. Page(x[1] + 1) \in Nat
    BY <1>3, <2>1
  <2> HIDE DEF Page
  <2> QED BY <1>1, <1>3, <2>1, <2>2, <2>3 DEF Pages
<1> QED BY <1>1, <1>2, <1>4, <1>5 DEF Crosses, InMemory

LEMMA StartIsSound ==
  ASSUME Threaded(tables, phys.dirty, view, ghost.stale)
  PROVE  /\ Sound(Start) /\ Start.v = view /\ Start.cells = {} /\ Start.filled = {}
         /\ tables \in PageTables
<1>1. /\ Start = [t |-> tables, dirty |-> phys.dirty, v |-> view, cells |-> {}, filled |-> {}]
      /\ Start.t = tables /\ Start.dirty = phys.dirty /\ Start.v = view /\ Start.cells = {} /\ Start.filled = {}
  BY DEF Start
<1>2. ghost.stale \ {} = ghost.stale /\ tables \in PageTables
  BY DEF Threaded
<1>3. Walked(tables, tables)
  BY <1>2, WalkedReflexive
<1>4. Threaded(Start.t, Start.dirty, Start.v, ghost.stale \ Start.filled)
  BY <1>1, <1>2
<1> QED BY <1>1, <1>2, <1>3, <1>4 DEF Sound

LEMMA SpanOfOne ==
  ASSUME NEW e \in Nat
  PROVE  Span(e, 1) = {e} /\ Span(e, 2) = {e, e + 1}
<1>1. 0 .. 0 = {0} /\ 0 .. 1 = {0, 1}
  OBVIOUS
<1>2. Span(e, 1) = {e + i : i \in {0}} /\ Span(e, 2) = {e + i : i \in {0, 1}}
  BY <1>1 DEF Span
<1> QED BY <1>2

\* What an access within a page is meant to touch.
LEMMA MeantInPage ==
  ASSUME tables \in PageTables, NEW e \in Nat, NEW n \in Nat, n >= 1, Page(e + n - 1) = Page(e), Page(e) \in Pages,
         NEW write \in BOOLEAN, NEW user \in BOOLEAN
  PROVE  /\ Claimed(e, n, write, user) => ClaimedPage(view, Page(e)) /\ ~(write /\ user /\ ~cpu.wp)
         /\ Faults(cpu, tables, Page(e), write, user) => Meant(e, n, write, user) = {}
         /\ ~Faults(cpu, tables, Page(e), write, user) =>
               Meant(e, n, write, user) = IF write THEN Written(e, n) ELSE {Cell(PhysOf(b)) : b \in Span(e, n)}
<1>1. \A b \in Span(e, n) : b \in Nat /\ Page(b) = Page(e)
  <2>1. SUFFICES ASSUME NEW i \in 0 .. n - 1 PROVE e + i \in Nat /\ Page(e + i) = Page(e)
    BY DEF Span
  <2> QED BY SpanInPage
<1>2. e \in Span(e, n)
  <2>1. 0 \in 0 .. n - 1 /\ e + 0 = e
    OBVIOUS
  <2> QED BY <2>1 DEF Span
<1>3. ASSUME Claimed(e, n, write, user) PROVE ClaimedPage(view, Page(e)) /\ ~(write /\ user /\ ~cpu.wp)
  <2>1. Page(PhysOf(e)) = FrameOf(tables, Page(e))
    BY PhysOfByte
  <2> QED BY <1>2, <1>3, <2>1 DEF Claimed, ClaimedPage, Exposed
<1>4. (\E b \in Span(e, n) : Faults(cpu, tables, Page(b), write, user)) <=> Faults(cpu, tables, Page(e), write, user)
  BY <1>1, <1>2
<1>5. Faults(cpu, tables, Page(e), write, user) => Meant(e, n, write, user) = {}
  BY <1>4 DEF Meant
<1>6. ASSUME ~Faults(cpu, tables, Page(e), write, user)
      PROVE  Meant(e, n, write, user) = IF write THEN Written(e, n) ELSE {Cell(PhysOf(b)) : b \in Span(e, n)}
  <2>1. Meant(e, n, write, user) =
           {Cell(PhysOf(b)) : b \in {b2 \in Span(e, n) :
              write => phys.map[Page(PhysOf(b2))] # "rom" /\ Cell(PhysOf(b2)) # None}}
    BY <1>4, <1>6 DEF Meant
  <2>2. CASE write
    BY <2>1, <2>2 DEF Written
  <2>3. CASE ~write
    <3>1. {b2 \in Span(e, n) : write => phys.map[Page(PhysOf(b2))] # "rom" /\ Cell(PhysOf(b2)) # None} = Span(e, n)
      BY <2>3
    <3> QED BY <2>1, <2>3, <3>1
  <2> QED BY <2>2, <2>3
<1> QED BY <1>3, <1>5, <1>6

\* The access of n bytes at e that began in s ended in m and reached what it should.
Done(s, e, n, write, user, m) ==
    /\ Sound(m)
    /\ Claimed(e, n, write, user) => m.cells = s.cells \cup Meant(e, n, write, user)

\* An access to two pages that does not trap.
LEMMA CrossingFast ==
  ASSUME MapOK, NEW s, Sound(s), s.v = view, NEW e \in Nat, Page(e) \in Pages, Page(e + 1) \in Pages,
         NEW write \in BOOLEAN, NEW user \in BOOLEAN, FastPath(s.v, e, 2, write, user),
         NEW m, m = Unchecked(s, e, 2)
  PROVE  Done(s, e, 2, write, user, m)
<1> DEFINE c == s.cells \cup {Window(s.v, b) : b \in Span(e, 2)}
<1>1. m = [s EXCEPT !.cells = c]
  BY DEF Unchecked
<1>2. s = [t |-> s.t, dirty |-> s.dirty, v |-> s.v, cells |-> s.cells, filled |-> s.filled] /\ tables \in PageTables
  BY DEF Sound, Walked
<1> HIDE DEF c
<1>3. m = [t |-> s.t, dirty |-> s.dirty, v |-> s.v, cells |-> c, filled |-> s.filled]
  BY ONLY <1>1, <1>2
<1>4. Sound(m) /\ m.cells = c
  BY ONLY Sound(s), <1>3, CellsKeep
<1>5. Span(e, 2) = {e, e + 1} /\ e + 1 \in Nat /\ e + 2 - 1 = e + 1
  BY SpanOfOne
<1>6. ASSUME Claimed(e, 2, write, user) PROVE c = s.cells \cup Meant(e, 2, write, user)
  <2>1. ASSUME NEW b \in {e, e + 1}
        PROVE  /\ Window(s.v, b) = Cell(PhysOf(b)) /\ Cell(PhysOf(b)) # None
               /\ ~Faults(cpu, tables, Page(b), write, user)
               /\ write => phys.map[Page(PhysOf(b))] # "rom"
    <3>1. b \in Nat /\ Page(b) \in Pages /\ b \in Span(e, 2)
      BY <1>5
    <3>2. Page(PhysOf(b)) = FrameOf(tables, Page(b))
      BY <1>2, <3>1, PhysOfByte
    <3>3. /\ Page(b) \notin ghost.stale \ s.filled /\ Exposed(s.v, Page(b))
          /\ ~(write /\ user /\ ~cpu.wp)
      BY <1>6, <3>1, <3>2 DEF Claimed, Exposed
    <3>4. ~ShouldTrap(s.v, Page(b), write, user) /\ "access" \notin s.v.meta[Page(b)]
      BY <1>5 DEF FastPath, ShouldTrap
    <3> QED BY <3>1, <3>2, <3>3, <3>4, FastByte
  <2>2. ~(\E b \in Span(e, 2) : Faults(cpu, tables, Page(b), write, user))
    BY <1>5, <2>1
  <2>3. {b2 \in Span(e, 2) : write => phys.map[Page(PhysOf(b2))] # "rom" /\ Cell(PhysOf(b2)) # None} = Span(e, 2)
    BY <1>5, <2>1
  <2>4. Meant(e, 2, write, user) = {Cell(PhysOf(b)) : b \in Span(e, 2)}
    BY <2>2, <2>3 DEF Meant
  <2>5. {Window(s.v, b) : b \in Span(e, 2)} = {Cell(PhysOf(b)) : b \in Span(e, 2)}
    BY <1>5, <2>1
  <2> QED BY <2>4, <2>5 DEF c
<1> QED BY <1>4, <1>6 DEF Done

\* The cells an access reached, of which a fault leaves none.
Outcome(r) == IF r.fault THEN {} ELSE r.s.cells

LEMMA ReadResultKeeps ==
  ASSUME MapOK, Threaded(tables, phys.dirty, view, ghost.stale),
         NEW a, NEW n, InMemory(a, n), NEW user \in BOOLEAN, NEW r, r = ReadResult(Start, a, n, user)
  PROVE  /\ Sound(r.s)
         /\ Claimed(a, n, FALSE, user) => Outcome(r) = Meant(a, n, FALSE, user)
<1>1. /\ a \in Nat /\ n \in Nat /\ n >= 1 /\ Page(a) \in Pages
      /\ ~Crosses(a, n) => Page(a + n - 1) = Page(a)
      /\ Crosses(a, n) => n = 2 /\ Page(a + 1) \in Pages
  BY DEF InMemory
<1>2. Sound(Start) /\ Start.v = view /\ Start.cells = {} /\ tables \in PageTables
  BY StartIsSound
<1>3. CASE ~Crosses(a, n)
  <2>1. r = ReadInPage(Start, a, n, user)
    BY <1>3 DEF ReadResult
  <2>2. ReadDone(Start, a, n, user, r)
    <3>1. Page(a + n - 1) = Page(a) /\ n >= 1 /\ a \in Nat /\ n \in Nat /\ Page(a) \in Pages
      BY <1>1, <1>3
    <3> QED BY ONLY MapOK, <1>2, <3>1, user \in BOOLEAN, <2>1, ReadInPageKeeps
  <2>3. \A w \in BOOLEAN : ~w =>
           /\ Claimed(a, n, w, user) => ClaimedPage(view, Page(a))
           /\ Faults(cpu, tables, Page(a), w, user) => Meant(a, n, w, user) = {}
           /\ ~Faults(cpu, tables, Page(a), w, user) => Meant(a, n, w, user) = Reached(a, n)
    BY <1>1, <1>2, <1>3, MeantInPage DEF Reached
  <2>4. /\ Claimed(a, n, FALSE, user) => ClaimedPage(view, Page(a))
        /\ ReadFaults(Page(a), user) => Meant(a, n, FALSE, user) = {}
        /\ ~ReadFaults(Page(a), user) =>
              Meant(a, n, FALSE, user) = Reached(a, n)
    BY <2>3 DEF ReadFaults
  <2> QED BY <1>2, <2>2, <2>4 DEF Outcome, ReadDone
<1>4. CASE Crosses(a, n) /\ FastPath(view, a, n, FALSE, user)
  <2> DEFINE m == Unchecked(Start, a, 2)
  <2>1. n = 2 /\ r = ReadInPage(Start, a, 2, user)
    BY <1>1, <1>2, <1>4 DEF ReadResult
  <2>2. r = [fault |-> FALSE, s |-> m]
    BY <1>1, <1>2, <1>4, <2>1 DEF ReadInPage
  <2>3. \A w \in BOOLEAN : w = FALSE /\ FastPath(Start.v, a, 2, w, user) => Done(Start, a, 2, w, user, m)
    <3>1. m = Unchecked(Start, a, 2)
      OBVIOUS
    <3> HIDE DEF m
    <3>2. Page(a + 1) \in Pages
      BY <1>1, <1>4
    <3> TAKE w \in BOOLEAN
    <3> SUFFICES ASSUME w = FALSE, FastPath(Start.v, a, 2, w, user)
                 PROVE  Done(Start, a, 2, w, user, m)
      OBVIOUS
    <3> QED BY ONLY MapOK, <1>1, <1>2, <3>1, <3>2, w \in BOOLEAN, user \in BOOLEAN,
                    FastPath(Start.v, a, 2, w, user), CrossingFast
  <2> HIDE DEF m
  <2>4. r.s = m /\ r.fault = FALSE
    BY ONLY <2>2
  <2>5. FastPath(Start.v, a, 2, FALSE, user)
    BY <1>2, <1>4, <2>1
  <2>6. /\ Sound(m)
        /\ Claimed(a, 2, FALSE, user) => m.cells = Start.cells \cup Meant(a, 2, FALSE, user)
    BY <2>3, <2>5 DEF Done
  <2> QED BY <1>2, <2>1, <2>4, <2>6 DEF Outcome
<1>5. CASE Crosses(a, n) /\ ~FastPath(view, a, n, FALSE, user)
  <2> DEFINE first  == ReadInPage(Start, a, 1, user)
             second == ReadInPage(first.s, a + 1, 1, user)
  <2>1. r = IF first.fault THEN first ELSE second
    BY <1>2, <1>5 DEF ReadResult
  <2>2. n = 2 /\ a + 1 \in Nat /\ a + 1 - 1 = a /\ (a + 1) + 1 - 1 = a + 1 /\ Page(a + 1) \in Pages
    BY <1>1, <1>5
  <2>3. Span(a, 1) = {a} /\ Span(a + 1, 1) = {a + 1} /\ Span(a, 2) = {a, a + 1}
    BY <1>1, <2>2, SpanOfOne
  <2>4. /\ Sound(first.s) /\ first.fault \in BOOLEAN
        /\ ClaimedPage(view, Page(a)) => (first.fault <=> ReadFaults(Page(a), user))
        /\ ClaimedPage(view, Page(a)) => (~first.fault => first.s.cells = Reached(a, 1))
        /\ ~first.fault => SameElsewhere(view, first.s.v, Page(a))
    <3>1. first = ReadInPage(Start, a, 1, user)
      OBVIOUS
    <3> HIDE DEF first
    <3>3. 1 \in Nat /\ 1 >= 1 /\ Page(a + 1 - 1) = Page(a) /\ a \in Nat /\ Page(a) \in Pages
      BY <1>1, <2>2
    <3>2. ReadDone(Start, a, 1, user, first)
      BY ONLY MapOK, <1>2, <3>3, user \in BOOLEAN, <3>1, ReadInPageKeeps
    <3> QED BY <1>2, <3>2 DEF ReadDone
  <2>5. second = ReadInPage(first.s, a + 1, 1, user)
    OBVIOUS
  <2> HIDE DEF first, second
  <2>6. /\ Sound(second.s) /\ second.fault \in BOOLEAN
        /\ ClaimedPage(first.s.v, Page(a + 1)) => (second.fault <=> ReadFaults(Page(a + 1), user))
        /\ ClaimedPage(first.s.v, Page(a + 1)) => (~second.fault => second.s.cells = first.s.cells \cup Reached(a + 1, 1))
    <3>1. ReadDone(first.s, a + 1, 1, user, second)
      BY ONLY MapOK, <2>2, <2>4, <2>5, user \in BOOLEAN, ReadInPageKeeps
    <3> QED BY <3>1 DEF ReadDone
  <2>7. Claimed(a, n, FALSE, user) => ClaimedPage(view, Page(a)) /\ ClaimedPage(view, Page(a + 1))
    <3>1. Page(PhysOf(a)) = FrameOf(tables, Page(a)) /\ Page(PhysOf(a + 1)) = FrameOf(tables, Page(a + 1))
      BY <1>1, <1>2, <2>2, PhysOfByte
    <3>2. a \in Span(a, n) /\ a + 1 \in Span(a, n)
      BY <2>2, <2>3
    <3> QED BY <3>1, <3>2 DEF Claimed, ClaimedPage, Exposed
  <2>13. ~first.fault /\ ClaimedPage(view, Page(a + 1)) => ClaimedPage(first.s.v, Page(a + 1))
    <3>1. Page(a + 1) # Page(a)
      BY <1>1, <1>5, <2>2 DEF Crosses
    <3> DEFINE q == Page(a + 1)
    <3> HIDE DEF q
    <3>2. q \in Pages /\ q # Page(a)
      BY <2>2, <3>1 DEF q
    <3>3. ~first.fault /\ ClaimedPage(view, q) => ClaimedPage(first.s.v, q)
      BY <2>4, <3>2 DEF ClaimedPage, Exposed, LeftBehind, SameElsewhere
    <3> QED BY <3>3 DEF q
  <2>8. (\E b \in Span(a, n) : Faults(cpu, tables, Page(b), FALSE, user)) <=>
           ReadFaults(Page(a), user) \/ ReadFaults(Page(a + 1), user)
    BY <2>2, <2>3 DEF ReadFaults
  <2>9. Meant(a, n, FALSE, user) =
           IF ReadFaults(Page(a), user) \/ ReadFaults(Page(a + 1), user)
           THEN {} ELSE {Cell(PhysOf(a)), Cell(PhysOf(a + 1))}
    <3>1. {b2 \in Span(a, n) : FALSE => phys.map[Page(PhysOf(b2))] # "rom" /\ Cell(PhysOf(b2)) # None} = {a, a + 1}
      BY <2>2, <2>3
    <3> QED BY <2>2, <2>3, <2>8, <3>1 DEF Meant
  <2>10. /\ Reached(a, 1) = {Cell(PhysOf(a))}
         /\ Reached(a + 1, 1) = {Cell(PhysOf(a + 1))}
    BY <2>3 DEF Reached
  <2>11. CASE first.fault
    <3>1. r = first
      BY <2>1, <2>11
    <3> QED BY <2>4, <2>7, <2>9, <2>11, <3>1 DEF Outcome
  <2>12. CASE ~first.fault
    <3>1. r = second
      BY <2>1, <2>12
    <3>2. CASE second.fault
      BY <2>6, <2>7, <2>9, <2>12, <2>13, <3>1, <3>2 DEF Outcome
    <3>3. CASE ~second.fault
      <4>1. ASSUME Claimed(a, n, FALSE, user)
            PROVE  second.s.cells = {Cell(PhysOf(a))} \cup {Cell(PhysOf(a + 1))}
                   /\ ~ReadFaults(Page(a), user) /\ ~ReadFaults(Page(a + 1), user)
        BY <2>4, <2>6, <2>7, <2>10, <2>12, <2>13, <3>3, <4>1
      <4>2. Outcome(r) = second.s.cells
        BY <3>1, <3>3 DEF Outcome
      <4> QED BY <2>6, <2>9, <3>1, <4>1, <4>2
    <3> QED BY <2>6, <3>2, <3>3
  <2> QED BY <2>4, <2>11, <2>12
<1> QED BY <1>3, <1>4, <1>5

-----------------------------------------------------------------------------
(* Writes.                                                                 *)

\* What Prepare leaves of a page that does not fault.
Prepared(s, e, r) ==
    /\ Sound(r.s) /\ r.fault \in BOOLEAN
    /\ ~r.fault =>
         /\ s.dirty \subseteq r.s.dirty /\ Walked(s.t, r.s.t)
         /\ "emu" \in DOMAIN r => Resolved(r.s, r, e) /\ r.writable /\ Shaped(r)

LEMMA PrepareKeeps ==
  ASSUME MapOK, NEW s, Sound(s), NEW e \in Nat, Page(e) \in Pages, NEW user \in BOOLEAN,
         NEW r, r = Prepare(s, e, user)
  PROVE  Prepared(s, e, r)
<1>1. CASE ~ShouldTrap(s.v, Page(e), TRUE, user)
  <2>1. r = [fault |-> FALSE, s |-> s]
    BY <1>1 DEF Prepare
  <2>2. r.s = s /\ r.fault = FALSE /\ "emu" \notin DOMAIN r
    BY ONLY <2>1
  <2>3. Walked(s.t, s.t)
    BY WalkedReflexive DEF Sound, Threaded
  <2> QED BY <2>2, <2>3 DEF Prepared
<1>2. CASE ShouldTrap(s.v, Page(e), TRUE, user)
  <2>1. r = Resolve(s, e, TRUE, user)
    BY <1>2 DEF Prepare
  <2>2. ResolveDone(s, e, TRUE, user, r)
    BY <2>1, ResolveKeeps
  <2> QED BY <2>2 DEF ResolveDone, Succeeded, Prepared
<1> QED BY <1>1, <1>2

\* An access that is resolved holds for the other bytes of its page.
LEMMA ResolvedWithOffset ==
  ASSUME tables \in PageTables, NEW s, NEW acc, NEW e, Resolved(s, acc, e), Shaped(acc),
         NEW i \in {0, 1}, Page(e + i) = Page(e),
         NEW o, o = WithOffset(acc, i)
  PROVE  Resolved(s, o, e + i) /\ o.writable = acc.writable
<1>1. /\ o.emu = acc.emu + i /\ o.phys = acc.phys + i
      /\ o.writable = acc.writable /\ o.needsMark = acc.needsMark /\ o.user = acc.user
  <2>1. o = [fault |-> acc.fault, s |-> acc.s, emu |-> acc.emu + i, phys |-> acc.phys + i, writable |-> acc.writable,
             needsMark |-> acc.needsMark, user |-> acc.user]
    BY DEF WithOffset, Shaped
  <2> QED BY ONLY <2>1
<1>2. e \in Nat /\ i \in Nat /\ e + i \in Nat /\ acc.emu = e
  BY DEF Resolved
<1>3. Offset(e + i) = Offset(e) + i /\ Offset(e) \in Nat
  BY <1>2, SamePage, PagesOfBytes, FramesAreNaturals
<1>4. FrameOf(tables, Page(e)) * PageSize \in Nat
  <2>1. FrameOf(tables, Page(e)) \in Frames
    BY FrameIsFrame DEF Resolved
  <2>2. \A x, y \in Nat : x * y \in Nat
    OBVIOUS
  <2> QED BY <2>1, <2>2, FramesAreNaturals
<1>5. o.phys = FrameOf(tables, Page(e + i)) * PageSize + Offset(e + i)
  <2>1. acc.phys = FrameOf(tables, Page(e)) * PageSize + Offset(e)
    BY DEF Resolved
  <2> HIDE DEF FrameOf, Page, Offset
  <2> QED BY <1>1, <1>2, <1>3, <1>4, <2>1
<1> QED BY <1>1, <1>2, <1>5 DEF Resolved

\* A byte of a split write.
LEMMA WriteByteKeeps ==
  ASSUME MapOK, NEW s, Sound(s), NEW acc, NEW e \in Nat,
         "emu" \in DOMAIN acc => Resolved(s, acc, e) /\ acc.writable /\ Shaped(acc),
         NEW i \in {0, 1}, Page(e + i) = Page(e), NEW a, NEW advice, NEW m, m = WriteByte(s, acc, i, a, advice)
  PROVE  Sound(m) /\ s.dirty \subseteq m.dirty /\ m.t = s.t
<1>1. CASE "emu" \notin DOMAIN acc
  <2> DEFINE c == s.cells \cup {Window(s.v, b) : b \in Span(a + i, 1)}
  <2>1. m = [s EXCEPT !.cells = c]
    BY <1>1 DEF WriteByte, Unchecked
  <2>2. s = [t |-> s.t, dirty |-> s.dirty, v |-> s.v, cells |-> s.cells, filled |-> s.filled]
    BY DEF Sound
  <2> HIDE DEF c
  <2>3. m = [t |-> s.t, dirty |-> s.dirty, v |-> s.v, cells |-> c, filled |-> s.filled]
    BY ONLY <2>1, <2>2
  <2> QED BY ONLY Sound(s), <2>3, CellsKeep
<1>2. CASE "emu" \in DOMAIN acc
  <2> DEFINE o == WithOffset(acc, i)
  <2>1. m = TrappedWrite(s, o, 1, a + i, advice)
    BY <1>2 DEF WriteByte
  <2>2. o = WithOffset(acc, i)
    OBVIOUS
  <2> HIDE DEF o
  <2>3. Resolved(s, o, e + i) /\ o.writable
    BY <1>2, <2>2, ResolvedWithOffset DEF Sound, Walked
  <2>4. 1 \in Nat /\ 1 >= 1
    OBVIOUS
  <2>5. TrappedWriteDone(s, e + i, 1, a + i, m)
    BY ONLY MapOK, Sound(s), <2>1, <2>3, <2>4, TrappedWriteKeeps
  <2> QED BY <2>5 DEF TrappedWriteDone
<1> QED BY <1>1, <1>2

LEMMA NextPage ==
  ASSUME NEW a \in Nat
  PROVE  /\ (Page(a) + 1) * PageSize \in Nat
         /\ Page((Page(a) + 1) * PageSize) = Page(a) + 1
         /\ Page((Page(a) + 1) * PageSize + 1) = Page((Page(a) + 1) * PageSize)
<1>1. Page(a) + 1 \in Nat /\ PageSize \in Nat /\ 0 \in 0 .. PageSize - 1 /\ 1 \in 0 .. PageSize - 1
  BY PagesOfBytes, FramesAreNaturals
<1> DEFINE q == Page(a) + 1
<1> HIDE DEF q
<1>2. Page(q * PageSize + 0) = q /\ Page(q * PageSize + 1) = q /\ q * PageSize \in Nat
  BY <1>1, BytesOfPages DEF q
<1>3. q * PageSize + 0 = q * PageSize
  BY <1>2
<1> QED BY <1>2, <1>3 DEF q

\* A write that is split and traps: nothing is claimed of where its bytes went.
LEMMA SplitWriteKeeps ==
  ASSUME MapOK, NEW s, Sound(s), NEW a \in Nat, Page(a) \in Pages, Page(a) + 1 \in Pages,
         NEW user \in BOOLEAN, NEW n, Crosses(a, n), ~FastPath(s.v, a, n, TRUE, user),
         NEW advice, NEW r, r = WriteResult(s, a, n, user, advice)
  PROVE  Sound(r.s)
<1> DEFINE e == (Page(a) + 1) * PageSize
           first == Prepare(s, a, user)
           second == Prepare(first.s, e, user)
           m1 == WriteByte(second.s, first, 0, a, advice[1])
           m2 == WriteByte(m1, second, 1, a, advice[2])
<1>1. r = IF first.fault THEN first
          ELSE IF second.fault THEN second
          ELSE [fault |-> FALSE, s |-> m2]
  BY DEF WriteResult
<1>2. Prepared(s, a, first)
  BY PrepareKeeps
<1>3. second = Prepare(first.s, e, user) /\ m1 = WriteByte(second.s, first, 0, a, advice[1])
      /\ m2 = WriteByte(m1, second, 1, a, advice[2])
  OBVIOUS
<1>4. e \in Nat /\ Page(e) \in Pages /\ Page(e + 1) = Page(e)
  BY NextPage
<1> HIDE DEF e, first, second, m1, m2
<1>5. Sound(first.s)
  BY <1>2 DEF Prepared
<1>6. Prepared(first.s, e, second)
  BY ONLY MapOK, user \in BOOLEAN, <1>3, <1>4, <1>5, PrepareKeeps
<1>7. Sound(second.s)
  BY <1>6 DEF Prepared
<1>8. ASSUME ~first.fault, ~second.fault PROVE Sound(m2)
  <2>1. "emu" \in DOMAIN first => Resolved(first.s, first, a) /\ first.writable /\ Shaped(first)
    BY <1>2, <1>8 DEF Prepared
  <2>2. /\ first.s.dirty \subseteq second.s.dirty /\ Walked(first.s.t, second.s.t)
        /\ "emu" \in DOMAIN second => Resolved(second.s, second, e) /\ second.writable /\ Shaped(second)
    BY <1>6, <1>8 DEF Prepared
  <2>3. "emu" \in DOMAIN first => Resolved(second.s, first, a) /\ first.writable /\ Shaped(first)
    BY <2>1, <2>2, ResolvedLater
  <2>4. a + 0 = a /\ 0 \in {0, 1} /\ 1 \in {0, 1}
    OBVIOUS
  <2>5. Sound(m1) /\ second.s.dirty \subseteq m1.dirty /\ m1.t = second.s.t
    <3>1. Page(a + 0) = Page(a)
      BY <2>4
    <3> QED BY ONLY MapOK, a \in Nat, <1>3, <1>7, <2>3, <2>4, <3>1, WriteByteKeeps
  <2>6. Walked(second.s.t, m1.t)
    BY <1>7, <2>5, WalkedReflexive DEF Sound, Threaded
  <2>7. "emu" \in DOMAIN second => Resolved(m1, second, e) /\ second.writable /\ Shaped(second)
    BY <2>2, <2>5, <2>6, ResolvedLater
  <2> QED BY ONLY MapOK, <1>3, <1>4, <2>4, <2>5, <2>7, WriteByteKeeps
<1>9. [fault |-> FALSE, s |-> m2].s = m2
  OBVIOUS
<1> QED BY <1>1, <1>5, <1>7, <1>8, <1>9

LEMMA WriteResultKeeps ==
  ASSUME MapOK, Threaded(tables, phys.dirty, view, ghost.stale),
         NEW a, NEW n, InMemory(a, n), NEW user \in BOOLEAN, NEW advice,
         NEW r, r = WriteResult(Start, a, n, user, advice)
  PROVE  /\ Sound(r.s)
         /\ Claimed(a, n, TRUE, user) /\ ~(Crosses(a, n) /\ ~FastPath(view, a, n, TRUE, user)) =>
               Outcome(r) = Meant(a, n, TRUE, user)
<1>1. /\ a \in Nat /\ n \in Nat /\ n >= 1 /\ Page(a) \in Pages
      /\ ~Crosses(a, n) => Page(a + n - 1) = Page(a)
      /\ Crosses(a, n) => n = 2 /\ Page(a + 1) \in Pages /\ Page(a) + 1 \in Pages
  BY DEF InMemory
<1>2. Sound(Start) /\ Start.v = view /\ Start.cells = {} /\ tables \in PageTables
  BY StartIsSound
<1>3. CASE ~Crosses(a, n)
  <2>1. \A w \in BOOLEAN : w =>
           /\ Claimed(a, n, w, user) => ClaimedPage(view, Page(a)) /\ ~(w /\ user /\ ~cpu.wp)
           /\ Faults(cpu, tables, Page(a), w, user) => Meant(a, n, w, user) = {}
           /\ ~Faults(cpu, tables, Page(a), w, user) => Meant(a, n, w, user) = Written(a, n)
    BY <1>1, <1>2, <1>3, MeantInPage
  <2>2. /\ Claimed(a, n, TRUE, user) => ClaimedPage(view, Page(a)) /\ ~(user /\ ~cpu.wp)
        /\ Faults(cpu, tables, Page(a), TRUE, user) => Meant(a, n, TRUE, user) = {}
        /\ ~Faults(cpu, tables, Page(a), TRUE, user) => Meant(a, n, TRUE, user) = Written(a, n)
    BY <2>1
  <2>3. CASE FastPath(view, a, n, TRUE, user)
    <3> DEFINE m == Unchecked(Start, a, n)
    <3>1. r = [fault |-> FALSE, s |-> m]
      BY <1>2, <2>3 DEF WriteResult
    <3>2. \A w \in BOOLEAN : w = TRUE => FastDone(Start, a, n, w, user, m)
      <4>1. m = Unchecked(Start, a, n)
        OBVIOUS
      <4> HIDE DEF m
      <4> TAKE w \in BOOLEAN
      <4> SUFFICES ASSUME w = TRUE, FastPath(Start.v, a, n, w, user) PROVE FastDone(Start, a, n, w, user, m)
        BY <1>2, <2>3
      <4>2. Page(a + n - 1) = Page(a)
        BY <1>1, <1>3
      <4> QED BY ONLY MapOK, <1>1, <1>2, <4>1, <4>2, w \in BOOLEAN, user \in BOOLEAN,
                      FastPath(Start.v, a, n, w, user), FastPathKeeps
    <3> HIDE DEF m
    <3>3. r.s = m /\ r.fault = FALSE
      BY ONLY <3>1
    <3>4. /\ Sound(m)
          /\ ClaimedPage(view, Page(a)) /\ ~(user /\ ~cpu.wp) =>
               ~Faults(cpu, tables, Page(a), TRUE, user) /\ m.cells = Written(a, n)
      BY <1>2, <3>2 DEF FastDone
    <3> QED BY <2>2, <3>3, <3>4 DEF Outcome
  <2>4. CASE ~FastPath(view, a, n, TRUE, user)
    <3> DEFINE first == Resolve(Start, a, TRUE, user)
               m == TrappedWrite(first.s, first, n, a, advice[1])
    <3>1. ShouldTrap(view, Page(a), TRUE, user)
      BY <1>1, <1>3, <2>4 DEF FastPath
    <3>2. Prepare(Start, a, user) = first
      BY <1>2, <3>1 DEF Prepare
    <3>3. r = IF first.fault THEN first ELSE [fault |-> FALSE, s |-> m]
      BY <1>2, <1>3, <2>4, <3>2 DEF WriteResult
    <3>4. ResolveDone(Start, a, TRUE, user, first)
      BY <1>1, <1>2, ResolveKeeps
    <3>5. m = TrappedWrite(first.s, first, n, a, advice[1])
      OBVIOUS
    <3> HIDE DEF first, m
    <3>6. CASE Faults(cpu, tables, Page(a), TRUE, user)
      <4>1. first.fault = TRUE /\ Sound(first.s)
        BY <3>4, <3>6 DEF ResolveDone
      <4> QED BY <2>2, <3>3, <3>6, <4>1 DEF Outcome
    <3>7. CASE ~Faults(cpu, tables, Page(a), TRUE, user)
      <4>1. /\ first.fault = FALSE /\ Sound(first.s) /\ Resolved(first.s, first, a) /\ first.writable
            /\ first.s.cells = Start.cells /\ first.s.v = Start.v
        BY <3>4, <3>7 DEF ResolveDone, Succeeded
      <4>2. TrappedWriteDone(first.s, a, n, a, m)
        BY ONLY MapOK, <1>1, <3>5, <4>1, TrappedWriteKeeps
      <4>3. r = [fault |-> FALSE, s |-> m]
        BY <3>3, <4>1
      <4>4. r.s = m /\ r.fault = FALSE
        BY ONLY <4>3
      <4>5. Sound(m) /\ (ClaimedPage(view, Page(a)) => m.cells = Start.cells \cup Written(a, n))
        BY <1>1, <1>2, <1>3, <4>1, <4>2 DEF TrappedWriteDone, ClaimedPage
      <4> QED BY <1>2, <2>2, <3>7, <4>4, <4>5 DEF Outcome
    <3> QED BY <3>6, <3>7
  <2> QED BY <2>3, <2>4
<1>4. CASE Crosses(a, n) /\ FastPath(view, a, n, TRUE, user)
  <2> DEFINE m == Unchecked(Start, a, 2)
  <2>1. n = 2 /\ r = [fault |-> FALSE, s |-> m]
    BY <1>1, <1>2, <1>4 DEF WriteResult
  <2>2. \A w \in BOOLEAN : w = TRUE /\ FastPath(Start.v, a, 2, w, user) => Done(Start, a, 2, w, user, m)
    <3>1. m = Unchecked(Start, a, 2)
      OBVIOUS
    <3> HIDE DEF m
    <3>2. Page(a + 1) \in Pages
      BY <1>1, <1>4
    <3> TAKE w \in BOOLEAN
    <3> SUFFICES ASSUME w = TRUE, FastPath(Start.v, a, 2, w, user)
                 PROVE  Done(Start, a, 2, w, user, m)
      OBVIOUS
    <3> QED BY ONLY MapOK, <1>1, <1>2, <3>1, <3>2, w \in BOOLEAN, user \in BOOLEAN,
                    FastPath(Start.v, a, 2, w, user), CrossingFast
  <2> HIDE DEF m
  <2>3. r.s = m /\ r.fault = FALSE
    BY ONLY <2>1
  <2>4. FastPath(Start.v, a, 2, TRUE, user)
    BY <1>2, <1>4, <2>1
  <2>5. /\ Sound(m)
        /\ Claimed(a, 2, TRUE, user) => m.cells = Start.cells \cup Meant(a, 2, TRUE, user)
    BY <2>2, <2>4 DEF Done
  <2> QED BY <1>2, <2>1, <2>3, <2>5 DEF Outcome
<1>5. CASE Crosses(a, n) /\ ~FastPath(view, a, n, TRUE, user)
  <2>1. ~FastPath(Start.v, a, n, TRUE, user)
    BY <1>2, <1>5
  <2>2. Sound(r.s)
    BY <1>1, <1>2, <1>5, <2>1, SplitWriteKeeps
  <2> QED BY <1>5, <2>2
<1> QED BY <1>3, <1>4, <1>5

-----------------------------------------------------------------------------
(* The specification.                                                      *)

\* The page tables, the dirty frames, the view of the pages and what is stale of it agree.
Pinned == Threaded(tables, phys.dirty, view, ghost.stale)

MemInv ==
    /\ cpu \in Cpus /\ edits \in Nat
    /\ phys = [map |-> phys.map, dirty |-> phys.dirty] /\ phys.map \in Maps
    /\ Pinned
    /\ AccessExact

\* A step that leaves the registers and the memory map alone.
LEMMA PinnedLater ==
  ASSUME cpu' = cpu, phys'.map = phys.map, Threaded(tables', phys'.dirty, view', ghost'.stale)
  PROVE  Pinned'
BY DEF Pinned, Threaded, PageFresh, PageTracked, FrameOf, ShownAt, LeftBehind, WindowOf, Backed

\* A step that makes every page trap.
LEMMA PinnedTrapped ==
  ASSUME tables' \in PageTables, phys'.dirty \subseteq Frames, ViewOK(view'),
         \A f \in phys'.dirty : phys'.map[f] \in {"default", "shm"},
         \A p \in Pages : view'.meta[p] = Traps
  PROVE  Pinned'
<1>1. \A p \in Pages : "access" \in view'.meta[p]
  BY DEF Traps
<1> QED BY <1>1 DEF Pinned, Threaded

\* A step that makes every page stale that can be accessed.
LEMMA PinnedStale ==
  ASSUME Pinned, cpu'.a20 = cpu.a20, phys' = phys, view' = view, tables' \in PageTables,
         ghost'.stale = ghost.stale \cup Filled(Pages)
  PROVE  Pinned'
<1>1. \A p \in Pages : "access" \notin view.meta[p] => p \in ghost'.stale
  BY DEF Filled
<1>2. /\ phys.dirty \subseteq Frames /\ ViewOK(view)
      /\ \A f \in phys.dirty : phys.map[f] \in {"default", "shm"}
  BY DEF Pinned, Threaded
<1>3. ASSUME NEW p \in Pages, "access" \notin view.meta[p], "write" \notin view.meta[p], cpu.a20
      PROVE  \E f \in phys.dirty : Backed(f) /\ ShownAt(view, p, f)
  BY <1>3 DEF Pinned, Threaded, PageTracked
<1>4. \A f, p : (Backed(f)' <=> Backed(f)) /\ (ShownAt(view, p, f)' <=> ShownAt(view, p, f))
  BY DEF Backed, ShownAt, LeftBehind, WindowOf
<1> QED BY <1>1, <1>2, <1>3, <1>4 DEF Pinned, Threaded, PageTracked

\* The registers and the map of a step that changes neither.
LEMMA SameMachine ==
  ASSUME MemInv, UNCHANGED cpu, NEW d, phys' = [phys EXCEPT !.dirty = d]
  PROVE  /\ cpu' \in Cpus /\ phys'.map = phys.map /\ phys'.dirty = d
         /\ phys' = [map |-> phys'.map, dirty |-> phys'.dirty] /\ phys'.map \in Maps
<1>1. phys = [map |-> phys.map, dirty |-> phys.dirty] /\ phys.map \in Maps /\ cpu \in Cpus
  BY DEF MemInv
<1>2. phys' = [map |-> phys.map, dirty |-> d]
  BY ONLY <1>1, phys' = [phys EXCEPT !.dirty = d]
<1> QED BY <1>1, <1>2

LEMMA MapIsOK ==
  ASSUME MemInv
  PROVE  MapOK
BY MemoryAssumption DEF MemInv, MapOK, Kinds

LEMMA MemInitHolds ==
  ASSUME MemInit
  PROVE  MemInv
<1>1. PICK b \in Boots : cpu = b.cpu /\ tables = b.tables /\ phys = [map |-> b.map, dirty |-> {}]
  BY DEF MemInit
<1>2. b.cpu \in Cpus /\ b.tables \in PageTables /\ b.map \in Maps
  BY MemoryAssumption DEF Cpus
<1>3. phys.map = b.map /\ phys.dirty = {}
  BY <1>1
<1>4. /\ view.meta = [p \in Pages |-> Traps] /\ view.modified = {}
      /\ view.window = [p \in Pages |-> None] /\ view.current = [p \in Pages |-> None]
      /\ view = [meta |-> view.meta, modified |-> view.modified, window |-> view.window, current |-> view.current]
  BY DEF MemInit
<1>5. view \in Views
  <2>1. /\ view.meta \in [Pages -> SUBSET Traps] /\ view.modified \in SUBSET Nat
        /\ view.window \in [Pages -> {None} \cup Shown] /\ view.current \in [Pages -> {None} \cup {<<n>> : n \in Nat}]
    BY <1>4
  <2> QED BY <1>4, <2>1 DEF Views
<1>6. ViewOK(view) /\ \A p \in Pages : "access" \in view.meta[p]
  BY <1>4, <1>5 DEF ViewOK, Traps
<1>7. Pinned
  BY <1>1, <1>2, <1>3, <1>6 DEF Pinned, Threaded
<1>8. AccessExact /\ edits \in Nat
  BY DEF MemInit, AccessExact
<1> QED BY <1>1, <1>2, <1>3, <1>7, <1>8 DEF MemInv

\* An access that ends leaves the invariant.
LEMMA FinishKeeps ==
  ASSUME MemInv, NEW a, NEW n, NEW write \in BOOLEAN, NEW user, NEW r, Sound(r.s), Finish(r, a, n, write, user),
         Claimed(a, n, write, user) /\ ~(write /\ Crosses(a, n) /\ ~FastPath(view, a, n, TRUE, user)) =>
            Outcome(r) = Meant(a, n, write, user)
  PROVE  MemInv'
<1>1. /\ UNCHANGED <<cpu, edits>> /\ tables' = r.s.t /\ view' = r.s.v
      /\ phys' = [phys EXCEPT !.dirty = r.s.dirty]
      /\ ghost'.stale = ghost.stale \ r.s.filled
      /\ ghost'.stray = IF Claimed(a, n, write, user) THEN Difference(Outcome(r), Meant(a, n, write, user)) ELSE {}
      /\ ghost'.split = (write /\ Crosses(a, n) /\ ~FastPath(view, a, n, TRUE, user))
  BY DEF Finish, Outcome
<1> DEFINE d == r.s.dirty
<1>2. phys' = [phys EXCEPT !.dirty = d]
  BY <1>1
<1> HIDE DEF d
<1>3. /\ cpu' \in Cpus /\ phys'.map = phys.map /\ phys'.dirty = d
      /\ phys' = [map |-> phys'.map, dirty |-> phys'.dirty] /\ phys'.map \in Maps
  BY <1>1, <1>2, SameMachine
<1>4. Threaded(tables', phys'.dirty, view', ghost'.stale)
  BY <1>1, <1>3 DEF Sound, d
<1>5. Pinned'
  BY <1>1, <1>3, <1>4, PinnedLater
<1>6. \A S : Difference(S, S) = {}
  BY DEF Difference
<1>7. AccessExact'
  BY <1>1, <1>6 DEF AccessExact
<1> QED BY <1>1, <1>3, <1>5, <1>7 DEF MemInv

LEMMA AccessKeeps ==
  ASSUME MemInv, NEW x \in Accesses, NEW user \in BOOLEAN,
         Read(x[1], x[2], user) \/ \E advice : Write(x[1], x[2], user, advice)
  PROVE  MemInv'
<1> DEFINE a == x[1]
           n == x[2]
<1>1. InMemory(a, n)
  BY AccessesInMemory
<1>2. MapOK /\ Threaded(tables, phys.dirty, view, ghost.stale)
  BY MapIsOK DEF MemInv, Pinned
<1> HIDE DEF a, n
<1>3. ASSUME Read(a, n, user) PROVE MemInv'
  <2> DEFINE r == ReadResult(Start, a, n, user)
  <2>1. r = ReadResult(Start, a, n, user) /\ Finish(r, a, n, FALSE, user)
    BY <1>3 DEF Read
  <2> HIDE DEF r
  <2>2. /\ Sound(r.s)
        /\ Claimed(a, n, FALSE, user) => Outcome(r) = Meant(a, n, FALSE, user)
    BY ONLY <1>1, <1>2, user \in BOOLEAN, <2>1, ReadResultKeeps
  <2>3. \A w \in BOOLEAN : w = FALSE => MemInv'
    <3> TAKE w \in BOOLEAN
    <3> SUFFICES ASSUME w = FALSE, Finish(r, a, n, w, user) PROVE MemInv'
      BY <2>1
    <3>1. Claimed(a, n, w, user) /\ ~(w /\ Crosses(a, n) /\ ~FastPath(view, a, n, TRUE, user)) =>
             Outcome(r) = Meant(a, n, w, user)
      BY <2>2
    <3> QED BY ONLY MemInv, w \in BOOLEAN, <2>2, Finish(r, a, n, w, user), <3>1, FinishKeeps
  <2> QED BY <2>3
<1>4. ASSUME NEW advice, Write(a, n, user, advice) PROVE MemInv'
  <2> DEFINE r == WriteResult(Start, a, n, user, advice)
  <2>1. r = WriteResult(Start, a, n, user, advice) /\ Finish(r, a, n, TRUE, user)
    BY <1>4 DEF Write
  <2> HIDE DEF r
  <2>2. /\ Sound(r.s)
        /\ Claimed(a, n, TRUE, user) /\ ~(Crosses(a, n) /\ ~FastPath(view, a, n, TRUE, user)) =>
              Outcome(r) = Meant(a, n, TRUE, user)
    BY ONLY <1>1, <1>2, user \in BOOLEAN, <2>1, WriteResultKeeps
  <2>3. \A w \in BOOLEAN : w = TRUE => MemInv'
    <3> TAKE w \in BOOLEAN
    <3> SUFFICES ASSUME w = TRUE, Finish(r, a, n, w, user) PROVE MemInv'
      BY <2>1
    <3>1. Claimed(a, n, w, user) /\ ~(w /\ Crosses(a, n) /\ ~FastPath(view, a, n, TRUE, user)) =>
             Outcome(r) = Meant(a, n, w, user)
      BY <2>2
    <3> QED BY ONLY MemInv, w \in BOOLEAN, <2>2, Finish(r, a, n, w, user), <3>1, FinishKeeps
  <2> QED BY <2>3
<1> QED BY <1>3, <1>4 DEF a, n

LEMMA WriteLeafKeeps ==
  ASSUME MemInv, NEW p \in Pages, NEW l \in Leaves, WriteLeaf(p, l)
  PROVE  MemInv'
<1>1. /\ UNCHANGED <<cpu, phys, view>> /\ edits' = edits + 1
      /\ tables' = [tables EXCEPT !.leaf[p] = l]
      /\ ghost'.stale = ghost.stale \cup Filled({p}) /\ ghost'.stray = {}
  BY DEF WriteLeaf, Count, Settle
<1>2. tables \in PageTables /\ l \in LeafEntries
  BY MemoryAssumption DEF MemInv, Pinned, Threaded
<1> DEFINE k == [tables.leaf EXCEPT ![p] = l]
<1>3. k \in [Pages -> LeafEntries] /\ \A q \in Pages : q # p => k[q] = tables.leaf[q]
  BY <1>2 DEF PageTables
<1>4. tables' = [tables EXCEPT !.leaf = k]
  BY <1>1
<1> HIDE DEF k
<1>5. tables = [dir |-> tables.dir, leaf |-> tables.leaf] /\ tables.dir \in DirEntries
  BY <1>2 DEF PageTables
<1>6. tables' = [dir |-> tables.dir, leaf |-> k]
  BY ONLY <1>4, <1>5
<1>7. tables' \in PageTables /\ tables'.dir = tables.dir /\ tables'.leaf = k
  BY <1>3, <1>5, <1>6 DEF PageTables
<1>8. Threaded(tables', phys.dirty, view, ghost'.stale)
  <2>1. /\ phys.dirty \subseteq Frames /\ ViewOK(view)
        /\ \A f \in phys.dirty : phys.map[f] \in {"default", "shm"}
    BY DEF MemInv, Pinned, Threaded
  <2>2. ASSUME NEW q \in Pages, "access" \notin view.meta[q]
        PROVE  /\ q \notin ghost'.stale => PageFresh(tables', view, q)
               /\ PageTracked(tables', phys.dirty, view, ghost'.stale, q)
    <3>1. /\ q \notin ghost.stale => PageFresh(tables, view, q)
          /\ PageTracked(tables, phys.dirty, view, ghost.stale, q)
      BY <2>2 DEF MemInv, Pinned, Threaded
    <3>2. CASE q = p
      <4>1. q \in ghost'.stale
        BY <1>1, <2>2, <3>2 DEF Filled
      <4> QED BY <3>1, <4>1 DEF PageTracked
    <3>3. CASE q # p
      <4>1. /\ Mapped(cpu, tables', q) <=> Mapped(cpu, tables, q)
            /\ Writable(cpu, tables', q) <=> Writable(cpu, tables, q)
            /\ UserAccessible(cpu, tables', q) <=> UserAccessible(cpu, tables, q)
            /\ DirtyBit(cpu, tables', q) <=> DirtyBit(cpu, tables, q)
            /\ AccessedBit(cpu, tables', q) <=> AccessedBit(cpu, tables, q)
            /\ FrameOf(tables', q) = FrameOf(tables, q)
        BY <1>3, <1>7, <3>3
           DEF Mapped, DirPresent, Big, Writable, UserAccessible, DirtyBit, AccessedBit, FrameOf, Frame
      <4> QED BY <1>1, <3>1, <4>1 DEF PageFresh, PageTracked
    <3> QED BY <3>2, <3>3
  <2> QED BY <1>7, <2>1, <2>2 DEF Threaded
<1>9. Pinned'
  BY <1>1, <1>8, PinnedLater
<1> QED BY <1>1, <1>9 DEF MemInv, AccessExact

LEMMA WriteDirKeeps ==
  ASSUME MemInv, NEW d \in Dirs, WriteDir(d)
  PROVE  MemInv'
<1>1. /\ UNCHANGED <<cpu, phys, view>> /\ edits' = edits + 1
      /\ tables' = [tables EXCEPT !.dir = d]
      /\ ghost'.stale = ghost.stale \cup Filled(Pages) /\ ghost'.stray = {}
  BY DEF WriteDir, Count, Settle
<1>2. tables \in PageTables /\ d \in DirEntries
  BY MemoryAssumption DEF MemInv, Pinned, Threaded
<1>3. tables' \in PageTables
  BY <1>1, <1>2 DEF PageTables
<1>4. Pinned'
  BY <1>1, <1>3, PinnedStale DEF MemInv
<1> QED BY <1>1, <1>4 DEF MemInv, AccessExact

LEMMA InvalidatePageKeeps ==
  ASSUME MemInv, NEW p \in Pages, InvalidatePage(p)
  PROVE  MemInv'
<1> DEFINE m == SetMeta(view, p, Traps)
<1>1. /\ UNCHANGED <<cpu, tables, phys, edits>> /\ view' = m
      /\ ghost'.stale = ghost.stale \ {p} /\ ghost'.stray = {}
  BY DEF InvalidatePage, Settle
<1>2. /\ tables \in PageTables /\ phys.dirty \subseteq Frames /\ ViewOK(view)
      /\ \A f \in phys.dirty : phys.map[f] \in {"default", "shm"}
  BY DEF MemInv, Pinned, Threaded
<1>3. ViewOK(m) /\ m.meta = [view.meta EXCEPT ![p] = Traps] /\ m.window = view.window /\ m.current = view.current
  BY <1>2, SetMetaKeeps
<1> HIDE DEF m
<1>4. \A q \in Pages : m.meta[q] = IF q = p THEN Traps ELSE view.meta[q]
  BY <1>2, <1>3 DEF ViewOK, Views
<1>5. Threaded(tables, phys.dirty, m, ghost.stale \ {p})
  <2>1. ASSUME NEW q \in Pages, "access" \notin m.meta[q]
        PROVE  /\ q \notin ghost.stale \ {p} => PageFresh(tables, m, q)
               /\ PageTracked(tables, phys.dirty, m, ghost.stale \ {p}, q)
    <3>1. q # p /\ m.meta[q] = view.meta[q] /\ m.window[q] = view.window[q] /\ m.current[q] = view.current[q]
      BY <1>3, <1>4, <2>1 DEF Traps
    <3>2. /\ q \notin ghost.stale => PageFresh(tables, view, q)
          /\ PageTracked(tables, phys.dirty, view, ghost.stale, q)
      BY <2>1, <3>1 DEF MemInv, Pinned, Threaded
    <3> QED BY <3>1, <3>2 DEF PageFresh, PageTracked, ShownAt, LeftBehind
  <2> QED BY <1>2, <1>3, <2>1 DEF Threaded
<1>6. Pinned'
  BY <1>1, <1>5, PinnedLater
<1> QED BY <1>1, <1>6 DEF MemInv, AccessExact

LEMMA SetCr3Keeps ==
  ASSUME MemInv, SetCr3
  PROVE  MemInv'
<1>1. /\ UNCHANGED <<cpu, tables, phys, edits>> /\ view' = ClearMeta(view) /\ ghost'.stray = {}
  BY DEF SetCr3, InvalidateAll, Settle
<1>2. /\ tables \in PageTables /\ phys.dirty \subseteq Frames /\ ViewOK(view)
      /\ \A f \in phys.dirty : phys.map[f] \in {"default", "shm"}
  BY DEF MemInv, Pinned, Threaded
<1>3. Pinned'
  BY <1>1, <1>2, ClearReachesAll, PinnedTrapped
<1> QED BY <1>1, <1>3 DEF MemInv, AccessExact

LEMMA SetCrKeeps ==
  ASSUME MemInv, NEW r \in Crs, SetCr(r)
  PROVE  MemInv'
<1>1. /\ UNCHANGED <<tables, phys>> /\ edits' = edits + 1 /\ ghost'.stray = {}
      /\ cpu' = [cpu EXCEPT !.paging = r.paging, !.wp = r.wp, !.pse = r.pse, !.pae = r.pae]
      /\ \/ view' = ClearMeta(view)
         \/ view' = view /\ ghost'.stale = ghost.stale \cup Filled(Pages)
  BY DEF SetCr, Count, InvalidateAll, Settle
<1>2. /\ tables \in PageTables /\ phys.dirty \subseteq Frames /\ ViewOK(view) /\ cpu \in Cpus
      /\ \A f \in phys.dirty : phys.map[f] \in {"default", "shm"}
  BY DEF MemInv, Pinned, Threaded
<1>3. r.paging \in BOOLEAN /\ r.wp \in BOOLEAN /\ r.pse \in BOOLEAN /\ r.pae \in BOOLEAN
  BY MemoryAssumption
<1>4. cpu' \in Cpus /\ cpu'.a20 = cpu.a20
  BY <1>1, <1>2, <1>3 DEF Cpus
<1>5. Pinned'
  <2>1. CASE view' = ClearMeta(view)
    BY <1>1, <1>2, <2>1, ClearReachesAll, PinnedTrapped
  <2>2. CASE view' = view /\ ghost'.stale = ghost.stale \cup Filled(Pages)
    BY <1>1, <1>2, <1>4, <2>2, PinnedStale DEF MemInv
  <2> QED BY <1>1, <2>1, <2>2
<1> QED BY <1>1, <1>4, <1>5 DEF MemInv, AccessExact

LEMMA SetA20Keeps ==
  ASSUME MemInv, NEW on \in Lines, SetA20(on)
  PROVE  MemInv'
<1> DEFINE m == ClearMeta(view)
<1>1. /\ UNCHANGED <<tables, phys>> /\ edits' = edits + 1 /\ ghost'.stray = {}
      /\ cpu' = [cpu EXCEPT !.a20 = on] /\ view' = [m EXCEPT !.current = [p \in Pages |-> None]]
  BY DEF SetA20, Count, Settle
<1>2. /\ tables \in PageTables /\ phys.dirty \subseteq Frames /\ ViewOK(view) /\ cpu \in Cpus
      /\ \A f \in phys.dirty : phys.map[f] \in {"default", "shm"}
  BY DEF MemInv, Pinned, Threaded
<1>3. on \in BOOLEAN /\ cpu' \in Cpus
  BY <1>1, <1>2, MemoryAssumption DEF Cpus
<1>4. ViewOK(m) /\ \A p \in Pages : m.meta[p] = Traps
  BY <1>2, ClearReachesAll
<1> HIDE DEF m
<1>5. /\ m = [meta |-> m.meta, modified |-> m.modified, window |-> m.window, current |-> m.current]
      /\ m.meta \in [Pages -> SUBSET Traps] /\ m.modified \in SUBSET Nat /\ m.window \in [Pages -> {None} \cup Shown]
  BY <1>4 DEF ViewOK, Views
<1> DEFINE c == [p \in Pages |-> None]
<1>6. c \in [Pages -> {None} \cup {<<n>> : n \in Nat}] /\ \A p \in Pages : c[p] = None
  OBVIOUS
<1>7. view' = [m EXCEPT !.current = c]
  BY <1>1
<1> HIDE DEF c
<1>8. view' = [meta |-> m.meta, modified |-> m.modified, window |-> m.window, current |-> c]
  BY ONLY <1>5, <1>7
<1>9. view'.meta = m.meta /\ view'.modified = m.modified /\ view'.current = c /\ view' \in Views
  BY <1>5, <1>6, <1>8 DEF Views
<1>10. ViewOK(view') /\ \A p \in Pages : view'.meta[p] = Traps
  BY <1>4, <1>6, <1>9 DEF ViewOK
<1>11. Pinned'
  BY <1>1, <1>2, <1>10, PinnedTrapped
<1> QED BY <1>1, <1>3, <1>11 DEF MemInv, AccessExact

LEMMA MapPhysicalMemoryKeeps ==
  ASSUME MemInv, NEW m \in Maps, MapPhysicalMemory(m)
  PROVE  MemInv'
<1>1. /\ UNCHANGED <<cpu, tables>> /\ edits' = edits + 1 /\ ghost'.stray = {}
      /\ phys' = [map |-> m, dirty |-> {f \in phys.dirty : m[f] = phys.map[f]}]
      /\ view' = ClearMeta(EnableForAll(view, "write"))
  BY DEF MapPhysicalMemory, Count, Settle
<1>2. /\ tables \in PageTables /\ phys.dirty \subseteq Frames /\ ViewOK(view)
      /\ \A f \in phys.dirty : phys.map[f] \in {"default", "shm"}
  BY DEF MemInv, Pinned, Threaded
<1>3. /\ phys'.map = m /\ phys'.dirty = {f \in phys.dirty : m[f] = phys.map[f]}
      /\ phys' = [map |-> phys'.map, dirty |-> phys'.dirty]
  BY <1>1
<1>4. ViewOK(view') /\ \A p \in Pages : view'.meta[p] = Traps
  BY <1>1, <1>2, WritesTrapped, ClearReachesAll
<1>5. Pinned'
  BY <1>1, <1>2, <1>3, <1>4, PinnedTrapped
<1> QED BY <1>1, <1>3, <1>5 DEF MemInv, AccessExact

LEMMA CleanFramesKeeps ==
  ASSUME MemInv, NEW F, CleanFrames(F)
  PROVE  MemInv'
<1> DEFINE d == phys.dirty \ F
           m == EnableForAll(view, "write")
<1>1. /\ UNCHANGED <<cpu, tables, edits>> /\ phys' = [phys EXCEPT !.dirty = d] /\ view' = m
      /\ ghost'.stale = ghost.stale /\ ghost'.stray = {}
  BY DEF CleanFrames, Settle
<1>2. /\ tables \in PageTables /\ phys.dirty \subseteq Frames /\ ViewOK(view)
      /\ \A f \in phys.dirty : phys.map[f] \in {"default", "shm"}
  BY DEF MemInv, Pinned, Threaded
<1>3. /\ ViewOK(m) /\ m.window = view.window /\ m.current = view.current
      /\ \A p \in Pages : "write" \in m.meta[p] /\ view.meta[p] \subseteq m.meta[p]
  BY <1>2, WritesTrapped
<1>4. d \subseteq phys.dirty
  OBVIOUS
<1> HIDE DEF d, m
<1>5. /\ cpu' \in Cpus /\ phys'.map = phys.map /\ phys'.dirty = d
      /\ phys' = [map |-> phys'.map, dirty |-> phys'.dirty] /\ phys'.map \in Maps
  BY <1>1, SameMachine
<1>6. Threaded(tables, d, m, ghost.stale)
  <2>1. ASSUME NEW p \in Pages, "access" \notin m.meta[p]
        PROVE  /\ p \notin ghost.stale => PageFresh(tables, m, p)
               /\ PageTracked(tables, d, m, ghost.stale, p)
    <3>1. "access" \notin view.meta[p] /\ ("user" \notin m.meta[p] => "user" \notin view.meta[p])
      BY <1>3, <2>1
    <3>2. p \notin ghost.stale => PageFresh(tables, view, p)
      BY <3>1 DEF MemInv, Pinned, Threaded
    <3> QED BY <1>3, <3>1, <3>2 DEF PageFresh, PageTracked, ShownAt, LeftBehind
  <2> QED BY <1>2, <1>3, <1>4, <2>1 DEF Threaded
<1>7. Pinned'
  BY <1>1, <1>5, <1>6, PinnedLater
<1> QED BY <1>1, <1>5, <1>7 DEF MemInv, AccessExact

LEMMA DeviceWriteKeeps ==
  ASSUME MemInv, NEW f \in Frames, DeviceWrite(f)
  PROVE  MemInv'
<1> DEFINE d == phys.dirty \cup {f}
<1>1. /\ UNCHANGED <<cpu, tables, view, edits>> /\ phys' = [phys EXCEPT !.dirty = d]
      /\ ghost'.stale = ghost.stale /\ ghost'.stray = {} /\ phys.map[f] = "default"
  BY DEF DeviceWrite, Settle
<1>2. d \subseteq Frames /\ phys.dirty \subseteq d /\ \A g \in d : phys.map[g] \in {"default", "shm"}
  BY <1>1 DEF MemInv, Pinned, Threaded
<1> HIDE DEF d
<1>3. /\ cpu' \in Cpus /\ phys'.map = phys.map /\ phys'.dirty = d
      /\ phys' = [map |-> phys'.map, dirty |-> phys'.dirty] /\ phys'.map \in Maps
  BY <1>1, SameMachine
<1>4. Threaded(tables, d, view, ghost.stale)
  BY <1>2 DEF MemInv, Pinned, Threaded, PageTracked
<1>5. Pinned'
  BY <1>1, <1>3, <1>4, PinnedLater
<1> QED BY <1>1, <1>3, <1>5 DEF MemInv, AccessExact

\* Every step of the memory keeps what is known of it.
LEMMA MemNextKeeps ==
  ASSUME MemInv, [MemNext]_memVars
  PROVE  MemInv'
<1>1. CASE MemNext
  <2>1. ASSUME NEW x \in Accesses, NEW user \in BOOLEAN,
               Read(x[1], x[2], user) \/ \E advice : Write(x[1], x[2], user, advice)
        PROVE  MemInv'
    BY <2>1, AccessKeeps
  <2>2. ASSUME NEW p \in Pages, InvalidatePage(p) PROVE MemInv'
    BY <2>2, InvalidatePageKeeps
  <2>3. ASSUME NEW p \in Pages, NEW l \in Leaves, WriteLeaf(p, l) PROVE MemInv'
    BY <2>3, WriteLeafKeeps
  <2>4. ASSUME NEW d \in Dirs, WriteDir(d) PROVE MemInv'
    BY <2>4, WriteDirKeeps
  <2>5. ASSUME SetCr3 PROVE MemInv'
    BY <2>5, SetCr3Keeps
  <2>6. ASSUME NEW r \in Crs, SetCr(r) PROVE MemInv'
    BY <2>6, SetCrKeeps
  <2>7. ASSUME NEW l \in Lines, SetA20(l) PROVE MemInv'
    BY <2>7, SetA20Keeps
  <2>8. ASSUME NEW m \in Maps, MapPhysicalMemory(m) PROVE MemInv'
    BY <2>8, MapPhysicalMemoryKeeps
  <2>9. ASSUME NEW F, CleanFrames(F) PROVE MemInv'
    BY <2>9, CleanFramesKeeps
  <2>10. ASSUME NEW f \in Frames, DeviceWrite(f) PROVE MemInv'
    BY <2>10, DeviceWriteKeeps
  <2> QED BY <1>1, <2>1, <2>2, <2>3, <2>4, <2>5, <2>6, <2>7, <2>8, <2>9, <2>10 DEF MemNext
<1>2. CASE UNCHANGED memVars
  BY <1>2 DEF memVars, MemInv, Pinned, Threaded, PageFresh, PageTracked, FrameOf, ShownAt, LeftBehind, WindowOf, Backed,
                  AccessExact
<1> QED BY <1>1, <1>2

\* What a page that can be written shows: the cell of a dirty frame.
LEMMA TrackedFromInv ==
  ASSUME MemInv
  PROVE  DirtyTracked
<1>1. MapOK
  BY MapIsOK
<1>2. ASSUME NEW p \in Pages, cpu.a20, "access" \notin view.meta[p], "write" \notin view.meta[p]
      PROVE  /\ \E f \in phys.dirty :
                  Cell(f * PageSize) = Window(view, p * PageSize) \/ LeftBehind(view, p, f)
             /\ p \notin ghost.stale /\ cpu.paging => DirtyBit(cpu, tables, p) /\ AccessedBit(cpu, tables, p)
  <2>1. PageTracked(tables, phys.dirty, view, ghost.stale, p)
    BY <1>2 DEF MemInv, Pinned, Threaded
  <2>2. PICK f \in phys.dirty : Backed(f) /\ ShownAt(view, p, f)
    BY <1>2, <2>1 DEF PageTracked
  <2>3. f \in Frames /\ f \in Nat /\ p \in Nat /\ PageSize \in Nat /\ PageSize >= 2
    BY <2>2, FramesAreNaturals DEF MemInv, Pinned, Threaded
  <2>4. Page(p * PageSize + 0) = p /\ Offset(p * PageSize + 0) = 0 /\ p * PageSize + 0 \in Nat
    BY <2>3, BytesOfPages
  <2>5. p * PageSize + 0 = p * PageSize /\ f * PageSize + 0 = f * PageSize
    <3>1. \A x, y \in Nat : x * y \in Nat
      OBVIOUS
    <3>2. p * PageSize \in Nat /\ f * PageSize \in Nat
      BY <2>3, <3>1
    <3> QED BY <3>2
  <2>6. ASSUME ~LeftBehind(view, p, f) PROVE Window(view, p * PageSize) = Cell(f * PageSize)
    <3> DEFINE b == p * PageSize
    <3>1. b \in Nat /\ Page(b) = p /\ Offset(b) = 0
      BY <2>4, <2>5
    <3> HIDE DEF b
    <3>2. Window(view, b) = Cell(f * PageSize + Offset(b))
      BY <1>1, <1>2, <2>2, <2>3, <2>6, <3>1, WindowIsCell DEF ShownAt
    <3> QED BY <2>5, <3>1, <3>2 DEF b
  <2> QED BY <1>2, <2>1, <2>2, <2>6 DEF PageTracked
<1> QED BY <1>2 DEF DirtyTracked

(***************************************************************************)
(* The metadata, the windows and the dirty frames of the pages agree with  *)
(* the page tables and the memory map, but for pages that are stale, after *)
(* every access and every operation of Mem32.                              *)
(***************************************************************************)
THEOREM MemoryInvariant ==
  MemSpec => []MemInv
<1>1. MemInit => MemInv
  BY MemInitHolds
<1>2. MemInv /\ [MemNext]_memVars => MemInv'
  BY MemNextKeeps
<1> QED BY <1>1, <1>2, PTL DEF MemSpec

(***************************************************************************)
(* An access reaches the bytes the page tables and the memory map say, or  *)
(* none when they say it faults, by the fast path and by the trapped one   *)
(* (Mem32::read and Mem32::write).  AccessExact makes no claim of stale    *)
(* pages, windows left to another area, addresses wrapped by A20, user     *)
(* writes without CR0.WP, and page-crossing writes that trap.              *)
(***************************************************************************)
THEOREM AccessesAreExact ==
  MemSpec => []AccessExact
<1>1. MemInv => AccessExact
  BY DEF MemInv
<1> QED BY <1>1, MemoryInvariant, PTL

(***************************************************************************)
(* A page that can be written without a trap shows a frame that is marked  *)
(* dirty, and its dirty and accessed bits are set (metadata.rs and         *)
(* resolve_access_address): with the A20 line enabled, the bits if the     *)
(* tables did not change since the page was filled, and the frame up to    *)
(* its offset if the window was left to another area.                      *)
(***************************************************************************)
THEOREM WritesAreTracked ==
  MemSpec => []DirtyTracked
<1>1. MemInv => DirtyTracked
  BY TrackedFromInv
<1> QED BY <1>1, MemoryInvariant, PTL

-----------------------------------------------------------------------------
(* Page code: the targets on the page (KeepOnPage) and the chains.         *)

\* The values f that the functions g[1], g[2], ... make of x, one after the other.
HasSteps(n, S, x, g) == \E f \in [0 .. n -> S] : f[0] = x /\ \A k \in 1 .. n : f[k] = g[k][f[k - 1]]

\* A sequence of values can be computed step by step.
LEMMA StepsExist ==
  ASSUME NEW n \in Nat, NEW S, NEW x \in S, NEW g \in [1 .. n -> [S -> S]]
  PROVE  HasSteps(n, S, x, g)
<1> DEFINE Computes(f, m) == /\ f \in [0 .. m -> S] /\ f[0] = x
                             /\ \A k \in 1 .. m : f[k] = g[k][f[k - 1]]
           bad == {m \in 0 .. n : ~ \E f : Computes(f, m)}
<1>1. Computes([k \in 0 .. 0 |-> x], 0)
  OBVIOUS
<1>2. ASSUME NEW m \in 0 .. n, m < n, NEW f, Computes(f, m)
      PROVE  \E h : Computes(h, m + 1)
  <2> DEFINE h == [k \in 0 .. m + 1 |-> IF k = m + 1 THEN g[m + 1][f[m]] ELSE f[k]]
  <2>1. f[m] \in S /\ g[m + 1][f[m]] \in S
    BY <1>2
  <2>2. h \in [0 .. m + 1 -> S] /\ h[0] = x
    BY <1>2, <2>1
  <2>3. ASSUME NEW k \in 1 .. m + 1 PROVE h[k] = g[k][h[k - 1]]
    <3>1. h[k - 1] = f[k - 1] /\ k - 1 \in 0 .. m
      OBVIOUS
    <3>2. CASE k = m + 1
      BY <3>1, <3>2
    <3>3. CASE k # m + 1
      <4>1. k \in 1 .. m
        BY <3>3
      <4> QED BY <1>2, <3>1, <3>3, <4>1
    <3> QED BY <3>2, <3>3
  <2> QED BY <2>2, <2>3
<1> HIDE DEF Computes
<1>3. bad = {}
  <2>1. SUFFICES ASSUME bad # {} PROVE FALSE
    OBVIOUS
  <2> DEFINE m == Min(bad)
  <2>2. bad \in SUBSET Nat
    OBVIOUS
  <2>3. m \in bad /\ \A y \in bad : m <= y
    <3> HIDE DEF bad
    <3> QED BY <2>1, <2>2, LeastOfNaturals
  <2> HIDE DEF m
  <2>4. m \in 0 .. n /\ m # 0
    BY <1>1, <2>3
  <2>5. m - 1 \in 0 .. n /\ m - 1 < n /\ (m - 1) + 1 = m /\ ~(m <= m - 1)
    BY <2>4
  <2>6. \E f : Computes(f, m - 1)
    BY <2>3, <2>5
  <2>7. \E h : Computes(h, m)
    BY <1>2, <2>5, <2>6
  <2> QED BY <2>3, <2>7
<1>4. n \in 0 .. n
  OBVIOUS
<1>5. PICK f : Computes(f, n)
  BY <1>3, <1>4
<1> QED BY <1>5 DEF Computes, HasSteps

\* What the steps of KeepOnPage compute.
KeepStep(targets, kept, k) ==
  IF k = 0 THEN <<>> ELSE IF OnPage(targets[k]) THEN Append(kept[k - 1], targets[k]) ELSE kept[k - 1]

\* The recursive function of KeepOnPage is defined.
LEMMA KeepDefined ==
  ASSUME NEW n \in Nat, NEW s \in Seq(0 .. n)
  PROVE  \E kept : kept = [k \in 0 .. Len(s) |-> KeepStep(s, kept, k)]
<1> DEFINE S == Seq(1 .. n)
           g == [k \in 1 .. Len(s) |-> [e \in S |-> IF OnPage(s[k]) THEN Append(e, s[k]) ELSE e]]
<1>1. g \in [1 .. Len(s) -> [S -> S]]
  <2> SUFFICES ASSUME NEW k \in 1 .. Len(s), NEW e \in S, OnPage(s[k])
               PROVE  Append(e, s[k]) \in S
    OBVIOUS
  <2>1. s[k] \in 1 .. n
    BY DEF OnPage, Out
  <2> QED BY <2>1
<1>2. <<>> \in S /\ Len(s) \in Nat
  OBVIOUS
<1>3. \A k \in 1 .. Len(s) : \A e \in S : g[k][e] = IF OnPage(s[k]) THEN Append(e, s[k]) ELSE e
  OBVIOUS
<1> HIDE DEF g, S
<1>4. \E f \in [0 .. Len(s) -> S] : f[0] = <<>> /\ \A k \in 1 .. Len(s) : f[k] = g[k][f[k - 1]]
  <2>1. HasSteps(Len(s), S, <<>>, g)
    BY <1>1, <1>2, StepsExist
  <2> QED BY <2>1 DEF HasSteps
<1>4a. PICK f \in [0 .. Len(s) -> S] : f[0] = <<>> /\ \A k \in 1 .. Len(s) : f[k] = g[k][f[k - 1]]
  BY <1>4
<1>5. \A k \in 0 .. Len(s) : f[k] = KeepStep(s, f, k)
  <2> TAKE k \in 0 .. Len(s)
  <2>1. CASE k = 0
    BY <1>4a, <2>1 DEF KeepStep
  <2>2. CASE k # 0
    <3>1. k \in 1 .. Len(s) /\ k - 1 \in 0 .. Len(s)
      BY <2>2, <1>2
    <3>2. f[k - 1] \in S /\ f[k] = g[k][f[k - 1]]
      BY <1>4a, <3>1
    <3> QED BY <1>3, <2>2, <3>1, <3>2 DEF KeepStep
  <2> QED BY <2>1, <2>2
<1>6. f = [k \in 0 .. Len(s) |-> KeepStep(s, f, k)]
  BY <1>4a, <1>5
<1> QED BY <1>6

\* KeepOnPage keeps the targets on the page; it keeps all of them if all are.
LEMMA KeepExact ==
  ASSUME NEW n \in Nat, NEW s \in Seq(0 .. n)
  PROVE  /\ KeepOnPage(s) \in Seq(1 .. n)
         /\ (\A k \in DOMAIN s : OnPage(s[k])) => Len(KeepOnPage(s)) = Len(s)
<1> DEFINE kept == CHOOSE f : f = [k \in 0 .. Len(s) |-> KeepStep(s, f, k)]
<1>1. KeepOnPage(s) = kept[Len(s)]
  BY DEF KeepOnPage, KeepStep
<1>2. kept = [k \in 0 .. Len(s) |-> KeepStep(s, kept, k)]
  BY KeepDefined
<1> HIDE DEF kept
<1>3. \A k \in 0 .. Len(s) : kept[k] = KeepStep(s, kept, k)
  BY <1>2
<1> DEFINE Good(k) == kept[k] \in Seq(1 .. n) /\ ((\A j \in DOMAIN s : OnPage(s[j])) => Len(kept[k]) = k)
           bad == {k \in 0 .. Len(s) : ~Good(k)}
<1>4. bad = {}
  <2>1. SUFFICES ASSUME bad # {} PROVE FALSE
    OBVIOUS
  <2> DEFINE m == Min(bad)
  <2>2. bad \in SUBSET Nat
    OBVIOUS
  <2>3. m \in bad /\ \A y \in bad : m <= y
    <3> HIDE DEF bad
    <3> QED BY <2>1, <2>2, LeastOfNaturals
  <2> HIDE DEF m
  <2>4. m # 0
    <3>1. 0 \in 0 .. Len(s)
      OBVIOUS
    <3>2. kept[0] = <<>>
      BY <1>3, <3>1 DEF KeepStep
    <3>3. Good(0)
      BY <3>2
    <3> QED BY <2>3, <3>3
  <2>5. m \in 1 .. Len(s) /\ m - 1 \in 0 .. Len(s) /\ ~(m <= m - 1)
    BY <2>3, <2>4
  <2>6. Good(m - 1)
    BY <2>3, <2>5
  <2>7. kept[m] = IF OnPage(s[m]) THEN Append(kept[m - 1], s[m]) ELSE kept[m - 1]
    BY <1>3, <2>5, <2>4 DEF KeepStep
  <2>8. s[m] \in 0 .. n /\ (OnPage(s[m]) => s[m] \in 1 .. n) /\ m \in DOMAIN s
    BY <2>5 DEF OnPage, Out
  <2>9. Good(m)
    <3>1. CASE OnPage(s[m])
      <4> DEFINE e == kept[m - 1]
      <4>1. kept[m] = Append(e, s[m]) /\ s[m] \in 1 .. n /\ e \in Seq(1 .. n)
        BY <2>6, <2>7, <2>8, <3>1
      <4> HIDE DEF e
      <4>2. kept[m] \in Seq(1 .. n) /\ Len(kept[m]) = Len(e) + 1
        BY <4>1
      <4>3. (\A j \in DOMAIN s : OnPage(s[j])) => Len(e) = m - 1
        BY <2>6 DEF e
      <4> QED BY <2>5, <4>2, <4>3
    <3>2. CASE ~OnPage(s[m])
      BY <2>6, <2>7, <2>8, <3>2
    <3> QED BY <3>1, <3>2
  <2> QED BY <2>3, <2>9
<1>5. Good(Len(s))
  BY <1>4
<1> QED BY <1>1, <1>5

\* A walk along a function stays in its domain.
LEMMA WalkStays ==
  ASSUME NEW S, NEW f \in [S -> S], NEW x \in S, NEW n \in Nat
  PROVE  /\ DOMAIN Iterate(f, x, n) = 0 .. n
         /\ \A k \in 0 .. n : Iterate(f, x, n)[k] \in S
<1> DEFINE Step(w, k) == IF k = 0 THEN x ELSE f[w[k - 1]]
           w == CHOOSE v : v = [k \in 0 .. n |-> Step(v, k)]
           g == [k \in 1 .. n |-> [e \in S |-> f[e]]]
<1>1. Iterate(f, x, n) = w
  BY DEF Iterate
<1>2. g \in [1 .. n -> [S -> S]] /\ \A k \in 1 .. n : \A e \in S : g[k][e] = f[e]
  OBVIOUS
<1> HIDE DEF g
<1>3. HasSteps(n, S, x, g)
  BY <1>2, StepsExist
<1>4. PICK v \in [0 .. n -> S] : v[0] = x /\ \A k \in 1 .. n : v[k] = g[k][v[k - 1]]
  BY <1>3 DEF HasSteps
<1>5. \A k \in 0 .. n : v[k] = Step(v, k)
  <2> TAKE k \in 0 .. n
  <2>1. CASE k = 0
    BY <1>4, <2>1
  <2>2. CASE k # 0
    <3>1. k \in 1 .. n /\ k - 1 \in 0 .. n
      BY <2>2
    <3> QED BY <1>2, <1>4, <2>2, <3>1
  <2> QED BY <2>1, <2>2
<1>6. v = [k \in 0 .. n |-> Step(v, k)]
  BY <1>4, <1>5
<1>7. w = [k \in 0 .. n |-> Step(w, k)]
  <2> HIDE DEF Step
  <2> QED BY <1>6
<1> HIDE DEF w
<1>8. \A k \in 0 .. n : w[k] = Step(w, k)
  BY <1>7
<1> DEFINE bad == {k \in 0 .. n : w[k] \notin S}
<1>9. bad = {}
  <2>1. SUFFICES ASSUME bad # {} PROVE FALSE
    OBVIOUS
  <2> DEFINE m == Min(bad)
  <2>2. bad \in SUBSET Nat
    OBVIOUS
  <2>3. m \in bad /\ \A y \in bad : m <= y
    <3> HIDE DEF bad
    <3> QED BY <2>1, <2>2, LeastOfNaturals
  <2> HIDE DEF m
  <2>4. m # 0
    BY <1>8, <2>3
  <2>5. m - 1 \in 0 .. n /\ ~(m <= m - 1)
    BY <2>3, <2>4
  <2>6. w[m - 1] \in S
    BY <2>3, <2>5
  <2> QED BY <1>8, <2>3, <2>4, <2>6
<1> QED BY <1>1, <1>7, <1>9

-----------------------------------------------------------------------------
(* The blocks of a page.                                                   *)

PageOK == page \in Seq(Instructions(Len(page)))

\* What follows an instruction is an instruction.
LEMMA SuccsExact ==
  ASSUME PageOK, NEW i \in Instrs
  PROVE  /\ page[i] \in Instructions(Len(page)) /\ Instrs = 1 .. Len(page) /\ Len(page) \in Nat
         /\ NextOffsets(i) \in Seq(Instrs) /\ Succs(i) \in Seq(Instrs)
         /\ page[i].known /\ AllReachable(i) => Len(NextOffsets(i)) = Len(page[i].to)
<1>1. Instrs = 1 .. Len(page) /\ Len(page) \in Nat /\ page[i] \in Instructions(Len(page))
  BY DEF PageOK, Instrs
<1>2. page[i].to \in Seq(0 .. Len(page)) /\ page[i].links \in Seq(0 .. Len(page))
  BY <1>1 DEF Instructions
<1>3. /\ KeepOnPage(page[i].to) \in Seq(Instrs)
      /\ KeepOnPage(page[i].links) \in Seq(Instrs)
      /\ (\A k \in DOMAIN page[i].to : OnPage(page[i].to[k])) => Len(KeepOnPage(page[i].to)) = Len(page[i].to)
  BY <1>1, <1>2, KeepExact
<1>4. NextOffsets(i) \in Seq(Instrs)
  BY <1>3 DEF NextOffsets
<1>5. Succs(i) \in Seq(Instrs)
  BY <1>4 DEF Succs
<1>6. page[i].known /\ AllReachable(i) => Len(NextOffsets(i)) = Len(page[i].to)
  BY <1>3 DEF NextOffsets, AllReachable
<1> QED BY <1>1, <1>4, <1>5, <1>6

\* A chain ends with an instruction.
LEMMA ChainExact ==
  ASSUME PageOK, NEW i \in Instrs
  PROVE  LastInstr(i) \in Instrs /\ \A k \in 0 .. Len(page) : Chain(i)[k] \in Instrs
<1>1. ChainNext \in [Instrs -> Instrs]
  <2> SUFFICES ASSUME NEW j \in Instrs, GoesOn(j) PROVE Succs(j)[1] \in Instrs
    BY DEF ChainNext
  <2> DEFINE s == Succs(j)
  <2>1. s \in Seq(Instrs)
    BY SuccsExact
  <2>2. Len(s) = 1
    BY DEF GoesOn, Certain
  <2> HIDE DEF s
  <2>3. s[1] \in Instrs
    BY <2>1, <2>2
  <2> QED BY <2>3 DEF s
<1>2. Len(page) \in Nat
  BY SuccsExact
<1>3. \A k \in 0 .. Len(page) : Chain(i)[k] \in Instrs
  BY <1>1, <1>2, WalkStays DEF Chain
<1> QED BY <1>2, <1>3 DEF LastInstr

\* The page's jumps from block to block.
Graph == [b \in Blocks |-> NextBlocks(b)]

\* Page code jumps to blocks only: where a chain ends, all that may follow is a split point.
LEMMA NextAreBlocks ==
  ASSUME PageOK, NEW b \in Blocks, WalkEnds(b)
  PROVE  NextBlocks(b) \in Seq(Blocks)
<1> DEFINE i == LastInstr(b)
<1>1. b \in Instrs
  BY DEF Blocks
<1>2. i \in Instrs /\ ~GoesOn(i)
  BY <1>1, ChainExact DEF WalkEnds
<1> HIDE DEF i
<1>3. /\ page[i] \in Instructions(Len(page)) /\ Succs(i) \in Seq(Instrs)
      /\ page[i].known /\ AllReachable(i) => Len(NextOffsets(i)) = Len(page[i].to)
      /\ page[i].known \in BOOLEAN /\ Len(page[i].to) \in Nat
  BY <1>2, SuccsExact DEF Instructions
<1>4. ASSUME NEW k \in 1 .. Len(Succs(i)) PROVE Succs(i)[k] \in Blocks
  <2> DEFINE t == Succs(i)[k]
  <2>1. t \in Instrs /\ i \in Preds(t)
    BY <1>2, <1>3 DEF Preds, Contains
  <2>2. ~page[i].handler /\ Succs(i) = NextOffsets(i)
    <3>1. Succs(i) # <<>>
      BY <1>3
    <3> QED BY <3>1 DEF Succs
  <2>3. MakeSplitPoint(t)
    <3>1. CASE Branches(i)
      BY <2>1, <3>1 DEF MakeSplitPoint
    <3>2. CASE ~Branches(i)
      <4>1. AllReachable(i) /\ ~(Len(Succs(i)) > 1) /\ page[i].known
        BY <3>2 DEF Branches, AllReachable
      <4>2. Len(Succs(i)) = 1 /\ Len(page[i].to) = 1 /\ k = 1
        <5>1. Len(NextOffsets(i)) = Len(page[i].to) /\ Len(NextOffsets(i)) = Len(Succs(i))
          BY <1>3, <2>2, <4>1
        <5>2. Len(Succs(i)) \in Nat
          BY <1>3
        <5> QED BY <4>1, <5>1, <5>2
      <4>3. Certain(i)
        BY <4>1, <4>2 DEF Certain
      <4> QED BY <1>2, <4>2, <4>3 DEF GoesOn
    <3> QED BY <3>1, <3>2
  <2> QED BY <2>1, <2>3 DEF Blocks
<1>5. Succs(i) \in Seq(Blocks)
  BY <1>3, <1>4
<1>6. CASE page[i].handler
  BY <1>6 DEF NextBlocks, i
<1>7. CASE ~page[i].handler
  <2>1. Succs(i) = NextOffsets(i)
    BY <1>7 DEF Succs
  <2>2. Reverse(NextOffsets(i)) \in Seq(Blocks)
    BY <1>5, <2>1 DEF Reverse
  <2>3. NextBlocks(b) = IF page[i].known THEN Reverse(NextOffsets(i)) ELSE Succs(i)
    BY <1>7 DEF NextBlocks, i
  <2> QED BY <1>3, <1>5, <2>2, <2>3
<1> QED BY <1>6, <1>7

-----------------------------------------------------------------------------
(* Tarjan's algorithm, on a graph nx that maps a block to the set of those *)
(* it jumps to: idx and low are the numbers of the visited blocks, st the  *)
(* blocks on the stack, fr those of the frontier, and walked the jumps     *)
(* that were looked at.                                                    *)

\* The blocks that a block jumps to; the numbers of the visited blocks.
EdgeMaps(B) == [B -> SUBSET B]
Numberings(V) == [V -> Nat]

IsClosed(nx, S) == \A b \in S : nx[b] \subseteq S
Leads(nx, a, b) == \A S \in SUBSET DOMAIN nx : a \in S /\ IsClosed(nx, S) => b \in S

\* Leading somewhere is reflexive and transitive, and does not leave a closed set.
LEMMA LeadsFacts ==
  ASSUME NEW B, NEW nx \in EdgeMaps(B)
  PROVE  /\ \A a : Leads(nx, a, a)
         /\ \A a, b, c : Leads(nx, a, b) /\ Leads(nx, b, c) => Leads(nx, a, c)
         /\ \A a \in B : \A b \in nx[a] : Leads(nx, a, b)
         /\ \A S \in SUBSET B : \A a \in S : \A b : IsClosed(nx, S) /\ Leads(nx, a, b) => b \in S
BY DEF Leads, IsClosed, EdgeMaps

VisitShape(nx, roots, idx, low, st, fr, walked) ==
  /\ DOMAIN idx \subseteq DOMAIN nx
  /\ idx \in [DOMAIN idx -> Nat] /\ low \in [DOMAIN idx -> Nat]
  /\ \A x, y \in DOMAIN idx : idx[x] = idx[y] => x = y
  /\ fr \subseteq st /\ st \subseteq DOMAIN idx /\ roots \subseteq DOMAIN nx
  /\ \A e \in walked : \E x, y \in DOMAIN idx : e = <<x, y>> /\ y \in nx[x]
  /\ \A x \in DOMAIN idx \ fr : \A y \in nx[x] : <<x, y>> \in walked

\* The blocks that have left the stack jump to each other only.
LeftClosed(nx, idx, st) == \A x \in DOMAIN idx \ st : nx[x] \subseteq DOMAIN idx \ st

\* A block on the stack leads to those above it, and to one of the frontier below it.
StackLeads(nx, idx, st, fr) ==
  /\ \A x, y \in st : idx[x] <= idx[y] => Leads(nx, x, y)
  /\ \A y \in st : \E x \in fr : idx[x] <= idx[y] /\ Leads(nx, y, x)

\* The number of a frontier block stands for a block of the stack it leads to, and none
\* that was seen from the blocks between it and the next one of the frontier is lower.
Between(idx, fr, f, y) == idx[f] <= idx[y] /\ \A g \in fr : idx[f] < idx[g] => idx[y] < idx[g]
LowsExact(nx, idx, low, st, fr, walked) ==
  \A f \in fr :
    /\ low[f] <= idx[f]
    /\ \E w \in st : idx[w] = low[f] /\ Leads(nx, f, w)
    /\ \A y, w \in st : <<y, w>> \in walked /\ Between(idx, fr, f, y) => low[f] <= idx[w]

VisitInv(nx, roots, idx, low, st, fr, walked) ==
  /\ VisitShape(nx, roots, idx, low, st, fr, walked)
  /\ LeftClosed(nx, idx, st)
  /\ StackLeads(nx, idx, st, fr)
  /\ LowsExact(nx, idx, low, st, fr, walked)
  /\ \A x \in DOMAIN idx : \E a \in roots : Leads(nx, a, x)

Extend(f, v, n) == [b \in DOMAIN f \cup {v} |-> IF b = v THEN n ELSE f[b]]

\* The jump that a block is entered by: from the top u of the frontier, or none for a root.
Adds(nx, roots, idx, fr, v, added) ==
  \/ fr = {} /\ v \in roots /\ added = {}
  \/ \E u \in fr : (\A x \in fr : idx[x] <= idx[u]) /\ v \in nx[u] /\ added = {<<u, v>>}

\* A block is entered.
LEMMA EnterKeeps ==
  ASSUME NEW B, NEW nx \in EdgeMaps(B), NEW roots, NEW idx, NEW low, NEW st, NEW fr, NEW walked,
         VisitInv(nx, roots, idx, low, st, fr, walked),
         NEW v \in B, v \notin DOMAIN idx, NEW n \in Nat, \A x \in DOMAIN idx : idx[x] < n,
         NEW added, Adds(nx, roots, idx, fr, v, added)
  PROVE  VisitInv(nx, roots, Extend(idx, v, n), Extend(low, v, n), st \cup {v}, fr \cup {v}, walked \cup added)
<1> nx \in [B -> SUBSET B]
  BY DEF EdgeMaps
<1> \/ fr = {} /\ v \in roots /\ added = {}
    \/ \E u \in fr : (\A x \in fr : idx[x] <= idx[u]) /\ v \in nx[u] /\ added = {<<u, v>>}
  BY DEF Adds
<1> DEFINE i == Extend(idx, v, n)
           l == Extend(low, v, n)
           V == DOMAIN idx
           w == walked \cup added
<1>1. VisitShape(nx, roots, idx, low, st, fr, walked) /\ LeftClosed(nx, idx, st)
      /\ StackLeads(nx, idx, st, fr) /\ LowsExact(nx, idx, low, st, fr, walked)
  BY DEF VisitInv
<1>2. /\ V \subseteq B /\ DOMAIN nx = B
      /\ idx \in [V -> Nat] /\ low \in [V -> Nat] /\ fr \subseteq st /\ st \subseteq V /\ roots \subseteq B
      /\ \A e \in walked : \E x, y \in V : e = <<x, y>> /\ y \in nx[x]
      /\ \A x \in V \ fr : \A y \in nx[x] : <<x, y>> \in walked
      /\ \A x, y \in V : idx[x] = idx[y] => x = y
  BY <1>1 DEF VisitShape
<1>3. /\ DOMAIN i = V \cup {v} /\ DOMAIN l = V \cup {v} /\ i[v] = n /\ l[v] = n
      /\ \A x \in V : i[x] = idx[x] /\ l[x] = low[x] /\ i[x] < n
      /\ i \in [V \cup {v} -> Nat] /\ l \in [V \cup {v} -> Nat]
  BY <1>2 DEF Extend
<1>4. \A e \in added : \E u \in fr : e = <<u, v>> /\ v \in nx[u]
  OBVIOUS
<1> HIDE DEF i, l, V, w
<1>5. VisitShape(nx, roots, i, l, st \cup {v}, fr \cup {v}, w)
  <2>1. \A e \in w : \E x, y \in V \cup {v} : e = <<x, y>> /\ y \in nx[x]
    BY <1>2, <1>4 DEF w
  <2>2. \A x \in (V \cup {v}) \ (fr \cup {v}) : \A y \in nx[x] : <<x, y>> \in w
    BY <1>2 DEF w
  <2>3. \A x, y \in V \cup {v} : i[x] = i[y] => x = y
    BY <1>2, <1>3
  <2> QED BY <1>2, <1>3, <2>1, <2>2, <2>3 DEF VisitShape
<1>6. LeftClosed(nx, i, st \cup {v})
  <2>1. \A x \in V \ st : nx[x] \subseteq V \ st
    BY <1>1 DEF LeftClosed, V
  <2>2. (V \cup {v}) \ (st \cup {v}) = V \ st
    BY <1>2 DEF V
  <2> QED BY <1>3, <2>1, <2>2 DEF LeftClosed
<1>7. \A x \in st : Leads(nx, x, v)
  <2> TAKE x \in st
  <2>1. PICK f \in fr : idx[f] <= idx[x] /\ Leads(nx, x, f)
    BY <1>1 DEF StackLeads
  <2>2. PICK u \in fr : (\A g \in fr : idx[g] <= idx[u]) /\ v \in nx[u]
    BY <2>1
  <2>3. Leads(nx, f, u)
    BY <1>1, <1>2, <2>2 DEF StackLeads
  <2>4. Leads(nx, u, v)
    BY <1>2, <2>2, LeadsFacts
  <2> QED BY <2>1, <2>3, <2>4, LeadsFacts
<1>8. StackLeads(nx, i, st \cup {v}, fr \cup {v})
  <2>1. Leads(nx, v, v)
    BY LeadsFacts
  <2>2. ASSUME NEW x \in st \cup {v}, NEW y \in st \cup {v}, i[x] <= i[y] PROVE Leads(nx, x, y)
    <3>1. CASE y = v
      BY <1>7, <2>1, <3>1
    <3>2. CASE y # v
      <4>1. x # v
        BY <1>2, <1>3, <2>2, <3>2
      <4> QED BY <1>1, <1>2, <1>3, <2>2, <3>2, <4>1 DEF StackLeads
    <3> QED BY <3>1, <3>2
  <2>3. ASSUME NEW y \in st \cup {v} PROVE \E x \in fr \cup {v} : i[x] <= i[y] /\ Leads(nx, y, x)
    <3>1. CASE y = v
      BY <1>3, <2>1, <3>1
    <3>2. CASE y \in st
      <4>1. PICK x \in fr : idx[x] <= idx[y] /\ Leads(nx, y, x)
        BY <1>1, <3>2 DEF StackLeads
      <4> QED BY <1>2, <1>3, <3>2, <4>1
    <3> QED BY <3>1, <3>2
  <2> QED BY <2>2, <2>3 DEF StackLeads
<1>9. LowsExact(nx, i, l, st \cup {v}, fr \cup {v}, w)
  <2> SUFFICES ASSUME NEW f \in fr \cup {v}
               PROVE  /\ l[f] <= i[f]
                      /\ \E x \in st \cup {v} : i[x] = l[f] /\ Leads(nx, f, x)
                      /\ \A y, x \in st \cup {v} : <<y, x>> \in w /\ Between(i, fr \cup {v}, f, y) => l[f] <= i[x]
    BY DEF LowsExact
  <2>1. CASE f = v
    <3>1. \A y, x \in st \cup {v} : <<y, x>> \in w => i[y] < n
      BY <1>2, <1>3, <1>4 DEF w
    <3>2. \A y, x \in st \cup {v} : <<y, x>> \in w => ~Between(i, fr \cup {v}, f, y)
      <4> SUFFICES ASSUME NEW y \in st \cup {v}, i[y] < n PROVE ~(n <= i[y])
        BY <1>3, <2>1, <3>1 DEF Between
      <4>1. i[y] \in Nat
        BY <1>2, <1>3
      <4> QED BY <4>1
    <3>3. Leads(nx, v, v)
      BY LeadsFacts
    <3>4. l[f] = n /\ i[f] = n /\ f \in st \cup {v}
      BY <1>3, <2>1
    <3>5. l[f] <= i[f] /\ \E x \in st \cup {v} : i[x] = l[f] /\ Leads(nx, f, x)
      BY <2>1, <3>3, <3>4
    <3> QED BY <3>2, <3>5
  <2>2. CASE f \in fr
    <3>1. f \in V /\ f \in st /\ i[f] = idx[f] /\ l[f] = low[f] /\ i[f] < n
      BY <1>2, <1>3, <2>2
    <3>2. low[f] <= idx[f] /\ \E x \in st : idx[x] = low[f] /\ Leads(nx, f, x)
      BY <1>1, <2>2 DEF LowsExact
    <3>3. ASSUME NEW y \in st \cup {v}, NEW x \in st \cup {v}, <<y, x>> \in w, Between(i, fr \cup {v}, f, y)
          PROVE  l[f] <= i[x]
      <4>1. CASE x = v
        BY <1>2, <1>3, <3>1, <3>2, <4>1
      <4>2. CASE x # v
        <5>1. <<y, x>> \in walked /\ x \in st /\ y \in st
          BY <1>2, <1>4, <3>3, <4>2 DEF w, V
        <5>2. Between(idx, fr, f, y)
          <6>1. \A g \in fr : i[g] = idx[g]
            BY <1>2, <1>3
          <6> QED BY <1>2, <1>3, <3>1, <3>3, <5>1, <6>1 DEF Between
        <5>3. low[f] <= idx[x]
          BY <1>1, <2>2, <5>1, <5>2 DEF LowsExact
        <5> QED BY <1>2, <1>3, <3>1, <5>1, <5>3
      <4> QED BY <4>1, <4>2
    <3> QED BY <1>2, <1>3, <3>1, <3>2, <3>3
  <2> QED BY <2>1, <2>2
<1>10. \A x \in V \cup {v} : \E a \in roots : Leads(nx, a, x)
  <2>1. \A x \in V : \E a \in roots : Leads(nx, a, x)
    BY DEF VisitInv, V
  <2>2. \E a \in roots : Leads(nx, a, v)
    <3>1. CASE fr = {}
      BY <3>1, LeadsFacts
    <3>2. CASE fr # {}
      <4>1. PICK u \in fr : v \in nx[u]
        BY <3>2
      <4>2. PICK a \in roots : Leads(nx, a, u)
        BY <1>2, <2>1, <4>1
      <4> QED BY <1>2, <4>1, <4>2, LeadsFacts
    <3> QED BY <3>1, <3>2
  <2> QED BY <2>1, <2>2
<1> QED BY <1>3, <1>5, <1>6, <1>8, <1>9, <1>10 DEF VisitInv, i, l, w

\* The top u of the frontier looks at a block v that was visited: its number counts for u
\* while v is on the stack.
Looks(nx, idx, low, st, fr, u, v, l) ==
  /\ u \in fr /\ (\A x \in fr : idx[x] <= idx[u]) /\ v \in nx[u] /\ v \in DOMAIN idx
  /\ l \in Numberings(DOMAIN idx) /\ (\A x \in DOMAIN idx : x # u => l[x] = low[x])
  /\ l[u] = IF v \in st /\ idx[v] < low[u] THEN idx[v] ELSE low[u]

\* Looking at v keeps the invariant.
LEMMA LookKeeps ==
  ASSUME NEW B, NEW nx \in EdgeMaps(B), NEW roots, NEW idx, NEW low, NEW st, NEW fr, NEW walked,
         VisitInv(nx, roots, idx, low, st, fr, walked),
         NEW u, NEW v, NEW l, Looks(nx, idx, low, st, fr, u, v, l)
  PROVE  VisitInv(nx, roots, idx, l, st, fr, walked \cup {<<u, v>>})
<1> USE DEF Looks
<1> nx \in [B -> SUBSET B]
  BY DEF EdgeMaps
<1> l \in [DOMAIN idx -> Nat]
  BY DEF Numberings
<1> DEFINE V == DOMAIN idx
           w == walked \cup {<<u, v>>}
<1>1. VisitShape(nx, roots, idx, low, st, fr, walked) /\ LeftClosed(nx, idx, st)
      /\ StackLeads(nx, idx, st, fr) /\ LowsExact(nx, idx, low, st, fr, walked)
      /\ \A x \in DOMAIN idx : \E a \in roots : Leads(nx, a, x)
  BY DEF VisitInv
<1>2. /\ V \subseteq B /\ idx \in [V -> Nat] /\ low \in [V -> Nat] /\ fr \subseteq st /\ st \subseteq V
      /\ \A e \in walked : \E x, y \in V : e = <<x, y>> /\ y \in nx[x]
      /\ \A x, y \in V : idx[x] = idx[y] => x = y
  BY <1>1 DEF VisitShape
<1>3. VisitShape(nx, roots, idx, l, st, fr, w)
  BY <1>1, <1>2 DEF VisitShape
<1>4. ASSUME NEW f \in fr
      PROVE  /\ l[f] <= idx[f]
             /\ \E x \in st : idx[x] = l[f] /\ Leads(nx, f, x)
             /\ \A y, x \in st : <<y, x>> \in w /\ Between(idx, fr, f, y) => l[f] <= idx[x]
  <2>1. /\ low[f] <= idx[f] /\ \E x \in st : idx[x] = low[f] /\ Leads(nx, f, x)
        /\ \A y, x \in st : <<y, x>> \in walked /\ Between(idx, fr, f, y) => low[f] <= idx[x]
    BY <1>1 DEF LowsExact
  <2>2. f \in V /\ u \in V /\ l[f] \in Nat /\ low[f] \in Nat /\ idx[f] \in Nat /\ l[f] <= low[f]
    <3>1. f \in V /\ u \in V /\ l[f] \in Nat /\ low[f] \in Nat /\ idx[f] \in Nat /\ idx[v] \in Nat
      BY <1>2
    <3> QED BY <3>1
  <2>3. \E x \in st : idx[x] = l[f] /\ Leads(nx, f, x)
    <3>1. CASE l[f] = low[f]
      BY <2>1, <3>1
    <3>2. CASE l[f] # low[f]
      <4>1. f = u /\ v \in st /\ l[f] = idx[v]
        BY <2>2, <3>2
      <4>2. Leads(nx, u, v)
        BY <1>2, LeadsFacts
      <4> QED BY <4>1, <4>2
    <3> QED BY <3>1, <3>2
  <2>4. ASSUME NEW y \in st, NEW x \in st, <<y, x>> \in w, Between(idx, fr, f, y) PROVE l[f] <= idx[x]
    <3>1. idx[x] \in Nat /\ idx[f] \in Nat /\ idx[u] \in Nat
      BY <1>2
    <3>2. CASE <<y, x>> \in walked
      <4>1. low[f] <= idx[x]
        BY <2>1, <2>4, <3>2
      <4> QED BY <2>2, <3>1, <4>1
    <3>3. CASE y = u /\ x = v
      <4>1. f = u
        <5>1. ~(idx[f] < idx[u])
          BY <2>4, <3>1, <3>3 DEF Between
        <5>2. idx[f] <= idx[u]
          OBVIOUS
        <5>3. idx[f] = idx[u]
          BY <3>1, <5>1, <5>2
        <5> QED BY <1>2, <2>2, <5>3
      <4> QED BY <2>2, <3>1, <3>3, <4>1
    <3> QED BY <2>4, <3>2, <3>3
  <2> QED BY <2>1, <2>2, <2>3, <2>4
<1>5. LowsExact(nx, idx, l, st, fr, w)
  BY <1>4 DEF LowsExact
<1> QED BY <1>1, <1>3, <1>5 DEF VisitInv

\* The top u of the frontier is left while its lowlink is not its own number: another
\* block p is then below it, which takes the lowlink over.
AllWalked(nx, idx, fr, walked, u) ==
  u \in fr /\ (\A x \in fr : idx[x] <= idx[u]) /\ \A y \in nx[u] : <<u, y>> \in walked
PassesOn(idx, low, fr, u, p, l) ==
  /\ p \in fr \ {u} /\ l \in Numberings(DOMAIN idx)
  /\ \A x \in fr \ {u} : idx[x] <= idx[p]
  /\ \A x \in DOMAIN idx : x # p => l[x] = low[x]
  /\ l[p] = IF low[u] < low[p] THEN low[u] ELSE low[p]

\* Leaving u keeps the invariant when the block below takes the lowlink over.
LEMMA LeaveKeeps ==
  ASSUME NEW B, NEW nx \in EdgeMaps(B), NEW roots, NEW idx, NEW low, NEW st, NEW fr, NEW walked,
         VisitInv(nx, roots, idx, low, st, fr, walked),
         NEW u, AllWalked(nx, idx, fr, walked, u), low[u] # idx[u]
  PROVE  /\ fr # {u}
         /\ \A p, l : PassesOn(idx, low, fr, u, p, l) => VisitInv(nx, roots, idx, l, st, fr \ {u}, walked)
<1> USE DEF AllWalked
<1> nx \in [B -> SUBSET B]
  BY DEF EdgeMaps
<1> DEFINE V == DOMAIN idx
           r == fr \ {u}
<1>1. VisitShape(nx, roots, idx, low, st, fr, walked) /\ LeftClosed(nx, idx, st)
      /\ StackLeads(nx, idx, st, fr) /\ LowsExact(nx, idx, low, st, fr, walked)
      /\ \A x \in DOMAIN idx : \E a \in roots : Leads(nx, a, x)
  BY DEF VisitInv
<1>2. /\ V \subseteq B /\ idx \in [V -> Nat] /\ low \in [V -> Nat] /\ fr \subseteq st /\ st \subseteq V
      /\ \A e \in walked : \E x, y \in V : e = <<x, y>> /\ y \in nx[x]
      /\ \A x, y \in V : idx[x] = idx[y] => x = y
  BY <1>1 DEF VisitShape
<1>3. low[u] \in Nat /\ idx[u] \in Nat /\ low[u] < idx[u]
  <2>1. low[u] <= idx[u]
    BY <1>1 DEF LowsExact
  <2>2. low[u] \in Nat /\ idx[u] \in Nat
    BY <1>2
  <2> QED BY <2>1, <2>2
<1>4. PICK w \in st : idx[w] = low[u] /\ Leads(nx, u, w)
  BY <1>1 DEF LowsExact
<1>5. PICK f \in fr : idx[f] <= idx[w] /\ Leads(nx, w, f)
  BY <1>1 DEF StackLeads
<1>6. f \in r /\ Leads(nx, u, f) /\ idx[f] < idx[u]
  <2>1. idx[f] \in Nat
    BY <1>2
  <2> QED BY <1>3, <1>4, <1>5, <2>1, LeadsFacts
<1>7. ASSUME NEW p \in r, \A x \in r : idx[x] <= idx[p],
             NEW l \in Numberings(DOMAIN idx), \A x \in DOMAIN idx : x # p => l[x] = low[x],
             l[p] = IF low[u] < low[p] THEN low[u] ELSE low[p]
      PROVE  VisitInv(nx, roots, idx, l, st, r, walked)
  <2> l \in [DOMAIN idx -> Nat]
    BY DEF Numberings
  <2>1. VisitShape(nx, roots, idx, l, st, r, walked)
    <3>1. \A x \in V \ r : \A y \in nx[x] : <<x, y>> \in walked
      <4>1. \A x \in V \ r : x \in V \ fr \/ x = u
        OBVIOUS
      <4> QED BY <1>1, <4>1 DEF VisitShape
    <3>2. r \subseteq st
      BY <1>2
    <3> QED BY <1>1, <1>7, <3>1, <3>2 DEF VisitShape
  <2>2. StackLeads(nx, idx, st, r)
    <3>1. ASSUME NEW y \in st PROVE \E x \in r : idx[x] <= idx[y] /\ Leads(nx, y, x)
      <4>1. PICK x \in fr : idx[x] <= idx[y] /\ Leads(nx, y, x)
        BY <1>1 DEF StackLeads
      <4>2. CASE x = u
        <5>1. Leads(nx, y, f)
          BY <1>6, <4>1, <4>2, LeadsFacts
        <5>2. idx[f] \in Nat /\ idx[y] \in Nat
          BY <1>2
        <5>3. idx[f] <= idx[y]
          BY <1>3, <1>6, <4>1, <4>2, <5>2
        <5> QED BY <1>6, <5>1, <5>3
      <4> QED BY <4>1, <4>2
    <3> QED BY <1>1, <3>1 DEF StackLeads
  <2>3. p \in V /\ l[p] \in Nat /\ low[p] \in Nat /\ idx[p] \in Nat /\ l[p] <= low[p] /\ l[p] <= low[u]
        /\ idx[p] < idx[u]
    <3>1. p \in V /\ l[p] \in Nat /\ low[p] \in Nat /\ idx[p] \in Nat
      BY <1>2, <1>7
    <3>2. l[p] <= low[p] /\ l[p] <= low[u]
      BY <1>3, <1>7, <3>1
    <3>3. idx[p] <= idx[u] /\ idx[p] # idx[u]
      BY <1>2
    <3> QED BY <1>3, <3>1, <3>2, <3>3
  <2>4. ASSUME NEW g \in r
        PROVE  /\ l[g] <= idx[g]
               /\ \E x \in st : idx[x] = l[g] /\ Leads(nx, g, x)
               /\ \A y, x \in st : <<y, x>> \in walked /\ Between(idx, r, g, y) => l[g] <= idx[x]
    <3>1. /\ low[g] <= idx[g] /\ \E x \in st : idx[x] = low[g] /\ Leads(nx, g, x)
          /\ \A y, x \in st : <<y, x>> \in walked /\ Between(idx, fr, g, y) => low[g] <= idx[x]
      BY <1>1 DEF LowsExact
    <3>2. g \in V /\ idx[g] \in Nat /\ low[g] \in Nat
      BY <1>2
    <3>3. CASE g # p
      <4>1. l[g] = low[g]
        BY <1>7, <3>2, <3>3
      <4>2. idx[g] < idx[p]
        <5>1. idx[g] <= idx[p] /\ idx[g] # idx[p]
          BY <1>2, <1>7, <2>3, <3>2, <3>3
        <5> QED BY <2>3, <3>2, <5>1
      <4>3. ASSUME NEW y \in st, Between(idx, r, g, y) PROVE Between(idx, fr, g, y)
        <5>1. idx[y] < idx[p] /\ idx[y] \in Nat
          BY <1>2, <4>2, <4>3 DEF Between
        <5>2. idx[y] < idx[u]
          BY <1>3, <2>3, <5>1
        <5> QED BY <4>3, <5>2 DEF Between
      <4> QED BY <3>1, <4>1, <4>3
    <3>4. CASE g = p
      <4>1. \E x \in st : idx[x] = l[p] /\ Leads(nx, p, x)
        <5>1. CASE l[p] = low[p]
          BY <3>1, <3>4, <5>1
        <5>2. CASE l[p] # low[p]
          <6>1. l[p] = idx[w]
            BY <1>4, <1>7, <5>2
          <6>2. Leads(nx, p, u)
            BY <1>1, <1>2, <2>3 DEF StackLeads
          <6>3. Leads(nx, p, w)
            BY <1>4, <6>2, LeadsFacts
          <6> QED BY <6>1, <6>3
        <5> QED BY <5>1, <5>2
      <4>2. ASSUME NEW y \in st, NEW x \in st, <<y, x>> \in walked, Between(idx, r, g, y)
            PROVE  l[p] <= idx[x]
        <5>1. idx[y] \in Nat /\ idx[x] \in Nat
          BY <1>2
        <5>2. CASE idx[y] < idx[u]
          <6>1. Between(idx, fr, p, y)
            BY <3>4, <4>2, <5>2 DEF Between
          <6>2. low[p] <= idx[x]
            BY <3>1, <3>4, <4>2, <6>1
          <6> QED BY <2>3, <5>1, <6>2
        <5>3. CASE idx[u] <= idx[y]
          <6>1. Between(idx, fr, u, y)
            <7> SUFFICES ASSUME NEW h \in fr, idx[u] < idx[h] PROVE FALSE
              BY <5>3 DEF Between
            <7>1. idx[h] <= idx[u] /\ idx[h] \in Nat
              BY <1>2
            <7> QED BY <1>3, <7>1
          <6>2. low[u] <= idx[x]
            BY <1>1, <4>2, <6>1 DEF LowsExact
          <6> QED BY <1>3, <2>3, <5>1, <6>2
        <5> QED BY <1>3, <5>1, <5>2, <5>3
      <4>3. l[p] <= idx[p]
        BY <2>3, <3>1, <3>4
      <4> QED BY <3>4, <4>1, <4>2, <4>3
    <3> QED BY <3>3, <3>4
  <2>5. LowsExact(nx, idx, l, st, r, walked)
    BY <2>4 DEF LowsExact
  <2> QED BY <1>1, <2>1, <2>2, <2>5 DEF VisitInv
<1> QED BY <1>6, <1>7 DEF PassesOn

\* The top u of the frontier is left and is its own lowlink: what is on the stack from u on
\* is a strongly connected component, from which no jump leads elsewhere but to blocks that
\* have left the stack.
Component(nx, S) == \A a \in S, b \in DOMAIN nx : b \in S <=> Leads(nx, a, b) /\ Leads(nx, b, a)

LowerOf(idx, st, u) == {x \in st : idx[x] < idx[u]}

\* Closing the component keeps the invariant.
LEMMA CloseKeeps ==
  ASSUME NEW B, NEW nx \in EdgeMaps(B), NEW roots, NEW idx, NEW low, NEW st, NEW fr, NEW walked,
         VisitInv(nx, roots, idx, low, st, fr, walked),
         NEW u, AllWalked(nx, idx, fr, walked, u), low[u] = idx[u],
         NEW rest, rest = LowerOf(idx, st, u)
  PROVE  /\ VisitInv(nx, roots, idx, low, rest, fr \ {u}, walked)
         /\ Component(nx, st \ rest) /\ u \in st \ rest
         /\ \A p \in fr \ {u} : low[p] < low[u]
<1> USE DEF AllWalked, LowerOf
<1> nx \in [B -> SUBSET B]
  BY DEF EdgeMaps
<1> DEFINE V == DOMAIN idx
           r == fr \ {u}
           comp == st \ rest
<1>1. VisitShape(nx, roots, idx, low, st, fr, walked) /\ LeftClosed(nx, idx, st)
      /\ StackLeads(nx, idx, st, fr) /\ LowsExact(nx, idx, low, st, fr, walked)
      /\ \A x \in DOMAIN idx : \E a \in roots : Leads(nx, a, x)
  BY DEF VisitInv
<1>2. /\ V \subseteq B /\ idx \in [V -> Nat] /\ low \in [V -> Nat] /\ fr \subseteq st /\ st \subseteq V
      /\ \A e \in walked : \E x, y \in V : e = <<x, y>> /\ y \in nx[x]
      /\ \A x, y \in V : idx[x] = idx[y] => x = y
      /\ \A x \in V \ fr : \A y \in nx[x] : <<x, y>> \in walked
      /\ DOMAIN nx = B /\ roots \subseteq B
  BY <1>1 DEF VisitShape
<1>3. comp = {x \in st : idx[u] <= idx[x]} /\ u \in comp
  <2>1. \A x \in st : idx[x] \in Nat /\ idx[u] \in Nat
    BY <1>2
  <2>2. \A x \in st : ~(idx[x] < idx[u]) <=> idx[u] <= idx[x]
    BY <2>1
  <2>3. u \in st /\ idx[u] <= idx[u]
    BY <1>2, <2>1
  <2> QED BY <2>2, <2>3
<1>4. \A p \in r : p \in V /\ idx[p] \in Nat /\ low[p] \in Nat /\ idx[p] < idx[u] /\ p \in rest
  <2> TAKE p \in r
  <2>1. p \in V /\ p \in st /\ idx[p] \in Nat /\ low[p] \in Nat /\ idx[u] \in Nat /\ u \in V
    BY <1>2
  <2>2. idx[p] <= idx[u] /\ idx[p] # idx[u]
    BY <1>2, <2>1
  <2> QED BY <2>1, <2>2
<1>5. \A p \in r : low[p] < low[u]
  <2> TAKE p \in r
  <2>1. low[p] <= idx[p]
    BY <1>1 DEF LowsExact
  <2>2. idx[u] \in Nat
    BY <1>2
  <2> QED BY <1>4, <2>1, <2>2
<1>6. \A y \in comp : \A x \in nx[y] : x \in comp \/ x \in V \ st
  <2> TAKE y \in comp
  <2> TAKE x \in nx[y]
  <2>1. y \in st /\ idx[u] <= idx[y] /\ y \in V
    BY <1>2, <1>3
  <2>2. <<y, x>> \in walked
    <3>1. CASE y = u
      BY <3>1
    <3>2. CASE y # u
      <4>1. y \notin fr
        BY <1>4, <3>2
      <4> QED BY <1>2, <2>1, <4>1
    <3> QED BY <3>1, <3>2
  <2>3. x \in V
    BY <1>2, <2>2
  <2>4. CASE x \in st
    <3>1. Between(idx, fr, u, y)
      <4> SUFFICES ASSUME NEW h \in fr, idx[u] < idx[h] PROVE FALSE
        BY <2>1 DEF Between
      <4>1. idx[h] <= idx[u] /\ idx[h] \in Nat /\ idx[u] \in Nat
        BY <1>2
      <4> QED BY <4>1
    <3>2. low[u] <= idx[x]
      BY <1>1, <2>1, <2>2, <2>4, <3>1 DEF LowsExact
    <3> QED BY <1>3, <2>4, <3>2
  <2> QED BY <2>3, <2>4
<1>7. \A x \in V \ st : nx[x] \subseteq V \ st
  BY <1>1 DEF LeftClosed
<1> HIDE DEF comp, r
<1>8. LeftClosed(nx, idx, rest)
  <2>1. V \ rest = comp \cup (V \ st)
    BY <1>2 DEF comp
  <2> QED BY <1>6, <1>7, <2>1 DEF LeftClosed
<1>9. Component(nx, comp)
  <2>1. \A a \in comp : Leads(nx, u, a) /\ Leads(nx, a, u)
    <3> TAKE a \in comp
    <3>1. a \in st /\ idx[u] <= idx[a] /\ u \in st
      BY <1>2, <1>3
    <3>2. Leads(nx, u, a)
      BY <1>1, <3>1 DEF StackLeads
    <3>3. PICK f \in fr : Leads(nx, a, f)
      BY <1>1, <3>1 DEF StackLeads
    <3>4. Leads(nx, f, u)
      BY <1>1, <1>2, <3>1 DEF StackLeads
    <3> QED BY <3>2, <3>3, <3>4, LeadsFacts
  <2>2. ASSUME NEW a \in comp, NEW b \in B, Leads(nx, a, b), Leads(nx, b, a) PROVE b \in comp
    <3>1. IsClosed(nx, comp \cup (V \ st)) /\ IsClosed(nx, V \ st)
      BY <1>6, <1>7 DEF IsClosed
    <3>2. comp \cup (V \ st) \in SUBSET B /\ V \ st \in SUBSET B
      BY <1>2, <1>3
    <3>3. b \in comp \cup (V \ st)
      BY <2>2, <3>1, <3>2, LeadsFacts
    <3>4. CASE b \in V \ st
      <4>1. a \in V \ st
        BY <2>2, <3>1, <3>2, <3>4, LeadsFacts
      <4> QED BY <1>3, <4>1
    <3> QED BY <3>3, <3>4
  <2> QED BY <1>2, <2>1, <2>2, LeadsFacts DEF Component
<1>10. VisitShape(nx, roots, idx, low, rest, r, walked)
  <2>1. \A x \in V \ r : \A y \in nx[x] : <<x, y>> \in walked
    <3>1. \A x \in V \ r : x \in V \ fr \/ x = u
      BY DEF r
    <3> QED BY <1>2, <3>1
  <2>2. r \subseteq rest /\ rest \subseteq V
    BY <1>2, <1>4
  <2> QED BY <1>1, <2>1, <2>2 DEF VisitShape
<1>11. StackLeads(nx, idx, rest, r)
  <2>1. ASSUME NEW y \in rest PROVE \E x \in r : idx[x] <= idx[y] /\ Leads(nx, y, x)
    <3>1. y \in st /\ idx[y] < idx[u] /\ idx[y] \in Nat /\ idx[u] \in Nat
      BY <1>2
    <3>2. PICK x \in fr : idx[x] <= idx[y] /\ Leads(nx, y, x)
      BY <1>1, <3>1 DEF StackLeads
    <3>3. x # u
      BY <3>1, <3>2
    <3> QED BY <3>2, <3>3 DEF r
  <2>2. \A x, y \in rest : idx[x] <= idx[y] => Leads(nx, x, y)
    BY <1>1 DEF StackLeads
  <2> QED BY <2>1, <2>2 DEF StackLeads
<1>12. ASSUME NEW g \in r
       PROVE  /\ low[g] <= idx[g]
              /\ \E x \in rest : idx[x] = low[g] /\ Leads(nx, g, x)
              /\ \A y, x \in rest : <<y, x>> \in walked /\ Between(idx, r, g, y) => low[g] <= idx[x]
  <2>1. /\ g \in fr /\ low[g] <= idx[g] /\ \E x \in st : idx[x] = low[g] /\ Leads(nx, g, x)
        /\ \A y, x \in st : <<y, x>> \in walked /\ Between(idx, fr, g, y) => low[g] <= idx[x]
    BY <1>1 DEF LowsExact, r
  <2>2. \E x \in rest : idx[x] = low[g] /\ Leads(nx, g, x)
    <3>1. PICK x \in st : idx[x] = low[g] /\ Leads(nx, g, x)
      BY <2>1
    <3>2. idx[x] < idx[u]
      <4>1. low[g] < low[u]
        BY <1>5
      <4> QED BY <3>1, <4>1
    <3> QED BY <3>1, <3>2
  <2>3. ASSUME NEW y \in rest, NEW x \in rest, <<y, x>> \in walked, Between(idx, r, g, y) PROVE low[g] <= idx[x]
    <3>1. y \in st /\ x \in st /\ idx[y] < idx[u]
      OBVIOUS
    <3>2. Between(idx, fr, g, y)
      BY <2>3, <3>1 DEF Between, r
    <3> QED BY <2>1, <2>3, <3>1, <3>2
  <2> QED BY <2>1, <2>2, <2>3
<1>13. LowsExact(nx, idx, low, rest, r, walked)
  BY <1>12 DEF LowsExact
<1> QED BY <1>1, <1>3, <1>5, <1>8, <1>9, <1>10, <1>11, <1>13 DEF VisitInv, comp, r

-----------------------------------------------------------------------------
(* The search of a component.  `done` are the blocks it has left, `both`   *)
(* those with both flags, g the sequences of jumps.                        *)

LoopIn(nx, S) == \E T \in SUBSET S : T # {} /\ \A b \in T : nx[b] \cap T # {}

\* The graphs that page code is, and the paths in them.
JumpMaps(B) == [B -> Seq(B)]
Paths(S) == Seq([block : S, at : Nat \ {0}])
OnPath(p, b) == \E k \in DOMAIN p : p[k].block = b
Tried(g, p, k, y) == \E j \in 1 .. Len(g[p[k].block]) : j < p[k].at /\ y = g[p[k].block][j]

\* Entries and blocks with both flags are on the path, were left or wait as entries; a jump
\* from a block that was left, or that was tried from the path, ends at a block that was left,
\* has both flags or comes next on the path; and no loop of blocks that were left stays whole.
BreakInv(g, entries, both, inside, left, p, done) ==
  /\ p \in Paths(inside) /\ done \subseteq inside
  /\ \A b \in inside : b \in entries \cup both => b \in done \/ OnPath(p, b) \/ b \in left \cap entries
  /\ \A d \in done, y \in inside : y \in ToSet(g[d]) => y \in done \cup both
  /\ \A k \in 1 .. Len(p), y \in inside :
       Tried(g, p, k, y) => y \in done \cup both \/ (k < Len(p) /\ y = p[k + 1].block)
  /\ ~LoopIn([b \in DOMAIN g |-> ToSet(g[b])], done \ both)

\* The frames of a path.
LEMMA PathTypes ==
  ASSUME NEW S, NEW p \in Paths(S)
  PROVE  /\ Len(p) \in Nat /\ DOMAIN p = 1 .. Len(p)
         /\ \A k \in 1 .. Len(p) : p[k] \in [block : S, at : Nat \ {0}] /\ p[k].block \in S /\ p[k].at \in Nat \ {0}
<1> DEFINE F == [block : S, at : Nat \ {0}]
<1>1. p \in Seq(F)
  BY DEF Paths
<1> HIDE DEF F
<1>2. Len(p) \in Nat /\ DOMAIN p = 1 .. Len(p) /\ \A k \in 1 .. Len(p) : p[k] \in F
  BY <1>1, LenProperties
<1> QED BY <1>2 DEF F

\* What the last frame of a path and its rest are.
LEMMA PathFacts ==
  ASSUME NEW S, NEW p \in Paths(S), p # <<>>
  PROVE  /\ Len(p) \in Nat \ {0} /\ DOMAIN p = 1 .. Len(p)
         /\ Last(p) = p[Len(p)] /\ Last(p) \in [block : S, at : Nat \ {0}]
         /\ Front(p) \in Paths(S) /\ Len(Front(p)) = Len(p) - 1 /\ DOMAIN Front(p) = 1 .. Len(p) - 1
         /\ \A k \in 1 .. Len(p) - 1 : Front(p)[k] = p[k]
<1> DEFINE F == [block : S, at : Nat \ {0}]
<1>1. p \in Seq(F)
  BY DEF Paths
<1> HIDE DEF F
<1>2. Len(p) \in Nat \ {0} /\ DOMAIN p = 1 .. Len(p)
  BY <1>1, EmptySeq, LenProperties
<1>3. \A k \in 1 .. Len(p) : p[k] \in F
  BY <1>1
<1>4. Last(p) = p[Len(p)] /\ Last(p) \in F
  BY <1>2, <1>3 DEF Last
<1>5. /\ Front(p) \in Seq(F) /\ Len(Front(p)) = Len(p) - 1 /\ DOMAIN Front(p) = 1 .. Len(p) - 1
      /\ \A k \in 1 .. Len(p) - 1 : Front(p)[k] = p[k]
  BY <1>1, <1>2 DEF Front
<1> QED BY <1>2, <1>4, <1>5 DEF F, Paths

\* The last block of the path has no jump left: it is left.
LEMMA BreakLeaves ==
  ASSUME NEW B, NEW g \in JumpMaps(B), NEW entries, NEW both, NEW inside \in SUBSET B, NEW left, NEW p, NEW done,
         BreakInv(g, entries, both, inside, left, p, done),
         p # <<>>, Last(p).at > Len(g[Last(p).block])
  PROVE  BreakInv(g, entries, both, inside, left, Front(p), done \cup {Last(p).block})
<1> g \in [B -> Seq(B)]
  BY DEF JumpMaps
<1> DEFINE n == Len(p)
           d == Last(p).block
           f == Front(p)
           nx == [b \in DOMAIN g |-> ToSet(g[b])]
           after == done \cup {d}
<1>1. p \in Paths(inside) /\ done \subseteq inside
  BY DEF BreakInv
<1>2. /\ n \in Nat \ {0} /\ DOMAIN p = 1 .. n /\ d = p[n].block /\ d \in inside
      /\ p[n].at \in Nat /\ Last(p) = p[n]
      /\ f \in Paths(inside) /\ Len(f) = n - 1 /\ DOMAIN f = 1 .. n - 1 /\ \A k \in 1 .. n - 1 : f[k] = p[k]
  BY <1>1, PathFacts
<1>3. \A y \in ToSet(g[d]) : Tried(g, p, n, y)
  <2> SUFFICES ASSUME NEW y \in ToSet(g[d]) PROVE Tried(g, p, n, y)
    OBVIOUS
  <2>1. g[d] \in Seq(B)
    BY <1>2
  <2>2. PICK j \in 1 .. Len(g[d]) : y = g[d][j]
    BY <2>1 DEF ToSet
  <2>3. j < p[n].at
    BY <1>2, <2>1, <2>2
  <2> QED BY <1>2, <2>2, <2>3 DEF Tried
<1> HIDE DEF n, d, f
<1>4. \A y \in inside : y \in ToSet(g[d]) => y \in done \cup both
  <2> SUFFICES ASSUME NEW y \in inside, y \in ToSet(g[d]) PROVE y \in done \cup both
    OBVIOUS
  <2>1. n \in 1 .. Len(p) /\ ~(n < Len(p))
    BY <1>2 DEF n
  <2> QED BY <1>3, <2>1 DEF BreakInv
<1>5. \A b \in inside : b \in entries \cup both => b \in after \/ OnPath(f, b) \/ b \in left \cap entries
  <2> SUFFICES ASSUME NEW b \in inside, OnPath(p, b) PROVE b \in after \/ OnPath(f, b)
    BY DEF BreakInv
  <2>1. PICK k \in 1 .. n : p[k].block = b
    BY <1>2 DEF OnPath
  <2>2. CASE k = n
    BY <1>2, <2>1, <2>2
  <2>3. CASE k # n
    <3>1. k \in 1 .. n - 1
      BY <1>2, <2>3
    <3> QED BY <1>2, <2>1, <3>1 DEF OnPath
  <2> QED BY <2>2, <2>3
<1>6. \A x \in after, y \in inside : y \in ToSet(g[x]) => y \in after \cup both
  BY <1>4 DEF BreakInv
<1>7. \A k \in 1 .. Len(f), y \in inside : Tried(g, f, k, y) => y \in after \cup both \/ (k < Len(f) /\ y = f[k + 1].block)
  <2> SUFFICES ASSUME NEW k \in 1 .. n - 1, NEW y \in inside, Tried(g, f, k, y)
               PROVE  y \in after \cup both \/ (k < n - 1 /\ y = f[k + 1].block)
    BY <1>2
  <2>1. Tried(g, p, k, y) /\ k \in 1 .. Len(p) /\ k < Len(p)
    BY <1>2 DEF Tried, n
  <2>2. y \in done \cup both \/ y = p[k + 1].block
    BY <2>1 DEF BreakInv
  <2>3. CASE y = p[k + 1].block
    <3>1. k + 1 = n \/ k + 1 \in 1 .. n - 1
      BY <1>2
    <3>2. CASE k + 1 = n
      BY <1>2, <2>3, <3>2
    <3>3. CASE k + 1 \in 1 .. n - 1
      <4>1. k < n - 1
        BY <1>2, <3>3
      <4> QED BY <1>2, <2>3, <3>3, <4>1
    <3> QED BY <3>1, <3>2, <3>3
  <2> QED BY <2>2, <2>3
<1>8. ~LoopIn(nx, after \ both)
  <2> SUFFICES ASSUME NEW T \in SUBSET (after \ both), T # {}, \A b \in T : nx[b] \cap T # {} PROVE FALSE
    BY DEF LoopIn
  <2>1. ~LoopIn(nx, done \ both)
    BY DEF BreakInv
  <2>2. CASE d \in done \/ d \notin T
    <3>1. T \in SUBSET (done \ both)
      BY <2>2
    <3> QED BY <2>1, <3>1 DEF LoopIn
  <2>3. CASE d \notin done /\ d \in T
    <3> DEFINE U == T \ {d}
    <3>1. U \in SUBSET (done \ both)
      OBVIOUS
    <3>2. \A b \in T : b \in B /\ nx[b] = ToSet(g[b]) /\ b \in inside
      BY <1>1, <1>2
    <3>3. \A b \in T : nx[b] \cap U # {}
      <4> TAKE b \in T
      <4>1. PICK y \in T : y \in ToSet(g[b])
        BY <3>2
      <4>2. y \in inside /\ y \notin both
        BY <3>2
      <4>3. y \in done \cup both
        <5>1. CASE b = d
          BY <1>4, <4>1, <4>2, <5>1
        <5>2. CASE b # d
          <6>1. b \in done
            BY <5>2
          <6> QED BY <4>1, <4>2, <6>1 DEF BreakInv
        <5> QED BY <5>1, <5>2
      <4>4. y \in U
        BY <2>3, <4>2, <4>3
      <4> QED BY <3>2, <4>1, <4>4
    <3>4. U # {}
      BY <2>3, <3>3
    <3> QED BY <2>1, <3>1, <3>3, <3>4 DEF LoopIn
  <2> QED BY <2>2, <2>3
<1>9. f \in Paths(inside) /\ after \subseteq inside
  BY <1>1, <1>2
<1> QED BY <1>5, <1>6, <1>7, <1>8, <1>9 DEF BreakInv, f, d

\* The path with one more jump tried from its last block.
Advanced(p) == Append(Front(p), [Last(p) EXCEPT !.at = @ + 1])

\* A path whose top tries its next jump.
LEMMA AdvanceFacts ==
  ASSUME NEW S, NEW p \in Paths(S), p # <<>>, NEW rest, rest = Advanced(p)
  PROVE  /\ rest \in Paths(S) /\ Len(rest) = Len(p) /\ DOMAIN rest = 1 .. Len(p) /\ DOMAIN p = 1 .. Len(p)
         /\ \A k \in 1 .. Len(p) : /\ rest[k].block = p[k].block
                                   /\ rest[k].at = IF k = Len(p) THEN p[k].at + 1 ELSE p[k].at
<1> DEFINE F == [block : S, at : Nat \ {0}]
           e == [Last(p) EXCEPT !.at = @ + 1]
           f == Front(p)
<1>1. /\ Len(p) \in Nat \ {0} /\ DOMAIN p = 1 .. Len(p) /\ Last(p) = p[Len(p)] /\ Last(p) \in F
      /\ f \in Seq(F) /\ Len(f) = Len(p) - 1 /\ \A k \in 1 .. Len(p) - 1 : f[k] = p[k]
  BY PathFacts DEF Paths
<1>2. e \in F /\ e.block = p[Len(p)].block /\ e.at = p[Len(p)].at + 1
  BY <1>1
<1> HIDE DEF F, e, f
<1>3. /\ rest \in Seq(F) /\ Len(rest) = Len(p) /\ DOMAIN rest = 1 .. Len(p)
      /\ rest[Len(p)] = e /\ \A k \in 1 .. Len(p) - 1 : rest[k] = f[k]
  <2>1. rest = Append(f, e)
    BY DEF e, f, Advanced
  <2>2. (Len(p) - 1) + 1 = Len(p) /\ Len(p) \in Nat
    BY <1>1
  <2>3. f \in Seq(F) /\ e \in F
    BY <1>1, <1>2
  <2>4. /\ Len(rest) = Len(f) + 1 /\ rest \in Seq(F) /\ rest[Len(f) + 1] = e
        /\ \A k \in 1 .. Len(f) : rest[k] = f[k]
    BY ONLY <2>1, <2>3, AppendProperties
  <2>5. DOMAIN rest = 1 .. Len(rest)
    BY <2>4
  <2>6. Len(f) = Len(p) - 1
    BY <1>1
  <2> QED BY <2>2, <2>4, <2>5, <2>6
<1>4. ASSUME NEW k \in 1 .. Len(p)
      PROVE  /\ rest[k].block = p[k].block
             /\ rest[k].at = IF k = Len(p) THEN p[k].at + 1 ELSE p[k].at
  <2>1. CASE k = Len(p)
    BY <1>2, <1>3, <2>1
  <2>2. CASE k # Len(p)
    <3>1. k \in 1 .. Len(p) - 1
      <4>1. Len(p) \in Nat
        BY <1>1
      <4> QED BY <2>2, <4>1
    <3>2. rest[k] = p[k]
      BY <1>1, <1>3, <3>1
    <3> QED BY <2>2, <3>2
  <2> QED BY <2>1, <2>2
<1> QED BY <1>1, <1>3, <1>4 DEF F, Paths

\* The last block of the path tries a jump to a block that has both flags then or is not
\* in the component.
LEMMA BreakAdvances ==
  ASSUME NEW B, NEW g \in JumpMaps(B), NEW entries, NEW both, NEW inside \in SUBSET B, NEW left, NEW p, NEW done,
         BreakInv(g, entries, both, inside, left, p, done),
         p # <<>>, NEW more, both \subseteq more,
         \A b \in inside : b \in more => b \in both \/ OnPath(p, b),
         NEW y, Last(p).at <= Len(g[Last(p).block]), y = g[Last(p).block][Last(p).at],
         y \in inside => y \in more
  PROVE  BreakInv(g, entries, more, inside, left, Advanced(p), done)
<1> g \in [B -> Seq(B)]
  BY DEF JumpMaps
<1> DEFINE n == Len(p)
           rest == Advanced(p)
           nx == [b \in DOMAIN g |-> ToSet(g[b])]
<1>1. p \in Paths(inside) /\ done \subseteq inside
  BY DEF BreakInv
<1>2. /\ n \in Nat \ {0} /\ Last(p) = p[n] /\ Last(p) \in [block : inside, at : Nat \ {0}]
  BY <1>1, PathFacts
<1>3. /\ rest \in Paths(inside) /\ Len(rest) = n /\ DOMAIN rest = 1 .. n /\ DOMAIN p = 1 .. n
      /\ \A k \in 1 .. n : /\ rest[k].block = p[k].block
                           /\ rest[k].at = IF k = n THEN p[k].at + 1 ELSE p[k].at
  BY <1>1, AdvanceFacts
<1> HIDE DEF n, rest
<1>4. \A b : OnPath(p, b) <=> OnPath(rest, b)
  BY <1>3 DEF OnPath
<1>5. \A b \in inside : b \in entries \cup more => b \in done \/ OnPath(rest, b) \/ b \in left \cap entries
  BY <1>4 DEF BreakInv
<1>6. \A d \in done, x \in inside : x \in ToSet(g[d]) => x \in done \cup more
  BY DEF BreakInv
<1>7. ASSUME NEW k \in 1 .. Len(rest), NEW x \in inside, Tried(g, rest, k, x)
      PROVE  x \in done \cup more \/ (k < Len(rest) /\ x = rest[k + 1].block)
  <2>1. k \in 1 .. n /\ k \in Nat
    BY <1>3
  <2>2. PICK j \in 1 .. Len(g[p[k].block]) : j < rest[k].at /\ x = g[p[k].block][j]
    BY <1>3, <1>7, <2>1 DEF Tried
  <2>3. CASE j < p[k].at
    <3>1. Tried(g, p, k, x) /\ k \in 1 .. Len(p)
      BY <2>1, <2>2, <2>3 DEF Tried, n
    <3>2. x \in done \cup both \/ (k < Len(p) /\ x = p[k + 1].block)
      BY <3>1 DEF BreakInv
    <3>3. k < n => rest[k + 1].block = p[k + 1].block
      <4>1. k < n => k + 1 \in 1 .. n
        BY <1>2, <2>1
      <4> QED BY <1>3, <4>1
    <3> QED BY <1>3, <3>2, <3>3 DEF n
  <2>4. CASE ~(j < p[k].at)
    <3>1. k = n
      BY <1>3, <2>1, <2>2, <2>4
    <3>2. p[n].at \in Nat /\ rest[n].at = p[n].at + 1
      BY <1>2, <1>3, <2>1, <3>1
    <3>3. j = p[n].at
      <4>1. j \in Nat /\ j < p[n].at + 1 /\ ~(j < p[n].at)
        BY <2>2, <2>4, <3>1, <3>2
      <4> QED BY <3>2, <4>1
    <3>4. x = y
      BY <1>2, <2>2, <3>1, <3>3
    <3> QED BY <3>4
  <2> QED BY <2>3, <2>4
<1>8. ~LoopIn(nx, done \ more)
  <2>1. ~LoopIn(nx, done \ both)
    BY DEF BreakInv
  <2>2. done \ more \subseteq done \ both
    OBVIOUS
  <2> QED BY <2>1, <2>2 DEF LoopIn
<1> QED BY <1>1, <1>3, <1>5, <1>6, <1>7, <1>8 DEF BreakInv, rest

\* It jumps to a block of the component without both flags, which comes next on the path.
LEMMA BreakEnters ==
  ASSUME NEW B, NEW g \in JumpMaps(B), NEW entries, NEW both, NEW inside \in SUBSET B, NEW left, NEW p, NEW done,
         BreakInv(g, entries, both, inside, left, p, done),
         p # <<>>, NEW y \in inside, Last(p).at <= Len(g[Last(p).block]), y = g[Last(p).block][Last(p).at]
  PROVE  BreakInv(g, entries, both, inside, left,
                  Append(Advanced(p), [block |-> y, at |-> 1]), done)
<1> g \in [B -> Seq(B)]
  BY DEF JumpMaps
<1> DEFINE n == Len(p)
           rest == Advanced(p)
           new == [block |-> y, at |-> 1]
           q == Append(rest, new)
<1>1. p \in Paths(inside) /\ done \subseteq inside
  BY DEF BreakInv
<1>2. /\ n \in Nat \ {0} /\ Last(p) = p[n] /\ Last(p) \in [block : inside, at : Nat \ {0}]
  BY <1>1, PathFacts
<1>3. /\ rest \in Paths(inside) /\ Len(rest) = n /\ DOMAIN rest = 1 .. n /\ DOMAIN p = 1 .. n
      /\ \A k \in 1 .. n : /\ rest[k].block = p[k].block
                           /\ rest[k].at = IF k = n THEN p[k].at + 1 ELSE p[k].at
  BY <1>1, AdvanceFacts
<1>4. new \in [block : inside, at : Nat \ {0}] /\ new.block = y /\ new.at = 1
  OBVIOUS
<1> HIDE DEF n, rest, new
<1>5. /\ q \in Paths(inside) /\ Len(q) = n + 1 /\ DOMAIN q = 1 .. n + 1
      /\ q[n + 1] = new /\ \A k \in 1 .. n : q[k] = rest[k]
  BY <1>2, <1>3, <1>4 DEF Paths
<1> HIDE DEF q
<1>6. \A b : OnPath(p, b) => OnPath(q, b)
  <2> SUFFICES ASSUME NEW b, OnPath(p, b) PROVE OnPath(q, b)
    OBVIOUS
  <2>1. PICK k \in 1 .. n : p[k].block = b
    BY <1>3 DEF OnPath
  <2>2. k \in 1 .. n + 1 /\ q[k].block = b
    BY <1>2, <1>3, <1>5, <2>1
  <2> QED BY <1>5, <2>2 DEF OnPath
<1>7. \A b \in inside : b \in entries \cup both => b \in done \/ OnPath(q, b) \/ b \in left \cap entries
  BY <1>6 DEF BreakInv
<1>8. ASSUME NEW k \in 1 .. Len(q), NEW x \in inside, Tried(g, q, k, x)
      PROVE  x \in done \cup both \/ (k < Len(q) /\ x = q[k + 1].block)
  <2>1. k \in 1 .. n + 1 /\ k \in Nat
    BY <1>5
  <2>2. PICK j \in 1 .. Len(g[q[k].block]) : j < q[k].at /\ x = g[q[k].block][j]
    BY <1>8 DEF Tried
  <2>3. k # n + 1
    <3> SUFFICES ASSUME k = n + 1 PROVE FALSE
      OBVIOUS
    <3>1. j < 1 /\ j \in Nat \ {0}
      BY <1>4, <1>5, <2>2
    <3> QED BY <3>1
  <2>4. k \in 1 .. n /\ k < n + 1 /\ q[k] = rest[k]
    BY <1>2, <1>5, <2>1, <2>3
  <2>5. CASE j < p[k].at
    <3>1. Tried(g, p, k, x) /\ k \in 1 .. Len(p)
      BY <1>3, <2>2, <2>4, <2>5 DEF Tried, n
    <3>2. x \in done \cup both \/ (k < Len(p) /\ x = p[k + 1].block)
      BY <3>1 DEF BreakInv
    <3>3. k < n => q[k + 1].block = p[k + 1].block
      <4>1. k < n => k + 1 \in 1 .. n
        BY <1>2, <2>4
      <4> QED BY <1>3, <1>5, <4>1
    <3> QED BY <1>5, <2>4, <3>2, <3>3 DEF n
  <2>6. CASE ~(j < p[k].at)
    <3>1. k = n
      BY <1>3, <2>2, <2>4, <2>6
    <3>2. p[n].at \in Nat /\ rest[n].at = p[n].at + 1
      BY <1>2, <1>3, <2>4, <3>1
    <3>3. j = p[n].at
      <4>1. j \in Nat /\ j < p[n].at + 1 /\ ~(j < p[n].at)
        BY <2>2, <2>4, <2>6, <3>1, <3>2
      <4> QED BY <3>2, <4>1
    <3>4. x = y
      BY <1>2, <1>3, <2>2, <2>4, <3>1, <3>3
    <3> QED BY <1>4, <1>5, <2>4, <3>1, <3>4
  <2> QED BY <2>5, <2>6
<1>9. BreakInv(g, entries, both, inside, left, q, done)
  BY <1>5, <1>7, <1>8 DEF BreakInv
<1> QED BY <1>9 DEF q, rest, new

\* A component that is searched first: its blocks with both flags are entries.
LEMMA BreakStarts ==
  ASSUME NEW g, NEW entries, NEW both, NEW inside, \A b \in inside : b \in both => b \in entries
  PROVE  BreakInv(g, entries, both, inside, inside, <<>>, {})
<1>1. <<>> \in Paths(inside) /\ Len(<<>>) = 0
  BY DEF Paths
<1>2. ~LoopIn([b \in DOMAIN g |-> ToSet(g[b])], {} \ both)
  BY DEF LoopIn
<1> QED BY <1>1, <1>2 DEF BreakInv

\* The next block is taken: an entry starts a path.
LEMMA BreakTakes ==
  ASSUME NEW B, NEW g \in JumpMaps(B), NEW entries, NEW both, NEW inside, NEW left, NEW done,
         BreakInv(g, entries, both, inside, left, <<>>, done),
         NEW b \in inside, NEW rest, left \subseteq rest \cup {b}, NEW p,
         \/ p = <<[block |-> b, at |-> 1]>>
         \/ p = <<>> /\ b \notin entries
  PROVE  BreakInv(g, entries, both, inside, rest, p, done)
<1> g \in [B -> Seq(B)]
  BY DEF JumpMaps
<1>1. /\ done \subseteq inside /\ ~LoopIn([x \in DOMAIN g |-> ToSet(g[x])], done \ both)
      /\ \A d \in done, y \in inside : y \in ToSet(g[d]) => y \in done \cup both
      /\ \A x \in inside : x \in entries \cup both => x \in done \/ x \in left \cap entries
  BY DEF BreakInv, OnPath
<1>2. CASE p = <<>> /\ b \notin entries
  <2>1. p \in Paths(inside) /\ Len(p) = 0
    BY <1>2 DEF Paths
  <2> QED BY <1>1, <1>2, <2>1 DEF BreakInv
<1>3. CASE p = <<[block |-> b, at |-> 1]>>
  <2>1. p \in Paths(inside) /\ Len(p) = 1 /\ DOMAIN p = {1} /\ p[1].block = b /\ p[1].at = 1
    BY <1>3 DEF Paths
  <2>2. \A k \in 1 .. Len(p) : \A y : ~Tried(g, p, k, y)
    BY <2>1 DEF Tried
  <2>3. \A x : OnPath(p, x) <=> x = b
    BY <2>1 DEF OnPath
  <2> QED BY <1>1, <2>1, <2>2, <2>3 DEF BreakInv
<1> QED BY <1>2, <1>3

\* At the end of the search of a component with an entry no loop stays whole.
LEMMA BreakEnds ==
  ASSUME NEW B, NEW g \in JumpMaps(B), NEW entries, NEW both, NEW inside \in SUBSET B, NEW done,
         BreakInv(g, entries, both, inside, {}, <<>>, done),
         NEW nx, nx = [b \in DOMAIN g |-> ToSet(g[b])],
         Component(nx, inside),
         NEW before \in SUBSET B, IsClosed(nx, before), IsClosed(nx, before \cup inside), before \cap inside = {},
         inside \cap entries # {}
  PROVE  ~LoopIn(nx, inside \ both)
<1> g \in [B -> Seq(B)]
  BY DEF JumpMaps
<1>1. /\ done \subseteq inside /\ ~LoopIn(nx, done \ both)
      /\ \A d \in done, y \in inside : y \in ToSet(g[d]) => y \in done \cup both
      /\ \A x \in inside : x \in entries \cup both => x \in done
  BY DEF BreakInv, OnPath
<1>2. nx \in [B -> SUBSET B] /\ \A b \in B : nx[b] = ToSet(g[b])
  <2>1. \A b \in B : ToSet(g[b]) \subseteq B
    <3> TAKE b \in B
    <3>1. g[b] \in Seq(B)
      OBVIOUS
    <3> QED BY <3>1 DEF ToSet
  <2> QED BY <2>1
<1>3. IsClosed(nx, done \cup before)
  <2> SUFFICES ASSUME NEW d \in done, NEW y \in nx[d] PROVE y \in done \cup before
    BY DEF IsClosed
  <2>1. y \in before \cup inside
    BY <1>1 DEF IsClosed
  <2>2. y \in inside => y \in done
    BY <1>1, <1>2
  <2> QED BY <2>1, <2>2
<1>4. PICK e \in inside : e \in entries
  OBVIOUS
<1>5. inside \subseteq done
  <2> SUFFICES ASSUME NEW b \in inside PROVE b \in done
    OBVIOUS
  <2>1. Leads(nx, e, b)
    BY <1>2 DEF Component
  <2>2. e \in done \cup before /\ done \cup before \in SUBSET B
    BY <1>1, <1>4
  <2>3. b \in done \cup before
    <3>1. DOMAIN nx = B
      BY <1>2
    <3> QED BY <1>3, <2>1, <2>2, <3>1 DEF Leads
  <2> QED BY <2>3
<1>6. inside = done
  BY <1>1, <1>5
<1> QED BY <1>1, <1>6

-----------------------------------------------------------------------------
(* The state of Tarjan's algorithm.                                        *)

FrontierBlocks(f) == {f[k].block : k \in DOMAIN f}
WalkedOf(g, V, f) ==
  {e \in V \X DOMAIN g :
     \E j \in 1 .. Len(g[e[1]]) : e[2] = g[e[1]][j] /\ \A k \in DOMAIN f : f[k].block = e[1] => j < f[k].at}
JumpsOf(g) == [b \in DOMAIN g |-> ToSet(g[b])]

Numbers(B) == UNION {[V -> Nat] : V \in SUBSET B}
RisesIn(idx, f) == \A i, j \in DOMAIN f : i < j => idx[f[i].block] < idx[f[j].block]
AscendsIn(idx, s) == \A i, j \in DOMAIN s : i < j => idx[s[i]] < idx[s[j]]

\* A frontier and a stack over the blocks V that idx numbers.
FrontierAt(B, g, V, idx, f) ==
  g \in JumpMaps(B) /\ V \in SUBSET B /\ idx \in Numberings(V) /\ f \in Paths(B)
    /\ FrontierBlocks(f) \subseteq V /\ RisesIn(idx, f)
StackAt(B, V, idx, s) ==
  V \in SUBSET B /\ idx \in Numberings(V) /\ s \in Seq(B) /\ ToSet(s) \subseteq V /\ AscendsIn(idx, s)

\* The top of the frontier has walked all its jumps; it jumps to v next.
Exhausted(g, f) == f # <<>> /\ Last(f).at > Len(g[Last(f).block])
JumpsOn(g, f, v) == f # <<>> /\ Last(f).at <= Len(g[Last(f).block]) /\ v = g[Last(f).block][Last(f).at]

TarjanOK(g, roots, t) ==
  /\ t \in [index : Numbers(DOMAIN g), low : Numbers(DOMAIN g),
            stack : Seq(DOMAIN g), frontier : Paths(DOMAIN g)]
  /\ \A v \in DOMAIN t.index : t.index[v] < Cardinality(DOMAIN t.index)
  /\ AscendsIn(t.index, t.stack)
  /\ RisesIn(t.index, t.frontier)
  /\ VisitInv(JumpsOf(g), roots, t.index, t.low, ToSet(t.stack), FrontierBlocks(t.frontier),
              WalkedOf(g, DOMAIN t.index, t.frontier))

\* The elements of a sequence.
LEMMA ToSetFacts ==
  ASSUME NEW S, NEW s \in Seq(S)
  PROVE  ToSet(s) = {s[j] : j \in 1 .. Len(s)} /\ ToSet(s) \subseteq S
<1>1. DOMAIN s = 1 .. Len(s) /\ \A j \in 1 .. Len(s) : s[j] \in S
  OBVIOUS
<1> QED BY <1>1 DEF ToSet

\* Jumps are a graph on the blocks.
LEMMA JumpsFacts ==
  ASSUME NEW B, NEW g \in JumpMaps(B)
  PROVE  /\ JumpsOf(g) \in EdgeMaps(B)
         /\ \A b \in B : \A y : y \in JumpsOf(g)[b] <=> \E j \in 1 .. Len(g[b]) : y = g[b][j]
<1>0. g \in [B -> Seq(B)]
  BY DEF JumpMaps
<1>1. \A b \in B : ToSet(g[b]) = {g[b][j] : j \in 1 .. Len(g[b])} /\ ToSet(g[b]) \subseteq B
  <2> TAKE b \in B
  <2>1. g[b] \in Seq(B)
    BY <1>0
  <2> QED BY <2>1, ToSetFacts
<1>2. DOMAIN JumpsOf(g) = B /\ \A b \in B : JumpsOf(g)[b] = ToSet(g[b])
  BY <1>0 DEF JumpsOf
<1>3. JumpsOf(g) \in [B -> SUBSET B]
  <2>1. \A b \in B : ToSet(g[b]) \subseteq B
    BY <1>1
  <2> QED BY <1>0, <2>1 DEF JumpsOf
<1>4. \A b \in B : \A y : y \in ToSet(g[b]) <=> \E j \in 1 .. Len(g[b]) : y = g[b][j]
  BY <1>1
<1> QED BY <1>2, <1>3, <1>4 DEF EdgeMaps

\* A block jumps to the members of its sequence.
LEMMA JumpsOfBlock ==
  ASSUME NEW B, NEW g \in JumpMaps(B), NEW b \in B
  PROVE  \A y : y \in JumpsOf(g)[b] <=> \E j \in 1 .. Len(g[b]) : y = g[b][j]
BY JumpsFacts

\* The parts of TarjanOK that the steps use.
LEMMA TarjanFacts ==
  ASSUME NEW B, NEW g \in JumpMaps(B), NEW roots, NEW t, TarjanOK(g, roots, t)
  PROVE  /\ DOMAIN t.index \subseteq B /\ DOMAIN t.low = DOMAIN t.index
         /\ t.index \in [DOMAIN t.index -> Nat] /\ t.low \in [DOMAIN t.index -> Nat]
         /\ t.index \in Numberings(DOMAIN t.index) /\ t.low \in Numberings(DOMAIN t.index)
         /\ t.stack \in Seq(B) /\ t.frontier \in Paths(B)
         /\ t \in [index : Numbers(B), low : Numbers(B), stack : Seq(B), frontier : Paths(B)]
         /\ ToSet(t.stack) \subseteq DOMAIN t.index
         /\ FrontierBlocks(t.frontier) \subseteq ToSet(t.stack)
         /\ \A x, y \in DOMAIN t.index : t.index[x] = t.index[y] => x = y
         /\ FrontierAt(B, g, DOMAIN t.index, t.index, t.frontier) /\ StackAt(B, DOMAIN t.index, t.index, t.stack)
         /\ VisitInv(JumpsOf(g), roots, t.index, t.low, ToSet(t.stack), FrontierBlocks(t.frontier),
                     WalkedOf(g, DOMAIN t.index, t.frontier))
<1>0. g \in [B -> Seq(B)]
  BY DEF JumpMaps
<1>1. t \in [index : Numbers(B), low : Numbers(B), stack : Seq(B), frontier : Paths(B)]
  BY <1>0 DEF TarjanOK
<1>2. VisitShape(JumpsOf(g), roots, t.index, t.low, ToSet(t.stack), FrontierBlocks(t.frontier),
                 WalkedOf(g, DOMAIN t.index, t.frontier))
  BY DEF TarjanOK, VisitInv
<1>3. /\ t.index \in [DOMAIN t.index -> Nat] /\ t.low \in [DOMAIN t.index -> Nat]
      /\ \A x, y \in DOMAIN t.index : t.index[x] = t.index[y] => x = y
      /\ ToSet(t.stack) \subseteq DOMAIN t.index /\ FrontierBlocks(t.frontier) \subseteq ToSet(t.stack)
      /\ DOMAIN t.index \subseteq DOMAIN JumpsOf(g)
  BY <1>2 DEF VisitShape
<1>4. DOMAIN JumpsOf(g) = B
  BY <1>0 DEF JumpsOf
<1>5. t.index \in Numberings(DOMAIN t.index) /\ t.low \in Numberings(DOMAIN t.index)
  BY <1>3 DEF Numberings
<1>6. /\ FrontierAt(B, g, DOMAIN t.index, t.index, t.frontier) /\ StackAt(B, DOMAIN t.index, t.index, t.stack)
      /\ VisitInv(JumpsOf(g), roots, t.index, t.low, ToSet(t.stack), FrontierBlocks(t.frontier),
                  WalkedOf(g, DOMAIN t.index, t.frontier))
  BY <1>1, <1>3, <1>4, <1>5 DEF TarjanOK, FrontierAt, StackAt
<1> QED BY <1>1, <1>3, <1>4, <1>5, <1>6

\* The block that is visited is the highest of the frontier, and is on the frontier once.
LEMMA TopFacts ==
  ASSUME NEW B, NEW g, NEW V, NEW idx, NEW f, FrontierAt(B, g, V, idx, f), f # <<>>
  PROVE  /\ Last(f).block \in FrontierBlocks(f)
         /\ \A x \in FrontierBlocks(f) : idx[x] <= idx[Last(f).block]
         /\ FrontierBlocks(Front(f)) = FrontierBlocks(f) \ {Last(f).block}
         /\ RisesIn(idx, Front(f)) /\ Front(f) \in Paths(B)
<1> USE DEF FrontierAt
<1>0. idx \in [V -> Nat]
  BY DEF Numberings
<1> DEFINE n == Len(f)
           r == Front(f)
           u == Last(f).block
<1>1. /\ n \in Nat \ {0} /\ DOMAIN f = 1 .. n /\ u = f[n].block
      /\ r \in Paths(B) /\ DOMAIN r = 1 .. n - 1 /\ \A k \in 1 .. n - 1 : r[k] = f[k]
  BY PathFacts
<1> HIDE DEF n, r, u
<1>2. \A k \in 1 .. n : f[k].block \in V /\ idx[f[k].block] \in Nat
  BY <1>1, <1>0 DEF FrontierBlocks
<1>3. \A k \in 1 .. n - 1 : idx[f[k].block] < idx[u]
  <2> TAKE k \in 1 .. n - 1
  <2>1. k \in 1 .. n /\ n \in 1 .. n /\ k < n
    BY <1>1
  <2> QED BY <1>1, <2>1 DEF RisesIn
<1>4. u \in FrontierBlocks(f)
  BY <1>1 DEF FrontierBlocks
<1>5. \A k \in 1 .. n : k = n \/ k \in 1 .. n - 1
  BY <1>1
<1>6. \A x \in FrontierBlocks(f) : idx[x] <= idx[u]
  <2> SUFFICES ASSUME NEW k \in 1 .. n PROVE idx[f[k].block] <= idx[u]
    BY <1>1 DEF FrontierBlocks
  <2>1. idx[u] \in Nat /\ idx[f[k].block] \in Nat
    BY <1>1, <1>2
  <2> QED BY <1>1, <1>3, <1>5, <2>1
<1>7. FrontierBlocks(r) = FrontierBlocks(f) \ {u}
  <2>1. \A k \in 1 .. n - 1 : f[k].block # u
    <3> TAKE k \in 1 .. n - 1
    <3>1. idx[u] \in Nat
      BY <1>1, <1>2
    <3> QED BY <1>3, <3>1
  <2>2. \A k \in 1 .. n - 1 : k \in 1 .. n
    BY <1>1
  <2>3. FrontierBlocks(r) = {f[k].block : k \in 1 .. n - 1}
    BY <1>1 DEF FrontierBlocks
  <2>4. FrontierBlocks(f) = {f[k].block : k \in 1 .. n}
    BY <1>1 DEF FrontierBlocks
  <2> QED BY <1>1, <1>5, <2>1, <2>2, <2>3, <2>4
<1>8. RisesIn(idx, r)
  <2>1. \A k \in 1 .. n - 1 : k \in 1 .. n
    BY <1>1
  <2> QED BY <1>1, <2>1 DEF RisesIn
<1> QED BY <1>1, <1>4, <1>6, <1>7, <1>8 DEF r, u

\* A frame that has no jump left has walked all of them.
LEMMA WalkedAll ==
  ASSUME NEW B, NEW g, NEW V, NEW idx, NEW f, FrontierAt(B, g, V, idx, f), Exhausted(g, f)
  PROVE  /\ \A y \in JumpsOf(g)[Last(f).block] : <<Last(f).block, y>> \in WalkedOf(g, V, f)
         /\ WalkedOf(g, V, Front(f)) = WalkedOf(g, V, f)
<1>a. FrontierAt(B, g, V, idx, f) /\ f # <<>>
  BY DEF Exhausted
<1> USE DEF FrontierAt, Exhausted
<1>0. idx \in [V -> Nat] /\ g \in [B -> Seq(B)]
  BY DEF Numberings, JumpMaps
<1> DEFINE n == Len(f)
           r == Front(f)
           u == Last(f).block
<1>1. /\ n \in Nat \ {0} /\ DOMAIN f = 1 .. n /\ u = f[n].block /\ Last(f) = f[n]
      /\ DOMAIN r = 1 .. n - 1 /\ \A k \in 1 .. n - 1 : r[k] = f[k]
      /\ \A k \in 1 .. n : f[k].at \in Nat
  <2>1. \A k \in 1 .. n : f[k].at \in Nat
    BY PathTypes
  <2> QED BY <2>1, PathFacts
<1>2. u \in V /\ u \in B /\ FrontierBlocks(r) = FrontierBlocks(f) \ {u}
  BY ONLY <1>a, TopFacts
<1>3. f[n].at > Len(g[u]) /\ Len(g[u]) \in Nat /\ DOMAIN g = B
  <2>1. g[u] \in Seq(B)
    BY <1>2, <1>0
  <2> QED BY <1>1, <2>1, <1>0
<1> HIDE DEF n, r, u
<1>4. \A k \in 1 .. n : k = n \/ k \in 1 .. n - 1
  BY <1>1
<1>5. \A k \in 1 .. n - 1 : f[k].block # u /\ k \in 1 .. n
  <2> TAKE k \in 1 .. n - 1
  <2>1. r[k].block \in FrontierBlocks(r)
    BY <1>1 DEF FrontierBlocks
  <2> QED BY <1>1, <1>2, <2>1
<1>6. \A k \in 1 .. n : f[k].block = u => k = n
  BY <1>4, <1>5
<1>7. \A j \in 1 .. Len(g[u]) : j < f[n].at
  BY <1>1, <1>3
<1>8. \A y \in JumpsOf(g)[u] : <<u, y>> \in WalkedOf(g, V, f)
  <2> SUFFICES ASSUME NEW j \in 1 .. Len(g[u]) PROVE <<u, g[u][j]>> \in WalkedOf(g, V, f)
    <3>1. \A y : y \in JumpsOf(g)[u] <=> \E j \in 1 .. Len(g[u]) : y = g[u][j]
      BY <1>2, JumpsOfBlock
    <3> QED BY <3>1
  <2>1. \A k \in DOMAIN f : f[k].block = u => j < f[k].at
    BY <1>1, <1>6, <1>7
  <2>2. g[u][j] \in B
    <3>1. g[u] \in Seq(B)
      BY <1>2, <1>0
    <3> QED BY <3>1
  <2> QED BY <1>2, <1>3, <2>1, <2>2 DEF WalkedOf
<1>9. ASSUME NEW x \in V, NEW j \in 1 .. Len(g[x])
      PROVE  (\A k \in DOMAIN f : f[k].block = x => j < f[k].at)
              <=> (\A k \in DOMAIN r : r[k].block = x => j < r[k].at)
  <2>1. (\A k \in 1 .. n : f[k].block = x => j < f[k].at) => (\A k \in 1 .. n - 1 : r[k].block = x => j < r[k].at)
    BY <1>1, <1>5
  <2>2. ASSUME \A k \in 1 .. n - 1 : r[k].block = x => j < r[k].at, NEW k \in 1 .. n, f[k].block = x
        PROVE  j < f[k].at
    <3>1. CASE k = n
      BY <1>1, <1>7, <2>2, <3>1
    <3>2. CASE k \in 1 .. n - 1
      BY <1>1, <2>2, <3>2
    <3> QED BY <1>4, <3>1, <3>2
  <2> QED BY <1>1, <2>1, <2>2
<1>10. WalkedOf(g, V, r) = WalkedOf(g, V, f)
  <2>1. \A e \in V \X DOMAIN g : e[1] \in V
    OBVIOUS
  <2> QED BY <1>9, <2>1 DEF WalkedOf
<1> QED BY <1>8, <1>10 DEF r, u

\* The frontier with one more jump tried by its top.
Tries(f) == [f EXCEPT ![Len(f)].at = @ + 1]

\* Another jump tried by the top of the frontier is another one walked.
LEMMA WalkedOneMore ==
  ASSUME NEW B, NEW g, NEW V, NEW idx, NEW f, FrontierAt(B, g, V, idx, f),
         NEW v, JumpsOn(g, f, v), NEW r, r = Tries(f)
  PROVE  /\ r \in Paths(B) /\ FrontierBlocks(r) = FrontierBlocks(f) /\ RisesIn(idx, r)
         /\ Len(r) = Len(f) /\ DOMAIN r = 1 .. Len(f) /\ \A k \in 1 .. Len(f) : r[k].block = f[k].block
         /\ v \in JumpsOf(g)[Last(f).block]
         /\ WalkedOf(g, V, r) = WalkedOf(g, V, f) \cup {<<Last(f).block, v>>}
<1>a. FrontierAt(B, g, V, idx, f) /\ f # <<>>
  BY DEF JumpsOn
<1> USE DEF FrontierAt, JumpsOn
<1>0. idx \in [V -> Nat] /\ g \in [B -> Seq(B)]
  BY DEF Numberings, JumpMaps
<1> DEFINE n == Len(f)
           u == Last(f).block
           a == Last(f).at
<1>b. v = g[u][a]
  OBVIOUS
<1>1. /\ n \in Nat \ {0} /\ DOMAIN f = 1 .. n /\ u = f[n].block /\ a = f[n].at
      /\ Last(f) \in [block : B, at : Nat \ {0}] /\ Last(f) = f[n]
      /\ \A k \in 1 .. n : f[k] \in [block : B, at : Nat \ {0}]
  <2>1. \A k \in 1 .. n : f[k] \in [block : B, at : Nat \ {0}]
    BY PathTypes
  <2> QED BY <2>1, PathFacts
<1>2. u \in V /\ u \in B /\ FrontierBlocks(Front(f)) = FrontierBlocks(f) \ {u}
  BY ONLY <1>a, TopFacts
<1>3. a \in 1 .. Len(g[u]) /\ v \in B /\ DOMAIN g = B
  <2>1. g[u] \in Seq(B)
    BY <1>2, <1>0
  <2>2. a \in Nat \ {0} /\ a <= Len(g[u])
    BY <1>1
  <2>3. a \in 1 .. Len(g[u])
    BY <2>1, <2>2
  <2> QED BY <2>1, <2>3, <1>0
<1>4. /\ r \in Paths(B) /\ Len(r) = n /\ DOMAIN r = 1 .. n
      /\ \A k \in 1 .. n : r[k].block = f[k].block /\ r[k].at = IF k = n THEN a + 1 ELSE f[k].at
  <2> DEFINE F == [block : B, at : Nat \ {0}]
             e == [Last(f) EXCEPT !.at = @ + 1]
  <2>1. e \in F /\ e.block = u /\ e.at = a + 1
    <3> DEFINE top == Last(f)
    <3>1. top \in F /\ top.block = u /\ top.at = a /\ e = [top EXCEPT !.at = @ + 1]
      BY <1>1
    <3> HIDE DEF top, u, a, e
    <3>2. e \in F /\ e.block = top.block /\ e.at = top.at + 1
      BY ONLY <3>1
    <3> QED BY <3>1, <3>2
  <2>2. r = [f EXCEPT ![n] = e]
    BY <1>1 DEF Tries
  <2>3. f \in Seq(F) /\ n = Len(f) /\ n \in 1 .. Len(f) /\ f \in [1 .. Len(f) -> F] /\ Len(f) \in Nat
    BY <1>1 DEF Paths
  <2> HIDE DEF F, e, n
  <2>4. r \in [1 .. Len(f) -> F] /\ \A k \in 1 .. Len(f) : r[k] = IF k = n THEN e ELSE f[k]
    BY <2>1, <2>2, <2>3
  <2>5. r \in Seq(F) /\ Len(r) = Len(f) /\ DOMAIN r = 1 .. Len(f)
    <3> DEFINE m == Len(f)
    <3>1. m \in Nat /\ r \in [1 .. m -> F]
      BY <2>3, <2>4
    <3> HIDE DEF m
    <3>2. r \in Seq(F) /\ Len(r) = m /\ DOMAIN r = 1 .. m
      BY ONLY <3>1
    <3> QED BY <3>2 DEF m
  <2>6. \A k \in 1 .. n : r[k].block = f[k].block /\ r[k].at = IF k = n THEN a + 1 ELSE f[k].at
    BY <1>1, <2>1, <2>3, <2>4
  <2> QED BY <2>3, <2>5, <2>6 DEF F, Paths
<1> HIDE DEF n, u, a
<1>5. FrontierBlocks(r) = FrontierBlocks(f)
  BY <1>1, <1>4 DEF FrontierBlocks
<1>6. RisesIn(idx, r)
  BY <1>1, <1>4 DEF RisesIn
<1>7. v \in JumpsOf(g)[u]
  <2>1. \A y : y \in JumpsOf(g)[u] <=> \E j \in 1 .. Len(g[u]) : y = g[u][j]
    BY <1>2, JumpsOfBlock
  <2> QED BY <1>3, <1>b, <2>1
<1>8. \A k \in 1 .. n : f[k].block = u => k = n
  <2> TAKE k \in 1 .. n
  <2> SUFFICES ASSUME f[k].block = u, k # n PROVE FALSE
    OBVIOUS
  <2>1. k \in 1 .. n - 1
    BY <1>1
  <2>2. Front(f)[k] = f[k] /\ k \in DOMAIN Front(f)
    BY <2>1, PathFacts DEF n
  <2> QED BY <1>2, <2>2 DEF FrontierBlocks
<1>9. ASSUME NEW x \in V, NEW j \in 1 .. Len(g[x])
      PROVE  (\A k \in DOMAIN r : r[k].block = x => j < r[k].at)
              <=> (\A k \in DOMAIN f : f[k].block = x => j < f[k].at) \/ (x = u /\ j = a)
  <2>1. j \in Nat /\ a \in Nat /\ \A k \in 1 .. n : f[k].at \in Nat
    BY <1>1, <1>3
  <2>2. CASE x # u
    BY <1>1, <1>4, <2>2
  <2>3. CASE x = u
    <3>1. n \in 1 .. n /\ r[n].block = u /\ r[n].at = a + 1 /\ \A k \in 1 .. n : r[k].block = u => k = n
      BY <1>1, <1>4, <1>8
    <3>2. (\A k \in DOMAIN r : r[k].block = x => j < r[k].at) <=> j < a + 1
      BY <1>4, <2>3, <3>1
    <3>3. (\A k \in DOMAIN f : f[k].block = x => j < f[k].at) <=> j < a
      BY <1>1, <1>8, <2>3, <3>1
    <3> QED BY <2>1, <2>3, <3>2, <3>3
  <2> QED BY <2>2, <2>3
<1>10. WalkedOf(g, V, r) = WalkedOf(g, V, f) \cup {<<u, v>>}
  <2>1. \A e \in V \X DOMAIN g : e[1] \in V /\ e = <<e[1], e[2]>>
    OBVIOUS
  <2>2. <<u, v>> \in V \X DOMAIN g
    BY <1>2, <1>3
  <2>3. ASSUME NEW e \in WalkedOf(g, V, r) PROVE e \in WalkedOf(g, V, f) \cup {<<u, v>>}
    <3>1. e \in V \X DOMAIN g
      BY <2>3 DEF WalkedOf
    <3>2. PICK j \in 1 .. Len(g[e[1]]) : e[2] = g[e[1]][j] /\ \A k \in DOMAIN r : r[k].block = e[1] => j < r[k].at
      BY <2>3 DEF WalkedOf
    <3>3. CASE e[1] = u /\ j = a
      BY <1>b, <2>1, <3>1, <3>2, <3>3
    <3>4. CASE ~(e[1] = u /\ j = a)
      <4>1. \A k \in DOMAIN f : f[k].block = e[1] => j < f[k].at
        BY <1>9, <2>1, <3>1, <3>2, <3>4
      <4> QED BY <3>1, <3>2, <4>1 DEF WalkedOf
    <3> QED BY <3>3, <3>4
  <2>4. ASSUME NEW e \in WalkedOf(g, V, f) PROVE e \in WalkedOf(g, V, r)
    <3>1. e \in V \X DOMAIN g
      BY <2>4 DEF WalkedOf
    <3>2. PICK j \in 1 .. Len(g[e[1]]) : e[2] = g[e[1]][j] /\ \A k \in DOMAIN f : f[k].block = e[1] => j < f[k].at
      BY <2>4 DEF WalkedOf
    <3>3. \A k \in DOMAIN r : r[k].block = e[1] => j < r[k].at
      BY <1>9, <2>1, <3>1, <3>2
    <3> QED BY <3>1, <3>2, <3>3 DEF WalkedOf
  <2>5. <<u, v>> \in WalkedOf(g, V, r)
    <3>1. \A k \in DOMAIN r : r[k].block = u => a < r[k].at
      BY <1>2, <1>3, <1>9
    <3> DEFINE e == <<u, v>>
    <3>2. e \in V \X DOMAIN g /\ e[1] = u /\ e[2] = g[u][a]
      BY <1>b, <2>2
    <3> HIDE DEF e
    <3>3. e \in WalkedOf(g, V, r)
      BY <1>3, <3>1, <3>2 DEF WalkedOf
    <3> QED BY <3>3 DEF e
  <2> QED BY <2>3, <2>4, <2>5
<1> QED BY <1>4, <1>5, <1>6, <1>7, <1>10 DEF n, u, a

-----------------------------------------------------------------------------
(* A block is entered.                                                     *)

\* A block that gets the next number.
NewNumber(B, V, idx, v, n) == v \in B /\ v \notin V /\ n \in Nat /\ \A x \in V : idx[x] < n

\* A frame that is pushed has walked nothing yet.
LEMMA PushFacts ==
  ASSUME NEW B, NEW g, NEW V, NEW idx, NEW f, FrontierAt(B, g, V, idx, f),
         NEW v, NEW n, NewNumber(B, V, idx, v, n), NEW q, q = Push(f, v)
  PROVE  /\ q \in Paths(B) /\ FrontierBlocks(q) = FrontierBlocks(f) \cup {v}
         /\ RisesIn(Extend(idx, v, n), q) /\ WalkedOf(g, V \cup {v}, q) = WalkedOf(g, V, f)
<1> USE DEF FrontierAt, NewNumber
<1>0. g \in [B -> Seq(B)] /\ idx \in [V -> Nat]
  BY DEF JumpMaps, Numberings
<1> DEFINE F == [block : B, at : Nat \ {0}]
           m == Len(f)
           new == [block |-> v, at |-> 1]
           i == Extend(idx, v, n)
<1>1. new \in F /\ new.block = v /\ new.at = 1
  OBVIOUS
<1>2. f \in Seq(F) /\ m \in Nat /\ DOMAIN f = 1 .. m /\ \A k \in 1 .. m : f[k].block \in B
  BY PathTypes DEF Paths
<1>3. DOMAIN g = B
  BY <1>0
<1> HIDE DEF F, new, m
<1>4. q \in Seq(F) /\ Len(q) = m + 1 /\ q[m + 1] = new /\ \A k \in 1 .. m : q[k] = f[k]
  <2>1. q = Append(f, new) /\ f \in Seq(F) /\ new \in F /\ m = Len(f)
    BY <1>1, <1>2 DEF new, m, Push
  <2> QED BY ONLY <2>1, AppendProperties
<1>5. DOMAIN q = 1 .. m + 1 /\ \A k \in 1 .. m + 1 : k = m + 1 \/ k \in 1 .. m
  BY <1>2, <1>4
<1>6. \A k \in 1 .. m : k \in 1 .. m + 1 /\ f[k].block \in V /\ q[k].block = f[k].block /\ q[k].at = f[k].at
  BY <1>2, <1>4 DEF FrontierBlocks
<1>7. m + 1 \in 1 .. m + 1 /\ q[m + 1].block = v /\ q[m + 1].at = 1
  BY <1>1, <1>2, <1>4
<1>8. FrontierBlocks(q) = FrontierBlocks(f) \cup {v}
  <2>1. FrontierBlocks(q) = {q[k].block : k \in 1 .. m + 1} /\ FrontierBlocks(f) = {f[k].block : k \in 1 .. m}
    BY <1>2, <1>5 DEF FrontierBlocks
  <2> QED BY <1>5, <1>6, <1>7, <2>1
<1>9. i[v] = n /\ \A x \in V : i[x] = idx[x] /\ i[x] < n /\ i[x] \in Nat
  <2>1. DOMAIN idx = V /\ \A x \in V : idx[x] \in Nat
    BY <1>0
  <2> QED BY <2>1 DEF Extend
<1> HIDE DEF i
<1>10. RisesIn(i, q)
  <2> SUFFICES ASSUME NEW j \in 1 .. m + 1, NEW k \in 1 .. m + 1, j < k
               PROVE  i[q[j].block] < i[q[k].block]
    BY <1>5 DEF RisesIn
  <2>1. j \in 1 .. m
    BY <1>2
  <2>2. CASE k = m + 1
    BY <1>6, <1>7, <1>9, <2>1, <2>2
  <2>3. CASE k \in 1 .. m
    <3>1. idx[f[j].block] < idx[f[k].block]
      BY <1>2, <2>1, <2>3 DEF RisesIn
    <3> QED BY <1>6, <1>9, <2>1, <2>3, <3>1
  <2> QED BY <1>5, <2>2, <2>3
<1>11. ASSUME NEW x \in V, NEW j
       PROVE  (\A k \in DOMAIN q : q[k].block = x => j < q[k].at)
               <=> (\A k \in DOMAIN f : f[k].block = x => j < f[k].at)
  BY <1>2, <1>5, <1>6, <1>7
<1>12. ASSUME NEW j \in Nat \ {0} PROVE ~ \A k \in DOMAIN q : q[k].block = v => j < q[k].at
  BY <1>5, <1>7
<1>13. WalkedOf(g, V \cup {v}, q) = WalkedOf(g, V, f)
  <2>1. ASSUME NEW e \in WalkedOf(g, V \cup {v}, q) PROVE e \in WalkedOf(g, V, f)
    <3>1. e \in (V \cup {v}) \X B
      BY <1>3, <2>1 DEF WalkedOf
    <3>2. PICK j \in 1 .. Len(g[e[1]]) : e[2] = g[e[1]][j] /\ \A k \in DOMAIN q : q[k].block = e[1] => j < q[k].at
      BY <2>1 DEF WalkedOf
    <3>3. j \in Nat \ {0} /\ e[1] \in V \cup {v} /\ e[2] \in B /\ e = <<e[1], e[2]>>
      BY <3>1
    <3>4. e[1] \in V
      BY <1>12, <3>2, <3>3
    <3>5. e \in V \X B
      BY <3>3, <3>4
    <3>6. \A k \in DOMAIN f : f[k].block = e[1] => j < f[k].at
      BY <1>11, <3>2, <3>4
    <3> QED BY <1>3, <3>2, <3>5, <3>6 DEF WalkedOf
  <2>2. ASSUME NEW e \in WalkedOf(g, V, f) PROVE e \in WalkedOf(g, V \cup {v}, q)
    <3>1. e \in V \X B
      BY <1>3, <2>2 DEF WalkedOf
    <3>2. PICK j \in 1 .. Len(g[e[1]]) : e[2] = g[e[1]][j] /\ \A k \in DOMAIN f : f[k].block = e[1] => j < f[k].at
      BY <2>2 DEF WalkedOf
    <3>3. e[1] \in V /\ e[2] \in B /\ e = <<e[1], e[2]>>
      BY <3>1
    <3>4. e \in (V \cup {v}) \X B
      BY <3>3
    <3>5. \A k \in DOMAIN q : q[k].block = e[1] => j < q[k].at
      BY <1>11, <3>2, <3>3
    <3> QED BY <1>3, <3>2, <3>4, <3>5 DEF WalkedOf
  <2> QED BY <2>1, <2>2
<1>14. q \in Paths(B)
  BY <1>4 DEF F, Paths
<1> QED BY <1>8, <1>10, <1>13, <1>14 DEF i

Pushed(s, v) == Append(s, v)

\* A block that is pushed on the stack has the highest number.
LEMMA StackPush ==
  ASSUME NEW B, NEW V, NEW idx, NEW s, StackAt(B, V, idx, s),
         NEW v, NEW n, NewNumber(B, V, idx, v, n), NEW q, q = Pushed(s, v)
  PROVE  q \in Seq(B) /\ ToSet(q) = ToSet(s) \cup {v} /\ AscendsIn(Extend(idx, v, n), q)
<1> USE DEF StackAt, NewNumber
<1>0. idx \in [V -> Nat]
  BY DEF Numberings
<1> DEFINE m == Len(s)
           i == Extend(idx, v, n)
<1>1. q \in Seq(B) /\ Len(q) = m + 1 /\ q[m + 1] = v /\ \A k \in 1 .. m : q[k] = s[k]
  BY AppendProperties DEF Pushed
<1>2. m \in Nat /\ DOMAIN s = 1 .. m /\ DOMAIN q = 1 .. m + 1
  BY <1>1
<1> HIDE DEF m
<1>3. \A k \in 1 .. m + 1 : k = m + 1 \/ k \in 1 .. m
  BY <1>2
<1>4. \A k \in 1 .. m : k \in 1 .. m + 1 /\ s[k] \in V
  BY <1>2 DEF ToSet
<1>5. m + 1 \in 1 .. m + 1
  BY <1>2
<1>6. ToSet(q) = ToSet(s) \cup {v}
  BY <1>1, <1>2, <1>3, <1>4, <1>5 DEF ToSet
<1>7. i[v] = n /\ \A x \in V : i[x] = idx[x] /\ i[x] < n /\ i[x] \in Nat
  <2>1. DOMAIN idx = V /\ \A x \in V : idx[x] \in Nat
    BY <1>0
  <2> QED BY <2>1 DEF Extend
<1> HIDE DEF i
<1>8. AscendsIn(i, q)
  <2> SUFFICES ASSUME NEW j \in 1 .. m + 1, NEW k \in 1 .. m + 1, j < k
               PROVE  i[q[j]] < i[q[k]]
    BY <1>2 DEF AscendsIn
  <2>1. j \in 1 .. m
    BY <1>2
  <2>2. CASE k = m + 1
    BY <1>1, <1>4, <1>7, <2>1, <2>2
  <2>3. CASE k \in 1 .. m
    <3>1. idx[s[j]] < idx[s[k]]
      BY <1>2, <2>1, <2>3 DEF AscendsIn
    <3> QED BY <1>1, <1>4, <1>7, <2>1, <2>3, <3>1
  <2> QED BY <1>3, <2>2, <2>3
<1> QED BY <1>1, <1>6, <1>8 DEF i

\* What is left to show of a new state of the search.
LEMMA TarjanBuilt ==
  ASSUME NEW B, NEW g \in JumpMaps(B), NEW roots, NEW t,
         NEW idx \in Numbers(B), NEW low \in Numbers(B), NEW s \in Seq(B), NEW f \in Paths(B),
         t = [index |-> idx, low |-> low, stack |-> s, frontier |-> f],
         \A v \in DOMAIN idx : idx[v] < Cardinality(DOMAIN idx),
         AscendsIn(idx, s), RisesIn(idx, f),
         VisitInv(JumpsOf(g), roots, idx, low, ToSet(s), FrontierBlocks(f), WalkedOf(g, DOMAIN idx, f))
  PROVE  TarjanOK(g, roots, t)
<1>0. g \in [B -> Seq(B)]
  BY DEF JumpMaps
<1>1. DOMAIN g = B
  BY <1>0
<1>2. t.index = idx /\ t.low = low /\ t.stack = s /\ t.frontier = f
  OBVIOUS
<1>3. t \in [index : Numbers(B), low : Numbers(B), stack : Seq(B), frontier : Paths(B)]
  OBVIOUS
<1> QED BY <1>1, <1>2, <1>3 DEF TarjanOK, AscendsIn

\* The blocks that the search has visited and that have left the stack.
Finished(t) == DOMAIN t.index \ ToSet(t.stack)

\* Numbers of the visited blocks are numbers.
LEMMA NumbersOf ==
  ASSUME NEW B, NEW V \in SUBSET B, NEW f \in Numberings(V)
  PROVE  f \in Numbers(B)
BY DEF Numbers, Numberings

\* How a block comes to be entered: as a root, or from the top of the frontier.
Enters(g, roots, fr, f, v) ==
  \/ fr = <<>> /\ f = fr /\ v \in roots
  \/ f = Tries(fr) /\ JumpsOn(g, fr, v)

\* The frontier before a block is pushed on it, and the jump it was entered by.
LEMMA EnterFrontier ==
  ASSUME NEW B, NEW g, NEW roots, NEW V, NEW idx, NEW fr, FrontierAt(B, g, V, idx, fr),
         NEW f, NEW v, Enters(g, roots, fr, f, v)
  PROVE  /\ FrontierAt(B, g, V, idx, f) /\ FrontierBlocks(f) = FrontierBlocks(fr)
         /\ \E added : /\ Adds(JumpsOf(g), roots, idx, FrontierBlocks(fr), v, added)
                       /\ WalkedOf(g, V, f) = WalkedOf(g, V, fr) \cup added
<1>1. CASE fr = <<>> /\ f = fr /\ v \in roots
  <2>1. FrontierBlocks(fr) = {}
    BY <1>1 DEF FrontierBlocks
  <2>2. Adds(JumpsOf(g), roots, idx, FrontierBlocks(fr), v, {}) /\ WalkedOf(g, V, f) = WalkedOf(g, V, fr) \cup {}
    BY <1>1, <2>1 DEF Adds
  <2> QED BY <1>1, <2>2
<1>2. CASE f = Tries(fr) /\ JumpsOn(g, fr, v)
  <2> DEFINE u == Last(fr).block
  <2>1. /\ f \in Paths(B) /\ FrontierBlocks(f) = FrontierBlocks(fr) /\ RisesIn(idx, f)
        /\ v \in JumpsOf(g)[u] /\ WalkedOf(g, V, f) = WalkedOf(g, V, fr) \cup {<<u, v>>}
    BY <1>2, WalkedOneMore
  <2>2. u \in FrontierBlocks(fr) /\ \A y \in FrontierBlocks(fr) : idx[y] <= idx[u]
    BY <1>2, TopFacts DEF JumpsOn
  <2>3. Adds(JumpsOf(g), roots, idx, FrontierBlocks(fr), v, {<<u, v>>})
    BY <2>1, <2>2 DEF Adds
  <2>4. FrontierAt(B, g, V, idx, f)
    BY <2>1 DEF FrontierAt
  <2> QED BY <2>1, <2>3, <2>4
<1> QED BY <1>1, <1>2 DEF Enters

\* The stack p and the frontier q with which v is entered, for the stack st and the frontier fr.
Entered(B, g, roots, V, idx, low, st, v, n, p, q) ==
  /\ p \in Seq(B) /\ ToSet(p) = ToSet(st) \cup {v} /\ AscendsIn(Extend(idx, v, n), p)
  /\ q \in Paths(B) /\ RisesIn(Extend(idx, v, n), q)
  /\ VisitInv(JumpsOf(g), roots, Extend(idx, v, n), Extend(low, v, n), ToSet(p), FrontierBlocks(q),
              WalkedOf(g, V \cup {v}, q))

\* The invariant after a block is entered.
LEMMA EnterParts ==
  ASSUME NEW B, NEW g, NEW roots, NEW V, NEW idx, NEW low, NEW st, NEW fr,
         FrontierAt(B, g, V, idx, fr), StackAt(B, V, idx, st),
         VisitInv(JumpsOf(g), roots, idx, low, ToSet(st), FrontierBlocks(fr), WalkedOf(g, V, fr)),
         NEW v, NEW n, NewNumber(B, V, idx, v, n),
         NEW f, Enters(g, roots, fr, f, v), NEW p, p = Pushed(st, v), NEW q, q = Push(f, v)
  PROVE  Entered(B, g, roots, V, idx, low, st, v, n, p, q)
<1>1. DOMAIN idx = V /\ g \in JumpMaps(B)
  BY DEF FrontierAt, Numberings
<1>2. FrontierAt(B, g, V, idx, f) /\ FrontierBlocks(f) = FrontierBlocks(fr)
  BY EnterFrontier
<1>3. PICK added : /\ Adds(JumpsOf(g), roots, idx, FrontierBlocks(fr), v, added)
                   /\ WalkedOf(g, V, f) = WalkedOf(g, V, fr) \cup added
  BY EnterFrontier
<1>4. /\ q \in Paths(B) /\ FrontierBlocks(q) = FrontierBlocks(f) \cup {v}
      /\ RisesIn(Extend(idx, v, n), q) /\ WalkedOf(g, V \cup {v}, q) = WalkedOf(g, V, f)
  BY <1>2, PushFacts
<1>5. p \in Seq(B) /\ ToSet(p) = ToSet(st) \cup {v} /\ AscendsIn(Extend(idx, v, n), p)
  <2>1. StackAt(B, V, idx, st) /\ NewNumber(B, V, idx, v, n) /\ p = Pushed(st, v)
    OBVIOUS
  <2> QED BY ONLY <2>1, StackPush
<1>6. JumpsOf(g) \in EdgeMaps(B)
  BY <1>1, JumpsFacts
<1>7. VisitInv(JumpsOf(g), roots, Extend(idx, v, n), Extend(low, v, n), ToSet(st) \cup {v},
               FrontierBlocks(fr) \cup {v}, WalkedOf(g, V, fr) \cup added)
  <2>1. v \in B /\ n \in Nat /\ v \notin DOMAIN idx /\ \A x \in DOMAIN idx : idx[x] < n
    BY <1>1 DEF NewNumber
  <2> QED BY <1>3, <1>6, <2>1, EnterKeeps
<1> QED BY <1>2, <1>3, <1>4, <1>5, <1>7 DEF Entered

\* A block is entered.
LEMMA EnterStep ==
  ASSUME NEW B, IsFiniteSet(B), NEW g \in JumpMaps(B), NEW roots, NEW t, TarjanOK(g, roots, t),
         NEW v \in B, v \notin DOMAIN t.index, NEW s, NEW f, s = [t EXCEPT !.frontier = f],
         Enters(g, roots, t.frontier, f, v), NEW e, e = EnterBlock(s, v)
  PROVE  TarjanOK(g, roots, e) /\ Finished(e) = Finished(t)
<1> DEFINE idx == t.index
           low == t.low
           st == t.stack
           fr == t.frontier
           V == DOMAIN idx
           n == Cardinality(V)
           i == Extend(idx, v, n)
           l == Extend(low, v, n)
           p == Pushed(st, v)
           q == Push(f, v)
<1>1. /\ V \subseteq B /\ DOMAIN low = V /\ idx \in Numberings(V) /\ low \in Numberings(V)
      /\ st \in Seq(B) /\ fr \in Paths(B) /\ ToSet(st) \subseteq V /\ FrontierBlocks(fr) \subseteq ToSet(st)
      /\ VisitInv(JumpsOf(g), roots, idx, low, ToSet(st), FrontierBlocks(fr), WalkedOf(g, V, fr))
      /\ t \in [index : Numbers(B), low : Numbers(B), stack : Seq(B), frontier : Paths(B)]
  BY TarjanFacts
<1>2. (\A x \in V : idx[x] < n) /\ AscendsIn(idx, st) /\ RisesIn(idx, fr)
  BY DEF TarjanOK, AscendsIn
<1>3. s.index = idx /\ s.low = low /\ s.stack = st /\ s.frontier = f
  BY <1>1
<1>4. /\ n \in Nat /\ Cardinality(V \cup {v}) = n + 1
  <2>1. IsFiniteSet(V)
    BY <1>1, FS_Subset
  <2> QED BY <2>1, FS_CardinalityType, FS_AddElement
<1>5. e = [index |-> i, low |-> l, stack |-> p, frontier |-> q]
  <2>1. e = [index |-> Extend(s.index, v, Cardinality(DOMAIN s.index)),
             low |-> Extend(s.low, v, Cardinality(DOMAIN s.index)),
             stack |-> Pushed(s.stack, v), frontier |-> Push(s.frontier, v)]
    BY DEF EnterBlock, Extend, Push, Pushed
  <2> QED BY <1>3, <2>1
<1>6. v \notin V /\ FrontierBlocks(fr) \subseteq V
  BY <1>1
<1> HIDE DEF n
<1>7. /\ DOMAIN i = V \cup {v} /\ i \in Numberings(V \cup {v})
      /\ l \in Numberings(V \cup {v}) /\ V \cup {v} \in SUBSET B
      /\ \A x \in V \cup {v} : i[x] < n + 1
  <2>1. (\A x \in V : idx[x] \in Nat) /\ (\A x \in V : low[x] \in Nat)
    BY <1>1 DEF Numberings
  <2>2. i = [b \in V \cup {v} |-> IF b = v THEN n ELSE idx[b]] /\ l = [b \in V \cup {v} |-> IF b = v THEN n ELSE low[b]]
    BY <1>1 DEF Extend
  <2> HIDE DEF i, l, V, idx, low
  <2> QED BY <1>1, <1>2, <1>4, <2>1, <2>2 DEF Numberings
<1> HIDE DEF V, idx, low, st, fr, i, l, p, q
<1>8. /\ p \in Seq(B) /\ ToSet(p) = ToSet(st) \cup {v} /\ AscendsIn(i, p)
      /\ q \in Paths(B) /\ RisesIn(i, q)
      /\ VisitInv(JumpsOf(g), roots, i, l, ToSet(p), FrontierBlocks(q), WalkedOf(g, V \cup {v}, q))
  <2>1. p = Pushed(st, v) /\ q = Push(f, v) /\ Enters(g, roots, fr, f, v)
    BY DEF p, q, fr
  <2>2. FrontierAt(B, g, V, idx, fr) /\ StackAt(B, V, idx, st) /\ NewNumber(B, V, idx, v, n)
    BY <1>1, <1>2, <1>4, <1>6 DEF FrontierAt, StackAt, NewNumber
  <2>3. VisitInv(JumpsOf(g), roots, idx, low, ToSet(st), FrontierBlocks(fr), WalkedOf(g, V, fr))
    BY <1>1
  <2>4. i = Extend(idx, v, n) /\ l = Extend(low, v, n)
    BY DEF i, l
  <2>5. Entered(B, g, roots, V, idx, low, st, v, n, p, q)
    BY ONLY <2>1, <2>2, <2>3, EnterParts
  <2> QED BY ONLY <2>4, <2>5 DEF Entered
<1>9. i \in Numbers(B) /\ l \in Numbers(B)
  BY <1>7, NumbersOf
<1>10. \A x \in DOMAIN i : i[x] < Cardinality(DOMAIN i)
  BY <1>4, <1>7
<1>11. TarjanOK(g, roots, e)
  BY <1>5, <1>7, <1>8, <1>9, <1>10, TarjanBuilt
<1>12. Finished(e) = Finished(t)
  <2>1. e.index = i /\ e.stack = p
    BY <1>5
  <2> QED BY <1>6, <1>7, <1>8, <2>1 DEF Finished, V, idx, st
<1> QED BY <1>11, <1>12

-----------------------------------------------------------------------------
(* A block looks at a jump, and is left.                                   *)

\* What is left to show when the numbers stay the same.
LEMMA TarjanMade ==
  ASSUME NEW B, NEW g \in JumpMaps(B), NEW roots, NEW e, NEW V, NEW idx, NEW low, NEW st, NEW fr,
         FrontierAt(B, g, V, idx, fr), StackAt(B, V, idx, st), low \in Numberings(V),
         VisitInv(JumpsOf(g), roots, idx, low, ToSet(st), FrontierBlocks(fr), WalkedOf(g, V, fr)),
         \A x \in V : idx[x] < Cardinality(V),
         e = [index |-> idx, low |-> low, stack |-> st, frontier |-> fr]
  PROVE  TarjanOK(g, roots, e)
<1>1. /\ V \in SUBSET B /\ DOMAIN idx = V /\ idx \in Numberings(V) /\ st \in Seq(B) /\ fr \in Paths(B)
      /\ AscendsIn(idx, st) /\ RisesIn(idx, fr)
  BY DEF FrontierAt, StackAt, Numberings
<1>2. idx \in Numbers(B) /\ low \in Numbers(B)
  BY <1>1, NumbersOf
<1> QED BY <1>1, <1>2, TarjanBuilt

\* A jump to a block that was visited before lowers the top if the block is on the stack.
LowerTop(g, t, w) ==
  LET s == [t EXCEPT !.frontier = Tries(t.frontier)]
  IN  IF Contains(t.stack, w) THEN Lower(s, Last(t.frontier).block, t.index[w]) ELSE s

\* The invariant after a look.
LEMMA LookParts ==
  ASSUME NEW B, NEW g, NEW roots, NEW V, NEW idx, NEW low, NEW S, NEW fr, NEW w,
         FrontierAt(B, g, V, idx, fr), low \in Numberings(V), w \in V, JumpsOn(g, fr, w),
         VisitInv(JumpsOf(g), roots, idx, low, S, FrontierBlocks(fr), WalkedOf(g, V, fr)),
         NEW u, u = Last(fr).block, NEW l,
         l = IF w \in S THEN [low EXCEPT ![u] = IF idx[w] < low[u] THEN idx[w] ELSE low[u]] ELSE low,
         NEW f, f = Tries(fr)
  PROVE  /\ FrontierAt(B, g, V, idx, f) /\ l \in Numberings(V)
         /\ VisitInv(JumpsOf(g), roots, idx, l, S, FrontierBlocks(f), WalkedOf(g, V, f))
<1>1. g \in JumpMaps(B) /\ idx \in [V -> Nat] /\ DOMAIN idx = V /\ low \in [V -> Nat]
  BY DEF FrontierAt, Numberings
<1>2. /\ f \in Paths(B) /\ FrontierBlocks(f) = FrontierBlocks(fr) /\ RisesIn(idx, f)
      /\ w \in JumpsOf(g)[u] /\ WalkedOf(g, V, f) = WalkedOf(g, V, fr) \cup {<<u, w>>}
  BY WalkedOneMore
<1>3. FrontierAt(B, g, V, idx, f)
  BY <1>2 DEF FrontierAt
<1>4. u \in FrontierBlocks(fr) /\ (\A y \in FrontierBlocks(fr) : idx[y] <= idx[u]) /\ u \in V
  <2>1. fr # <<>>
    BY DEF JumpsOn
  <2>2. u \in FrontierBlocks(fr) /\ \A y \in FrontierBlocks(fr) : idx[y] <= idx[u]
    BY <2>1, TopFacts
  <2> QED BY <2>2 DEF FrontierAt
<1>5. /\ l \in [V -> Nat] /\ (\A x \in V : x # u => l[x] = low[x])
      /\ l[u] = IF w \in S /\ idx[w] < low[u] THEN idx[w] ELSE low[u]
  <2>1. idx[w] \in Nat /\ low[u] \in Nat
    BY <1>1, <1>4
  <2> QED BY <1>1, <1>4, <2>1
<1>6. Looks(JumpsOf(g), idx, low, S, FrontierBlocks(fr), u, w, l) /\ l \in Numberings(V)
  BY <1>1, <1>2, <1>4, <1>5 DEF Looks, Numberings
<1>7. JumpsOf(g) \in EdgeMaps(B)
  BY <1>1, JumpsFacts
<1>8. VisitInv(JumpsOf(g), roots, idx, l, S, FrontierBlocks(fr), WalkedOf(g, V, fr) \cup {<<u, w>>})
  <2>1. VisitInv(JumpsOf(g), roots, idx, low, S, FrontierBlocks(fr), WalkedOf(g, V, fr))
    OBVIOUS
  <2> QED BY ONLY <1>6, <1>7, <2>1, LookKeeps
<1> QED BY <1>2, <1>3, <1>6, <1>8

\* A look keeps the state of the search.
LEMMA LookStep ==
  ASSUME NEW B, NEW g \in JumpMaps(B), NEW roots, NEW t, TarjanOK(g, roots, t),
         NEW w, JumpsOn(g, t.frontier, w), w \in DOMAIN t.index, NEW e, e = LowerTop(g, t, w)
  PROVE  TarjanOK(g, roots, e) /\ Finished(e) = Finished(t)
<1> DEFINE idx == t.index
           low == t.low
           st == t.stack
           fr == t.frontier
           f == Tries(fr)
           V == DOMAIN idx
           u == Last(fr).block
           l == IF w \in ToSet(st) THEN [low EXCEPT ![u] = IF idx[w] < low[u] THEN idx[w] ELSE low[u]] ELSE low
<1>1. /\ low \in Numberings(V) /\ FrontierAt(B, g, V, idx, fr) /\ StackAt(B, V, idx, st)
      /\ VisitInv(JumpsOf(g), roots, idx, low, ToSet(st), FrontierBlocks(fr), WalkedOf(g, V, fr))
      /\ t \in [index : Numbers(B), low : Numbers(B), stack : Seq(B), frontier : Paths(B)]
  BY TarjanFacts
<1>2. \A x \in V : idx[x] < Cardinality(V)
  BY DEF TarjanOK
<1>3. Contains(st, w) <=> w \in ToSet(st)
  <2>1. DOMAIN st = 1 .. Len(st)
    BY <1>1
  <2> QED BY <2>1 DEF Contains, ToSet
<1>4. e = [index |-> idx, low |-> l, stack |-> st, frontier |-> f]
  BY <1>1, <1>3 DEF LowerTop, Lower
<1>5. w \in V /\ JumpsOn(g, fr, w)
  OBVIOUS
<1> HIDE DEF idx, low, st, fr, f, V, u, l
<1>6. /\ FrontierAt(B, g, V, idx, f) /\ l \in Numberings(V)
      /\ VisitInv(JumpsOf(g), roots, idx, l, ToSet(st), FrontierBlocks(f), WalkedOf(g, V, f))
  BY <1>1, <1>5, LookParts DEF l, u, f
<1>7. TarjanOK(g, roots, e)
  BY <1>1, <1>2, <1>4, <1>6, TarjanMade
<1>8. Finished(e) = Finished(t)
  BY <1>4 DEF Finished, idx, st
<1> QED BY <1>7, <1>8

\* The top of the frontier is left: its number counts for the block below it.
LEMMA LeaveParts ==
  ASSUME NEW B, NEW g, NEW roots, NEW V, NEW idx, NEW low, NEW S, NEW fr,
         FrontierAt(B, g, V, idx, fr), low \in Numberings(V), Exhausted(g, fr),
         VisitInv(JumpsOf(g), roots, idx, low, S, FrontierBlocks(fr), WalkedOf(g, V, fr)),
         NEW u, u = Last(fr).block, NEW f, f = Front(fr)
  PROVE  /\ FrontierAt(B, g, V, idx, f) /\ FrontierBlocks(f) = FrontierBlocks(fr) \ {u}
         /\ WalkedOf(g, V, f) = WalkedOf(g, V, fr)
         /\ AllWalked(JumpsOf(g), idx, FrontierBlocks(fr), WalkedOf(g, V, fr), u)
         /\ JumpsOf(g) \in EdgeMaps(B)
<1>1. g \in JumpMaps(B) /\ fr # <<>>
  BY DEF FrontierAt, Exhausted
<1>2. /\ u \in FrontierBlocks(fr) /\ (\A y \in FrontierBlocks(fr) : idx[y] <= idx[u])
      /\ FrontierBlocks(f) = FrontierBlocks(fr) \ {u} /\ RisesIn(idx, f) /\ f \in Paths(B)
  BY <1>1, TopFacts
<1>3. (\A y \in JumpsOf(g)[u] : <<u, y>> \in WalkedOf(g, V, fr)) /\ WalkedOf(g, V, f) = WalkedOf(g, V, fr)
  BY WalkedAll
<1>4. FrontierAt(B, g, V, idx, f)
  BY <1>2 DEF FrontierAt
<1>6. JumpsOf(g) \in EdgeMaps(B)
  BY <1>1, JumpsFacts
<1>7. AllWalked(JumpsOf(g), idx, FrontierBlocks(fr), WalkedOf(g, V, fr), u)
  BY <1>2, <1>3 DEF AllWalked
<1> QED BY <1>2, <1>3, <1>4, <1>6, <1>7

\* Leaving a block that closes nothing keeps the state of the search.
LEMMA LeaveStep ==
  ASSUME NEW B, NEW g \in JumpMaps(B), NEW roots, NEW t, TarjanOK(g, roots, t), Exhausted(g, t.frontier),
         NEW u, u = Last(t.frontier).block, t.low[u] # t.index[u], NEW e, e = Leave(t, u)
  PROVE  TarjanOK(g, roots, e) /\ Finished(e) = Finished(t)
<1> DEFINE idx == t.index
           low == t.low
           st == t.stack
           fr == t.frontier
           f == Front(fr)
           V == DOMAIN idx
           p == Last(f).block
           l == [low EXCEPT ![p] = IF low[u] < low[p] THEN low[u] ELSE low[p]]
<1>1. /\ low \in Numberings(V) /\ FrontierAt(B, g, V, idx, fr) /\ StackAt(B, V, idx, st) /\ Exhausted(g, fr)
      /\ VisitInv(JumpsOf(g), roots, idx, low, ToSet(st), FrontierBlocks(fr), WalkedOf(g, V, fr))
      /\ t \in [index : Numbers(B), low : Numbers(B), stack : Seq(B), frontier : Paths(B)]
  BY TarjanFacts
<1>2. (\A x \in V : idx[x] < Cardinality(V)) /\ low[u] # idx[u] /\ u = Last(fr).block
  BY DEF TarjanOK
<1>3. f # <<>> => e = [index |-> idx, low |-> l, stack |-> st, frontier |-> f]
  BY <1>1 DEF Leave, Lower
<1>4. idx \in [V -> Nat] /\ low \in [V -> Nat] /\ DOMAIN idx = V
  BY <1>1 DEF FrontierAt, Numberings
<1>5. f = Front(fr)
  OBVIOUS
<1> HIDE DEF idx, low, st, fr, f, V, p, l
<1>6. /\ FrontierAt(B, g, V, idx, f) /\ FrontierBlocks(f) = FrontierBlocks(fr) \ {u}
      /\ WalkedOf(g, V, f) = WalkedOf(g, V, fr)
      /\ AllWalked(JumpsOf(g), idx, FrontierBlocks(fr), WalkedOf(g, V, fr), u)
      /\ JumpsOf(g) \in EdgeMaps(B)
  BY <1>1, <1>2, <1>5, LeaveParts
<1>7. /\ FrontierBlocks(fr) # {u}
      /\ \A q, h : PassesOn(idx, low, FrontierBlocks(fr), u, q, h)
                     => VisitInv(JumpsOf(g), roots, idx, h, ToSet(st), FrontierBlocks(fr) \ {u}, WalkedOf(g, V, fr))
  <2>1. /\ VisitInv(JumpsOf(g), roots, idx, low, ToSet(st), FrontierBlocks(fr), WalkedOf(g, V, fr))
        /\ AllWalked(JumpsOf(g), idx, FrontierBlocks(fr), WalkedOf(g, V, fr), u)
        /\ JumpsOf(g) \in EdgeMaps(B) /\ low[u] # idx[u]
    BY <1>1, <1>2, <1>6
  <2> QED BY ONLY <2>1, LeaveKeeps
<1>8. u \in FrontierBlocks(fr) /\ FrontierBlocks(fr) \subseteq V
  BY <1>1, <1>6 DEF FrontierAt, AllWalked
<1>9. f # <<>> /\ p \in FrontierBlocks(fr) \ {u} /\ \A y \in FrontierBlocks(fr) \ {u} : idx[y] <= idx[p]
  <2>1. f # <<>>
    <3>1. FrontierBlocks(f) # {}
      BY <1>6, <1>7, <1>8
    <3> QED BY <3>1 DEF FrontierBlocks
  <2>2. p \in FrontierBlocks(f) /\ \A y \in FrontierBlocks(f) : idx[y] <= idx[p]
    BY <1>6, <2>1, TopFacts DEF p
  <2> QED BY <1>6, <2>1, <2>2
<1>10. l \in [V -> Nat] /\ (\A y \in V : y # p => l[y] = low[y]) /\ l[p] = IF low[u] < low[p] THEN low[u] ELSE low[p]
  <2>1. p \in V /\ u \in V
    BY <1>8, <1>9
  <2>2. low[p] \in Nat /\ low[u] \in Nat
    BY <1>4, <2>1
  <2> QED BY <1>4, <2>1, <2>2 DEF l
<1>11. PassesOn(idx, low, FrontierBlocks(fr), u, p, l) /\ l \in Numberings(V)
  BY <1>4, <1>9, <1>10 DEF PassesOn, Numberings
<1>12. VisitInv(JumpsOf(g), roots, idx, l, ToSet(st), FrontierBlocks(f), WalkedOf(g, V, f))
  BY <1>6, <1>7, <1>11
<1>13. e = [index |-> idx, low |-> l, stack |-> st, frontier |-> f]
  BY <1>3, <1>9
<1>14. TarjanOK(g, roots, e)
  BY <1>1, <1>2, <1>6, <1>11, <1>12, <1>13, TarjanMade
<1>15. Finished(e) = Finished(t)
  BY <1>13 DEF Finished, idx, st
<1> QED BY <1>14, <1>15

\* The stack is cut at a block: those below it have lower numbers.
PlaceOf(s, u) == CHOOSE k \in DOMAIN s : s[k] = u
Under(s, u) == SubSeq(s, 1, PlaceOf(s, u) - 1)
From(s, u) == SubSeq(s, PlaceOf(s, u), Len(s))

\* The two parts of the stack.
LEMMA StackCut ==
  ASSUME NEW B, NEW V, NEW idx, NEW s, StackAt(B, V, idx, s), NEW u \in ToSet(s),
         NEW rest, rest = Under(s, u), NEW top, top = From(s, u)
  PROVE  /\ StackAt(B, V, idx, rest) /\ top \in Seq(B)
         /\ ToSet(rest) = LowerOf(idx, ToSet(s), u)
         /\ ToSet(top) = ToSet(s) \ ToSet(rest)
<1> DEFINE from == PlaceOf(s, u)
           n == Len(s)
<1>0. idx \in [V -> Nat] /\ s \in Seq(B) /\ ToSet(s) \subseteq V
  BY DEF StackAt, Numberings
<1>1. from \in DOMAIN s /\ s[from] = u
  <2>1. \E k \in DOMAIN s : s[k] = u
    BY DEF ToSet
  <2> QED BY <2>1 DEF PlaceOf
<1>2. /\ n \in Nat /\ DOMAIN s = 1 .. n /\ from \in 1 .. n /\ from \in Nat
      /\ \A k \in 1 .. n : s[k] \in V /\ s[k] \in B /\ idx[s[k]] \in Nat
  <2>1. n \in Nat /\ DOMAIN s = 1 .. n /\ \A k \in 1 .. n : s[k] \in B
    BY <1>0
  <2>2. \A k \in 1 .. n : s[k] \in V
    BY <1>0, <2>1 DEF ToSet
  <2>3. \A k \in 1 .. n : idx[s[k]] \in Nat
    BY <1>0, <2>2
  <2> QED BY <1>1, <2>1, <2>2, <2>3
<1> HIDE DEF from, n
<1>3. /\ rest \in Seq(B) /\ DOMAIN rest = 1 .. from - 1
      /\ \A k \in 1 .. from - 1 : rest[k] = s[k]
  <2>1. rest = SubSeq(s, 1, from - 1)
    BY DEF Under, from
  <2>2. \A k \in 1 .. from - 1 : s[k] \in B /\ 1 + k - 1 = k
    BY <1>2
  <2>3. from - 1 \in Int /\ (IF 1 <= from - 1 THEN from - 1 - 1 + 1 ELSE 0) = from - 1 /\ from - 1 - 1 + 1 = from - 1
    BY <1>2
  <2>4. rest \in Seq(B) /\ Len(rest) = from - 1 /\ \A k \in 1 .. from - 1 : rest[k] = s[1 + k - 1]
    BY <2>1, <2>2, <2>3, SubSeqProperties
  <2> QED BY <2>2, <2>4
<1>4. /\ top \in Seq(B) /\ DOMAIN top = 1 .. n - from + 1
      /\ \A k \in 1 .. n - from + 1 : top[k] = s[from + k - 1]
  <2>1. top = SubSeq(s, from, n)
    BY DEF From, from, n
  <2>2. \A k \in from .. n : s[k] \in B
    BY <1>2
  <2>3. n \in Int /\ from \in Int /\ from <= n
    BY <1>2
  <2>4. top \in Seq(B) /\ Len(top) = n - from + 1 /\ \A k \in 1 .. n - from + 1 : top[k] = s[from + k - 1]
    BY <2>1, <2>2, <2>3, SubSeqProperties
  <2> QED BY <2>4
<1>5. \A j, k \in 1 .. n : j < k => idx[s[j]] < idx[s[k]]
  BY <1>2 DEF AscendsIn, StackAt
<1>6. AscendsIn(idx, rest)
  <2>1. \A k \in 1 .. from - 1 : k \in 1 .. n
    BY <1>2
  <2> QED BY <1>3, <1>5, <2>1 DEF AscendsIn
<1>7. \A x : x \in ToSet(rest) <=> \E k \in 1 .. from - 1 : x = s[k]
  BY <1>3 DEF ToSet
<1>8. \A x : x \in ToSet(top) <=> \E k \in from .. n : x = s[k]
  <2>1. ASSUME NEW k \in 1 .. n - from + 1 PROVE from + k - 1 \in from .. n
    BY <1>2
  <2>2. ASSUME NEW k \in from .. n
        PROVE  k - from + 1 \in 1 .. n - from + 1 /\ from + (k - from + 1) - 1 = k
    BY <1>2
  <2>3. \A x : x \in ToSet(top) <=> \E k \in 1 .. n - from + 1 : x = top[k]
    BY <1>4 DEF ToSet
  <2>4. ASSUME NEW k \in from .. n PROVE top[k - from + 1] = s[k]
    BY <1>4, <2>2
  <2> QED BY <1>4, <2>1, <2>2, <2>3, <2>4
<1>9. \A x : x \in ToSet(s) <=> \E k \in 1 .. n : x = s[k]
  BY <1>2 DEF ToSet
<1>10. ASSUME NEW k \in 1 .. n
       PROVE  /\ k \in 1 .. from - 1 <=> idx[s[k]] < idx[u]
              /\ k \in 1 .. from - 1 <=> ~(k \in from .. n)
  <2>1. k < from => idx[s[k]] < idx[u]
    BY <1>1, <1>2, <1>5
  <2>2. k > from => idx[u] < idx[s[k]]
    BY <1>1, <1>2, <1>5
  <2>3. idx[u] \in Nat /\ idx[s[k]] \in Nat /\ k \in Nat /\ from \in Nat
    BY <1>1, <1>2
  <2>4. ~(k < from) => ~(idx[s[k]] < idx[u])
    <3>1. CASE k = from
      BY <1>1, <2>3, <3>1
    <3>2. CASE k > from
      BY <2>2, <2>3, <3>2
    <3> QED BY <2>3, <3>1, <3>2
  <2>5. k \in 1 .. from - 1 <=> k < from
    BY <1>2
  <2>6. k \in from .. n <=> ~(k < from)
    BY <1>2
  <2> QED BY <2>1, <2>4, <2>5, <2>6
<1>11. \A k : k \in 1 .. from - 1 \/ k \in from .. n => k \in 1 .. n
  BY <1>2
<1>12. ToSet(rest) = LowerOf(idx, ToSet(s), u)
  <2>1. ASSUME NEW x \in ToSet(rest) PROVE x \in LowerOf(idx, ToSet(s), u)
    <3>1. PICK k \in 1 .. from - 1 : x = s[k]
      BY <1>7, <2>1
    <3> QED BY <1>9, <1>10, <1>11, <3>1 DEF LowerOf
  <2>2. ASSUME NEW x \in LowerOf(idx, ToSet(s), u) PROVE x \in ToSet(rest)
    <3>1. PICK k \in 1 .. n : x = s[k]
      BY <1>9, <2>2 DEF LowerOf
    <3> QED BY <1>7, <1>10, <2>2, <3>1 DEF LowerOf
  <2> QED BY <2>1, <2>2
<1>13. ToSet(top) = ToSet(s) \ ToSet(rest)
  <2>1. \A x \in ToSet(rest) : idx[x] < idx[u]
    BY <1>12 DEF LowerOf
  <2>2. \A x : x \in ToSet(top) => x \in ToSet(s) /\ x \notin ToSet(rest)
    <3> TAKE x
    <3> HAVE x \in ToSet(top)
    <3>1. PICK k \in from .. n : x = s[k]
      BY <1>8
    <3>2. k \in 1 .. n
      BY <1>11
    <3> QED BY <1>9, <1>10, <2>1, <3>1, <3>2
  <2>3. \A x : x \in ToSet(s) /\ x \notin ToSet(rest) => x \in ToSet(top)
    <3> SUFFICES ASSUME NEW k \in 1 .. n, s[k] \notin ToSet(rest) PROVE s[k] \in ToSet(top)
      BY <1>9
    <3> QED BY <1>7, <1>8, <1>10
  <2> QED BY <2>2, <2>3
<1>14. StackAt(B, V, idx, rest)
  <2>1. ToSet(rest) \subseteq V
    BY <1>0, <1>12 DEF LowerOf
  <2> QED BY <1>3, <1>6, <2>1 DEF StackAt
<1> QED BY <1>4, <1>12, <1>13, <1>14

\* A block that is its own lowlink closes a component, the top of the stack.
CutBack(t, u, rest) == [Leave(t, u) EXCEPT !.stack = rest]

\* Closing a component keeps the state of the search.
LEMMA CloseStep ==
  ASSUME NEW B, NEW g \in JumpMaps(B), NEW roots, NEW t, TarjanOK(g, roots, t), Exhausted(g, t.frontier),
         NEW u, u = Last(t.frontier).block, t.low[u] = t.index[u],
         NEW rest, rest = Under(t.stack, u), NEW top, top = From(t.stack, u),
         NEW e, e = CutBack(t, u, rest)
  PROVE  /\ TarjanOK(g, roots, e)
         /\ e.index = t.index /\ e.stack = rest
         /\ ToSet(rest) \subseteq ToSet(t.stack) /\ ToSet(t.stack) \subseteq DOMAIN t.index /\ DOMAIN t.index \subseteq B
         /\ top \in Seq(B) /\ ToSet(top) = ToSet(t.stack) \ ToSet(rest) /\ u \in ToSet(top)
         /\ Component(JumpsOf(g), ToSet(top))
<1> DEFINE idx == t.index
           low == t.low
           st == t.stack
           fr == t.frontier
           f == Front(fr)
           V == DOMAIN idx
           p == Last(f).block
<1>1. /\ low \in Numberings(V) /\ FrontierAt(B, g, V, idx, fr) /\ StackAt(B, V, idx, st) /\ Exhausted(g, fr)
      /\ VisitInv(JumpsOf(g), roots, idx, low, ToSet(st), FrontierBlocks(fr), WalkedOf(g, V, fr))
      /\ t \in [index : Numbers(B), low : Numbers(B), stack : Seq(B), frontier : Paths(B)]
      /\ FrontierBlocks(fr) \subseteq ToSet(st) /\ ToSet(st) \subseteq V /\ V \subseteq B
  BY TarjanFacts
<1>2. /\ \A x \in V : idx[x] < Cardinality(V)
      /\ low[u] = idx[u] /\ u = Last(fr).block /\ rest = Under(st, u) /\ top = From(st, u) /\ f = Front(fr)
  BY DEF TarjanOK
<1>3. /\ f = <<>> => e = [index |-> idx, low |-> low, stack |-> rest, frontier |-> f]
      /\ f # <<>> => e = [index |-> idx, low |-> [low EXCEPT ![p] = IF low[u] < low[p] THEN low[u] ELSE low[p]],
                          stack |-> rest, frontier |-> f]
  BY <1>1 DEF CutBack, Leave, Lower
<1>4. low \in [V -> Nat]
  BY <1>1 DEF Numberings
<1> HIDE DEF idx, low, st, fr, f, V, p
<1>6. /\ FrontierAt(B, g, V, idx, f) /\ FrontierBlocks(f) = FrontierBlocks(fr) \ {u}
      /\ WalkedOf(g, V, f) = WalkedOf(g, V, fr)
      /\ AllWalked(JumpsOf(g), idx, FrontierBlocks(fr), WalkedOf(g, V, fr), u)
      /\ JumpsOf(g) \in EdgeMaps(B)
  <2>1. /\ low \in Numberings(V) /\ FrontierAt(B, g, V, idx, fr) /\ Exhausted(g, fr)
        /\ VisitInv(JumpsOf(g), roots, idx, low, ToSet(st), FrontierBlocks(fr), WalkedOf(g, V, fr))
        /\ u = Last(fr).block /\ f = Front(fr)
    BY <1>1, <1>2
  <2> QED BY ONLY <2>1, LeaveParts
<1>7. u \in FrontierBlocks(fr)
  BY <1>6 DEF AllWalked
<1>8. /\ StackAt(B, V, idx, rest) /\ top \in Seq(B)
      /\ ToSet(rest) = LowerOf(idx, ToSet(st), u) /\ ToSet(top) = ToSet(st) \ ToSet(rest)
  <2>1. u \in ToSet(st)
    BY <1>1, <1>7
  <2> QED BY <1>1, <1>2, <2>1, StackCut
<1>9. /\ VisitInv(JumpsOf(g), roots, idx, low, ToSet(rest), FrontierBlocks(fr) \ {u}, WalkedOf(g, V, fr))
      /\ Component(JumpsOf(g), ToSet(st) \ ToSet(rest)) /\ u \in ToSet(st) \ ToSet(rest)
      /\ \A x \in FrontierBlocks(fr) \ {u} : low[x] < low[u]
  <2>1. /\ VisitInv(JumpsOf(g), roots, idx, low, ToSet(st), FrontierBlocks(fr), WalkedOf(g, V, fr))
        /\ AllWalked(JumpsOf(g), idx, FrontierBlocks(fr), WalkedOf(g, V, fr), u)
        /\ JumpsOf(g) \in EdgeMaps(B) /\ low[u] = idx[u] /\ ToSet(rest) = LowerOf(idx, ToSet(st), u)
    BY <1>1, <1>2, <1>6, <1>8
  <2> QED BY ONLY <2>1, CloseKeeps
<1>10. e = [index |-> idx, low |-> low, stack |-> rest, frontier |-> f]
  <2>1. CASE f # <<>>
    <3>1. p \in FrontierBlocks(f)
      BY <1>6, <2>1, TopFacts DEF p
    <3>2. low[p] < low[u] /\ p \in V /\ u \in V
      BY <1>1, <1>6, <1>7, <1>9, <3>1
    <3>3. low[p] \in Nat /\ low[u] \in Nat
      BY <1>4, <3>2
    <3>4. [low EXCEPT ![p] = IF low[u] < low[p] THEN low[u] ELSE low[p]] = low
      <4>1. (IF low[u] < low[p] THEN low[u] ELSE low[p]) = low[p]
        BY <3>2, <3>3
      <4> QED BY <1>4, <4>1
    <3> QED BY <1>3, <2>1, <3>4
  <2> QED BY <1>3, <2>1
<1>11. VisitInv(JumpsOf(g), roots, idx, low, ToSet(rest), FrontierBlocks(f), WalkedOf(g, V, f))
  BY <1>6, <1>9
<1>12. TarjanOK(g, roots, e)
  BY <1>1, <1>2, <1>6, <1>8, <1>10, <1>11, TarjanMade
<1>13. ToSet(rest) \subseteq ToSet(st) /\ ToSet(st) \subseteq V /\ V \subseteq B
  BY <1>1, <1>8 DEF LowerOf
<1>14. Component(JumpsOf(g), ToSet(top)) /\ u \in ToSet(top)
  BY <1>8, <1>9
<1>15. e.index = idx /\ e.stack = rest
  BY <1>10
<1> QED BY <1>8, <1>12, <1>13, <1>14, <1>15 DEF idx, st, V

-----------------------------------------------------------------------------
(* The invariant of the search.                                            *)

BlockFlags == [check : BOOLEAN, export : BOOLEAN]
BothOf(fl) == {b \in DOMAIN fl : fl[b].check /\ fl[b].export}
InGroups(gs) == UNION ToSet(gs)
BeforeLast(gs) == UNION {gs[k] : k \in 1 .. Len(gs) - 1}

\* The groups are what Tarjan's algorithm has finished.  An entry is exported; of the blocks
\* outside the groups nothing else is.
GroupsOK(g, entries, fl, gs, t) ==
  /\ gs \in Seq(SUBSET DOMAIN g) /\ InGroups(gs) = Finished(t)
  /\ fl \in [DOMAIN g -> BlockFlags]
  /\ \A b \in entries : fl[b].export
  /\ \A b \in DOMAIN g \ InGroups(gs) : fl[b].export => b \in entries

\* No loop of a group with an entry is left whole.
Broken(g, entries, fl, S) == S \cap entries # {} => ~LoopIn(JumpsOf(g), S \ BothOf(fl))

\* The group that is searched is the last one; those before it are closed.
InSearch(g, entries, fl, gs, se) ==
  /\ gs # <<>> /\ se.inside = gs[Len(gs)] /\ se.inside # {} /\ Component(JumpsOf(g), se.inside)
  /\ se \in [inside : SUBSET DOMAIN g, left : Seq(se.inside), path : Paths(se.inside)]
  /\ IsClosed(JumpsOf(g), BeforeLast(gs)) /\ IsClosed(JumpsOf(g), BeforeLast(gs) \cup se.inside)
  /\ BeforeLast(gs) \cap se.inside = {}
  /\ \A k \in 1 .. Len(gs) - 1 : Broken(g, entries, fl, gs[k])
  /\ \E done : BreakInv(g, entries, BothOf(fl), se.inside, ToSet(se.left), se.path, done)

SearchOK(g, entries, fl, gs, se) ==
  IF se = NoSearch THEN \A k \in 1 .. Len(gs) : Broken(g, entries, fl, gs[k])
  ELSE InSearch(g, entries, fl, gs, se)

StateOK(g, entries, st, fl, t, se, gs) ==
  /\ st \in {"request", "loops", "done", "hung", "panic"}
  /\ st = "request" => t = NoTarjan
  /\ st \notin {"loops", "done"} => gs = <<>> /\ se = NoSearch
  /\ st \in {"loops", "done"} =>
       /\ g \in JumpMaps(DOMAIN g) /\ entries \subseteq DOMAIN g
       /\ TarjanOK(g, entries, t) /\ GroupsOK(g, entries, fl, gs, t) /\ SearchOK(g, entries, fl, gs, se)
  /\ st = "done" => se = NoSearch /\ t.frontier = <<>> /\ entries \subseteq DOMAIN t.index

LoopsInv == PageOK /\ StateOK(Graph, Exported, stage, flags, tarjan, search, groups)

-----------------------------------------------------------------------------
(* The request does not change, and with it its blocks and jumps.          *)

LEMMA RequestSame ==
  ASSUME page' = page
  PROVE  Blocks' = Blocks /\ Graph' = Graph /\ Exported' = Exported /\ (PageOK => PageOK')
<1>1. \A i : NextOffsets(i)' = NextOffsets(i)
  BY DEF NextOffsets
<1>2. \A i : Succs(i)' = Succs(i)
  BY <1>1 DEF Succs
<1>3. Instrs' = Instrs
  BY DEF Instrs
<1>4. \A i : Preds(i)' = Preds(i)
  BY <1>2, <1>3 DEF Preds
<1>5. \A i : AllReachable(i)' = AllReachable(i)
  BY DEF AllReachable
<1>6. \A i : Branches(i)' = Branches(i)
  BY <1>2, <1>5 DEF Branches
<1>7. \A i : MakeSplitPoint(i)' = MakeSplitPoint(i)
  BY <1>1, <1>3, <1>4, <1>6 DEF MakeSplitPoint
<1>8. Blocks' = Blocks
  BY <1>3, <1>4, <1>7 DEF Blocks
<1>9. \A i : Certain(i)' = Certain(i)
  BY <1>2 DEF Certain
<1>10. \A i : GoesOn(i)' = GoesOn(i)
  BY <1>2, <1>7, <1>9 DEF GoesOn
<1>11. ChainNext' = ChainNext
  BY <1>2, <1>3, <1>10 DEF ChainNext
<1>12. \A i : Chain(i)' = Chain(i)
  BY <1>11 DEF Chain
<1>13. \A i : LastInstr(i)' = LastInstr(i)
  BY <1>12 DEF LastInstr
<1>14. \A b : NextBlocks(b)' = NextBlocks(b)
  BY <1>1, <1>2, <1>13 DEF NextBlocks
<1>15. Graph' = Graph
  BY <1>8, <1>14 DEF Graph
<1>16. Exported' = Exported
  BY <1>8 DEF Exported
<1>17. PageOK => PageOK'
  BY DEF PageOK
<1> QED BY <1>8, <1>15, <1>16, <1>17

\* The blocks of a page are finitely many.
LEMMA BlocksFinite ==
  ASSUME PageOK
  PROVE  IsFiniteSet(Blocks) /\ Blocks \subseteq Nat /\ DOMAIN Graph = Blocks /\ Exported \subseteq Blocks
         /\ \A b \in Blocks : Graph[b] = NextBlocks(b)
<1>1. Len(page) \in Nat /\ Instrs = 1 .. Len(page)
  BY DEF PageOK, Instrs
<1>2. IsFiniteSet(1 .. Len(page))
  BY <1>1, FS_Interval
<1>3. Blocks \subseteq 1 .. Len(page)
  BY <1>1 DEF Blocks
<1>4. IsFiniteSet(Blocks)
  BY <1>2, <1>3, FS_Subset
<1>5. DOMAIN Graph = Blocks /\ \A b \in Blocks : Graph[b] = NextBlocks(b)
  BY DEF Graph
<1>6. Exported \subseteq Blocks
  BY DEF Exported
<1> QED BY <1>1, <1>3, <1>4, <1>5, <1>6

\* Before the search nothing is visited.
LEMMA NoTarjanOK ==
  ASSUME NEW B, NEW g \in JumpMaps(B), NEW roots \in SUBSET B
  PROVE  TarjanOK(g, roots, NoTarjan) /\ Finished(NoTarjan) = {}
<1>0. g \in [B -> Seq(B)]
  BY DEF JumpMaps
<1> DEFINE e == <<>>
           w == WalkedOf(g, {}, e)
<1>1. DOMAIN e = {} /\ e \in [{} -> Nat] /\ e \in Seq(B) /\ ToSet(e) = {} /\ FrontierBlocks(e) = {}
  BY DEF ToSet, FrontierBlocks
<1>2. e \in Paths(B)
  BY DEF Paths
<1>3. w = {}
  BY DEF WalkedOf
<1>4. e \in Numbers(B)
  <2>1. e \in Numberings({})
    BY <1>1 DEF Numberings
  <2> QED BY <2>1, NumbersOf
<1>5. NoTarjan = [index |-> e, low |-> e, stack |-> e, frontier |-> e]
  BY DEF NoTarjan
<1>6. AscendsIn(e, e) /\ RisesIn(e, e)
  BY <1>1 DEF AscendsIn, RisesIn
<1>7. JumpsOf(g) \in EdgeMaps(B)
  BY JumpsFacts
<1> HIDE DEF e, w
<1>8. VisitInv(JumpsOf(g), roots, e, e, {}, {}, {})
  <2>1. VisitShape(JumpsOf(g), roots, e, e, {}, {}, {})
    BY <1>1, <1>7 DEF VisitShape, EdgeMaps
  <2>2. LeftClosed(JumpsOf(g), e, {})
    BY <1>1 DEF LeftClosed
  <2>3. StackLeads(JumpsOf(g), e, {}, {})
    BY DEF StackLeads
  <2>4. LowsExact(JumpsOf(g), e, e, {}, {}, {})
    BY DEF LowsExact
  <2> QED BY <1>1, <2>1, <2>2, <2>3, <2>4 DEF VisitInv
<1>9. VisitInv(JumpsOf(g), roots, e, e, ToSet(e), FrontierBlocks(e), WalkedOf(g, DOMAIN e, e))
  BY <1>1, <1>3, <1>8 DEF w
<1>10. \A v \in DOMAIN e : e[v] < Cardinality(DOMAIN e)
  BY <1>1
<1>11. TarjanOK(g, roots, NoTarjan)
  BY <1>1, <1>2, <1>4, <1>5, <1>6, <1>9, <1>10, TarjanBuilt
<1>12. Finished(NoTarjan) = {}
  BY <1>1, <1>5 DEF Finished
<1> QED BY <1>11, <1>12

\* A request starts with nothing visited.
LEMMA LoopsStart == ASSUME CodePagesAssumption, LoopsInit PROVE LoopsInv
<1>1. PageOK
  BY DEF LoopsInit, CodePagesAssumption, PageOK
<1>2. stage = "request" /\ tarjan = NoTarjan /\ search = NoSearch /\ groups = <<>>
  BY DEF LoopsInit
<1> QED BY <1>1, <1>2 DEF LoopsInv, StateOK

\* What the invariant is while the loops are searched.
LEMMA StateFacts ==
  ASSUME LoopsInv, stage = "loops"
  PROVE  /\ PageOK /\ Graph \in JumpMaps(Blocks) /\ Exported \subseteq Blocks /\ IsFiniteSet(Blocks)
         /\ \A b \in Blocks : Graph[b] = NextBlocks(b) /\ NextBlocks(b) \in Seq(Blocks)
         /\ TarjanOK(Graph, Exported, tarjan) /\ GroupsOK(Graph, Exported, flags, groups, tarjan)
         /\ SearchOK(Graph, Exported, flags, groups, search)
         /\ Finished(tarjan) \subseteq Blocks /\ DOMAIN tarjan.index \subseteq Blocks
<1>1. /\ PageOK /\ Graph \in JumpMaps(Blocks) /\ Exported \subseteq Blocks /\ IsFiniteSet(Blocks)
      /\ \A b \in Blocks : Graph[b] = NextBlocks(b)
      /\ TarjanOK(Graph, Exported, tarjan) /\ GroupsOK(Graph, Exported, flags, groups, tarjan)
      /\ SearchOK(Graph, Exported, flags, groups, search)
  BY BlocksFinite DEF LoopsInv, StateOK
<1>2. \A b \in Blocks : NextBlocks(b) \in Seq(Blocks)
  BY <1>1 DEF JumpMaps
<1>3. DOMAIN tarjan.index \subseteq Blocks
  BY <1>1, TarjanFacts
<1> QED BY <1>1, <1>2, <1>3 DEF Finished

\* The state that a step of the search leads to.
LEMMA StateBuilt ==
  ASSUME PageOK, page' = page, Graph \in JumpMaps(Blocks),
         stage' \in {"loops", "done"},
         TarjanOK(Graph, Exported, tarjan'), GroupsOK(Graph, Exported, flags', groups', tarjan'),
         SearchOK(Graph, Exported, flags', groups', search'),
         stage' = "done" => search' = NoSearch /\ tarjan'.frontier = <<>> /\ Exported \subseteq DOMAIN tarjan'.index
  PROVE  LoopsInv'
<1>1. DOMAIN Graph = Blocks /\ Exported \subseteq Blocks
  BY BlocksFinite
<1>2. StateOK(Graph, Exported, stage', flags', tarjan', search', groups')
  BY <1>1 DEF StateOK
<1>3. Graph' = Graph /\ Exported' = Exported /\ PageOK'
  BY RequestSame
<1> QED BY <1>2, <1>3 DEF LoopsInv

\* Tarjan's algorithm steps, and finishes no group.
LEMMA GroupsStay ==
  ASSUME NEW g, NEW entries, NEW fl, NEW gs, NEW t, GroupsOK(g, entries, fl, gs, t),
         NEW u, Finished(u) = Finished(t)
  PROVE  GroupsOK(g, entries, fl, gs, u)
BY DEF GroupsOK

\* The blocks of a request are built (BuildBlocks).
LEMMA BuildStep == ASSUME LoopsInv, BuildBlocks PROVE LoopsInv'
<1>1. /\ PageOK /\ page' = page /\ tarjan = NoTarjan /\ search = NoSearch /\ groups = <<>>
      /\ tarjan' = tarjan /\ search' = search /\ groups' = groups
  BY DEF LoopsInv, StateOK, BuildBlocks
<1>2. CASE stage' \in {"panic", "hung"}
  <2>1. StateOK(Graph, Exported, stage', flags', tarjan', search', groups')
    BY <1>1, <1>2 DEF StateOK
  <2> QED BY <1>1, <2>1, RequestSame DEF LoopsInv
<1>3. CASE stage' = "loops" /\ flags' = NewFlags /\ \A b \in Blocks : WalkEnds(b)
  <2>1. DOMAIN Graph = Blocks /\ Exported \subseteq Blocks /\ \A b \in Blocks : Graph[b] = NextBlocks(b)
    BY <1>1, BlocksFinite
  <2>2. Graph \in JumpMaps(Blocks)
    <3>1. \A b \in Blocks : NextBlocks(b) \in Seq(Blocks)
      BY <1>1, <1>3, NextAreBlocks
    <3> QED BY <3>1 DEF Graph, JumpMaps
  <2>3. TarjanOK(Graph, Exported, NoTarjan) /\ Finished(NoTarjan) = {}
    BY <2>1, <2>2, NoTarjanOK
  <2>4. flags' \in [Blocks -> BlockFlags] /\ \A b \in Blocks : flags'[b].export = page[b].entry
    <3>1. \A b \in Blocks : page[b].entry \in BOOLEAN
      <4> TAKE b \in Blocks
      <4>1. b \in Instrs
        BY DEF Blocks
      <4> QED BY <1>1, <4>1, SuccsExact DEF Instructions
    <3> DEFINE c(b) == NextBlocks(b) # <<>> /\ \E k \in 0 .. Len(page) : page[Chain(b)[k]].io
    <3>2. NewFlags = [b \in Blocks |-> [export |-> page[b].entry, check |-> c(b)]]
      BY DEF NewFlags
    <3>3. \A b \in Blocks : c(b) \in BOOLEAN
      OBVIOUS
    <3> HIDE DEF c
    <3> QED BY <1>3, <3>1, <3>2, <3>3 DEF BlockFlags
  <2>5. GroupsOK(Graph, Exported, flags', groups', tarjan')
    <3>1. <<>> \in Seq(SUBSET Blocks) /\ InGroups(<<>>) = {}
      BY DEF ToSet, InGroups
    <3>2. \A b \in Blocks : b \in Exported <=> page[b].entry
      BY DEF Exported
    <3> QED BY <1>1, <2>1, <2>3, <2>4, <3>1, <3>2 DEF GroupsOK
  <2>6. SearchOK(Graph, Exported, flags', groups', search')
    BY <1>1 DEF SearchOK
  <2> QED BY <1>1, <1>3, <2>2, <2>3, <2>5, <2>6, StateBuilt
<1> QED BY <1>2, <1>3 DEF BuildBlocks

\* Tarjan's algorithm goes on with the next exported block, or ends (NextRoot).
LEMMA RootStep == ASSUME LoopsInv, NextRoot PROVE LoopsInv'
<1> DEFINE left == Exported \ Visited
<1>1. /\ stage = "loops" /\ search = NoSearch /\ tarjan.frontier = <<>>
      /\ page' = page /\ flags' = flags /\ search' = search /\ groups' = groups
      /\ \/ left = {} /\ stage' = "done" /\ tarjan' = tarjan
         \/ left # {} /\ tarjan' = EnterBlock(tarjan, Min(left)) /\ stage' = stage
  BY DEF NextRoot, Searching
<1>2. /\ PageOK /\ Graph \in JumpMaps(Blocks) /\ Exported \subseteq Blocks /\ IsFiniteSet(Blocks)
      /\ TarjanOK(Graph, Exported, tarjan) /\ GroupsOK(Graph, Exported, flags, groups, tarjan)
      /\ SearchOK(Graph, Exported, flags, groups, search)
  BY <1>1, StateFacts
<1>3. CASE left = {}
  <2>1. stage' = "done" /\ tarjan' = tarjan /\ Exported \subseteq DOMAIN tarjan.index
    BY <1>1, <1>3 DEF Visited
  <2> QED BY <1>1, <1>2, <2>1, StateBuilt
<1>4. CASE left # {}
  <2> DEFINE v == Min(left)
  <2>1. v \in left
    <3>1. left \in SUBSET Nat
      BY <1>2, BlocksFinite
    <3> HIDE DEF left
    <3> QED BY <1>4, <3>1, LeastOfNaturals
  <2>2. v \in Blocks /\ v \in Exported /\ v \notin DOMAIN tarjan.index
    BY <1>2, <2>1 DEF Visited
  <2>3. tarjan' = EnterBlock(tarjan, v) /\ stage' = "loops"
    BY <1>1, <1>4
  <2>4. tarjan = [tarjan EXCEPT !.frontier = tarjan.frontier]
    <3>1. tarjan \in [index : Numbers(Blocks), low : Numbers(Blocks), stack : Seq(Blocks), frontier : Paths(Blocks)]
      BY <1>2, TarjanFacts
    <3> QED BY <3>1
  <2> HIDE DEF v
  <2>5. Enters(Graph, Exported, tarjan.frontier, tarjan.frontier, v)
    BY <1>1, <2>2 DEF Enters
  <2>7. TarjanOK(Graph, Exported, tarjan') /\ Finished(tarjan') = Finished(tarjan)
    BY <1>2, <2>2, <2>3, <2>4, <2>5, EnterStep
  <2>6. GroupsOK(Graph, Exported, flags', groups', tarjan')
    BY <1>1, <1>2, <2>7, GroupsStay
  <2> QED BY <1>1, <1>2, <2>3, <2>6, <2>7, StateBuilt
<1> QED BY <1>3, <1>4

\* The top of the frontier, while Tarjan's algorithm runs.
LEMMA CurrentFacts ==
  ASSUME LoopsInv, Searching, tarjan.frontier # <<>>
  PROVE  /\ Current.block \in Blocks /\ Current = Last(tarjan.frontier)
         /\ NextBlocks(Current.block) = Graph[Current.block]
         /\ HasNext <=> Current.at <= Len(Graph[Current.block])
         /\ Current.at \in Nat /\ Len(Graph[Current.block]) \in Nat
<1>1. stage = "loops"
  BY DEF Searching
<1>2. /\ TarjanOK(Graph, Exported, tarjan) /\ Graph \in JumpMaps(Blocks)
      /\ \A b \in Blocks : Graph[b] = NextBlocks(b)
  BY <1>1, StateFacts
<1>3. tarjan.frontier \in Paths(Blocks)
  BY <1>2, TarjanFacts
<1>4. Last(tarjan.frontier) \in [block : Blocks, at : Nat \ {0}]
  BY <1>3, PathFacts
<1>5. Current.block \in Blocks /\ Current.at \in Nat
  BY <1>4 DEF Current
<1>6. Graph[Current.block] \in Seq(Blocks)
  BY <1>2, <1>5 DEF JumpMaps
<1> QED BY <1>2, <1>5, <1>6 DEF HasNext, Current

\* Tarjan's algorithm looks at the next jump of the current block (Visit).
LEMMA VisitStep == ASSUME LoopsInv, Visit PROVE LoopsInv'
<1> DEFINE u == Current.block
           w == NextBlocks(Current.block)[Current.at]
           t == [tarjan EXCEPT !.frontier[Len(tarjan.frontier)].at = @ + 1]
           s == [tarjan EXCEPT !.frontier = Tries(tarjan.frontier)]
<1>1. /\ Searching /\ stage = "loops" /\ search = NoSearch /\ tarjan.frontier # <<>> /\ HasNext
      /\ page' = page /\ stage' = stage /\ flags' = flags /\ search' = search /\ groups' = groups
      /\ tarjan' = IF w \notin Visited THEN EnterBlock(t, w)
                   ELSE IF Contains(t.stack, w) THEN Lower(t, Current.block, t.index[w])
                   ELSE t
  BY DEF Visit, Searching
<1>2. /\ PageOK /\ Graph \in JumpMaps(Blocks) /\ Exported \subseteq Blocks /\ IsFiniteSet(Blocks)
      /\ TarjanOK(Graph, Exported, tarjan) /\ GroupsOK(Graph, Exported, flags, groups, tarjan)
      /\ SearchOK(Graph, Exported, flags, groups, search)
  BY <1>1, StateFacts
<1>3. /\ u \in Blocks /\ Current = Last(tarjan.frontier) /\ w = Graph[u][Current.at]
      /\ Current.at <= Len(Graph[u]) /\ Current.at \in Nat
  BY <1>1, CurrentFacts
<1>4. tarjan \in [index : Numbers(Blocks), low : Numbers(Blocks), stack : Seq(Blocks), frontier : Paths(Blocks)]
  BY <1>2, TarjanFacts
<1>5. t = s /\ t.index = tarjan.index /\ t.stack = tarjan.stack
  BY <1>4 DEF Tries
<1>6. w \in Blocks
  <2>1. Last(tarjan.frontier) \in [block : Blocks, at : Nat \ {0}]
    BY <1>1, <1>4, PathFacts
  <2>2. Graph[u] \in Seq(Blocks) /\ Current.at \in 1 .. Len(Graph[u])
    BY <1>2, <1>3, <2>1 DEF JumpMaps
  <2> QED BY <1>3, <2>2
<1>7. TarjanOK(Graph, Exported, tarjan') /\ Finished(tarjan') = Finished(tarjan)
  <2>1. CASE w \notin Visited
    <3>1. tarjan' = EnterBlock(s, w) /\ w \notin DOMAIN tarjan.index /\ w \in Blocks
      BY <1>1, <1>5, <1>6, <2>1 DEF Visited
    <3>2. s = [tarjan EXCEPT !.frontier = Tries(tarjan.frontier)]
      OBVIOUS
    <3>3. Enters(Graph, Exported, tarjan.frontier, Tries(tarjan.frontier), w)
      BY <1>1, <1>3 DEF Enters, JumpsOn
    <3> HIDE DEF w, s
    <3> QED BY <1>2, <3>1, <3>2, <3>3, EnterStep
  <2>2. CASE w \in Visited
    <3>1. w \in DOMAIN tarjan.index
      BY <2>2 DEF Visited
    <3>2. tarjan' = LowerTop(Graph, tarjan, w)
      <4>1. LowerTop(Graph, tarjan, w) = IF Contains(tarjan.stack, w)
                                         THEN Lower(s, Last(tarjan.frontier).block, tarjan.index[w]) ELSE s
        BY DEF LowerTop
      <4> HIDE DEF w, t, s
      <4> QED BY <1>1, <1>3, <1>5, <2>2, <4>1 DEF u
    <3>3. JumpsOn(Graph, tarjan.frontier, w)
      BY <1>1, <1>3 DEF JumpsOn
    <3> HIDE DEF w, s
    <3> QED BY <1>2, <3>1, <3>2, <3>3, LookStep
  <2> QED BY <2>1, <2>2
<1>8. GroupsOK(Graph, Exported, flags', groups', tarjan')
  BY <1>1, <1>2, <1>7, GroupsStay
<1> QED BY <1>1, <1>2, <1>7, <1>8, StateBuilt

-----------------------------------------------------------------------------
(* Groups, and the search of a group.                                      *)

\* What a group that is added makes of the groups.
Added(gs, S) == Append(gs, S)
GroupPlus(B, gs, S, hs) ==
  /\ hs \in Seq(SUBSET B) /\ hs # <<>> /\ hs[Len(hs)] = S
  /\ (\A k \in 1 .. Len(hs) - 1 : k \in 1 .. Len(gs) /\ hs[k] = gs[k])
  /\ BeforeLast(hs) = InGroups(gs) /\ InGroups(hs) = InGroups(gs) \cup S

\* A group that is appended is the last one.
LEMMA GroupAdded ==
  ASSUME NEW B, NEW gs \in Seq(SUBSET B), NEW S \in SUBSET B, NEW hs, hs = Added(gs, S)
  PROVE  GroupPlus(B, gs, S, hs)
<1>1. /\ hs \in Seq(SUBSET B) /\ Len(hs) = Len(gs) + 1 /\ hs[Len(gs) + 1] = S
      /\ \A k \in 1 .. Len(gs) : hs[k] = gs[k]
  BY AppendProperties DEF Added
<1> DEFINE n == Len(gs)
<1>2. n \in Nat /\ DOMAIN gs = 1 .. n /\ DOMAIN hs = 1 .. n + 1 /\ Len(hs) - 1 = n /\ hs # <<>>
  BY <1>1
<1>3. \A k : k \in 1 .. n + 1 <=> k = n + 1 \/ k \in 1 .. n
  BY <1>2
<1>4. ToSet(gs) = {gs[k] : k \in 1 .. n} /\ ToSet(hs) = {hs[k] : k \in 1 .. n + 1}
  BY <1>2 DEF ToSet
<1> HIDE DEF n
<1>5. ToSet(hs) = ToSet(gs) \cup {S}
  BY <1>1, <1>3, <1>4 DEF n
<1>6. BeforeLast(hs) = UNION {hs[k] : k \in 1 .. n}
  BY <1>2 DEF BeforeLast
<1>7. {hs[k] : k \in 1 .. n} = ToSet(gs)
  BY <1>1, <1>4 DEF n
<1>8. InGroups(hs) = InGroups(gs) \cup S
  <2>1. \A x : x \in InGroups(hs) <=> \E T \in ToSet(hs) : x \in T
    BY DEF InGroups
  <2>2. \A x : x \in InGroups(gs) <=> \E T \in ToSet(gs) : x \in T
    BY DEF InGroups
  <2>3. \A T : T \in ToSet(hs) <=> T \in ToSet(gs) \/ T = S
    BY <1>5
  <2>4. \A x : x \in InGroups(hs) <=> x \in InGroups(gs) \/ x \in S
    BY ONLY <2>1, <2>2, <2>3
  <2> QED BY <2>4
<1>9. BeforeLast(hs) = InGroups(gs)
  BY <1>6, <1>7 DEF InGroups
<1>10. \A k \in 1 .. Len(hs) - 1 : k \in 1 .. Len(gs) /\ hs[k] = gs[k]
  BY <1>1, <1>2 DEF n
<1> QED BY <1>1, <1>2, <1>8, <1>9, <1>10 DEF n, GroupPlus

\* The groups together are those before the last one and the last one.
LEMMA GroupsSplit ==
  ASSUME NEW B, NEW gs \in Seq(SUBSET B), gs # <<>>
  PROVE  /\ InGroups(gs) = BeforeLast(gs) \cup gs[Len(gs)]
         /\ BeforeLast(gs) \subseteq B /\ gs[Len(gs)] \subseteq B
         /\ \A k \in 1 .. Len(gs) : k = Len(gs) \/ k \in 1 .. Len(gs) - 1
<1> DEFINE n == Len(gs)
<1>1. n \in Nat \ {0} /\ DOMAIN gs = 1 .. n /\ \A k \in 1 .. n : gs[k] \subseteq B
  BY EmptySeq
<1>2. \A k : k \in 1 .. n <=> k = n \/ k \in 1 .. n - 1
  BY <1>1
<1>3. ToSet(gs) = {gs[k] : k \in 1 .. n}
  BY <1>1 DEF ToSet
<1> HIDE DEF n
<1>4. ToSet(gs) = {gs[k] : k \in 1 .. n - 1} \cup {gs[n]}
  BY <1>2, <1>3
<1>5. BeforeLast(gs) = UNION {gs[k] : k \in 1 .. n - 1}
  BY DEF BeforeLast, n
<1>6. BeforeLast(gs) \subseteq B /\ gs[n] \subseteq B
  BY <1>1, <1>2, <1>5
<1>7. InGroups(gs) = BeforeLast(gs) \cup gs[n]
  BY <1>4, <1>5 DEF InGroups
<1> QED BY <1>2, <1>6, <1>7 DEF n

\* The blocks that have left the stack are closed.
LEMMA FinishedClosed ==
  ASSUME NEW B, NEW g \in JumpMaps(B), NEW roots, NEW t, TarjanOK(g, roots, t)
  PROVE  IsClosed(JumpsOf(g), Finished(t)) /\ Finished(t) \subseteq B
<1>0. g \in [B -> Seq(B)]
  BY DEF JumpMaps
<1>1. /\ DOMAIN t.index \subseteq B
      /\ VisitInv(JumpsOf(g), roots, t.index, t.low, ToSet(t.stack), FrontierBlocks(t.frontier),
                  WalkedOf(g, DOMAIN t.index, t.frontier))
  BY TarjanFacts
<1>2. LeftClosed(JumpsOf(g), t.index, ToSet(t.stack))
  BY <1>1 DEF VisitInv
<1> QED BY <1>1, <1>2 DEF LeftClosed, IsClosed, Finished

\* A frontier block that has no jump left is left, and may close a group (CloseGroup).
LEMMA CloseGroupStep == ASSUME LoopsInv, CloseGroup PROVE LoopsInv'
<1> DEFINE u == Current.block
           st == tarjan.stack
           from == CHOOSE k \in DOMAIN st : st[k] = u
           top == SubSeq(st, from, Len(st))
           rest == SubSeq(st, 1, from - 1)
           left == Leave(tarjan, u)
           S == ToSet(top)
<1>1. /\ Searching /\ stage = "loops" /\ search = NoSearch /\ tarjan.frontier # <<>> /\ ~HasNext
      /\ page' = page /\ stage' = stage /\ flags' = flags
      /\ IF tarjan.low[u] = tarjan.index[u]
         THEN /\ tarjan' = [left EXCEPT !.stack = SubSeq(@, 1, from - 1)]
              /\ search' = [inside |-> S, left |-> top, path |-> <<>>]
              /\ groups' = Append(groups, S)
         ELSE tarjan' = left /\ search' = search /\ groups' = groups
  BY DEF CloseGroup, Searching
<1>2. /\ PageOK /\ Graph \in JumpMaps(Blocks) /\ Exported \subseteq Blocks /\ IsFiniteSet(Blocks)
      /\ TarjanOK(Graph, Exported, tarjan) /\ GroupsOK(Graph, Exported, flags, groups, tarjan)
      /\ SearchOK(Graph, Exported, flags, groups, search) /\ DOMAIN Graph = Blocks
  BY <1>1, StateFacts, BlocksFinite
<1>3. /\ u \in Blocks /\ Current = Last(tarjan.frontier) /\ ~(Current.at <= Len(Graph[u]))
      /\ Current.at \in Nat /\ Len(Graph[u]) \in Nat
  BY <1>1, CurrentFacts
<1>4. Exhausted(Graph, tarjan.frontier) /\ u = Last(tarjan.frontier).block
  BY <1>1, <1>3 DEF Exhausted
<1>5. CASE tarjan.low[u] # tarjan.index[u]
  <2>1. tarjan' = Leave(tarjan, u) /\ search' = search /\ groups' = groups
    BY <1>1, <1>5
  <2> HIDE DEF u
  <2>2. TarjanOK(Graph, Exported, tarjan') /\ Finished(tarjan') = Finished(tarjan)
    BY <1>1, <1>2, <1>4, <1>5, <2>1, LeaveStep
  <2>3. GroupsOK(Graph, Exported, flags', groups', tarjan')
    BY <1>1, <1>2, <2>1, <2>2, GroupsStay
  <2> QED BY <1>1, <1>2, <2>1, <2>2, <2>3, StateBuilt
<1>6. CASE tarjan.low[u] = tarjan.index[u]
  <2>1. left.stack = st
    <3>1. tarjan \in [index : Numbers(Blocks), low : Numbers(Blocks), stack : Seq(Blocks), frontier : Paths(Blocks)]
      BY <1>2, TarjanFacts
    <3> QED BY <3>1 DEF Leave, Lower
  <2>2. /\ tarjan' = [left EXCEPT !.stack = rest] /\ groups' = Append(groups, S)
        /\ search' = [inside |-> S, left |-> top, path |-> <<>>]
    <3>1. [left EXCEPT !.stack = SubSeq(@, 1, from - 1)] = [left EXCEPT !.stack = rest]
      BY <2>1
    <3> HIDE DEF from, rest, left, S, top
    <3> QED BY <1>1, <1>6, <3>1
  <2>3. /\ TarjanOK(Graph, Exported, tarjan') /\ tarjan'.index = tarjan.index /\ tarjan'.stack = rest
        /\ ToSet(rest) \subseteq ToSet(st) /\ ToSet(st) \subseteq DOMAIN tarjan.index /\ DOMAIN tarjan.index \subseteq Blocks
        /\ top \in Seq(Blocks) /\ S = ToSet(st) \ ToSet(rest) /\ u \in S
        /\ Component(JumpsOf(Graph), S)
    <3>1. /\ rest = Under(tarjan.stack, u) /\ top = From(tarjan.stack, u)
          /\ tarjan' = CutBack(tarjan, u, rest)
      BY <2>2 DEF Under, From, PlaceOf, CutBack
    <3>2. /\ TarjanOK(Graph, Exported, tarjan) /\ Exhausted(Graph, tarjan.frontier) /\ Graph \in JumpMaps(Blocks)
          /\ u = Last(tarjan.frontier).block /\ tarjan.low[u] = tarjan.index[u]
      BY <1>1, <1>2, <1>4, <1>6
    <3> HIDE DEF u, rest, top
    <3>3. /\ TarjanOK(Graph, Exported, tarjan') /\ tarjan'.index = tarjan.index /\ tarjan'.stack = rest
          /\ ToSet(rest) \subseteq ToSet(tarjan.stack) /\ ToSet(tarjan.stack) \subseteq DOMAIN tarjan.index
          /\ DOMAIN tarjan.index \subseteq Blocks
          /\ top \in Seq(Blocks) /\ ToSet(top) = ToSet(tarjan.stack) \ ToSet(rest) /\ u \in ToSet(top)
          /\ Component(JumpsOf(Graph), ToSet(top))
      BY ONLY <3>1, <3>2, CloseStep
    <3> QED BY <3>3
  <2>4. /\ groups \in Seq(SUBSET Blocks) /\ InGroups(groups) = Finished(tarjan)
        /\ flags \in [Blocks -> BlockFlags] /\ (\A b \in Exported : flags[b].export)
        /\ \A b \in Blocks \ InGroups(groups) : flags[b].export => b \in Exported
    BY <1>2 DEF GroupsOK
  <2>5. /\ Finished(tarjan') = Finished(tarjan) \cup S /\ Finished(tarjan) \cap S = {}
        /\ S \in SUBSET Blocks
    BY <2>3 DEF Finished
  <2> HIDE DEF S, rest, top, left, st, from, u
  <2>6. /\ groups' \in Seq(SUBSET Blocks) /\ groups' # <<>> /\ groups'[Len(groups')] = S
        /\ (\A k \in 1 .. Len(groups') - 1 : k \in 1 .. Len(groups) /\ groups'[k] = groups[k])
        /\ BeforeLast(groups') = InGroups(groups) /\ InGroups(groups') = InGroups(groups) \cup S
    <3>1. groups' = Added(groups, S) /\ groups \in Seq(SUBSET Blocks) /\ S \in SUBSET Blocks
      BY <2>2, <2>4, <2>5 DEF Added
    <3>2. GroupPlus(Blocks, groups, S, groups')
      BY ONLY <3>1, GroupAdded
    <3> QED BY ONLY <3>2 DEF GroupPlus
  <2>7. GroupsOK(Graph, Exported, flags', groups', tarjan')
    <3>1. InGroups(groups') = Finished(tarjan')
      BY <2>4, <2>5, <2>6
    <3>2. \A b \in Blocks \ InGroups(groups') : flags[b].export => b \in Exported
      BY <2>4, <2>6
    <3> QED BY <1>1, <1>2, <2>4, <2>6, <3>1, <3>2 DEF GroupsOK
  <2>8. search'.inside = S /\ search'.left = top /\ search'.path = <<>> /\ search' # NoSearch
    <3>1. S # {}
      BY <2>3
    <3> QED BY <2>2, <3>1 DEF NoSearch
  <2>9. InSearch(Graph, Exported, flags', groups', search')
    <3>1. search' \in [inside : SUBSET DOMAIN Graph, left : Seq(S), path : Paths(S)]
      <4>1. top \in Seq(S)
        <5>1. \A k \in 1 .. Len(top) : top[k] \in ToSet(top)
          BY <2>3 DEF ToSet
        <5> QED BY <2>3, <5>1 DEF S
      <4>2. <<>> \in Paths(S)
        BY DEF Paths
      <4> QED BY <1>2, <2>2, <2>5, <4>1, <4>2
    <3>2. /\ IsClosed(JumpsOf(Graph), BeforeLast(groups')) /\ IsClosed(JumpsOf(Graph), BeforeLast(groups') \cup S)
          /\ BeforeLast(groups') \cap S = {}
      <4>1. IsClosed(JumpsOf(Graph), Finished(tarjan)) /\ IsClosed(JumpsOf(Graph), Finished(tarjan'))
        BY <1>2, <2>3, FinishedClosed
      <4>2. BeforeLast(groups') = Finished(tarjan)
        BY <2>4, <2>6
      <4> QED BY <2>5, <4>1, <4>2
    <3>3. \A k \in 1 .. Len(groups') - 1 : Broken(Graph, Exported, flags', groups'[k])
      <4>1. \A k \in 1 .. Len(groups) : Broken(Graph, Exported, flags, groups[k])
        BY <1>1, <1>2 DEF SearchOK
      <4> QED BY <1>1, <2>6, <4>1
    <3>4. BreakInv(Graph, Exported, BothOf(flags'), S, ToSet(search'.left), search'.path, {})
      <4>1. \A b \in S : b \in BothOf(flags) => b \in Exported
        BY <2>4, <2>5 DEF BothOf
      <4>2. ToSet(search'.left) = S
        BY <2>8 DEF S
      <4>3. BreakInv(Graph, Exported, BothOf(flags), S, S, <<>>, {})
        BY <4>1, BreakStarts
      <4> QED BY <1>1, <2>8, <4>2, <4>3
    <3>5. S # {} /\ Component(JumpsOf(Graph), S)
      BY <2>3
    <3> QED BY <2>6, <2>8, <3>1, <3>2, <3>3, <3>4, <3>5 DEF InSearch
  <2>10. SearchOK(Graph, Exported, flags', groups', search')
    BY <2>8, <2>9 DEF SearchOK
  <2> QED BY <1>1, <1>2, <2>3, <2>7, <2>10, StateBuilt
<1> QED BY <1>5, <1>6

\* What holds while a group is searched.
LEMMA BreakingFacts ==
  ASSUME LoopsInv, Breaking
  PROVE  /\ stage = "loops" /\ search # NoSearch
         /\ PageOK /\ Graph \in JumpMaps(Blocks) /\ Exported \subseteq Blocks /\ DOMAIN Graph = Blocks
         /\ \A b \in Blocks : Graph[b] = NextBlocks(b)
         /\ TarjanOK(Graph, Exported, tarjan) /\ GroupsOK(Graph, Exported, flags, groups, tarjan)
         /\ InSearch(Graph, Exported, flags, groups, search)
         /\ groups \in Seq(SUBSET Blocks) /\ flags \in [Blocks -> BlockFlags]
         /\ (\A b \in Exported : flags[b].export)
         /\ groups # <<>> /\ search.inside = groups[Len(groups)] /\ search.inside # {}
         /\ search \in [inside : SUBSET Blocks, left : Seq(search.inside), path : Paths(search.inside)]
         /\ InGroups(groups) = BeforeLast(groups) \cup search.inside /\ BeforeLast(groups) \subseteq Blocks
<1>1. /\ stage = "loops" /\ search # NoSearch
  BY DEF Breaking
<1>2. /\ PageOK /\ Graph \in JumpMaps(Blocks) /\ Exported \subseteq Blocks /\ DOMAIN Graph = Blocks
      /\ \A b \in Blocks : Graph[b] = NextBlocks(b)
      /\ TarjanOK(Graph, Exported, tarjan) /\ GroupsOK(Graph, Exported, flags, groups, tarjan)
      /\ SearchOK(Graph, Exported, flags, groups, search)
  BY <1>1, StateFacts, BlocksFinite
<1>3. InSearch(Graph, Exported, flags, groups, search)
  BY <1>1, <1>2 DEF SearchOK
<1>4. groups \in Seq(SUBSET Blocks) /\ flags \in [Blocks -> BlockFlags] /\ (\A b \in Exported : flags[b].export)
  BY <1>2 DEF GroupsOK
<1>5. /\ groups # <<>> /\ search.inside = groups[Len(groups)] /\ search.inside # {}
      /\ search \in [inside : SUBSET Blocks, left : Seq(search.inside), path : Paths(search.inside)]
  BY <1>2, <1>3 DEF InSearch
<1>6. InGroups(groups) = BeforeLast(groups) \cup search.inside /\ BeforeLast(groups) \subseteq Blocks
  BY <1>4, <1>5, GroupsSplit
<1> QED BY <1>1, <1>2, <1>3, <1>4, <1>5, <1>6

\* More flags leave fewer loops whole.
LEMMA BrokenLater ==
  ASSUME NEW g, NEW entries, NEW fl, NEW fm, NEW S, BothOf(fl) \subseteq BothOf(fm), Broken(g, entries, fl, S)
  PROVE  Broken(g, entries, fm, S)
BY DEF Broken, LoopIn

\* The search of a group goes on.
LEMMA SearchGoesOn ==
  ASSUME LoopsInv, Breaking, page' = page, stage' = stage, tarjan' = tarjan, groups' = groups,
         search' \in [inside : SUBSET Blocks, left : Seq(search.inside), path : Paths(search.inside)],
         search'.inside = search.inside,
         flags' \in [Blocks -> BlockFlags], BothOf(flags) \subseteq BothOf(flags'),
         \A b \in Blocks : flags[b].export => flags'[b].export,
         \A b \in Blocks \ InGroups(groups) : flags'[b] = flags[b],
         NEW done, BreakInv(Graph, Exported, BothOf(flags'), search.inside, ToSet(search'.left), search'.path, done)
  PROVE  LoopsInv'
<1>1. /\ stage = "loops" /\ PageOK /\ Graph \in JumpMaps(Blocks) /\ Exported \subseteq Blocks /\ DOMAIN Graph = Blocks
      /\ TarjanOK(Graph, Exported, tarjan) /\ GroupsOK(Graph, Exported, flags, groups, tarjan)
      /\ InSearch(Graph, Exported, flags, groups, search) /\ search.inside # {}
  BY BreakingFacts
<1>2. GroupsOK(Graph, Exported, flags', groups', tarjan')
  BY <1>1 DEF GroupsOK
<1>3. InSearch(Graph, Exported, flags', groups', search')
  <2>1. \A k \in 1 .. Len(groups) - 1 : Broken(Graph, Exported, flags', groups[k])
    <3>1. \A k \in 1 .. Len(groups) - 1 : Broken(Graph, Exported, flags, groups[k])
      BY <1>1 DEF InSearch
    <3> QED BY <3>1, BrokenLater
  <2> QED BY <1>1, <2>1 DEF InSearch
<1>4. search' # NoSearch
  BY <1>1 DEF NoSearch
<1>5. SearchOK(Graph, Exported, flags', groups', search')
  BY <1>3, <1>4 DEF SearchOK
<1> QED BY <1>1, <1>2, <1>5, StateBuilt

\* The search starts from the next block of the group, or ends (StartSearch).
LEMMA StartSearchStep == ASSUME LoopsInv, StartSearch PROVE LoopsInv'
<1> DEFINE b == Head(search.left)
           S == search.inside
           both == BothOf(flags)
<1>1. /\ Breaking /\ search.path = <<>>
      /\ page' = page /\ stage' = stage /\ flags' = flags /\ tarjan' = tarjan /\ groups' = groups
      /\ search' = IF search.left = <<>> THEN NoSearch
                   ELSE [search EXCEPT !.left = Tail(@),
                                       !.path = IF flags[b].export THEN Push(<<>>, b) ELSE <<>>]
  BY DEF StartSearch, path
<1>2. /\ stage = "loops" /\ PageOK /\ Graph \in JumpMaps(Blocks) /\ Exported \subseteq Blocks /\ DOMAIN Graph = Blocks
      /\ TarjanOK(Graph, Exported, tarjan) /\ GroupsOK(Graph, Exported, flags, groups, tarjan)
      /\ InSearch(Graph, Exported, flags, groups, search)
      /\ groups \in Seq(SUBSET Blocks) /\ flags \in [Blocks -> BlockFlags]
      /\ (\A x \in Exported : flags[x].export)
      /\ groups # <<>> /\ S = groups[Len(groups)]
      /\ search \in [inside : SUBSET Blocks, left : Seq(S), path : Paths(S)]
      /\ BeforeLast(groups) \subseteq Blocks
  BY <1>1, BreakingFacts
<1>3. PICK done : BreakInv(Graph, Exported, both, S, ToSet(search.left), <<>>, done)
  BY <1>1, <1>2 DEF InSearch
<1>4. CASE search.left = <<>>
  <2>1. search' = NoSearch
    BY <1>1, <1>4
  <2>2. Broken(Graph, Exported, flags, S)
    <3>1. BreakInv(Graph, Exported, both, S, {}, <<>>, done)
      <4>1. ToSet(search.left) = {}
        BY <1>4 DEF ToSet
      <4> QED BY <1>3, <4>1
    <3>2. /\ Component(JumpsOf(Graph), S) /\ IsClosed(JumpsOf(Graph), BeforeLast(groups))
          /\ IsClosed(JumpsOf(Graph), BeforeLast(groups) \cup S) /\ BeforeLast(groups) \cap S = {}
      BY <1>2 DEF InSearch
    <3>3. JumpsOf(Graph) = [x \in DOMAIN Graph |-> ToSet(Graph[x])] /\ S \in SUBSET Blocks
      BY <1>2 DEF JumpsOf
    <3>4. S \cap Exported # {} => ~LoopIn(JumpsOf(Graph), S \ both)
      <4> HIDE DEF S, both
      <4> QED BY <1>2, <3>1, <3>2, <3>3, BreakEnds
    <3> QED BY <3>4 DEF Broken
  <2>3. \A k \in 1 .. Len(groups) : Broken(Graph, Exported, flags, groups[k])
    <3>1. \A k \in 1 .. Len(groups) - 1 : Broken(Graph, Exported, flags, groups[k])
      BY <1>2 DEF InSearch
    <3>2. \A k \in 1 .. Len(groups) : k = Len(groups) \/ k \in 1 .. Len(groups) - 1
      BY <1>2, GroupsSplit
    <3> QED BY <1>2, <2>2, <3>1, <3>2
  <2>4. SearchOK(Graph, Exported, flags', groups', search')
    BY <1>1, <2>1, <2>3 DEF SearchOK
  <2> QED BY <1>1, <1>2, <2>4, StateBuilt
<1>5. CASE search.left # <<>>
  <2> DEFINE q == IF flags[b].export THEN <<[block |-> b, at |-> 1]>> ELSE <<>>
             rest == Tail(search.left)
  <2>1. b \in S /\ rest \in Seq(S) /\ ToSet(search.left) \subseteq ToSet(rest) \cup {b}
    <3> DEFINE l == search.left
    <3>1. l \in Seq(S) /\ l # <<>>
      BY <1>2, <1>5
    <3> HIDE DEF l, S
    <3>2. /\ Head(l) = l[1] /\ Len(l) \in Nat \ {0} /\ DOMAIN l = 1 .. Len(l) /\ l[1] \in S
          /\ Tail(l) \in Seq(S) /\ Len(Tail(l)) = Len(l) - 1 /\ DOMAIN Tail(l) = 1 .. Len(l) - 1
          /\ \A k \in 1 .. Len(l) - 1 : Tail(l)[k] = l[k + 1]
      BY <3>1
    <3>3. ASSUME NEW k \in 1 .. Len(l) PROVE l[k] = l[1] \/ \E j \in 1 .. Len(l) - 1 : l[k] = Tail(l)[j]
      <4>1. CASE k = 1
        BY <4>1
      <4>2. CASE k # 1
        <5>1. k - 1 \in 1 .. Len(l) - 1 /\ (k - 1) + 1 = k
          BY <3>2, <4>2
        <5> QED BY <3>2, <5>1
      <4> QED BY <4>1, <4>2
    <3>4. ToSet(l) \subseteq ToSet(Tail(l)) \cup {l[1]}
      <4> DEFINE m == Tail(l)
      <4>1. /\ DOMAIN m = 1 .. Len(l) - 1 /\ DOMAIN l = 1 .. Len(l)
            /\ \A k \in 1 .. Len(l) : l[k] = l[1] \/ \E j \in 1 .. Len(l) - 1 : l[k] = m[j]
        BY <3>2, <3>3
      <4> HIDE DEF m
      <4>2. ToSet(l) \subseteq ToSet(m) \cup {l[1]}
        BY <4>1 DEF ToSet
      <4> QED BY <4>2 DEF m
    <3> QED BY <3>2, <3>4 DEF l
  <2>2. search' = [search EXCEPT !.left = rest, !.path = q]
    <3>1. Push(<<>>, b) = <<[block |-> b, at |-> 1]>>
      BY DEF Push
    <3> QED BY <1>1, <1>5, <3>1
  <2>3. BreakInv(Graph, Exported, both, S, ToSet(rest), q, done)
    <3>1. \/ q = <<[block |-> b, at |-> 1]>>
          \/ q = <<>> /\ b \notin Exported
      BY <1>2
    <3> HIDE DEF b, S, rest, both, q
    <3> QED BY <1>2, <1>3, <2>1, <3>1, BreakTakes
  <2>4. q \in Paths(S)
    BY <2>3 DEF BreakInv
  <2>5. /\ search' \in [inside : SUBSET Blocks, left : Seq(S), path : Paths(S)]
        /\ search'.inside = S /\ search'.left = rest /\ search'.path = q
    <3> HIDE DEF rest, q, S
    <3> QED BY <1>2, <2>1, <2>2, <2>4 DEF S
  <2> HIDE DEF rest, q, S, both
  <2> QED BY <1>1, <1>2, <2>3, <2>5, SearchGoesOn DEF S, both
<1> QED BY <1>4, <1>5

\* The search of a group looks at a jump, or leaves a block (SearchStep).
LEMMA SearchStepStep == ASSUME LoopsInv, SearchStep PROVE LoopsInv'
<1> DEFINE d == Top.block
           p == search.path
           S == search.inside
           both == BothOf(flags)
           next == NextBlocks(d)
           rest == Advanced(p)
           b == next[Top.at]
<1>1. /\ Breaking /\ p # <<>> /\ Top = Last(p)
      /\ page' = page /\ stage' = stage /\ tarjan' = tarjan /\ groups' = groups
      /\ \/ Top.at > Len(next) /\ search' = [search EXCEPT !.path = Front(p)] /\ flags' = flags
         \/ /\ Top.at <= Len(next) /\ Seen(b)
            /\ search' = [search EXCEPT !.path = rest]
            /\ flags' = [flags EXCEPT ![b] = Mark(@)]
         \/ /\ Top.at <= Len(next) /\ ~Seen(b)
            /\ search' = [search EXCEPT !.path = IF BothFlags(b) THEN rest ELSE Push(rest, b)]
            /\ flags' = flags
  BY DEF SearchStep, path, Top, Advanced
<1>2. /\ stage = "loops" /\ PageOK /\ Graph \in JumpMaps(Blocks) /\ DOMAIN Graph = Blocks
      /\ (\A x \in Blocks : Graph[x] = NextBlocks(x))
      /\ InSearch(Graph, Exported, flags, groups, search)
      /\ flags \in [Blocks -> BlockFlags]
      /\ search \in [inside : SUBSET Blocks, left : Seq(S), path : Paths(S)]
      /\ InGroups(groups) = BeforeLast(groups) \cup S /\ BeforeLast(groups) \subseteq Blocks
  BY <1>1, BreakingFacts
<1>3. PICK done : BreakInv(Graph, Exported, both, S, ToSet(search.left), p, done)
  BY <1>2 DEF InSearch
<1>4. /\ p \in Paths(S) /\ S \in SUBSET Blocks
  BY <1>2
<1>5. d \in S /\ d \in Blocks /\ Top.at \in Nat \ {0} /\ next = Graph[d] /\ Graph[d] \in Seq(Blocks)
  <2>1. Last(p) \in [block : S, at : Nat \ {0}]
    <3> HIDE DEF p, S
    <3> QED BY <1>1, <1>4, PathFacts
  <2>2. d \in S /\ d \in Blocks /\ Top.at \in Nat \ {0}
    BY <1>1, <1>4, <2>1
  <2>3. Graph[d] \in Seq(Blocks)
    BY <1>2, <2>2 DEF JumpMaps
  <2> QED BY <1>2, <2>2, <2>3
<1>6. ASSUME NEW q, search' = [search EXCEPT !.path = q],
             flags' \in [Blocks -> BlockFlags], both \subseteq BothOf(flags'),
             \A x \in Blocks : flags[x].export => flags'[x].export,
             \A x \in Blocks \ InGroups(groups) : flags'[x] = flags[x],
             NEW left, BreakInv(Graph, Exported, BothOf(flags'), S, ToSet(search.left), q, left)
      PROVE  LoopsInv'
  <2>1. q \in Paths(S)
    BY <1>6 DEF BreakInv
  <2>2. /\ search' \in [inside : SUBSET Blocks, left : Seq(S), path : Paths(S)]
        /\ search'.inside = S /\ search'.left = search.left /\ search'.path = q
    BY <1>2, <1>6, <2>1
  <2> HIDE DEF S, both
  <2> QED BY <1>1, <1>2, <1>6, <2>2, SearchGoesOn DEF S, both
<1> HIDE DEF p, S, both, next, rest, b, d
<1>7. CASE Top.at > Len(next) /\ search' = [search EXCEPT !.path = Front(p)] /\ flags' = flags
  <2>1. BreakInv(Graph, Exported, both, S, ToSet(search.left), Front(p), done \cup {Last(p).block})
    <3>1. Last(p).at > Len(Graph[Last(p).block])
      BY <1>1, <1>5, <1>7 DEF d
    <3> QED BY <1>1, <1>2, <1>3, <1>4, <3>1, BreakLeaves
  <2> QED BY <1>2, <1>6, <1>7, <2>1 DEF both
<1>8. ASSUME Top.at <= Len(next)
      PROVE  /\ Last(p).at <= Len(Graph[Last(p).block]) /\ b = Graph[Last(p).block][Last(p).at]
             /\ b \in Blocks /\ b \in InGroups(groups)
  <2>1. Last(p).at <= Len(Graph[Last(p).block]) /\ b = Graph[Last(p).block][Last(p).at]
    BY <1>1, <1>5, <1>8 DEF d, b
  <2>2. Len(next) \in Nat /\ Top.at \in 1 .. Len(next)
    BY <1>5, <1>8
  <2>3. b \in Blocks
    BY <1>5, <2>2 DEF b
  <2>4. b \in JumpsOf(Graph)[d]
    <3>1. \A y : y \in JumpsOf(Graph)[d] <=> \E j \in 1 .. Len(Graph[d]) : y = Graph[d][j]
      BY <1>2, <1>5, JumpsFacts
    <3> QED BY <1>5, <2>2, <3>1 DEF b
  <2>5. IsClosed(JumpsOf(Graph), BeforeLast(groups) \cup S)
    BY <1>2 DEF InSearch, S
  <2>6. b \in InGroups(groups)
    BY <1>2, <1>5, <2>4, <2>5 DEF IsClosed
  <2> QED BY <2>1, <2>3, <2>6
<1>9. CASE /\ Top.at <= Len(next) /\ Seen(b)
           /\ search' = [search EXCEPT !.path = rest]
           /\ flags' = [flags EXCEPT ![b] = Mark(@)]
  <2>1. b \in Blocks /\ b \in InGroups(groups)
    BY <1>8, <1>9
  <2>2. /\ flags' \in [Blocks -> BlockFlags]
        /\ (\A x \in Blocks : x # b => flags'[x] = flags[x]) /\ flags'[b].check /\ flags'[b].export
    BY <1>2, <1>9, <2>1 DEF Mark, BlockFlags
  <2>3. BothOf(flags') = both \cup {b}
    BY <1>2, <2>1, <2>2 DEF BothOf, both
  <2>4. b \in S => OnPath(p, b)
    BY <1>9 DEF Seen, OnPath, path, p, S
  <2>5. BreakInv(Graph, Exported, BothOf(flags'), S, ToSet(search.left), rest, done)
    <3>1. /\ both \subseteq BothOf(flags') /\ b \in BothOf(flags')
          /\ \A x \in S : x \in BothOf(flags') => x \in both \/ OnPath(p, x)
      BY <2>3, <2>4
    <3> DEFINE more == BothOf(flags')
    <3> HIDE DEF more
    <3>2. BreakInv(Graph, Exported, more, S, ToSet(search.left), Advanced(p), done)
      BY <1>1, <1>2, <1>3, <1>4, <1>8, <1>9, <3>1, BreakAdvances DEF more
    <3> QED BY <3>2 DEF more, rest
  <2>6. \A x \in Blocks : flags[x].export => flags'[x].export
    BY <2>2
  <2>7. \A x \in Blocks \ InGroups(groups) : flags'[x] = flags[x]
    BY <2>1, <2>2
  <2> QED BY <1>6, <1>9, <2>2, <2>3, <2>5, <2>6, <2>7
<1>10. CASE /\ Top.at <= Len(next) /\ ~Seen(b)
            /\ search' = [search EXCEPT !.path = IF BothFlags(b) THEN rest ELSE Push(rest, b)]
            /\ flags' = flags
  <2>1. b \in S
    BY <1>10 DEF Seen, S
  <2>2. CASE BothFlags(b)
    <3>1. b \in both
      BY <1>2, <1>8, <1>10, <2>2 DEF BothFlags, BothOf, both
    <3>2. BreakInv(Graph, Exported, both, S, ToSet(search.left), rest, done)
      <4>1. both \subseteq both /\ \A x \in S : x \in both => x \in both \/ OnPath(p, x)
        OBVIOUS
      <4> QED BY <1>1, <1>2, <1>3, <1>4, <1>8, <1>10, <3>1, <4>1, BreakAdvances DEF rest
    <3>3. search' = [search EXCEPT !.path = rest]
      BY <1>10, <2>2
    <3> QED BY <1>2, <1>6, <1>10, <3>2, <3>3 DEF both
  <2>3. CASE ~BothFlags(b)
    <3>1. BreakInv(Graph, Exported, both, S, ToSet(search.left), Append(rest, [block |-> b, at |-> 1]), done)
      BY <1>1, <1>2, <1>3, <1>4, <1>8, <1>10, <2>1, BreakEnters DEF rest
    <3>2. search' = [search EXCEPT !.path = Append(rest, [block |-> b, at |-> 1])]
      BY <1>10, <2>3 DEF Push
    <3> QED BY <1>2, <1>6, <1>10, <3>1, <3>2 DEF both
  <2> QED BY <2>2, <2>3
<1> QED BY <1>1, <1>7, <1>9, <1>10

\* Every step keeps the invariant.
LEMMA LoopsStep == ASSUME LoopsInv, [LoopsNext]_pvars PROVE LoopsInv'
<1>1. CASE UNCHANGED pvars
  <2>1. /\ page' = page /\ stage' = stage /\ flags' = flags /\ tarjan' = tarjan /\ search' = search /\ groups' = groups
    BY <1>1 DEF pvars
  <2>2. Graph' = Graph /\ Exported' = Exported /\ PageOK'
    BY <2>1, RequestSame DEF LoopsInv
  <2> QED BY <2>1, <2>2 DEF LoopsInv
<1>2. CASE LoopsNext
  BY <1>2, BuildStep, RootStep, VisitStep, CloseGroupStep, StartSearchStep, SearchStepStep DEF LoopsNext
<1> QED BY <1>1, <1>2

-----------------------------------------------------------------------------
(* What the invariant says of the page code.                               *)

LEMMA BlockTerms ==
  ASSUME PageOK, Graph \in JumpMaps(Blocks)
  PROVE  /\ \A a, b : Reaches(a, b) <=> Leads(JumpsOf(Graph), a, b)
         /\ \A S \in SUBSET Blocks : HasLoop(S) <=> LoopIn(JumpsOf(Graph), S)
<1> DEFINE J == JumpsOf(Graph)
<1>1. DOMAIN J = Blocks /\ \A b \in Blocks : J[b] = ToSet(NextBlocks(b))
  BY BlocksFinite DEF JumpsOf
<1> HIDE DEF J
<1>2. \A S \in SUBSET Blocks : Closed(S) <=> IsClosed(J, S)
  BY <1>1 DEF Closed, IsClosed
<1>3. \A a, b : Reaches(a, b) <=> Leads(J, a, b)
  BY <1>1, <1>2 DEF Reaches, Leads
<1>4. ASSUME NEW S \in SUBSET Blocks PROVE HasLoop(S) <=> LoopIn(J, S)
  <2>1. \A T \in SUBSET S : \A b \in T : J[b] = ToSet(NextBlocks(b))
    BY <1>1
  <2> QED BY <2>1 DEF HasLoop, LoopIn
<1> QED BY <1>3, <1>4 DEF J

\* The jumps of a block lead to blocks.
LEMMA NextExist == ASSUME LoopsInv PROVE NextBlocksExist
<1> SUFFICES ASSUME stage = "loops"
             PROVE  /\ \A b \in Blocks : ToSet(NextBlocks(b)) \subseteq Blocks
                    /\ \A i \in Instrs : page[i].entry => i \in Blocks /\ flags[i].export
  BY DEF NextBlocksExist
<1>1. \A b \in Blocks : NextBlocks(b) \in Seq(Blocks)
  BY StateFacts
<1>2. \A b \in Blocks : ToSet(NextBlocks(b)) \subseteq Blocks
  BY <1>1, ToSetFacts
<1>3. \A i \in Instrs : page[i].entry => i \in Blocks /\ i \in Exported
  BY DEF Exported, Blocks, MakeSplitPoint
<1>4. \A b \in Exported : flags[b].export
  BY StateFacts DEF GroupsOK
<1> QED BY <1>2, <1>3, <1>4

\* The groups are the strongly connected components that can be reached.
LEMMA ComponentsHold == ASSUME LoopsInv PROVE ComponentsExact
<1> DEFINE J == JumpsOf(Graph)
<1>1. ASSUME search # NoSearch, Len(search.left) = Cardinality(search.inside), NEW a, a = Head(search.left)
      PROVE  /\ search.inside = {b \in Blocks : Reaches(a, b) /\ Reaches(b, a)}
             /\ \A b \in BeforeLast(groups) : ~Reaches(b, a)
  <2>1. stage = "loops"
    BY <1>1 DEF LoopsInv, StateOK
  <2>2. Breaking
    BY <1>1, <2>1 DEF Breaking
  <2>3. /\ PageOK /\ Graph \in JumpMaps(Blocks) /\ DOMAIN Graph = Blocks
        /\ InSearch(Graph, Exported, flags, groups, search) /\ search.inside # {}
        /\ search \in [inside : SUBSET Blocks, left : Seq(search.inside), path : Paths(search.inside)]
        /\ BeforeLast(groups) \subseteq Blocks
    BY <2>2, BreakingFacts
  <2>4. a \in search.inside
    <3>1. IsFiniteSet(search.inside)
      BY <2>3, BlocksFinite, FS_Subset
    <3>2. Cardinality(search.inside) # 0
      BY <2>3, <3>1, FS_EmptySet
    <3>3. search.left \in Seq(search.inside) /\ Len(search.left) # 0
      BY <1>1, <2>3, <3>2
    <3> DEFINE l == search.left
    <3> HIDE DEF l
    <3>4. l \in Seq(search.inside) /\ Len(l) # 0 => Head(l) \in search.inside
      OBVIOUS
    <3> QED BY <1>1, <3>3, <3>4 DEF l
  <2>5. /\ Component(J, search.inside) /\ IsClosed(J, BeforeLast(groups)) /\ BeforeLast(groups) \cap search.inside = {}
        /\ J \in EdgeMaps(Blocks) /\ DOMAIN J = Blocks
    BY <2>3, JumpsFacts DEF InSearch, EdgeMaps
  <2>6. \A x, y : Reaches(x, y) <=> Leads(J, x, y)
    BY <2>3, BlockTerms
  <2> HIDE DEF J
  <2>7. \A b \in Blocks : b \in search.inside <=> Leads(J, a, b) /\ Leads(J, b, a)
    BY <2>4, <2>5 DEF Component
  <2>8. \A b \in BeforeLast(groups) : ~Leads(J, b, a)
    BY <2>3, <2>4, <2>5, LeadsFacts
  <2> QED BY <2>3, <2>6, <2>7, <2>8
<1>2. ASSUME stage = "done"
      PROVE  InGroups(groups) = {b \in Blocks : \E a \in Exported : Reaches(a, b)}
  <2>1. /\ PageOK /\ DOMAIN Graph = Blocks /\ Graph \in JumpMaps(Blocks) /\ Exported \subseteq Blocks
        /\ TarjanOK(Graph, Exported, tarjan) /\ GroupsOK(Graph, Exported, flags, groups, tarjan)
        /\ tarjan.frontier = <<>> /\ Exported \subseteq DOMAIN tarjan.index
    BY <1>2, BlocksFinite DEF LoopsInv, StateOK
  <2> DEFINE V == DOMAIN tarjan.index
  <2>2. /\ V \subseteq Blocks
        /\ VisitInv(J, Exported, tarjan.index, tarjan.low, ToSet(tarjan.stack), FrontierBlocks(tarjan.frontier),
                    WalkedOf(Graph, V, tarjan.frontier))
    BY <2>1, TarjanFacts
  <2>3. FrontierBlocks(tarjan.frontier) = {}
    BY <2>1 DEF FrontierBlocks
  <2>4. ToSet(tarjan.stack) = {}
    BY <2>2, <2>3 DEF VisitInv, StackLeads
  <2>5. InGroups(groups) = V
    BY <2>1, <2>4 DEF GroupsOK, Finished
  <2>6. IsClosed(J, V)
    <3>1. IsClosed(J, Finished(tarjan))
      BY <2>1, FinishedClosed
    <3> QED BY <2>4, <3>1 DEF Finished
  <2>7. \A x \in V : \E a \in Exported : Leads(J, a, x)
    BY <2>2 DEF VisitInv
  <2>8. J \in EdgeMaps(Blocks)
    BY <2>1, JumpsFacts
  <2>9. \A x, y : Reaches(x, y) <=> Leads(J, x, y)
    BY <2>1, BlockTerms
  <2> HIDE DEF J, V
  <2>10. \A a \in Exported : \A b : Leads(J, a, b) => b \in V
    BY <2>1, <2>2, <2>6, <2>8, LeadsFacts DEF V
  <2> QED BY <2>2, <2>5, <2>7, <2>9, <2>10
<1> QED BY <1>1, <1>2 DEF ComponentsExact, BeforeLast, InGroups

\* No loop of a component with an entry is left whole.
LEMMA LoopsHold == ASSUME LoopsInv PROVE LoopsBroken
<1> SUFFICES ASSUME search = NoSearch, NEW k \in DOMAIN groups, groups[k] \cap Exported # {}
             PROVE  /\ ~HasLoop({b \in groups[k] : ~flags[b].check})
                    /\ ~HasLoop({b \in groups[k] : ~flags[b].export})
  BY DEF LoopsBroken
<1>1. stage \in {"loops", "done"}
  BY DEF LoopsInv, StateOK
<1>2. /\ PageOK /\ DOMAIN Graph = Blocks /\ Graph \in JumpMaps(Blocks)
      /\ GroupsOK(Graph, Exported, flags, groups, tarjan)
      /\ SearchOK(Graph, Exported, flags, groups, search)
  BY <1>1, BlocksFinite DEF LoopsInv, StateOK
<1>3. groups \in Seq(SUBSET Blocks) /\ flags \in [Blocks -> BlockFlags]
  BY <1>2 DEF GroupsOK
<1>4. k \in 1 .. Len(groups) /\ groups[k] \subseteq Blocks
  BY <1>3
<1>5. ~LoopIn(JumpsOf(Graph), groups[k] \ BothOf(flags))
  BY <1>2, <1>4 DEF SearchOK, Broken
<1>6. /\ {b \in groups[k] : ~flags[b].check} \subseteq groups[k] \ BothOf(flags)
      /\ {b \in groups[k] : ~flags[b].export} \subseteq groups[k] \ BothOf(flags)
  BY DEF BothOf
<1>7. \A S, T : S \subseteq T /\ LoopIn(JumpsOf(Graph), S) => LoopIn(JumpsOf(Graph), T)
  BY DEF LoopIn
<1>8. \A S \in SUBSET Blocks : HasLoop(S) <=> LoopIn(JumpsOf(Graph), S)
  BY <1>2, BlockTerms
<1> QED BY <1>4, <1>5, <1>6, <1>7, <1>8

\* Page code jumps to blocks; its groups are the strongly connected components that can be
\* reached; no loop of a component with an entry is left whole (codegen/page/mod.rs,
\* codegen/components.rs).
THEOREM PageCodeIsExact == CodePagesAssumption /\ LoopsSpec => []PageCodeExact
<1>1. CodePagesAssumption /\ LoopsInit => LoopsInv
  BY LoopsStart
<1>2. LoopsInv /\ [LoopsNext]_pvars => LoopsInv'
  BY LoopsStep
<1>3. LoopsInv => PageCodeExact
  BY NextExist, ComponentsHold, LoopsHold DEF PageCodeExact
<1> QED BY <1>1, <1>2, <1>3, PTL DEF LoopsSpec
=============================================================================

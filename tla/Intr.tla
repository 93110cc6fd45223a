-------------------------------- MODULE Intr --------------------------------
(***************************************************************************)
(* The INTR line of the emulated processor (sem86-core/src/hw/intr.rs).    *)
(*                                                                         *)
(* INTR is a counter inside the emulator's own allocation.  Every          *)
(* interrupt source keeps an IntrHandle (a raw pointer to the counter and  *)
(* a shared Inner block).  IntrHandle::request increments the counter and  *)
(* returns a PendingRequest, whose Drop decrements it again; the processor *)
(* polls "count > 0".  A handle may outlive the counter: the clock thread  *)
(* is never joined.  Inner.pointer_is_valid and Inner.refcount are there   *)
(* to make that safe.                                                      *)
(*                                                                         *)
(* One action is one atomic operation of the code; a thread's calls are    *)
(* sequential.  Owner is the thread that builds, polls and drops the Intr. *)
(* A handle may be cloned and sent, so any thread calls in any phase.      *)
(***************************************************************************)
EXTENDS Integers, FiniteSets

CONSTANTS Threads,   \* threads that own a clone of the IntrHandle
          Owner,     \* the emulator (CPU) thread, one of Threads
          Requests   \* identities of PendingRequest values

ASSUME ThreadsAssumption  == IsFiniteSet(Threads) /\ Owner \in Threads
ASSUME RequestsAssumption == IsFiniteSet(Requests)

VARIABLES
  phase,     \* "early" | "building" | "live" | "draining" | "freed"
  count,     \* Intr.count; a negative number stands for a word that wrapped
  loaded,    \* the value EarlyIntr::build read before the struct was written
  valid,     \* Inner.pointer_is_valid
  refcount,  \* Inner.refcount
  pc,        \* per thread: where it is in IntrHandle::with
  call,      \* per thread: the closure that `with` runs
  held,      \* PendingRequests that exist and are not being dropped
  counted,   \* history: the requests whose increment was done
  missed,    \* history: increments less decrements that EarlyIntr::build missed
  late       \* history: threads that took a reference after the last check
             \* of Intr::drop

vars == <<phase, count, loaded, valid, refcount, pc, call, held, counted, missed, late>>

Phases == {"early", "building", "live", "draining", "freed"}
Places == {"idle", "check", "ref", "access", "unref", "failed", "panicked"}
Ops    == {"request", "release", "poll"}
NoCall == [op |-> "poll", req |-> {}]
Calls  == [op : Ops, req : {{}} \cup {{r} : r \in Requests}]

Inside == {t \in Threads : pc[t] \in {"access", "unref", "failed"}}

\* The identities in use: a PendingRequest that exists, one that a running call
\* creates or destroys, and one whose increment was left in the counter.
InUse == held \cup counted \cup UNION {call[t].req : t \in Threads}

\* A thread that is in no call: it makes one, or a panic has ended it.
OutOfCall(t) == pc[t] \in {"idle", "panicked"}

Init ==
  /\ phase = "early"          \* EarlyIntr::from_ptr has zeroed the counter
  /\ count = 0
  /\ loaded = 0
  /\ valid = TRUE
  /\ refcount = 0
  /\ pc = [t \in Threads |-> "idle"]
  /\ call = [t \in Threads |-> NoCall]
  /\ held = {}
  /\ counted = {}
  /\ missed = 0
  /\ late = {}

----------------------------------------------------------------------------
(* EarlyIntr::build, then the write of the whole structure over the         *)
(* counter: what reaches the counter in between is lost.                    *)
BuildLoad ==
  /\ phase = "early" /\ pc[Owner] = "idle"
  /\ phase' = "building"
  /\ loaded' = count
  /\ UNCHANGED <<count, valid, refcount, pc, call, held, counted, missed, late>>

\* Fault: the structure is written with a counter of its own.
BadBuildStore ==
  /\ phase = "building"
  /\ phase' = "live"
  /\ count' = 0
  /\ UNCHANGED <<loaded, valid, refcount, pc, call, held, counted, missed, late>>

BuildStore ==
  /\ phase = "building"
  /\ phase' = "live"
  /\ count' = loaded
  /\ UNCHANGED <<loaded, valid, refcount, pc, call, held, counted, missed, late>>

----------------------------------------------------------------------------
(* A call of IntrHandle::request, PendingRequest::drop or any_pending, from *)
(* the moment EarlyIntr::handle exists: only the owner is busy while it     *)
(* builds or drops the structure.  A PendingRequest sits in a mutex and may *)
(* be dropped by any thread.                                                *)
MayCall(t) ==
  /\ pc[t] = "idle"
  /\ (t = Owner => phase \notin {"building", "draining"})

Enter(t, o, r) ==
  /\ pc' = [pc EXCEPT ![t] = "check"]
  /\ call' = [call EXCEPT ![t] = [op |-> o, req |-> r]]
  /\ UNCHANGED <<phase, count, loaded, valid, refcount, counted, missed, late>>

Request(t) ==
  /\ MayCall(t)
  /\ \E r \in Requests \ InUse : Enter(t, "request", {r})
  /\ UNCHANGED held

\* Fault: the request can be dropped twice.
BadRelease(t) ==
  /\ MayCall(t)
  /\ \E r \in held : Enter(t, "release", {r})
  /\ UNCHANGED held

Release(t) ==
  /\ MayCall(t)
  /\ \E r \in held : Enter(t, "release", {r}) /\ held' = held \ {r}

AnyPending(t) ==
  /\ MayCall(t)
  /\ Enter(t, "poll", {})
  /\ UNCHANGED held

(* The end of a call: request hands its PendingRequest to the caller.       *)
Return(t, after) ==
  /\ pc' = [pc EXCEPT ![t] = after]
  /\ call' = [call EXCEPT ![t] = NoCall]
  /\ held' = IF call[t].op = "request" THEN held \cup call[t].req ELSE held

(* IntrHandle::with, first statement.  An invalid pointer skips the closure;*)
(* request still returns a PendingRequest, and the drop of one is a no-op.  *)
CheckValid(t) ==
  /\ pc[t] = "check"
  /\ IF valid
     THEN /\ pc' = [pc EXCEPT ![t] = "ref"]
          /\ UNCHANGED <<call, held>>
     ELSE Return(t, "idle")
  /\ UNCHANGED <<phase, count, loaded, valid, refcount, counted, missed, late>>

TakeRef(t) ==
  /\ pc[t] = "ref"
  /\ refcount' = refcount + 1
  /\ pc' = [pc EXCEPT ![t] = "access"]
  /\ late' = IF phase = "freed" THEN late \cup {t} ELSE late
  /\ UNCHANGED <<phase, count, loaded, valid, call, held, counted, missed>>

(* The closure: fetch_add of request, fetch_sub of PendingRequest::drop,    *)
(* the load of any_pending.  A drop that finds zero wraps the counter, and  *)
(* panics once its reference is given back.  After the deallocation the     *)
(* pointer reaches memory that is no longer the counter.                    *)
Change(op) == IF op = "request" THEN 1 ELSE IF op = "release" THEN -1 ELSE 0

Underflows(t) == call[t].op = "release" /\ phase # "freed" /\ count = 0

Access(t) ==
  /\ pc[t] = "access"
  /\ pc' = [pc EXCEPT ![t] = IF Underflows(t) THEN "failed" ELSE "unref"]
  /\ count' = IF phase = "freed" THEN count ELSE count + Change(call[t].op)
  /\ counted' = IF call[t].op = "request" THEN counted \cup call[t].req ELSE counted \ call[t].req
  /\ missed' = IF phase = "building" THEN missed + Change(call[t].op) ELSE missed
  /\ UNCHANGED <<phase, loaded, valid, refcount, call, held, late>>

DropRef(t) ==
  /\ pc[t] \in {"unref", "failed"}
  /\ refcount' = refcount - 1
  /\ Return(t, IF pc[t] = "failed" THEN "panicked" ELSE "idle")
  /\ late' = late \ {t}
  /\ UNCHANGED <<phase, count, loaded, valid, counted, missed>>

----------------------------------------------------------------------------
\* Fault: pointer_is_valid is not cleared.
BadInvalidate ==
  /\ phase = "live" /\ OutOfCall(Owner)
  /\ phase' = "draining"
  /\ UNCHANGED <<count, loaded, valid, refcount, pc, call, held, counted, missed, late>>

(* Intr::drop: invalidate, spin until no reference is left, deallocate.  A  *)
(* panic of the owner unwinds into it.                                      *)
Invalidate ==
  /\ phase = "live" /\ OutOfCall(Owner)
  /\ phase' = "draining"
  /\ valid' = FALSE
  /\ UNCHANGED <<count, loaded, refcount, pc, call, held, counted, missed, late>>

\* Fault: no wait for the references.
BadDeallocate ==
  /\ phase = "draining"
  /\ phase' = "freed"
  /\ UNCHANGED <<count, loaded, valid, refcount, pc, call, held, counted, missed, late>>

Deallocate ==
  /\ phase = "draining"
  /\ refcount = 0
  /\ phase' = "freed"
  /\ UNCHANGED <<count, loaded, valid, refcount, pc, call, held, counted, missed, late>>

WithSteps(t) == CheckValid(t) \/ TakeRef(t) \/ Access(t) \/ DropRef(t)

Next ==
  \/ BuildLoad
  \/ BuildStore
  \/ \E t \in Threads : Request(t) \/ Release(t) \/ AnyPending(t) \/ WithSteps(t)
  \/ Invalidate
  \/ Deallocate

(* Every thread that has entered `with` runs on, and the owner's build and  *)
(* spin loop run on; nobody is obliged to make a call.                      *)
Fairness ==
  /\ \A t \in Threads : WF_vars(WithSteps(t))
  /\ WF_vars(BuildStore)
  /\ WF_vars(Deallocate)

Spec == Init /\ [][Next]_vars /\ Fairness

----------------------------------------------------------------------------
(* Types of the state.                                                      *)
TypeOK ==
  /\ phase \in Phases
  /\ count \in Int
  /\ loaded \in Int
  /\ valid \in BOOLEAN
  /\ refcount \in Nat
  /\ pc \in [Threads -> Places]
  /\ call \in [Threads -> Calls]
  /\ held \in SUBSET Requests
  /\ counted \in SUBSET Requests
  /\ missed \in Int
  /\ late \in SUBSET Threads

\* INTR is exact up to what the build missed: whatever the interleaving of
\* request and drop on the different threads, before, during and after the
\* build, the counter is the number of requests added and not yet dropped,
\* less the increments and plus the decrements that fell between the load of
\* EarlyIntr::build and the write of the structure.  ("This might miss some
\* pending requests".)  The poll of Intr::any_pending relies on it: a count
\* that is too high keeps the processor out of guest code for ever, one that
\* is too low loses interrupts.
CountExact ==
  phase # "freed" =>
    /\ phase \in {"early", "building"} => count = Cardinality(counted)
    /\ phase = "building" => loaded = Cardinality(counted) - missed
    /\ phase \notin {"early", "building"} => count = Cardinality(counted) - missed

\* The assertion in PendingRequest::drop ("assert_ne!(.., 0)") fires only after
\* a build that missed a request: the comment on EarlyIntr::build names the
\* one cause of the panic.
NoUnderflow ==
  (\E t \in Threads : pc[t] \in {"failed", "panicked"}) =>
    missed > 0 /\ phase \notin {"early", "building"}

\* Intr::drop waits for everyone it can see: once the memory is gone, a
\* thread that is between fetch_add and fetch_sub took its reference after
\* the final check of the refcount.  (It can, because pointer_is_valid is
\* read before the reference is taken: see SafeAccess.)
DrainedBeforeFree == phase = "freed" => Inside \subseteq late

\* The SAFETY comment of IntrHandle::with: Intr::drop hangs while refcount > 0
\* "so that we can safely perform this access", i.e. no closure runs on the
\* counter after it was deallocated.
SafeAccess == \A t \in Threads : ~(phase = "freed" /\ pc[t] = "access")

\* Intr::drop terminates: once invalidated, the spin loop sees refcount = 0,
\* because no new caller passes the validity check.
DropTerminates == (phase = "draining") ~> (phase = "freed")
=============================================================================

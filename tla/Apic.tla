-------------------------------- MODULE Apic --------------------------------
(***************************************************************************)
(* The I/O APIC (hw/pic/io.rs), the lines into it (hw/pic/mod.rs) and the  *)
(* local APIC (hw/pic/local.rs), with the processor that polls INTR        *)
(* (emulator/mod.rs).                                                      *)
(*                                                                         *)
(* All registers are atomics shared by the CPU thread and the device       *)
(* threads; one action is one access.  A pulse is set(true), set(false); a *)
(* set reads the redirection entry, may raise the vector in the local      *)
(* APIC, and writes the whole entry back.  With --synchronous-clock the    *)
(* devices run on the CPU thread, between guest instructions.              *)
(*                                                                         *)
(* The trigger_mode bitset of the local APIC is written and never used, so *)
(* it is left out.                                                         *)
(***************************************************************************)
EXTENDS Integers, FiniteSets, FiniteSetsExt

CONSTANTS Lines,         \* I/O APIC inputs in use
          Vectors,       \* vectors in use
          Priorities,    \* values the guest writes to the task priority register
          GuestEntries,  \* low halves the guest writes to a redirection entry
          SyncGuest,     \* guest commands explored with the synchronous clock
          AsyncGuest,    \* guest commands explored with device threads
          CPU, Devices   \* threads

ASSUME VectorsAssumption == Vectors \subseteq 0..255
ASSUME LinesAssumption   == Lines \subseteq 0..23 /\ Priorities \subseteq 0..255
ASSUME ThreadAssumption  == CPU \notin Devices

Commands == {"eoi", "tpr", "icr", "disable", "low", "high", "if", "pulse"}
ASSUME GuestAssumption == SyncGuest \cup AsyncGuest \subseteq Commands

Entry == [vector : Vectors \cup {0}, level : BOOLEAN, low : BOOLEAN, masked : BOOLEAN,
          pending : BOOLEAN, received : BOOLEAN]
ASSUME EntriesAssumption == GuestEntries \subseteq Entry

VARIABLES
  async,         \* the clock mode: device threads of their own
  irq_lines,     \* IoApicCore.irq_lines
  entries,       \* IoApicCore.redirection_entries
  requests,      \* LocalApicCore.interrupt_requests
  in_service,    \* LocalApicCore.in_service
  task_priority, \* LocalApicCore.task_priority
  pending_intr,  \* LocalApicCore.pending_intr is Some
  enabled,       \* LocalApic.apic_base.enabled_globally
  periodic,      \* PeriodicIntr.pending_interrupt_request is Some
  iflag,         \* the guest's IF
  pc,            \* per thread
  loc,           \* per thread: the local variables of its call
  due            \* history, synchronous clock: the vectors a thread's pulse has to request

io    == <<irq_lines, entries>>
local == <<requests, in_service, task_priority, pending_intr, enabled>>
vars  == <<async, io, local, periodic, iflag, pc, loc, due>>

Threads == Devices \cup {CPU}
INTR    == pending_intr \/ periodic

Priority(v)      == v \div 16
CurrentPriority  == Priority(IF in_service # {} THEN Max(in_service) ELSE task_priority)
Eligible         == {v \in requests : Priority(v) > CurrentPriority}

NoEntry   == [vector |-> 0, level |-> TRUE, low |-> FALSE, masked |-> TRUE,
              pending |-> FALSE, received |-> FALSE]
NoLocals  == [line |-> 0, val |-> FALSE, changed |-> FALSE, entry |-> NoEntry, vector |-> 0,
              word |-> 0]

Rest(t) == IF t = CPU THEN "fetch" ELSE "idle"

\* Without asynchronous clock the devices run on the CPU thread, one at a time
\* and between its steps.
Turn(t) == async \/ \A u \in Threads \ {t} : pc[u] = Rest(u)

Init ==
  /\ async \in BOOLEAN
  /\ irq_lines = {}
  /\ entries = [l \in Lines |-> NoEntry]
  /\ requests = {} /\ in_service = {} /\ task_priority = 0
  /\ pending_intr = FALSE /\ enabled = TRUE
  /\ periodic = FALSE /\ iflag = FALSE
  /\ pc = [t \in Threads |-> Rest(t)]
  /\ loc = [t \in Threads |-> NoLocals]
  /\ due = [t \in Threads |-> {}]

At(t, label)   == pc[t] = label /\ Turn(t)
Goto(t, label) == pc' = [pc EXCEPT ![t] = label]

Exec(kind)     == At(CPU, "exec") /\ kind \in IF async THEN AsyncGuest ELSE SyncGuest

----------------------------------------------------------------------------
(* Bitset::highest_index_set loads the eight words one after another, from *)
(* the highest down to the first that is not empty.  What only the CPU     *)
(* writes (in_service, task_priority) the CPU reads in one step.           *)
TopWord        == 7
Loaded(t, S)   == {v \in S : v \div 32 = loc[t].word}
ScanEnds(t, S) == Loaded(t, S) # {} \/ loc[t].word = 0
StartScan(t)   == loc' = [loc EXCEPT ![t].word = TopWord]

ScanOn(t) ==
  /\ \/ At(t, "prio") /\ ~ScanEnds(t, in_service)
     \/ (At(t, "ack") \/ At(t, "pending")) /\ ~ScanEnds(t, requests)
  /\ loc' = [loc EXCEPT ![t].word = @ - 1]
  /\ UNCHANGED <<async, io, local, periodic, iflag, pc, due>>

----------------------------------------------------------------------------
(* DynamicApicIrqLine::pulse and set.                                      *)
MustDeliver(e) == ~e.masked /\ (e.level => e.low \/ ~e.pending)

Pulse(t, l) ==
  /\ IF t = CPU THEN Exec("pulse") ELSE At(t, "idle")
  /\ Goto(t, "line")
  /\ loc' = [loc EXCEPT ![t] = [NoLocals EXCEPT !.line = l, !.val = TRUE]]
  /\ due' = [due EXCEPT ![t] = IF ~async /\ MustDeliver(entries[l]) THEN {entries[l].vector} ELSE {}]
  /\ UNCHANGED <<async, io, local, periodic, iflag>>

\* Fault: the edge is looked for after the new level is stored.
BadSetLine(t) ==
  /\ At(t, "line")
  /\ LET l == loc[t].line
     IN  /\ irq_lines' = IF loc[t].val THEN irq_lines \cup {l} ELSE irq_lines \ {l}
         /\ loc' = [loc EXCEPT ![t].changed = FALSE]
  /\ Goto(t, "entry")
  /\ UNCHANGED <<async, entries, local, periodic, iflag, due>>

SetLine(t) ==
  /\ At(t, "line")
  /\ LET l == loc[t].line
     IN  /\ irq_lines' = IF loc[t].val THEN irq_lines \cup {l} ELSE irq_lines \ {l}
         /\ loc' = [loc EXCEPT ![t].changed = (l \in irq_lines) # loc[t].val]
  /\ Goto(t, "entry")
  /\ UNCHANGED <<async, entries, local, periodic, iflag, due>>

\* The end of a set: the pulse goes on with set(false), or is over.
EndSet(t) ==
  IF loc[t].val
  THEN /\ Goto(t, "line")
       /\ loc' = [loc EXCEPT ![t] = [NoLocals EXCEPT !.line = loc[t].line]]
       /\ UNCHANGED due
  ELSE /\ Goto(t, Rest(t))
       /\ loc' = [loc EXCEPT ![t] = NoLocals]
       /\ due' = [due EXCEPT ![t] = {}]

\* What set does for the entry it has just loaded.
Decision(e, val, changed) ==
  LET asserted == val # e.low
  IN  CASE e.masked /\ e.level /\ asserted              -> "latch"
        [] ~e.masked /\ ~e.level /\ changed /\ asserted -> "raise"
        [] ~e.masked /\ e.level /\ asserted /\ ~e.pending -> "receive"
        [] ~e.masked /\ e.level /\ ~asserted            -> "clear"
        [] OTHER                                        -> "ignore"

LoadEntry(t) ==
  /\ At(t, "entry")
  /\ LET e == entries[loc[t].line]
         d == Decision(e, loc[t].val, loc[t].changed)
     IN  IF d = "ignore"
         THEN EndSet(t)
         ELSE /\ Goto(t, d)
              /\ loc' = [loc EXCEPT ![t].entry = e, ![t].vector = e.vector]
              /\ UNCHANGED due
  /\ UNCHANGED <<async, io, local, periodic, iflag>>

\* The whole entry is written back, from the copy.
StoreEntry(t, e) ==
  /\ entries' = [entries EXCEPT ![loc[t].line] = e]
  /\ UNCHANGED <<async, irq_lines, local, periodic, iflag>>

LatchMasked(t) ==
  /\ At(t, "latch")
  /\ StoreEntry(t, [loc[t].entry EXCEPT !.pending = TRUE])
  /\ EndSet(t)

ClearLevel(t) ==
  /\ At(t, "clear")
  /\ StoreEntry(t, [loc[t].entry EXCEPT !.pending = FALSE, !.received = FALSE])
  /\ EndSet(t)

\* send_interrupt for a level-sensitive entry.
MarkReceived(t) ==
  /\ At(t, "receive")
  /\ StoreEntry(t, [loc[t].entry EXCEPT !.received = TRUE])
  /\ Goto(t, "raise")
  /\ UNCHANGED <<loc, due>>

AfterSend(t) ==
  /\ At(t, "after")
  /\ StoreEntry(t, [loc[t].entry EXCEPT !.pending = loc[t].entry.level])
  /\ EndSet(t)

----------------------------------------------------------------------------
(* LocalApicCore::raise_interrupt, from send_interrupt or from a write to  *)
(* the ICR (then there is no line, and no entry to write back).            *)
NoLine    == -1
Raised(t) == IF loc[t].line = NoLine THEN "fetch" ELSE "after"

SetRequest(t) ==
  /\ At(t, "raise")
  /\ requests' = requests \cup {loc[t].vector}
  /\ Goto(t, IF loc[t].vector \in requests THEN Raised(t) ELSE "isr")
  /\ UNCHANGED <<async, io, in_service, task_priority, pending_intr, enabled,
                 periodic, iflag, loc, due>>

LookInService(t) ==
  /\ At(t, "isr")
  /\ Goto(t, IF loc[t].vector \in in_service THEN Raised(t) ELSE "prio")
  /\ StartScan(t)
  /\ UNCHANGED <<async, io, local, periodic, iflag, due>>

Compare(t, p) == Goto(t, IF Priority(loc[t].vector) > p THEN "intr" ELSE Raised(t))

LoadPriority(t) ==
  /\ At(t, "prio") /\ ScanEnds(t, in_service)
  /\ LET found == Loaded(t, in_service)
     IN  IF found # {} THEN Compare(t, Priority(Max(found))) ELSE Goto(t, "tpr")
  /\ UNCHANGED <<async, io, local, periodic, iflag, loc, due>>

LoadTaskPriority(t) ==
  /\ At(t, "tpr")
  /\ Compare(t, Priority(task_priority))
  /\ UNCHANGED <<async, io, local, periodic, iflag, loc, due>>

RaiseIntr(t) ==
  /\ At(t, "intr")
  /\ pending_intr' = TRUE
  /\ Goto(t, Raised(t))
  /\ UNCHANGED <<async, io, requests, in_service, task_priority, enabled, periodic,
                 iflag, loc, due>>

----------------------------------------------------------------------------
\* Fault: the PendingRequest is dropped at once instead of kept.
BadPeriodicTick == ~periodic /\ UNCHANGED vars

(* The processor: the poll of INTR, then Hw::check_interrupt, which asks   *)
(* the local APIC first.                                                   *)
PeriodicTick ==
  /\ ~periodic
  /\ periodic' = TRUE
  /\ UNCHANGED <<async, io, local, iflag, pc, loc, due>>

Poll ==
  /\ At(CPU, "fetch")
  /\ IF INTR /\ iflag
     THEN /\ Goto(CPU, IF enabled THEN "ack" ELSE "fetch")
          /\ StartScan(CPU)
          /\ periodic' = FALSE
     ELSE Goto(CPU, "exec") /\ UNCHANGED <<periodic, loc>>
  /\ UNCHANGED <<async, io, local, iflag, due>>

\* Fault: only the task priority register is compared.
BadNextPending ==
  /\ At(CPU, "ack") /\ ScanEnds(CPU, requests)
  /\ LET found == Loaded(CPU, requests)
     IN  IF found # {} /\ Priority(Max(found)) > Priority(task_priority)
         THEN /\ Goto(CPU, "reset")
              /\ loc' = [loc EXCEPT ![CPU].vector = Max(found)]
         ELSE Goto(CPU, "none") /\ UNCHANGED loc
  /\ UNCHANGED <<async, io, local, periodic, iflag, due>>

\* next_pending_interrupt: the choice of the vector.
NextPending ==
  /\ At(CPU, "ack") /\ ScanEnds(CPU, requests)
  /\ LET found == Loaded(CPU, requests)
     IN  IF found # {} /\ Priority(Max(found)) > CurrentPriority
         THEN /\ Goto(CPU, "reset")
              /\ loc' = [loc EXCEPT ![CPU].vector = Max(found)]
         ELSE Goto(CPU, "none") /\ UNCHANGED loc
  /\ UNCHANGED <<async, io, local, periodic, iflag, due>>

ResetRequest ==
  /\ At(CPU, "reset")
  /\ requests' = requests \ {loc[CPU].vector}
  /\ Goto(CPU, "service")
  /\ UNCHANGED <<async, io, in_service, task_priority, pending_intr, enabled, periodic,
                 iflag, loc, due>>

StartService ==
  /\ At(CPU, "service")
  /\ in_service' = in_service \cup {loc[CPU].vector}
  /\ Goto(CPU, "enter")
  /\ UNCHANGED <<async, io, requests, task_priority, pending_intr, enabled, periodic,
                 iflag, loc, due>>

\* INTR is released in both outcomes; enter_interrupt clears IF.
ReleaseIntr ==
  /\ pc[CPU] \in {"enter", "none"} /\ Turn(CPU)
  /\ pending_intr' = FALSE
  /\ iflag' = (iflag /\ pc[CPU] = "none")
  /\ Goto(CPU, "fetch")
  /\ loc' = [loc EXCEPT ![CPU] = NoLocals]
  /\ UNCHANGED <<async, io, requests, in_service, task_priority, enabled, periodic, due>>

----------------------------------------------------------------------------
\* Fault: no check_pending after the end of an interrupt.
BadWriteEoi ==
  /\ Exec("eoi")
  /\ in_service' = IF in_service = {} THEN {} ELSE in_service \ {Max(in_service)}
  /\ Goto(CPU, "fetch")
  /\ UNCHANGED <<async, io, requests, task_priority, pending_intr, enabled, periodic,
                 iflag, loc, due>>

(* Guest accesses to the local APIC.                                       *)
WriteEoi ==
  /\ Exec("eoi")
  /\ IF in_service # {}
     THEN in_service' = in_service \ {Max(in_service)} /\ Goto(CPU, "pending") /\ StartScan(CPU)
     ELSE UNCHANGED <<in_service, loc>> /\ Goto(CPU, "fetch")
  /\ UNCHANGED <<async, io, requests, task_priority, pending_intr, enabled, periodic,
                 iflag, due>>

WriteTaskPriority(p) ==
  /\ Exec("tpr")
  /\ task_priority' = p
  /\ Goto(CPU, "pending")
  /\ StartScan(CPU)
  /\ UNCHANGED <<async, io, requests, in_service, pending_intr, enabled, periodic,
                 iflag, due>>

\* check_pending: the scan of the requests, then the store.
CheckPending ==
  /\ At(CPU, "pending") /\ ScanEnds(CPU, requests)
  /\ LET found == Loaded(CPU, requests)
     IN  IF found # {}
         THEN /\ loc' = [loc EXCEPT ![CPU].vector = Max(found)]
              /\ Goto(CPU, "assign")
         ELSE /\ loc' = [loc EXCEPT ![CPU] = NoLocals]
              /\ Goto(CPU, "fetch")
  /\ UNCHANGED <<async, io, local, periodic, iflag, due>>

AssignIntr ==
  /\ At(CPU, "assign")
  /\ pending_intr' = (Priority(loc[CPU].vector) > CurrentPriority)
  /\ Goto(CPU, "fetch")
  /\ loc' = [loc EXCEPT ![CPU] = NoLocals]
  /\ UNCHANGED <<async, io, requests, in_service, task_priority, enabled, periodic,
                 iflag, due>>

\* An interrupt to the processor itself.
WriteIcr(v) ==
  /\ Exec("icr")
  /\ loc' = [loc EXCEPT ![CPU] = [NoLocals EXCEPT !.line = NoLine, !.vector = v]]
  /\ Goto(CPU, "raise")
  /\ UNCHANGED <<async, io, local, periodic, iflag, due>>

\* write_apic_base with the enable bit clear; with the bit set it panics.
Disable ==
  /\ Exec("disable")
  /\ enabled' = FALSE
  /\ Goto(CPU, "fetch")
  /\ UNCHANGED <<async, io, requests, in_service, task_priority, pending_intr, periodic,
                 iflag, loc, due>>

----------------------------------------------------------------------------
(* Guest accesses to the I/O APIC.  Every modelled field is in the low     *)
(* half; a write of the high half writes back the low half it has loaded.  *)
WriteEntryLow(l, e) ==
  /\ Exec("low")
  /\ entries' = [entries EXCEPT ![l] = e]
  /\ Goto(CPU, "fetch")
  /\ UNCHANGED <<async, irq_lines, local, periodic, iflag, loc, due>>

LoadEntryHigh(l) ==
  /\ Exec("high")
  /\ loc' = [loc EXCEPT ![CPU] = [NoLocals EXCEPT !.line = l, !.entry = entries[l]]]
  /\ Goto(CPU, "high")
  /\ UNCHANGED <<async, io, local, periodic, iflag, due>>

StoreEntryHigh ==
  /\ At(CPU, "high")
  /\ StoreEntry(CPU, loc[CPU].entry)
  /\ loc' = [loc EXCEPT ![CPU] = NoLocals]
  /\ Goto(CPU, "fetch")
  /\ UNCHANGED due

SetIf(b) ==
  /\ Exec("if")
  /\ iflag' = b
  /\ Goto(CPU, "fetch")
  /\ UNCHANGED <<async, io, local, periodic, loc, due>>

GuestStep ==
  \/ WriteEoi \/ Disable
  \/ \E p \in Priorities : WriteTaskPriority(p)
  \/ \E v \in Vectors : WriteIcr(v)
  \/ \E l \in Lines : \/ Pulse(CPU, l) \/ LoadEntryHigh(l)
                      \/ \E e \in GuestEntries : WriteEntryLow(l, e)
  \/ \E b \in BOOLEAN : SetIf(b)

CpuStep ==
  \/ Poll \/ NextPending \/ ResetRequest \/ StartService \/ ReleaseIntr
  \/ CheckPending \/ AssignIntr \/ StoreEntryHigh

PulseStep(t) ==
  \/ SetLine(t) \/ LoadEntry(t) \/ LatchMasked(t) \/ ClearLevel(t) \/ MarkReceived(t)
  \/ AfterSend(t) \/ SetRequest(t) \/ LookInService(t) \/ ScanOn(t) \/ LoadPriority(t)
  \/ LoadTaskPriority(t) \/ RaiseIntr(t)

Next ==
  \/ CpuStep
  \/ GuestStep
  \/ \E t \in Threads : PulseStep(t)
  \/ \E t \in Devices, l \in Lines : Pulse(t, l)
  \/ PeriodicTick

(* Threads run, the two-second timer fires, the guest ends its interrupts  *)
(* and does not keep IF clear.  Strong fairness of the CPU: the synchronous  *)
(* clock runs the devices between its steps.                               *)
Fairness ==
  /\ SF_vars(CpuStep)
  /\ WF_vars(GuestStep)
  /\ \A t \in Threads : WF_vars(PulseStep(t))
  /\ WF_vars(PeriodicTick)
  /\ SF_vars(SetIf(TRUE))
  /\ SF_vars(WriteEoi)

Spec == Init /\ [][Next]_vars /\ Fairness

----------------------------------------------------------------------------
\* Types of the state.
TypeOK ==
  /\ async \in BOOLEAN /\ enabled \in BOOLEAN /\ periodic \in BOOLEAN /\ iflag \in BOOLEAN
  /\ irq_lines \subseteq Lines
  /\ entries \in [Lines -> Entry]
  /\ requests \subseteq Vectors \cup {0} /\ in_service \subseteq Vectors \cup {0}
  /\ task_priority \in Priorities \cup {0}
  /\ pending_intr \in BOOLEAN
  /\ \A t \in Threads : /\ loc[t].entry \in Entry
                        /\ loc[t].line \in Lines \cup {NoLine, 0}
                        /\ due[t] \subseteq Vectors \cup {0}

AtRest == \A t \in Threads : pc[t] \in {"idle", "fetch", "exec"}

\* With the synchronous clock the local APIC's share of INTR is exact between
\* guest instructions: asserted if and only if a requested vector outranks
\* the current priority (raise_interrupt, next_pending_interrupt, write_eoi
\* and the task priority write together keep it so).
IntrExact == ~async /\ AtRest /\ enabled => (pending_intr <=> Eligible # {})

\* With the synchronous clock a pulse of an unmasked line whose level request
\* is not still pending leaves its vector requested.
PulseDelivered ==
  [][\A t \in Threads :
       due[t] # {} /\ due'[t] = {} => due[t] \subseteq requests']_vars

\* next_pending_interrupt services the strongest vector only: what starts
\* service outranks everything in service, whatever the devices raise
\* meanwhile.
ServiceLegal ==
  [][\A v \in in_service' \ in_service :
       \A w \in in_service : Priority(v) > Priority(w)]_vars

\* raise_interrupt on a device thread races the processor's release of INTR
\* (local.rs: "There are all sorts of concurrency issues if we ever access
\* this from another thread").  The periodic interrupt repairs a lost INTR:
\* no vector stays eligible for ever.
EligibleServed ==
  \A v \in Vectors : (enabled /\ v \in Eligible) ~> ~(enabled /\ v \in Eligible)
=============================================================================

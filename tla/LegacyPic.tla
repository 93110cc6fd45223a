----------------------------- MODULE LegacyPic ------------------------------
(***************************************************************************)
(* The pair of 8259 interrupt controllers (sem86-core/src/hw/pic/legacy.rs)*)
(* with the threads that use it.                                           *)
(*                                                                         *)
(* SharedPicCore is a set of plain atomics shared by all threads: devices  *)
(* pulse lines from the clock thread and the network thread, and from the  *)
(* CPU thread inside port handlers; the guest acknowledges, ends and masks *)
(* interrupts on the CPU thread.  Every change is followed by              *)
(* update_pending_interrupt, which reads eight atomics one by one and only *)
(* then locks pending_request to take or release its share of INTR.        *)
(*                                                                         *)
(* Also here: the part of the run loop that polls INTR                     *)
(* (emulator/mod.rs, run_inner and enter_emulation) and the periodic INTR  *)
(* of time.rs.  One action is one atomic access, except that a step made   *)
(* under the mutex is one action.  With --synchronous-clock the devices run *)
(* on the CPU thread, between guest instructions.                          *)
(***************************************************************************)
EXTENDS Integers, Sequences, FiniteSets, FiniteSetsExt

CONSTANTS Lines,     \* IRQ lines in use, a subset of 0..15
          CPU,       \* the emulator thread
          Devices,   \* the other threads that pulse lines
          Reinit,    \* the controllers the guest initialises again
          SyncGuest, \* guest commands explored with the synchronous clock
          AsyncGuest \* guest commands explored with device threads

Commands == {"eoi", "seoi", "imr", "icw", "if", "hlt", "pulse", "clear"}

ASSUME LinesAssumption  == Lines \subseteq 0..15 /\ Reinit \subseteq {0, 1}
ASSUME ThreadAssumption == CPU \notin Devices
ASSUME GuestAssumption  == SyncGuest \cup AsyncGuest \subseteq Commands

VARIABLES
  async,       \* the clock mode: device threads of their own
  pending,     \* SharedPicCore.pending_interrupts
  in_service,  \* SharedPicCore.in_service
  imr,         \* SharedPicCore.imr
  request,     \* pending_request is Some: the PIC's share of INTR
  periodic,    \* PeriodicIntr.pending_interrupt_request is Some
  icw,         \* Pic.state of each controller
  iflag,       \* the guest's IF
  halted,      \* Emulator.is_halted
  pc,          \* per thread
  loads,       \* per thread: the values loaded so far
  arg          \* the line or controller of the CPU's command under way

core  == <<pending, in_service, imr>>
guest == <<icw, iflag, halted>>
vars  == <<async, core, request, periodic, guest, pc, loads, arg>>

Threads     == Devices \cup {CPU}
Controllers == {0, 1}
Of(n)       == {l \in Lines : l \div 8 = n}

Ready8259   == [at |-> "ready", single |-> TRUE, need_icw4 |-> FALSE]
IcwStates   == [at : {"ready", "icw2", "icw3", "icw4"}, single : BOOLEAN, need_icw4 : BOOLEAN]

INTR == request \/ periodic

----------------------------------------------------------------------------
(* highest_priority_line: the position in INTERRUPT_LINE_PRIORITY_ORDER.   *)
PriorityOrder == <<0, 1, 2, 8, 9, 10, 11, 12, 13, 14, 15, 3, 4, 5, 6, 7>>
Priority(l)   == CHOOSE p \in 1..16 : PriorityOrder[p] = l
NoPriority    == 255

HighestPriority(S) == IF S = {} THEN NoPriority ELSE Min({Priority(l) : l \in S})
HighestLine(S)     == CHOOSE l \in S : Priority(l) = HighestPriority(S)

\* The loads of effective_pending_interrupts (three per controller), then
\* those of in_service_interrupt_priority.
LoadOrder == << <<"pending", 0>>, <<"in_service", 0>>, <<"imr", 0>>,
                <<"pending", 1>>, <<"in_service", 1>>, <<"imr", 1>>,
                <<"in_service", 0>>, <<"in_service", 1>> >>

Register(name) == CASE name = "pending"    -> pending
                    [] name = "in_service" -> in_service
                    [] name = "imr"        -> imr

Effective(v) == ((v[1] \ v[2]) \ v[3]) \cup ((v[4] \ v[5]) \ v[6])
InService(v) == v[7] \cup v[8]
\* Fault: the lines in service are not considered.
BadFires(v) == Effective(v) # {}

Fires(v)     == HighestPriority(Effective(v)) < HighestPriority(InService(v))

\* What the registers themselves say: some line must be signalled.
Ready == {l \in (pending \ in_service) \ imr : Priority(l) < HighestPriority(in_service)}

Idle(t) == IF t = CPU THEN "fetch" ELSE "idle"

\* Without asynchronous clock the devices run on the CPU thread, one at a time
\* and between its steps.
Turn(t) == async \/ \A u \in Threads \ {t} : pc[u] = Idle(u)

Init ==
  /\ async \in BOOLEAN
  /\ pending = {} /\ in_service = {} /\ imr = {}
  /\ request = FALSE /\ periodic = FALSE
  /\ icw = [n \in Controllers |-> Ready8259]
  /\ iflag = FALSE /\ halted = FALSE
  /\ pc = [t \in Threads |-> Idle(t)]
  /\ loads = [t \in Threads |-> << >>]
  /\ arg = 0

At(t, label)   == pc[t] = label /\ Turn(t)
Exec(kind)     == At(CPU, "exec") /\ kind \in IF async THEN AsyncGuest ELSE SyncGuest
Goto(t, label) == pc' = [pc EXCEPT ![t] = label]

----------------------------------------------------------------------------
(* update_pending_interrupt and get_next_interrupt read the same registers *)
(* in the same order.                                                      *)
Load(t) ==
  /\ pc[t] \in {"update", "ack"} /\ Turn(t)
  /\ Len(loads[t]) < Len(LoadOrder)
  /\ LET r == LoadOrder[Len(loads[t]) + 1]
     IN  loads' = [loads EXCEPT ![t] = Append(@, Register(r[1]) \cap Of(r[2]))]
  /\ UNCHANGED <<async, core, request, periodic, guest, pc, arg>>

Loaded(t, label) == At(t, label) /\ Len(loads[t]) = Len(LoadOrder)

\* Fault: a request is added and never dropped.
BadUpdateRequest(t) ==
  /\ Loaded(t, "update")
  /\ request' = (request \/ Fires(loads[t]))
  /\ loads' = [loads EXCEPT ![t] = << >>]
  /\ Goto(t, Idle(t))
  /\ UNCHANGED <<async, core, periodic, guest, arg>>

\* The locked half of update_pending_interrupt.
UpdateRequest(t) ==
  /\ Loaded(t, "update")
  /\ request' = Fires(loads[t])
  /\ loads' = [loads EXCEPT ![t] = << >>]
  /\ Goto(t, Idle(t))
  /\ UNCHANGED <<async, core, periodic, guest, arg>>

\* DynamicIrqLine::pulse, from a device thread or from a port handler.
Pulse(t, l) ==
  /\ IF t = CPU THEN Exec("pulse") ELSE At(t, "idle")
  /\ pending' = pending \cup {l}
  /\ Goto(t, "update")
  /\ UNCHANGED <<async, in_service, imr, request, periodic, guest, loads, arg>>

\* Fault: the PendingRequest is dropped at once instead of kept.
BadPeriodicTick == ~periodic /\ UNCHANGED vars

\* PeriodicIntrTimer::tick, every two seconds.
PeriodicTick ==
  /\ ~periodic
  /\ periodic' = TRUE
  /\ UNCHANGED <<async, core, request, guest, pc, loads, arg>>

----------------------------------------------------------------------------
(* The run loop polls INTR before each guest instruction or block; a halted*)
(* processor sleeps until INTR.                                            *)
Poll ==
  /\ At(CPU, "fetch")
  /\ IF INTR /\ iflag
     THEN Goto(CPU, "ack") /\ periodic' = FALSE    \* clear_periodic_intr
     ELSE ~halted /\ Goto(CPU, "exec") /\ UNCHANGED periodic
  /\ UNCHANGED <<async, core, request, guest, loads, arg>>

\* get_next_interrupt with start_servicing_interrupt, then enter_interrupt
\* (which clears IF).  When there is nothing to service INTR stays as it is.
Acknowledge ==
  /\ Loaded(CPU, "ack")
  /\ IF Fires(loads[CPU])
     THEN /\ in_service' = in_service \cup {HighestLine(Effective(loads[CPU]))}
          /\ iflag' = FALSE
          /\ halted' = FALSE
          /\ Goto(CPU, "update")
     ELSE /\ Goto(CPU, "fetch")
          /\ UNCHANGED <<in_service, iflag, halted>>
  /\ loads' = [loads EXCEPT ![CPU] = << >>]
  /\ UNCHANGED <<async, pending, imr, request, periodic, icw, arg>>

----------------------------------------------------------------------------
(* Guest instructions: Pic::write on the command and data ports, changes   *)
(* of IF, HLT.                                                             *)
\* Pic::end_of_interrupt: two atomics (EoiClearPending is the second), then
\* the update.
EndOfInterrupt(l) ==
  /\ in_service' = in_service \ {l}
  /\ arg' = l
  /\ Goto(CPU, "eoi")

NonSpecificEoi(n) ==
  /\ Exec("eoi")
  /\ IF icw[n].at = "ready" /\ in_service \cap Of(n) # {}
     THEN EndOfInterrupt(Min(in_service \cap Of(n)))
     ELSE Goto(CPU, "fetch") /\ UNCHANGED <<in_service, arg>>
  /\ UNCHANGED <<async, pending, imr, request, periodic, guest, loads>>

SpecificEoi(l) ==
  /\ Exec("seoi")
  /\ IF icw[l \div 8].at = "ready"
     THEN EndOfInterrupt(l)
     ELSE Goto(CPU, "fetch") /\ UNCHANGED <<in_service, arg>>
  /\ UNCHANGED <<async, pending, imr, request, periodic, guest, loads>>

EoiClearPending ==
  /\ At(CPU, "eoi")
  /\ pending' = pending \ {arg}
  /\ arg' = 0
  /\ Goto(CPU, "update")
  /\ UNCHANGED <<async, in_service, imr, request, periodic, guest, loads>>

\* Pic::clear_pending, when a trace is left: two stores and the update.
ClearPending(n) ==
  /\ Exec("clear")
  /\ pending' = pending \ Of(n)
  /\ arg' = n
  /\ Goto(CPU, "clear")
  /\ UNCHANGED <<async, in_service, imr, request, periodic, guest, loads>>

ClearInService ==
  /\ At(CPU, "clear")
  /\ in_service' = in_service \ Of(arg)
  /\ arg' = 0
  /\ Goto(CPU, "update")
  /\ UNCHANGED <<async, pending, imr, request, periodic, guest, loads>>

\* Fault: no update_pending_interrupt after the new mask.
BadWriteImr(n, S) ==
  /\ Exec("imr")
  /\ icw[n].at = "ready"
  /\ imr' = (imr \ Of(n)) \cup S
  /\ Goto(CPU, "fetch")
  /\ UNCHANGED <<async, pending, in_service, request, periodic, guest, loads, arg>>

\* A write to the data port while no initialisation is under way.
WriteImr(n, S) ==
  /\ Exec("imr")
  /\ icw[n].at = "ready"
  /\ imr' = (imr \ Of(n)) \cup S
  /\ Goto(CPU, "update")
  /\ UNCHANGED <<async, pending, in_service, request, periodic, guest, loads, arg>>

\* ICW1 on the command port: the cascade mode and whether an ICW4 follows.
WriteIcw1(n, single, need_icw4) ==
  /\ Exec("icw")
  /\ icw[n].at = "ready"
  /\ icw' = [icw EXCEPT ![n] = [at |-> "icw2", single |-> single, need_icw4 |-> need_icw4]]
  /\ Goto(CPU, "fetch")
  /\ UNCHANGED <<async, core, request, periodic, iflag, halted, loads, arg>>

\* cascade_mode only matters for the word after ICW2.
AfterIcw(s) ==
  CASE s.at = "icw2" /\ ~s.single               -> [s EXCEPT !.at = "icw3"]
    [] s.at \in {"icw2", "icw3"} /\ s.need_icw4 -> [Ready8259 EXCEPT !.at = "icw4"]
    [] OTHER                                    -> Ready8259

\* A write to the data port during the initialisation (ICW2 is the vector).
WriteIcw(n) ==
  /\ Exec("icw")
  /\ icw[n].at # "ready"
  /\ icw' = [icw EXCEPT ![n] = AfterIcw(icw[n])]
  /\ Goto(CPU, "fetch")
  /\ UNCHANGED <<async, core, request, periodic, iflag, halted, loads, arg>>

\* STI, IRET, POPF; CLI.
SetIf(b) ==
  /\ Exec("if")
  /\ iflag' = b
  /\ Goto(CPU, "fetch")
  /\ UNCHANGED <<async, core, request, periodic, icw, halted, loads, arg>>

\* HLT.  With IF clear the processor would never wake: guests do not do that.
Halt ==
  /\ Exec("hlt")
  /\ iflag
  /\ halted' = TRUE
  /\ Goto(CPU, "fetch")
  /\ UNCHANGED <<async, core, request, periodic, icw, iflag, loads, arg>>

GuestStep ==
  \/ \E n \in Controllers :
       \/ NonSpecificEoi(n) \/ ClearPending(n)
       \/ \E S \in SUBSET Of(n) : WriteImr(n, S)
  \/ \E n \in Reinit : WriteIcw(n) \/ \E s, i \in BOOLEAN : WriteIcw1(n, s, i)
  \/ \E l \in Lines : SpecificEoi(l) \/ Pulse(CPU, l)
  \/ \E b \in BOOLEAN : SetIf(b)
  \/ Halt

CpuStep ==
  \/ Load(CPU) \/ UpdateRequest(CPU)
  \/ Poll \/ Acknowledge
  \/ EoiClearPending \/ ClearInService

DeviceStep(t) == Load(t) \/ UpdateRequest(t)

Next ==
  \/ CpuStep
  \/ GuestStep
  \/ \E t \in Devices : DeviceStep(t) \/ \E l \in Lines : Pulse(t, l)
  \/ PeriodicTick

----------------------------------------------------------------------------
(* The threads run; the two-second timer fires; a guest instruction ends.  *)
(* Of the guest we assume that its handlers signal the end of interrupts   *)
(* and that it does not stay with IF clear for ever.  Strong fairness of    *)
(* the CPU: the synchronous clock runs the devices between its steps.      *)
Fairness ==
  /\ SF_vars(CpuStep)
  /\ WF_vars(GuestStep)
  /\ \A t \in Devices : WF_vars(DeviceStep(t))
  /\ WF_vars(PeriodicTick)
  /\ SF_vars(SetIf(TRUE))
  /\ \A n \in Controllers : SF_vars(NonSpecificEoi(n))

Spec == Init /\ [][Next]_vars /\ Fairness

----------------------------------------------------------------------------
\* Types of the state.
TypeOK ==
  /\ async \in BOOLEAN
  /\ pending \subseteq Lines /\ in_service \subseteq Lines /\ imr \subseteq Lines
  /\ request \in BOOLEAN /\ periodic \in BOOLEAN
  /\ icw \in [Controllers -> IcwStates]
  /\ iflag \in BOOLEAN /\ halted \in BOOLEAN
  /\ pc \in [Threads -> {"idle", "fetch", "exec", "ack", "update", "eoi", "clear"}]
  /\ loads \in [Threads -> Seq(SUBSET Lines)]
  /\ arg \in Int

AtRest == \A t \in Threads : pc[t] \in {"idle", "fetch", "exec"}

\* Priority discipline of get_next_interrupt: a line that starts service is
\* requested, not masked, and more important than every line already in
\* service, although the registers were read one by one while the device
\* threads changed them.
ServiceLegal ==
  [][\A l \in in_service' \ in_service :
       /\ l \in pending \ imr
       /\ \A k \in in_service : Priority(l) < Priority(k)]_vars

\* With the synchronous clock update_pending_interrupt keeps the PIC's share of
\* INTR exact: it is asserted between guest instructions if and only if some
\* line is to be signalled.
RequestExact == ~async /\ AtRest => (request <=> Ready # {})

\* With device threads a decision on old values may lose INTR; the periodic
\* interrupt of time.rs repairs it: no line stays ready for ever (it starts
\* service, or a more important one does, or the guest masks it).
ReadyServed == \A l \in Lines : (l \in Ready) ~> (l \notin Ready)

\* A decision on old values may also leave INTR asserted with nothing to
\* signal, and then the run loop polls without executing guest code.  As long
\* as the PIT keeps pulsing its line from a device thread this ends by itself.
TimerRuns     == []<><<\E t \in Devices : Pulse(t, 0)>>_vars
StaleIntrEnds == TimerRuns => ((request /\ Ready = {}) ~> (~request \/ Ready # {}))
=============================================================================

---------------------------- MODULE EmulatorClock ----------------------------
(***************************************************************************)
(* The emulator's clock and its timers (sem86-core/src/time.rs) with the   *)
(* devices that register timers: the RTC (hw/cmos.rs), channel 0 of the PIT*)
(* (hw/pit.rs) and the periodic INTR (time.rs).                            *)
(*                                                                         *)
(* A device reprograms its timer by dropping its TimerInfo, which clears   *)
(* the shared `enabled` flag of the old timer, and sending a new timer     *)
(* through a channel.  The asynchronous clock is a thread that ticks the   *)
(* timers that are due and then waits for a new timer or for the next      *)
(* deadline.  The synchronous clock does the same on the CPU thread, one   *)
(* Quantum per guest instruction.                                          *)
(*                                                                         *)
(* Time is in ticks of the model; Second is the one-second cap on the      *)
(* deadline (in those ticks).                                              *)
(***************************************************************************)
EXTENDS Integers, Sequences, FiniteSets, FiniteSetsExt

CONSTANTS MaxTime,     \* bound on the time of the asynchronous clock
          SyncTime,    \* bound on the time of the synchronous clock
          MaxBase,     \* bound: the clock is paused only while base is this small
          MaxTimers,   \* bound on the timers ever registered
          InitialPeriod, \* the period of the timer Pit::new registers (100 ms)
          Second,      \* the cap on the deadline of ClockTicker::tick
          Periods      \* the periods a guest can program

ASSUME BoundsAssumption ==
  /\ MaxTime \in Nat /\ SyncTime \in Nat /\ MaxBase \in Nat
  /\ MaxTimers \in Nat \ {0, 1}        \* Hw::new registers two
  /\ Second \in Nat \ {0}
ASSUME PeriodsAssumption == Periods \subseteq Nat \ {0} /\ InitialPeriod \in Periods

Devices       == {"rtc", "pit", "intr"}
IntrPeriod    == 2 * Second        \* PeriodicIntrTimer

VARIABLES
  async,      \* new_asynchronous or new_synchronous
  now,        \* zero.elapsed(), or the synchronous clock's current
  queue,      \* the channel of new timers
  timers,     \* ClockTicker.timers
  fresh,      \* history: ids added to the ticker since it last went through the timers
  deadline,   \* ClockTicker.next_deadline
  enabled,    \* ids of the timers whose `enabled` flag is set
  current,    \* per device: its TimerInfo, None or the timer's id and period
  created,    \* number of timers registered so far
  cpu,        \* CPU thread: "run", or a register_timer under way
  clock,      \* clock thread: where it is
  tick,       \* clock thread: its `now`, position and next_deadline
  extra,      \* history: pulses of the RTC since its timer was stopped
  running,    \* EmulatorClock.is_running
  base,       \* EmulatorClock.base
  start       \* EmulatorClock.start

device == <<enabled, current, created, cpu>>
ticker == <<timers, fresh, deadline, clock, tick>>
frame  == <<running, base, start>>
vars   == <<async, now, queue, ticker, device, extra, frame>>

None    == [id |-> 0, period |-> 0]
NoTimer == [dev |-> "intr", id |-> 0, period |-> 1, next |-> 0]
NoTick  == [now |-> 0, at |-> 0, next |-> 0]

Timer(d, i, p, n) == [dev |-> d, id |-> i, period |-> p, next |-> n]

\* EmulatorClock::get
Get == base + IF ~async THEN now ELSE IF running THEN now - start ELSE 0

\* Hw::new registers the PIT's first timer and the periodic INTR.
Init ==
  /\ async \in BOOLEAN
  /\ now = 0
  /\ queue = <<Timer("intr", 1, IntrPeriod, 0), Timer("pit", 2, InitialPeriod, 0)>>
  /\ timers = << >> /\ fresh = {} /\ deadline = 0
  /\ enabled = {1, 2}
  /\ current = [rtc  |-> None,
                pit  |-> [id |-> 2, period |-> InitialPeriod],
                intr |-> [id |-> 1, period |-> IntrPeriod]]
  /\ created = 2
  /\ cpu = [at |-> "run", timer |-> NoTimer]
  /\ clock = "top" /\ tick = NoTick
  /\ extra = 0
  /\ running = FALSE /\ base = 0 /\ start = 0

----------------------------------------------------------------------------
(* The devices' side, on the CPU thread.  With the synchronous clock the   *)
(* CPU does nothing else while it is in tick_by.                           *)
Cpu(label) == cpu.at = label /\ (async \/ clock = "top")

\* Drop of a TimerInfo: the old timer is told to stop.
DropInfo(d) == enabled' = enabled \ {current[d].id}

\* register_timer with the timer's clone of the new TimerInfo.
NewTimer(d, p, first) ==
  /\ created < MaxTimers
  /\ created' = created + 1
  /\ current' = [current EXCEPT ![d] = [id |-> created + 1, period |-> p]]
  /\ cpu' = [at |-> "send", timer |-> Timer(d, created + 1, p, first)]

\* Cmos::update_timer with the periodic interrupt enabled.
RtcStart(p) ==
  /\ Cpu("run")
  /\ current["rtc"].period # p
  /\ NewTimer("rtc", p, now)
  /\ enabled' = (enabled \ {current["rtc"].id}) \cup {created + 1}
  /\ extra' = 0
  /\ UNCHANGED <<async, now, queue, ticker, frame>>

\* Cmos::update_timer with the periodic interrupt disabled.
RtcStop ==
  /\ Cpu("run")
  /\ current["rtc"] # None
  /\ DropInfo("rtc")
  /\ current' = [current EXCEPT !["rtc"] = None]
  /\ extra' = 0
  /\ UNCHANGED <<async, now, queue, ticker, created, cpu, frame>>

\* Fault: the old timer is not told to stop.
BadPitStart(p) ==
  /\ Cpu("run")
  /\ current["pit"].period # p
  /\ NewTimer("pit", p, now + p)
  /\ enabled' = enabled \cup {created + 1}
  /\ UNCHANGED <<async, now, queue, ticker, extra, frame>>

\* Pit::update_timer_registration, after a write to counter 0.
PitStart(p) ==
  /\ Cpu("run")
  /\ current["pit"].period # p
  /\ NewTimer("pit", p, now + p)
  /\ enabled' = (enabled \ {current["pit"].id}) \cup {created + 1}
  /\ UNCHANGED <<async, now, queue, ticker, extra, frame>>

Send ==
  /\ Cpu("send")
  /\ queue' = Append(queue, cpu.timer)
  /\ cpu' = [at |-> "run", timer |-> NoTimer]
  /\ UNCHANGED <<async, now, ticker, enabled, current, created, extra, frame>>

\* EmulatorClock::start, by EmulatorContext::new and by the restore of the
\* snapshot for which the clock was paused.
Start ==
  /\ Cpu("run")
  /\ ~running
  /\ running' = TRUE
  /\ start' = now
  /\ UNCHANGED <<async, now, queue, ticker, device, extra, base>>

\* Fault: the elapsed time is not added to base.
BadPause ==
  /\ Cpu("run")
  /\ base <= MaxBase
  /\ running' = FALSE
  /\ start' = now
  /\ UNCHANGED <<async, now, queue, ticker, device, extra, base>>

\* EmulatorClock::pause, by Hw::snapshot and at the end of a run.
Pause ==
  /\ Cpu("run")
  /\ base <= MaxBase
  /\ running' = FALSE
  /\ base' = Get
  /\ start' = now
  /\ UNCHANGED <<async, now, queue, ticker, device, extra>>

----------------------------------------------------------------------------
(* ClockTicker::tick.                                                      *)
BeginTick(n) ==
  IF deadline < n
  THEN clock' = "scan" /\ tick' = [now |-> n, at |-> 1, next |-> n + Second]
  ELSE clock' = "wait" /\ UNCHANGED tick

\* The asynchronous clock thread, at the top of its loop.
ClockTop ==
  /\ async /\ clock = "top" /\ running
  /\ BeginTick(now)
  /\ UNCHANGED <<async, now, queue, timers, fresh, deadline, device, extra, frame>>

\* SynchronousClock::tick_by, from the hook after every instruction.
TickBy ==
  /\ ~async /\ Cpu("run")
  /\ now < SyncTime
  /\ now' = now + 1
  /\ BeginTick(now + 1)
  /\ UNCHANGED <<async, queue, timers, fresh, deadline, device, extra, frame>>

Scanned == timers[tick.at]
\* Fault: next_deadline is not lowered to the timer's next tick.
BadKeep(t) ==
  /\ timers' = [timers EXCEPT ![tick.at] = t]
  /\ tick' = [tick EXCEPT !.at = @ + 1]

Keep(t) ==
  /\ timers' = [timers EXCEPT ![tick.at] = t]
  /\ tick' = [tick EXCEPT !.at = @ + 1, !.next = Min({@, t.next})]

\* Fault: the enabled flag is not looked at.
BadScanNext ==
  /\ clock = "scan" /\ tick.at <= Len(timers)
  /\ IF Scanned.next > tick.now
     THEN Keep(Scanned) /\ UNCHANGED clock
     ELSE clock' = "tick" /\ UNCHANGED <<timers, tick>>
  /\ UNCHANGED <<async, now, queue, fresh, deadline, device, extra, frame>>

\* retain_mut reaches a timer: not due; due and stopped; due and enabled.
ScanNext ==
  /\ clock = "scan" /\ tick.at <= Len(timers)
  /\ CASE Scanned.next > tick.now      -> Keep(Scanned) /\ UNCHANGED clock
       [] Scanned.next <= tick.now /\ Scanned.id \notin enabled ->
            /\ timers' = SubSeq(timers, 1, tick.at - 1)
                           \o SubSeq(timers, tick.at + 1, Len(timers))
            /\ UNCHANGED <<clock, tick>>
       [] OTHER -> clock' = "tick" /\ UNCHANGED <<timers, tick>>
  /\ UNCHANGED <<async, now, queue, fresh, deadline, device, extra, frame>>

ScanEnd ==
  /\ clock = "scan" /\ tick.at > Len(timers)
  /\ deadline' = tick.next
  /\ fresh' = {}
  /\ tick' = NoTick
  /\ clock' = "wait"
  /\ UNCHANGED <<async, now, queue, timers, device, extra, frame>>

\* The next tick of the RTC's, the PIT's and the periodic timer.
Reschedule(t, n) == IF t.next + t.period < n THEN n + t.period ELSE t.next + t.period

\* The rest of Timer::tick, after the look at the enabled flag: the pulse of the
\* line and the new next_tick; then the assertion of ClockTicker::tick on it.
TickPulse ==
  /\ clock = "tick"
  /\ LET next == Reschedule(Scanned, tick.now)
     IN  /\ Keep([Scanned EXCEPT !.next = next])
         /\ clock' = IF next > tick.now THEN "scan" ELSE "dead"
  /\ extra' = IF Scanned.dev = "rtc" /\ Scanned.id \notin enabled THEN extra + 1 ELSE extra
  /\ UNCHANGED <<async, now, queue, fresh, deadline, device, frame>>

\* recv_timeout of the clock thread: a new timer, or the deadline.
Receive ==
  /\ async /\ clock = "wait" /\ queue # << >>
  /\ timers' = Append(timers, Head(queue))
  /\ fresh' = fresh \cup {Head(queue).id}
  /\ queue' = Tail(queue)
  /\ clock' = "top"
  /\ UNCHANGED <<async, now, deadline, tick, device, extra, frame>>

Timeout ==
  /\ async /\ clock = "wait" /\ queue = << >> /\ now >= deadline
  /\ clock' = "top"
  /\ UNCHANGED <<async, now, queue, timers, fresh, deadline, tick, device, extra, frame>>

\* The end of tick_by takes every new timer.
Drain ==
  /\ ~async /\ clock = "wait"
  /\ timers' = timers \o queue
  /\ fresh' = fresh \cup {queue[i].id : i \in DOMAIN queue}
  /\ queue' = << >>
  /\ clock' = "top"
  /\ UNCHANGED <<async, now, deadline, tick, device, extra, frame>>

Elapse ==
  /\ async /\ now < MaxTime
  /\ now' = now + 1
  /\ UNCHANGED <<async, queue, ticker, device, extra, frame>>

ClockStep ==
  \/ ClockTop \/ ScanNext \/ ScanEnd \/ TickPulse
  \/ Receive \/ Timeout \/ Drain

CpuStep ==
  \/ \E p \in Periods : RtcStart(p) \/ PitStart(p)
  \/ RtcStop \/ Send
  \/ Start \/ Pause

Next == ClockStep \/ CpuStep \/ TickBy \/ Elapse

Spec == Init /\ [][Next]_vars

----------------------------------------------------------------------------
Known == {timers[i] : i \in DOMAIN timers} \cup {queue[i] : i \in DOMAIN queue}
           \cup (IF cpu.at = "send" THEN {cpu.timer} ELSE {})

TimerRecords == [dev : Devices, id : Nat, period : Nat, next : Nat]

\* Types of the state.
TypeOK ==
  /\ async \in BOOLEAN /\ now \in 0..(IF async THEN MaxTime ELSE SyncTime) /\ deadline \in Nat
  /\ Known \subseteq TimerRecords
  /\ enabled \subseteq 1..created /\ created \in 0..MaxTimers
  /\ cpu.at \in {"run", "send"}
  /\ clock \in {"top", "scan", "tick", "wait", "dead"}
  /\ tick.at \in 0..(Len(timers) + 1)
  /\ extra \in Nat
  /\ running \in BOOLEAN /\ base \in Nat /\ start \in 0..now

\* Reprogramming a device never leaves two of its timers ticking: of all the
\* timers on their way to the ticker or in it, the only one of a device that
\* is enabled is the one the device refers to.
OneActive ==
  \A t \in Known : t.id \in enabled => t.id = current[t.dev].id

\* The deadline hides no timer that took part in a pass: between two passes
\* such a timer is due no earlier than the deadline, and the deadline is at most
\* Second away.  A timer received since the last pass (fresh) may be due
\* earlier: the pass after it is received compares the old deadline only, and
\* the clock sleeps on.  With the synchronous clock the time never passes the
\* deadline, and no timer, fresh or not, is late by more than Second and one
\* quantum.
DeadlineCovers ==
  /\ clock \in {"top", "wait"} =>
       \A i \in DOMAIN timers : timers[i].id \notin fresh => timers[i].next >= deadline
  /\ deadline <= now + Second
  /\ ~async /\ clock = "top" =>
       now <= deadline /\ \A i \in DOMAIN timers : now <= timers[i].next + Second + 1

\* A stopped RTC timer pulses at most once more, when its stop races a tick
\* of the clock thread; never with the synchronous clock.
StopHolds == extra <= IF async THEN 1 ELSE 0

\* The time devices see never runs backwards, over pauses and restarts
\* (the PIT's tick_to panics otherwise).
TimeMonotonic == [][Get' >= Get]_vars

\* The assertion in ClockTicker::tick: "timers must update next_tick() after
\* tick() is called".
NextTickUpdated == clock # "dead"
=============================================================================

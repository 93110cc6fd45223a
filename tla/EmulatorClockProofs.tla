------------------------- MODULE EmulatorClockProofs -------------------------
(***************************************************************************)
(* Proofs about the clock and its timers (EmulatorClock): for any periods  *)
(* and any number of timers a device has one live timer, the deadline      *)
(* hides none, a stopped RTC timer pulses at most once more, and time does *)
(* not run backwards.                                                      *)
(***************************************************************************)
EXTENDS EmulatorClock, SequenceTheorems, NaturalSets, TLAPS

-----------------------------------------------------------------------------
(* Sequences of timers.                                                    *)

RemoveAt(s, k) == SubSeq(s, 1, k - 1) \o SubSeq(s, k + 1, Len(s))

\* retain_mut drops one timer and moves the others up: what is left is what was
\* there, the timers before it where they were.
LEMMA RemoveAtKeeps ==
  ASSUME NEW S, NEW s \in Seq(S), NEW k \in 1 .. Len(s)
  PROVE  /\ RemoveAt(s, k) \in Seq(S)
         /\ Len(RemoveAt(s, k)) = Len(s) - 1
         /\ \A i \in 1 .. Len(s) - 1 : RemoveAt(s, k)[i] = IF i < k THEN s[i] ELSE s[i + 1]
<1> DEFINE a == SubSeq(s, 1, k - 1)
           b == SubSeq(s, k + 1, Len(s))
<1>1. a \in Seq(S) /\ Len(a) = k - 1 /\ \A i \in 1 .. k - 1 : a[i] = s[i]
  BY SubSeqProperties
<1>2. b \in Seq(S) /\ Len(b) = Len(s) - k /\ \A i \in 1 .. Len(s) - k : b[i] = s[k + i]
  BY SubSeqProperties
<1>3. /\ RemoveAt(s, k) \in Seq(S)
      /\ Len(RemoveAt(s, k)) = Len(a) + Len(b)
      /\ \A i \in 1 .. Len(a) + Len(b) : RemoveAt(s, k)[i] = IF i <= Len(a) THEN a[i] ELSE b[i - Len(a)]
  BY <1>1, <1>2, ConcatProperties DEF RemoveAt
<1> HIDE DEF a, b
<1>4. ASSUME NEW i \in 1 .. Len(s) - 1
      PROVE  RemoveAt(s, k)[i] = IF i < k THEN s[i] ELSE s[i + 1]
  <2>0. i \in 1 .. Len(a) + Len(b) /\ i \in Int /\ k \in Int /\ Len(a) = k - 1
    BY <1>1, <1>2
  <2>1. CASE i < k
    <3>1. i <= Len(a) /\ i \in 1 .. k - 1
      BY <2>0, <2>1
    <3>2. RemoveAt(s, k)[i] = a[i]
      BY <1>3, <2>0, <3>1
    <3> QED BY <1>1, <2>1, <3>1, <3>2
  <2>2. CASE ~(i < k)
    <3>1. ~(i <= Len(a)) /\ i - Len(a) \in 1 .. Len(s) - k /\ k + (i - Len(a)) = i + 1
      BY <2>0, <2>2
    <3>2. RemoveAt(s, k)[i] = b[i - Len(a)]
      BY <1>3, <2>0, <3>1
    <3> QED BY <1>2, <2>2, <3>1, <3>2
  <2> QED BY <2>1, <2>2
<1> QED BY <1>1, <1>2, <1>3, <1>4

-----------------------------------------------------------------------------
(* The inductive invariant.                                                *)

Limit == IF async THEN MaxTime ELSE SyncTime

Types ==
  /\ async \in BOOLEAN /\ now \in Nat /\ now <= Limit
  /\ timers \in Seq(TimerRecords) /\ queue \in Seq(TimerRecords) /\ deadline \in Nat
  /\ cpu \in [at : {"run", "send"}, timer : TimerRecords]
  /\ current \in [Devices -> [id : Nat, period : Nat]]
  /\ created \in Nat /\ created <= MaxTimers /\ enabled \subseteq 1 .. created
  /\ clock \in {"top", "scan", "tick", "wait", "dead"}
  /\ tick \in [now : Nat, at : Nat, next : Nat] /\ tick.at <= Len(timers) + 1
  /\ extra \in Nat
  /\ running \in BOOLEAN /\ base \in Nat /\ start \in Nat /\ start <= now

\* A timer that is enabled is the one its device refers to.
Sound(t) == t.id \in 1 .. created /\ (t.id \in enabled => t.id = current[t.dev].id)

AllSound ==
  /\ \A i \in 1 .. Len(timers) : Sound(timers[i])
  /\ \A i \in 1 .. Len(queue) : Sound(queue[i])
  /\ cpu.at = "send" => Sound(cpu.timer)

\* No two devices refer to one timer; only the RTC may refer to none.
Distinct ==
  /\ \A d \in Devices : current[d].id \in 0 .. created
  /\ \A d, e \in Devices : d # e => current[d].id # current[e].id
  /\ current["pit"].id # 0 /\ current["intr"].id # 0

Passing == clock \in {"scan", "tick"}

\* A pass over the timers has a deadline ahead of its time, which hides none of
\* the timers it went through.
PassCovers ==
  Passing =>
    /\ tick.now <= now /\ tick.now < tick.next /\ tick.next <= tick.now + Second
    /\ ~async => tick.now = now
    /\ \A i \in 1 .. tick.at - 1 : timers[i].next >= tick.next
    /\ tick.at \in 1 .. Len(timers) + 1

\* A timer that ticks was enabled when the pass reached it; if it is an RTC timer
\* that has been stopped since, it has not pulsed yet.
TickSound ==
  clock = "tick" =>
    /\ tick.at <= Len(timers)
    /\ Scanned.dev = "rtc" /\ Scanned.id \notin enabled => async /\ extra = 0

\* The first two parts of DeadlineCovers, and the first half of the third.
Covers ==
  /\ clock \in {"top", "wait"} =>
       \A i \in DOMAIN timers : timers[i].id \notin fresh => timers[i].next >= deadline
  /\ deadline <= now + Second
  /\ ~async /\ clock = "top" => now <= deadline

\* The synchronous clock waits only for what is not due.
WaitCovers == ~async /\ clock = "wait" => now <= deadline

IInv ==
  /\ Types
  /\ AllSound
  /\ Distinct
  /\ PassCovers
  /\ TickSound
  /\ WaitCovers
  /\ Covers
  /\ StopHolds

\* The start: the timer of the periodic interrupt and that of the PIT are queued and no pass has run.
LEMMA InitInv == Init => IInv
<1> SUFFICES ASSUME Init PROVE IInv
  OBVIOUS
<1>1. Types
  <2>1. InitialPeriod \in Nat /\ IntrPeriod \in Nat
    BY BoundsAssumption, PeriodsAssumption DEF IntrPeriod
  <2>2. /\ Timer("intr", 1, IntrPeriod, 0) \in TimerRecords
        /\ Timer("pit", 2, InitialPeriod, 0) \in TimerRecords
        /\ NoTimer \in TimerRecords
    BY <2>1 DEF Timer, TimerRecords, NoTimer, Devices
  <2>3. queue \in Seq(TimerRecords) /\ timers \in Seq(TimerRecords) /\ Len(timers) = 0
    BY <2>2 DEF Init
  <2>4. current \in [Devices -> [id : Nat, period : Nat]]
    BY <2>1 DEF Init, None, Devices
  <2>5. tick \in [now : Nat, at : Nat, next : Nat] /\ tick.at = 0
    BY DEF Init, NoTick
  <2>6. cpu \in [at : {"run", "send"}, timer : TimerRecords]
    BY <2>2 DEF Init
  <2>7. created = 2 /\ created \in Nat /\ created <= MaxTimers /\ enabled \subseteq 1 .. created
    BY BoundsAssumption DEF Init
  <2>8. async \in BOOLEAN /\ now \in Nat /\ now <= Limit
    BY BoundsAssumption DEF Init, Limit
  <2>9. /\ queue \in Seq(TimerRecords) /\ timers \in Seq(TimerRecords) /\ tick.at <= Len(timers) + 1
    BY <2>3, <2>5
  <2>10. /\ deadline \in Nat /\ clock = "top" /\ extra \in Nat
         /\ running \in BOOLEAN /\ base \in Nat /\ start \in Nat /\ start <= now
    <3>1. deadline = 0 /\ extra = 0 /\ base = 0 /\ start = 0 /\ now = 0
      BY DEF Init
    <3>2. clock = "top" /\ running \in BOOLEAN
      BY Zenon DEF Init
    <3> QED BY <3>1, <3>2
  <2> QED BY <2>4, <2>5, <2>6, <2>7, <2>8, <2>9, <2>10 DEF Types
<1>2. AllSound
  BY DEF Init, AllSound, Sound, Timer
<1>3. Distinct
  BY DEF Init, Distinct, None, Devices
<1>4. PassCovers /\ TickSound /\ WaitCovers /\ StopHolds
  BY DEF Init, PassCovers, Passing, TickSound, WaitCovers, StopHolds
<1>5. Covers
  BY BoundsAssumption DEF Init, Covers
<1> QED BY <1>1, <1>2, <1>3, <1>4, <1>5 DEF IInv

-----------------------------------------------------------------------------
(* The steps.                                                              *)

\* register_timer with a new period: the new timer is the device's, the old one
\* is told to stop.
LEMMA StartInv ==
  ASSUME IInv, NEW p \in Periods, RtcStart(p) \/ PitStart(p)
  PROVE  IInv'
<1> PICK d \in {"rtc", "pit"}, n \in Nat :
      /\ Cpu("run") /\ NewTimer(d, p, n)
      /\ enabled' = (enabled \ {current[d].id}) \cup {created + 1}
      /\ IF d = "rtc" THEN extra' = 0 ELSE extra' = extra
      /\ UNCHANGED <<async, now, queue, ticker, frame>>
  BY PeriodsAssumption DEF RtcStart, PitStart, IInv, Types
<1>0. /\ created' = created + 1 /\ created < MaxTimers
      /\ enabled' = (enabled \ {current[d].id}) \cup {created + 1}
      /\ current' = [current EXCEPT ![d] = [id |-> created + 1, period |-> p]]
      /\ cpu' = [at |-> "send", timer |-> Timer(d, created + 1, p, n)]
      /\ cpu.at = "run" /\ (async \/ clock = "top")
      /\ UNCHANGED <<async, now, queue, timers, fresh, deadline, clock, tick, running, base, start>>
      /\ p \in Nat /\ d \in Devices
  BY PeriodsAssumption DEF Cpu, NewTimer, ticker, frame, Devices
<1>a. /\ current' \in [Devices -> [id : Nat, period : Nat]]
      /\ current'[d].id = created + 1
      /\ \A e \in Devices \ {d} : current'[e] = current[e]
  BY <1>0 DEF IInv, Types, Limit
<1>b. /\ cpu' \in [at : {"run", "send"}, timer : TimerRecords]
      /\ cpu'.timer.id = created + 1 /\ cpu'.timer.dev = d
  BY <1>0 DEF IInv, Types, Timer, TimerRecords
<1>c. enabled' \subseteq 1 .. created' /\ created' \in Nat /\ created' <= MaxTimers
  <2>1. created \in Nat /\ enabled \subseteq 1 .. created /\ 1 .. created \subseteq 1 .. (created + 1)
    BY DEF IInv, Types
  <2>2. created' = created + 1 /\ created' \in Nat /\ created' <= MaxTimers
    BY <1>0, <2>1, BoundsAssumption
  <2>3. \A x \in enabled' : x \in enabled \/ x = created + 1
    BY <1>0, Zenon
  <2>4. created + 1 \in 1 .. (created + 1)
    BY <2>1
  <2>5. \A x \in enabled' : x \in 1 .. (created + 1)
    BY <2>1, <2>3, <2>4, Zenon
  <2> QED BY <2>2, <2>5
<1>d. ASSUME NEW t \in TimerRecords, Sound(t)
      PROVE  Sound(t)'
  <2>1. t.dev \in Devices /\ t.id \in 1 .. created /\ created \in Nat
    BY <1>d DEF TimerRecords, Sound, IInv, Types
  <2>2. CASE t.dev = d
    <3>1. t.id \notin enabled'
      BY <1>0, <1>d, <2>1, <2>2 DEF Sound
    <3> QED BY <1>0, <2>1, <3>1 DEF Sound
  <2>3. CASE t.dev # d
    BY <1>0, <1>a, <1>d, <2>1, <2>3 DEF Sound
  <2> QED BY <2>2, <2>3
<1>1. Types'
  BY <1>0, <1>a, <1>b, <1>c DEF IInv, Types, Limit
<1>2. AllSound'
  <2>1. /\ \A i \in 1 .. Len(timers) : timers[i] \in TimerRecords
        /\ \A i \in 1 .. Len(queue) : queue[i] \in TimerRecords
    BY DEF IInv, Types
  <2>2. Sound(cpu.timer)'
    BY <1>0, <1>a, <1>b DEF Sound, IInv, Types
  <2> QED BY <1>0, <1>d, <2>1, <2>2 DEF IInv, AllSound
<1>3. Distinct'
  <2>1. \A e \in Devices : current'[e].id \in 0 .. created'
    BY SMTT(30), <1>0, <1>a DEF IInv, Types, Distinct
  <2>2. ASSUME NEW e \in Devices, NEW f \in Devices, e # f
        PROVE  current'[e].id # current'[f].id
    BY SMTT(30), <1>0, <1>a, <2>2 DEF IInv, Types, Distinct
  <2>3. current'["pit"].id # 0 /\ current'["intr"].id # 0
    BY <1>0, <1>a DEF IInv, Types, Distinct, Devices
  <2> QED BY <2>1, <2>2, <2>3 DEF Distinct
<1>4. PassCovers' /\ WaitCovers' /\ Covers'
  BY <1>0 DEF IInv, PassCovers, Passing, WaitCovers, Covers
<1>5. TickSound'
  <2> SUFFICES ASSUME clock = "tick"
               PROVE  TickSound'
    BY <1>0 DEF TickSound
  <2>1. tick.at \in 1 .. Len(timers) /\ Scanned' = Scanned /\ Scanned \in TimerRecords
    BY <1>0 DEF IInv, Types, TickSound, PassCovers, Passing, Scanned
  <2>2. CASE d = "rtc"
    BY <1>0, <2>1, <2>2 DEF IInv, TickSound
  <2>3. CASE d = "pit"
    <3>1. Scanned.dev = "rtc" /\ Scanned.id \in enabled => Scanned.id \in enabled'
      BY <1>0, <2>1, <2>3 DEF IInv, AllSound, Sound, Distinct, Devices, Scanned
    <3> QED BY <1>0, <2>1, <2>3, <3>1 DEF IInv, TickSound
  <2> QED BY <2>2, <2>3
<1>6. StopHolds'
  BY <1>0 DEF IInv, StopHolds
<1> QED BY <1>1, <1>2, <1>3, <1>4, <1>5, <1>6 DEF IInv

\* The RTC's timer is told to stop.
LEMMA StopInv ==
  ASSUME IInv, RtcStop
  PROVE  IInv'
<1>0. /\ cpu.at = "run" /\ (async \/ clock = "top")
      /\ enabled' = enabled \ {current["rtc"].id}
      /\ current' = [current EXCEPT !["rtc"] = None]
      /\ extra' = 0
      /\ UNCHANGED <<async, now, queue, timers, fresh, deadline, clock, tick, created, cpu,
                     running, base, start>>
  BY DEF RtcStop, Cpu, DropInfo, ticker, frame
<1>1. Types'
  BY <1>0 DEF IInv, Types, Limit, None, Devices
<1>2. AllSound'
  <2>1. ASSUME NEW t \in TimerRecords, Sound(t)
        PROVE  Sound(t)'
    <3>1. t.dev \in Devices
      BY <2>1 DEF TimerRecords
    <3>2. t.dev # "rtc" => current'[t.dev] = current[t.dev]
      BY <1>0, <3>1 DEF IInv, Types
    <3> QED BY <1>0, <2>1, <3>1, <3>2 DEF Sound
  <2>2. /\ \A i \in 1 .. Len(timers) : timers[i] \in TimerRecords
        /\ \A i \in 1 .. Len(queue) : queue[i] \in TimerRecords
    BY DEF IInv, Types
  <2> QED BY <1>0, <2>1, <2>2 DEF IInv, AllSound
<1>3. Distinct'
  BY <1>0 DEF IInv, Types, Distinct, Devices, None
<1>4. PassCovers' /\ WaitCovers' /\ Covers'
  BY <1>0 DEF IInv, PassCovers, Passing, WaitCovers, Covers
<1>5. TickSound'
  BY <1>0 DEF IInv, Types, TickSound, Scanned
<1>6. StopHolds'
  BY <1>0 DEF IInv, StopHolds
<1> QED BY <1>1, <1>2, <1>3, <1>4, <1>5, <1>6 DEF IInv

\* The new timer goes through the channel.
LEMMA SendInv ==
  ASSUME IInv, Send
  PROVE  IInv'
<1>0. /\ cpu.at = "send" /\ queue' = Append(queue, cpu.timer) /\ cpu' = [at |-> "run", timer |-> NoTimer]
      /\ UNCHANGED <<async, now, timers, fresh, deadline, clock, tick, enabled, current, created,
                     extra, running, base, start>>
  BY DEF Send, Cpu, ticker, frame
<1>1. cpu.timer \in TimerRecords /\ NoTimer \in TimerRecords
  BY DEF IInv, Types, NoTimer, TimerRecords, Devices
<1>2. /\ queue' \in Seq(TimerRecords) /\ Len(queue') = Len(queue) + 1
      /\ \A i \in 1 .. Len(queue) : queue'[i] = queue[i]
      /\ queue'[Len(queue) + 1] = cpu.timer
  BY <1>0, <1>1, AppendProperties DEF IInv, Types
<1>3. Types'
  BY <1>0, <1>1, <1>2 DEF IInv, Types, Limit
<1>4. AllSound'
  BY <1>0, <1>2 DEF IInv, Types, AllSound, Sound
<1>5. Distinct' /\ PassCovers' /\ TickSound' /\ WaitCovers' /\ Covers' /\ StopHolds'
  BY <1>0 DEF IInv, Distinct, PassCovers, Passing, TickSound, Scanned, WaitCovers, Covers, StopHolds
<1> QED BY <1>3, <1>4, <1>5 DEF IInv

\* The clock is started and paused; the timers do not notice.
LEMMA FrameInv ==
  ASSUME IInv, Start \/ Pause
  PROVE  IInv'
<1>0. /\ running' \in BOOLEAN /\ start' = now /\ base' \in Nat
      /\ UNCHANGED <<async, now, queue, timers, fresh, deadline, clock, tick, enabled, current, created, cpu,
                     extra>>
  <2>1. Get \in Nat
    BY DEF Get, IInv, Types
  <2>2. CASE Start
    BY <2>2 DEF Start, ticker, device, IInv, Types
  <2>3. CASE Pause
    BY <2>1, <2>3 DEF Pause, ticker, device
  <2> QED BY <2>2, <2>3
<1>1. Types'
  BY <1>0 DEF IInv, Types, Limit
<1>2. /\ AllSound' /\ Distinct' /\ PassCovers' /\ TickSound' /\ WaitCovers' /\ Covers' /\ StopHolds'
  BY <1>0 DEF IInv, AllSound, Sound, Distinct, PassCovers, Passing, TickSound, Scanned, WaitCovers, Covers,
              StopHolds
<1> QED BY <1>1, <1>2 DEF IInv

-----------------------------------------------------------------------------
(* The ticker.                                                             *)

\* A pass begins, on the clock thread or after an instruction: what is due is
\* looked for with a deadline Second away.
LEMMA BeginInv ==
  ASSUME IInv, ClockTop \/ TickBy
  PROVE  IInv'
<1>0. /\ clock = "top" /\ now' \in Nat /\ now <= now' /\ now' <= Limit /\ (async => now' = now) /\ BeginTick(now')
      /\ UNCHANGED <<async, queue, timers, fresh, deadline, enabled, current, created, cpu, extra,
                     running, base, start>>
  <2>1. now \in Nat /\ now <= Limit
    BY DEF IInv, Types
  <2>2. CASE ClockTop
    BY <2>1, <2>2 DEF ClockTop, device, frame, BeginTick, Limit
  <2>3. CASE TickBy
    <3>1. /\ ~async /\ clock = "top" /\ now < SyncTime /\ now' = now + 1 /\ BeginTick(now + 1) /\ async' = async
          /\ UNCHANGED <<queue, timers, fresh, deadline, enabled, current, created, cpu, extra,
                         running, base, start>>
      BY <2>3 DEF TickBy, Cpu, device, frame
    <3>2. BeginTick(now')
      BY <3>1 DEF BeginTick
    <3>3. now' \in Nat /\ now <= now' /\ now' <= Limit
      BY <2>1, <3>1, BoundsAssumption DEF Limit
    <3> QED BY <3>1, <3>2, <3>3
  <2> QED BY <2>2, <2>3
<1>1. \/ /\ deadline < now' /\ clock' = "scan"
         /\ tick' \in [now : Nat, at : Nat, next : Nat]
         /\ tick'.now = now' /\ tick'.at = 1 /\ tick'.next = now' + Second
      \/ now' <= deadline /\ clock' = "wait" /\ tick' = tick
  BY <1>0, BoundsAssumption DEF BeginTick, IInv, Types
<1>2. Types'
  BY <1>0, <1>1 DEF IInv, Types, Limit
<1>3. AllSound' /\ Distinct' /\ StopHolds'
  BY <1>0 DEF IInv, AllSound, Sound, Distinct, StopHolds
<1>4. PassCovers'
  BY <1>0, <1>1, BoundsAssumption DEF PassCovers, Passing, IInv, Types
<1>5. TickSound' /\ WaitCovers'
  BY <1>0, <1>1 DEF TickSound, WaitCovers
<1>6. Covers'
  <2>1. \A i \in DOMAIN timers : timers[i].id \notin fresh => timers[i].next >= deadline
    BY <1>0 DEF IInv, Covers
  <2>2. deadline <= now + Second /\ deadline \in Nat /\ now \in Nat /\ Second \in Nat
    BY BoundsAssumption DEF IInv, Types, Covers
  <2>3. deadline' <= now' + Second
    <3>1. deadline' = deadline /\ now' \in Nat /\ now <= now'
      BY <1>0
    <3>2. \A a, b, c, e \in Nat : a <= b /\ e <= a + c => e <= b + c
      OBVIOUS
    <3> QED BY <2>2, <3>1, <3>2, Zenon
  <2>4. clock' # "top"
    BY <1>1
  <2> QED BY <1>0, <2>1, <2>3, <2>4 DEF Covers
<1> QED BY <1>2, <1>3, <1>4, <1>5, <1>6 DEF IInv

\* A timer that is kept lowers the deadline of the pass to its next tick.
LEMMA KeepCovers ==
  ASSUME IInv, Passing, tick.at <= Len(timers),
         NEW t \in TimerRecords, t.id = Scanned.id, t.dev = Scanned.dev,
         Keep(t)
  PROVE  /\ timers' \in Seq(TimerRecords) /\ Len(timers') = Len(timers)
         /\ \A i \in 1 .. Len(timers) : timers'[i].id = timers[i].id /\ timers'[i].dev = timers[i].dev
         /\ tick' \in [now : Nat, at : Nat, next : Nat]
         /\ tick'.at = tick.at + 1 /\ tick'.now = tick.now /\ tick'.next <= tick.next
         /\ t.next > tick.now => tick'.next > tick.now
         /\ \A i \in 1 .. tick.at : timers'[i].next >= tick'.next
<1>0. /\ tick \in [now : Nat, at : Nat, next : Nat] /\ tick.at \in 1 .. Len(timers)
      /\ timers \in Seq(TimerRecords) /\ t.next \in Nat
      /\ tick.now < tick.next
      /\ \A i \in 1 .. tick.at - 1 : timers[i].next >= tick.next
  BY DEF IInv, Types, PassCovers, TimerRecords
<1>1. /\ timers' = [timers EXCEPT ![tick.at] = t]
      /\ tick' = [tick EXCEPT !.at = @ + 1, !.next = Min({@, t.next})]
  BY DEF Keep
<1>2. Min({tick.next, t.next}) \in {tick.next, t.next} /\ Min({tick.next, t.next}) <= tick.next
        /\ Min({tick.next, t.next}) <= t.next
  <2>1. tick.next \in Int /\ t.next \in Int
    BY <1>0
  <2> QED BY <2>1, MinOfTwo
<1>3. /\ tick' \in [now : Nat, at : Nat, next : Nat]
      /\ tick'.at = tick.at + 1 /\ tick'.now = tick.now /\ tick'.next <= tick.next /\ tick'.next <= t.next
      /\ tick'.next \in {tick.next, t.next}
  <2> DEFINE m == Min({tick.next, t.next})
  <2>1. m \in Nat /\ m <= tick.next /\ m <= t.next /\ m \in {tick.next, t.next}
    BY <1>0, <1>2
  <2>2. tick' = [tick EXCEPT !.at = @ + 1, !.next = m]
    BY <1>1
  <2> HIDE DEF m
  <2>3. tick'.at = tick.at + 1 /\ tick'.now = tick.now /\ tick'.next = m
    BY <1>0, <2>2
  <2>4. tick' \in [now : Nat, at : Nat, next : Nat]
    <3>1. tick.at + 1 \in Nat /\ tick \in [now : Nat, at : Nat, next : Nat]
      BY <1>0
    <3> DEFINE k == tick.at + 1
    <3>2. tick' = [tick EXCEPT !.at = k, !.next = m]
      BY <2>2
    <3> HIDE DEF k
    <3>3. k \in Nat
      BY <3>1 DEF k
    <3> QED BY ONLY <2>1, <3>1, <3>2, <3>3
  <2> QED BY <2>1, <2>3, <2>4
<1>4. /\ timers' \in Seq(TimerRecords) /\ Len(timers') = Len(timers)
      /\ timers'[tick.at] = t
      /\ \A i \in 1 .. Len(timers) : i # tick.at => timers'[i] = timers[i]
  BY <1>0, <1>1
<1>5. \A i \in 1 .. Len(timers) : timers'[i].id = timers[i].id /\ timers'[i].dev = timers[i].dev
  BY <1>0, <1>4 DEF Scanned
<1>6. ASSUME NEW i \in 1 .. tick.at
      PROVE  timers'[i].next >= tick'.next
  <2>1. CASE i = tick.at
    BY <1>0, <1>3, <1>4, <2>1
  <2>2. CASE i # tick.at
    <3>1. i \in 1 .. tick.at - 1 /\ i \in 1 .. Len(timers)
      BY <1>0, <2>2
    <3>2. timers'[i] = timers[i] /\ timers[i].next >= tick.next
      BY <1>0, <1>4, <2>2, <3>1
    <3>3. timers[i].next \in Nat /\ tick.next \in Nat /\ tick'.next \in Nat
      <4>1. timers[i] \in TimerRecords
        BY <1>0, <3>1
      <4>2. timers[i].next \in Nat
        BY <4>1 DEF TimerRecords
      <4> QED BY <1>0, <1>3, <4>2
    <3> QED BY <1>3, <3>2, <3>3
  <2> QED BY <2>1, <2>2
<1> QED BY <1>0, <1>3, <1>4, <1>5, <1>6

\* What is left to show of a step of the pass that keeps a timer.
LEMMA KeepInv ==
  ASSUME IInv, Passing, tick.at <= Len(timers),
         NEW t \in TimerRecords, t.id = Scanned.id, t.dev = Scanned.dev,
         Keep(t),
         clock' = IF t.next > tick.now THEN "scan" ELSE "dead",
         extra' \in Nat, extra' <= IF async THEN 1 ELSE 0,
         UNCHANGED <<async, now, queue, fresh, deadline, enabled, current, created, cpu, running, base,
                     start>>
  PROVE  IInv'
<1>1. /\ timers' \in Seq(TimerRecords) /\ Len(timers') = Len(timers)
      /\ \A i \in 1 .. Len(timers) : timers'[i].id = timers[i].id /\ timers'[i].dev = timers[i].dev
      /\ tick' \in [now : Nat, at : Nat, next : Nat]
      /\ tick'.at = tick.at + 1 /\ tick'.now = tick.now /\ tick'.next <= tick.next
      /\ t.next > tick.now => tick'.next > tick.now
      /\ \A i \in 1 .. tick.at : timers'[i].next >= tick'.next
  BY KeepCovers
<1>2. /\ tick \in [now : Nat, at : Nat, next : Nat] /\ tick.at \in 1 .. Len(timers) + 1
      /\ tick.now <= now /\ tick.now < tick.next /\ tick.next <= tick.now + Second
      /\ ~async => tick.now = now
      /\ now \in Nat /\ Second \in Nat /\ t.next \in Nat
  BY BoundsAssumption DEF IInv, Types, PassCovers, TimerRecords
<1>3. Types'
  <2>1. clock' \in {"scan", "dead"}
    OBVIOUS
  <2>2. /\ tick' \in [now : Nat, at : Nat, next : Nat] /\ tick'.at <= Len(timers') + 1
        /\ timers' \in Seq(TimerRecords)
    BY <1>1, <1>2
  <2>3. extra' \in Nat
    BY DEF IInv, Types
  <2> QED BY <2>1, <2>2, <2>3 DEF IInv, Types, Limit
<1>4. AllSound' /\ Distinct'
  BY <1>1 DEF IInv, AllSound, Sound, Distinct
<1>5. PassCovers'
  <2> SUFFICES ASSUME clock' = "scan" PROVE PassCovers'
    BY DEF PassCovers, Passing
  <2>1. t.next > tick.now
    OBVIOUS
  <2>2. tick'.at - 1 = tick.at /\ tick'.at \in 1 .. Len(timers') + 1
    BY <1>1, <1>2
  <2>3. tick'.now <= now' /\ tick'.now < tick'.next /\ tick'.next <= tick'.now + Second
    BY <1>1, <1>2, <2>1
  <2>4. ~async' => tick'.now = now'
    BY <1>1, <1>2
  <2>5. \A i \in 1 .. tick'.at - 1 : timers'[i].next >= tick'.next
    BY <1>1, <2>2
  <2> QED BY <2>2, <2>3, <2>4, <2>5 DEF PassCovers
<1>6. TickSound' /\ WaitCovers' /\ StopHolds'
  BY DEF TickSound, WaitCovers, StopHolds
<1>7. Covers'
  BY DEF IInv, Covers
<1> QED BY <1>3, <1>4, <1>5, <1>6, <1>7 DEF IInv

\* retain_mut reaches a timer: one that is not due stays, one that is due and
\* stopped is dropped, one that is due and enabled ticks.
LEMMA ScanNextInv ==
  ASSUME IInv, ScanNext
  PROVE  IInv'
<1>0. /\ clock = "scan" /\ tick.at \in 1 .. Len(timers)
      /\ UNCHANGED <<async, now, queue, fresh, deadline, enabled, current, created, cpu, extra,
                     running, base, start>>
  BY DEF ScanNext, device, frame, IInv, Types, PassCovers, Passing
<1>1. /\ Scanned \in TimerRecords /\ timers \in Seq(TimerRecords) /\ tick.now \in Nat /\ tick.at \in Nat
      /\ Scanned.next \in Nat
  <2>1. timers \in Seq(TimerRecords) /\ tick \in [now : Nat, at : Nat, next : Nat]
    BY DEF IInv, Types
  <2>2. Scanned \in TimerRecords
    BY <1>0, <2>1 DEF Scanned
  <2> QED BY <2>1, <2>2 DEF TimerRecords
<1>2. CASE Scanned.next > tick.now
  <2>1. Keep(Scanned) /\ clock' = clock
    BY <1>1, <1>2 DEF ScanNext
  <2> QED BY <1>0, <1>1, <1>2, <2>1, KeepInv DEF Passing, IInv, Types, StopHolds
<1>3. CASE Scanned.next <= tick.now /\ Scanned.id \notin enabled
  <2>1. timers' = RemoveAt(timers, tick.at) /\ clock' = clock /\ tick' = tick
    <3>1. ~(Scanned.next > tick.now)
      BY <1>1, <1>3
    <3>2. /\ timers' = SubSeq(timers, 1, tick.at - 1) \o SubSeq(timers, tick.at + 1, Len(timers))
          /\ UNCHANGED <<clock, tick>>
      BY <1>3, <3>1, Zenon DEF ScanNext
    <3> QED BY <3>2 DEF RemoveAt
  <2>2. /\ timers' \in Seq(TimerRecords) /\ Len(timers') = Len(timers) - 1
        /\ \A i \in 1 .. Len(timers) - 1 : timers'[i] = IF i < tick.at THEN timers[i] ELSE timers[i + 1]
    BY <1>0, <1>1, <2>1, RemoveAtKeeps
  <2>3. Types'
    BY <1>0, <1>1, <2>1, <2>2 DEF IInv, Types, Limit
  <2>4. AllSound' /\ Distinct'
    <3>1. \A i \in 1 .. Len(timers') : Sound(timers'[i])
      BY <1>0, <1>1, <2>2 DEF IInv, AllSound
    <3> QED BY <1>0, <3>1 DEF IInv, AllSound, Sound, Distinct
  <2>5. PassCovers'
    BY <1>0, <1>1, <2>1, <2>2 DEF IInv, PassCovers, Passing
  <2>6. TickSound' /\ WaitCovers' /\ StopHolds' /\ Covers'
    BY <1>0, <2>1 DEF IInv, TickSound, WaitCovers, StopHolds, Covers
  <2> QED BY <2>3, <2>4, <2>5, <2>6 DEF IInv
<1>4. CASE Scanned.next <= tick.now /\ Scanned.id \in enabled
  <2>1. clock' = "tick" /\ timers' = timers /\ tick' = tick
    BY <1>1, <1>4 DEF ScanNext
  <2>2. Types'
    BY <1>0, <2>1 DEF IInv, Types, Limit
  <2>3. AllSound' /\ Distinct' /\ WaitCovers' /\ StopHolds' /\ Covers'
    BY <1>0, <2>1 DEF IInv, AllSound, Sound, Distinct, WaitCovers, StopHolds, Covers
  <2>4. PassCovers' /\ TickSound'
    BY <1>0, <1>1, <1>4, <2>1 DEF IInv, PassCovers, Passing, TickSound, Scanned
  <2> QED BY <2>2, <2>3, <2>4 DEF IInv
<1> QED BY <1>1, <1>2, <1>3, <1>4

\* The pass is over: its deadline is the ticker's.
LEMMA ScanEndInv ==
  ASSUME IInv, ScanEnd
  PROVE  IInv'
<1>0. /\ clock = "scan" /\ tick.at > Len(timers) /\ deadline' = tick.next /\ tick' = NoTick /\ clock' = "wait"
      /\ UNCHANGED <<async, now, queue, timers, enabled, current, created, cpu, extra,
                     running, base, start>>
  BY DEF ScanEnd, device, frame
<1>1. /\ tick \in [now : Nat, at : Nat, next : Nat] /\ tick.at \in 1 .. Len(timers) + 1 /\ timers \in Seq(TimerRecords)
      /\ tick.now <= now /\ tick.now < tick.next /\ tick.next <= tick.now + Second
      /\ ~async => tick.now = now
      /\ \A i \in 1 .. tick.at - 1 : timers[i].next >= tick.next
      /\ now \in Nat /\ Second \in Nat
  BY <1>0, BoundsAssumption DEF IInv, Types, PassCovers, Passing
<1>2. tick' \in [now : Nat, at : Nat, next : Nat] /\ tick'.at = 0
  BY <1>0 DEF NoTick
<1>3. Types'
  BY <1>0, <1>1, <1>2 DEF IInv, Types, Limit
<1>4. AllSound' /\ Distinct' /\ StopHolds' /\ PassCovers' /\ TickSound'
  BY <1>0 DEF IInv, AllSound, Sound, Distinct, StopHolds, PassCovers, Passing, TickSound
<1>5. WaitCovers'
  BY <1>0, <1>1 DEF WaitCovers
<1>6. Covers'
  <2>1. \A i \in DOMAIN timers : timers[i].next >= tick.next
    BY <1>0, <1>1
  <2> QED BY <1>0, <1>1, <2>1 DEF Covers
<1> QED BY <1>3, <1>4, <1>5, <1>6 DEF IInv

\* The pulse: a timer that is stopped by now pulses this once.
LEMMA TickPulseInv ==
  ASSUME IInv, TickPulse
  PROVE  IInv'
<1> DEFINE next == Reschedule(Scanned, tick.now)
           t == [Scanned EXCEPT !.next = next]
<1>0. /\ clock = "tick" /\ Keep(t) /\ clock' = IF next > tick.now THEN "scan" ELSE "dead"
      /\ extra' = IF Scanned.dev = "rtc" /\ Scanned.id \notin enabled THEN extra + 1 ELSE extra
      /\ UNCHANGED <<async, now, queue, fresh, deadline, enabled, current, created, cpu, running, base, start>>
  BY DEF TickPulse, device, frame
<1>1. Passing /\ tick.at \in 1 .. Len(timers) /\ tick.now \in Nat /\ Scanned \in TimerRecords
  BY <1>0 DEF IInv, Types, Passing, PassCovers, TickSound, Scanned
<1>2. next \in Nat
  BY <1>1 DEF Reschedule, TimerRecords
<1>3. t \in TimerRecords /\ t.id = Scanned.id /\ t.dev = Scanned.dev /\ t.next = next
  <2> HIDE DEF next
  <2> QED BY <1>1, <1>2 DEF TimerRecords
<1>5. extra' \in Nat /\ extra' <= IF async THEN 1 ELSE 0
  BY <1>0 DEF IInv, Types, StopHolds, TickSound
<1> HIDE DEF t, next
<1> QED BY <1>0, <1>1, <1>3, <1>5, KeepInv

\* New timers come in through the channel, one by one or all of them; the next
\* pass has not seen them.
LEMMA ReceiveInv ==
  ASSUME IInv, Receive \/ Timeout \/ Drain
  PROVE  IInv'
<1>0. /\ clock = "wait" /\ clock' = "top"
      /\ UNCHANGED <<async, now, deadline, tick, enabled, current, created, cpu, extra,
                     running, base, start>>
  BY DEF Receive, Timeout, Drain, device, frame
<1>1. queue \in Seq(TimerRecords) /\ timers \in Seq(TimerRecords) /\ tick.at <= Len(timers) + 1 /\ tick.at \in Nat
  BY DEF IInv, Types
<1>2. /\ timers' \in Seq(TimerRecords) /\ queue' \in Seq(TimerRecords)
      /\ Len(timers') >= Len(timers)
      /\ \A i \in 1 .. Len(timers) : timers'[i] = timers[i]
      /\ fresh \subseteq fresh'
      /\ \A i \in 1 .. Len(timers') : i > Len(timers) =>
           timers'[i].id \in fresh' /\ \E j \in 1 .. Len(queue) : timers'[i] = queue[j]
      /\ \A i \in 1 .. Len(queue') : \E j \in 1 .. Len(queue) : queue'[i] = queue[j]
  <2>1. CASE Receive
    <3>1. queue # << >> /\ timers' = Append(timers, Head(queue)) /\ queue' = Tail(queue)
            /\ fresh' = fresh \cup {Head(queue).id}
      BY <2>1 DEF Receive
    <3>2. /\ Head(queue) = queue[1] /\ queue[1] \in TimerRecords /\ 1 \in 1 .. Len(queue)
          /\ Tail(queue) \in Seq(TimerRecords) /\ Len(Tail(queue)) = Len(queue) - 1
          /\ \A i \in 1 .. Len(Tail(queue)) : Tail(queue)[i] = queue[i + 1]
      BY <1>1, <3>1
    <3>3. /\ timers' \in Seq(TimerRecords) /\ Len(timers') = Len(timers) + 1
          /\ \A i \in 1 .. Len(timers) : timers'[i] = timers[i]
          /\ timers'[Len(timers) + 1] = queue[1]
      BY <1>1, <3>1, <3>2, AppendProperties
    <3>4. \A i \in 1 .. Len(timers') : i > Len(timers) => timers'[i] = queue[1]
      BY <1>1, <3>3
    <3>5. queue[1].id \in fresh'
      BY <3>1, <3>2
    <3>6. \A i \in 1 .. Len(queue') : i + 1 \in 1 .. Len(queue) /\ queue'[i] = queue[i + 1]
      BY <1>1, <3>1, <3>2
    <3> QED BY <1>1, <3>1, <3>2, <3>3, <3>4, <3>5, <3>6
  <2>2. CASE Timeout
    BY <1>1, <2>2 DEF Timeout
  <2>3. CASE Drain
    <3>1. timers' = timers \o queue /\ queue' = << >> /\ fresh' = fresh \cup {queue[i].id : i \in DOMAIN queue}
      BY <2>3 DEF Drain
    <3>2. /\ timers' \in Seq(TimerRecords) /\ Len(timers') = Len(timers) + Len(queue)
          /\ \A i \in 1 .. Len(timers) + Len(queue) :
               timers'[i] = IF i <= Len(timers) THEN timers[i] ELSE queue[i - Len(timers)]
      BY <1>1, <3>1, ConcatProperties
    <3>3. \A i \in 1 .. Len(timers') : i > Len(timers) =>
            i - Len(timers) \in 1 .. Len(queue) /\ timers'[i] = queue[i - Len(timers)]
      BY <1>1, <3>2
    <3>4. \A j \in 1 .. Len(queue) : queue[j].id \in fresh'
      BY <1>1, <3>1
    <3>5. queue' \in Seq(TimerRecords) /\ Len(queue') = 0
      BY <3>1
    <3> QED BY <1>1, <3>1, <3>2, <3>3, <3>4, <3>5
  <2> QED BY <2>1, <2>2, <2>3
<1>3. Types'
  BY <1>0, <1>1, <1>2 DEF IInv, Types, Limit
<1>4. AllSound'
  <2>1. \A i \in 1 .. Len(timers') : Sound(timers'[i])
    BY <1>1, <1>2 DEF IInv, AllSound
  <2>2. \A i \in 1 .. Len(queue') : Sound(queue'[i])
    BY <1>2 DEF IInv, AllSound
  <2> QED BY <1>0, <2>1, <2>2 DEF IInv, AllSound, Sound
<1>5. Distinct' /\ PassCovers' /\ TickSound' /\ WaitCovers' /\ StopHolds'
  BY <1>0 DEF IInv, Distinct, PassCovers, Passing, TickSound, WaitCovers, StopHolds
<1>6. Covers'
  <2>1. ASSUME NEW i \in DOMAIN timers', timers'[i].id \notin fresh'
        PROVE  timers'[i].next >= deadline
    <3>1. i \in 1 .. Len(timers')
      BY <1>2, <2>1
    <3>2. i \in 1 .. Len(timers) /\ timers'[i] = timers[i]
      BY <1>1, <1>2, <2>1, <3>1
    <3> QED BY <1>0, <1>1, <1>2, <2>1, <3>2 DEF IInv, Covers
  <2> QED BY <1>0, <2>1 DEF IInv, Covers, WaitCovers
<1> QED BY <1>3, <1>4, <1>5, <1>6 DEF IInv

\* The time of the asynchronous clock.
LEMMA ElapseInv ==
  ASSUME IInv, Elapse
  PROVE  IInv'
<1>0. /\ async /\ now < MaxTime /\ now' = now + 1 /\ now \in Nat
      /\ UNCHANGED <<async, queue, timers, fresh, deadline, clock, tick, enabled, current, created, cpu, extra, running, base, start>>
  BY DEF Elapse, ticker, device, frame, IInv, Types
<1>1. Types'
  BY <1>0, BoundsAssumption DEF IInv, Types, Limit
<1>2. AllSound' /\ Distinct' /\ TickSound' /\ WaitCovers' /\ StopHolds'
  BY <1>0 DEF IInv, AllSound, Sound, Distinct, TickSound, Scanned, WaitCovers, StopHolds
<1>3. PassCovers'
  BY <1>0 DEF IInv, Types, PassCovers, Passing
<1>4. Covers'
  BY <1>0, BoundsAssumption DEF IInv, Types, Covers
<1> QED BY <1>1, <1>2, <1>3, <1>4 DEF IInv

\* Every step, and a step of nothing, keeps the invariant.
LEMMA NextInv == IInv /\ [Next]_vars => IInv'
<1> SUFFICES ASSUME IInv, [Next]_vars PROVE IInv'
  OBVIOUS
<1>1. CASE ClockStep
  BY <1>1, BeginInv, ScanNextInv, ScanEndInv, TickPulseInv, ReceiveInv DEF ClockStep
<1>2. CASE CpuStep
  BY <1>2, StartInv, StopInv, SendInv, FrameInv DEF CpuStep
<1>3. CASE TickBy
  BY <1>3, BeginInv
<1>4. CASE Elapse
  BY <1>4, ElapseInv
<1>5. CASE UNCHANGED vars
  BY <1>5 DEF vars, ticker, device, frame, IInv, Types, Limit, AllSound, Sound, Distinct, PassCovers, Passing,
              TickSound, Scanned, WaitCovers, Covers, StopHolds
<1> QED BY <1>1, <1>2, <1>3, <1>4, <1>5 DEF Next

\* The inductive invariant holds in every reachable state.
THEOREM InductiveInvariant == Spec => []IInv
  BY InitInv, NextInv, PTL DEF Spec

-----------------------------------------------------------------------------
(* How late a timer of the synchronous clock can be.  A timer is created   *)
(* for a tick that is not past, and the ticker has it after the next       *)
(* quantum: a deadline set before or in between is at most Second and one  *)
(* quantum after it.                                                       *)

\* The deadline d is soon enough for the timer t.
InTime(d, t) == d <= t.next + Second + 1

OnTime ==
  ~async =>
    /\ clock = "top" =>
         /\ \A i \in 1 .. Len(timers) : InTime(deadline, timers[i])
         /\ \A i \in 1 .. Len(queue) : now <= queue[i].next
         /\ cpu.at = "send" => now <= cpu.timer.next
    /\ clock \in {"scan", "tick", "wait"} => cpu.at = "run"
    /\ Passing => \A i \in 1 .. Len(queue) : now <= queue[i].next + 1
    /\ clock = "wait" =>
         /\ \A i \in 1 .. Len(timers) : InTime(deadline, timers[i])
         /\ \A i \in 1 .. Len(queue) : InTime(deadline, queue[i])

LEMMA OnTimeInv == IInv /\ OnTime /\ [Next]_vars => OnTime'
<1> SUFFICES ASSUME IInv, OnTime, [Next]_vars, ~async PROVE OnTime'
  <2>1. Next => async' = async
    BY DEF Next, ClockStep, CpuStep, ClockTop, ScanNext, ScanEnd, TickPulse, Receive, Timeout, Drain,
           RtcStart, PitStart, RtcStop, Send, Start, Pause, TickBy, Elapse
  <2>2. (UNCHANGED vars) => async' = async
    BY DEF vars
  <2> QED BY <2>1, <2>2 DEF OnTime
<1>0. /\ timers \in Seq(TimerRecords) /\ queue \in Seq(TimerRecords) /\ cpu.timer \in TimerRecords
      /\ now \in Nat /\ deadline \in Nat /\ Second \in Nat /\ deadline <= now + Second
      /\ clock = "top" => now <= deadline
      /\ tick.now \in Nat /\ tick.at \in Nat /\ tick.next \in Nat
  BY BoundsAssumption DEF IInv, Types, Covers
<1>n. /\ \A i \in 1 .. Len(timers) : timers[i].next \in Nat
      /\ \A i \in 1 .. Len(queue) : queue[i].next \in Nat
      /\ cpu.timer.next \in Nat
  <2>1. /\ \A i \in 1 .. Len(timers) : timers[i] \in TimerRecords
        /\ \A i \in 1 .. Len(queue) : queue[i] \in TimerRecords
    BY <1>0
  <2>2. \A t \in TimerRecords : t.next \in Nat
    BY DEF TimerRecords
  <2> QED BY <1>0, <2>1, <2>2
<1>1. CASE \E p \in Periods : RtcStart(p) \/ PitStart(p)
  <2> PICK p \in Periods : RtcStart(p) \/ PitStart(p)
    BY <1>1
  <2>1. /\ clock = "top" /\ UNCHANGED <<async, now, queue, timers, deadline, clock>>
        /\ cpu'.timer.next \in {now, now + p} /\ p \in Nat
    BY PeriodsAssumption DEF RtcStart, PitStart, Cpu, NewTimer, Timer, ticker
  <2> QED BY <1>0, <2>1 DEF OnTime, Passing, InTime
<1>2. CASE RtcStop \/ Start \/ Pause
  <2>1. UNCHANGED <<async, now, queue, timers, deadline, clock, cpu>>
    BY <1>2 DEF RtcStop, Start, Pause, ticker, device
  <2> QED BY <2>1 DEF OnTime, Passing, InTime
<1>3. CASE Send
  <2>1. /\ clock = "top" /\ cpu.at = "send" /\ cpu'.at = "run" /\ queue' = Append(queue, cpu.timer)
        /\ UNCHANGED <<async, now, timers, deadline, clock>>
    BY <1>3 DEF Send, Cpu, ticker
  <2>2. /\ Len(queue') = Len(queue) + 1
        /\ \A i \in 1 .. Len(queue) : queue'[i] = queue[i]
        /\ queue'[Len(queue) + 1] = cpu.timer
    BY <1>0, <2>1, AppendProperties
  <2>3. ASSUME NEW i \in 1 .. Len(queue')
        PROVE  now <= queue'[i].next
    <3>1. CASE i \in 1 .. Len(queue)
      BY <2>1, <2>2, <3>1 DEF OnTime
    <3>2. CASE i = Len(queue) + 1
      BY <2>1, <2>2, <3>2 DEF OnTime
    <3> QED BY <1>0, <2>2, <3>1, <3>2
  <2> QED BY <2>1, <2>3 DEF OnTime, Passing, InTime
<1>4. CASE TickBy
  <2>1. /\ clock = "top" /\ cpu.at = "run" /\ now' = now + 1
        /\ clock' \in {"scan", "wait"}
        /\ UNCHANGED <<async, timers, queue, cpu, deadline>>
    BY <1>4 DEF TickBy, Cpu, BeginTick, device
  <2>2. \A i \in 1 .. Len(queue) : now' <= queue[i].next + 1 /\ InTime(deadline, queue[i])
    BY <1>0, <1>n, <2>1 DEF OnTime, InTime
  <2> QED BY <2>1, <2>2 DEF OnTime, Passing, InTime
<1>5. CASE ScanNext \/ TickPulse
  <2>1. /\ clock \in {"scan", "tick"} /\ clock' \in {"scan", "tick", "dead"}
        /\ UNCHANGED <<async, now, queue, cpu, deadline>>
    BY <1>5 DEF ScanNext, TickPulse, device
  <2> QED BY <2>1 DEF OnTime, Passing
<1>6. CASE ScanEnd
  <2>1. /\ clock = "scan" /\ clock' = "wait" /\ deadline' = tick.next /\ tick.at > Len(timers)
        /\ UNCHANGED <<async, now, timers, queue, cpu>>
    BY <1>6 DEF ScanEnd, device
  <2>2. /\ tick.now = now /\ tick.next <= now + Second /\ tick.at \in 1 .. Len(timers) + 1
        /\ \A i \in 1 .. tick.at - 1 : timers[i].next >= tick.next
    BY <2>1 DEF IInv, PassCovers, Passing
  <2>3. \A i \in 1 .. Len(timers) : InTime(tick.next, timers[i])
    BY <1>0, <1>n, <2>1, <2>2 DEF InTime
  <2>4. \A i \in 1 .. Len(queue) : InTime(tick.next, queue[i])
    BY <1>0, <1>n, <2>1, <2>2 DEF OnTime, Passing, InTime
  <2> QED BY <2>1, <2>3, <2>4 DEF OnTime, Passing, InTime
<1>7. CASE Drain
  <2>1. /\ clock = "wait" /\ clock' = "top" /\ timers' = timers \o queue /\ queue' = << >>
        /\ UNCHANGED <<async, now, deadline, cpu>>
    BY <1>7 DEF Drain, device
  <2>2. /\ Len(timers') = Len(timers) + Len(queue)
        /\ \A i \in 1 .. Len(timers) + Len(queue) :
             timers'[i] = IF i <= Len(timers) THEN timers[i] ELSE queue[i - Len(timers)]
    BY <1>0, <2>1, ConcatProperties
  <2>3. ASSUME NEW i \in 1 .. Len(timers')
        PROVE  InTime(deadline, timers'[i])
    <3>1. CASE i <= Len(timers)
      BY <1>0, <2>1, <2>2, <3>1 DEF OnTime
    <3>2. CASE ~(i <= Len(timers))
      <4>1. i - Len(timers) \in 1 .. Len(queue) /\ timers'[i] = queue[i - Len(timers)]
        BY <1>0, <2>2, <3>2
      <4> QED BY <2>1, <4>1 DEF OnTime
    <3> QED BY <3>1, <3>2
  <2>4. Len(queue') = 0 /\ cpu'.at = "run"
    BY <2>1 DEF OnTime
  <2> QED BY <2>1, <2>3, <2>4 DEF OnTime, Passing, InTime
<1>8. ~ClockTop /\ ~Receive /\ ~Timeout /\ ~Elapse
  BY DEF ClockTop, Receive, Timeout, Elapse
<1>9. CASE UNCHANGED vars
  BY <1>9 DEF vars, ticker, device, OnTime, Passing, InTime
<1> QED BY <1>1, <1>2, <1>3, <1>4, <1>5, <1>6, <1>7, <1>8, <1>9 DEF Next, ClockStep, CpuStep

LEMMA Punctual == Spec => []OnTime
<1>1. Init => OnTime
  <2> SUFFICES ASSUME Init PROVE OnTime
    OBVIOUS
  <2>1. /\ Len(timers) = 0 /\ now = 0 /\ clock = "top" /\ cpu.at = "run"
        /\ Len(queue) = 2 /\ queue[1].next = 0 /\ queue[2].next = 0
    BY DEF Init, Timer
  <2> QED BY <2>1 DEF OnTime, Passing
<1> QED BY <1>1, OnTimeInv, InductiveInvariant, PTL DEF Spec

-----------------------------------------------------------------------------
(* What it is for.                                                         *)

\* The types of the state, of every timer on its way to the ticker or in it.
THEOREM TypeCorrect == Spec => []TypeOK
<1>1. IInv => TypeOK
  <2> SUFFICES ASSUME IInv PROVE TypeOK
    OBVIOUS
  <2>1. Known \subseteq TimerRecords
    BY DEF IInv, Types, Known
  <2>2. now \in 0 .. (IF async THEN MaxTime ELSE SyncTime)
    BY BoundsAssumption DEF IInv, Types, Limit
  <2> QED BY <2>1, <2>2, BoundsAssumption DEF IInv, Types, TypeOK
<1> QED BY <1>1, InductiveInvariant, PTL

\* Of all the timers of a device, at most the one its TimerInfo refers to is
\* enabled, wherever it is: with the CPU thread, in the channel or in the ticker.
THEOREM OneActiveHolds == Spec => []OneActive
<1>1. IInv => OneActive
  <2> SUFFICES ASSUME IInv, NEW t \in Known, t.id \in enabled
               PROVE  t.id = current[t.dev].id
    BY DEF OneActive
  <2>1. Sound(t)
    <3>1. timers \in Seq(TimerRecords) /\ queue \in Seq(TimerRecords) /\ AllSound
      BY DEF IInv, Types
    <3>2. \/ \E i \in DOMAIN timers : t = timers[i]
          \/ \E i \in DOMAIN queue : t = queue[i]
          \/ cpu.at = "send" /\ t = cpu.timer
      BY Zenon DEF Known
    <3>3. DOMAIN timers = 1 .. Len(timers) /\ DOMAIN queue = 1 .. Len(queue)
      BY <3>1
    <3> QED BY <3>1, <3>2, <3>3, Zenon DEF AllSound
  <2> QED BY <2>1 DEF Sound
<1> QED BY <1>1, InductiveInvariant, PTL

\* No timer that took part in a pass is due before the deadline, which is at most
\* Second away.  Timers received since that pass are exempt, on both clocks; but
\* the synchronous clock never passes its deadline, and none of its timers is
\* late by more than Second and one quantum.
THEOREM DeadlineHolds == Spec => []DeadlineCovers
<1>1. IInv /\ OnTime => DeadlineCovers
  <2> SUFFICES ASSUME IInv, OnTime PROVE DeadlineCovers
    OBVIOUS
  <2>1. ASSUME ~async, clock = "top", NEW i \in DOMAIN timers
        PROVE  now <= timers[i].next + Second + 1
    <3>1. /\ i \in 1 .. Len(timers) /\ timers[i] \in TimerRecords
          /\ now \in Nat /\ deadline \in Nat /\ Second \in Nat
      BY <2>1, BoundsAssumption DEF IInv, Types
    <3>2. timers[i].next \in Nat
      BY <3>1 DEF TimerRecords
    <3>3. now <= deadline /\ deadline <= timers[i].next + Second + 1
      BY <2>1, <3>1 DEF IInv, Covers, OnTime, InTime
    <3> QED BY <3>1, <3>2, <3>3
  <2> QED BY <2>1 DEF IInv, Covers, DeadlineCovers
<1> QED BY <1>1, Punctual, InductiveInvariant, PTL

\* A stopped RTC timer pulses at most once more, never with the synchronous clock.
THEOREM StopIsFinal == Spec => []StopHolds
<1>1. IInv => StopHolds
  BY DEF IInv
<1> QED BY <1>1, InductiveInvariant, PTL

\* EmulatorClock::get never runs backwards, over pauses and restarts too.
THEOREM TimeIsMonotonic == Spec => TimeMonotonic
<1>1. IInv /\ [Next]_vars => [Get' >= Get]_vars
  <2> SUFFICES ASSUME IInv, [Next]_vars PROVE Get' >= Get \/ UNCHANGED vars
    OBVIOUS
  <2>0. /\ now \in Nat /\ base \in Nat /\ start \in Nat /\ start <= now /\ running \in BOOLEAN /\ async \in BOOLEAN
    BY DEF IInv, Types
  <2>1. CASE Start \/ Pause
    BY <2>0, <2>1 DEF Start, Pause, Get
  <2>2. CASE TickBy \/ Elapse
    BY <2>0, <2>2 DEF TickBy, Elapse, Get, frame
  <2>3. CASE UNCHANGED <<async, now, running, base, start>>
    BY <2>0, <2>3 DEF Get
  <2>4. ClockStep \/ (CpuStep /\ ~(Start \/ Pause)) => UNCHANGED <<async, now, running, base, start>>
    BY DEF ClockStep, ClockTop, ScanNext, ScanEnd, TickPulse, Receive, Timeout, Drain, CpuStep, RtcStart,
           PitStart, RtcStop, Send, frame
  <2> QED BY <2>1, <2>2, <2>3, <2>4 DEF Next, vars
<1> QED BY <1>1, InductiveInvariant, PTL DEF Spec, TimeMonotonic
=============================================================================

------------------------------ MODULE PitTimer ------------------------------
(***************************************************************************)
(* A counter of the programmable interval timer (hw/pit.rs, struct Timer). *)
(*                                                                         *)
(* The code does not count clock ticks as they happen: each access through *)
(* a port first brings the counter up to date (tick_to), in one step of    *)
(* arbitrary length, with a formula per mode.  Here `timer` is the code's  *)
(* counter and `gap` the ticks since it was last brought up to date, while *)
(* `eager` is a counter that takes every tick as it happens: what the      *)
(* lazy counter has to be indistinguishable from.                          *)
(*                                                                         *)
(* A byte has Byte values.  The gate is never lowered, BCD counts like       *)
(* binary (both as in the code), and mode 1 is not implemented (todo!).    *)
(***************************************************************************)
EXTENDS Integers

CONSTANTS Byte,     \* values of a byte (256 in the code)
          MaxGap    \* bound on the ticks between two accesses

ByteAssumption == Byte \in Nat \ {0, 1} /\ MaxGap \in Nat

Word  == Byte * Byte
TimerModes == {0, 2, 3, 4, 5}
None  == -1

\* State: which byte the next read and write access, alone or in turn.
Turns == {"lsb", "msb"}
AccessStates == [both : BOOLEAN, read : Turns, write : Turns]

VARIABLES timer, gap, eager,
          got       \* history: what the guest has read since a latch of a fresh pair

vars == <<timer, gap, eager, got>>

NewTimer ==
  [init |-> 0, val |-> 0, mode |-> 0,
   state |-> [both |-> FALSE, read |-> "lsb", write |-> "lsb"],
   output |-> FALSE, null_count |-> FALSE, latched_value |-> None, latched_status |-> << >>]

NoGot == [want |-> None, low |-> None]

Init ==
  /\ timer = NewTimer
  /\ gap = 0
  /\ eager = NewTimer
  /\ got = NoGot

Flip(b)          == IF b = "lsb" THEN "msb" ELSE "lsb"
Extract(b, v)    == IF b = "lsb" THEN v % Byte ELSE v \div Byte

SetByte(b, v, x) == IF b = "lsb" THEN (v \div Byte) * Byte + x ELSE (v % Byte) + x * Byte

----------------------------------------------------------------------------
(* Timer::tick                                                             *)
Reload(t) == IF t.null_count THEN [t EXCEPT !.val = t.init, !.null_count = FALSE] ELSE t

\* Fault: one reload too many when the count ends exactly at zero.
BadCountDown(val, init, num) ==
  IF num <= val
  THEN val - num
  ELSE LET remaining == num - val
       IN  (init * (remaining \div init + 1) - remaining) % Word

\* Modes 2 and 3 reload when they reach zero.
CountDown(val, init, num) ==
  IF num <= val
  THEN val - num
  ELSE LET remaining == num - val
       IN  (init * ((remaining - 1) \div init + 1) - remaining) % Word

AfterTick(t, num) ==
  LET init == IF t.init = 0 THEN Word ELSE t.init
      down == (t.val - num) % Word
      around == CountDown(t.val, init, num)
  IN  CASE t.mode = 0 /\ t.state.both /\ t.state.write = "msb" -> t
        [] t.mode = 0 /\ ~(t.state.both /\ t.state.write = "msb") ->
             [t EXCEPT !.val = down, !.output = (down = 0)]
        [] t.mode = 2 -> [t EXCEPT !.val = around, !.output = (around # 1)]
        [] t.mode = 3 -> [t EXCEPT !.val = around, !.output = (around >= init \div 2)]
        [] t.mode \in {4, 5} ->
             [t EXCEPT !.val = down, !.output = (down = 0 /\ t.val # down)]

Tick(t, num) == AfterTick(Reload(t), num)

\* tick_to
UpToDate(t, num) == IF num = 0 THEN t ELSE Tick(t, num)

ClockTick ==
  /\ gap < MaxGap
  /\ gap' = gap + 1
  /\ eager' = Tick(eager, 1)
  /\ UNCHANGED <<timer, got>>

----------------------------------------------------------------------------
(* The operations on an up-to-date counter.                                *)
Output(t) == IF t.latched_value = None THEN t.val ELSE t.latched_value

ReadResult(t) == Extract(t.state.read, Output(t))

AfterRead(t) ==
  IF t.latched_status # << >>
  THEN [t EXCEPT !.latched_status = << >>]
  ELSE [t EXCEPT !.state.read = IF t.state.both THEN Flip(@) ELSE @,
                 !.latched_value = IF t.state.both /\ t.state.read = "lsb" THEN @ ELSE None]

AfterWrite(t, x) ==
  [t EXCEPT !.init = SetByte(t.state.write, @, x),
            !.state.write = IF t.state.both THEN Flip(@) ELSE @,
            !.null_count = @ \/ ~t.state.both \/ t.state.write = "msb"]

\* write_control; the output follows the mode that is being replaced.
AfterControl(t, mode, access) ==
  [t EXCEPT !.init = 0, !.mode = mode, !.state = access, !.output = (t.mode # 0),
            !.null_count = TRUE, !.latched_value = None, !.latched_status = << >>]

\* Fault: a second latch replaces the first.
BadLatchCount(t) == [t EXCEPT !.latched_value = t.val]

LatchCount(t) == [t EXCEPT !.latched_value = IF @ = None THEN t.val ELSE @]

LatchStatus(t) ==
  [t EXCEPT !.latched_status =
     <<t.output, t.null_count, IF t.state.both THEN "both" ELSE t.state.read, t.mode>>]

\* Every port access applies one of them after tick_to.
Access(Op(_)) ==
  /\ timer' = Op(UpToDate(timer, gap))
  /\ gap' = 0
  /\ eager' = Op(eager)

\* A single-byte counter reads and writes the same byte.
ControlStates ==
  {s \in AccessStates : IF s.both THEN s.read = "lsb" /\ s.write = "lsb" ELSE s.read = s.write}

\* The pair of bytes a guest reads after a latch, first the low one.
Observe(t) ==
  IF t.latched_status # << >> THEN got
  ELSE IF t.state.both /\ t.state.read = "lsb" /\ got.want # None
       THEN [got EXCEPT !.low = ReadResult(t)]
       ELSE NoGot

Read ==
  /\ Access(AfterRead)
  /\ got' = Observe(UpToDate(timer, gap))

Write ==
  \E x \in 0..(Byte - 1) :
    /\ Access(LAMBDA t : AfterWrite(t, x))
    /\ UNCHANGED got

Control ==
  \E mode \in TimerModes, s \in ControlStates :
    /\ Access(LAMBDA t : AfterControl(t, mode, s))
    /\ got' = NoGot

\* A latch that starts a pair of reads remembers the count of that moment.
Remember ==
  got' = IF timer.latched_value = None /\ timer.state.both /\ timer.state.read = "lsb"
         THEN [want |-> eager.val, low |-> None]
         ELSE got

Latch == Access(LatchCount) /\ Remember

ReadBack(count, status) ==
  /\ Access(LAMBDA t : LET l == IF count THEN LatchCount(t) ELSE t
                       IN  IF status THEN LatchStatus(l) ELSE l)
  /\ IF count THEN Remember ELSE UNCHANGED got

Next ==
  \/ ClockTick
  \/ Read \/ Write \/ Control \/ Latch
  \/ \E count, status \in BOOLEAN : ReadBack(count, status)

Spec == Init /\ [][Next]_vars

----------------------------------------------------------------------------
\* Types of the state.
TypeOK ==
  /\ timer.init \in 0..(Word - 1) /\ timer.val \in 0..(Word - 1)
  /\ timer.mode \in TimerModes /\ timer.state \in AccessStates
  /\ timer.latched_value \in {None} \cup 0..(Word - 1)
  /\ gap \in 0..MaxGap

\* Catching up is exact: one tick_to of any length (below a whole turn of the
\* counter) leaves the counter where that many single ticks would have, for
\* every mode, count and half-written count, so that reads, latches and
\* status words are those of a counter that ticks in real time.
LazyExact == UpToDate(timer, gap) = eager

\* A latched count is read as one value: both bytes come from the moment of
\* the latch, however long the guest takes between the two reads.
LatchAtomic ==
  got.want # None =>
    /\ timer.latched_value = got.want
    /\ got.low # None => got.low = got.want % Byte
=============================================================================

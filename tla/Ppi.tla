--------------------------------- MODULE Ppi ---------------------------------
(***************************************************************************)
(* The keyboard controller (hw/ppi/mod.rs) and the PS/2 mouse behind it    *)
(* (hw/ppi/mouse.rs), with an interrupt-driven driver.                     *)
(*                                                                         *)
(* A byte that waits for the guest is represented by where it comes from.  *)
(* The driver's interrupt handler reads while the status shows a byte; an  *)
(* interrupt may come at any time, also between a controller command and   *)
(* its data, and the driver may read the data port at any time.            *)
(***************************************************************************)
EXTENDS Integers, Sequences, SequencesExt

CONSTANTS
    MaxQueue,   \* bound: bytes waiting in one buffer before new ones are produced
    MaxDelta    \* bound: movement the mouse has not reported

PpiAssumption == {MaxQueue, MaxDelta} \subseteq Nat \ {0}

VARIABLES
    ppi,     \* State of ppi/mod.rs
    mouse,   \* State of ppi/mouse.rs
    lines,   \* pulses of the keyboard and mouse lines the guest has not serviced
    handler  \* whether the interrupt handler runs

ppiVars == <<ppi, mouse, lines, handler>>

Room == Len(ppi.out) < MaxQueue /\ Len(mouse.send) < MaxQueue

\* The bits of read_status that show a byte.
OutputAvailable(p, m) == p.out # <<>> \/ (m.send # <<>> /\ p.aux)

\* update_irq of the controller and of the mouse: DualIrqLine::set pulses the line when
\* there is a byte.
UpdateIrq(p, l)      == IF p.out # <<>> THEN l \cup {"keyboard"} ELSE l
UpdateMouseIrq(m, l) == IF m.send # <<>> THEN l \cup {"mouse"} ELSE l

\* The controller's state becomes p and its line is updated; likewise for the mouse.
Controller(p) == ppi' = p /\ lines' = UpdateIrq(p, lines) /\ UNCHANGED <<mouse, handler>>
Mouse(p, m)   == ppi' = p /\ mouse' = m /\ lines' = UpdateMouseIrq(m, lines) /\ UNCHANGED handler

\* n bytes for the guest
Put(p, n) == [p EXCEPT !.out = @ \o [i \in 1 .. n |-> "keyboard"]]
Send(m, n) == [m EXCEPT !.send = @ \o [i \in 1 .. n |-> "mouse"]]

-----------------------------------------------------------------------------
(* The data port.                                                          *)

\* read_a.  With a pending command the command is gone and nothing is read.
CancelCommand ==
    /\ ppi.pending # "none"
    /\ ppi' = [ppi EXCEPT !.pending = "none"]
    /\ UNCHANGED <<mouse, lines>>

\* Otherwise a mouse byte goes first, unless the keyboard has more bytes of which one
\* was read.
ReadMouse ==
    /\ ppi.pending = "none" /\ ~ppi.mustReadKeyboard /\ mouse.send # <<>>
    /\ LET m == [mouse EXCEPT !.send = Tail(@)]
       IN mouse' = m /\ lines' = UpdateMouseIrq(m, lines)
    /\ ppi' = [ppi EXCEPT !.mustReadKeyboard = FALSE]

ReadKeyboard ==
    /\ ppi.pending = "none" /\ (ppi.mustReadKeyboard \/ mouse.send = <<>>)
    /\ LET out == IF ppi.out = <<>> THEN <<>> ELSE Tail(ppi.out)
           p   == [ppi EXCEPT !.out = out, !.mustReadKeyboard = (out # <<>>)]
       IN ppi' = p /\ lines' = UpdateIrq(p, lines)
    /\ UNCHANGED mouse

ReadA == CancelCommand \/ ReadMouse \/ ReadKeyboard

\* The driver is not in its handler; new answers only while there is room.
Driver == ~handler /\ Room

\* Fault: the parameter of a keyboard command is acknowledged without an interrupt.
WriteParameterSilently ==
    /\ Driver /\ ppi.parameter
    /\ ppi' = [Put(ppi, 1) EXCEPT !.parameter = FALSE]
    /\ UNCHANGED <<mouse, lines, handler>>

\* write_a: the parameter of set LEDs or set typematic rate.
WriteParameter ==
    /\ Driver /\ ppi.parameter
    /\ Controller([Put(ppi, 1) EXCEPT !.parameter = FALSE])

\* write_a: a keyboard command, with or without a parameter, or a reset, which answers
\* two bytes.
WriteKeyboard(kind) ==
    /\ Driver /\ ~ppi.parameter /\ ppi.pending = "none"
    /\ Controller([Put(ppi, IF kind = "reset" THEN 2 ELSE 1) EXCEPT !.parameter = (kind = "parameter")])

\* write_a: the data of a controller command.  Both write_a and the system control port
\* switch the A20 line.
WriteRam == Driver /\ ~ppi.parameter /\ ppi.pending = "ram"
            /\ ppi' = [ppi EXCEPT !.pending = "none"] /\ UNCHANGED <<mouse, lines, handler>>
WriteP2(a20) == Driver /\ ~ppi.parameter /\ ppi.pending = "p2"
            /\ ppi' = [ppi EXCEPT !.pending = "none", !.a20 = a20] /\ UNCHANGED <<mouse, lines, handler>>
WriteSystemControlA(a20) == Driver /\ ppi' = [ppi EXCEPT !.a20 = a20] /\ UNCHANGED <<mouse, lines, handler>>

-----------------------------------------------------------------------------
(* The mouse (Ps2Mouse::receive_byte).                                     *)

WriteAux == Driver /\ ~ppi.parameter /\ ppi.pending = "aux"
Taken == [ppi EXCEPT !.pending = "none"]

\* A byte for a mouse port that is disabled is dropped.
AuxDropped == WriteAux /\ ~ppi.aux /\ ppi' = Taken /\ UNCHANGED <<mouse, lines, handler>>

\* Scaling, data reporting on or off, identification, status, unknown commands.
MouseCommand(n, reporting) ==
    /\ WriteAux /\ ppi.aux /\ mouse.recv = "none"
    /\ n = 1 \/ reporting = mouse.reporting
    /\ Mouse(Taken, [Send(mouse, n) EXCEPT !.reporting = reporting])

\* Set resolution and set sample rate are acknowledged, and so is their parameter.
MouseParameterCommand(cmd) ==
    /\ WriteAux /\ ppi.aux /\ mouse.recv = "none"
    /\ Mouse(Taken, [Send(mouse, 1) EXCEPT !.recv = cmd])

\* The sample rates 200, 100, 80 in a row switch to IntelliMouse mode.
Unlocked(m, rate) ==
    CASE m.mode = "intelli" -> m
      [] m.mode = "standard" /\ <<rate, m.progress>> \in {<<200, 0>>, <<100, 1>>} ->
           [m EXCEPT !.progress = @ + 1]
      [] m.mode = "standard" /\ <<rate, m.progress>> = <<80, 2>> ->
           [m EXCEPT !.mode = "intelli", !.progress = 0]
      [] OTHER -> [m EXCEPT !.progress = 0]

MouseParameter(rate) ==
    /\ WriteAux /\ ppi.aux /\ mouse.recv # "none"
    /\ LET m == [Send(mouse, 1) EXCEPT !.recv = "none"]
       IN Mouse(Taken, IF mouse.recv = "rate" THEN Unlocked(m, rate) ELSE m)

MouseReset ==
    /\ WriteAux /\ ppi.aux /\ mouse.recv = "none"
    /\ Mouse(Taken, [Send(mouse, 3) EXCEPT !.reporting = FALSE, !.mode = "standard", !.progress = 0])

\* send_update: at most one unit is reported per packet here, so that handle_input loops.
PacketSize(m) == IF m.mode = "intelli" THEN 4 ELSE 3

\* handle_input, on a user event: a change of a button is sent at once, movement while
\* some is left; without data reporting both stay pending.
HandleInput(moved, click) ==
    /\ Room /\ mouse.delta + moved <= MaxDelta
    /\ LET delta   == mouse.delta + moved
           updates == (IF click THEN 1 ELSE 0) + (IF click /\ delta > 0 THEN delta - 1 ELSE delta)
           m == IF mouse.reporting THEN [Send(mouse, updates * PacketSize(mouse)) EXCEPT !.delta = 0]
                ELSE [mouse EXCEPT !.delta = delta]
       IN /\ mouse' = m
          /\ lines' = IF mouse.reporting /\ updates > 0 THEN UpdateMouseIrq(m, lines) ELSE lines
    /\ UNCHANGED <<ppi, handler>>

-----------------------------------------------------------------------------
(* Controller commands (write_command), port B, and the user's keys.       *)

\* Commands that wait for data.
CommandWithData(cmd) ==
    /\ Driver
    /\ ppi' = [ppi EXCEPT !.pending = cmd]
    /\ UNCHANGED <<mouse, lines, handler>>

\* Read RAM, self test, interface test.  A command that waits for data goes on waiting.
CommandWithAnswer == Driver /\ Controller(Put(ppi, 1))

\* Enable and disable the mouse port: both clear the keyboard's buffer.
SetAux(enabled) ==
    /\ Driver
    /\ Controller([ppi EXCEPT !.aux = enabled, !.out = <<>>])

\* write_b, when the clear bit falls: the keyboard is reset or one scan code is dropped.
ClearKeyboard(reset) ==
    /\ Driver
    /\ Controller([ppi EXCEPT !.out = IF reset THEN <<"keyboard">> ELSE IF @ = <<>> THEN @ ELSE Tail(@)])

EnqueueScancode == Room /\ Controller(Put(ppi, 1))

-----------------------------------------------------------------------------
(* The guest's handler.                                                    *)

Interrupt(line) ==
    /\ ~handler /\ line \in lines
    /\ handler' = TRUE /\ lines' = lines \ {line}
    /\ UNCHANGED <<ppi, mouse>>

HandlerRead == handler /\ OutputAvailable(ppi, mouse) /\ ReadA /\ UNCHANGED handler

HandlerEnd ==
    /\ handler /\ ~OutputAvailable(ppi, mouse)
    /\ handler' = FALSE
    /\ UNCHANGED <<ppi, mouse, lines>>

\* The driver reads the data port outside its handler, whatever the status shows.
Poll == ~handler /\ ReadA /\ UNCHANGED handler

Init ==
    /\ ppi = [out |-> <<>>, pending |-> "none", parameter |-> FALSE, aux |-> TRUE,
              mustReadKeyboard |-> FALSE, a20 |-> FALSE]
    /\ mouse = [send |-> <<>>, recv |-> "none", reporting |-> FALSE, mode |-> "standard",
                progress |-> 0, delta |-> 0]
    /\ lines = {} /\ handler = FALSE

Next ==
    \/ WriteParameter
    \/ \E kind \in {"plain", "parameter", "reset"} : WriteKeyboard(kind)
    \/ WriteRam
    \/ \E a20 \in BOOLEAN : WriteP2(a20) \/ WriteSystemControlA(a20)
    \/ AuxDropped
    \/ \E n \in {1, 2, 4}, reporting \in BOOLEAN : MouseCommand(n, reporting)
    \/ \E cmd \in {"rate", "resolution"} : MouseParameterCommand(cmd)
    \/ \E rate \in {200, 100, 80} : MouseParameter(rate)
    \/ MouseReset
    \/ \E moved \in 0 .. MaxDelta, click \in BOOLEAN : HandleInput(moved, click)
    \/ \E cmd \in {"ram", "p2", "aux"} : CommandWithData(cmd)
    \/ CommandWithAnswer
    \/ \E enabled \in BOOLEAN : SetAux(enabled)
    \/ \E reset \in BOOLEAN : ClearKeyboard(reset)
    \/ EnqueueScancode
    \/ \E line \in {"keyboard", "mouse"} : Interrupt(line)
    \/ HandlerRead
    \/ HandlerEnd
    \/ Poll

Spec == Init /\ [][Next]_ppiVars

-----------------------------------------------------------------------------
\* A byte waits unnoticed: it is visible, no handler runs and the interrupt of the device
\* it comes from is not pending.
Visible(line) ==
    IF line = "keyboard" THEN ppi.out # <<>> ELSE mouse.send # <<>> /\ ppi.aux
Stranded(line) == Visible(line) /\ ~handler /\ line \notin lines

\* No step strands a byte, neither of the keyboard nor of the mouse, but one: enabling
\* the mouse port while the mouse has bytes to send makes them visible without a pulse
\* (update_irq in ppi/mod.rs and ppi/mouse.rs).  A byte stranded otherwise leaves the
\* keyboard or the mouse dead until the next key or movement.
NoByteStranded ==
    [][\A line \in {"keyboard", "mouse"} :
         Stranded(line)' /\ ~Stranded(line) => line = "mouse" /\ ~ppi.aux /\ ppi'.aux]_ppiVars
=============================================================================

------------------------------- MODULE MCCore -------------------------------
(***************************************************************************)
(* Instances of the core of the emulator: the INTR line, the memory with   *)
(* its traps, interrupt entry and return, and the video memory.  As in     *)
(* MCDevices, each behaviour is one of the component `focus`.              *)
(***************************************************************************)
EXTENDS Intr, Memory, TLC

VARIABLES
    focus,             \* the component that runs
    a, b, c, d, e, f   \* the state of the interrupts or the video memory

others == <<a, b, c, d, e, f>>
all == <<focus, vars, memVars, others>>
Off == "off"

-----------------------------------------------------------------------------
(* Two frames of RAM and one of a device; pages of two bytes, so that a    *)
(* write of two bytes can cross; A20 wraps after the first frame.  The     *)
(* device's frame is page 1 of its memory area: RAM has that offset too.   *)

Leaf(n, w, u) == [present |-> TRUE, frame |-> n, w |-> w, u |-> u, a |-> FALSE, d |-> FALSE]
Dir(big) == [present |-> TRUE, pdpe |-> ~big, w |-> TRUE, u |-> TRUE, big |-> big, a |-> FALSE, d |-> FALSE]
Cr(pg, wp, pse, pae) == [paging |-> pg, wp |-> wp, pse |-> pse, pae |-> pae]
Map(kind) == [n \in 0 .. 2 |-> IF n = 2 THEN kind ELSE "default"]

MCLeaves ==
    {[Leaf(0, FALSE, FALSE) EXCEPT !.present = FALSE],
     Leaf(0, TRUE, TRUE), Leaf(1, FALSE, TRUE), Leaf(2, TRUE, FALSE)}
MCCrs ==
    {Cr(FALSE, FALSE, FALSE, FALSE), Cr(TRUE, TRUE, FALSE, FALSE),
     Cr(TRUE, FALSE, TRUE, FALSE), Cr(TRUE, TRUE, FALSE, TRUE)}
MCBoots ==
    {[cpu |-> [a20 |-> r.paging] @@ r, map |-> Map("shm"),
      tables |-> [dir |-> Dir(r.pse), leaf |-> 0 :> Leaf(0, TRUE, TRUE) @@ 1 :> Leaf(2, TRUE, FALSE)]] :
     r \in MCCrs}

MCShmPage == -1
MCDirs == {Dir(FALSE), Dir(TRUE)}
MCMaps == {Map("shm"), Map("rom"), Map("mmio")}
MCAccesses == {<<0, 2>>, <<1, 2>>, <<2, 1>>}

-----------------------------------------------------------------------------
(* Descriptors: kernel code and data, user code and data of 32 and of 16   *)
(* bits, conforming code.  A word has five bits.  Programs: real mode with *)
(* a stack that wraps, kernel, user of both widths, virtual 8086 mode with *)
(* and without the right to software interrupts.                           *)

Desc(dpl, big, base, code) ==
    [dpl |-> dpl, big |-> big, base |-> base, code |-> code, conforming |-> FALSE]
MCGdt ==
    (0 :> Desc(0, FALSE, 0, FALSE)) @@ (1 :> Desc(0, TRUE, 0, TRUE)) @@ (2 :> Desc(0, TRUE, 0, FALSE))
    @@ (3 :> Desc(3, TRUE, 0, TRUE)) @@ (4 :> Desc(3, TRUE, 0, FALSE))
    @@ (5 :> Desc(3, FALSE, 500, TRUE)) @@ (6 :> Desc(3, FALSE, 500, FALSE))
    @@ (7 :> [Desc(0, TRUE, 0, TRUE) EXCEPT !.conforming = TRUE])
MCGates ==
    [v \in {3, 8, 11, 13, 14} |->
        [dpl |-> IF v = 3 THEN 3 ELSE 0, sel |-> 4, ip |-> v, trap |-> v = 3]]
MCEvents ==
    {[kind |-> "hardware", vector |-> 8, code |-> FALSE, fault |-> FALSE],
     [kind |-> "soft", vector |-> 3, code |-> FALSE, fault |-> FALSE],
     [kind |-> "soft", vector |-> 8, code |-> FALSE, fault |-> FALSE],
     [kind |-> "exception", vector |-> 14, code |-> TRUE, fault |-> TRUE]}
Seg(sel, big, base) == [sel |-> sel, big |-> big, base |-> base]
Program(pm, vm, cpl, iopl, cs, ss, sp) ==
    [pm |-> pm, vm |-> vm, cpl |-> cpl, iopl |-> iopl, if |-> TRUE, rf |-> FALSE, status |-> TRUE,
     op |-> cs.big, cs |-> cs, ss |-> ss, ip |-> 1, sp |-> sp, segs |-> <<1, 2, 3, 6>>]
RealCs == Seg(6, FALSE, 1024 + 6 * 32)
RealSs == Seg(7, FALSE, 1024 + 7 * 32)
MCPrograms ==
    {Program(FALSE, FALSE, 0, 0, RealCs, RealSs, 2),
     Program(TRUE, FALSE, 0, 0, Seg(4, TRUE, 0), Seg(8, TRUE, 0), 90),
     Program(TRUE, FALSE, 3, 0, Seg(15, TRUE, 0), Seg(19, TRUE, 0), 200),
     Program(TRUE, FALSE, 3, 3, Seg(23, FALSE, 500), Seg(27, FALSE, 500), 130),
     Program(TRUE, TRUE, 3, 3, RealCs, RealSs, 129),
     Program(TRUE, TRUE, 3, 0, RealCs, RealSs, 3)}

I == INSTANCE Interrupts WITH
         core <- a, mem <- b, absent <- c, saved <- d,
         W <- 32, Gdt <- MCGdt, Gates <- MCGates, Ivt <- [v \in {3, 8, 14} |-> [cs |-> 5, ip |-> v]],
         Tss <- 0 :> [sp |-> 96, ss |-> 8], Events <- MCEvents, Sites <- {1, 3}, Calls <- {9, 15, 23, 31},
         Unloadable <- {4, 5}, Boots <- MCPrograms, MaxDepth <- 2
V == INSTANCE VideoMemory WITH
         vcpu <- a, disp <- b, frame <- c, written <- d, shown <- e, invalid <- f,
         MaxWrites <- 2

-----------------------------------------------------------------------------
MemoryOff == MemInit /\ ~cpu.paging
OthersOff == a = Off /\ b = Off /\ c = Off /\ d = Off /\ e = Off /\ f = Off

CoreInit ==
    /\ Init
    /\ \/ focus = "intr" /\ MemoryOff /\ OthersOff
       \/ focus = "memory" /\ MemInit /\ OthersOff
       \/ focus = "interrupts" /\ MemoryOff /\ I!IntInit /\ e = Off /\ f = Off
       \/ focus = "video" /\ MemoryOff /\ V!VideoInit

CoreNext ==
    \/ focus = "intr" /\ Next /\ UNCHANGED <<focus, memVars, others>>
    \/ focus = "memory" /\ MemNext /\ UNCHANGED <<focus, vars, others>>
    \/ focus = "interrupts" /\ I!IntNext /\ UNCHANGED <<focus, vars, memVars, e, f>>
    \/ focus = "video" /\ V!VideoNext /\ UNCHANGED <<focus, vars, memVars>>

CoreSpec ==
    /\ CoreInit /\ [][CoreNext]_all
    /\ Fairness
    /\ WF_all(focus = "video" /\ V!DisplayStep /\ UNCHANGED <<focus, vars, memVars>>)
    /\ WF_all(focus = "video" /\ V!TimerDue /\ UNCHANGED <<focus, vars, memVars>>)

-----------------------------------------------------------------------------
\* A program that was interrupted goes on as if nothing had happened.
RoundTrip == [][focus = "interrupts" => I!ResumesOnReturn]_all
\* Every write to video memory reaches the screen.
EventuallyShown == \A k \in 1 .. 2 : (focus = "video" /\ d >= k) ~> (focus = "video" /\ e >= k)
=============================================================================

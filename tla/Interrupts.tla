----------------------------- MODULE Interrupts -----------------------------
(***************************************************************************)
(* Entering an interrupt and returning from it (enter_interrupt and iret   *)
(* of emulator/mod.rs) in real mode, in protected mode with and without a  *)
(* change of privilege, and from virtual 8086 mode.                        *)
(*                                                                         *)
(* A word (16 bits) is a number below W, and memory and stack pointers     *)
(* count words: what is pushed is split and truncated as in the code.  The *)
(* flags are IF, IOPL, RF, VM and one that stands for the arithmetic ones. *)
(* CR2, the accessed bits of descriptors and the trace are left out.       *)
(***************************************************************************)
EXTENDS Integers, Sequences, TLC
LOCAL INSTANCE SequencesExt

CONSTANTS
    W,           \* values of a word (2^16)
    Gdt,         \* index -> [dpl, big, base, code, conforming] of a descriptor
    Gates,       \* vector -> [dpl, sel, ip, trap] of the IDT
    Ivt,         \* vector -> [cs, ip] of real mode
    Tss,         \* privilege level -> [sp, ss]
    Events,      \* the interrupts that happen: [kind, vector, code, fault]
    Sites,       \* addresses of INT instructions
    Calls,       \* selectors the guest calls its own interrupt handlers at
    Unloadable,  \* indices of descriptors the guest unloads
    Boots,       \* contexts of the interrupted program
    MaxDepth     \* bound: frames under way

VARIABLES
    core,    \* the registers
    mem,     \* the words of the stacks that were written
    absent,  \* descriptors that are not present
    saved    \* history: the contexts the frames on the stacks stand for

intVars == <<core, mem, absent, saved>>

\* A selector: an index and, in the lowest two bits, a privilege level.
Index(sel) == sel \div 4
Rpl(sel)   == sel % 4

-----------------------------------------------------------------------------
(* The stack transaction.                                                  *)

Mask(t)  == IF t.big THEN W * W ELSE W
Width(t) == IF t.op THEN 2 ELSE 1

\* The stack pointer after n words are taken off, or put on if n < 0.
Moved(t, n) == (t.esp - (t.esp % Mask(t))) + ((t.esp + n) % Mask(t))

Begin(c, op) == [esp |-> c.sp, base |-> c.ss.base, big |-> c.ss.big, op |-> op, mem |-> mem]

Push(t, v) ==
    LET esp == Moved(t, -Width(t))
        at  == t.base + (esp % Mask(t))
        high == IF t.op THEN (at + 1) :> ((v \div W) % W) ELSE <<>>
    IN  [t EXCEPT !.esp = esp, !.mem = (at :> (v % W)) @@ high @@ @]

\* The value the (n+1)th pop returns
Popped(t, n) ==
    LET at == t.base + (Moved(t, n * Width(t)) % Mask(t))
        Word(a) == IF a \in DOMAIN t.mem THEN t.mem[a] ELSE 0
    IN  Word(at) + IF t.op THEN W * Word(at + 1) ELSE 0

-----------------------------------------------------------------------------
(* Flags and segments.                                                     *)

Bit(b, v)   == IF b THEN v ELSE 0
IsSet(f, v) == (f \div v) % 2 = 1

pack_flags(c) == Bit(c.status, 1) + Bit(c.if, 2) + 4 * c.iopl + Bit(c.rf, W) + Bit(c.vm, 2 * W)

unpack_flags(c, f, upper, from_vm) ==
    [c EXCEPT !.status = IsSet(f, 1),
              !.if     = IsSet(f, 2),
              !.iopl   = IF from_vm THEN @ ELSE (f \div 4) % 4,
              !.rf     = IF upper THEN IsSet(f, W) ELSE @,
              !.vm     = IF upper /\ ~from_vm THEN IsSet(f, 2 * W) ELSE @]

UsesDescriptors(c) == c.pm /\ ~c.vm

\* prepare_segment fails
Missing(c, sel) ==
    UsesDescriptors(c) /\ (Index(sel) \notin DOMAIN Gdt \/ Index(sel) \in absent)

\* prepare_segment: the selector with what is cached of its descriptor
Segment(c, sel) ==
    IF UsesDescriptors(c)
    THEN [sel |-> sel, big |-> Gdt[Index(sel)].big, base |-> Gdt[Index(sel)].base]
    ELSE [sel |-> sel, big |-> FALSE, base |-> W * W + W * sel]

\* PreparedSegment::commit of CS
CommitCs(c, sel) ==
    LET s == Segment(c, sel) IN
    IF UsesDescriptors(c)
    THEN [c EXCEPT !.cs = s, !.op = s.big, !.cpl = Rpl(sel)]
    ELSE [c EXCEPT !.cs = s]

\* HANDLER_CS_UPDATED, after an instruction has loaded CS
CsUpdated(c) ==
    [c EXCEPT !.op  = UsesDescriptors(c) /\ c.cs.big,
              !.cpl = IF c.vm THEN 3 ELSE IF c.pm THEN Rpl(c.cs.sel) ELSE 0]

-----------------------------------------------------------------------------
(* enter_interrupt.  The gates and the TSS name descriptors that stay      *)
(* present (none is Unloadable): the code panics or half-fails otherwise.  *)

\* A software interrupt whose gate the program may not use
Denied(c, e) == c.pm /\ e.kind = "soft" /\ Gates[e.vector].dpl < c.cpl

\* Faults set RF, so that the instruction is restarted with it.
WithRf(c, e) == [c EXCEPT !.rf = @ \/ e.fault]

ReturnIp(c, e) == c.ip + IF e.kind = "soft" THEN 1 ELSE 0

\* The gate: out of virtual 8086 mode, to the stack of the new level, into CS.
ThroughGate(c, e) ==
    LET g     == Gates[e.vector]
        out   == [c EXCEPT !.vm = FALSE]
        inner == Gdt[Index(g.sel)].dpl < c.cpl
        top   == Tss[Rpl(g.sel)]
        onto  == IF inner THEN [out EXCEPT !.sp = top.sp, !.ss = Segment(out, top.ss)] ELSE out
        into  == CommitCs([onto EXCEPT !.ip = g.ip], g.sel)
    IN  [into EXCEPT !.if = @ /\ g.trap, !.rf = FALSE, !.segs = IF c.vm THEN <<0, 0, 0, 0>> ELSE @]

ThroughIvt(c, e) ==
    LET v == Ivt[e.vector] IN
    [CommitCs([c EXCEPT !.ip = v.ip], v.cs) EXCEPT !.if = FALSE, !.rf = FALSE]

\* Fault: the old stack pointer is read after the switch.
FrameOfNew(c, new, e) ==
    (IF c.vm THEN Reverse(c.segs) ELSE <<>>)
    \o (IF c.vm \/ (c.pm /\ Gdt[Index(Gates[e.vector].sel)].dpl < c.cpl) THEN <<c.ss.sel, new.sp>> ELSE <<>>)
    \o <<pack_flags(c), c.cs.sel, ReturnIp(c, e)>>

\* What is pushed, in this order; segs is <<ES, DS, FS, GS>>.
Frame(c, new, e) ==
    (IF c.vm THEN Reverse(c.segs) ELSE <<>>)
    \o (IF c.vm \/ (c.pm /\ Gdt[Index(Gates[e.vector].sel)].dpl < c.cpl) THEN <<c.ss.sel, c.sp>> ELSE <<>>)
    \o <<pack_flags(c), c.cs.sel, ReturnIp(c, e)>>

\* Registers and memory in the handler, and the frame the handler returns through.
Enter(c, e) ==
    LET old  == WithRf(c, e)
        new  == IF c.pm THEN ThroughGate(old, e) ELSE ThroughIvt(old, e)
        full == FoldLeft(Push, Begin(new, new.op), Frame(old, new, e))
        top  == IF e.code /\ c.pm THEN Push(full, 0) ELSE full
    IN  [core |-> [new EXCEPT !.sp = top.esp], mem |-> top.mem,
         saved |-> [core |-> [old EXCEPT !.ip = ReturnIp(c, e)], frame |-> full.esp, live |-> DOMAIN mem]]

Protection == [kind |-> "exception", vector |-> 13, code |-> TRUE, fault |-> TRUE]
NotPresent == [kind |-> "exception", vector |-> 11, code |-> TRUE, fault |-> TRUE]

-----------------------------------------------------------------------------
(* iret.  The flags change before the checks.                              *)

WrongLevel(d, cs) == ~d.code \/ IF d.conforming THEN d.dpl > Rpl(cs) ELSE d.dpl # Rpl(cs)

Iret(c, op) ==
    LET t     == Begin(c, op)
        upper == c.pm /\ op /\ ~c.vm
        cs    == Popped(t, 1) % W
        f     == unpack_flags([c EXCEPT !.op = op], Popped(t, 2), upper, c.vm)
        toVm  == c.pm /\ ~c.vm /\ f.vm
        flat  == UsesDescriptors(f)
        outer == flat /\ Rpl(cs) > c.cpl
        ss    == Popped(t, 4) % W
        sp    == Popped(t, 3)
        n     == IF toVm THEN 9 ELSE IF outer THEN 5 ELSE 3
        back  == CommitCs(f, cs)
        stack == Segment(f, ss)
        fault == IF ~flat THEN "none"
                 ELSE IF Index(cs) = 0 \/ Rpl(cs) < c.cpl THEN "protection"
                 ELSE IF Index(cs) \notin DOMAIN Gdt THEN "absent"
                 ELSE IF WrongLevel(Gdt[Index(cs)], cs) THEN "protection"
                 ELSE IF outer /\ (Index(ss) = 0 \/ Rpl(ss) # Rpl(cs)) THEN "protection"
                 ELSE IF Missing(f, cs) \/ (outer /\ Missing(f, ss)) THEN "absent"
                 ELSE "none"
    IN  [fault |-> fault,
         core  |->
            IF fault # "none" THEN f
            ELSE [back EXCEPT
                    !.ip = Popped(t, 0),
                    !.sp = IF toVm THEN sp % W
                           ELSE IF outer THEN IF stack.big THEN sp ELSE (sp % W) + (c.sp - (c.sp % W))
                           ELSE Moved(t, n * Width(t)),
                    !.ss = IF toVm \/ outer THEN stack ELSE @,
                    !.cpl = IF toVm THEN 3 ELSE @,
                    !.segs = IF toVm THEN [i \in 1 .. 4 |-> Popped(t, 4 + i) % W] ELSE @]]

-----------------------------------------------------------------------------
IntInit ==
    /\ core \in Boots
    /\ mem = <<>> /\ absent = {} /\ saved = <<>>

Entered(c, e) ==
    LET r == Enter(c, e) IN
    /\ Len(saved) < MaxDepth
    /\ core' = r.core /\ mem' = r.mem /\ saved' = Append(saved, r.saved)
    /\ UNCHANGED absent

(* HANDLER_INT refuses in virtual 8086 mode with IOPL < 3; enter_interrupt *)
(* refuses by the gate.  The run loop then enters the protection fault.    *)
Refused(e) == e.kind = "soft" /\ ((core.vm /\ core.iopl < 3) \/ Denied(core, e))

Interrupt(e) ==
    /\ e.kind = "hardware" => core.if
    /\ e.kind = "soft" => core.ip \in Sites
    /\ Entered(core, IF Refused(e) THEN Protection ELSE e)

(* The guest calls a handler as an interrupt would: it pushes its flags    *)
(* and makes a far call.                                                   *)
CallHandler(sel) ==
    LET t == FoldLeft(Push, Begin(core, core.cs.big), <<pack_flags(core), core.cs.sel, core.ip>>)
        s == Segment(core, sel)
    IN  /\ Len(saved) < MaxDepth
        /\ UsesDescriptors(core) => Rpl(sel) = core.cpl /\ s.big = core.cs.big
        /\ ~Missing(core, sel)
        /\ core' = CsUpdated([core EXCEPT !.sp = t.esp, !.ip = 0, !.cs = s])
        /\ mem' = t.mem
        /\ saved' = Append(saved, [core |-> core, frame |-> t.esp, live |-> DOMAIN mem])
        /\ UNCHANGED absent

(* HANDLER_IRET.  The handler has taken the error code and whatever it     *)
(* pushed itself off the stack; the width is the one of its code segment.  *)
(* The words of the frame are dead afterwards and forgotten.               *)
Return ==
    /\ saved # <<>>
    /\ LET c == [core EXCEPT !.sp = Last(saved).frame]
           r == Iret(c, core.cs.big)
       IN  \/ /\ r.fault = "none"
              /\ core' = r.core /\ saved' = Front(saved)
              /\ mem' = [a \in Last(saved).live |-> mem[a]]
              /\ UNCHANGED absent
           \/ /\ r.fault # "none"
              /\ Entered(r.core, IF r.fault = "absent" THEN NotPresent ELSE Protection)

\* The rest of the guest: IF, data segments, and descriptors that come and go.
SetIf(b) ==
    /\ saved # <<>> /\ (core.pm => core.cpl <= core.iopl)
    /\ core' = [core EXCEPT !.if = b]
    /\ UNCHANGED <<mem, absent, saved>>

LoadSegments(n) ==
    /\ saved # <<>> /\ UsesDescriptors(core)
    /\ core' = [core EXCEPT !.segs = <<n, n, n, n>>]
    /\ UNCHANGED <<mem, absent, saved>>

Load(i) ==
    /\ core.cpl = 0
    /\ absent' = IF i \in absent THEN absent \ {i} ELSE absent \cup {i}
    /\ UNCHANGED <<core, mem, saved>>

IntNext ==
    \/ \E e \in Events : Interrupt(e)
    \/ \E s \in Calls : CallHandler(s)
    \/ Return
    \/ \E b \in BOOLEAN : SetIf(b)
    \/ \E n \in {Tss[0].ss} : LoadSegments(n)
    \/ \E i \in Unloadable : Load(i)

IntSpec == IntInit /\ [][IntNext]_intVars

-----------------------------------------------------------------------------
(* A program that was interrupted goes on as if nothing had happened, also *)
(* after nested interrupts and after a return that faulted and was tried   *)
(* again: the registers of the frame are back.  Not promised: the upper    *)
(* half of ESP on a 16-bit stack, RF where the frame is of 16 bits, and    *)
(* data segments outside virtual 8086 mode, which handlers save.           *)
Resumed(new, old, wide) ==
    /\ new.cs = old.cs /\ new.ip = old.ip /\ new.ss = old.ss
    /\ new.sp % W = old.sp % W
    /\ old.ss.big => new.sp = old.sp
    /\ new.if = old.if /\ new.iopl = old.iopl /\ new.status = old.status
    /\ new.vm = old.vm /\ new.cpl = old.cpl
    /\ wide => new.rf = old.rf
    /\ old.vm => new.segs = old.segs

ResumesOnReturn ==
    Len(saved') < Len(saved) => Resumed(core', Last(saved).core, core.pm /\ core.cs.big)

RoundTrip == [][ResumesOnReturn]_intVars
=============================================================================

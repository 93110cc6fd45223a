------------------------------- MODULE MCCode -------------------------------
(***************************************************************************)
(* The instruction cache, its mapping tracker and the compiler behind it.  *)
(* The models share no state, so each behaviour is one of the component    *)
(* `focus` and the others stay as they are at the start: together the      *)
(* behaviours are all the behaviours of each component.                    *)
(***************************************************************************)
EXTENDS MCInstrCache, MappingTracker, Mir, ValTree

VARIABLE focus

-----------------------------------------------------------------------------
(* Calls of the builder of values.                                         *)

MCInput(v, seed) ==
    [defs |-> <<>>, vars |-> <<v>>, parts |-> v % 4, mem |-> [i \in 0 .. 5 |-> (seed \div 4 ^ i) % 4]]
MCInputs == {MCInput(0, 3651), MCInput(255, 1500), MCInput(180, 27), MCInput(75, 2457), MCInput(1, 0), MCInput(128, 4095)}

First(op, o)  == [op |-> op, other |-> o, first |-> TRUE]
Second(op, o) == [op |-> op, other |-> o, first |-> FALSE]
Cut(s, t)     == [skip |-> s, take |-> t]
Mix(o, s, l, first) == [other |-> o, start |-> s, len |-> l, first |-> first]
NoCalls ==
    [leaves |-> {Var(1), LoadImm(0, 4)}, binops |-> {}, unops |-> {}, extracts |-> {}, combines |-> {},
     ites |-> {}, keep |-> FALSE, assume |-> FALSE]

Sums == [NoCalls EXCEPT
    !.leaves = {Var(1), LoadImm(0, 4), Ext(Var(1), 2, 4)}
               \cup {Ext(Bin(op, Var(1), Const(n)), 0, 4) : op \in {"Add", "Sub"}, n \in {1, 241}},
    !.binops = {First(op, Const(n)) : op \in {"Add", "Sub"}, n \in {3, 241}}
               \cup {First(op, Kept) : op \in {"Add", "Sub", "CmpEq"}}
               \cup {Second("Add", Const(5)), Second("Sub", Const(5)), First("Mul", Const(0))},
    !.extracts = {Cut(0, 4), Cut(2, 4), Cut(0, 2)},
    !.keep = TRUE]
Masks == [NoCalls EXCEPT
    !.binops = {First("And", Const(n)) : n \in {15, 60, 90}} \cup {Second("And", Const(n)) : n \in {15, 60}}
               \cup {First("Or", Const(n)) : n \in {6, 240}} \cup {First("Shl", Const(n)) : n \in {2, 3}}
               \cup {First("Xor", Const(85)), First("Shr", Const(3)), Second("Xor", LoadImm(0, 4)), First("Or", Var(1))},
    !.extracts = {Cut(0, 4), Cut(2, 4), Cut(3, 5)}]
Mixes == [NoCalls EXCEPT
    !.leaves = {Var(1), LoadImm(0, 4), LoadImm(0, 1), Const(0)},
    !.binops = {First("And", Const(60)), First("Add", Var(1)), Second("And", Const(31)), Second("Or", LoadImm(1, 4))},
    !.extracts = {Cut(0, 4), Cut(2, 3)},
    !.combines = {Mix(o, s[1], s[2], first) :
                    o \in {LoadImm(0, 4), Kept, Const(117)}, s \in {<<0, 1>>, <<1, 1>>, <<0, 2>>}, first \in BOOLEAN},
    !.keep = TRUE]
Conditionals == [NoCalls EXCEPT
    !.leaves = {Var(1), LoadImm(0, 1)},
    !.binops = {First("And", Const(6)), Second("CmpEq", Kept), First("Shl", Const(1))},
    !.unops = {[op |-> "IsZero", n |-> 0], [op |-> "SelectBit", n |-> 3], [op |-> "Parity", n |-> 0],
               [op |-> "SignExtend", n |-> 4]},
    !.extracts = {Cut(0, 2), Cut(1, 2)},
    !.ites = [cond : {Var(1), LoadImm(0, 1)}, other : {Kept, Const(9)}, first : BOOLEAN],
    !.keep = TRUE, !.assume = TRUE]
Loads == [NoCalls EXCEPT
    !.leaves = {LoadImm(0, 3), LoadImm(1, 4), Load(Ext(Parts, 0, 1), 4), Load(Ext(Parts, 0, 1), 2)},
    !.binops = {First("And", Const(n)) : n \in {15, 240, 95, 63}} \cup {First("Shr", Const(2))},
    !.extracts = {Cut(s, t) : s \in {0, 1, 2, 4}, t \in {2, 4}} \cup {Cut(0, 6), Cut(0, 8), Cut(2, 6)},
    !.combines = {Mix(Const(117), 0, 2, TRUE), Mix(Var(1), 0, 3, TRUE), Mix(Var(1), 1, 1, TRUE), Mix(Var(1), 0, 1, FALSE)}]
MCFamilies == {Sums, Masks, Mixes, Conditionals, Loads}

-----------------------------------------------------------------------------
(* Programs over the registers a, b, f (flags) and ip.                     *)

MCOrder == <<"a", "b", "f", "ip">>
MCLayout == [a |-> [offset |-> 0, size |-> 2], b |-> [offset |-> 2, size |-> 2],
             f |-> [offset |-> 4, size |-> 2], ip |-> [offset |-> 6, size |-> 4]]

Cpu(bytes, parts, fails) ==
    [mem |-> [i \in 0 .. 9 |-> IF i < Len(bytes) THEN bytes[i + 1] ELSE 0], parts |-> parts, defs |-> <<>>,
     vars |-> <<>>, fails |-> fails, input |-> 6, raised |-> "no", ports |-> <<>>]
MCCpus == {Cpu(<<>>, 0, FALSE), Cpu(<<3, 1, 2, 3, 0, 1>>, 1, FALSE),
           Cpu(<<1, 1, 0, 2, 1, 3, 2, 1>>, 2, FALSE), Cpu(<<0, 0, 2, 2, 2, 1, 3, 2>>, 3, TRUE)}

Whole2(r) == [k |-> "reg", r |-> r, start |-> 0, len |-> 2]
Lo(r)     == [k |-> "reg", r |-> r, start |-> 0, len |-> 1]
Hi(r)     == [k |-> "reg", r |-> r, start |-> 1, len |-> 1]
A == Whole2("a")
B == Whole2("b")
Tmp   == [k |-> "tmp", n |-> 1]
N(n)  == [k |-> "const", n |-> n]
AB == <<"a", "b">>
BA == <<"b", "a">>
BF == <<"b", "f">>
\* The register among cs that bit p of the operands chooses.
Of(cs, p, len, front) ==
    [k |-> "dyn", choices |-> cs, index |-> [k |-> "part", start |-> p, len |-> 1],
     start |-> 0, len |-> len, front |-> front]

Op(to, op, args) == [c |-> "store", to |-> to, op |-> op, args |-> args]
Mov(to, o)       == Op(to, "Id", <<o>>)
If(c, z, n)      == [c |-> "if", cond |-> c, zero |-> z, nonzero |-> n]
Exc     == [c |-> "exception"]
Call(o) == [c |-> "handler", arg |-> o]
In(p, to)  == [c |-> "in", port |-> p, to |-> to]
Plain(cmds)  == [cmds |-> cmds, len |-> 1, big |-> FALSE, jump |-> [kind |-> "sequential"]]
Near(cmds, big, cond) ==
    [cmds |-> cmds, len |-> 1, big |-> big, jump |-> [kind |-> "near", cond |-> cond, offset |-> N(3)]]
Rep(cmds, cond) == [cmds |-> cmds, len |-> 1, big |-> FALSE, jump |-> [kind |-> "repeat", cond |-> cond]]
UpTo1(S) == {<<>>} \cup {<<x>> : x \in S}

\* Registers and their bytes under fixed and dynamic names.
AliasMoves ==
    {Mov(A, B), Mov(Lo("a"), N(2)), Op(B, "Add", <<A, N(3)>>), In(A, B),
     Mov(Of(AB, 0, 2, FALSE), A), Mov(Of(BA, 1, 2, TRUE), N(5)), Mov(Of(AB, 1, 1, FALSE), Lo("b")),
     Mov(Of(BF, 1, 2, FALSE), A), Op(Lo("f"), "IsZero", <<Of(BA, 0, 2, FALSE)>>)}
Aliases == {<<Plain(<<x, y>>)>> : x \in AliasMoves, y \in AliasMoves}

\* A condition before or after another command, with exceptions and port reads.
Moves == {Mov(A, B), Op(Lo("b"), "Add", <<A, N(3)>>), Mov(Tmp, A), Mov(Of(AB, 0, 2, FALSE), Tmp),
          Mov(Lo("f"), Tmp), In(A, Tmp)}
Ifs == {If(c, z, n) : c \in {Lo("f"), A}, z \in UpTo1(Moves \cup {Exc}),
                      n \in UpTo1({Mov(A, B), Mov(Of(AB, 0, 2, FALSE), Tmp), Exc})}
Branches == UNION {{<<Plain(<<x, y>>)>>, <<Plain(<<y, x>>)>>} : x \in Moves, y \in Ifs}
Jumps    == UNION {{<<Near(<<y, x>>, FALSE, Lo("f"))>>, <<Near(<<x, y>>, TRUE, Tmp)>>} :
                      x \in {Mov(A, B), Mov(Tmp, A)}, y \in Ifs}
Twice    == {<<Plain(<<x, If(Lo("f"), z, n)>>)>> :
                x \in Ifs, z \in UpTo1({Mov(A, N(1)), Exc}), n \in UpTo1({Mov(A, N(2))})}

\* A register is read, written on all paths, and what was read is used on one.
Swaps == UNION {{<<Plain(cmds)>>, <<Near(cmds, FALSE, Tmp)>>} : cmds \in
            {<<Mov(Tmp, x), Mov(y, Lo("b")), If(c, <<Mov(w, Tmp)>>, <<>>)>> :
                x \in {A, Of(AB, 0, 2, FALSE), Whole2("f"), Hi("f")}, y \in {Lo("a"), A, Hi("f")},
                c \in {Lo("f"), Tmp, B}, w \in {B, Lo("f")}}}

\* Exceptions and port reads after other instructions.
Middles == {Plain(<<Mov(A, B)>>), Plain(<<In(A, B)>>), Plain(<<If(A, <<Exc>>, <<Mov(A, B)>>)>>),
            Plain(<<Mov(Of(BA, 1, 2, FALSE), N(1)), If(Lo("f"), <<Call(B)>>, <<>>)>>)}
Lasts   == {Plain(<<Mov(Of(AB, 0, 2, FALSE), N(3)), Exc>>), Near(<<Op(Lo("f"), "IsZero", <<A>>)>>, TRUE, Lo("f")),
            Rep(<<Op(A, "Add", <<A, N(255)>>), If(Lo("f"), <<>>, <<Mov(B, A)>>)>>, A)}
Sequences == Middles \X Lasts \cup Middles \X Middles \X Lasts

MCPrograms == Aliases \cup Branches \cup Jumps \cup Twice \cup Swaps \cup Sequences

\* Two operands, each with an exception if its register is empty, unless that is
\* masked: FADD of two registers of the x87 stack (semgen/src/instrs/fpu/mod.rs).
Operand2(empty) == If(empty, <<>>, <<If(Lo("f"), <<Exc>>, <<>>)>>)
MCTwoOperands == {<<Plain(<<Operand2(A), Operand2(B)>>)>>}
\* The second register is empty and nothing is masked.
MCOneEmpty == {Cpu(<<0, 0, 1>>, 0, FALSE)}

-----------------------------------------------------------------------------

Off == "off"
MirOff  == prog = Off /\ count = Off /\ b = Off /\ ref = Off /\ stage = Off
TreeOff == fam = Off /\ val = Off /\ kept = Off /\ want = Off /\ live = Off /\ calls = Off

ASSUME MappingConstants == MappingAssumption

\* At power-on the tracker has no mapping.
MapOff  == MapInit /\ table = [p \in Pages |-> NoFrame]

CodeInit ==
    /\ Init
    /\ \/ focus = "cache" /\ MapOff /\ MirOff /\ TreeOff
       \/ focus = "mapping" /\ MapInit /\ MirOff /\ TreeOff
       \/ focus = "values" /\ TreeInit /\ MapOff /\ MirOff
       \/ focus = "code" /\ MirInit /\ MapOff /\ TreeOff

Compiled == (focus = "values" /\ calls = MaxCalls) \/ (focus = "code" /\ stage = "committed")

CodeNext ==
    \/ focus = "cache" /\ Next /\ UNCHANGED <<focus, mapVars, mirVars, treeVars>>
    \/ focus = "mapping" /\ MapNext /\ UNCHANGED <<focus, vars, mirVars, treeVars>>
    \/ focus = "values" /\ TreeNext /\ UNCHANGED <<focus, vars, mapVars, mirVars>>
    \/ focus = "code" /\ MirNext /\ UNCHANGED <<focus, vars, mapVars, treeVars>>
    \/ Compiled /\ UNCHANGED <<focus, vars, mapVars, mirVars, treeVars>>

CodeSpec == CodeInit /\ [][CodeNext]_<<focus, vars, mapVars, mirVars, treeVars>>

-----------------------------------------------------------------------------
(* The properties of the components.                                       *)

\* Values compute what was asked for, and slices are flat.
ValuesExact == focus = "values" => ValueExact /\ SlicesFlat
\* Compiled code does what the instructions do.
CompiledExact == focus = "code" => CodeExact
\* The graph and its dominators are what the optimisations take them for.
GraphExact == focus = "code" => BuilderSane /\ DominatorsExact
=============================================================================

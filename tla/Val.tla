-------------------------------- MODULE Val --------------------------------
(***************************************************************************)
(* The values of the middle representation (codegen/mir/val.rs): terms     *)
(* over constants, variables and the fields of the CPU structure, which    *)
(* the builder simplifies while it makes them.                             *)
(*                                                                         *)
(* A node is a tuple that starts with its kind.  The builder gives equal   *)
(* nodes the same number, so a number is modelled by the node itself.  A   *)
(* word has W bits and a byte ByteBits, where the code has 128 and 8.      *)
(***************************************************************************)
EXTENDS Integers, FiniteSets, SequencesExt

CONSTANTS
    W,          \* bits of a word
    ByteBits,   \* bits of a byte
    Sizes,      \* sizes of a field of the CPU structure, in bytes
    OddSize     \* the size of an 80-bit field: no constant slice has it

-----------------------------------------------------------------------------
(* Arithmetic of words.                                                    *)

Word == 0 .. 2 ^ W - 1
Bits == INSTANCE Bitwise
AndTable == [a \in Word |-> [b \in Word |-> Bits!&(a, b)]]

And(a, b) == AndTable[a][b]
Or(a, b)  == a + b - AndTable[a][b]
Xor(a, b) == a + b - 2 * AndTable[a][b]
Flip(a)   == 2 ^ W - 1 - a
Wrap(n)   == n % 2 ^ W
Mask(n)   == 2 ^ n - 1
Bit(a, n) == (a \div 2 ^ n) % 2
Bool(p)   == IF p THEN 1 ELSE 0
TrailingOnes(c)  == CHOOSE n \in 0 .. W : And(c, Mask(n)) = Mask(n) /\ (n = W \/ Bit(c, n) = 0)
TrailingZeros(c) == TrailingOnes(Flip(c))
Slice(a, skip, take) == And(a \div 2 ^ skip, Mask(take))
BlendBits(a, b, mask) == Or(And(a, Flip(mask)), And(b, mask))

\* BinOp::execute and UnOp::execute of the operators that the rules know, and
\* of one that they do not know.
Execute(op, a, b) ==
    CASE op = "Add" -> Wrap(a + b)
      [] op = "Sub" -> Wrap(a - b)
      [] op = "Mul" -> Wrap(a * b)
      [] op = "Xor" -> Xor(a, b)
      [] op = "Or"  -> Or(a, b)
      [] op = "And" -> And(a, b)
      [] op = "Shl" -> Wrap(a * 2 ^ (b % W))
      [] op = "Shr" -> a \div 2 ^ (b % W)
      [] op = "CmpEq" -> Bool(a = b)
      [] op = "Div" -> IF b = 0 THEN 0 ELSE a \div b

ExecuteUn(op, n, a) ==
    CASE op = "IsZero" -> Bool(a = 0)
      [] op = "SelectBit" -> Bit(a, n)
      [] op = "SignExtend" -> IF Bit(a, n - 1) = 1 THEN Or(a, Flip(Mask(n))) ELSE Slice(a, 0, n)
      [] op = "Parity" -> (Cardinality({i \in 0 .. ByteBits - 1 : Bit(a, i) = 1}) + 1) % 2

-----------------------------------------------------------------------------
(* Nodes and what they mean.                                               *)

Const(n)         == <<"const", n>>
Var(n)           == <<"var", n>>
Parts            == <<"parts">>
Bin(op, a, b)    == <<"bin", op, a, b>>
Un(op, n, a)     == <<"un", op, n, a>>
Blend(l, r, m)   == <<"blend", l, r, m>>
Ext(v, s, t)     == <<"extract", v, s, t>>
IteNode(c, z, n) == <<"ite", c, z, n>>
Load(o, size)    == <<"load", o, size>>
LoadImm(o, size) == <<"loadimm", o, size>>

Is(kind, v)   == v[1] = kind
IsBin(op, v)  == Is("bin", v) /\ v[2] = op
IsConst(v)    == Is("const", v)
IsZero(v)     == v = Const(0)
IsLoad(v)     == Is("load", v) \/ Is("loadimm", v)
LoadBits(v)   == v[3] * ByteBits
\* Operators whose result is a single bit.
IsFlag(v)     == Is("un", v) /\ v[2] \in {"IsZero", "SelectBit", "Parity"}
\* A binary node with a constant argument: the constant and the other argument.
HasConst(v)   == IsConst(v[3]) \/ IsConst(v[4])
ConstOf(v)    == IF IsConst(v[3]) THEN v[3][2] ELSE v[4][2]
OtherOf(v)    == IF IsConst(v[3]) THEN v[4] ELSE v[3]

\* referenced_nodes
Children(v) ==
    CASE Is("bin", v) -> <<v[3], v[4]>>
      [] Is("un", v) -> <<v[4]>>
      [] Is("blend", v) -> <<v[2], v[3]>>
      [] Is("extract", v) \/ Is("load", v) -> <<v[2]>>
      [] Is("ite", v) -> <<v[2], v[3], v[4]>>
      [] OTHER -> <<>>

\* A node and all it is made of.
RECURSIVE Nodes(_)
Nodes(v) == {v} \cup UNION {Nodes(Children(v)[i]) : i \in DOMAIN Children(v)}

RECURSIVE Bytes(_, _, _)
Bytes(mem, offset, size) ==
    IF size = 0 THEN 0 ELSE mem[offset] + 2 ^ ByteBits * Bytes(mem, offset + 1, size - 1)

\* The value of a node where the variables, the CPU structure and the immediate
\* operands of the instruction are as in e.  Nodes in e.defs were computed before.
RECURSIVE Eval(_, _)
Eval(v, e) ==
    CASE v \in DOMAIN e.defs -> e.defs[v]
      [] Is("const", v)   -> v[2]
      [] Is("var", v)     -> e.vars[v[2]]
      [] Is("parts", v)   -> e.parts
      [] Is("bin", v)     -> Execute(v[2], Eval(v[3], e), Eval(v[4], e))
      [] Is("un", v)      -> ExecuteUn(v[2], v[3], Eval(v[4], e))
      [] Is("blend", v)   -> BlendBits(Eval(v[2], e), Eval(v[3], e), v[4])
      [] Is("extract", v) -> Slice(Eval(v[2], e), v[3], v[4])
      [] Is("ite", v)     -> IF Eval(v[2], e) = 0 THEN Eval(v[3], e) ELSE Eval(v[4], e)
      [] Is("load", v)    -> Bytes(e.mem, Eval(v[2], e), v[3])
      [] Is("loadimm", v) -> Bytes(e.mem, v[2], v[3])

-----------------------------------------------------------------------------
(* Equalities that hold, or fail, whatever the variables are.              *)

\* The sides are [v, offset, skip, take]: the bits skip .. skip + take - 1 of
\* v + offset.  "unknown" stands for None.
RECURSIVE SolveEquality(_, _)
SolveEquality(l, r) ==
    LET Inside(s) == [v |-> s.v[2], offset |-> 0, skip |-> s.skip + s.v[3],
                      take |-> IF s.take < s.v[4] - s.skip THEN s.take ELSE s.v[4] - s.skip]
        Known(s)   == (IsBin("Add", s.v) \/ IsBin("Sub", s.v)) /\ IsConst(s.v[4])
        Without(s) == [s EXCEPT !.v = s.v[3], !.offset = Execute(s.v[2], s.offset, s.v[4][2])]
    IN  IF l.v = r.v /\ l.skip = 0 /\ r.skip = 0 /\ l.take = r.take
        THEN IF And(l.offset, Mask(l.take)) = And(r.offset, Mask(r.take)) THEN "equal" ELSE "different"
        ELSE IF Is("extract", l.v) THEN IF l.offset # 0 THEN "unknown" ELSE SolveEquality(Inside(l), r)
        ELSE IF Is("extract", r.v) THEN IF r.offset # 0 THEN "unknown" ELSE SolveEquality(l, Inside(r))
        ELSE IF Known(l) THEN SolveEquality(Without(l), r)
        ELSE IF Known(r) THEN SolveEquality(l, Without(r))
        ELSE "unknown"

Whole(v) == [v |-> v, offset |-> 0, skip |-> 0, take |-> W]

CompareEqual(a, b) ==
    LET solved == SolveEquality(Whole(a), Whole(b))
    IN  IF solved = "unknown" THEN Bin("CmpEq", a, b) ELSE Const(Bool(solved = "equal"))
-----------------------------------------------------------------------------
(* The rules.  A rule that matches the kinds of the arguments ends the     *)
(* search, also where it then leaves the node as it is.                    *)

\* The builder takes a node of which the arguments are values, or asks to put
\* bytes or masked bits of one value into another, and gives a value.
RECURSIVE Make(_)
Binop(op, a, b)              == Make(Bin(op, a, b))
Extract(v, skip, take)       == Make(Ext(v, skip, take))
Combine(old, new, start, len) == Make(<<"combine", old, new, start, len>>)
CombineMask(old, new, mask)  == Make(<<"mask", old, new, mask>>)

AddRule(a, b) ==
    LET c == b[2]
    IN  CASE IsZero(a) -> b
          [] ~IsZero(a) /\ IsZero(b) -> a
          [] ~IsZero(b) /\ IsConst(b) /\ IsBin("Add", a) /\ HasConst(a) ->
                Binop("Add", OtherOf(a), Const(Wrap(c + ConstOf(a))))
          [] ~IsZero(b) /\ IsConst(b) /\ IsBin("Sub", a) /\ HasConst(a) ->
                IF IsConst(a[4]) THEN Binop("Add", a[3], Const(Wrap(c - a[4][2])))
                ELSE Binop("Sub", Const(Wrap(c + a[3][2])), a[4])
          [] OTHER -> Bin("Add", a, b)

SubRule(a, b) ==
    LET c == b[2]
    IN  CASE IsZero(b) -> a
          [] a = b -> Const(0)
          [] ~IsZero(b) /\ IsConst(b) /\ IsBin("Sub", a) /\ HasConst(a) ->
                IF IsConst(a[4]) THEN Binop("Sub", a[3], Const(Wrap(c + a[4][2])))
                ELSE Binop("Sub", Const(Wrap(a[3][2] - c)), a[4])
          [] ~IsZero(b) /\ IsConst(b) /\ IsBin("Add", a) /\ HasConst(a) ->
                Binop("Add", OtherOf(a), Const(Wrap(ConstOf(a) - c)))
          [] OTHER -> Bin("Sub", a, b)

OrRule(a, b) ==
    CASE IsZero(a) -> b
      [] ~IsZero(a) /\ IsZero(b) -> a
      [] ~IsZero(b) /\ IsConst(b) /\ IsBin("Or", a) /\ HasConst(a) ->
            Bin("Or", OtherOf(a), Const(Or(ConstOf(a), b[2])))
      [] OTHER -> Bin("Or", a, b)

\* A conjunction with the constant c on the right.
MaskRule(a, c) ==
    LET plain == Bin("And", a, Const(c))
    IN  IF IsFlag(a) THEN IF c % 2 = 1 THEN a ELSE Const(0)
        ELSE IF c = Mask(TrailingOnes(c)) THEN Extract(a, 0, TrailingOnes(c))
        ELSE CASE IsBin("And", a) /\ HasConst(a) -> Bin("And", OtherOf(a), Const(And(c, ConstOf(a))))
               [] IsBin("Or", a) /\ HasConst(a) ->
                     Bin("Or", Binop("And", OtherOf(a), Const(c)), Const(And(c, ConstOf(a))))
               [] Is("blend", a) /\ And(a[4], c) = c -> Bin("And", a[3], Const(c))
               [] Is("extract", a) /\ a[3] = 0 -> Binop("And", a[2], Const(And(c, Mask(a[4]))))
               [] IsLoad(a) /\ TrailingOnes(c) >= LoadBits(a) -> a
               [] IsLoad(a) /\ TrailingZeros(c) >= LoadBits(a) -> Const(0)
               [] OTHER -> plain

AndRule(a, b) ==
    CASE IsZero(a) \/ IsZero(b) -> Const(0)
      [] ~IsZero(b) /\ IsConst(b) -> MaskRule(a, b[2])
      [] ~IsZero(a) /\ IsConst(a) /\ IsBin("Shl", b) /\ IsConst(b[4]) ->
            Bin("Shl", Binop("And", b[3], Const(a[2] \div 2 ^ b[4][2])), b[4])
      [] OTHER -> Bin("And", a, b)

BinopRules(op, a, b) ==
    IF IsConst(a) /\ IsConst(b) THEN Const(Execute(op, a[2], b[2]))
    ELSE CASE op = "CmpEq" -> CompareEqual(a, b)
           [] op = "Add" -> AddRule(a, b)
           [] op = "Sub" -> SubRule(a, b)
           [] op = "Or"  -> OrRule(a, b)
           [] op = "And" -> AndRule(a, b)
           [] op = "Xor" ->
                CASE IsZero(a) -> b [] IsZero(b) -> a [] a = b -> Const(0) [] OTHER -> Bin(op, a, b)
           [] op = "Mul" -> IF IsZero(a) \/ IsZero(b) THEN Const(0) ELSE Bin(op, a, b)
           [] op = "Shl" -> IF IsZero(b) THEN a ELSE Bin(op, a, b)
           [] op = "Shr" -> IF IsZero(b) THEN a
                            ELSE IF IsConst(b) THEN Extract(a, b[2], W - b[2]) ELSE Bin(op, a, b)
           [] op = "Div" -> Bin(op, a, b)

Unop(op, n, a) == IF IsConst(a) THEN Const(ExecuteUn(op, n, a[2])) ELSE Un(op, n, a)

RECURSIVE Ite(_, _, _)
Ite(c, z, n) ==
    IF IsConst(c) THEN IF c[2] = 0 THEN z ELSE n
    ELSE IF Is("ite", z) /\ z[2] = c THEN Ite(c, z[3], n)
    ELSE IF Is("ite", n) /\ n[2] = c THEN Ite(c, z, n[4])
    ELSE IteNode(c, z, n)

-----------------------------------------------------------------------------
(* Slices of values.                                                       *)

ExtractLoad(v, skip, take) ==
    LET bits == LoadBits(v)
        size == take \div ByteBits
        isSize == take % ByteBits = 0 /\ size \in Sizes
    IN  CASE Is("load", v) /\ skip + take > bits ->
                IF skip >= bits THEN Const(0)
                ELSE IF skip = 0 THEN v ELSE Ext(v, skip, bits - skip)
          [] Is("load", v) /\ skip + take <= bits /\ skip = 0 /\ take < bits /\ isSize -> Load(v[2], size)
          [] skip = 0 /\ skip + take = bits -> v
          [] Is("loadimm", v) /\ skip = 0 /\ take > bits -> v
          [] Is("loadimm", v) /\ skip >= bits -> Const(0)
          [] Is("loadimm", v) /\ skip % ByteBits = 0 /\ isSize /\ size # OddSize /\ skip + take < bits ->
                LoadImm(v[2] + skip \div ByteBits, size)
          [] OTHER -> Ext(v, skip, take)

\* A slice of Add, Or, And or Xor.  The slice of a sum is only taken from its
\* arguments where it starts at bit 0.
ExtractArith(v, skip, take) ==
    LET op == v[2]
        a == v[3]
        b == v[4]
        Covered(x) == Is("extract", x) /\ x[3] = 0 /\ skip = 0 /\ x[4] >= take
        Masked(x) == IsBin("And", x) /\ IsConst(x[3]) /\ skip = 0 /\ TrailingOnes(x[3][2]) >= take
        PerBit == IF op = "Add" THEN Ext(v, skip, take)
                  ELSE Binop(op, Extract(a, skip, take), Extract(b, skip, take))
    IN  IF Covered(a) THEN Extract(Binop(op, a[2], b), skip, take)
        ELSE IF Covered(b) THEN Extract(Binop(op, b[2], a), skip, take)
        ELSE IF IsBin("And", a) THEN IF Masked(a) THEN Extract(Binop(op, a[4], b), skip, take) ELSE PerBit
        ELSE IF op = "And" /\ HasConst(v)
             THEN Binop("And", Extract(OtherOf(v), skip, take), Const(Slice(ConstOf(v), skip, take)))
        ELSE PerBit

ExtractShl(v, skip, take) ==
    LET c == v[4][2]
    IN  CASE ~IsConst(v[4]) -> Ext(v, skip, take)
          [] IsConst(v[4]) /\ c >= skip + take -> Const(0)
          [] IsConst(v[4]) /\ c <= skip -> Extract(v[3], skip - c, take)
          [] OTHER -> Ext(Binop("Shl", v[3], Const(c - skip)), 0, take)

\* (x[0..take] +- c2 - c1)[0..take]: the inner slice is not needed.
ExtractSub(v, skip, take) ==
    LET inner == v[3][2]
    IN  IF /\ IsConst(v[4]) /\ skip = 0
           /\ Is("extract", v[3]) /\ v[3][3] = 0 /\ v[3][4] = take
           /\ IsBin("Add", inner) \/ IsBin("Sub", inner)
           /\ IsConst(inner[4])
        THEN LET c1 == v[4][2]
                 c2 == inner[4][2]
                 sum == IF inner[2] = "Sub" THEN c1 + c2 ELSE c1 - c2
             IN  Extract(Binop("Sub", inner[3], Const(Wrap(sum))), skip, take)
        ELSE Ext(v, skip, take)

ExtractBlend(v, skip, take) ==
    LET taken == Slice(v[4], skip, take)
    IN  CASE taken = Mask(take) -> Extract(v[3], skip, take)
          [] taken = 0 -> Extract(v[2], skip, take)
          [] OTHER -> Ext(v, skip, take)

ExtractRules(v, skip, take) ==
    CASE IsConst(v) -> Const(Slice(v[2], skip, take))
      [] Is("extract", v) ->
            IF skip >= v[4] THEN Const(0)
            ELSE Extract(v[2], skip + v[3], IF take < v[4] - skip THEN take ELSE v[4] - skip)
      [] IsFlag(v) -> IF skip = 0 THEN v ELSE Const(0)
      [] IsLoad(v) -> ExtractLoad(v, skip, take)
      [] Is("blend", v) -> ExtractBlend(v, skip, take)
      [] Is("bin", v) /\ v[2] \in {"Add", "Or", "And", "Xor"} -> ExtractArith(v, skip, take)
      [] IsBin("Shl", v) -> ExtractShl(v, skip, take)
      [] IsBin("Sub", v) -> ExtractSub(v, skip, take)
      [] Is("ite", v) -> IteNode(v[2], Extract(v[3], skip, take), Extract(v[4], skip, take))
      [] OTHER -> Ext(v, skip, take)
-----------------------------------------------------------------------------
(* Values of which some bytes are replaced.                                *)

\* Fault: some of the bits are enough.
CoversSome(m, n) == And(m, n) # 0

Covers(m, n) == And(m, n) = n

MaskedRules(old, new, mask) ==
    CASE Is("blend", old) /\ Covers(mask, old[4]) -> CombineMask(old[2], new, mask)
      [] Is("blend", old) /\ And(mask, old[4]) = 0 ->
            LET both == Binop("Or", Binop("And", Const(old[4]), old[3]), Binop("And", new, Const(mask)))
            IN  CombineMask(old[2], both, Or(old[4], mask))
      [] OTHER -> Blend(old, new, mask)

\* The arguments of a sum or bitwise operation of which only the low `bits` bits
\* are used: an argument that is cut to a slice or masked is taken whole.
UncutArgs(a, b, bits) ==
    LET Cut(x) == Is("extract", x) /\ x[3] = 0 /\ x[4] >= bits
        Masked(x) == IsBin("And", x) /\ HasConst(x) /\ TrailingOnes(ConstOf(x)) >= bits
    IN  IF Cut(a) THEN <<a[2], b>>
        ELSE IF Cut(b) THEN <<b[2], a>>
        ELSE IF Masked(a) THEN <<OtherOf(a), b>>
        ELSE <<a, b>>

Uncut(new, bits) ==
    LET args == UncutArgs(new[3], new[4], bits)
    IN  IF Is("bin", new) /\ new[2] \in {"Add", "Or", "Xor"} /\ args # <<new[3], new[4]>>
        THEN Binop(new[2], args[1], args[2]) ELSE new

\* combine_old_and_new: `old` with the bytes start .. start + len - 1 from `new`.
CombineRules(old, new, start, len) ==
    LET bits  == len * ByteBits
        shift == start * ByteBits
        mask  == Mask(bits) * 2 ^ shift
        alone == Binop("Shl", Binop("And", new, Const(Mask(bits))), Const(shift))
        blend == Is("blend", old)
    IN  IF \/ Is("extract", old) /\ Covers(mask, Mask(old[4]))
           \/ IsZero(old)
        THEN alone
        ELSE IF IsConst(new)
        THEN Binop("Or", Binop("And", old, Const(Flip(mask))), Const(And(Wrap(new[2] * 2 ^ shift), mask)))
        ELSE IF blend /\ Covers(mask, old[4]) THEN Combine(old[2], new, start, len)
        ELSE IF blend /\ And(mask, old[4]) = 0
        THEN CombineMask(old[2], Binop("Or", Binop("And", Const(old[4]), old[3]), alone), Or(old[4], mask))
        ELSE IF IsLoad(old) /\ TrailingOnes(mask) >= LoadBits(old) THEN alone
        ELSE IF IsBin("And", new) /\ HasConst(new) /\ TrailingOnes(ConstOf(new)) >= bits
        THEN Combine(old, OtherOf(new), start, len)
        ELSE CombineMask(old, Binop("Shl", Uncut(new, bits), Const(shift)), mask)

Make(node) ==
    CASE Is("bin", node)     -> BinopRules(node[2], node[3], node[4])
      [] Is("extract", node) -> ExtractRules(node[2], node[3], node[4])
      [] Is("combine", node) -> CombineRules(node[2], node[3], node[4], node[5])
      [] Is("mask", node)    -> MaskedRules(node[2], node[3], node[4])

-----------------------------------------------------------------------------
(* A value rebuilt where some nodes are known to be zero, or not to be:    *)
(* `known` gives their class.                                              *)

ClassOf(known, v) == IF v \in DOMAIN known THEN known[v] ELSE "any"

Known(v, known) ==
    LET Choice(c, zero, nonzero) ==
            CASE ClassOf(known, c) = "zero" -> zero
              [] ClassOf(known, c) = "nonzero" -> nonzero
              [] OTHER -> v
    IN  CASE Is("ite", v) -> Choice(v[2], v[3], v[4])
          [] Is("un", v) /\ v[2] = "IsZero" -> Choice(v[4], Const(1), Const(0))
          [] OTHER -> Choice(v, Const(0), v)

RECURSIVE Remap(_, _)
Remap(v, known) ==
    LET Arg(n) == Remap(v[n], known)
    IN  Known(CASE Is("bin", v)     -> Binop(v[2], Arg(3), Arg(4))
                [] Is("un", v)      -> Unop(v[2], v[3], Arg(4))
                [] Is("extract", v) -> Extract(Arg(2), v[3], v[4])
                [] Is("ite", v)     -> Ite(Arg(2), Arg(3), Arg(4))
                [] Is("load", v)    -> Load(Arg(2), v[3])
                [] OTHER            -> v,
              known)
=============================================================================

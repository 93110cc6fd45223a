------------------------------ MODULE ValTree ------------------------------
(***************************************************************************)
(* The builder of values at work (codegen/mir/val.rs).  Instructions are   *)
(* compiled through its values, so a rule that is wrong for one pattern of *)
(* bits makes the compiled instruction differ from the interpreted one.    *)
(***************************************************************************)
EXTENDS Val

CONSTANTS
    Inputs,       \* environments the values are compared in
    Families,   \* sets of calls that are tried with each other
    MaxCalls    \* bound: calls of one behaviour

VARIABLES
    fam,    \* the calls of this behaviour
    val,    \* the value built last
    kept,   \* a value built earlier
    want,   \* ghost: what `val` and `kept` are in each environment
    live,   \* ghost: the environments that satisfy the assumption in force
    calls

treeVars == <<fam, val, kept, want, live, calls>>

-----------------------------------------------------------------------------
(* Calls of the builder.  The other argument is the value kept earlier or  *)
(* a leaf.                                                                 *)

Kept == <<"kept">>
Node(o)       == IF o = Kept THEN kept ELSE o
Meaning(o, e) == IF o = Kept THEN want.kept[e] ELSE Eval(o, e)

Called(v, means) ==
    /\ calls < MaxCalls
    /\ val' = v
    /\ want' = [want EXCEPT !.val = [e \in Inputs |-> means[e]]]
    /\ calls' = calls + 1
    /\ UNCHANGED <<fam, kept, live>>

CallBinop ==
    \E c \in fam.binops :
        LET o == Node(c.other)
            args == IF c.first THEN <<val, o>> ELSE <<o, val>>
        IN  Called(Binop(c.op, args[1], args[2]),
                   [e \in Inputs |->
                        IF c.first THEN Execute(c.op, want.val[e], Meaning(c.other, e))
                        ELSE Execute(c.op, Meaning(c.other, e), want.val[e])])

CallUnop ==
    \E c \in fam.unops :
        Called(Unop(c.op, c.n, val), [e \in Inputs |-> ExecuteUn(c.op, c.n, want.val[e])])

CallExtract ==
    \E c \in fam.extracts :
        Called(Extract(val, c.skip, c.take), [e \in Inputs |-> Slice(want.val[e], c.skip, c.take)])

CallCombine ==
    \E c \in fam.combines :
        LET o == Node(c.other)
            mask == Mask(c.len * ByteBits) * 2 ^ (c.start * ByteBits)
            Mixed(a, b) == BlendBits(a, Wrap(b * 2 ^ (c.start * ByteBits)), mask)
        IN  Called(IF c.first THEN Combine(val, o, c.start, c.len) ELSE Combine(o, val, c.start, c.len),
                   [e \in Inputs |->
                        IF c.first THEN Mixed(want.val[e], Meaning(c.other, e))
                        ELSE Mixed(Meaning(c.other, e), want.val[e])])

CallIte ==
    \E c \in fam.ites :
        LET o == Node(c.other)
        IN  Called(IF c.first THEN Ite(c.cond, val, o) ELSE Ite(c.cond, o, val),
                   [e \in Inputs |->
                        IF (Eval(c.cond, e) = 0) = c.first THEN want.val[e] ELSE Meaning(c.other, e)])

\* A block is entered only where the condition `val` was zero, or was not: the
\* value kept is rebuilt.
Assume ==
    /\ calls < MaxCalls /\ live = Inputs /\ fam.assume
    /\ \E zero \in BOOLEAN :
          /\ kept' = Remap(kept, val :> IF zero THEN "zero" ELSE "nonzero")
          /\ live' = {e \in Inputs : (want.val[e] = 0) = zero}
    /\ calls' = calls + 1
    /\ UNCHANGED <<fam, val, want>>

\* Another value is begun, and the one built so far is kept.
Keep ==
    /\ calls < MaxCalls /\ fam.keep
    /\ \E l \in fam.leaves :
          /\ val' = l
          /\ kept' = val
          /\ want' = [val |-> [e \in Inputs |-> Eval(l, e)], kept |-> want.val]
    /\ calls' = calls + 1
    /\ UNCHANGED <<fam, live>>

TreeInit ==
    /\ fam \in Families
    /\ val \in fam.leaves
    /\ kept = val
    /\ want = [val |-> [e \in Inputs |-> Eval(val, e)], kept |-> [e \in Inputs |-> Eval(val, e)]]
    /\ live = Inputs
    /\ calls = 0

TreeNext == CallBinop \/ CallUnop \/ CallExtract \/ CallCombine \/ CallIte \/ Assume \/ Keep

-----------------------------------------------------------------------------
\* The value that the builder makes is, wherever the assumption in force holds,
\* what the operations that were asked for compute.
ValueExact ==
    \A e \in live : Eval(val, e) = want.val[e] /\ Eval(kept, e) = want.kept[e]

\* A slice is never taken of a slice: try_solve_equality subtracts the number of
\* bits skipped outside from the number taken inside and would go below zero.
SlicesFlat ==
    \A v \in Nodes(val) : Is("extract", v) => ~Is("extract", v[2])
=============================================================================

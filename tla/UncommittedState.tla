-------------------------- MODULE UncommittedState --------------------------
(***************************************************************************)
(* What the code compiled so far has changed of the CPU structure and not  *)
(* yet written to it (codegen/mir/state.rs): values of fixed registers, and *)
(* values of registers that an index chooses when the code runs.           *)
(***************************************************************************)
EXTENDS Val

CONSTANTS
    RegOrder,   \* the registers in the order of their offsets
    Layout,     \* offset and size of each register in the CPU structure
    Flags       \* the registers of flags, a byte each

NoReg == "none"     \* an index that chooses no register
Field(r) == LoadImm(Layout[r].offset, Layout[r].size)

ByOffset(rs) == SelectSeq(RegOrder, LAMBDA r : r \in rs)

\* The dynamic values are kept in the order in which the hash map yields them;
\* that of the fixed ones does not matter.
EmptyState == [fixed |-> <<>>, dynamic |-> <<>>]

-----------------------------------------------------------------------------
(* Where a register that is chosen by an index is.                         *)

Indices(choices) == [n \in 1 .. Len(choices) |-> n]
IndexIs(index, n) == Binop("CmpEq", index, Const(n - 1))
AnyChoice(choices) == SelectSeq(choices, LAMBDA r : r # NoReg)[1]

\* compute_const_scale_offset: choices at equal distances.
Scales(choices) ==
    {s \in [scale : 1 .. 8, offset : -16 .. 16] :
        \A n \in DOMAIN choices :
            choices[n] # NoReg => Layout[choices[n]].offset = s.offset + s.scale * (n - 1)}

DynamicOffset(choices, index) ==
    LET found == Scales(choices)
        s == CHOOSE x \in found : \A y \in found : x.scale <= y.scale
    IN  IF found # {}
        THEN Binop("Add", Const(Wrap(s.offset)), Binop("Mul", Const(s.scale), index))
        ELSE FoldLeft(LAMBDA v, n : IF choices[n] = NoReg THEN v
                                    ELSE Ite(IndexIs(index, n), v, Const(Layout[choices[n]].offset)),
                      Const(0), Indices(choices))

-----------------------------------------------------------------------------
(* Reads and writes.  A value is replaced where the registers agree.       *)

\* old, or new where the index chooses r.
Overlay(old, choices, index, r, new) ==
    FoldLeft(LAMBDA v, n : IF choices[n] = r THEN Ite(IndexIs(index, n), v, new) ELSE v,
             old, Indices(choices))

\* The pairs of indices that choose the same register.
SameChoice(cs, ds) ==
    SelectSeq([i \in 1 .. Len(cs) * Len(ds) |-> <<((i - 1) \div Len(ds)) + 1, ((i - 1) % Len(ds)) + 1>>],
              LAMBDA p : cs[p[1]] # NoReg /\ cs[p[1]] = ds[p[2]])

\* old, or new where the index and that of the dynamic value d choose the same.
Propagate(old, choices, index, d, new) ==
    IF choices = d.choices THEN Ite(Binop("CmpEq", index, d.index), old, new)
    ELSE FoldLeft(LAMBDA v, p : Ite(Binop("And", IndexIs(index, p[1]), IndexIs(d.index, p[2])), v, new),
                  old, SameChoice(choices, d.choices))

GetOrCompute(st, r) ==
    IF r \in DOMAIN st.fixed THEN st.fixed[r]
    ELSE FoldLeft(LAMBDA v, d : Overlay(v, d.choices, d.index, r, d.val), Field(r), st.dynamic)

\* Fault: dynamic values are left as they are.
StoreFixedOnly(st, r, new) == [st EXCEPT !.fixed = r :> new @@ @]

StoreFixed(st, r, new) ==
    [fixed   |-> r :> new @@ st.fixed,
     dynamic |-> [i \in DOMAIN st.dynamic |->
                    LET d == st.dynamic[i]
                    IN  [d EXCEPT !.val = Overlay(d.val, d.choices, d.index, r, new)]]]

HasKey(d, choices, index) == d.choices = choices /\ d.index = index

\* What the uncommitted values make of the value v that the index chooses.
AfterFixed(st, choices, index, v) ==
    FoldLeft(LAMBDA w, r : Overlay(w, choices, index, r, st.fixed[r]), v, ByOffset(DOMAIN st.fixed))
AfterDynamic(st, choices, index, v) ==
    FoldLeft(LAMBDA w, d : Propagate(w, choices, index, d, d.val), v, st.dynamic)

GetOrComputeDynamic(st, choices, index) ==
    IF \E i \in DOMAIN st.dynamic : HasKey(st.dynamic[i], choices, index)
    THEN SelectSeq(st.dynamic, LAMBDA d : HasKey(d, choices, index))[1].val
    ELSE AfterDynamic(st, choices, index,
            AfterFixed(st, choices, index,
                Load(DynamicOffset(choices, index), Layout[AnyChoice(choices)].size)))

\* The key is new in the hash map, at its front or at its back, or is there.
StoreDynamic(st, choices, index, new, front) ==
    LET d == [choices |-> choices, index |-> index, val |-> new]
        keyed == IF \E i \in DOMAIN st.dynamic : HasKey(st.dynamic[i], choices, index)
                 THEN [i \in DOMAIN st.dynamic |->
                        IF HasKey(st.dynamic[i], choices, index) THEN d ELSE st.dynamic[i]]
                 ELSE IF front THEN <<d>> \o st.dynamic ELSE Append(st.dynamic, d)
    IN  [fixed   |-> [r \in DOMAIN st.fixed |-> Overlay(st.fixed[r], choices, index, r, new)],
         dynamic |-> [i \in DOMAIN keyed |->
                        [keyed[i] EXCEPT !.val = Propagate(@, choices, index, keyed[i], new)]]]

-----------------------------------------------------------------------------
(* The state where two paths meet: a variable stands for a value that is   *)
(* not the same on both.                                                   *)

\* The pairs of values, with the variables from n on for those that differ.
Unify(pairs, n) ==
    LET Differ(i) == pairs[i][1] # pairs[i][2]
        VarOf(i) == n + Cardinality({j \in 1 .. i - 1 : Differ(j)})
        differ == SelectSeq([i \in DOMAIN pairs |-> i], Differ)
    IN  [vals |-> [i \in DOMAIN pairs |-> IF Differ(i) THEN Var(VarOf(i)) ELSE pairs[i][1]],
         vars |-> [i \in DOMAIN differ |-> VarOf(differ[i])],
         sets |-> [side \in 1 .. 2 |-> [i \in DOMAIN differ |-> pairs[differ[i]][side]]],
         next |-> n + Len(differ)]

KeyOf(d) == [choices |-> d.choices, index |-> d.index]

MergedRegs(a, b) == ByOffset(DOMAIN a.fixed \cup DOMAIN b.fixed)
MergedKeys(a, b) ==
    LET keys == [i \in DOMAIN a.dynamic |-> KeyOf(a.dynamic[i])]
    IN  keys \o SelectSeq([i \in DOMAIN b.dynamic |-> KeyOf(b.dynamic[i])],
                          LAMBDA k : \A i \in DOMAIN keys : keys[i] # k)

\* The values that are unified, first of the registers, then of the dynamic ones.
MergePairs(a, b) ==
    LET regs == MergedRegs(a, b)
        keys == MergedKeys(a, b)
        Of(side) == IF side = 1 THEN a ELSE b
    IN  [i \in DOMAIN regs |-> [side \in 1 .. 2 |-> GetOrCompute(Of(side), regs[i])]]
        \o [i \in DOMAIN keys |->
                [side \in 1 .. 2 |-> GetOrComputeDynamic(Of(side), keys[i].choices, keys[i].index)]]

MergedState(a, b, vals) ==
    LET regs == MergedRegs(a, b)
        keys == MergedKeys(a, b)
    IN  [fixed |-> [r \in ToSet(regs) |-> vals[CHOOSE i \in DOMAIN regs : regs[i] = r]],
         dynamic |-> [i \in DOMAIN keys |->
                        [choices |-> keys[i].choices, index |-> keys[i].index,
                         val |-> vals[Len(regs) + i]]]]
=============================================================================

-------------------------------- MODULE Lir --------------------------------
(***************************************************************************)
(* What compiled code does (codegen/lir/mod.rs): a value that is used more *)
(* than once is computed at the entry of the last block that all its uses  *)
(* have in common, any other where it is used.                             *)
(***************************************************************************)
EXTENDS BbGraph

RECURSIVE Total(_)
Total(s) == IF s = <<>> THEN 0 ELSE Head(s) + Total(Tail(s))
Count(s, v) == Len(SelectSeq(s, LAMBDA w : w = v))

RECURSIVE Cost(_)
Cost(v) ==
    Total([i \in DOMAIN Children(v) |-> Cost(Children(v)[i])])
    + CASE IsLoad(v) -> 10
        [] IsConst(v) \/ Is("var", v) \/ Is("parts", v) -> 0
        [] OTHER -> 1

\* The values that are used more than once, each with the block that computes it.
Definitions(g) ==
    LET ids == SelectSeq(Ids(g), LAMBDA n : n \in Reach(g, 1))
        Of(n) == UNION {Nodes(v) : v \in ToSet(Referenced(g[n]))}
        all == UNION {Of(n) : n \in ToSet(ids)}
        NumReferences(v) ==
            Total([i \in DOMAIN ids |-> Count(Referenced(g[ids[i]]), v)])
            + Cardinality({<<w, i>> \in all \X (1 .. 3) : i \in DOMAIN Children(w) /\ Children(w)[i] = v})
        dt == DominatorTree(g)
        shared == {v \in all : Cost(v) > 1 /\ NumReferences(v) > 1}
        At(v) == LcaMany(dt, SelectSeq(ids, LAMBDA n : v \in Of(n)))
    IN  {<<At(v), v>> : v \in shared}

-----------------------------------------------------------------------------
(* Execution.  s has the CPU structure, the variables and definitions, the *)
(* operands of the instruction, what the ports do, and whether all values  *)
(* used so far were computed before.                                       *)

RECURSIVE Write(_, _, _, _)
Write(mem, at, size, val) ==
    IF size = 0 THEN mem
    ELSE Write([mem EXCEPT ![at] = val % 2 ^ ByteBits], at + 1, size - 1, val \div 2 ^ ByteBits)

\* All values and offsets are computed before the first is written.
CommitAll(s, b) ==
    LET vals == [i \in DOMAIN b.to |-> Eval(b.vals[i], s)]
        at == [i \in DOMAIN b.to |-> IF b.to[i].kind = "dynamic" THEN Eval(b.to[i].at, s) ELSE b.to[i].at]
    IN  [s EXCEPT !.mem = FoldLeft(LAMBDA m, i : Write(m, at[i], b.to[i].size, vals[i]),
                                   @, [i \in DOMAIN b.to |-> i])]

RECURSIVE Exec(_, _, _, _)
Exec(g, defs, n, entry) ==
    LET b == g[n]
        used == UNION {Nodes(v) : v \in ToSet(Referenced(b))}
        here == {d[2] : d \in {x \in defs : x[1] = n}}
        s == [entry EXCEPT !.defs = [v \in here |-> Eval(v, entry)] @@ @,
                           !.defined = @ /\ \A d \in defs : d[2] \in used => d[2] \in here \cup DOMAIN entry.defs]
        Go(t, i) == Exec(g, defs, b.next[i], t)
        Set(t, x, v) == [t EXCEPT !.vars = x :> v @@ @]
        done == CommitAll(s, b)
    IN  CASE b.op = "jump" -> Go(s, 1)
          [] b.op = "br" -> Go(s, IF Eval(b.vals[1], s) = 0 THEN 1 ELSE 2)
          [] b.op = "store" ->
                Go(FoldLeft(LAMBDA t, i : Set(t, b.to[i], Eval(b.vals[i], t)), s, [i \in DOMAIN b.to |-> i]), 1)
          [] b.op = "exception" -> Go([s EXCEPT !.raised = "exception"], 1)
          [] b.op = "handler" -> Go([s EXCEPT !.raised = <<"handler", Eval(b.vals[1], s)>>], 1)
          [] b.op = "commit" -> Go(done, 1)
          [] b.op = "in" -> Go(Set([s EXCEPT !.ports = Append(@, Eval(b.vals[1], s))], b.to[1], s.input),
                               IF s.fails THEN 2 ELSE 1)
          [] b.op = "exit" ->
                [mem |-> done.mem, raised |-> done.raised, ports |-> done.ports, defined |-> done.defined, ok |-> b.ok,
                 jump |-> [i \in DOMAIN b.jump |-> Eval(b.jump[i], done) # 0]]

Run(g, defs, e) == Exec(g, defs, 1, [defined |-> TRUE] @@ e)
=============================================================================

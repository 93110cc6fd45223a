------------------------------ MODULE BbGraph ------------------------------
(***************************************************************************)
(* The control flow of compiled code (codegen/mir/bb.rs) and its           *)
(* optimisations: branches whose outcome is known are removed, and values  *)
(* that every exit writes are written early.                               *)
(*                                                                         *)
(* A block has the values it refers to, what they are for (variables or    *)
(* places in the CPU structure) and the blocks that follow it.  Block 1 is *)
(* the root.                                                               *)
(***************************************************************************)
EXTENDS UncommittedState

Block(op, next, vals) ==
    [op |-> op, next |-> next, vals |-> vals, to |-> <<>>, jump |-> <<>>, ok |-> TRUE]
Empty         == Block("none", <<>>, <<>>)
Jump(n)       == Block("jump", <<n>>, <<>>)
Br(c, z, n)   == Block("br", <<z, n>>, <<c>>)
Assign(vars, vals, n) == [Block("store", <<n>>, vals) EXCEPT !.to = vars]
Commit(dests, vals, n) == [Block("commit", <<n>>, vals) EXCEPT !.to = dests]
\* CommitAndExit; `jump` has the condition of the last jump, if there is one.
Exit(dests, vals, jump, ok) ==
    [Block("exit", <<>>, vals) EXCEPT !.to = dests, !.jump = jump, !.ok = ok]

\* Places in the CPU structure: a register, some of its bytes, or the register
\* at an offset that is a value.
RegDest(r)          == [kind |-> "reg", at |-> Layout[r].offset, size |-> Layout[r].size]
FixedDest(at, size) == [kind |-> "fixed", at |-> at, size |-> size]
DynDest(at, size)   == [kind |-> "dynamic", at |-> at, size |-> size]

Ids(g) == [n \in 1 .. Len(g) |-> n]
Dynamics(b) == IF b.op \in {"commit", "exit"}
               THEN SelectSeq(b.to, LAMBDA d : d.kind = "dynamic") ELSE <<>>
\* referenced_values
Referenced(b) == b.vals \o [i \in DOMAIN Dynamics(b) |-> Dynamics(b)[i].at] \o b.jump

\* The components in the order of StronglyConnectedComponents::iterate, where
\* every component is a single block: the reverse of a topological order.
RECURSIVE Visit(_, _, _)
Visit(g, done, n) ==
    IF Contains(done, n) THEN done
    ELSE Append(FoldLeft(LAMBDA d, m : Visit(g, d, m), done, g[n].next), n)

PostOrder(g) == FoldLeft(LAMBDA d, n : Visit(g, d, n), <<>>, Ids(g))

\* A block and those that can follow it.
RECURSIVE Reach(_, _)
Reach(g, n) == {n} \cup UNION {Reach(g, m) : m \in ToSet(g[n].next)}

-----------------------------------------------------------------------------
(* Dominators (codegen/lir/dominator.rs).                                  *)

\* The search from the root, with its stack of entries and exits; a block may be
\* pushed, and entered, more than once.
RECURSIVE Search(_, _)
Search(g, s) ==
    IF s.stack = <<>> THEN s
    ELSE LET top == Last(s.stack)
             n == top[2]
             seen == s.seen \cup {n}
             rest == Front(s.stack)
             new == SelectSeq(g[n].next, LAMBDA m : m \notin seen)
         IN  Search(g,
                IF top[1] = "exit" THEN [s EXCEPT !.stack = rest, !.post = Append(@, n)]
                ELSE [s EXCEPT !.seen = seen,
                               !.stack = Append(rest, <<"exit", n>>)
                                         \o [i \in DOMAIN new |-> <<"enter", new[i]>>],
                               !.preds = [m \in DOMAIN @ |->
                                            IF Contains(g[n].next, m) THEN Append(@[m], n) ELSE @[m]]])

\* Fault: one of the paths is forgotten.
LcaOfOne(t, a, b) == a

\* The block that both have been led to: numbers grow away from the root, and
\* the first block after the root has the number of the root.
RECURSIVE Lca(_, _, _)
Lca(t, a, b) ==
    IF t.num[a] < t.num[b] THEN Lca(t, a, t.idom[b])
    ELSE IF t.num[a] = t.num[b] THEN a
    ELSE Lca(t, t.idom[a], b)

RECURSIVE LcaMany(_, _)
LcaMany(t, ns) == IF Len(ns) = 1 THEN ns[1] ELSE Lca(t, LcaMany(t, Front(ns)), Last(ns))

\* compute_idom of the i-th block in the order of the search, and of those after it.
RECURSIVE IdomPass(_, _, _, _)
IdomPass(t, preds, order, i) ==
    LET n == order[i]
        dom == LcaMany(t, preds[n])
    IN  IF i > Len(order) THEN t
        ELSE IdomPass([num  |-> [m \in DOMAIN t.num |-> IF m = n THEN 1 + i ELSE t.num[m]],
                    idom |-> [m \in DOMAIN t.idom |-> IF m = n THEN dom ELSE t.idom[m]]],
                   preds, order, i + 1)

RECURSIVE Settle(_, _, _)
Settle(t, preds, order) ==
    LET again == IdomPass(t, preds, order, 1)
    IN  IF again = t THEN t ELSE Settle(again, preds, order)

DominatorTree(g) ==
    LET s == Search(g, [stack |-> <<<<"enter", 1>>>>, seen |-> {}, post |-> <<>>,
                        preds |-> [n \in DOMAIN g |-> <<>>]])
        start == [num |-> [n \in DOMAIN g |-> IF n = 1 THEN 2 ELSE IF n \in s.seen THEN 1 ELSE 0],
                  idom |-> [n \in DOMAIN g |-> 0]]
    IN  Settle(start, s.preds, Tail(Reverse(s.post)))

RECURSIVE Dominates(_, _, _)
Dominates(t, a, b) ==
    CASE t.num[a] < t.num[b] -> t.idom[b] # 0 /\ Dominates(t, a, t.idom[b])
      [] t.num[a] = t.num[b] -> a = b
      [] OTHER -> FALSE

-----------------------------------------------------------------------------
(* Path conditions: what is known of conditions where a block is entered.  *)

Unknown == [seen |-> FALSE, known |-> <<>>]

\* Class::union of a class that both paths know, else the one that is known.
UnionWith(mine, other, extra) ==
    LET Union(v) ==
            CASE v \notin DOMAIN other.known -> mine.known[v]
              [] v \notin DOMAIN mine.known -> other.known[v]
              [] OTHER -> IF mine.known[v] = other.known[v] THEN mine.known[v] ELSE "any"
    IN  [seen |-> TRUE,
         known |-> IF mine.seen
                   THEN [v \in DOMAIN mine.known \cup DOMAIN other.known |-> Union(v)]
                   ELSE extra @@ other.known]

PathConditions(g) ==
    FoldLeft(LAMBDA as, n :
                FoldLeft(LAMBDA bs, i :
                            [bs EXCEPT ![g[n].next[i]] =
                                UnionWith(@, as[n], IF g[n].op # "br" THEN <<>>
                                                    ELSE g[n].vals[1] :> IF i = 1 THEN "zero" ELSE "nonzero")],
                         as, [i \in DOMAIN g[n].next |-> i]),
             [n \in DOMAIN g |-> Unknown], Reverse(PostOrder(g)))

\* A constant instead of the condition of the last jump, where its class is known.
Decided(c, known) ==
    CASE ClassOf(known, c) = "zero" -> Const(0)
      [] ClassOf(known, c) = "nonzero" -> Const(1)
      [] OTHER -> c

ApplyConditions(g) ==
    LET as == PathConditions(g)
        Apply(b, known) ==
            CASE b.op = "br" ->
                    LET class == ClassOf(known, b.vals[1])
                    IN  IF class = "any" THEN b ELSE Jump(b.next[IF class = "zero" THEN 1 ELSE 2])
              [] b.op = "exit" ->
                    [b EXCEPT !.vals = [i \in DOMAIN @ |-> Remap(@[i], known)],
                              !.jump = [i \in DOMAIN @ |-> Decided(Remap(@[i], known), known)]]
              [] OTHER -> b
    IN  [n \in DOMAIN g |-> Apply(g[n], as[n].known)]

-----------------------------------------------------------------------------
(* Early commits.                                                          *)

NotWritten == <<"not written">>

\* The values that the exits after block n write to each place.
RECURSIVE ToCommit(_, _)
ToCommit(g, n) ==
    LET b == g[n]
        Of(f, d) == IF d \in DOMAIN f THEN f[d] ELSE {NotWritten}
    IN  CASE b.op = "exit" -> [d \in ToSet(b.to) |-> {b.vals[CHOOSE i \in DOMAIN b.to : b.to[i] = d]}]
          [] Len(b.next) = 1 -> ToCommit(g, b.next[1])
          [] Len(b.next) = 2 ->
                LET f == ToCommit(g, b.next[1])
                    h == ToCommit(g, b.next[2])
                IN  [d \in DOMAIN f \cup DOMAIN h |-> Of(f, d) \cup Of(h, d)]

VarsStored(g, n) == UNION {ToSet(g[m].to) : m \in {k \in Reach(g, n) : g[k].op = "store"}}
VarsOf(v) == {w[2] : w \in {x \in Nodes(v) : Is("var", x)}}

\* A block from n on reads, other than to write it to d, what d overwrites.
ReadLater(g, n, d) ==
    LET Used(b) == IF b.op = "exit" THEN {b.vals[i] : i \in {j \in DOMAIN b.to : b.to[j] # d}} \cup ToSet(b.jump)
                   ELSE ToSet(Referenced(b))
        Overlaps(v) == \/ Is("load", v)
                       \/ Is("loadimm", v) /\ v[2] < d.at + d.size /\ v[2] + v[3] > d.at
    IN  \E m \in Reach(g, n) : \E v \in Used(g[m]) : \E w \in Nodes(v) : Overlaps(w)

\* The places that block n can write before it does anything else.
ReadyAt(g, dt, n, already) ==
    LET vals == ToCommit(g, n)
        exits == {m \in Reach(g, n) : g[m].op = "exit"}
        Ready(d) == /\ Cardinality(vals[d]) = 1
                    /\ d \notin already
                    /\ d.kind # "dynamic"
                    /\ ~ReadLater(g, n, d)
                    /\ \A v \in vals[d] : VarsOf(v) \cap VarsStored(g, n) = {}
    IN  IF g[n].op \in {"exit", "exception"} \/ \E m \in exits : ~Dominates(dt, n, m) THEN {}
        ELSE {d \in DOMAIN vals : Ready(d)}

\* One block: acc has the graph, what is committed where a block is entered, and
\* whether the places committed have been the same on all paths that meet.
CommitAt(acc, dt, n) ==
    LET g == acc.g
        b == g[n]
        already == acc.committed[n]
        ready == ReadyAt(g, dt, n, already)
        dests == SortSeq(SetToSeq(ready), LAMBDA c, d : c.at < d.at)
        vals == [i \in DOMAIN dests |-> CHOOSE v \in ToCommit(g, n)[dests[i]] : TRUE]
        kept == SelectSeq([i \in DOMAIN b.to |-> i], LAMBDA i : b.to[i] \notin already)
        all == already \cup ready
    IN  [g |-> CASE b.op = "exit" ->
                        [g EXCEPT ![n].to = [i \in DOMAIN kept |-> b.to[kept[i]]],
                                  ![n].vals = [i \in DOMAIN kept |-> b.vals[kept[i]]]]
                 [] b.op # "exit" /\ ready # {} ->
                        Append([g EXCEPT ![n] = Commit(dests, vals, Len(g) + 1)], b)
                 [] OTHER -> g,
         committed |-> [m \in DOMAIN acc.committed |->
                            acc.committed[m] \cup IF m \in ToSet(b.next) THEN all ELSE {}],
         agree |-> /\ acc.agree
                   /\ \A m \in ToSet(b.next) : acc.committed[m] = {} \/ all \subseteq acc.committed[m]]

EarlyCommits(g) ==
    LET dt == DominatorTree(g)
    IN  FoldLeft(LAMBDA acc, n : CommitAt(acc, dt, n),
                 [g |-> g, committed |-> [n \in DOMAIN g |-> {}], agree |-> TRUE],
                 Reverse(PostOrder(g)))
=============================================================================

------------------------------ MODULE PageLoops ------------------------------
(***************************************************************************)
(* How a compile thread turns the instructions of a page into blocks       *)
(* (sem86-core/src/codegen/page/mod.rs): chains of instructions that can   *)
(* only follow each other, the jumps between the chains, and the loops     *)
(* that have to be interruptible.                                          *)
(*                                                                         *)
(* Page code jumps from block to block without returning to the run loop.  *)
(* It looks at INTR only in blocks with check_intr, and can be resumed     *)
(* only at blocks with export.  break_loops sets both flags: Tarjan's      *)
(* algorithm (codegen/components.rs) gives the strongly connected groups   *)
(* of blocks, and in each group a search from its exported blocks marks    *)
(* the target of every edge back to a block that it has seen.              *)
(*                                                                         *)
(* An instruction is its place in the request.  A jump is known with one   *)
(* or two targets (`to`: if its condition is zero, if not), or unknown     *)
(* (near absolute and far jumps), when only the links of the instruction   *)
(* cache say where it went before.  What an instruction computes is left   *)
(* out, but for whether it performs I/O.  Blocks are named by their first  *)
(* instruction.                                                            *)
(***************************************************************************)
EXTENDS Integers, Sequences, FiniteSets, SequencesExt, FiniteSetsExt

CONSTANTS CodePages   \* the pages to compile: sequences of instructions

Out == 0          \* a target outside the page or not among the instructions

\* A page with n instructions.
Instructions(n) ==
    [known : BOOLEAN, to : Seq(0 .. n), links : Seq(0 .. n),
     entry : BOOLEAN, handler : BOOLEAN, io : BOOLEAN]
CodePagesAssumption == \A p \in CodePages : p \in Seq(Instructions(Len(p)))

VARIABLES
    page,    \* PageJitRequestData.instrs
    stage,   \* "request", "loops", "done"; "hung" in a chain, "panic" in Roots::of
    flags,   \* check_intr and export of each block
    tarjan,  \* StronglyConnectedComponents, with its frontier
    search,  \* the search of a group: its blocks, those left to start from, and the
             \* stack of dfs with the next choice of each frame
    groups   \* history: the groups so far

pvars == <<page, stage, flags, tarjan, search, groups>>

-----------------------------------------------------------------------------
(* Edges of the instruction graph.                                         *)

Instrs == DOMAIN page
OnPage(t) == t # Out

\* The targets among the instructions of the request, in their order.
KeepOnPage(targets) ==
    LET kept[k \in 0 .. Len(targets)] ==
            IF k = 0 THEN <<>>
            ELSE IF OnPage(targets[k]) THEN Append(kept[k - 1], targets[k]) ELSE kept[k - 1]
    IN  kept[Len(targets)]

NextOffsets(i) == KeepOnPage(IF page[i].known THEN page[i].to ELSE page[i].links)
AllReachable(i) == page[i].known /\ \A k \in DOMAIN page[i].to : OnPage(page[i].to[k])

\* Handlers return to the run loop: nothing follows them in page code.
Succs(i) == IF page[i].handler THEN <<>> ELSE NextOffsets(i)
Preds(i) == {j \in Instrs : Contains(Succs(j), i)}

Branches(i) == Len(Succs(i)) > 1 \/ ~AllReachable(i)

\* Fault: a jump that may leave the page does not split.
MakeSplitPointOnlyAtForks(i) ==
    \/ page[i].entry
    \/ \E j \in Instrs : page[j].handler /\ Contains(NextOffsets(j), i)
    \/ \E j \in Preds(i) : Len(Succs(j)) > 1

MakeSplitPoint(i) ==
    \/ page[i].entry
    \/ \E j \in Instrs : page[j].handler /\ Contains(NextOffsets(j), i)
    \/ \E j \in Preds(i) : Branches(j)

\* The instructions that start a block.
Blocks == {i \in Instrs : MakeSplitPoint(i) \/ Cardinality(Preds(i)) > 1}

\* Roots::of unwraps the root of every instruction: all have to be reachable
\* from a split point or from an instruction without predecessors.
Rooted ==
    LET from == {i \in Instrs : MakeSplitPoint(i) \/ Preds(i) = {}}
    IN  \A S \in SUBSET Instrs :
            from \subseteq S /\ (\A i \in S : ToSet(Succs(i)) \subseteq S) => S = Instrs

-----------------------------------------------------------------------------
(* Chains.  The walk goes on while the next instruction is certain; only   *)
(* split points end it otherwise.                                          *)

Certain(i) == page[i].known /\ Len(page[i].to) = 1 /\ Len(Succs(i)) = 1
GoesOn(i) == Certain(i) /\ ~MakeSplitPoint(Succs(i)[1])
ChainNext == [i \in Instrs |-> IF GoesOn(i) THEN Succs(i)[1] ELSE i]
\* x, f[x], f[f[x]], ...
Iterate(f, x, n) == LET w[k \in 0 .. n] == IF k = 0 THEN x ELSE f[w[k - 1]] IN w
Chain(i) == Iterate(ChainNext, i, Len(page))
LastInstr(i) == Chain(i)[Len(page)]
WalkEnds(i) == ~GoesOn(LastInstr(i))

\* NextOnPage of a block, in the order of its iter().
NextBlocks(b) ==
    LET i == LastInstr(b)
    IN  IF page[i].handler THEN <<>>
        ELSE IF page[i].known THEN Reverse(NextOffsets(i)) ELSE Succs(i)

-----------------------------------------------------------------------------
(* From the request to the blocks.                                         *)

NoTarjan == [index |-> <<>>, low |-> <<>>, stack |-> <<>>, frontier |-> <<>>]
NoSearch == [inside |-> {}, left |-> <<>>, path |-> <<>>]

LoopsInit ==
    /\ page \in CodePages /\ stage = "request"
    /\ flags = <<>> /\ tarjan = NoTarjan
    /\ search = NoSearch /\ groups = <<>>

\* The flags of the new blocks: an entry is exported, and a block that
\* performs I/O and goes on in page code checks INTR.
NewFlags ==
    [b \in Blocks |->
        [export |-> page[b].entry,
         check |-> NextBlocks(b) # <<>> /\ \E k \in 0 .. Len(page) : page[Chain(b)[k]].io]]

BuildBlocks ==
    /\ stage = "request"
    /\ \/ ~Rooted /\ stage' = "panic" /\ UNCHANGED flags
       \/ Rooted /\ (\E b \in Blocks : ~WalkEnds(b)) /\ stage' = "hung" /\ UNCHANGED flags
       \/ Rooted /\ (\A b \in Blocks : WalkEnds(b)) /\ stage' = "loops" /\ flags' = NewFlags
    /\ UNCHANGED <<page, tarjan, search, groups>>

-----------------------------------------------------------------------------
(* Tarjan's algorithm from the exported blocks.  index and low map the     *)
(* blocks that have been visited; a block has on_stack while it is on the  *)
(* stack.                                                                  *)

Visited == DOMAIN tarjan.index
Searching == stage = "loops" /\ search = NoSearch
EnterBlock(t, v) ==
    LET n == Cardinality(DOMAIN t.index)
        With(f) == [b \in DOMAIN f \cup {v} |-> IF b = v THEN n ELSE f[b]]
    IN  [index |-> With(t.index), low |-> With(t.low),
         stack |-> Append(t.stack, v), frontier |-> Append(t.frontier, [block |-> v, at |-> 1])]

\* Fault: the larger number is kept.
LowerToLarger(t, v, n) == [t EXCEPT !.low[v] = IF n > @ THEN n ELSE @]

Lower(t, v, n) == [t EXCEPT !.low[v] = IF n < @ THEN n ELSE @]
Current == Last(tarjan.frontier)
HasNext == Current.at <= Len(NextBlocks(Current.block))

\* The exported blocks before break_loops, the roots of the search.
Exported == {b \in Blocks : page[b].entry}

NextRoot ==
    /\ Searching /\ tarjan.frontier = <<>>
    /\ LET left == Exported \ Visited
       IN  \/ left = {} /\ stage' = "done" /\ UNCHANGED tarjan
           \/ left # {} /\ tarjan' = EnterBlock(tarjan, Min(left)) /\ UNCHANGED stage
    /\ UNCHANGED <<page, flags, search, groups>>

Visit ==
    /\ Searching /\ tarjan.frontier # <<>> /\ HasNext
    /\ LET w == NextBlocks(Current.block)[Current.at]
           t == [tarjan EXCEPT !.frontier[Len(tarjan.frontier)].at = @ + 1]
       IN  tarjan' = IF w \notin Visited THEN EnterBlock(t, w)
                     ELSE IF Contains(t.stack, w) THEN Lower(t, Current.block, t.index[w])
                     ELSE t
    /\ UNCHANGED <<page, stage, flags, search, groups>>

\* The lowlink of a block that is left counts for the block below it.
Leave(t, v) ==
    LET f == Front(t.frontier)
        s == [t EXCEPT !.frontier = f]
    IN  IF f = <<>> THEN s ELSE Lower(s, Last(f).block, t.low[v])

\* A block that is its own lowlink closes a group: the top of the stack.
CloseGroup ==
    /\ Searching /\ tarjan.frontier # <<>> /\ ~HasNext
    /\ LET v == Current.block
           from == CHOOSE k \in DOMAIN tarjan.stack : tarjan.stack[k] = v
           top == SubSeq(tarjan.stack, from, Len(tarjan.stack))
           t == Leave(tarjan, v)
       IN  IF tarjan.low[v] = tarjan.index[v]
           THEN /\ tarjan' = [t EXCEPT !.stack = SubSeq(@, 1, from - 1)]
                /\ search' = [inside |-> ToSet(top), left |-> top, path |-> <<>>]
                /\ groups' = Append(groups, ToSet(top))
           ELSE tarjan' = t /\ UNCHANGED <<search, groups>>
    /\ UNCHANGED <<page, stage, flags>>

-----------------------------------------------------------------------------
(* The search of a group, one iteration of a loop a step.  `seen` holds    *)
(* every block but those of the group that are not on the path.  The       *)
(* reversed path starts with the current block, so take_while gives        *)
(* nothing and the target of an edge to a seen block always gets both      *)
(* flags.                                                                  *)

Breaking == stage = "loops" /\ search # NoSearch
path == search.path
Seen(b) == b \notin search.inside \/ \E k \in DOMAIN path : path[k].block = b
BothFlags(b) == flags[b].check /\ flags[b].export
Push(p, b) == Append(p, [block |-> b, at |-> 1])
Top == Last(path)

\* Fault: a block that is exported already is taken to be interruptible.
MarkUnlessExported(f) == [check |-> f.check \/ ~f.export, export |-> TRUE]

\* The flags of the target of an edge back, from its flags so far.
Mark(f) == [check |-> TRUE, export |-> TRUE]

StartSearch ==
    /\ Breaking /\ path = <<>>
    /\ LET b == Head(search.left)
       IN  search' = IF search.left = <<>> THEN NoSearch
                     ELSE [search EXCEPT !.left = Tail(@),
                                         !.path = IF flags[b].export THEN Push(<<>>, b) ELSE <<>>]
    /\ UNCHANGED <<page, stage, flags, tarjan, groups>>

SearchStep ==
    /\ Breaking /\ path # <<>>
    /\ LET next == NextBlocks(Top.block)
           rest == Append(Front(path), [Top EXCEPT !.at = @ + 1])
           b == next[Top.at]
       IN  \/ Top.at > Len(next) /\ search' = [search EXCEPT !.path = Front(path)] /\ UNCHANGED flags
           \/ /\ Top.at <= Len(next) /\ Seen(b)
              /\ search' = [search EXCEPT !.path = rest]
              /\ flags' = [flags EXCEPT ![b] = Mark(@)]
           \/ /\ Top.at <= Len(next) /\ ~Seen(b)
              /\ search' = [search EXCEPT !.path = IF BothFlags(b) THEN rest ELSE Push(rest, b)]
              /\ UNCHANGED flags
    /\ UNCHANGED <<page, stage, tarjan, groups>>

LoopsNext ==
    \/ BuildBlocks \/ NextRoot \/ Visit \/ CloseGroup \/ StartSearch \/ SearchStep

LoopsSpec == LoopsInit /\ [][LoopsNext]_pvars

-----------------------------------------------------------------------------
(* Properties.                                                             *)

\* A set of blocks is closed if page code cannot leave it.
Closed(S) == \A b \in S : ToSet(NextBlocks(b)) \subseteq S
Reaches(a, b) == \A S \in SUBSET Blocks : a \in S /\ Closed(S) => b \in S

\* There is a loop among the blocks S when some of them can be followed for
\* ever without leaving it.
HasLoop(S) == \E T \in SUBSET S : T # {} /\ \A b \in T : ToSet(NextBlocks(b)) \cap T # {}

\* Whatever a block jumps to starts a block, so that the four panics of the
\* computation of `next` are unreachable; and every entry is exported, which
\* receive_compiled_chains relies on when it pairs functions with entries.
NextBlocksExist ==
    stage = "loops" /\ groups = <<>> =>
        /\ \A b \in Blocks : ToSet(NextBlocks(b)) \subseteq Blocks
        /\ \A i \in Instrs : page[i].entry => i \in Blocks /\ flags[i].export

\* The groups are the strongly connected components of the blocks that can be
\* reached from an exported one, the ones that come later in page code first.
ComponentsExact ==
    /\ search # NoSearch /\ Len(search.left) = Cardinality(search.inside) =>
           LET a == Head(search.left)
               before == UNION {groups[k] : k \in 1 .. Len(groups) - 1}
           IN  /\ search.inside = {b \in Blocks : Reaches(a, b) /\ Reaches(b, a)}
               /\ \A b \in before : ~Reaches(b, a)
    /\ stage = "done" =>
           UNION ToSet(groups) = {b \in Blocks : \E a \in Exported : Reaches(a, b)}

\* No loop of a component with an entry goes round without a check of INTR, or
\* without a block at which it can be resumed: the doc of break_loops, for the
\* components it searches.  In a component without an entry a loop can stay whole.
LoopsBroken ==
    search = NoSearch =>
        \A k \in DOMAIN groups : groups[k] \cap Exported # {} =>
            /\ ~HasLoop({b \in groups[k] : ~flags[b].check})
            /\ ~HasLoop({b \in groups[k] : ~flags[b].export})

\* What page code and its loops promise.
PageCodeExact == NextBlocksExist /\ ComponentsExact /\ LoopsBroken
=============================================================================

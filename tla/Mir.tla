-------------------------------- MODULE Mir --------------------------------
(***************************************************************************)
(* The compiler of instructions (codegen/mir/mod.rs).  The commands of an  *)
(* instruction become values and blocks; nothing is written to the CPU     *)
(* structure before an exit, and an exit that fails writes what was true   *)
(* when the instruction began.                                             *)
(*                                                                         *)
(* One instruction after the other is emitted, then the graph is finished  *)
(* and optimised.  Next to it every environment executes the commands of   *)
(* the instructions one by one: the ghost `ref` is the interpreter.        *)
(***************************************************************************)
EXTENDS Lir

CONSTANTS
    Programs,   \* sequences of instructions; only the last may jump or always end
    Cpus,       \* environments: memory, operands and ports
    NTemps      \* temporaries of an instruction

VARIABLES
    prog,   \* the program that is compiled
    count,  \* instructions emitted
    b,      \* the builder
    ref,    \* ghost: what the instructions so far do in each environment
    stage   \* "emit", "built", "decided", "committed"

mirVars == <<prog, count, b, ref, stage>>

-----------------------------------------------------------------------------
(* Commands.  An operand is a temporary, a constant, a slice of the        *)
(* operand bits (`part`), bytes of a register, or bytes of the register    *)
(* that an operand chooses; the builder also has a value at hand.          *)

AlwaysTerminates(ops) ==
    LET RECURSIVE Ends(_)
        Ends(cs) == \E i \in DOMAIN cs :
                        \/ cs[i].c \in {"exception", "handler"}
                        \/ cs[i].c = "if" /\ Ends(cs[i].zero) /\ Ends(cs[i].nonzero)
    IN  Ends(ops)

-----------------------------------------------------------------------------
(* The builder of blocks.                                                  *)

Terminated(m) == m.g[m.cur] # Empty
NewBlocks(m, n) == [m EXCEPT !.g = @ \o [i \in 1 .. n |-> Empty]]
\* switch_to and write_and_switch_to with their assertions.
SwitchTo(m, n) == [m EXCEPT !.cur = n, !.sane = @ /\ Terminated(m)]
WriteAndSwitchTo(m, blk, n) ==
    SwitchTo([m EXCEPT !.g[m.cur] = blk, !.sane = @ /\ ~Terminated(m)], n)
WriteTerminal(m, blk) == WriteAndSwitchTo(m, blk, m.cur)
WriteSeq(m, op, val) ==
    LET n == Len(m.g) + 1
    IN  WriteAndSwitchTo(NewBlocks(m, 1), Block(op, <<n>>, <<val>>), n)

\* The value of the register of a fixed or dynamic operand.
DestValue(st, o, index) ==
    IF o.k = "reg" THEN GetOrCompute(st, o.r) ELSE GetOrComputeDynamic(st, o.choices, index)

RECURSIVE EmitVal(_, _)
EmitVal(m, o) ==
    CASE o.k = "tmp" -> m.tmp[o.n]
      [] o.k = "const" -> Const(o.n)
      [] o.k = "value" -> o.v
      [] o.k = "part" -> Extract(Parts, o.start, o.len)
      [] o.k \in {"reg", "dyn"} ->
            Extract(DestValue(m.st, o, IF o.k = "dyn" THEN EmitVal(m, o.index) ELSE Const(0)),
                    o.start * ByteBits, o.len * ByteBits)

\* The destination, of which an operand gave the index.
EmitStore(m, to, index, new) ==
    IF to.k = "tmp" THEN [m EXCEPT !.tmp[to.n] = new]
    ELSE LET Into(val) == IF to.k = "reg" THEN StoreFixed(m.st, to.r, val)
                          ELSE StoreDynamic(m.st, to.choices, index, val, to.front)
         IN  [m EXCEPT !.st = Into(Combine(DestValue(@, to, index), new, to.start, to.len))]

EmitOp(op, args) ==
    CASE op = "Id" -> args[1]
      [] op = "IsZero" -> Unop(op, 0, args[1])
      [] op = "Ite" -> Ite(args[1], args[2], args[3])
      [] OTHER -> Binop(op, args[1], args[2])

-----------------------------------------------------------------------------
(* Exits.                                                                  *)

\* The places an uncommitted register is written to: bytes of flags that have
\* changed, the low bytes of a register of which only those have, or all of it.
RegCommits(r, v) ==
    LET at == Layout[r].offset
        size == Layout[r].size
        bytes == [n \in 1 .. size |-> <<FixedDest(at + n - 1, 1), Extract(v, (n - 1) * ByteBits, ByteBits)>>]
        low == (CHOOSE n \in 0 .. W : v[4] < 2 ^ n /\ (n = 0 \/ v[4] >= 2 ^ (n - 1))) \div ByteBits
        pow == CHOOSE p \in {1, 2, 4} : p >= low /\ (p = 1 \/ p \div 2 < low)
    IN  IF r \in Flags
        THEN SelectSeq(bytes, LAMBDA p : p[2] # LoadImm(p[1].at, 1))
        ELSE IF Is("blend", v) /\ v[2] = Field(r) /\ low <= size \div 2
        THEN <<<<FixedDest(at, pow), Extract(v, 0, pow * ByteBits)>>>>
        ELSE <<<<RegDest(r), v>>>>

Lowest(choices) ==
    CHOOSE n \in {Layout[r].offset : r \in ToSet(choices) \ {NoReg}} :
        \A r \in ToSet(choices) \ {NoReg} : n <= Layout[r].offset

FixedCommits(st, regs) == FlattenSeq([i \in DOMAIN regs |-> RegCommits(regs[i], st.fixed[regs[i]])])

DynCommit(d) == <<DynDest(DynamicOffset(d.choices, d.index), Layout[AnyChoice(d.choices)].size), d.val>>
DynCommits(dyns) == [i \in DOMAIN dyns |-> DynCommit(dyns[i])]

ExitWriting(m, all, ok, jump) ==
    WriteTerminal(m, Exit([i \in DOMAIN all |-> all[i][1]], [i \in DOMAIN all |-> all[i][2]], jump, ok))

CommitAndExit(m, st, ok, jump) ==
    ExitWriting(m, FixedCommits(st, ByOffset(DOMAIN st.fixed))
                   \o DynCommits(SortSeq(st.dynamic, LAMBDA c, d : Lowest(c.choices) < Lowest(d.choices))),
                ok, jump)

\* terminate_block_if_needed
CommitNow(m, ok) == CommitAndExit(m, m.st, ok, m.jump)

\* The bytes of the instruction pointer that wide and narrow code use.
IpWidth(wide) == Layout["ip"].size \div (IF wide THEN 2 ELSE 4)

\* emit_jump: the next instruction pointer, and the command that stores it.
JumpTarget(j, ip, next, args) ==
    CASE j.kind = "sequential" -> next
      [] j.kind = "repeat" -> Ite(args[1], next, ip)
      [] j.kind = "near" -> Ite(args[1], next, Binop("Add", next, args[2]))

Assigned(to, val) == [c |-> "store", to |-> to, op |-> "Id", args |-> <<[k |-> "value", v |-> val]>>]

EmitJump(m, instr, args) ==
    LET ip == GetOrCompute(m.st, "ip")
        target == JumpTarget(instr.jump, ip, Binop("Add", ip, Const(instr.len)), args)
    IN  Assigned([k |-> "reg", r |-> "ip", start |-> 0, len |-> IpWidth(instr.big \/ instr.jump.kind = "near")],
                 Extract(target, 0, IpWidth(instr.big) * ByteBits))

\* Two more commands of the builder: the jump of the instruction, and the jump
\* and the exit of a block that does not have one.
JumpCmd     == [c |-> "jump"]
ExitCmd(ok) == [c |-> "exit", ok |-> ok]

\* Fault: what the instruction has done so far is written.
EmitExceptionLate(m) ==
    CommitAndExit(WriteSeq(m, "exception", Const(0)), m.st, FALSE, <<>>)

\* An exception leaves the CPU as it was when the instruction began.
EmitException(m) ==
    CommitAndExit(WriteSeq(m, "exception", Const(0)), m.init, FALSE, <<>>)

\* A port read that fails is an exception.
EmitIn(m, port) ==
    LET n == Len(m.g)
        in == [Block("in", <<n + 2, n + 1>>, <<port>>) EXCEPT !.to = <<m.nvar>>]
        fail == CommitAndExit(WriteAndSwitchTo(NewBlocks(m, 2), in, n + 1), m.init, FALSE, <<>>)
    IN  [SwitchTo(fail, n + 2) EXCEPT !.nvar = @ + 1]

-----------------------------------------------------------------------------
(* Conditions.  `last` says that nothing follows the command.              *)

RestoreTo(m, before) == [m EXCEPT !.st = before.st, !.tmp = before.tmp]

\* The blocks with the variables u of either side, and the state after them.
MeetIn(m, zero, nonzero, pairs, u, join) ==
    LET merged == [m EXCEPT !.st = MergedState(zero.st, nonzero.st, u.vals),
                            !.tmp = [i \in 1 .. NTemps |-> u.vals[Len(pairs) + i]],
                            !.nvar = u.next]
    IN  WriteAndSwitchTo(WriteAndSwitchTo(merged, Assign(u.vars, u.sets[1], join), join - 1),
                         Assign(u.vars, u.sets[2], join), join)

\* Backup::merge
MergeValues(m, zero, nonzero, pairs, join) ==
    LET temps == [i \in 1 .. NTemps |-> <<zero.tmp[i], nonzero.tmp[i]>>]
    IN  MeetIn(m, zero, nonzero, pairs, Unify(pairs \o temps, m.nvar), join)

MergePaths(zero, nonzero, join) ==
    MergeValues(nonzero, zero, nonzero, MergePairs(zero.st, nonzero.st), join)

\* What is left to do where a condition is the last command of its instruction
\* or ends it on both sides, on one side, or on neither.
IfKind(c, last) ==
    CASE last \/ (AlwaysTerminates(c.zero) /\ AlwaysTerminates(c.nonzero)) -> "end"
      [] ~last /\ AlwaysTerminates(c.zero) /\ ~AlwaysTerminates(c.nonzero) -> "zero"
      [] ~last /\ ~AlwaysTerminates(c.zero) /\ AlwaysTerminates(c.nonzero) -> "nonzero"
      [] OTHER -> "meet"

\* The end x of a side that meets the other in block `after`.
LeaveMeeting(x, after, next) ==
    IF Terminated(x) THEN SwitchTo(x, next) ELSE WriteAndSwitchTo(x, Jump(after), next)

\* The end y of the second side, and where the commands after the condition go.
LeaveIf(y, first, kind, n) ==
    CASE kind = "end" -> SwitchTo(NewBlocks(y, 1), Len(y.g) + 1)
      [] kind = "meet" -> MergePaths(first, LeaveMeeting(y, n + 4, n + 3), n + 5)
      [] OTHER -> [y EXCEPT !.sane = @ /\ ~Terminated(y)]

\* From the end x of the first side to the second.
LeaveFirst(x, kind, after, next) ==
    IF kind = "meet" THEN LeaveMeeting(x, after, next) ELSE SwitchTo(x, next)

RECURSIVE EmitCommands(_, _, _, _)

EmitSide(m, ops, last, instr, kind) ==
    EmitCommands(m, IF kind = "end" THEN Append(ops, ExitCmd(TRUE)) ELSE ops, last, instr)

\* The second side starts from what was known before the condition.
EmitIf(m, c, cond, last, instr, kind) ==
    LET n == Len(m.g)
        sides == IF kind = "nonzero" THEN <<n + 2, c.nonzero, n + 1, c.zero>> ELSE <<n + 1, c.zero, n + 2, c.nonzero>>
        entry == WriteAndSwitchTo(NewBlocks(m, IF kind = "meet" THEN 5 ELSE 2), Br(cond, n + 1, n + 2), sides[1])
        Second(first) ==
            LeaveIf(EmitSide(RestoreTo(first, m), sides[4], last, instr, kind), first, kind, n)
    IN  Second(LeaveFirst(EmitSide(entry, sides[2], last, instr, kind), kind, n + 3, sides[3]))

\* The operands that a command reads.
Reads(c, instr) ==
    CASE c.c = "store" -> c.args \o (IF c.to.k = "dyn" THEN <<c.to.index>> ELSE <<>>)
      [] c.c = "in" -> <<c.port>>
      [] c.c = "if" -> <<c.cond>>
      [] c.c = "handler" -> <<c.arg>>
      [] c.c = "jump" /\ instr.jump.kind = "repeat" -> <<instr.jump.cond>>
      [] c.c = "jump" /\ instr.jump.kind = "near" -> <<instr.jump.cond, instr.jump.offset>>
      [] OTHER -> <<>>

EmitCmd(m, c, args, last, instr) ==
    LET Then(x, cmd) == EmitCommands(x, <<cmd>>, FALSE, instr)
    IN  CASE c.c = "store" -> EmitStore(m, c.to, args[Len(args)], EmitOp(c.op, args))
          [] c.c = "in" -> Then(EmitIn(m, args[1]), Assigned(c.to, Var(m.nvar)))
          [] c.c = "if" -> EmitIf(m, c, args[1], last, instr, IfKind(c, last))
          [] c.c = "exception" -> EmitException(m)
          [] c.c = "handler" -> Then(WriteSeq(m, "handler", args[1]), ExitCmd(FALSE))
          [] c.c = "jump" -> [Then(m, EmitJump(m, instr, args)) EXCEPT !.jump = SubSeq(args, 1, IF args = <<>> THEN 0 ELSE 1)]
          [] c.c = "exit" -> IF Terminated(m) THEN m ELSE CommitNow(Then(m, JumpCmd), c.ok)

\* Only the commands of the builder follow the last one of the instruction.
EmitCommands(m, ops, last, instr) ==
    LET IsLast(i) == last /\ \A k \in i + 1 .. Len(ops) : ops[k].c \in {"jump", "exit"}
    IN  FoldLeft(LAMBDA x, i :
                    EmitCmd(x, ops[i], [k \in DOMAIN Reads(ops[i], instr) |-> EmitVal(x, Reads(ops[i], instr)[k])],
                            IsLast(i), instr),
                 m, [i \in DOMAIN ops |-> i])

-----------------------------------------------------------------------------
(* The interpreter of commands (il/mod.rs), in an environment.             *)

RECURSIVE Operand(_, _)
Operand(s, o) ==
    LET Of(r) == Slice(Bytes(s.mem, Layout[r].offset, Layout[r].size), o.start * ByteBits, o.len * ByteBits)
    IN  CASE o.k = "tmp" -> s.tmp[o.n]
          [] o.k = "const" -> o.n
          [] o.k = "part" -> Slice(s.parts, o.start, o.len)
          [] o.k = "reg" -> Of(o.r)
          [] o.k = "dyn" -> Of(o.choices[Operand(s, o.index) + 1])

Put(s, to, v) ==
    LET Into(r) == [s EXCEPT !.mem = Write(@, Layout[r].offset + to.start, to.len, v)]
    IN  CASE to.k = "tmp" -> [s EXCEPT !.tmp[to.n] = v]
          [] to.k = "reg" -> Into(to.r)
          [] to.k = "dyn" -> Into(to.choices[Operand(s, to.index) + 1])

Failed(s, why) == [s EXCEPT !.mem = s.begin, !.raised = why, !.ok = FALSE, !.done = TRUE]

Jumped(s, instr, ok) ==
    LET j == instr.jump
        ip == Operand(s, [k |-> "reg", r |-> "ip", start |-> 0, len |-> Layout["ip"].size])
        next == ip + instr.len
        taken == Operand(s, j.cond) # 0
        target == CASE j.kind = "sequential" -> next
                    [] j.kind = "repeat" -> IF taken THEN ip ELSE next
                    [] j.kind = "near" -> IF taken THEN next + Operand(s, j.offset) ELSE next
        width == IpWidth(instr.big)
        len == IpWidth(instr.big \/ j.kind = "near")
    IN  [s EXCEPT !.mem = Write(@, Layout["ip"].offset, len, target % 2 ^ (width * ByteBits)),
                  !.jump = IF j.kind = "sequential" THEN <<>> ELSE <<taken>>,
                  !.ok = ok]

RECURSIVE Perform(_, _, _)
Perform(s, ops, instr) ==
    FoldLeft(LAMBDA t, c :
            IF t.done THEN t
            ELSE CASE c.c = "store" ->
                        LET Arg(i) == Operand(t, c.args[i])
                        IN  Put(t, c.to, CASE c.op = "Id" -> Arg(1)
                                           [] c.op = "IsZero" -> ExecuteUn(c.op, 0, Arg(1))
                                           [] c.op = "Ite" -> IF Arg(1) = 0 THEN Arg(2) ELSE Arg(3)
                                           [] OTHER -> Execute(c.op, Arg(1), Arg(2)))
                   [] c.c = "in" ->
                        LET u == [t EXCEPT !.ports = Append(@, Operand(t, c.port))]
                        IN  IF t.fails THEN Failed(u, t.raised) ELSE Put(u, c.to, t.input)
                   [] c.c = "if" -> Perform(t, IF Operand(t, c.cond) = 0 THEN c.zero ELSE c.nonzero, instr)
                   [] c.c = "exception" -> Failed(t, "exception")
                   [] c.c = "handler" ->
                        Jumped([t EXCEPT !.raised = <<"handler", Operand(t, c.arg)>>, !.done = TRUE], instr, FALSE),
             s, ops)

Execution(s, instr) ==
    IF s.done THEN s
    ELSE LET Ended(t) == IF t.done THEN t ELSE Jumped(t, instr, TRUE)
         IN  Ended(Perform([s EXCEPT !.begin = s.mem, !.tmp = [i \in 1 .. NTemps |-> 0]], instr.cmds, instr))

-----------------------------------------------------------------------------
(* The steps of the compiler.                                              *)

NoTemps == [i \in 1 .. NTemps |-> Const(0)]

\* build_from_sequence makes a block for every instruction.
MirInit ==
    /\ prog \in Programs
    /\ count = 0
    /\ b = [g |-> [n \in 1 .. Len(prog) + 1 |-> Empty], cur |-> 1, st |-> EmptyState, init |-> EmptyState,
            tmp |-> NoTemps, nvar |-> 1, jump |-> <<>>, sane |-> TRUE]
    /\ ref = [e \in Cpus |-> [tmp |-> <<>>, begin |-> e.mem, done |-> FALSE, ok |-> TRUE, jump |-> <<>>] @@ e]
    /\ stage = "emit"

\* emit_jump of the builder to the block, and emit_encoding_without_jump.
EmitInstr ==
    /\ stage = "emit" /\ count < Len(prog)
    /\ LET instr == prog[count + 1]
           entry == WriteAndSwitchTo(b, Jump(count + 2), count + 2)
           begun == [entry EXCEPT !.init = b.st, !.tmp = NoTemps]
       IN  /\ b' = EmitCommands(begun, Append(instr.cmds, JumpCmd), count + 1 = Len(prog), instr)
           /\ ref' = [e \in Cpus |-> Execution(ref[e], instr)]
    /\ count' = count + 1
    /\ UNCHANGED <<prog, stage>>

\* A branch on a constant is a jump.
Direct(blk) ==
    IF blk.op = "br" /\ IsConst(blk.vals[1])
    THEN Jump(blk.next[IF blk.vals[1] = Const(0) THEN 1 ELSE 2]) ELSE blk

Built(m) == [m EXCEPT !.g = [n \in DOMAIN m.g |-> Direct(m.g[n])],
                      !.sane = @ /\ \A n \in DOMAIN m.g : m.g[n] # Empty]

\* terminate_block_if_needed, finish and build.
Finish ==
    /\ stage = "emit" /\ count = Len(prog)
    /\ b' = Built(IF Terminated(b) THEN b ELSE CommitNow(b, TRUE))
    /\ stage' = "built"
    /\ UNCHANGED <<prog, count, ref>>

Decide ==
    /\ stage = "built"
    /\ b' = [b EXCEPT !.g = ApplyConditions(@)]
    /\ stage' = "decided"
    /\ UNCHANGED <<prog, count, ref>>

CommitEarly ==
    /\ stage = "decided"
    /\ LET acc == EarlyCommits(b.g)
       IN  b' = [b EXCEPT !.g = acc.g, !.sane = @ /\ acc.agree]
    /\ stage' = "committed"
    /\ UNCHANGED <<prog, count, ref>>

MirNext == EmitInstr \/ Finish \/ Decide \/ CommitEarly

-----------------------------------------------------------------------------
\* What the code leaves, and what the commands leave.
Agree(out, s) ==
    /\ out.defined
    /\ out.mem = s.mem /\ out.ok = s.ok /\ out.raised = s.raised /\ out.ports = s.ports
    /\ out.ok => out.jump = s.jump

\* Compiled code leaves the CPU, the ports and the last jump as the commands of
\* its instructions do, at every stage of its optimisation, and uses no value
\* that is computed elsewhere.
CodeExact ==
    stage # "emit" => LET defs == Definitions(b.g) IN \A e \in Cpus : Agree(Run(b.g, defs, e), ref[e])

\* The assertions of the builder hold: blocks are filled once and left filled,
\* and the paths that meet have committed the same places.
BuilderSane == b.sane

\* A block dominates another where no path from the root leaves it out, and the
\* block that is found for two blocks dominates both.
DominatorsExact ==
    stage = "built" =>
        LET RECURSIVE Around(_, _)
            Around(n, m) == IF m = n THEN {} ELSE {m} \cup UNION {Around(n, k) : k \in ToSet(b.g[m].next)}
            dt == DominatorTree(b.g)
            blocks == Reach(b.g, 1)
        IN  \A n \in blocks \ {1} : \A m \in blocks :
                /\ Dominates(dt, n, m) <=> m \notin Around(n, 1)
                /\ m # 1 => \A d \in {n, m} : Lca(dt, n, m) \notin {k \in blocks : d \in Around(k, 1)}
=============================================================================

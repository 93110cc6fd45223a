------------------------------ MODULE MCDevices ------------------------------
(***************************************************************************)
(* The IDE channel, the devices of Devices and the page compiler.  They    *)
(* share no state, so each behaviour is one of the component `focus` and   *)
(* the others stay as they are at power-on: together the behaviours are    *)
(* all the behaviours of each component.                                   *)
(***************************************************************************)
EXTENDS Ide, Devices, PageLoops

-----------------------------------------------------------------------------
(* The disk has two sectors of two words, the copy-on-write file two       *)
(* sectors of two cells, the ring of the network card four pages, and so   *)
(* on: the README says why these bounds are enough.                        *)

MCPackets ==
    [cmd : {"Read"}, ok : {TRUE}, len : {3}]
    \cup [cmd : {"ModeSense", "ReadSubchannel"}, ok : BOOLEAN, len : {1}]
    \cup [cmd : {"TestUnitReady", "StartStopUnit", "unknown"}, ok : {TRUE}, len : {1}]

-----------------------------------------------------------------------------
(* Pages of three instructions with all jumps between them, some with I/O, *)
(* a handler and far jumps, and pages of four blocks with two exits each.  *)

To(targets) ==
    [known |-> TRUE, to |-> targets, links |-> <<>>, entry |-> FALSE, handler |-> FALSE, io |-> FALSE]
Far(targets) == [To(<<>>) EXCEPT !.known = FALSE, !.links = targets]
Entry(i) == [i EXCEPT !.entry = TRUE]
Near(i) ==
    LET fall == (i + 1) % 4
        all3 == {To(<<t>>) : t \in 1 .. 3} \cup {To(<<fall, t>>) : t \in 0 .. 3}
    IN  all3 \cup {Entry(j) : j \in all3}
Special ==
    {Far(<<>>), [To(<<2>>) EXCEPT !.handler = TRUE], Entry(Far(<<3>>)), [Far(<<2, 1>>) EXCEPT !.io = TRUE]}
Fork(i) == {Far(t) : t \in {<<1, 3>>, <<2, 4>>, <<3, 2>>, <<i, 1>>, <<4>>}}
MCPages ==
    {<<i, j, k>> : i \in Near(1), j \in Near(2), k \in Near(3) \cup Special}
    \cup {<<i, Entry(j), k, l>> : i \in Fork(1), j \in Fork(2), k \in Fork(3), l \in Fork(4)}

ASSUME ConstantsAssumption == IdeAssumption /\ DevicesAssumption /\ CodePagesAssumption

-----------------------------------------------------------------------------
(* One component at a time.                                                *)

\* At power-on the page compiler has no request.
NoRequest ==
    /\ page = <<>> /\ stage = "done" /\ flags = <<>> /\ tarjan = NoTarjan
    /\ search = NoSearch /\ groups = <<>>

MCInit ==
    /\ Init /\ PowerOnDevices
    /\ \/ focus \in {"ide"} \cup DeviceNames /\ NoRequest
       \/ focus = "pages" /\ LoopsInit

MCNext ==
    \/ focus = "ide" /\ Next /\ UNCHANGED <<devicesVars, pvars>>
    \/ DevicesNext /\ UNCHANGED <<ideVars, pvars>>
    \/ focus = "pages" /\ LoopsNext /\ UNCHANGED <<ideVars, devicesVars>>

MCSpec == MCInit /\ [][MCNext]_<<ideVars, devicesVars, pvars>>
=============================================================================

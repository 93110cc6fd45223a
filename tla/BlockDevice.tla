----------------------------- MODULE BlockDevice -----------------------------
(***************************************************************************)
(* What a disk promises its driver.  A job names a direction, a first      *)
(* sector and a number of sectors.  The words of a write are stored in the *)
(* sectors it names, in order and nowhere else; the words of a read are    *)
(* those of the sectors it names.  Ide implements this specification.      *)
(***************************************************************************)
EXTENDS Naturals, Sequences

CONSTANTS
    W,      \* words per sector
    Lbas,   \* the sector numbers
    Words   \* the words

VARIABLES
    store,  \* the contents of each sector
    job,    \* the job under way: kind, next sector, sectors left, words of the sector
    out,    \* the last word read
    ram     \* the driver's buffer for DMA

bdVars == <<store, job, out, ram>>

NoJob == [kind |-> "none", at |-> 0, left |-> 0, words |-> <<>>]

\* The words of n sectors from a.
Stored(s, a, n) == [i \in 1 .. n * W |-> s[a + (i - 1) \div W][((i - 1) % W) + 1]]

\* The job after one more word.
Moved(j, w) ==
    LET words == Append(j.words, w)
    IN IF Len(words) < W THEN [j EXCEPT !.words = words]
       ELSE IF j.left = 1 THEN NoJob
       ELSE [j EXCEPT !.at = @ + 1, !.left = @ - 1, !.words = <<>>]

Begin(kind, first, last) ==
    /\ job = NoJob
    /\ first <= last /\ first .. last \subseteq Lbas
    /\ job' = [kind |-> kind, at |-> first, left |-> last - first + 1, words |-> <<>>]
    /\ kind # "dma_write" => ram' = ram
    /\ UNCHANGED <<store, out>>

Put(w) ==
    /\ job.kind = "write"
    /\ job' = Moved(job, w)
    /\ store' = IF Len(job.words) + 1 < W THEN store
                ELSE [store EXCEPT ![job.at] = Append(job.words, w)]
    /\ UNCHANGED <<out, ram>>

Get ==
    /\ job.kind = "read"
    /\ out' = store[job.at][Len(job.words) + 1]
    /\ job' = Moved(job, out')
    /\ UNCHANGED <<store, ram>>

\* The whole job at once (DMA).
TransferIn ==
    /\ job.kind = "dma_read"
    /\ ram' = Stored(store, job.at, job.left)
    /\ job' = NoJob
    /\ UNCHANGED <<store, out>>

TransferOut ==
    /\ job.kind = "dma_write"
    /\ store' = [s \in Lbas |-> IF s \in job.at .. job.at + job.left - 1
                                THEN SubSeq(ram, (s - job.at) * W + 1, (s - job.at + 1) * W)
                                ELSE store[s]]
    /\ job' = NoJob
    /\ UNCHANGED <<out, ram>>

\* Between jobs the driver uses its buffer and the data port for other things.
Idle == job = NoJob /\ UNCHANGED <<store, job>>

Next ==
    \/ Idle
    \/ \E kind \in {"read", "write", "dma_read", "dma_write"}, first, last \in Lbas :
          Begin(kind, first, last)
    \/ \E w \in Words : Put(w)
    \/ Get
    \/ TransferIn
    \/ TransferOut

Init == /\ store \in [Lbas -> [1 .. W -> Words]]
        /\ job = NoJob

Spec == Init /\ [][Next]_bdVars
=============================================================================

---------------------------- MODULE MCInstrCache ----------------------------
(* Opcodes for InstrCache: a conditional jump of one byte, and a far jump   *)
(* or a MOV CR0 of two bytes, which go through a handler.                   *)
EXTENDS InstrCache

MCLength  == [b \in Byte |-> IF b = "jcc" THEN 1 ELSE 2]
MCInitMem == [a \in Addr |-> IF a = 2 THEN "ljmp" ELSE "jcc"]
MCInitMemCr0 == [a \in Addr |-> IF a = 0 THEN "cr0" ELSE "jcc"]
MCDma     == {<<0, Size>>}
MCDmaUnaligned == {<<1, Size>>}
=============================================================================

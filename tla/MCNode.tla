------------------------------- MODULE MCNode -------------------------------
(* Node for TLC: one validator that registers after each start.              *)
EXTENDS Node

\* After a restart two blocks may share a slot, so ties are broken by hash:
\* any injective numbering of the branches will do.
RECURSIVE Code(_)
Code(hash) ==
  IF hash = <<>> THEN 0
  ELSE LET header == hash[Len(hash)]
       IN 16 * Code(SubSeq(hash, 1, Len(hash) - 1))
            + 3 * header.Slot + header.Validator + 1

MCHashLess(a, b) == Code(a) < Code(b)

JoinAndFork == {"AddBlockExternal", "AddValidator"}
JoinForkAndVerify == JoinAndFork \cup {"VerifyChain"}
OneKey == {<<1, 1>>}
=============================================================================

---------------------------- MODULE FinalizedLog ----------------------------
(* What finality promises to somebody who reads the chain: the finalized     *)
(* part is a log.  Entries are only ever added behind the last one, never    *)
(* changed and never removed, whatever forks come and go above them.         *)
EXTENDS Naturals

CONSTANT FirstEntry  \* the genesis header

VARIABLE log  \* a sequence of headers

LogInit == DOMAIN log = {1} /\ log[1] = FirstEntry

\* Any number of entries, possibly none, becomes final.
LogExtend ==
  /\ \A i \in DOMAIN log : i \in DOMAIN log' /\ log'[i] = log[i]
  /\ \E n \in DOMAIN log' : DOMAIN log' = 1..n

LogSpec == LogInit /\ [][LogExtend]_log
=============================================================================

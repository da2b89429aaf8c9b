---------------------------- MODULE MCFileStores ----------------------------
(* FileStores for TLC: genesis, two blocks on it and one on the first.       *)
EXTENDS FileStores

Genesis == <<0>>
First == <<0, 1>>
Fork == <<0, 2>>
Second == <<0, 1, 3>>

MCBlocks == {Genesis, First, Fork, Second}
MCTooLong == {Second}

\* A bound: one of the two stores is used.  They share nothing but the process.
OneStoreInUse == disk = EmptyFile \/ files = NoFiles

MCSpec == Init /\ [][Next /\ OneStoreInUse']_vars
=============================================================================

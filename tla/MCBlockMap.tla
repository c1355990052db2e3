----------------------------- MODULE MCBlockMap ------------------------------
(***************************************************************************)
(* An instance of BlockMap for TLC: where the calls read and write.        *)
(***************************************************************************)
EXTENDS BlockMap

\* Inode 1 through every level, in any order, with holes; inode 2 is a file
\* of mkfs that is truncated.
WritesDeep == {1} \X {0, 3, 5, 9} \X {2}
ReadsDeep == {1} \X {8}
Images == {<<3, 1>>, <<0, 0>>}
=============================================================================

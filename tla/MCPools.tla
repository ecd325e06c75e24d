------------------------------ MODULE MCPools --------------------------------
(***************************************************************************)
(* Values of the constants with which TLC checks the heap and the buffer   *)
(* pools: requests of one and of two memblks, and pools of buffers with    *)
(* and without padding.                                                    *)
(***************************************************************************)
EXTENDS BufferPools, TLC

Pools2 == {<<8, 2>>, <<9, 1>>}
Symmetric == Permutations(User)
=============================================================================

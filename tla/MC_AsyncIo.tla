------------------------------ MODULE MC_AsyncIo ------------------------------
(* AsyncIo for TLC: files of two cells, standard buffers of two bytes.        *)
EXTENDS AsyncIo, TLC

Permuted == Permutations(Op \ Address)
===============================================================================

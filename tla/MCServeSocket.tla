---------------------------- MODULE MCServeSocket ----------------------------
(* Instances of the start of serve for TLC.  Keys are interchangeable, and    *)
(* so are servers that listen at the same path.                               *)
EXTENDS ServeSocket, TLC

Symmetry == Permutations(Key) \cup Permutations(Server \ Elsewhere)
=============================================================================

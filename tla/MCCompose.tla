------------------------------ MODULE MCCompose ------------------------------
(* A hook with the default times, in ticks of a quarter of a second.        *)
EXTENDS Compose
=============================================================================

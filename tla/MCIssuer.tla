------------------------------ MODULE MCIssuer ------------------------------
(***************************************************************************)
(* Instances of Issuer for TLC.  Ids are interchangeable, so are handlers. *)
(***************************************************************************)
EXTENDS Issuer, TLC

Symmetry == Permutations(Handler) \cup Permutations(Jti)

\* One disturbance at a time: a process that starts or execs, an edited
\* definition file or a restart of the issuer; exits and time are free.
OneDisturbance == spawns + edits + run <= 1
=============================================================================

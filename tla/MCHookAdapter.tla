--------------------------- MODULE MCHookAdapter ---------------------------
(* Instances of the hook adapter for TLC.  Hook processes differ only in    *)
(* what they have done; sessions are not interchangeable, since an idle     *)
(* hook names one.                                                          *)
EXTENDS HookAdapter, TLC

HookSymmetry == Permutations(Hook)

\* Bounds the instance: resumes under another type and refreshes are explored
\* where nothing fails and nothing is old enough to be pruned or reaped, and a
\* fault either with two directories or before anything is that old.
OneConcern ==
  /\ \/ \E s \in Session : sess[s].start \notin Plain \cup {NoType}
     \/ \E h \in Hook : \/ hook[h].type \notin Plain \cup {NoType}
                        \/ hook[h].pc \in {"prompt", "renew"}
     => clock <= 1 /\ faults = 0
  /\ faults > 0 => Len(grants) <= 2 \/ clock <= 1
=============================================================================

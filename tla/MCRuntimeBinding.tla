-------------------------- MODULE MCRuntimeBinding --------------------------
(***************************************************************************)
(* An instance of RuntimeBinding for TLC: the images of a host with a      *)
(* runtime, a shell that runs commands or scripts and two versions of the  *)
(* client.                                                                 *)
(***************************************************************************)
EXTENDS RuntimeBinding

MCFileOf == [gk1 |-> "file gk1", gk2 |-> "file gk2", runtime |-> "file runtime",
             sh_c |-> "file sh", sh_script |-> "file sh", python_c |-> "file py",
             init |-> "file init"]

\* A client, a process, the runtime and init above one another, of one user.
OneChain ==
  /\ \A p \in Pid \ {1} : table[p].uid = 1000
  /\ table[Newest].image = installed /\ table[Newest].ppid = Newest - 1
  /\ table[Newest - 1].ppid = Newest - 2
  /\ table[Newest - 2].image = "runtime"
  /\ \A p \in 2 .. (Newest - 2) : table[p].ppid = 1
  /\ \A p \in 2 .. (Newest - 3) : table[p].image = "runtime"

\* The youngest process asks, and of the two versions, which differ in nothing but
\* their name, the first is installed.  Any table may stand still; the host changes
\* only the one chain.
MCInit == installed = "gk1" /\ Init /\ peer.pid = Newest

MCNext == Walk \/ (Reading /\ (events = 0 => OneChain) /\ Host)

MCSpec == MCInit /\ [][MCNext]_vars
=============================================================================

------------------------------- MODULE Publish -------------------------------
(***************************************************************************)
(* How a file is made visible (publishFileAt, publishRelative of serve,    *)
(* writeAtomic of hooks-install): write a temporary name, flush it, move   *)
(* it to its final name, flush the directory.  The machine may lose power  *)
(* between any two steps.                                                  *)
(*                                                                         *)
(* What is written is in the page cache until it is flushed, and a power   *)
(* failure leaves any part of what was not.  A change of a directory entry *)
(* is atomic on disk, and a directory flush orders it before what follows. *)
(*                                                                         *)
(* The key set and the settings of a runtime are in a directory that       *)
(* exists and are written again and again; an assertion is in the delivery *)
(* directory its writer made, whose own entry is flushed last.  A writer   *)
(* is one call, and a second one of an assertion stands for whoever put    *)
(* the entry there first.                                                  *)
(***************************************************************************)
EXTENDS Integers, Sequences

CONSTANTS Writer, None
CONSTANTS MaxFailures, MaxCrashes   \* bounds of the instance

ASSUME NamesAssumption == None \notin Writer
ASSUME BoundAssumption == MaxFailures \in Nat /\ MaxCrashes \in Nat

VARIABLES
  file,      \* "keys", "settings" or "assertion"
  pc,        \* how far each call is
  content,   \* what the file each call wrote holds
  synced,    \* calls whose file is flushed
  name,      \* whose file has the final name
  onDisk,    \* whose file, or None, may have it after a power failure
  home,      \* the directory: "absent", "cached" or "durable"
  moved,     \* history: the calls in the order they took the final name
  failures, crashes

vars == <<file, pc, content, synced, name, onDisk, home, moved, failures, crashes>>
setting == <<file, failures, crashes>>

Replaced == file # "assertion"

Pcs == {"idle", "made", "open", "written", "synced", "named", "flushed",
        "rooted", "done", "kept", "failed"}

At(w, p) == pc[w] = p
Goto(w, p) == pc' = [pc EXCEPT ![w] = p]

-----------------------------------------------------------------------------
\* SpawnDirs.Create, then the open of the directory; the key set's is there.
CreateDir(w) ==
  /\ At(w, "idle") /\ Goto(w, "made")
  /\ home' = IF home = "absent" THEN "cached" ELSE home
  /\ UNCHANGED <<content, synced, name, onDisk, moved, setting>>

OpenTemp(w) ==
  /\ At(w, "made") /\ Goto(w, "open")
  /\ content' = [content EXCEPT ![w] = "empty"]
  /\ UNCHANGED <<synced, name, onDisk, home, moved, setting>>

Write(w) ==
  /\ At(w, "open") /\ Goto(w, "written")
  /\ content' = [content EXCEPT ![w] = "full"]
  /\ UNCHANGED <<synced, name, onDisk, home, moved, setting>>

\* Broken form: the file is not flushed before it is named.
Sync_Skipped(w) ==
  /\ At(w, "written") /\ Goto(w, "synced")
  /\ UNCHANGED <<content, synced, name, onDisk, home, moved, setting>>

Sync(w) ==
  /\ At(w, "written") /\ Goto(w, "synced")
  /\ synced' = synced \cup {w}
  /\ UNCHANGED <<content, name, onDisk, home, moved, setting>>

\* rename(2) replaces the name; link(2) fails if it is there.
Move(w) ==
  /\ At(w, "synced")
  /\ IF Replaced \/ name = None
       THEN /\ Goto(w, "named")
            /\ name' = w /\ onDisk' = onDisk \cup {w} /\ moved' = Append(moved, w)
       ELSE Goto(w, "failed") /\ UNCHANGED <<name, onDisk, moved>>
  /\ UNCHANGED <<content, synced, home, setting>>

\* Broken form: success is reported when the name is there.
FlushDir_Skipped(w) ==
  /\ At(w, "named")
  /\ Goto(w, IF Replaced THEN "done" ELSE "flushed")
  /\ UNCHANGED <<content, synced, name, onDisk, home, moved, setting>>

FlushDir(w) ==
  /\ At(w, "named")
  /\ Goto(w, IF Replaced THEN "done" ELSE "flushed")
  /\ onDisk' = {name}
  /\ UNCHANGED <<content, synced, name, home, moved, setting>>

\* publishRelative makes tmp/ and flushes the directory again,
MakeTmp(w) ==
  /\ At(w, "flushed") /\ Goto(w, "rooted")
  /\ onDisk' = {name}
  /\ UNCHANGED <<content, synced, name, home, moved, setting>>

\* Broken form: the directory's own entry is left to the kernel.
FlushRoot_Skipped(w) ==
  /\ At(w, "rooted") /\ Goto(w, "done")
  /\ UNCHANGED <<content, synced, name, onDisk, home, moved, setting>>

\* then the spawn root that holds it.
FlushRoot(w) ==
  /\ At(w, "rooted") /\ Goto(w, "done")
  /\ home' = "durable"
  /\ UNCHANGED <<content, synced, name, onDisk, moved, setting>>

\* A call fails: the temporary name goes, a final name that is there stays.
Fails(w) ==
  /\ pc[w] \notin {"idle", "done", "kept", "failed"}
  /\ failures < MaxFailures /\ failures' = failures + 1
  /\ Goto(w, "failed")
  /\ UNCHANGED <<content, synced, name, onDisk, home, moved, file, crashes>>

\* Power is lost and the machine starts again: running calls are gone.
PowerLoss ==
  /\ crashes < MaxCrashes /\ crashes' = crashes + 1
  /\ pc' = [w \in Writer |-> IF pc[w] \in {"idle", "done", "kept"} THEN pc[w] ELSE "failed"]
  /\ home' \in IF home = "cached" THEN {"absent", "durable"} ELSE {home}
  /\ name' \in IF home' = "absent" THEN {None} ELSE onDisk
  /\ onDisk' = {name'}
  /\ content' \in {c \in [Writer -> {"none", "empty", "torn", "full"}] :
       \A w \in Writer :
         IF w \in synced \/ content[w] \in {"none", "empty"}
           THEN c[w] = content[w] ELSE c[w] # "none"}
  /\ synced' = {w \in Writer : content'[w] # "none"}
  /\ UNCHANGED <<file, moved, failures>>

-----------------------------------------------------------------------------
Init ==
  /\ file \in {"keys", "settings", "assertion"}
  /\ pc = [w \in Writer |-> "idle"]
  /\ content = [w \in Writer |-> "none"]
  /\ synced = {} /\ name = None /\ onDisk = {None}
  /\ home = IF Replaced THEN "durable" ELSE "absent"
  /\ moved = <<>> /\ failures = 0 /\ crashes = 0

Next ==
  \/ \E w \in Writer :
       \/ CreateDir(w) \/ OpenTemp(w) \/ Write(w) \/ Sync(w) \/ Move(w)
       \/ FlushDir(w) \/ MakeTmp(w) \/ FlushRoot(w) \/ Fails(w)
  \/ PowerLoss

Spec == Init /\ [][Next]_vars

-----------------------------------------------------------------------------
(* Properties                                                              *)

TypeOK ==
  /\ file \in {"keys", "settings", "assertion"}
  /\ pc \in [Writer -> Pcs]
  /\ content \in [Writer -> {"none", "empty", "torn", "full"}]
  /\ synced \subseteq Writer
  /\ name \in Writer \cup {None} /\ name \in onDisk
  /\ onDisk \subseteq Writer \cup {None}
  /\ home \in {"absent", "cached", "durable"}
  /\ failures \in 0 .. MaxFailures /\ crashes \in 0 .. MaxCrashes

\* A power failure leaves either no file or a complete one, and so does every
\* moment before it: no reader finds a name that points at content not there
\* (the comments of publishFileAt and writeAtomic).
NameIsComplete == TypeOK /\ (name # None => content[name] = "full")

\* What a call reported as published stays: a later power failure brings back
\* neither an absent file nor one that was published before it.
SuccessSurvives ==
  \A w \in Writer :
    At(w, "done") =>
      name # None /\ \E i, j \in DOMAIN moved : moved[i] = w /\ moved[j] = name /\ i <= j
=============================================================================

--------------------------- MODULE RuntimeBinding ---------------------------
(***************************************************************************)
(* bindRuntime of internal/identity/binding.go: how the issuer finds the   *)
(* process an assertion is bound to, while the process table it reads      *)
(* through /proc changes under it.                                         *)
(*                                                                         *)
(* One /proc read is one step.  A process record takes six (readProcFrom), *)
(* the walk reads a record for the peer and for each ancestor it climbs,   *)
(* and a second pass reads every one of them again (confirm).  Module      *)
(* Issuer takes the whole as one step at one instant; what is checked here *)
(* is what that instant is worth.                                          *)
(*                                                                         *)
(* Of an executable image the model keeps what the code looks at: whether  *)
(* its base name is a shell's, its file (device and inode), and whether    *)
(* its leading arguments hold a -c cluster.                                *)
(***************************************************************************)
EXTENDS Integers, Sequences

CONSTANTS
  Pid,          \* process ids; 1 is init
  Uid,          \* user ids
  Image,        \* names of the images processes run
  ShellNamed,   \* the images whose executable is named like a shell
  CFlagged,     \* the images whose leading options hold a -c
  FileOf,       \* the executable file of each image
  ClientImages, \* the images of the gatekeeper client, one per version
  Subreaper,    \* pids that adopt orphans in place of init (prctl)
  MaxHops       \* maxWrapperHops

CONSTANTS       \* bounds of the instance, not of the program
  MaxEvents

\* The kernel has a largest pid.
ASSUME PidAssumption ==
  /\ Pid \subseteq Nat \ {0} /\ 1 \in Pid /\ Subreaper \subseteq Pid
  /\ \E p \in Pid : \A q \in Pid : q <= p
\* The client is known by its file, whatever its arguments.
ASSUME ImageAssumption ==
  /\ ClientImages \subseteq Image
  /\ Image \subseteq DOMAIN FileOf
  /\ \A c \in ClientImages, i \in Image : FileOf[i] = FileOf[c] => i = c
ASSUME HopsAssumption == MaxHops \in Nat /\ MaxEvents \in Nat

VARIABLES
  table,     \* the process table: live pid -> process
  installed, \* the client image HelperExe names, as os.Stat resolves it
  events,    \* how many times the host changed the table
  ran,       \* every <<pid, start, image>> there was
  peer,      \* SO_PEERCRED of the connection: pid and uid
  pass,      \* "walk", "confirm", "bound" or "refused"
  field,     \* the next /proc read of the record being read
  cur,       \* what has been read of it
  chain,     \* the records of the walk, the peer's first
  again,     \* their re-reads
  instant    \* the process table when the walk ended

host == <<table, installed, events, ran>>
vars == <<table, installed, events, ran, peer, pass, field, cur, chain, again,
          instant>>

Fields == <<"stat", "exe", "file", "cmdline", "uid", "restat">>

Live == DOMAIN table

Wrapper(img) == img \in ShellNamed /\ img \in CFlagged

-----------------------------------------------------------------------------
(* The host                                                                *)

Changed(t) ==
  /\ events < MaxEvents
  /\ events' = events + 1
  /\ table' = t
  /\ ran' = ran \cup {<<p, t[p].start, t[p].image>> : p \in DOMAIN t}
  /\ UNCHANGED <<peer, pass, field, cur, chain, again, instant>>

\* The youngest process of the initial table: start times only grow.
Newest == CHOOSE p \in Pid : \A q \in Pid : q <= p

\* A child runs its parent's image until it execs.
Fork(parent, child) ==
  /\ parent \in Live /\ child \notin Live
  /\ Changed([p \in Live \cup {child} |->
       IF p = child THEN [table[parent] EXCEPT !.ppid = parent,
                                               !.start = Newest + events + 1]
                    ELSE table[p]])
  /\ UNCHANGED installed

\* Who may adopt the children of p: init, or a subreaper above it.  Of what is
\* above p only the age is kept.
Adopters(p) == {1} \cup {s \in Subreaper \cap Live : table[s].start < table[p].start}

Exit(p) ==
  /\ p \in Live \ {1}
  /\ \E heir \in Adopters(p) :
       Changed([c \in Live \ {p} |->
         IF table[c].ppid = p THEN [table[c] EXCEPT !.ppid = heir]
                              ELSE table[c]])
  /\ UNCHANGED installed

\* A client image is run from the file installed at that moment.
Exec(p, img) ==
  /\ p \in Live \ {1}
  /\ img # table[p].image
  /\ img \in ClientImages => img = installed
  /\ Changed([table EXCEPT ![p].image = img])
  /\ UNCHANGED installed

\* A package upgrade renames a new binary over the old one.
Upgrade(img) ==
  /\ img \in ClientImages
  /\ \A p \in Live : table[p].image # img
  /\ \A r \in ran : r[3] # img
  /\ img # installed
  /\ installed' = img
  /\ Changed(table)

-----------------------------------------------------------------------------
(* Reading one record                                                      *)

Reading == pass \in {"walk", "confirm"}

\* The pid being read: the peer, the parent of the last link, or, when the
\* chain is confirmed, the next of its links.
Target ==
  CASE pass = "confirm" -> chain[Len(again) + 1].pid
    [] pass = "walk" /\ chain = <<>> -> peer.pid
    [] OTHER -> chain[Len(chain)].ppid

Blank == [pid |-> 0, start |-> 0, ppid |-> 0, shell |-> FALSE, file |-> "none",
          c |-> FALSE, uid |-> 0]

\* What one read of p adds to the record.
Filled(p) ==
  LET img == table[p].image
  IN CASE field = 1 -> [cur EXCEPT !.pid = p, !.start = table[p].start,
                                   !.ppid = table[p].ppid]
       [] field = 2 -> [cur EXCEPT !.shell = (img \in ShellNamed)]
       [] field = 3 -> [cur EXCEPT !.file = FileOf[img]]
       [] field = 4 -> [cur EXCEPT !.c = (img \in CFlagged)]
       [] OTHER     -> [cur EXCEPT !.uid = table[p].uid]

Refuse ==
  /\ pass' = "refused"
  /\ UNCHANGED <<host, peer, field, cur, chain, again, instant>>

ReadField ==
  /\ Reading
  /\ field < Len(Fields)
  /\ Target \in Live
  /\ cur' = Filled(Target)
  /\ field' = field + 1
  /\ UNCHANGED <<host, peer, pass, chain, again, instant>>

\* A pid that vanished fails any read.
ReadFails ==
  /\ Reading
  /\ Target \notin Live
  /\ Refuse

\* The last read brackets the record: same start time, same parent pid.
Bracketed ==
  /\ Reading
  /\ field = Len(Fields)
  /\ Target \in Live
  /\ table[Target].start = cur.start
  /\ table[Target].ppid = cur.ppid

ReadTorn ==
  /\ Reading
  /\ field = Len(Fields)
  /\ Target \in Live
  /\ ~Bracketed
  /\ Refuse

-----------------------------------------------------------------------------
(* The walk                                                                *)

\* isHelper: the file HelperExe names now.
IsHelper(r) == r.file = FileOf[installed]

\* isCommandWrapper, of a record as read.
IsWrapper(r) == r.shell /\ r.c

\* A record is a link of the chain only if it runs as the peer's uid and, for
\* an ancestor, is not younger than the process below it.
Admissible(r) ==
  /\ r.uid = peer.uid
  /\ chain # <<>> => r.start <= chain[Len(chain)].start

\* The walk climbs from the client process and from the wrappers above it.
Climbs(r) == IF chain = <<>> THEN IsHelper(r) ELSE IsWrapper(r)

\* Broken form: one wrapper too many is climbed.
TooFar_OffByOne(r) == Len(chain) > MaxHops + 1

\* More wrappers above the peer than may be climbed.
TooFar(r) == Len(chain) > MaxHops

\* A parent pid of 0 or 1: no runtime above.
Topmost(r) == r.ppid <= 1

NextRecord == field' = 1 /\ cur' = Blank

Climb ==
  /\ pass = "walk"
  /\ Bracketed
  /\ Admissible(cur) /\ Climbs(cur) /\ ~TooFar(cur) /\ ~Topmost(cur)
  /\ chain' = Append(chain, cur)
  /\ NextRecord
  /\ UNCHANGED <<host, peer, pass, again, instant>>

\* A direct client, or the first ancestor that is not a wrapper.
Arrives(r) == ~Climbs(r)

Arrive ==
  /\ pass = "walk"
  /\ Bracketed
  /\ Admissible(cur) /\ Arrives(cur)
  /\ chain' = Append(chain, cur)
  /\ instant' = table
  /\ pass' = "confirm"
  /\ NextRecord
  /\ UNCHANGED <<host, peer, again>>

WalkRefused ==
  /\ pass = "walk"
  /\ Bracketed
  /\ \/ ~Admissible(cur)
     \/ ~Arrives(cur) /\ (TooFar(cur) \/ Topmost(cur))
  /\ Refuse

\* Broken form: only the runtime is confirmed.
Same_RuntimeOnly(r, s) ==
  Len(again) + 1 = Len(chain) =>
    /\ r.start = s.start /\ r.ppid = s.ppid /\ r.file = s.file

\* What confirm compares.
Same(r, s) ==
  /\ r.start = s.start
  /\ r.ppid = s.ppid
  /\ r.file = s.file

ConfirmLink ==
  /\ pass = "confirm"
  /\ Bracketed
  /\ Same(cur, chain[Len(again) + 1])
  /\ again' = Append(again, cur)
  /\ pass' = IF Len(again') = Len(chain) THEN "bound" ELSE "confirm"
  /\ NextRecord
  /\ UNCHANGED <<host, peer, chain, instant>>

ConfirmRefused ==
  /\ pass = "confirm"
  /\ Bracketed
  /\ ~Same(cur, chain[Len(again) + 1])
  /\ Refuse

-----------------------------------------------------------------------------
InitProcess == [start |-> 1, ppid |-> 0, uid |-> 0, image |-> "init"]

TableOf(parent, uid, image) ==
  [p \in Pid |-> IF p = 1 THEN InitProcess
                 ELSE [start |-> p, ppid |-> parent[p], uid |-> uid[p],
                       image |-> image[p]]]

\* Any table of processes below init, each younger than its parent, and any of
\* them at the other end of the connection.
Init ==
  /\ installed \in ClientImages
  /\ LET young == Pid \ {1}
     IN \E parent \in {f \in [young -> Pid] : \A p \in young : f[p] < p},
           uid \in [young -> Uid],
           image \in [young -> (Image \ ClientImages) \cup {installed}] :
          table = TableOf(parent, uid, image)
  /\ events = 0
  /\ ran = {<<p, table[p].start, table[p].image>> : p \in Pid}
  /\ \E p \in Pid \ {1} : peer = [pid |-> p, uid |-> table[p].uid]
  /\ pass = "walk" /\ field = 1 /\ cur = Blank
  /\ chain = <<>> /\ again = <<>> /\ instant = <<>>

Host ==
  \/ \E p, c \in Pid : Fork(p, c)
  \/ \E p \in Pid : Exit(p)
  \/ \E p \in Pid, img \in Image : Exec(p, img)
  \/ \E img \in ClientImages : Upgrade(img)

Walk ==
  \/ ReadField \/ ReadFails \/ ReadTorn
  \/ Climb \/ Arrive \/ WalkRefused
  \/ ConfirmLink \/ ConfirmRefused

\* The host matters only until the walk is over.
Next == Walk \/ (Reading /\ Host)

Spec == Init /\ [][Next]_vars

-----------------------------------------------------------------------------
(* Properties                                                              *)

TypeOK ==
  /\ Live \subseteq Pid /\ installed \in ClientImages
  /\ events \in 0 .. MaxEvents
  /\ pass \in {"walk", "confirm", "bound", "refused"} /\ field \in DOMAIN Fields
  /\ Len(chain) <= MaxHops + 2 /\ Len(again) <= Len(chain)

Bound == chain[Len(chain)]

\* Whatever forks, exits, execs and pid reuse fall between its reads, a walk
\* that binds describes the process table of one instant: when its last record
\* was read every link was alive, the same process, of the peer's uid, and the
\* child of the next link (bindRuntime's second pass).
AncestryAtOneInstant ==
  /\ TypeOK
  /\ pass = "bound" =>
    \A i \in 1..Len(chain) :
      /\ chain[i].pid \in DOMAIN instant
      /\ instant[chain[i].pid].start = chain[i].start
      /\ instant[chain[i].pid].uid = peer.uid
      /\ i < Len(chain) => instant[chain[i].pid].ppid = chain[i + 1].pid

\* The runtime of p by the ancestry rule read off a table that stands still:
\* n wrappers above the client, then a process that is none.
Ancestor(t, p) ==
  LET up[k \in 0..(MaxHops + 1)] == IF k = 0 THEN t[p].ppid
                                    ELSE IF up[k - 1] <= 1 THEN 0
                                    ELSE t[up[k - 1]].ppid
  IN up

RuntimesOf(t, p) ==
  IF t[p].image # installed THEN {p}
  ELSE {Ancestor(t, p)[n] : n \in
         {m \in 0..MaxHops :
            /\ \A k \in 0..m : /\ Ancestor(t, p)[k] > 1
                               /\ t[Ancestor(t, p)[k]].uid = t[p].uid
            /\ \A k \in 0..(m - 1) : Wrapper(t[Ancestor(t, p)[k]].image)
            /\ ~Wrapper(t[Ancestor(t, p)[m]].image)}}

\* On a host that stands still the walk decides exactly by the documented rule:
\* it binds the client to the first ancestor that is no wrapper, through at most
\* maxWrapperHops of them, and refuses when there is none.
QuietExact ==
  events = 0 =>
    /\ pass = "bound" => RuntimesOf(table, peer.pid) = {Bound.pid}
    /\ pass = "refused" => RuntimesOf(table, peer.pid) = {}

\* A process that only ever ran the installed client is never bound to itself,
\* for it is gone before the next hook runs: no error, no change of its ancestry
\* and no upgrade around its start falls back to the peer.
ClientNeverBound ==
  ( /\ pass = "bound"
    /\ \A r \in ran : (r[1] = peer.pid /\ r[2] = chain[1].start) => r[3] = installed )
    => Bound.pid # peer.pid

\* Both of a walk that races with the host: what it binds was the peer's ancestor,
\* and never the client itself, whatever changes between its reads.
BindsTheRuntime == AncestryAtOneInstant /\ ClientNeverBound
=============================================================================

------------------------------ MODULE TrustRoot ------------------------------
(***************************************************************************)
(* The trust roots of gatekeeper serve: openTrustedDir's walk from "/" one *)
(* descriptor at a time, the order in which NewIssuer, Listen and          *)
(* WriteJWKS open the roots, and what serve then reaches through the       *)
(* handles, while other uids and the operator change the file system       *)
(* between any two system calls.                                           *)
(*                                                                         *)
(* An inode has at most one name.  "ours" are root and the serving uid,    *)
(* "theirs" every other.  A mode is loose when group or other may write    *)
(* (for the signing key: may do anything).  A symbolic link is never       *)
(* followed, so where it leads is left out; so are calls that fail for     *)
(* reasons of their own, each of which refuses the start where it stands.  *)
(***************************************************************************)
EXTENDS Integers, Sequences

CONSTANTS
  Trees,       \* the file systems serve may start on: inode 1 is "/"
  Plan,        \* the roots in the order serve opens them
  File,        \* the name of the key file, and of a definition
  MaxChanges   \* bound: changes by others and by the operator

\* An inode: where its name is (0: it has none) and what stat says of it.
Node == [in: Nat, name: STRING, kind: {"dir", "link", "file"},
         owner: {"ours", "theirs"}, loose: BOOLEAN, sticky: BOOLEAN]

\* An item of Plan: the path, whether a missing last component is created, and
\* what is done once the directory is open.
Uses == {"key", "close", "definitions", "spawn", "listen", "jwks"}

ASSUME PlanAssumption ==
  /\ Plan \in Seq([path: Seq(STRING), create: BOOLEAN, use: Uses]) /\ Plan # <<>>
  /\ File \in STRING /\ MaxChanges \in Nat

\* "/" is nobody's entry, and a directory has one entry of a name.
ASSUME TreesAssumption == \A t \in Trees :
  /\ t \in Seq(Node) /\ t # <<>> /\ t[1].in = 0
  /\ \A i, j \in DOMAIN t :
       t[i].in = t[j].in /\ t[i].name = t[j].name /\ t[i].in # 0 => i = j

VARIABLES
  nodes,    \* every inode there has been
  item,     \* the root being opened, an index of Plan
  stage,    \* of the walk; "serving", "refused"
  fd,       \* the descriptor the walk holds, an inode
  depth,    \* the components it has passed
  made,     \* the roots whose directory serve created
  held,     \* the handles serve keeps: item -> inode
  loading,  \* the definition a request has open, 0 if none
  used,     \* history: what serve acted on, and whether it was trusted then
  moved,    \* history: the operator renamed or removed a directory
  changes

walk == <<item, stage, fd, depth, made, held>>
vars == <<nodes, walk, loading, used, moved, changes>>

Inodes == 1 .. Len(nodes)
Entry(d, n) == {i \in Inodes : nodes[i].in = d /\ nodes[i].name = n}

Path == Plan[item].path

-----------------------------------------------------------------------------
(* openTrustedDir                                                          *)

\* Broken form: the sticky bit excuses the root as well.
TrustedDir_AnySticky(i, isRoot) ==
  /\ nodes[i].owner = "ours"
  /\ nodes[i].loose => nodes[i].sticky

\* Broken form: the ancestors are not looked at.
TrustedDir_RootOnly(i, isRoot) ==
  isRoot => nodes[i].owner = "ours" /\ ~nodes[i].loose

\* checkTrustedDir: an ancestor with the sticky bit may be world-writable.
TrustedDir(i, isRoot) ==
  /\ nodes[i].owner = "ours"
  /\ nodes[i].loose => nodes[i].sticky /\ ~isRoot

Refuse == stage' = "refused"

CheckDir ==
  /\ stage = "check"
  /\ IF ~TrustedDir(fd, depth = Len(Path)) THEN Refuse
     ELSE IF depth = Len(Path) THEN stage' = "reopen" ELSE stage' = "open"
  /\ UNCHANGED <<nodes, item, fd, depth, made, held, loading, used, moved,
                 changes>>

\* O_NOFOLLOW and O_DIRECTORY: a link or a file refuses; a missing root that may
\* be created is made next.
OpenNext ==
  /\ stage \in {"open", "made"}
  /\ LET found == Entry(fd, Path[depth + 1])
     IN \/ /\ \E i \in found : nodes[i].kind = "dir" /\ fd' = i
           /\ depth' = depth + 1 /\ stage' = "check"
        \/ /\ found = {} /\ stage = "open"
           /\ Plan[item].create /\ depth + 1 = Len(Path)
           /\ stage' = "mkdir" /\ UNCHANGED <<fd, depth>>
        \/ /\ \A i \in found : nodes[i].kind # "dir"
           /\ ~(found = {} /\ stage = "open" /\ Plan[item].create
                /\ depth + 1 = Len(Path))
           /\ Refuse /\ UNCHANGED <<fd, depth>>
  /\ UNCHANGED <<nodes, item, made, held, loading, used, moved, changes>>

NewDir(d, n, owner, loose) ==
  [in |-> d, name |-> n, kind |-> "dir", owner |-> owner, loose |-> loose,
   sticky |-> FALSE]

\* A mode that the check would refuse is never asked for, and the umask only
\* takes permissions away.
MakeDir ==
  /\ stage = "mkdir"
  /\ IF Entry(fd, Path[depth + 1]) = {}
     THEN /\ nodes' = Append(nodes, NewDir(fd, Path[depth + 1], "ours", FALSE))
          /\ made' = made \cup {item}
          /\ stage' = "made"
     ELSE Refuse /\ UNCHANGED <<nodes, made>>
  /\ UNCHANGED <<item, fd, depth, held, loading, used, moved, changes>>

\* "." of the verified descriptor is the same inode. The mode of one that was
\* created is set, which only an owner may, and checked again.
Reopen ==
  /\ stage = "reopen"
  /\ IF item \notin made THEN stage' = "use" /\ UNCHANGED nodes
     ELSE IF nodes[fd].owner # "ours" THEN Refuse /\ UNCHANGED nodes
     ELSE stage' = "use" /\ nodes' = [nodes EXCEPT ![fd].loose = FALSE]
  /\ UNCHANGED <<item, fd, depth, made, held, loading, used, moved, changes>>

-----------------------------------------------------------------------------
(* What is done with a root                                                *)

\* openRegularAt and the owner and mode of the descriptor it returns.
TrustedFile(i) == nodes[i].owner = "ours" /\ ~nodes[i].loose

Used(what, i) == [what |-> what, ok |-> nodes[i].owner = "ours" /\ ~nodes[i].loose]

NextItem ==
  IF item = Len(Plan) THEN stage' = "serving" /\ UNCHANGED <<item, fd, depth>>
  ELSE item' = item + 1 /\ stage' = "check" /\ fd' = 1 /\ depth' = 0

\* LoadKeyring: one open of the key file below the verified directory.
UseKey ==
  /\ stage = "use" /\ Plan[item].use = "key"
  /\ LET key == {i \in Entry(fd, File) : nodes[i].kind = "file"}
     IN \/ /\ \E i \in key : TrustedFile(i) /\ used' = used \cup {Used("key", i)}
           /\ NextItem
        \/ /\ ~ \E i \in key : TrustedFile(i)
           /\ Refuse /\ UNCHANGED <<item, fd, depth, used>>
  /\ UNCHANGED <<nodes, made, held, loading, moved, changes>>

\* NewIssuer verifies the socket's and the key set's directories and closes them.
UseNothing ==
  /\ stage = "use" /\ Plan[item].use = "close"
  /\ NextItem
  /\ UNCHANGED <<nodes, made, held, loading, used, moved, changes>>

\* NewDefinitions keeps the handle if every regular file passes (verifyFiles);
\* NewSpawnDirs keeps its own.
KeepHandle ==
  /\ stage = "use" /\ Plan[item].use \in {"definitions", "spawn"}
  /\ LET bad == {i \in Inodes : /\ nodes[i].in = fd /\ nodes[i].kind = "file"
                                /\ ~TrustedFile(i)}
     IN IF Plan[item].use = "definitions" /\ bad # {}
        THEN Refuse /\ UNCHANGED <<item, fd, depth, held>>
        ELSE held' = [n \in DOMAIN held \cup {item} |->
                        IF n = item THEN fd ELSE held[n]] /\ NextItem
  /\ UNCHANGED <<nodes, made, loading, used, moved, changes>>

\* The directories of t that the components of a path lead to, one by one.
Reached(t, path) ==
  LET at[n \in 0 .. Len(path)] ==
        IF n = 0 THEN {1}
        ELSE {i \in DOMAIN t : /\ t[i].kind = "dir" /\ t[i].name = path[n]
                               /\ t[i].in \in at[n - 1]}
  IN at

\* The directory that a path leads to, all components resolved at once.
Resolve(path) == Reached(nodes, path)[Len(path)]

\* Listen's bind, chmod and link take a path; its mkdir was made through fd.
UseByPath ==
  /\ stage = "use" /\ Plan[item].use = "listen"
  /\ \/ /\ \E d \in Resolve(Path) :
             used' = IF moved THEN used
                     ELSE used \cup {[Used("listen", d) EXCEPT !.ok = @ /\ d = fd]}
        /\ NextItem
     \/ Resolve(Path) = {} /\ Refuse /\ UNCHANGED <<item, fd, depth, used>>
  /\ UNCHANGED <<nodes, made, held, loading, moved, changes>>

\* WriteJWKS creates and renames relative to the handle.
PublishJWKS ==
  /\ stage = "use" /\ Plan[item].use = "jwks"
  /\ used' = used \cup {Used("jwks", fd)}
  /\ NextItem
  /\ UNCHANGED <<nodes, made, held, loading, moved, changes>>

Handle(use) == {held[n] : n \in {m \in DOMAIN held : Plan[m].use = use}}

\* SpawnDirs.Create, Publish and Reap, relative to the root.
UseSpawnRoot ==
  /\ stage = "serving"
  /\ \E d \in Handle("spawn") : used' = used \cup {Used("spawn", d)}
  /\ UNCHANGED <<nodes, walk, loading, moved, changes>>

LoadOpens ==
  /\ stage = "serving" /\ loading = 0
  /\ \E d \in Handle("definitions") : \E i \in Entry(d, File) :
       nodes[i].kind = "file" /\ loading' = i
  /\ UNCHANGED <<nodes, walk, used, moved, changes>>

\* Definitions.Load: what is checked is what is read, or the name is unknown.
LoadReads ==
  /\ loading # 0
  /\ used' = IF TrustedFile(loading) THEN used \cup {Used("definition", loading)}
                                     ELSE used
  /\ loading' = 0
  /\ UNCHANGED <<nodes, walk, moved, changes>>

-----------------------------------------------------------------------------
(* Others, within the permissions the kernel gives them, and the operator  *)

Change == changes < MaxChanges /\ changes' = changes + 1

TheyWrite(d) ==
  nodes[d].kind = "dir" /\ (nodes[d].owner = "theirs" \/ nodes[d].loose)

\* In a sticky directory an entry is its owner's or the directory's owner's.
TheyTake(i) ==
  LET d == nodes[i].in
  IN /\ d # 0 /\ TheyWrite(d)
     /\ nodes[d].sticky => "theirs" \in {nodes[d].owner, nodes[i].owner}

Names == UNION {{Plan[n].path[k] : k \in DOMAIN Plan[n].path} : n \in DOMAIN Plan}

TheyAdd(d, n, kind, loose) ==
  /\ Change /\ TheyWrite(d) /\ Entry(d, n) = {}
  /\ nodes' = Append(nodes, [NewDir(d, n, "theirs", loose) EXCEPT !.kind = kind])
  /\ UNCHANGED <<walk, loading, used, moved>>

TheyMove(i, n) ==
  /\ Change /\ TheyTake(i) /\ Entry(nodes[i].in, n) = {}
  /\ nodes' = [nodes EXCEPT ![i].name = n]
  /\ UNCHANGED <<walk, loading, used, moved>>

TheyChmod(i) ==
  /\ Change /\ nodes[i].owner = "theirs" /\ nodes[i].in # 0
  /\ nodes' = [nodes EXCEPT ![i].loose = ~@]
  /\ UNCHANGED <<walk, loading, used, moved>>

\* The operator renames or removes a directory on the way, also while serve runs.
OperatorMoves(i) ==
  /\ Change /\ nodes[i].in # 0 /\ nodes[i].kind = "dir"
  /\ nodes' = [nodes EXCEPT ![i].in = 0]
  /\ moved' = TRUE
  /\ UNCHANGED <<walk, loading, used>>

\* The operator puts another key or definition in place, of any owner and mode; a
\* rename does not replace a directory.
OperatorReplaces(d, owner, loose) ==
  /\ Change /\ nodes[d].kind = "dir" /\ nodes[d].owner = "ours" /\ d # 1
  /\ \A i \in Entry(d, File) : nodes[i].kind # "dir"
  /\ nodes' = Append([i \in Inodes |-> IF i \in Entry(d, File)
                                       THEN [nodes[i] EXCEPT !.in = 0] ELSE nodes[i]],
                     [NewDir(d, File, owner, loose) EXCEPT !.kind = "file"])
  /\ UNCHANGED <<walk, loading, used, moved>>

-----------------------------------------------------------------------------
Init ==
  /\ nodes \in Trees
  /\ item = 1 /\ stage = "check" /\ fd = 1 /\ depth = 0
  /\ made = {} /\ held = <<>> /\ loading = 0 /\ used = {}
  /\ moved = FALSE /\ changes = 0

Start ==
  \/ CheckDir \/ OpenNext \/ MakeDir \/ Reopen
  \/ UseKey \/ UseNothing \/ KeepHandle \/ UseByPath \/ PublishJWKS

Next ==
  \/ Start
  \/ UseSpawnRoot \/ LoadOpens \/ LoadReads
  \/ \E d \in Inodes, n \in Names, kind \in {"dir", "link"}, loose \in BOOLEAN :
       TheyAdd(d, n, kind, loose)
  \/ \E i \in Inodes, n \in Names : TheyMove(i, n)
  \/ \E i \in Inodes : TheyChmod(i) \/ OperatorMoves(i)
  \/ \E d \in Inodes, owner \in {"ours", "theirs"}, loose \in BOOLEAN :
       OperatorReplaces(d, owner, loose)

Spec == Init /\ [][Next]_vars

-----------------------------------------------------------------------------
(* Properties                                                              *)

TypeOK ==
  /\ nodes \in Seq(Node)
  /\ item \in DOMAIN Plan /\ fd \in Inodes /\ depth \in 0 .. Len(Path)
  /\ stage \in {"check", "open", "mkdir", "made", "reopen", "use", "serving",
                "refused"}
  /\ made \subseteq DOMAIN Plan /\ DOMAIN held \subseteq DOMAIN Plan
  /\ loading \in 0 .. Len(nodes) /\ moved \in BOOLEAN

\* Serve acts only on directories and files that are ours and that no one else
\* could write to then, although each check is one call and each use another and
\* the tree changes in between; where Listen has to go by a path, that path still
\* leads to the directory it verified (trust_linux.go: "serve never acts on, or
\* decides from" what another uid can write).
ActsOnlyOnTrusted ==
  /\ TypeOK
  /\ \A u \in used : u.ok

\* Nobody but the operator can redirect the path of a root once its walk is over:
\* what every handle was opened on is what its path leads to, sticky ancestors
\* included (checkTrustedDir's allowance for them).
PathsHold ==
  ~moved =>
    /\ \A n \in DOMAIN held : Resolve(Plan[n].path) = {held[n]}
    /\ stage = "use" => Resolve(Path) = {fd}
=============================================================================

--------------------------- MODULE TrustRootProofs ---------------------------
(***************************************************************************)
(* Proofs about TrustRoot, for any file system to start on, any roots in   *)
(* any order and any number of changes of the tree between two calls.      *)
(***************************************************************************)
EXTENDS TrustRoot, WellFoundedInduction, TLAPS

-----------------------------------------------------------------------------
(* Where a path leads                                                      *)

LEMMA UpTo ==
  ASSUME NEW S, NEW N \in Nat, 0 \in S,
         \A n \in 0 .. N : n \in S /\ n < N => n + 1 \in S
  PROVE  0 .. N \subseteq S
  <1> SUFFICES ASSUME NEW bad, bad = (0 .. N) \ S, bad # {} PROVE FALSE
    OBVIOUS
  <1> DEFINE R == {ss \in Nat \X Nat : ss[1] < ss[2]}
  <1>1. IsWellFoundedOn(R, Nat)
    BY NatLessThanWellFounded DEF OpToRel
  <1>2. \A i, m \in Nat : i < m => <<i, m>> \in R
    OBVIOUS
  <1> HIDE DEF R
  <1>3. PICK m \in bad : \A i \in bad : ~(<<i, m>> \in R)
    <2>1. bad \subseteq Nat
      OBVIOUS
    <2> QED BY <1>1, <2>1, WFMin
  <1>4. m \in 1 .. N /\ m \notin S
    OBVIOUS
  <1>5. m - 1 \in 0 .. N /\ m - 1 < m /\ m - 1 < N /\ m - 1 \in Nat /\ m \in Nat
    BY <1>4
  <1>6. m - 1 \in S
    <2>1. m - 1 \notin bad
      BY <1>2, <1>3, <1>5
    <2> QED
      BY <1>5, <2>1
  <1>7. (m - 1) + 1 \in S
    BY <1>5, <1>6
  <1> QED
    BY <1>4, <1>7

Below(t, n, dirs) ==
  {i \in DOMAIN t : t[i].kind = "dir" /\ t[i].name = n /\ t[i].in \in dirs}

\* The recursive function that resolves a path is well defined.
IsReach(f, N, t, path) ==
  f = [n \in 0 .. N |-> IF n = 0 THEN {1} ELSE Below(t, path[n], f[n - 1])]

LEMMA ReachExists ==
  ASSUME NEW N \in Nat, NEW t, NEW path
  PROVE  \E f : IsReach(f, N, t, path)
  <1> DEFINE S == {n \in 0 .. N : \E f : IsReach(f, n, t, path)}
  <1>1. 0 \in S
    <2> DEFINE f == [k \in 0 .. 0 |-> {1}]
    <2>1. IsReach(f, 0, t, path)
      BY DEF IsReach
    <2> QED
      BY <2>1
  <1>2. ASSUME NEW n \in 0 .. N, n \in S, n < N PROVE n + 1 \in S
    <2>1. PICK f : IsReach(f, n, t, path)
      BY <1>2
    <2> DEFINE g == [k \in 0 .. (n + 1) |-> IF k <= n THEN f[k]
                                            ELSE Below(t, path[n + 1], f[n])]
    <2>2. \A k \in 0 .. n : f[k] = IF k = 0 THEN {1} ELSE Below(t, path[k], f[k - 1])
      BY <2>1 DEF IsReach
    <2>3. \A k \in 0 .. (n + 1) : g[k] = IF k = 0 THEN {1} ELSE Below(t, path[k], g[k - 1])
      <3> TAKE k \in 0 .. (n + 1)
      <3>1. CASE k = 0
        BY <2>2, <3>1
      <3>2. CASE k \in 1 .. n
        <4>1. k - 1 \in 0 .. (n + 1) /\ k - 1 <= n /\ k <= n /\ k \in 0 .. n /\ k # 0
          BY <3>2
        <4>2. g[k - 1] = f[k - 1] /\ g[k] = f[k]
          BY <4>1
        <4> HIDE DEF g
        <4> QED
          BY <2>2, <4>1, <4>2
      <3>3. CASE k = n + 1
        <4>1. k - 1 = n /\ n \in 0 .. (n + 1) /\ n <= n /\ ~(k <= n) /\ k # 0
          BY <3>3
        <4>2. g[k - 1] = f[n]
          BY <4>1
        <4>3. g[k] = Below(t, path[n + 1], f[n])
          BY <4>1
        <4> HIDE DEF g
        <4> QED
          BY <3>3, <4>1, <4>2, <4>3
      <3> QED
        BY <3>1, <3>2, <3>3
    <2>4. g = [k \in 0 .. (n + 1) |-> g[k]]
      OBVIOUS
    <2> HIDE DEF g
    <2>5. IsReach(g, n + 1, t, path)
      BY <2>3, <2>4 DEF IsReach
    <2>6. n + 1 \in 0 .. N
      BY <1>2
    <2> QED
      BY <2>5, <2>6
  <1> HIDE DEF S
  <1>3. N \in S
    BY <1>1, <1>2, UpTo
  <1> QED
    BY <1>3 DEF S

LEMMA ReachedSteps ==
  ASSUME NEW t, NEW path, Len(path) \in Nat
  PROVE  /\ Reached(t, path)[0] = {1}
         /\ \A n \in 1 .. Len(path) :
              Reached(t, path)[n] = Below(t, path[n], Reached(t, path)[n - 1])
  <1> DEFINE N == Len(path)
             A == Reached(t, path)
  <1>1. N \in Nat
    OBVIOUS
  <1>2. A = CHOOSE f : IsReach(f, N, t, path)
    BY DEF Reached, IsReach, Below
  <1>3. \E f : IsReach(f, N, t, path)
    <2> HIDE DEF N
    <2> QED
      BY <1>1, ReachExists
  <1> HIDE DEF A, N
  <1>4. IsReach(A, N, t, path)
    BY <1>2, <1>3
  <1>5. \A n \in 0 .. N : A[n] = IF n = 0 THEN {1} ELSE Below(t, path[n], A[n - 1])
    BY <1>4 DEF IsReach
  <1>6. A[0] = {1}
    BY <1>1, <1>5
  <1>7. \A n \in 1 .. N : A[n] = Below(t, path[n], A[n - 1])
    BY <1>1, <1>5
  <1> QED
    BY <1>6, <1>7 DEF A, N

-----------------------------------------------------------------------------
(* The inductive invariant                                                 *)

\* A directory nobody else can take an entry of ours from, and one that nobody
\* else can write to.
Safe(t, i) == t[i].owner = "ours" /\ (t[i].loose => t[i].sticky)
Tight(t, i) == t[i].owner = "ours" /\ ~t[i].loose

\* The first k components of path lead, one by one, through safe directories of
\* ours to d, which is ours.
Firm(t, path, k, d) ==
  /\ \A j \in 0 .. k : \E i \in DOMAIN t :
       /\ Reached(t, path)[j] = {i} /\ t[i].owner = "ours"
       /\ j < k => Safe(t, i)
  /\ Reached(t, path)[k] = {d}

OneEntry(t) == \A i, j \in DOMAIN t :
  t[i].in = t[j].in /\ t[i].name = t[j].name /\ t[i].in # 0 => i = j

TreeInv ==
  nodes \in Seq(Node) /\ nodes # <<>> /\ nodes[1].in = 0 /\ OneEntry(nodes)

\* What has been checked stays true of the inode.
CheckedInv ==
  /\ item \in DOMAIN Plan /\ fd \in Inodes /\ depth \in 0 .. Len(Path)
  /\ stage \in {"check", "open", "mkdir", "made", "reopen", "use", "serving",
                "refused"}
  /\ made \subseteq DOMAIN Plan /\ DOMAIN held \subseteq DOMAIN Plan
  /\ loading \in 0 .. Len(nodes) /\ moved \in BOOLEAN
  /\ stage \in {"open", "mkdir", "made"} => depth < Len(Path) /\ Safe(nodes, fd)
  /\ stage \in {"reopen", "use"} => depth = Len(Path) /\ Tight(nodes, fd)
  /\ \A n \in DOMAIN held : held[n] \in Inodes /\ Tight(nodes, held[n])

\* And the path goes on leading there.
PathInv ==
  ~moved =>
    /\ stage \notin {"serving", "refused"} /\ nodes[fd].owner = "ours" =>
         Firm(nodes, Path, depth, fd)
    /\ \A n \in DOMAIN held :
         Firm(nodes, Plan[n].path, Len(Plan[n].path), held[n])

UsedInv == \A u \in used : u.ok

IInv == TreeInv /\ CheckedInv /\ PathInv /\ UsedInv

-----------------------------------------------------------------------------
(* What a change of the tree keeps                                         *)

\* Nobody takes a right away from us: the owner and the kind of an inode stay, and
\* one of ours does not become loose.
Kept(t, u) ==
  /\ DOMAIN t \subseteq DOMAIN u
  /\ \A i \in DOMAIN t :
       /\ u[i].owner = t[i].owner /\ u[i].kind = t[i].kind /\ u[i].sticky = t[i].sticky
       /\ t[i].owner = "ours" /\ u[i].loose => t[i].loose

\* A directory of ours in a safe directory keeps its name.
Fixed(t, u) ==
  \A i \in DOMAIN t :
    /\ t[i].kind = "dir" /\ t[i].owner = "ours" /\ t[i].in \in DOMAIN t
    /\ Safe(t, t[i].in)
    => u[i].in = t[i].in /\ u[i].name = t[i].name

LEMMA FirmStays ==
  ASSUME NEW t, NEW u, DOMAIN t \subseteq Nat \ {0}, Kept(t, u), Fixed(t, u), OneEntry(u),
         NEW path, Len(path) \in Nat, NEW k \in 0 .. Len(path), NEW d,
         Firm(t, path, k, d)
  PROVE  Firm(u, path, k, d)
  <1> DEFINE S == {j \in 0 .. k : Reached(u, path)[j] = Reached(t, path)[j]}
  <1>1. k \in Nat
    OBVIOUS
  <1>2. 0 \in S
    <2>1. Reached(u, path)[0] = {1} /\ Reached(t, path)[0] = {1} /\ 0 \in 0 .. k
      BY <1>1, ReachedSteps
    <2> QED
      BY <2>1
  <1>3. ASSUME NEW j \in 0 .. k, j \in S, j < k PROVE j + 1 \in S
    <2>1. j \in 0 .. k /\ j + 1 \in 0 .. k /\ j + 1 \in 1 .. Len(path) /\ (j + 1) - 1 = j
      BY <1>3
    <2>2. PICK a \in DOMAIN t : Reached(t, path)[j] = {a} /\ Safe(t, a)
      BY <1>3 DEF Firm
    <2>3. PICK c \in DOMAIN t : Reached(t, path)[j + 1] = {c} /\ t[c].owner = "ours"
      BY <2>1 DEF Firm
    <2>4. Reached(t, path)[j + 1] = Below(t, path[j + 1], {a})
      <3>1. Reached(t, path)[j + 1] = Below(t, path[j + 1], Reached(t, path)[(j + 1) - 1])
        BY <2>1, ReachedSteps
      <3> QED
        BY <2>1, <2>2, <3>1
    <2>5. Reached(u, path)[j] = {a}
      BY <1>3, <2>2
    <2>6. Reached(u, path)[j + 1] = Below(u, path[j + 1], {a})
      <3>1. Reached(u, path)[j + 1] = Below(u, path[j + 1], Reached(u, path)[(j + 1) - 1])
        BY <2>1, ReachedSteps
      <3> QED
        BY <2>1, <2>5, <3>1
    <2>7. t[c].kind = "dir" /\ t[c].name = path[j + 1] /\ t[c].in = a
      BY <2>3, <2>4 DEF Below
    <2>8. u[c].in = a /\ u[c].name = path[j + 1] /\ u[c].kind = "dir" /\ c \in DOMAIN u
      BY <2>2, <2>3, <2>7 DEF Fixed, Kept
    <2>9. a # 0
      BY <2>2
    <2>10. Below(u, path[j + 1], {a}) = {c}
      BY <2>8, <2>9 DEF Below, OneEntry
    <2> QED
      BY <2>1, <2>3, <2>6, <2>10
  <1> HIDE DEF S
  <1>4. 0 .. k \subseteq S
    BY <1>1, <1>2, <1>3, UpTo
  <1>5. \A j \in 0 .. k : Reached(u, path)[j] = Reached(t, path)[j]
    BY <1>4 DEF S
  <1>6. \A i \in DOMAIN t : Safe(t, i) => Safe(u, i)
    BY DEF Safe, Kept
  <1>7. \A j \in 0 .. k : \E i \in DOMAIN u :
          /\ Reached(u, path)[j] = {i} /\ u[i].owner = "ours"
          /\ j < k => Safe(u, i)
    BY <1>5, <1>6 DEF Firm, Kept
  <1>8. Reached(u, path)[k] = {d}
    BY <1>1, <1>5 DEF Firm
  <1> QED
    BY <1>7, <1>8 DEF Firm

LEMMA NodeTypes ==
  ASSUME TreeInv, NEW i \in Inodes
  PROVE  /\ nodes[i] \in Node /\ nodes[i].in \in Nat /\ nodes[i].name \in STRING
         /\ nodes[i].kind \in {"dir", "link", "file"} /\ nodes[i].owner \in {"ours", "theirs"}
         /\ i \in Nat \ {0}
  <1>1. nodes[i] \in Node
    BY DEF TreeInv, Inodes
  <1> QED
    BY <1>1 DEF Node, Inodes, TreeInv

LEMMA PathTypes ==
  /\ \A n \in DOMAIN Plan : /\ Plan[n].path \in Seq(STRING) /\ Len(Plan[n].path) \in Nat
                             /\ Plan[n].create \in BOOLEAN /\ Plan[n].use \in Uses
  /\ \A s \in Names : s \in STRING
  <1>1. ASSUME NEW n \in DOMAIN Plan
        PROVE  /\ Plan[n].path \in Seq(STRING) /\ Len(Plan[n].path) \in Nat
               /\ Plan[n].create \in BOOLEAN /\ Plan[n].use \in Uses
    <2>1. Plan[n] \in [path: Seq(STRING), create: BOOLEAN, use: Uses]
      <3> DEFINE R == [path: Seq(STRING), create: BOOLEAN, use: Uses]
      <3>1. Plan \in Seq(R)
        BY PlanAssumption
      <3> HIDE DEF R
      <3>2. Plan[n] \in R
        BY <3>1
      <3> QED
        BY <3>2 DEF R
    <2>2. Plan[n].path \in Seq(STRING) /\ Plan[n].create \in BOOLEAN /\ Plan[n].use \in Uses
      BY <2>1
    <2> QED
      BY <2>2
  <1>2. ASSUME NEW s \in Names PROVE s \in STRING
    <2>1. PICK n \in DOMAIN Plan : s \in {Plan[n].path[k] : k \in DOMAIN Plan[n].path}
      BY DEF Names
    <2>2. PICK k \in DOMAIN Plan[n].path : s = Plan[n].path[k]
      BY <2>1
    <2>3. Plan[n].path \in Seq(STRING)
      BY <1>1
    <2> QED
      BY <2>2, <2>3
  <1> QED
    BY <1>1, <1>2

LEMMA Numbers ==
  TreeInv => /\ Len(nodes) \in Nat \ {0} /\ 1 \in Inodes /\ DOMAIN nodes = Inodes
             /\ Inodes \subseteq Nat \ {0}
  <1> SUFFICES ASSUME TreeInv PROVE /\ Len(nodes) \in Nat \ {0} /\ 1 \in Inodes
                                    /\ DOMAIN nodes = Inodes /\ Inodes \subseteq Nat \ {0}
    OBVIOUS
  <1>1. Len(nodes) \in Nat \ {0} /\ DOMAIN nodes = 1 .. Len(nodes)
    BY DEF TreeInv
  <1> QED
    BY <1>1 DEF Inodes

\* A node appended where the name was free.
LEMMA Appended ==
  ASSUME TreeInv, NEW t \in Seq(Node), Len(t) = Len(nodes), t[1].in = 0, OneEntry(t),
         Kept(nodes, t), Fixed(nodes, t),
         NEW x \in Node, \A i \in Inodes : ~(t[i].in = x.in /\ t[i].name = x.name),
         nodes' = Append(t, x)
  PROVE  TreeInv' /\ Kept(nodes, nodes') /\ Fixed(nodes, nodes')
  <1> DEFINE n == Len(nodes)
  <1>1. n \in Nat /\ n # 0 /\ Inodes = 1 .. n /\ DOMAIN nodes = 1 .. n
    BY Numbers DEF Inodes
  <1>2. /\ nodes' \in Seq(Node) /\ Len(nodes') = n + 1 /\ DOMAIN nodes' = 1 .. (n + 1)
        /\ \A i \in 1 .. n : nodes'[i] = t[i]
        /\ nodes'[n + 1] = x
    OBVIOUS
  <1>3. DOMAIN t = 1 .. n
    OBVIOUS
  <1> HIDE DEF n
  <1>4. nodes' # <<>> /\ nodes'[1].in = 0
    <2>1. 1 \in 1 .. n
      BY <1>1
    <2>2. nodes' # <<>>
      BY <1>1, <1>2
    <2> QED
      BY <1>2, <2>1, <2>2
  <1>5. OneEntry(nodes')
    <2> SUFFICES ASSUME NEW i \in 1 .. (n + 1), NEW j \in 1 .. (n + 1),
                        nodes'[i].in = nodes'[j].in, nodes'[i].name = nodes'[j].name,
                        nodes'[i].in # 0
                 PROVE  i = j
      BY <1>2 DEF OneEntry
    <2>1. i \in 1 .. n \/ i = n + 1
      BY <1>1
    <2>2. j \in 1 .. n \/ j = n + 1
      BY <1>1
    <2>3. CASE i \in 1 .. n /\ j \in 1 .. n
      BY <1>2, <1>3, <2>3 DEF OneEntry
    <2>4. CASE i \in 1 .. n /\ j = n + 1
      BY <1>1, <1>2, <2>4
    <2>5. CASE i = n + 1 /\ j \in 1 .. n
      BY <1>1, <1>2, <2>5
    <2> QED
      BY <2>1, <2>2, <2>3, <2>4, <2>5
  <1>6. Kept(nodes, nodes')
    <2>1. 1 .. n \subseteq 1 .. (n + 1)
      BY <1>1
    <2> QED
      BY <1>1, <1>2, <1>3, <2>1 DEF Kept
  <1>7. Fixed(nodes, nodes')
    BY <1>1, <1>2 DEF Fixed
  <1> QED
    BY <1>2, <1>4, <1>5, <1>6, <1>7 DEF TreeInv

LEMMA NothingKept ==
  TreeInv => Kept(nodes, nodes) /\ Fixed(nodes, nodes)
  BY DEF Kept, Fixed

LEMMA NewDirNode ==
  ASSUME NEW d \in Nat, NEW n \in STRING, NEW o \in {"ours", "theirs"}, NEW l \in BOOLEAN
  PROVE  /\ NewDir(d, n, o, l) \in Node
         /\ NewDir(d, n, o, l).in = d /\ NewDir(d, n, o, l).name = n
  BY DEF NewDir, Node

\* One inode changes.
LEMMA OneChanges ==
  ASSUME TreeInv, NEW i \in Inodes, NEW x \in Node, nodes' = [nodes EXCEPT ![i] = x],
         x.owner = nodes[i].owner, x.kind = nodes[i].kind, x.sticky = nodes[i].sticky,
         nodes[i].owner = "ours" /\ x.loose => nodes[i].loose,
         x.in # 0 => /\ x.in = nodes[i].in
                     /\ \/ x.name = nodes[i].name
                        \/ \A j \in Inodes : ~(nodes[j].in = x.in /\ nodes[j].name = x.name),
         nodes[i].in = 0 => x.in = 0
  PROVE  /\ TreeInv' /\ Kept(nodes, nodes')
         /\ \/ x.in = nodes[i].in /\ x.name = nodes[i].name
            \/ ~(/\ nodes[i].kind = "dir" /\ nodes[i].owner = "ours"
                 /\ nodes[i].in \in Inodes /\ Safe(nodes, nodes[i].in))
            => Fixed(nodes, nodes')
  <1>1. /\ DOMAIN nodes = Inodes /\ nodes' \in Seq(Node) /\ DOMAIN nodes' = Inodes
        /\ nodes'[i] = x /\ \A j \in Inodes \ {i} : nodes'[j] = nodes[j]
        /\ Len(nodes') = Len(nodes)
    BY Numbers DEF TreeInv, Inodes
  <1>2. nodes' # <<>> /\ nodes'[1].in = 0
    <2>1. Len(nodes') # 0 /\ 1 \in Inodes
      BY <1>1, Numbers
    <2>2. nodes' # <<>>
      BY <2>1
    <2> QED
      BY <1>1, <2>1, <2>2 DEF TreeInv
  <1>3. OneEntry(nodes')
    <2> SUFFICES ASSUME NEW a \in Inodes, NEW b \in Inodes,
                        nodes'[a].in = nodes'[b].in, nodes'[a].name = nodes'[b].name,
                        nodes'[a].in # 0
                 PROVE  a = b
      BY <1>1 DEF OneEntry
    <2>1. \A p, q \in Inodes :
            nodes[p].in = nodes[q].in /\ nodes[p].name = nodes[q].name /\ nodes[p].in # 0
              => p = q
      BY <1>1 DEF TreeInv, OneEntry
    <2>2. CASE a # i /\ b # i
      BY <1>1, <2>1, <2>2
    <2>3. CASE a = i /\ b # i
      BY <1>1, <2>1, <2>3
    <2>4. CASE a # i /\ b = i
      BY <1>1, <2>1, <2>4
    <2> QED
      BY <2>2, <2>3, <2>4
  <1>4. Kept(nodes, nodes')
    BY <1>1 DEF Kept
  <1>5. ASSUME \/ x.in = nodes[i].in /\ x.name = nodes[i].name
               \/ ~(/\ nodes[i].kind = "dir" /\ nodes[i].owner = "ours"
                    /\ nodes[i].in \in Inodes /\ Safe(nodes, nodes[i].in))
        PROVE  Fixed(nodes, nodes')
    BY <1>1, <1>5 DEF Fixed
  <1> QED
    BY <1>1, <1>2, <1>3, <1>4, <1>5 DEF TreeInv

-----------------------------------------------------------------------------
(* The changes                                                             *)

Change1 == TreeInv' /\ Kept(nodes, nodes') /\ (moved' \/ Fixed(nodes, nodes'))

LEMMA MakeDirKeeps ==
  ASSUME TreeInv, CheckedInv, MakeDir
  PROVE  Change1
  <1> USE DEF Change1
  <1>1. CASE UNCHANGED nodes
    BY <1>1, NothingKept DEF TreeInv
  <1>2. CASE /\ Entry(fd, Path[depth + 1]) = {}
             /\ nodes' = Append(nodes, NewDir(fd, Path[depth + 1], "ours", FALSE))
    <2> DEFINE n == Path[depth + 1]
    <2>1. fd \in Inodes /\ fd \in Nat
      BY Numbers DEF CheckedInv
    <2>2. n \in STRING
      <3>1. item \in DOMAIN Plan /\ depth \in 0 .. Len(Path) /\ depth < Len(Path)
        BY DEF CheckedInv, MakeDir
      <3>2. Path \in Seq(STRING)
        BY <3>1, PathTypes DEF Path
      <3>3. depth + 1 \in 1 .. Len(Path)
        BY <3>1, <3>2
      <3> QED
        BY <3>2, <3>3
    <2>3. \A i \in Inodes : ~(nodes[i].in = fd /\ nodes[i].name = n)
      BY <1>2 DEF Entry
    <2> HIDE DEF n
    <2>4. NewDir(fd, n, "ours", FALSE) \in Node /\ NewDir(fd, n, "ours", FALSE).in = fd
          /\ NewDir(fd, n, "ours", FALSE).name = n
      BY <2>1, <2>2, NewDirNode
    <2> DEFINE x == NewDir(fd, n, "ours", FALSE)
    <2>5. nodes' = Append(nodes, x)
      BY <1>2 DEF n
    <2>6. x \in Node /\ x.in = fd /\ x.name = n
      BY <2>4
    <2> HIDE DEF x
    <2> QED
      BY <2>3, <2>5, <2>6, NothingKept, Appended DEF TreeInv
  <1> QED
    BY <1>1, <1>2 DEF MakeDir

LEMMA ReopenKeeps ==
  ASSUME TreeInv, CheckedInv, Reopen
  PROVE  Change1
  <1> USE DEF Change1
  <1>1. CASE UNCHANGED nodes
    BY <1>1, NothingKept DEF TreeInv
  <1>2. CASE nodes' = [nodes EXCEPT ![fd].loose = FALSE]
    <2> DEFINE x == [nodes[fd] EXCEPT !.loose = FALSE]
    <2>1. fd \in Inodes /\ nodes[fd] \in Node
      BY NodeTypes DEF CheckedInv
    <2>2. /\ x \in Node /\ x.in = nodes[fd].in /\ x.name = nodes[fd].name
          /\ x.owner = nodes[fd].owner /\ x.kind = nodes[fd].kind
          /\ x.sticky = nodes[fd].sticky /\ ~x.loose
      BY <2>1 DEF Node
    <2>3. nodes' = [nodes EXCEPT ![fd] = x]
      BY <1>2
    <2> HIDE DEF x
    <2> QED
      BY <2>1, <2>2, <2>3, OneChanges
  <1> QED
    BY <1>1, <1>2 DEF Reopen

LEMMA TheyAddKeeps ==
  ASSUME TreeInv, NEW d \in Inodes, NEW n \in Names, NEW kind \in {"dir", "link"},
         NEW loose \in BOOLEAN, TheyAdd(d, n, kind, loose)
  PROVE  Change1
  <1> DEFINE x == [NewDir(d, n, "theirs", loose) EXCEPT !.kind = kind]
  <1>1. n \in STRING
    BY PathTypes
  <1>2. d \in Nat
    BY Numbers
  <1>3. x \in Node /\ x.in = d /\ x.name = n
    <2> DEFINE y == NewDir(d, n, "theirs", loose)
    <2>1. y \in Node /\ y.in = d /\ y.name = n
      BY <1>1, <1>2, NewDirNode
    <2>2. x = [y EXCEPT !.kind = kind]
      OBVIOUS
    <2> HIDE DEF x, y
    <2> QED
      BY <2>1, <2>2 DEF Node
  <1>4. nodes' = Append(nodes, x)
    BY DEF TheyAdd
  <1>5. \A i \in Inodes : ~(nodes[i].in = d /\ nodes[i].name = n)
    BY DEF TheyAdd, Entry
  <1> HIDE DEF x
  <1> QED
    BY <1>3, <1>4, <1>5, NothingKept, Appended DEF TreeInv, Change1

LEMMA TheyMoveKeeps ==
  ASSUME TreeInv, NEW i \in Inodes, NEW n \in Names, TheyMove(i, n)
  PROVE  Change1
  <1> DEFINE x == [nodes[i] EXCEPT !.name = n]
  <1>1. n \in STRING
    BY PathTypes
  <1>2. nodes[i] \in Node
    BY NodeTypes
  <1>3. /\ x \in Node /\ x.in = nodes[i].in /\ x.name = n /\ x.owner = nodes[i].owner
        /\ x.kind = nodes[i].kind /\ x.sticky = nodes[i].sticky /\ x.loose = nodes[i].loose
    BY <1>1, <1>2 DEF Node
  <1>4. nodes' = [nodes EXCEPT ![i] = x]
    BY DEF TheyMove
  <1>5. \A j \in Inodes : ~(nodes[j].in = nodes[i].in /\ nodes[j].name = n)
    BY DEF TheyMove, Entry
  <1>6. ~(nodes[i].owner = "ours" /\ Safe(nodes, nodes[i].in))
    BY DEF TheyMove, TheyTake, TheyWrite, Safe
  <1> HIDE DEF x
  <1> QED
    BY <1>3, <1>4, <1>5, <1>6, OneChanges DEF Change1

LEMMA TheyChmodKeeps ==
  ASSUME TreeInv, NEW i \in Inodes, TheyChmod(i)
  PROVE  Change1
  <1> DEFINE x == [nodes[i] EXCEPT !.loose = ~@]
  <1>1. nodes[i] \in Node
    BY NodeTypes
  <1>2. /\ x \in Node /\ x.in = nodes[i].in /\ x.name = nodes[i].name
        /\ x.owner = nodes[i].owner /\ x.kind = nodes[i].kind /\ x.sticky = nodes[i].sticky
    BY <1>1 DEF Node
  <1>3. nodes' = [nodes EXCEPT ![i] = x]
    BY DEF TheyChmod
  <1>4. nodes[i].owner # "ours"
    BY DEF TheyChmod
  <1> HIDE DEF x
  <1> QED
    BY <1>2, <1>3, <1>4, OneChanges DEF Change1

LEMMA OperatorMovesKeeps ==
  ASSUME TreeInv, NEW i \in Inodes, OperatorMoves(i)
  PROVE  Change1
  <1> DEFINE x == [nodes[i] EXCEPT !.in = 0]
  <1>1. nodes[i] \in Node
    BY NodeTypes
  <1>2. /\ x \in Node /\ x.in = 0 /\ x.owner = nodes[i].owner
        /\ x.kind = nodes[i].kind /\ x.sticky = nodes[i].sticky /\ x.loose = nodes[i].loose
    BY <1>1 DEF Node
  <1>3. nodes' = [nodes EXCEPT ![i] = x] /\ moved'
    BY DEF OperatorMoves
  <1> HIDE DEF x
  <1> QED
    BY <1>2, <1>3, OneChanges DEF Change1

LEMMA OperatorReplacesKeeps ==
  ASSUME TreeInv, NEW d \in Inodes, NEW owner \in {"ours", "theirs"}, NEW loose \in BOOLEAN,
         OperatorReplaces(d, owner, loose)
  PROVE  Change1
  <1> DEFINE t == [i \in Inodes |-> IF i \in Entry(d, File) THEN [nodes[i] EXCEPT !.in = 0]
                                                            ELSE nodes[i]]
             x == [NewDir(d, File, owner, loose) EXCEPT !.kind = "file"]
  <1>1. d \in Nat \ {0} /\ Len(nodes) \in Nat /\ 1 \in Inodes /\ DOMAIN nodes = Inodes
    BY Numbers
  <1>2. x \in Node /\ x.in = d /\ x.name = File
    <2> DEFINE y == NewDir(d, File, owner, loose)
    <2>1. y \in Node /\ y.in = d /\ y.name = File
      BY <1>1, NewDirNode, PlanAssumption
    <2>2. x = [y EXCEPT !.kind = "file"]
      OBVIOUS
    <2> HIDE DEF x, y
    <2> QED
      BY <2>1, <2>2 DEF Node
  <1>3. nodes' = Append(t, x) /\ \A i \in Entry(d, File) : nodes[i].kind # "dir"
    BY DEF OperatorReplaces
  <1>4. ASSUME NEW i \in Inodes
        PROVE  /\ t[i] \in Node /\ t[i].name = nodes[i].name /\ t[i].owner = nodes[i].owner
               /\ t[i].kind = nodes[i].kind /\ t[i].sticky = nodes[i].sticky
               /\ t[i].loose = nodes[i].loose
               /\ t[i].in = IF nodes[i].in = d /\ nodes[i].name = File THEN 0 ELSE nodes[i].in
    <2>1. nodes[i] \in Node
      BY NodeTypes
    <2>2. CASE i \in Entry(d, File)
      <3>1. t[i] = [nodes[i] EXCEPT !.in = 0] /\ nodes[i].in = d /\ nodes[i].name = File
        BY <2>2 DEF Entry
      <3> HIDE DEF t
      <3> QED
        BY <2>1, <3>1 DEF Node
    <2>3. CASE i \notin Entry(d, File)
      <3>1. t[i] = nodes[i] /\ ~(nodes[i].in = d /\ nodes[i].name = File)
        BY <2>3 DEF Entry
      <3> HIDE DEF t
      <3> QED
        BY <2>1, <3>1
    <2> QED
      BY <2>2, <2>3
  <1>5. DOMAIN t = Inodes /\ t = [i \in Inodes |-> t[i]]
    OBVIOUS
  <1> HIDE DEF t, x
  <1>6. t \in [1 .. Len(nodes) -> Node]
    BY <1>4, <1>5 DEF Inodes
  <1>7. t \in Seq(Node) /\ Len(t) = Len(nodes)
    BY <1>1, <1>6
  <1>8. t[1].in = 0
    BY <1>1, <1>4 DEF TreeInv
  <1>9. OneEntry(t)
    <2> SUFFICES ASSUME NEW i \in Inodes, NEW j \in Inodes,
                        t[i].in = t[j].in, t[i].name = t[j].name, t[i].in # 0
                 PROVE  i = j
      BY <1>5 DEF OneEntry
    <2>1. t[i].in = nodes[i].in /\ t[j].in = nodes[j].in
      BY <1>4
    <2> QED
      BY <1>1, <1>4, <2>1 DEF TreeInv, OneEntry
  <1>10. Kept(nodes, t)
    BY <1>1, <1>4, <1>5 DEF Kept
  <1>11. Fixed(nodes, t)
    <2> SUFFICES ASSUME NEW i \in Inodes, nodes[i].kind = "dir"
                 PROVE  t[i].in = nodes[i].in /\ t[i].name = nodes[i].name
      BY <1>1 DEF Fixed
    <2>1. i \notin Entry(d, File)
      BY <1>3
    <2> QED
      BY <1>4, <2>1 DEF Entry
  <1>12. \A i \in Inodes : ~(t[i].in = x.in /\ t[i].name = x.name)
    BY <1>1, <1>2, <1>4
  <1> QED
    BY <1>2, <1>3, <1>7, <1>8, <1>9, <1>10, <1>11, <1>12, Appended DEF Change1

\* What is checked and where paths lead, after a change.
LEMMA RightsStay ==
  ASSUME TreeInv, TreeInv', Kept(nodes, nodes')
  PROVE  /\ Inodes \subseteq Inodes' /\ Len(nodes) <= Len(nodes')
         /\ \A i \in Inodes : /\ Safe(nodes, i) => Safe(nodes', i)
                              /\ Tight(nodes, i) => Tight(nodes', i)
                              /\ nodes'[i].owner = nodes[i].owner
                              /\ nodes'[i].kind = nodes[i].kind
  <1>1. /\ Len(nodes) \in Nat \ {0} /\ Len(nodes') \in Nat
        /\ DOMAIN nodes = 1 .. Len(nodes) /\ DOMAIN nodes' = 1 .. Len(nodes')
    BY DEF TreeInv
  <1>2. Inodes = 1 .. Len(nodes) /\ Inodes' = 1 .. Len(nodes')
    BY DEF Inodes
  <1>3. 1 .. Len(nodes) \subseteq 1 .. Len(nodes')
    BY <1>1 DEF Kept
  <1>4. Len(nodes) <= Len(nodes')
    <2>1. Len(nodes) \in 1 .. Len(nodes)
      BY <1>1
    <2>2. Len(nodes) \in 1 .. Len(nodes')
      BY <1>3, <2>1
    <2> QED
      BY <1>1, <2>2
  <1>5. DOMAIN nodes = Inodes
    BY <1>1, <1>2
  <1>6. \A i \in Inodes : /\ Safe(nodes, i) => Safe(nodes', i)
                          /\ Tight(nodes, i) => Tight(nodes', i)
                          /\ nodes'[i].owner = nodes[i].owner
                          /\ nodes'[i].kind = nodes[i].kind
    BY <1>5 DEF Kept, Safe, Tight
  <1> QED
    BY <1>2, <1>3, <1>4, <1>6

LEMMA PathsStay ==
  ASSUME IInv, Change1, ~moved', moved => moved'
  PROVE  /\ stage \notin {"serving", "refused"} /\ nodes[fd].owner = "ours" =>
              Firm(nodes', Path, depth, fd)
         /\ \A n \in DOMAIN held : Firm(nodes', Plan[n].path, Len(Plan[n].path), held[n])
  <1>1. /\ DOMAIN nodes \subseteq Nat \ {0} /\ OneEntry(nodes')
        /\ Kept(nodes, nodes') /\ Fixed(nodes, nodes')
    BY Numbers DEF IInv, Change1, TreeInv
  <1>2. /\ Len(Path) \in Nat /\ depth \in 0 .. Len(Path)
    BY PathTypes DEF IInv, CheckedInv, Path
  <1>3. \A n \in DOMAIN held : /\ Len(Plan[n].path) \in Nat
                               /\ Len(Plan[n].path) \in 0 .. Len(Plan[n].path)
    BY PathTypes DEF IInv, CheckedInv
  <1> QED
    BY <1>1, <1>2, <1>3, FirmStays DEF IInv, PathInv

LEMMA TreeChangeKeeps ==
  ASSUME IInv, Change1, UNCHANGED <<walk, loading, used>>,
         moved => moved', moved' \in BOOLEAN
  PROVE  IInv'
  <1>1. /\ UNCHANGED <<item, stage, fd, depth, made, held, loading, used>>
        /\ TreeInv /\ TreeInv' /\ CheckedInv /\ PathInv /\ UsedInv
    BY DEF walk, IInv, Change1
  <1>2. Path' = Path
    BY <1>1 DEF Path
  <1>3. /\ Inodes \subseteq Inodes' /\ Len(nodes) <= Len(nodes')
        /\ \A i \in Inodes : /\ Safe(nodes, i) => Safe(nodes', i)
                             /\ Tight(nodes, i) => Tight(nodes', i)
                             /\ nodes'[i].owner = nodes[i].owner
    BY <1>1, RightsStay DEF Change1
  <1>4. loading' \in 0 .. Len(nodes')
    <2>1. Len(nodes) \in Nat /\ Len(nodes') \in Nat
      BY <1>1 DEF TreeInv
    <2> QED
      BY <1>1, <1>3, <2>1 DEF CheckedInv
  <1>5. CheckedInv'
    BY <1>1, <1>2, <1>3, <1>4 DEF CheckedInv
  <1>6. PathInv'
    <2> SUFFICES ASSUME ~moved' PROVE PathInv'
      BY DEF PathInv
    <2>1. fd \in Inodes
      BY <1>1 DEF CheckedInv
    <2> QED
      BY <1>1, <1>2, <1>3, <2>1, PathsStay DEF PathInv
  <1>7. UsedInv'
    BY <1>1 DEF UsedInv
  <1> QED
    BY <1>1, <1>5, <1>6, <1>7 DEF IInv

-----------------------------------------------------------------------------
(* The walk                                                                *)

LEMMA FirmAtRoot ==
  ASSUME TreeInv, NEW path, Len(path) \in Nat, nodes[1].owner = "ours"
  PROVE  Firm(nodes, path, 0, 1)
  <1>1. Reached(nodes, path)[0] = {1} /\ 1 \in DOMAIN nodes
    BY ReachedSteps, Numbers
  <1> QED
    BY <1>1 DEF Firm

LEMMA CheckDirKeeps ==
  ASSUME IInv, CheckDir
  PROVE  IInv'
  <1>1. /\ stage = "check"
        /\ UNCHANGED <<nodes, item, fd, depth, made, held, loading, used, moved>>
        /\ \/ stage' = "refused"
           \/ stage' = "reopen" /\ depth = Len(Path) /\ TrustedDir(fd, TRUE)
           \/ stage' = "open" /\ depth # Len(Path) /\ TrustedDir(fd, FALSE)
    BY DEF CheckDir, Refuse
  <1>2. TreeInv /\ CheckedInv /\ PathInv /\ UsedInv /\ Path' = Path /\ Inodes' = Inodes
    BY <1>1 DEF IInv, Path, Inodes
  <1>3. Len(Path) \in Nat
    BY <1>2, PathTypes DEF CheckedInv, Path
  <1>4. CheckedInv'
    BY <1>1, <1>2, <1>3 DEF CheckedInv, TrustedDir, Safe, Tight
  <1>5. PathInv'
    BY <1>1, <1>2 DEF PathInv
  <1> QED
    BY <1>1, <1>2, <1>4, <1>5 DEF IInv, TreeInv, UsedInv

LEMMA OpenNextKeeps ==
  ASSUME IInv, OpenNext
  PROVE  IInv'
  <1>1. /\ stage \in {"open", "made"}
        /\ UNCHANGED <<nodes, item, made, held, loading, used, moved>>
        /\ \/ /\ \E i \in Entry(fd, Path[depth + 1]) : nodes[i].kind = "dir" /\ fd' = i
              /\ depth' = depth + 1 /\ stage' = "check"
           \/ stage' \in {"mkdir", "refused"} /\ UNCHANGED <<fd, depth>>
    BY DEF OpenNext, Refuse
  <1>2. TreeInv /\ CheckedInv /\ PathInv /\ UsedInv /\ Path' = Path /\ Inodes' = Inodes
    BY <1>1 DEF IInv, Path, Inodes
  <1>3. Len(Path) \in Nat /\ depth \in 0 .. Len(Path) /\ depth < Len(Path)
        /\ Safe(nodes, fd) /\ fd \in Inodes
    BY <1>1, <1>2, PathTypes DEF CheckedInv, Path
  <1>4. TreeInv' /\ UsedInv'
    BY <1>1, <1>2 DEF TreeInv, UsedInv
  <1>5. CASE stage' \in {"mkdir", "refused"} /\ UNCHANGED <<fd, depth>>
    <2>1. CheckedInv'
      BY <1>1, <1>2, <1>3, <1>5 DEF CheckedInv
    <2>2. PathInv'
      BY <1>1, <1>2, <1>5 DEF PathInv
    <2> QED
      BY <1>4, <2>1, <2>2 DEF IInv
  <1>6. CASE /\ \E i \in Entry(fd, Path[depth + 1]) : nodes[i].kind = "dir" /\ fd' = i
             /\ depth' = depth + 1 /\ stage' = "check"
    <2>1. PICK i \in Entry(fd, Path[depth + 1]) : nodes[i].kind = "dir" /\ fd' = i
      BY <1>6
    <2>2. i \in Inodes /\ nodes[i].in = fd /\ nodes[i].name = Path[depth + 1]
          /\ nodes[i].kind = "dir"
      BY <2>1 DEF Entry
    <2>3. depth + 1 \in 0 .. Len(Path) /\ depth + 1 \in 1 .. Len(Path)
          /\ (depth + 1) - 1 = depth /\ depth \in Nat
      BY <1>3
    <2>4. CheckedInv'
      BY <1>1, <1>2, <1>6, <2>1, <2>2, <2>3 DEF CheckedInv
    <2>5. ASSUME ~moved, nodes[i].owner = "ours" PROVE Firm(nodes, Path, depth + 1, i)
      <3>1. Firm(nodes, Path, depth, fd)
        BY <1>1, <1>2, <1>3, <2>5 DEF PathInv, Safe
      <3>2. Reached(nodes, Path)[depth + 1] =
              Below(nodes, Path[depth + 1], Reached(nodes, Path)[(depth + 1) - 1])
        BY <1>3, <2>3, ReachedSteps
      <3>3. Reached(nodes, Path)[depth + 1] = Below(nodes, Path[depth + 1], {fd})
        BY <2>3, <3>1, <3>2 DEF Firm
      <3>4. fd # 0 /\ DOMAIN nodes = Inodes
        BY <1>2, <1>3, Numbers
      <3>5. Below(nodes, Path[depth + 1], {fd}) = {i}
        BY <1>2, <2>2, <3>4 DEF Below, TreeInv, OneEntry
      <3>6. ASSUME NEW j \in 0 .. (depth + 1)
            PROVE  \E a \in DOMAIN nodes :
                     /\ Reached(nodes, Path)[j] = {a} /\ nodes[a].owner = "ours"
                     /\ j < depth + 1 => Safe(nodes, a)
        <4>1. CASE j = depth + 1
          <5>1. Reached(nodes, Path)[j] = {i} /\ i \in DOMAIN nodes
            BY <2>2, <3>3, <3>4, <3>5, <4>1
          <5>2. ~(j < depth + 1)
            BY <2>3, <4>1
          <5> QED
            BY <2>5, <5>1, <5>2
        <4>2. CASE j = depth
          <5>1. Reached(nodes, Path)[j] = {fd}
            BY <3>1, <4>2 DEF Firm
          <5> QED
            BY <1>3, <3>4, <5>1 DEF Safe
        <4>3. CASE j # depth /\ j # depth + 1
          <5>1. j \in 0 .. depth /\ j < depth
            BY <2>3, <4>3
          <5> QED
            BY <3>1, <5>1 DEF Firm
        <4> QED
          BY <4>1, <4>2, <4>3
      <3> QED
        BY <3>3, <3>5, <3>6 DEF Firm
    <2>6. PathInv'
      BY <1>1, <1>2, <1>6, <2>1, <2>5 DEF PathInv
    <2> QED
      BY <1>4, <2>4, <2>6 DEF IInv
  <1> QED
    BY <1>1, <1>5, <1>6

LEMMA MakeDirStep ==
  ASSUME IInv, MakeDir
  PROVE  IInv'
  <1>1. /\ stage = "mkdir" /\ stage' \in {"made", "refused"}
        /\ UNCHANGED <<item, fd, depth, held, loading, used, moved>>
        /\ made' \in {made, made \cup {item}}
    BY DEF MakeDir, Refuse
  <1>2. TreeInv /\ CheckedInv /\ PathInv /\ UsedInv /\ Path' = Path
    BY <1>1 DEF IInv, Path
  <1>3. Change1
    BY <1>2, MakeDirKeeps
  <1>4. /\ Inodes \subseteq Inodes' /\ Len(nodes) <= Len(nodes')
        /\ \A i \in Inodes : /\ Safe(nodes, i) => Safe(nodes', i)
                             /\ Tight(nodes, i) => Tight(nodes', i)
                             /\ nodes'[i].owner = nodes[i].owner
    BY <1>2, <1>3, RightsStay DEF Change1
  <1>5. loading' \in 0 .. Len(nodes')
    <2>1. Len(nodes) \in Nat /\ Len(nodes') \in Nat
      BY <1>2, <1>3 DEF TreeInv, Change1
    <2> QED
      BY <1>1, <1>2, <1>4, <2>1 DEF CheckedInv
  <1>6. CheckedInv'
    BY <1>1, <1>2, <1>4, <1>5 DEF CheckedInv
  <1>7. PathInv'
    <2> SUFFICES ASSUME ~moved' PROVE PathInv'
      BY DEF PathInv
    <2> QED
      BY <1>1, <1>2, <1>3, <1>4, PathsStay DEF PathInv, CheckedInv
  <1> QED
    BY <1>1, <1>2, <1>3, <1>6, <1>7 DEF IInv, UsedInv, Change1

LEMMA ReopenStep ==
  ASSUME IInv, Reopen
  PROVE  IInv'
  <1>1. /\ stage = "reopen" /\ stage' \in {"use", "refused"}
        /\ UNCHANGED <<item, fd, depth, made, held, loading, used, moved>>
    BY DEF Reopen, Refuse
  <1>2. TreeInv /\ CheckedInv /\ PathInv /\ UsedInv /\ Path' = Path
    BY <1>1 DEF IInv, Path
  <1>3. Change1
    BY <1>2, ReopenKeeps
  <1>4. /\ Inodes \subseteq Inodes' /\ Len(nodes) <= Len(nodes')
        /\ \A i \in Inodes : /\ Safe(nodes, i) => Safe(nodes', i)
                             /\ Tight(nodes, i) => Tight(nodes', i)
                             /\ nodes'[i].owner = nodes[i].owner
    BY <1>2, <1>3, RightsStay DEF Change1
  <1>5. loading' \in 0 .. Len(nodes')
    <2>1. Len(nodes) \in Nat /\ Len(nodes') \in Nat
      BY <1>2, <1>3 DEF TreeInv, Change1
    <2> QED
      BY <1>1, <1>2, <1>4, <2>1 DEF CheckedInv
  <1>6. CheckedInv'
    BY <1>1, <1>2, <1>4, <1>5 DEF CheckedInv
  <1>7. PathInv'
    <2> SUFFICES ASSUME ~moved' PROVE PathInv'
      BY DEF PathInv
    <2> QED
      BY <1>1, <1>2, <1>3, <1>4, PathsStay DEF PathInv, CheckedInv
  <1> QED
    BY <1>1, <1>2, <1>3, <1>6, <1>7 DEF IInv, UsedInv, Change1

-----------------------------------------------------------------------------
(* The uses                                                                *)

\* On to the next root, or to serving.
LEMMA NextKeeps ==
  ASSUME IInv, NextItem, UNCHANGED <<nodes, made, loading, moved>>,
         DOMAIN held' \subseteq DOMAIN Plan,
         \A n \in DOMAIN held' : /\ held'[n] \in Inodes /\ Tight(nodes, held'[n])
                                 /\ ~moved => Firm(nodes, Plan[n].path, Len(Plan[n].path),
                                                   held'[n]),
         UsedInv'
  PROVE  IInv'
  <1>1. TreeInv /\ CheckedInv /\ Inodes' = Inodes
    BY DEF IInv, Inodes
  <1>2. 1 \in Inodes /\ TreeInv'
    BY <1>1, Numbers DEF TreeInv
  <1>3. Plan # <<>> /\ Len(Plan) \in Nat /\ DOMAIN Plan = 1 .. Len(Plan)
    BY PlanAssumption
  <1>4. CASE stage' = "serving" /\ UNCHANGED <<item, fd, depth>>
    <2>1. Path' = Path
      BY <1>4 DEF Path
    <2>2. CheckedInv'
      BY <1>1, <1>4, <2>1 DEF CheckedInv
    <2>3. PathInv'
      BY <1>4 DEF PathInv
    <2> QED
      BY <1>2, <2>2, <2>3 DEF IInv
  <1>5. CASE item # Len(Plan) /\ item' = item + 1 /\ stage' = "check" /\ fd' = 1 /\ depth' = 0
    <2>1. item' \in DOMAIN Plan
      BY <1>1, <1>3, <1>5 DEF CheckedInv
    <2>2. Len(Path') \in Nat
      BY <2>1, PathTypes DEF Path
    <2>3. CheckedInv'
      BY <1>1, <1>2, <1>5, <2>1, <2>2 DEF CheckedInv
    <2>4. nodes[1].owner = "ours" => Firm(nodes, Path', 0, 1)
      BY <1>1, <2>2, FirmAtRoot
    <2>5. PathInv'
      BY <1>5, <2>4 DEF PathInv
    <2> QED
      BY <1>2, <2>3, <2>5 DEF IInv
  <1> QED
    BY <1>4, <1>5 DEF NextItem

LEMMA HeldStays ==
  ASSUME IInv, UNCHANGED <<nodes, held, moved>>
  PROVE  /\ DOMAIN held' \subseteq DOMAIN Plan
         /\ \A n \in DOMAIN held' : /\ held'[n] \in Inodes /\ Tight(nodes, held'[n])
                                    /\ ~moved => Firm(nodes, Plan[n].path,
                                                      Len(Plan[n].path), held'[n])
  BY DEF IInv, CheckedInv, PathInv

LEMMA RefuseKeeps ==
  ASSUME IInv, stage' = "refused",
         UNCHANGED <<nodes, item, fd, depth, made, held, loading, used, moved>>
  PROVE  IInv'
  <1>1. Path' = Path /\ Inodes' = Inodes
    BY DEF Path, Inodes
  <1> QED
    BY <1>1 DEF IInv, TreeInv, CheckedInv, PathInv, UsedInv

LEMMA UsedOk ==
  ASSUME NEW what, NEW i, Tight(nodes, i)
  PROVE  Used(what, i).ok
  BY DEF Used, Tight

LEMMA UseKeyKeeps ==
  ASSUME IInv, UseKey
  PROVE  IInv'
  <1>1. UNCHANGED <<nodes, made, held, loading, moved>>
    BY DEF UseKey
  <1>2. CASE /\ \E i \in Inodes : TrustedFile(i) /\ used' = used \cup {Used("key", i)}
             /\ NextItem
    <2>1. PICK i \in Inodes : TrustedFile(i) /\ used' = used \cup {Used("key", i)}
      BY <1>2
    <2>2. Used("key", i).ok
      BY <2>1, UsedOk DEF TrustedFile, Tight
    <2>3. UsedInv'
      BY <2>1, <2>2 DEF IInv, UsedInv
    <2> QED
      BY <1>1, <1>2, <2>3, HeldStays, NextKeeps
  <1>3. CASE Refuse /\ UNCHANGED <<item, fd, depth, used>>
    BY <1>1, <1>3, RefuseKeeps DEF Refuse
  <1> QED
    BY <1>2, <1>3 DEF UseKey, Entry

LEMMA UseNothingKeeps ==
  ASSUME IInv, UseNothing
  PROVE  IInv'
  <1>1. UNCHANGED <<nodes, made, held, loading, used, moved>> /\ NextItem
    BY DEF UseNothing
  <1>2. UsedInv'
    BY <1>1 DEF IInv, UsedInv
  <1> QED
    BY <1>1, <1>2, HeldStays, NextKeeps

LEMMA KeepHandleKeeps ==
  ASSUME IInv, KeepHandle
  PROVE  IInv'
  <1>1. UNCHANGED <<nodes, made, loading, used, moved>> /\ stage = "use"
    BY DEF KeepHandle
  <1>2. CASE Refuse /\ UNCHANGED <<item, fd, depth, held>>
    BY <1>1, <1>2, RefuseKeeps DEF Refuse
  <1>3. CASE /\ held' = [n \in DOMAIN held \cup {item} |-> IF n = item THEN fd ELSE held[n]]
             /\ NextItem
    <2>1. UsedInv'
      BY <1>1 DEF IInv, UsedInv
    <2>2. /\ item \in DOMAIN Plan /\ DOMAIN held \subseteq DOMAIN Plan
          /\ fd \in Inodes /\ Tight(nodes, fd) /\ depth = Len(Path)
          /\ \A n \in DOMAIN held : held[n] \in Inodes /\ Tight(nodes, held[n])
      BY <1>1 DEF IInv, CheckedInv
    <2>3. ~moved => /\ Firm(nodes, Plan[item].path, Len(Plan[item].path), fd)
                    /\ \A n \in DOMAIN held :
                         Firm(nodes, Plan[n].path, Len(Plan[n].path), held[n])
      BY <1>1, <2>2 DEF IInv, PathInv, Tight, Path
    <2>4. DOMAIN held' = DOMAIN held \cup {item} /\ held'[item] = fd
          /\ \A n \in DOMAIN held : n # item => held'[n] = held[n]
      BY <1>3
    <2>5. \A n \in DOMAIN held' :
            /\ held'[n] \in Inodes /\ Tight(nodes, held'[n])
            /\ ~moved => Firm(nodes, Plan[n].path, Len(Plan[n].path), held'[n])
      BY <2>2, <2>3, <2>4
    <2>6. DOMAIN held' \subseteq DOMAIN Plan
      BY <2>2, <2>4
    <2> QED
      BY <1>1, <1>3, <2>1, <2>5, <2>6, NextKeeps
  <1> QED
    BY <1>2, <1>3 DEF KeepHandle

LEMMA UseByPathKeeps ==
  ASSUME IInv, UseByPath
  PROVE  IInv'
  <1>1. UNCHANGED <<nodes, made, held, loading, moved>> /\ stage = "use"
    BY DEF UseByPath
  <1>2. CASE Refuse /\ UNCHANGED <<item, fd, depth, used>>
    BY <1>1, <1>2, RefuseKeeps DEF Refuse
  <1>3. CASE /\ \E d \in Resolve(Path) :
                  used' = IF moved THEN used
                          ELSE used \cup {[Used("listen", d) EXCEPT !.ok = @ /\ d = fd]}
             /\ NextItem
    <2>1. PICK d \in Resolve(Path) :
            used' = IF moved THEN used
                    ELSE used \cup {[Used("listen", d) EXCEPT !.ok = @ /\ d = fd]}
      BY <1>3
    <2>2. Tight(nodes, fd) /\ depth = Len(Path)
      BY <1>1 DEF IInv, CheckedInv
    <2>3. ASSUME ~moved PROVE \A u \in used' : u.ok
      <3>1. Resolve(Path) = {fd}
        BY <1>1, <2>2, <2>3 DEF IInv, PathInv, Firm, Resolve, Tight
      <3>2. d = fd
        BY <2>1, <3>1
      <3>3. [Used("listen", d) EXCEPT !.ok = @ /\ d = fd].ok
        BY <2>2, <3>2 DEF Used, Tight
      <3>4. used' = used \cup {[Used("listen", d) EXCEPT !.ok = @ /\ d = fd]}
        BY <2>1, <2>3
      <3> QED
        BY <3>3, <3>4 DEF IInv, UsedInv
    <2>4. UsedInv'
      BY <2>1, <2>3 DEF IInv, UsedInv
    <2> QED
      BY <1>1, <1>3, <2>4, HeldStays, NextKeeps
  <1> QED
    BY <1>2, <1>3 DEF UseByPath

LEMMA PublishKeeps ==
  ASSUME IInv, PublishJWKS
  PROVE  IInv'
  <1>1. /\ UNCHANGED <<nodes, made, held, loading, moved>> /\ NextItem /\ stage = "use"
        /\ used' = used \cup {Used("jwks", fd)}
    BY DEF PublishJWKS
  <1>2. Used("jwks", fd).ok
    BY <1>1, UsedOk DEF IInv, CheckedInv
  <1>3. UsedInv'
    BY <1>1, <1>2 DEF IInv, UsedInv
  <1> QED
    BY <1>1, <1>3, HeldStays, NextKeeps

LEMMA ServingKeeps ==
  ASSUME IInv, UseSpawnRoot \/ LoadOpens \/ LoadReads
  PROVE  IInv'
  <1>1. UNCHANGED <<nodes, item, stage, fd, depth, made, held, moved>>
    BY DEF UseSpawnRoot, LoadOpens, LoadReads, walk
  <1>2. TreeInv /\ CheckedInv /\ PathInv /\ UsedInv /\ Path' = Path /\ Inodes' = Inodes
    BY <1>1 DEF IInv, Path, Inodes
  <1>3. loading' \in 0 .. Len(nodes) /\ UsedInv'
    <2>1. CASE UseSpawnRoot
      <3>1. PICK d \in Handle("spawn") : used' = used \cup {Used("spawn", d)}
        BY <2>1 DEF UseSpawnRoot
      <3>2. Tight(nodes, d)
        BY <1>2 DEF Handle, CheckedInv
      <3> QED
        BY <1>2, <2>1, <3>1, <3>2, UsedOk DEF UseSpawnRoot, UsedInv, CheckedInv
    <2>2. CASE LoadOpens
      <3>1. loading' \in Inodes /\ used' = used
        BY <2>2 DEF LoadOpens, Entry
      <3>2. Len(nodes) \in Nat
        BY <1>2, Numbers
      <3> QED
        BY <1>2, <3>1, <3>2 DEF Inodes, UsedInv
    <2>3. CASE LoadReads
      <3>1. loading' = 0 /\ Len(nodes) \in Nat
        BY <1>2, <2>3, Numbers DEF LoadReads
      <3>2. used' = used \/ (Tight(nodes, loading)
                             /\ used' = used \cup {Used("definition", loading)})
        BY <2>3 DEF LoadReads, TrustedFile, Tight
      <3>3. UsedInv'
        BY <1>2, <3>2, UsedOk DEF UsedInv
      <3> QED
        BY <3>1, <3>3
    <2> QED
      BY <2>1, <2>2, <2>3
  <1>4. CheckedInv'
    BY <1>1, <1>2, <1>3 DEF CheckedInv
  <1>5. PathInv' /\ TreeInv'
    BY <1>1, <1>2 DEF PathInv, TreeInv
  <1> QED
    BY <1>3, <1>4, <1>5 DEF IInv

-----------------------------------------------------------------------------
LEMMA StartsTrusted == Init => IInv
  <1> SUFFICES ASSUME Init PROVE IInv
    OBVIOUS
  <1>1. /\ nodes \in Trees /\ item = 1 /\ stage = "check" /\ fd = 1 /\ depth = 0
        /\ made = {} /\ held = <<>> /\ loading = 0 /\ used = {} /\ moved = FALSE
    BY DEF Init
  <1>2. TreeInv
    BY <1>1, TreesAssumption DEF TreeInv, OneEntry
  <1>3. item \in DOMAIN Plan
    <2>1. Plan # <<>> /\ Len(Plan) \in Nat /\ DOMAIN Plan = 1 .. Len(Plan)
      BY PlanAssumption
    <2>2. Len(Plan) # 0
      BY PlanAssumption
    <2> QED
      BY <1>1, <2>1, <2>2
  <1>4. Len(Path) \in Nat
    BY <1>3, PathTypes DEF Path
  <1>5. CheckedInv
    <2>1. 1 \in Inodes /\ Len(nodes) \in Nat
      BY <1>2, Numbers
    <2>2. DOMAIN held = {}
      BY <1>1
    <2>3. 0 \in 0 .. Len(Path) /\ 0 \in 0 .. Len(nodes)
      BY <1>4, <2>1
    <2> QED
      BY <1>1, <1>3, <2>1, <2>2, <2>3 DEF CheckedInv
  <1>6. PathInv
    BY <1>1, <1>2, <1>4, FirmAtRoot DEF PathInv
  <1> QED
    BY <1>1, <1>2, <1>5, <1>6 DEF IInv, UsedInv

LEMMA StaysTrusted == IInv /\ [Next]_vars => IInv'
  <1> SUFFICES ASSUME IInv, [Next]_vars PROVE IInv'
    OBVIOUS
  <1>0. TreeInv /\ CheckedInv /\ moved \in BOOLEAN
    BY DEF IInv, CheckedInv
  <1>1. CASE Start
    BY <1>1, CheckDirKeeps, OpenNextKeeps, MakeDirStep, ReopenStep, UseKeyKeeps,
       UseNothingKeeps, KeepHandleKeeps, UseByPathKeeps, PublishKeeps DEF Start
  <1>2. CASE UseSpawnRoot \/ LoadOpens \/ LoadReads
    BY <1>2, ServingKeeps
  <1>3. ASSUME NEW d \in Inodes, NEW n \in Names, NEW kind \in {"dir", "link"},
               NEW loose \in BOOLEAN, TheyAdd(d, n, kind, loose)
        PROVE  IInv'
    BY <1>0, <1>3, TheyAddKeeps, TreeChangeKeeps DEF TheyAdd
  <1>4. ASSUME NEW i \in Inodes, NEW n \in Names, TheyMove(i, n) PROVE IInv'
    BY <1>0, <1>4, TheyMoveKeeps, TreeChangeKeeps DEF TheyMove
  <1>5. ASSUME NEW i \in Inodes, TheyChmod(i) PROVE IInv'
    BY <1>0, <1>5, TheyChmodKeeps, TreeChangeKeeps DEF TheyChmod
  <1>6. ASSUME NEW i \in Inodes, OperatorMoves(i) PROVE IInv'
    BY <1>0, <1>6, OperatorMovesKeeps, TreeChangeKeeps DEF OperatorMoves
  <1>7. ASSUME NEW d \in Inodes, NEW owner \in {"ours", "theirs"}, NEW loose \in BOOLEAN,
               OperatorReplaces(d, owner, loose)
        PROVE  IInv'
    BY <1>0, <1>7, OperatorReplacesKeeps, TreeChangeKeeps DEF OperatorReplaces
  <1>8. CASE UNCHANGED vars
    <2>1. UNCHANGED <<nodes, item, stage, fd, depth, made, held, loading, used, moved>>
      BY <1>8 DEF vars, walk
    <2>2. Path' = Path /\ Inodes' = Inodes
      BY <2>1 DEF Path, Inodes
    <2> QED
      BY <2>1, <2>2 DEF IInv, TreeInv, CheckedInv, PathInv, UsedInv
  <1> QED
    BY <1>1, <1>2, <1>3, <1>4, <1>5, <1>6, <1>7, <1>8 DEF Next

\* Serve acts only on directories and files that were ours and closed to others when
\* it did, whatever other uids and the operator change between its calls.
THEOREM Trusted == Spec => []ActsOnlyOnTrusted
  <1>1. IInv => ActsOnlyOnTrusted
    BY DEF IInv, CheckedInv, TreeInv, UsedInv, ActsOnlyOnTrusted, TypeOK
  <1> QED
    BY <1>1, StartsTrusted, StaysTrusted, PTL DEF Spec

\* While the operator moves no directory, the path of every root that is open leads
\* to the directory that was checked.
THEOREM PathsLead == Spec => []PathsHold
  <1>1. IInv => PathsHold
    <2> SUFFICES ASSUME IInv, ~moved
                 PROVE  /\ \A n \in DOMAIN held : Resolve(Plan[n].path) = {held[n]}
                        /\ stage = "use" => Resolve(Path) = {fd}
      BY DEF PathsHold
    <2>1. \A n \in DOMAIN held : Resolve(Plan[n].path) = {held[n]}
      BY DEF IInv, PathInv, Firm, Resolve
    <2>2. stage = "use" => Resolve(Path) = {fd}
      BY DEF IInv, CheckedInv, PathInv, Firm, Resolve, Tight
    <2> QED
      BY <2>1, <2>2
  <1> QED
    BY <1>1, StartsTrusted, StaysTrusted, PTL DEF Spec
=============================================================================

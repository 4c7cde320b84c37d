---------------------------- MODULE BindingProofs ----------------------------
(***************************************************************************)
(* Proofs about RuntimeBinding, for any process table, any number of       *)
(* changes of the host between the reads and any limit on wrappers.        *)
(***************************************************************************)
EXTENDS RuntimeBinding, WellFoundedInduction, TLAPS

-----------------------------------------------------------------------------
(* The process table                                                       *)

Process == [start: Nat, ppid: Nat, uid: Uid \cup {0}, image: Image \cup {"init"}]

Record == [pid: Nat, start: Nat, ppid: Nat, shell: BOOLEAN,
           file: {"none"} \cup {FileOf[i] : i \in Image \cup {"init"}},
           c: BOOLEAN, uid: Uid \cup {0}]

\* The latest start time there has been.
Last == Newest + events

\* Below init every process has a live parent that is older.
TableInv ==
  /\ Live \subseteq Pid /\ 1 \in Live
  /\ table \in [Live -> Process]
  /\ events \in 0 .. MaxEvents /\ installed \in ClientImages
  /\ \A p \in Live : table[p].start <= Last /\ <<p, table[p].start, table[p].image>> \in ran
  /\ \A p \in Live \ {1} : /\ table[1].start < table[p].start
                           /\ table[p].ppid \in Live
                           /\ table[table[p].ppid].start < table[p].start

LEMMA NewestPid == Newest \in Nat /\ \A p \in Pid : p <= Newest
  BY PidAssumption DEF Newest

LEMMA YoungPid == \A p \in Pid \ {1} : p \in Nat
  BY PidAssumption

LEMMA TableOfFacts ==
  ASSUME NEW parent, NEW uid, NEW image,
         \A p \in Pid \ {1} : parent[p] \in Pid /\ uid[p] \in Uid /\ image[p] \in Image
  PROVE  /\ DOMAIN TableOf(parent, uid, image) = Pid
         /\ TableOf(parent, uid, image) \in [Pid -> Process]
         /\ TableOf(parent, uid, image)[1] = InitProcess
         /\ \A p \in Pid \ {1} : /\ TableOf(parent, uid, image)[p].start = p
                                 /\ TableOf(parent, uid, image)[p].ppid = parent[p]
                                 /\ TableOf(parent, uid, image)[p].uid = uid[p]
  <1> DEFINE t == TableOf(parent, uid, image)
  <1>1. DOMAIN t = Pid
    BY DEF TableOf
  <1>2. t[1] = InitProcess
    BY PidAssumption DEF TableOf
  <1>3. \A p \in Pid \ {1} : t[p] = [start |-> p, ppid |-> parent[p], uid |-> uid[p],
                                     image |-> image[p]]
    BY DEF TableOf
  <1>4. InitProcess \in Process
    BY DEF InitProcess, Process
  <1>5. ASSUME NEW p \in Pid \ {1} PROVE t[p] \in Process
    <2>1. p \in Nat /\ parent[p] \in Nat /\ uid[p] \in Uid \cup {0}
          /\ image[p] \in Image \cup {"init"}
      BY PidAssumption, YoungPid
    <2>2. [start |-> p, ppid |-> parent[p], uid |-> uid[p], image |-> image[p]] \in Process
      BY <2>1 DEF Process
    <2> QED
      BY <1>3, <2>2
  <1>6. \A p \in Pid : t[p] \in Process
    BY <1>2, <1>4, <1>5
  <1>7. t = [p \in Pid |-> t[p]]
    BY DEF TableOf
  <1>8. t \in [Pid -> Process]
    <2> HIDE DEF t
    <2> QED
      BY <1>6, <1>7
  <1>9. \A p \in Pid \ {1} : t[p].start = p /\ t[p].ppid = parent[p] /\ t[p].uid = uid[p]
    <2> HIDE DEF t
    <2> SUFFICES ASSUME NEW p \in Pid \ {1}
                 PROVE  t[p].start = p /\ t[p].ppid = parent[p] /\ t[p].uid = uid[p]
      OBVIOUS
    <2>1. t[p] = [start |-> p, ppid |-> parent[p], uid |-> uid[p], image |-> image[p]]
      BY <1>3
    <2> QED
      BY <2>1
  <1> QED
    BY <1>1, <1>2, <1>8, <1>9

LEMMA TableInit ==
  Init => TableInv
  <1> SUFFICES ASSUME Init PROVE TableInv
    OBVIOUS
  <1>1. PICK parent \in {f \in [Pid \ {1} -> Pid] : \A p \in Pid \ {1} : f[p] < p},
             uid \in [Pid \ {1} -> Uid],
             image \in [Pid \ {1} -> (Image \ ClientImages) \cup {installed}] :
          table = TableOf(parent, uid, image)
    BY DEF Init
  <1>2. installed \in Image /\ installed \in ClientImages
    BY ImageAssumption DEF Init
  <1>3. \A p \in Pid \ {1} : /\ parent[p] \in Pid /\ parent[p] < p
                             /\ uid[p] \in Uid /\ image[p] \in Image
    BY <1>1, <1>2
  <1>4. /\ Live = Pid /\ table \in [Pid -> Process] /\ table[1] = InitProcess
        /\ \A p \in Pid \ {1} : /\ table[p].start = p /\ table[p].ppid \in Pid
                                /\ table[p].ppid < p
    BY <1>1, <1>3, TableOfFacts DEF Live
  <1>5. \A p \in Pid : p \in Nat
    BY PidAssumption
  <1>6. 1 \in Pid /\ table[1].start = 1
    BY <1>4, PidAssumption DEF InitProcess
  <1>7. \A p \in Pid \ {1} : 1 < p
    <2> SUFFICES ASSUME NEW p \in Pid \ {1} PROVE 1 < p
      OBVIOUS
    <2>1. table[p].ppid \in Nat /\ table[p].ppid < p /\ p \in Nat
      BY <1>4, <1>5
    <2> QED
      BY <2>1
  <1>8. \A p \in Pid : table[p].start = p
    BY <1>4, <1>6
  <1>9. \A p \in Pid : table[p].start <= Last
    <2>1. events = 0
      BY DEF Init
    <2>2. Last = Newest
      BY <2>1, NewestPid DEF Last
    <2> QED
      BY <1>8, <1>5, <2>2, NewestPid
  <1>10. events \in 0 .. MaxEvents
    BY HopsAssumption DEF Init
  <1>11. \A p \in Pid : <<p, table[p].start, table[p].image>> \in ran
    BY DEF Init
  <1>12. \A p \in Pid \ {1} : /\ table[1].start < table[p].start
                              /\ table[p].ppid \in Pid
                              /\ table[table[p].ppid].start < table[p].start
    <2> SUFFICES ASSUME NEW p \in Pid \ {1}
                 PROVE  /\ table[1].start < table[p].start
                        /\ table[p].ppid \in Pid
                        /\ table[table[p].ppid].start < table[p].start
      OBVIOUS
    <2>1. table[p].ppid \in Pid /\ table[p].ppid < p /\ table[p].start = p /\ 1 < p
      BY <1>4, <1>7
    <2>2. table[table[p].ppid].start = table[p].ppid
      BY <1>8, <2>1
    <2> QED
      BY <1>6, <2>1, <2>2
  <1> HIDE DEF Live
  <1> QED
    BY <1>2, <1>4, <1>6, <1>9, <1>10, <1>11, <1>12 DEF TableInv

\* What a change of the host leaves of the table: a process is new and the
\* youngest, or is who it was, and then has its parent or was adopted by somebody
\* older than the parent, who is gone.
Moved(p) ==
  \/ p \notin Live /\ table'[p].start = Last + 1
  \/ /\ p \in Live
     /\ table'[p].start = table[p].start /\ table'[p].uid = table[p].uid
     /\ \/ table'[p].ppid = table[p].ppid
        \/ /\ table[p].ppid \notin Live'
           /\ table'[p].ppid \in Live
           /\ table[p].ppid \in Live =>
                table[table'[p].ppid].start < table[table[p].ppid].start

HostMoves ==
  /\ Last' = Last + 1 /\ ran \subseteq ran'
  /\ \A p \in Live' : Moved(p)

LEMMA LastNat == TableInv => Last \in Nat /\ events \in Nat
  BY NewestPid, HopsAssumption DEF TableInv, Last

LEMMA ChangedFacts ==
  ASSUME TableInv, NEW t, Changed(t)
  PROVE  /\ table' = t /\ Live' = DOMAIN t /\ Last' = Last + 1
         /\ events' \in 0 .. MaxEvents
         /\ ran \subseteq ran'
         /\ \A p \in DOMAIN t : <<p, t[p].start, t[p].image>> \in ran'
         /\ UNCHANGED <<peer, pass, field, cur, chain, again, instant>>
  <1>1. events' = events + 1 /\ events < MaxEvents /\ table' = t /\ Live' = DOMAIN t
    BY DEF Changed, Live
  <1>2. Last' = Last + 1
    BY <1>1, LastNat, NewestPid DEF Last, Newest
  <1>3. events' \in 0 .. MaxEvents
    BY <1>1, LastNat, HopsAssumption
  <1>4. ran' = ran \cup {<<p, t[p].start, t[p].image>> : p \in DOMAIN t}
    BY DEF Changed
  <1> QED
    BY <1>1, <1>2, <1>3, <1>4 DEF Changed

LEMMA TableProcess ==
  ASSUME TableInv, NEW p \in Live
  PROVE  /\ table[p] \in Process /\ table[p].start \in Nat /\ table[p].ppid \in Nat
         /\ table[p].uid \in Uid \cup {0} /\ table[p].image \in Image \cup {"init"}
         /\ p \in Nat
  <1>1. table[p] \in Process
    BY DEF TableInv
  <1> QED
    BY <1>1, PidAssumption DEF Process, TableInv

LEMMA Started ==
  TableInv => \A p \in Live : table[p].start \in Nat /\ table[p].start <= Last
  BY TableProcess DEF TableInv

LEMMA ForkMoves ==
  ASSUME TableInv, NEW parent \in Pid, NEW child \in Pid, Fork(parent, child)
  PROVE  TableInv' /\ HostMoves
  <1> DEFINE t == [p \in Live \cup {child} |->
                     IF p = child THEN [table[parent] EXCEPT !.ppid = parent,
                                                             !.start = Newest + events + 1]
                                  ELSE table[p]]
  <1>1. parent \in Live /\ child \notin Live /\ Changed(t) /\ installed' = installed
    BY DEF Fork
  <1>2. Last \in Nat
    BY LastNat
  <1>3. t[child] \in Process /\ t[child].start = Last + 1 /\ t[child].ppid = parent
    <2>1. t[child] = [start |-> Last + 1, ppid |-> parent, uid |-> table[parent].uid,
                      image |-> table[parent].image]
      BY <1>1, TableProcess DEF Last, Process
    <2>2. table[parent].uid \in Uid \cup {0} /\ table[parent].image \in Image \cup {"init"}
          /\ parent \in Nat
      BY <1>1, TableProcess
    <2> HIDE DEF t
    <2> QED
      BY <1>2, <2>1, <2>2 DEF Process
  <1>4. \A p \in Live : t[p] = table[p] /\ p # child
    BY <1>1
  <1>5. DOMAIN t = Live \cup {child} /\ t = [p \in Live \cup {child} |-> t[p]]
    OBVIOUS
  <1> HIDE DEF t
  <1>6. /\ table' = t /\ Live' = Live \cup {child} /\ Last' = Last + 1
        /\ events' \in 0 .. MaxEvents /\ ran \subseteq ran'
        /\ \A p \in Live' : <<p, table'[p].start, table'[p].image>> \in ran'
    BY <1>1, <1>5, ChangedFacts
  <1>7. \A p \in Live : table'[p] = table[p]
    BY <1>4, <1>6
  <1>8. table' \in [Live' -> Process]
    <2>1. \A p \in Live : t[p] \in Process
      BY <1>4, TableProcess
    <2> QED
      BY <1>3, <1>5, <1>6, <2>1
  <1>9. \A p \in Live' : table'[p].start <= Last'
    <2> TAKE p \in Live'
    <2>1. CASE p = child
      BY <1>2, <1>3, <1>6, <2>1
    <2>2. CASE p \in Live
      BY <1>2, <1>6, <1>7, <2>2, Started
    <2> QED
      BY <1>6, <2>1, <2>2
  <1>10. 1 \in Live /\ Live' \subseteq Pid
    BY <1>6 DEF TableInv
  <1>11. \A p \in Live' \ {1} : /\ table'[1].start < table'[p].start
                                /\ table'[p].ppid \in Live'
                                /\ table'[table'[p].ppid].start < table'[p].start
    <2> TAKE p \in Live' \ {1}
    <2>1. CASE p = child
      <3>1. table[1].start \in Nat /\ table[1].start <= Last
            /\ table[parent].start \in Nat /\ table[parent].start <= Last
        BY <1>1, <1>10, TableProcess DEF TableInv
      <3> QED
        BY <1>1, <1>2, <1>3, <1>6, <1>7, <1>10, <2>1, <3>1
    <2>2. CASE p \in Live
      BY <1>6, <1>7, <1>10, <2>2 DEF TableInv
    <2> QED
      BY <1>6, <2>1, <2>2
  <1>12. installed' \in ClientImages
    BY <1>1 DEF TableInv
  <1>13. TableInv'
    BY <1>6, <1>8, <1>9, <1>10, <1>11, <1>12 DEF TableInv
  <1>14. \A p \in Live' : Moved(p)
    BY <1>1, <1>3, <1>6, <1>7 DEF Moved
  <1> QED
    BY <1>6, <1>13, <1>14 DEF HostMoves

LEMMA ExitMoves ==
  ASSUME TableInv, NEW p \in Pid, Exit(p)
  PROVE  TableInv' /\ HostMoves
  <1>1. p \in Live /\ p # 1 /\ installed' = installed
    BY DEF Exit
  <1>2. PICK heir \in Adopters(p) :
          Changed([c \in Live \ {p} |-> IF table[c].ppid = p
                                        THEN [table[c] EXCEPT !.ppid = heir]
                                        ELSE table[c]])
    BY DEF Exit
  <1> DEFINE t == [c \in Live \ {p} |-> IF table[c].ppid = p
                                        THEN [table[c] EXCEPT !.ppid = heir]
                                        ELSE table[c]]
  <1>3. 1 \in Live /\ table[1].start < table[p].start
    BY <1>1 DEF TableInv
  <1>4. heir \in Live /\ table[heir].start < table[p].start /\ heir \in Nat
    BY <1>2, <1>3, TableProcess DEF Adopters
  <1>5. \A c \in Live \ {p} : /\ t[c] \in Process
                              /\ t[c].start = table[c].start /\ t[c].uid = table[c].uid
                              /\ t[c].ppid = IF table[c].ppid = p THEN heir ELSE table[c].ppid
    <2> TAKE c \in Live \ {p}
    <2>1. table[c] \in Process
      BY TableProcess
    <2>2. CASE table[c].ppid = p
      <3>1. t[c] = [table[c] EXCEPT !.ppid = heir]
        BY <2>2
      <3> HIDE DEF t
      <3> QED
        BY <1>4, <2>1, <2>2, <3>1 DEF Process
    <2>3. CASE table[c].ppid # p
      <3>1. t[c] = table[c]
        BY <2>3
      <3> HIDE DEF t
      <3> QED
        BY <2>1, <2>3, <3>1
    <2> QED
      BY <2>2, <2>3
  <1>6. DOMAIN t = Live \ {p} /\ t = [c \in Live \ {p} |-> t[c]] /\ Changed(t)
    BY <1>2
  <1> HIDE DEF t
  <1>7. /\ table' = t /\ Live' = Live \ {p} /\ Last' = Last + 1
        /\ events' \in 0 .. MaxEvents /\ ran \subseteq ran'
        /\ \A c \in Live' : <<c, table'[c].start, table'[c].image>> \in ran'
    BY <1>6, ChangedFacts
  <1>8. Last \in Nat
    BY LastNat
  <1>9. table' \in [Live' -> Process]
    BY <1>5, <1>6, <1>7
  <1>10. heir \in Live' /\ 1 \in Live' /\ Live' \subseteq Pid
    <2>1. heir # p
      BY <1>1, <1>4, TableProcess
    <2> QED
      BY <1>1, <1>3, <1>4, <1>7, <2>1 DEF TableInv
  <1>11. \A c \in Live' : table'[c].start <= Last'
    <2> TAKE c \in Live'
    <2>1. c \in Live /\ table'[c].start = table[c].start
      BY <1>5, <1>7
    <2> QED
      BY <1>7, <1>8, <2>1, Started
  <1>12. \A c \in Live' \ {1} : /\ table'[1].start < table'[c].start
                                /\ table'[c].ppid \in Live'
                                /\ table'[table'[c].ppid].start < table'[c].start
    <2> TAKE c \in Live' \ {1}
    <2>1. c \in Live /\ table'[c].start = table[c].start /\ table'[1].start = table[1].start
          /\ table'[heir].start = table[heir].start
      BY <1>5, <1>7, <1>10
    <2>2. /\ table[1].start < table[c].start /\ table[c].ppid \in Live
          /\ table[table[c].ppid].start < table[c].start
      BY <2>1 DEF TableInv
    <2>3. CASE table[c].ppid = p
      <3>1. table'[c].ppid = heir
        BY <1>5, <1>7, <2>3
      <3>2. table[heir].start < table[c].start
        <4>1. table[p].start < table[c].start
          BY <2>2, <2>3
        <4>2. table[heir].start \in Nat /\ table[p].start \in Nat /\ table[c].start \in Nat
          BY <1>1, <1>4, <2>1, Started
        <4> QED
          BY <1>4, <4>1, <4>2
      <3> QED
        BY <1>10, <2>1, <2>2, <3>1, <3>2
    <2>4. CASE table[c].ppid # p
      <3>1. table'[c].ppid = table[c].ppid /\ table[c].ppid \in Live'
        BY <1>5, <1>7, <2>2, <2>4
      <3>2. table'[table[c].ppid].start = table[table[c].ppid].start
        BY <1>5, <1>7, <3>1
      <3> QED
        BY <2>1, <2>2, <3>1, <3>2
    <2> QED
      BY <2>3, <2>4
  <1>13. TableInv'
    BY <1>1, <1>7, <1>9, <1>10, <1>11, <1>12 DEF TableInv
  <1>14. \A c \in Live' : Moved(c)
    <2> TAKE c \in Live'
    <2>1. c \in Live /\ table'[c].start = table[c].start /\ table'[c].uid = table[c].uid
          /\ table'[c].ppid = IF table[c].ppid = p THEN heir ELSE table[c].ppid
      BY <1>5, <1>7
    <2>2. CASE table[c].ppid = p
      BY <1>4, <1>7, <2>1, <2>2 DEF Moved
    <2>3. CASE table[c].ppid # p
      BY <2>1, <2>3 DEF Moved
    <2> QED
      BY <2>2, <2>3
  <1> QED
    BY <1>7, <1>13, <1>14 DEF HostMoves

LEMMA ExecMoves ==
  ASSUME TableInv, NEW p \in Pid, NEW img \in Image, Exec(p, img)
  PROVE  TableInv' /\ HostMoves
  <1> DEFINE t == [table EXCEPT ![p].image = img]
  <1>1. p \in Live /\ p # 1 /\ installed' = installed /\ Changed(t)
    BY DEF Exec
  <1>2. table \in [Live -> Process]
    BY DEF TableInv
  <1>3. DOMAIN t = Live
    BY <1>2
  <1>4. \A c \in Live : /\ t[c] \in Process /\ t[c].start = table[c].start
                        /\ t[c].ppid = table[c].ppid /\ t[c].uid = table[c].uid
    <2> TAKE c \in Live
    <2>1. table[c] \in Process
      BY <1>2
    <2>2. CASE c = p
      <3>1. t[c] = [table[c] EXCEPT !.image = img]
        BY <1>2, <2>2
      <3> HIDE DEF t
      <3> QED
        BY <2>1, <3>1 DEF Process
    <2>3. CASE c # p
      <3>1. t[c] = table[c]
        BY <1>2, <2>3
      <3> HIDE DEF t
      <3> QED
        BY <2>1, <3>1
    <2> QED
      BY <2>2, <2>3
  <1>5. t = [c \in Live |-> t[c]]
    BY <1>2
  <1> HIDE DEF t
  <1>6. /\ table' = t /\ Live' = Live /\ Last' = Last + 1
        /\ events' \in 0 .. MaxEvents /\ ran \subseteq ran'
        /\ \A c \in Live' : <<c, table'[c].start, table'[c].image>> \in ran'
    BY <1>1, <1>3, ChangedFacts
  <1>7. table' \in [Live' -> Process]
    BY <1>4, <1>5, <1>6
  <1>8. \A c \in Live' : table'[c].start <= Last'
    <2> TAKE c \in Live'
    <2>1. c \in Live /\ table'[c].start = table[c].start
      BY <1>4, <1>6
    <2> QED
      BY <1>6, <2>1, LastNat, Started
  <1>9. \A c \in Live' \ {1} : /\ table'[1].start < table'[c].start
                               /\ table'[c].ppid \in Live'
                               /\ table'[table'[c].ppid].start < table'[c].start
    <2> TAKE c \in Live' \ {1}
    <2>1. c \in Live /\ table[c].ppid \in Live /\ 1 \in Live
      BY <1>6 DEF TableInv
    <2> QED
      BY <1>4, <1>6, <2>1 DEF TableInv
  <1>10. TableInv'
    BY <1>1, <1>6, <1>7, <1>8, <1>9 DEF TableInv
  <1>11. \A c \in Live' : Moved(c)
    BY <1>4, <1>6 DEF Moved
  <1> QED
    BY <1>6, <1>10, <1>11 DEF HostMoves

LEMMA UpgradeMoves ==
  ASSUME TableInv, NEW img \in ClientImages, Upgrade(img)
  PROVE  TableInv' /\ HostMoves
  <1>1. installed' = img /\ Changed(table)
    BY DEF Upgrade
  <1>2. /\ table' = table /\ Live' = Live /\ Last' = Last + 1
        /\ events' \in 0 .. MaxEvents /\ ran \subseteq ran'
        /\ \A c \in Live' : <<c, table'[c].start, table'[c].image>> \in ran'
    BY <1>1, ChangedFacts DEF Live
  <1>3. \A c \in Live' : table'[c].start <= Last'
    BY <1>2, LastNat, Started
  <1>4. TableInv'
    BY <1>1, <1>2, <1>3 DEF TableInv
  <1>5. \A c \in Live' : Moved(c)
    BY <1>2 DEF Moved
  <1> QED
    BY <1>2, <1>4, <1>5 DEF HostMoves

\* Nothing the host does shows a client image that was not run: a run of another
\* image is remembered as such.
Foreign(r) == r \in ran /\ r[3] # installed

LEMMA HostStep ==
  ASSUME TableInv, Host
  PROVE  /\ TableInv' /\ HostMoves
         /\ UNCHANGED <<peer, pass, field, cur, chain, again, instant>>
         /\ \A r : Foreign(r) => Foreign(r)'
  <1>1. ASSUME NEW p \in Pid, NEW c \in Pid, Fork(p, c)
        PROVE  /\ TableInv' /\ HostMoves /\ installed' = installed
               /\ UNCHANGED <<peer, pass, field, cur, chain, again, instant>>
    BY <1>1, ForkMoves DEF Fork, Changed
  <1>2. ASSUME NEW p \in Pid, Exit(p)
        PROVE  /\ TableInv' /\ HostMoves /\ installed' = installed
               /\ UNCHANGED <<peer, pass, field, cur, chain, again, instant>>
    BY <1>2, ExitMoves DEF Exit, Changed
  <1>3. ASSUME NEW p \in Pid, NEW img \in Image, Exec(p, img)
        PROVE  /\ TableInv' /\ HostMoves /\ installed' = installed
               /\ UNCHANGED <<peer, pass, field, cur, chain, again, instant>>
    BY <1>3, ExecMoves DEF Exec, Changed
  <1>4. ASSUME NEW img \in ClientImages, Upgrade(img)
        PROVE  /\ TableInv' /\ HostMoves
               /\ installed' = img /\ \A r \in ran : r[3] # img
               /\ UNCHANGED <<peer, pass, field, cur, chain, again, instant>>
    BY <1>4, UpgradeMoves DEF Upgrade, Changed
  <1>5. CASE \E p, c \in Pid : Fork(p, c)
    BY <1>1, <1>5 DEF Foreign, HostMoves
  <1>6. CASE \E p \in Pid : Exit(p)
    BY <1>2, <1>6 DEF Foreign, HostMoves
  <1>7. CASE \E p \in Pid, img \in Image : Exec(p, img)
    BY <1>3, <1>7 DEF Foreign, HostMoves
  <1>8. CASE \E img \in ClientImages : Upgrade(img)
    BY <1>4, <1>8 DEF Foreign, HostMoves
  <1> QED
    BY <1>5, <1>6, <1>7, <1>8 DEF Host

-----------------------------------------------------------------------------
(* The walk                                                                *)

\* The process of record c is alive in t, and is still what c says of it.
Alive(t, c) == c.pid \in DOMAIN t /\ t[c.pid].start = c.start
Holds(t, c) == Alive(t, c) /\ t[c.pid].ppid = c.ppid

\* c will never be true again: its process is gone, or was adopted, and then
\* whoever has the pid of its old parent is younger than the adopter.
Lost(t, c) ==
  \/ ~Alive(t, c)
  \/ /\ t[c.pid].ppid # c.ppid /\ c.ppid # 1
     /\ c.ppid \in DOMAIN t => t[t[c.pid].ppid].start < t[c.ppid].start

OfPeer(t, c) == Alive(t, c) => t[c.pid].uid = peer.uid

\* The links of the walk, the peer's first, each the parent the one before named.
ChainInv ==
  /\ chain \in Seq(Record) /\ again \in Seq(Record)
  /\ pass \in {"walk", "confirm", "bound", "refused"} /\ field \in 1 .. 6
  /\ cur \in Record /\ peer.pid \in Pid \ {1}
  /\ Len(chain) <= MaxHops + 2 /\ Len(again) <= Len(chain)
  /\ chain # <<>> => chain[1].pid = peer.pid
  /\ \A i \in 1 .. Len(chain) : chain[i].pid \in Pid \ {1} /\ chain[i].start <= Last
  /\ \A i \in 1 .. Len(chain) : i < Len(chain) => chain[i].ppid = chain[i + 1].pid
  /\ \A i, j \in 1 .. Len(chain) : i <= j => chain[j].start <= chain[i].start

\* While the walk goes on a link holds or is lost for good.
WalkInv ==
  pass = "walk" =>
    /\ again = <<>> /\ Len(chain) <= MaxHops + 1
    /\ chain # <<>> => chain[Len(chain)].ppid \in Pid \ {1}
    /\ \A i \in 1 .. Len(chain) : /\ Holds(table, chain[i]) \/ Lost(table, chain[i])
                                  /\ OfPeer(table, chain[i])

\* Once it is over a link held at that instant or is lost for good, and a
\* confirmed one held.
ConfirmInv ==
  pass \in {"confirm", "bound"} =>
    /\ chain # <<>>
    /\ pass = "confirm" => Len(again) < Len(chain)
    /\ pass = "bound" => Len(again) = Len(chain)
    /\ \A i \in 1 .. Len(chain) : /\ Holds(instant, chain[i]) \/ Lost(table, chain[i])
                                  /\ OfPeer(instant, chain[i])
    /\ \A i \in 1 .. Len(chain) : i <= Len(again) => Holds(instant, chain[i])
    /\ \A p \in DOMAIN instant \ {1} :
         instant[instant[p].ppid].start < instant[p].start
    /\ Len(chain) = 1 =>
         \E r \in ran : Foreign(r) /\ r[1] = peer.pid /\ r[2] = chain[1].start

\* What the record being read says of its process, if that is still alive.
CurInv ==
  pass = "walk" /\ field > 1 =>
    /\ cur.pid = Target /\ cur.start <= Last
    /\ field > 3 /\ Alive(table, cur) =>
         \E img \in Image \cup {"init"} :
           <<cur.pid, cur.start, img>> \in ran /\ cur.file = FileOf[img]
    /\ field > 5 /\ Alive(table, cur) => table[cur.pid].uid = cur.uid

IInv == TableInv /\ ChainInv /\ WalkInv /\ ConfirmInv /\ CurInv

-----------------------------------------------------------------------------
(* A change of the host and the links                                      *)

LEMMA AliveStays ==
  ASSUME TableInv, HostMoves, NEW c, c.start <= Last, c.start \in Nat, Alive(table', c)
  PROVE  Alive(table, c) /\ Moved(c.pid) /\ table'[c.pid].uid = table[c.pid].uid
  <1>1. c.pid \in Live' /\ table'[c.pid].start = c.start
    BY DEF Alive, Live
  <1>2. Moved(c.pid)
    BY <1>1 DEF HostMoves
  <1>3. Last \in Nat
    BY LastNat
  <1> QED
    BY <1>1, <1>2, <1>3 DEF Moved, Alive, Live

LEMMA LostStays ==
  ASSUME TableInv, TableInv', HostMoves, NEW c, c.pid # 1, c.start \in Nat, c.start <= Last,
         Lost(table, c)
  PROVE  Lost(table', c)
  <1> SUFFICES ASSUME Alive(table', c)
               PROVE  /\ table'[c.pid].ppid # c.ppid /\ c.ppid # 1
                      /\ c.ppid \in Live' =>
                           table'[table'[c.pid].ppid].start < table'[c.ppid].start
    BY DEF Lost, Live
  <1>1. Alive(table, c) /\ Moved(c.pid)
    BY AliveStays
  <1>2. c.pid \in Live /\ c.pid \in Live'
    BY <1>1 DEF Alive, Live
  <1> DEFINE old == table[c.pid].ppid
             new == table'[c.pid].ppid
  <1>3. /\ old # c.ppid /\ c.ppid # 1
        /\ c.ppid \in Live => table[old].start < table[c.ppid].start
    BY <1>1 DEF Lost, Live
  <1>4. old \in Live /\ new \in Live'
    BY <1>2 DEF TableInv
  <1>5. \/ new = old
        \/ old \notin Live' /\ new \in Live /\ table[new].start < table[old].start
    BY <1>1, <1>2, <1>4 DEF Moved
  <1>6. Last \in Nat /\ Last' = Last + 1
    BY LastNat DEF HostMoves
  <1>7. /\ table[old].start \in Nat /\ table[old].start <= Last
        /\ new \in Live => table[new].start \in Nat /\ table[new].start <= Last
        /\ c.ppid \in Live => table[c.ppid].start \in Nat
    BY <1>4, Started
  <1>8. new \in Live /\ (c.ppid \in Live => table[new].start < table[c.ppid].start)
    BY <1>3, <1>4, <1>5, <1>7
  <1>9. new # c.ppid
    BY <1>3, <1>5, <1>7, <1>8
  <1>10. table'[new].start = table[new].start
    <2>1. Moved(new)
      BY <1>4 DEF HostMoves
    <2> QED
      BY <1>8, <2>1 DEF Moved
  <1>11. ASSUME c.ppid \in Live' PROVE table'[new].start < table'[c.ppid].start
    <2>1. Moved(c.ppid)
      BY <1>11 DEF HostMoves
    <2>2. CASE c.ppid \in Live
      BY <1>8, <1>10, <2>1, <2>2 DEF Moved
    <2>3. CASE c.ppid \notin Live
      <3>1. table'[c.ppid].start = Last + 1
        BY <2>1, <2>3 DEF Moved
      <3>2. table[new].start <= Last /\ table[new].start \in Nat
        BY <1>7, <1>8
      <3> QED
        BY <1>6, <1>10, <3>1, <3>2
    <2> QED
      BY <2>2, <2>3
  <1> QED
    BY <1>3, <1>9, <1>11

LEMMA HoldsUntilLost ==
  ASSUME TableInv, TableInv', HostMoves, NEW c, c.pid # 1, c.start \in Nat, c.start <= Last,
         Holds(table, c)
  PROVE  Holds(table', c) \/ Lost(table', c)
  <1> SUFFICES ASSUME Alive(table', c), table'[c.pid].ppid # c.ppid
               PROVE  c.ppid \notin Live' /\ c.ppid # 1
    BY DEF Lost, Holds, Live
  <1>0. 1 \in Live'
    BY DEF TableInv
  <1>1. Moved(c.pid)
    BY AliveStays
  <1>2. c.pid \in Live /\ table[c.pid].ppid = c.ppid
    BY DEF Holds, Alive, Live
  <1> QED
    BY <1>0, <1>1, <1>2 DEF Moved

LEMMA LinkFacts ==
  ASSUME ChainInv, NEW i \in 1 .. Len(chain)
  PROVE  /\ chain[i] \in Record /\ chain[i].pid \in Pid \ {1}
         /\ chain[i].start \in Nat /\ chain[i].start <= Last /\ chain[i].ppid \in Nat
  <1>1. chain[i] \in Record
    BY DEF ChainInv
  <1> QED
    BY <1>1 DEF ChainInv, Record

LEMMA HostKeepsLinks ==
  ASSUME IInv, Host
  PROVE  IInv'
  <1>1. /\ TableInv /\ TableInv' /\ HostMoves
        /\ UNCHANGED <<peer, pass, field, cur, chain, again, instant>>
        /\ \A r : Foreign(r) => Foreign(r)'
    BY HostStep DEF IInv
  <1>2. Last \in Nat /\ Last' = Last + 1
    BY <1>1, LastNat DEF HostMoves
  <1>3. ChainInv /\ WalkInv /\ ConfirmInv /\ CurInv
    BY DEF IInv
  <1>4. ChainInv'
    <2>1. \A i \in 1 .. Len(chain) : chain[i].start <= Last'
      BY <1>2, <1>3, LinkFacts
    <2>2. \A i \in 1 .. Len(chain) : chain[i].pid \in Pid \ {1}
      BY <1>3, LinkFacts
    <2> QED
      BY <1>1, <1>3, <2>1, <2>2 DEF ChainInv
  <1>5. ASSUME NEW i \in 1 .. Len(chain)
        PROVE  /\ Lost(table, chain[i]) => Lost(table', chain[i])
               /\ Holds(table, chain[i]) => Holds(table', chain[i]) \/ Lost(table', chain[i])
               /\ OfPeer(table, chain[i]) => OfPeer(table, chain[i])'
    <2>1. /\ chain[i].pid # 1 /\ chain[i].start \in Nat /\ chain[i].start <= Last
      BY <1>3, LinkFacts
    <2>2. OfPeer(table, chain[i]) => OfPeer(table, chain[i])'
      <3>1. Alive(table', chain[i]) => /\ Alive(table, chain[i])
                                       /\ table'[chain[i].pid].uid = table[chain[i].pid].uid
        BY <1>1, <2>1, AliveStays
      <3> QED
        BY <1>1, <3>1 DEF OfPeer, Alive
    <2> QED
      BY <1>1, <2>1, <2>2, LostStays, HoldsUntilLost
  <1>6. WalkInv'
    <2> SUFFICES ASSUME pass = "walk" PROVE WalkInv'
      BY <1>1 DEF WalkInv
    <2>1. \A i \in 1 .. Len(chain) : /\ Holds(table', chain[i]) \/ Lost(table', chain[i])
                                     /\ OfPeer(table, chain[i])'
      BY <1>3, <1>5 DEF WalkInv
    <2>2. \A i \in 1 .. Len(chain') : /\ Holds(table, chain[i])' \/ Lost(table, chain[i])'
                                      /\ OfPeer(table, chain[i])'
      BY <1>1, <2>1 DEF Holds, Lost, Alive
    <2> QED
      BY <1>1, <1>3, <2>2 DEF WalkInv
  <1>7. ConfirmInv'
    <2> SUFFICES ASSUME pass \in {"confirm", "bound"} PROVE ConfirmInv'
      BY <1>1 DEF ConfirmInv
    <2>1. \A i \in 1 .. Len(chain') : Lost(table, chain[i]) => Lost(table, chain[i])'
      BY <1>1, <1>5 DEF Lost, Alive
    <2>2. \A i \in 1 .. Len(chain) : /\ Holds(instant, chain[i])' <=> Holds(instant, chain[i])
                                     /\ OfPeer(instant, chain[i])' <=> OfPeer(instant, chain[i])
      BY <1>1 DEF Holds, OfPeer, Alive
    <2>3. ASSUME Len(chain) = 1
          PROVE \E r \in ran' : Foreign(r)' /\ r[1] = peer.pid /\ r[2] = chain[1].start
      <3>1. PICK r \in ran : Foreign(r) /\ r[1] = peer.pid /\ r[2] = chain[1].start
        BY <1>3, <2>3 DEF ConfirmInv
      <3> QED
        BY <1>1, <3>1 DEF HostMoves
    <2> QED
      BY <1>1, <1>3, <2>1, <2>2, <2>3 DEF ConfirmInv
  <1>8. CurInv'
    <2> SUFFICES ASSUME pass = "walk", field > 1 PROVE CurInv'
      BY <1>1 DEF CurInv
    <2>1. Target' = Target
      BY <1>1 DEF Target
    <2>2. cur.pid = Target /\ cur.start <= Last /\ cur.start \in Nat
      BY <1>3 DEF CurInv, ChainInv, Record
    <2>3. Alive(table', cur) => /\ Alive(table, cur)
                                /\ table'[cur.pid].uid = table[cur.pid].uid
      BY <1>1, <2>2, AliveStays
    <2>4. cur.start <= Last'
      BY <1>2, <2>2
    <2>5. ran \subseteq ran'
      BY <1>1 DEF HostMoves
    <2>6. Alive(table, cur)' <=> Alive(table', cur)
      BY <1>1 DEF Alive
    <2>7. ASSUME field > 3, Alive(table', cur)
          PROVE  \E img \in Image \cup {"init"} :
                   <<cur.pid, cur.start, img>> \in ran' /\ cur.file = FileOf[img]
      BY <1>3, <2>3, <2>5, <2>7 DEF CurInv
    <2>8. ASSUME field > 5, Alive(table', cur) PROVE table'[cur.pid].uid = cur.uid
      BY <1>3, <2>3, <2>8 DEF CurInv
    <2> QED
      BY <1>1, <2>1, <2>2, <2>4, <2>6, <2>7, <2>8 DEF CurInv
  <1> QED
    BY <1>1, <1>4, <1>6, <1>7, <1>8 DEF IInv

-----------------------------------------------------------------------------
(* The reads                                                               *)

LEMMA TargetPid ==
  ASSUME IInv, Reading
  PROVE  /\ Target \in Pid \ {1}
         /\ pass = "confirm" => /\ Len(again) + 1 \in 1 .. Len(chain)
                                /\ Target = chain[Len(again) + 1].pid
         /\ pass = "walk" /\ chain = <<>> => Target = peer.pid
         /\ pass = "walk" /\ chain # <<>> => Target = chain[Len(chain)].ppid
  <1>1. ChainInv /\ WalkInv /\ ConfirmInv
    BY DEF IInv
  <1>2. CASE pass = "confirm"
    <2>1. Len(again) < Len(chain) /\ Len(again) \in Nat /\ Len(chain) \in Nat
      BY <1>1, <1>2 DEF ChainInv, ConfirmInv
    <2>2. Len(again) + 1 \in 1 .. Len(chain)
      BY <2>1
    <2>3. Target = chain[Len(again) + 1].pid
      BY <1>2 DEF Target
    <2> QED
      BY <1>1, <1>2, <2>2, <2>3, LinkFacts
  <1>3. CASE pass = "walk" /\ chain = <<>>
    BY <1>1, <1>3 DEF Target, ChainInv
  <1>4. CASE pass = "walk" /\ chain # <<>>
    BY <1>1, <1>4 DEF Target, WalkInv
  <1> QED
    BY <1>2, <1>3, <1>4 DEF Reading

LEMMA BlankRecord == Blank \in Record
  BY DEF Blank, Record

LEMMA FilledRecord ==
  ASSUME TableInv, cur \in Record, NEW p \in Live
  PROVE  Filled(p) \in Record
  <1> DEFINE img == table[p].image
  <1>1. /\ img \in Image \cup {"init"} /\ table[p].uid \in Uid \cup {0}
        /\ table[p].start \in Nat /\ table[p].ppid \in Nat /\ p \in Nat
    BY TableProcess
  <1>2. FileOf[img] \in {"none"} \cup {FileOf[i] : i \in Image \cup {"init"}}
    BY <1>1
  <1>3. (img \in ShellNamed) \in BOOLEAN /\ (img \in CFlagged) \in BOOLEAN
    OBVIOUS
  <1>4. Filled(p) = CASE field = 1 -> [cur EXCEPT !.pid = p, !.start = table[p].start,
                                                  !.ppid = table[p].ppid]
                      [] field = 2 -> [cur EXCEPT !.shell = (img \in ShellNamed)]
                      [] field = 3 -> [cur EXCEPT !.file = FileOf[img]]
                      [] field = 4 -> [cur EXCEPT !.c = (img \in CFlagged)]
                      [] OTHER     -> [cur EXCEPT !.uid = table[p].uid]
    BY DEF Filled
  <1> HIDE DEF img
  <1> QED
    BY <1>1, <1>2, <1>3, <1>4 DEF Record

LEMMA ReadKeeps ==
  ASSUME IInv, ReadField
  PROVE  IInv'
  <1>1. ChainInv /\ WalkInv /\ ConfirmInv /\ CurInv /\ TableInv
    BY DEF IInv
  <1>2. /\ Reading /\ field < 6 /\ Target \in Live /\ cur' = Filled(Target)
        /\ field' = field + 1
        /\ UNCHANGED <<table, installed, events, ran, peer, pass, chain, again, instant>>
    BY DEF ReadField, host, Fields
  <1>3. TableInv'
    BY <1>1, <1>2 DEF TableInv, Live, Last, Newest
  <1>4. cur' \in Record
    BY <1>1, <1>2, FilledRecord DEF ChainInv
  <1>5. Last' = Last /\ Last \in Nat
    BY <1>1, <1>2, LastNat DEF Last, Newest
  <1>6. ChainInv'
    BY <1>1, <1>2, <1>4, <1>5 DEF ChainInv
  <1>7. WalkInv'
    BY <1>1, <1>2 DEF WalkInv, Holds, Lost, Alive, OfPeer
  <1>8. ConfirmInv'
    BY <1>1, <1>2 DEF ConfirmInv, Holds, Lost, Alive, OfPeer, Foreign
  <1>9. CurInv'
    <2> SUFFICES ASSUME pass = "walk" PROVE CurInv'
      BY <1>2 DEF CurInv
    <2>1. Target' = Target
      BY <1>2 DEF Target
    <2>2. field \in 1 .. 5 /\ cur \in Record
      BY <1>1, <1>2 DEF ChainInv
    <2>3. table[Target].start \in Nat /\ table[Target].start <= Last
      BY <1>1, <1>2, Started
    <2>4. cur'.pid = Target /\ cur'.start <= Last
      <3>1. CASE field = 1
        <4>1. cur' = [cur EXCEPT !.pid = Target, !.start = table[Target].start,
                                 !.ppid = table[Target].ppid]
          BY <1>2, <3>1 DEF Filled
        <4>2. cur'.pid = Target /\ cur'.start = table[Target].start
          BY <2>2, <4>1 DEF Record
        <4> QED
          BY <2>3, <4>2
      <3>2. CASE field # 1
        <4>1. cur.pid = Target /\ cur.start <= Last
          BY <1>1, <2>2, <3>2 DEF CurInv
        <4>2. cur'.pid = cur.pid /\ cur'.start = cur.start
          BY <1>2, <2>2, <3>2 DEF Filled, Record
        <4> QED
          BY <4>1, <4>2
      <3> QED
        BY <3>1, <3>2
    <2>5. ASSUME field' > 3, Alive(table, cur')
          PROVE  \E img \in Image \cup {"init"} :
                   <<cur'.pid, cur'.start, img>> \in ran /\ cur'.file = FileOf[img]
      <3>1. CASE field = 3
        <4>1. cur' = [cur EXCEPT !.file = FileOf[table[Target].image]]
          BY <1>2, <3>1 DEF Filled
        <4>2. cur'.file = FileOf[table[Target].image]
          BY <2>2, <4>1 DEF Record
        <4>3. table[Target].image \in Image \cup {"init"}
          BY <1>1, <1>2, TableProcess
        <4>4. <<Target, table[Target].start, table[Target].image>> \in ran
          BY <1>1, <1>2 DEF TableInv
        <4>5. table[Target].start = cur'.start
          BY <2>4, <2>5 DEF Alive
        <4> QED
          BY <2>4, <4>2, <4>3, <4>4, <4>5
      <3>2. CASE field > 3
        <4>1. cur'.pid = cur.pid /\ cur'.start = cur.start /\ cur'.file = cur.file
          BY <1>2, <2>2, <3>2 DEF Filled, Record
        <4>2. Alive(table, cur)
          BY <2>5, <4>1 DEF Alive
        <4> QED
          BY <1>1, <3>2, <2>2, <4>1, <4>2 DEF CurInv
      <3> QED
        BY <1>2, <2>2, <2>5, <3>1, <3>2
    <2>6. ASSUME field' > 5 PROVE table[cur'.pid].uid = cur'.uid
      <3>1. field = 5
        BY <1>2, <2>2, <2>6
      <3>2. cur' = [cur EXCEPT !.uid = table[Target].uid]
        BY <1>2, <3>1 DEF Filled
      <3> QED
        BY <2>2, <2>4, <3>2 DEF Record
    <2>7. (Last = Last') /\ table' = table /\ ran' = ran
      BY <1>2, <1>5
    <2>8. Alive(table, cur)' <=> Alive(table, cur')
      BY <2>7 DEF Alive
    <2> QED
      BY <2>1, <2>4, <2>5, <2>6, <2>7, <2>8 DEF CurInv
  <1> QED
    BY <1>3, <1>6, <1>7, <1>8, <1>9 DEF IInv

LEMMA RefuseKeeps ==
  ASSUME IInv, Refuse
  PROVE  IInv'
  <1>1. pass' = "refused" /\ UNCHANGED <<table, installed, events, ran, peer, field, cur,
                                         chain, again, instant>>
    BY DEF Refuse, host
  <1>2. TableInv'
    BY <1>1 DEF IInv, TableInv, Live, Last, Newest
  <1>3. ChainInv'
    BY <1>1 DEF IInv, ChainInv, Last, Newest
  <1> QED
    BY <1>1, <1>2, <1>3 DEF IInv, WalkInv, ConfirmInv, CurInv

LEMMA BracketedHolds ==
  ASSUME Bracketed, NEW c, c.pid = Target, c.start = cur.start, c.ppid = cur.ppid
  PROVE  Holds(table, c)
  BY DEF Bracketed, Holds, Alive, Live

\* A record that became a link.
LEMMA Linked ==
  ASSUME IInv, pass = "walk", Bracketed, Admissible(cur), chain' = Append(chain, cur)
  PROVE  /\ Len(chain') = Len(chain) + 1 /\ Len(chain) \in Nat
         /\ cur.pid = Target /\ cur.ppid \in Live \cup {0}
         /\ chain'[Len(chain')] = cur
         /\ \A i \in 1 .. Len(chain) : chain'[i] = chain[i]
         /\ chain' \in Seq(Record)
         /\ chain'[1].pid = peer.pid
         /\ \A i \in 1 .. Len(chain') : chain'[i].pid \in Pid \ {1} /\ chain'[i].start <= Last
         /\ \A i \in 1 .. Len(chain') : i < Len(chain') => chain'[i].ppid = chain'[i + 1].pid
         /\ \A i, j \in 1 .. Len(chain') : i <= j => chain'[j].start <= chain'[i].start
         /\ \A i \in 1 .. Len(chain') : /\ Holds(table, chain'[i]) \/ Lost(table, chain'[i])
                                        /\ OfPeer(table, chain'[i])
  <1>1. ChainInv /\ WalkInv /\ CurInv /\ TableInv
    BY DEF IInv
  <1>2. Reading /\ field = 6 /\ Target \in Live
    BY DEF Bracketed, Fields
  <1>3. cur \in Record /\ chain \in Seq(Record) /\ Len(chain) \in Nat
    BY <1>1 DEF ChainInv
  <1>4. /\ chain' \in Seq(Record) /\ Len(chain') = Len(chain) + 1
        /\ chain'[Len(chain')] = cur
        /\ \A i \in 1 .. Len(chain) : chain'[i] = chain[i]
    BY <1>3
  <1>5. cur.pid = Target /\ cur.start <= Last /\ (Alive(table, cur) => table[cur.pid].uid = cur.uid)
    BY <1>1, <1>2 DEF CurInv
  <1>6. Target \in Pid \ {1}
    BY <1>2, TargetPid
  <1>7. Holds(table, cur)
    BY <1>5, BracketedHolds
  <1>8. OfPeer(table, cur)
    BY <1>5 DEF OfPeer, Admissible
  <1>9. cur.ppid \in Live
    <2>1. Target \in Live /\ table[Target].ppid = cur.ppid
      BY <1>2, <1>5, <1>7 DEF Holds
    <2> QED
      BY <1>1, <1>6, <2>1 DEF TableInv
  <1>10. chain = <<>> <=> Len(chain) = 0
    BY <1>3
  <1>11. chain'[1].pid = peer.pid
    <2>1. CASE chain = <<>>
      BY <1>2, <1>4, <1>5, <1>10, <2>1, TargetPid
    <2>2. CASE chain # <<>>
      BY <1>1, <1>3, <1>4, <1>10, <2>2 DEF ChainInv
    <2> QED
      BY <2>1, <2>2
  <1>12. \A i \in 1 .. Len(chain') : i \in 1 .. Len(chain) \/ i = Len(chain')
    BY <1>3, <1>4
  <1>13. \A i \in 1 .. Len(chain') : chain'[i].pid \in Pid \ {1} /\ chain'[i].start <= Last
    BY <1>1, <1>4, <1>5, <1>6, <1>12, LinkFacts
  <1>14. ASSUME NEW i \in 1 .. Len(chain'), i < Len(chain')
         PROVE  chain'[i].ppid = chain'[i + 1].pid
    <2>1. i \in 1 .. Len(chain) /\ chain'[i] = chain[i]
      BY <1>4, <1>12, <1>14
    <2>2. CASE i < Len(chain)
      <3>1. i + 1 \in 1 .. Len(chain)
        BY <1>3, <2>1, <2>2
      <3>2. chain'[i + 1] = chain[i + 1]
        BY <1>4, <3>1
      <3> QED
        BY <1>1, <2>1, <2>2, <3>2 DEF ChainInv
    <2>3. CASE i = Len(chain)
      <3>1. chain # <<>> /\ i + 1 = Len(chain')
        BY <1>3, <1>4, <2>1, <2>3
      <3>2. Target = chain[Len(chain)].ppid
        BY <1>2, <3>1, TargetPid
      <3> QED
        BY <1>4, <1>5, <2>1, <2>3, <3>1, <3>2
    <2> QED
      BY <1>3, <2>1, <2>2, <2>3
  <1>15. ASSUME NEW i \in 1 .. Len(chain'), NEW j \in 1 .. Len(chain'), i <= j
         PROVE  chain'[j].start <= chain'[i].start
    <2>1. CASE j \in 1 .. Len(chain)
      <3>1. i \in 1 .. Len(chain)
        BY <1>3, <1>15, <2>1
      <3> QED
        BY <1>1, <1>4, <1>15, <2>1, <3>1 DEF ChainInv
    <2>2. CASE j = Len(chain') /\ i \in 1 .. Len(chain)
      <3>1. chain # <<>> /\ Len(chain) \in 1 .. Len(chain) /\ i <= Len(chain)
        BY <1>3, <1>10, <2>2
      <3>2. cur.start <= chain[Len(chain)].start
        BY <3>1 DEF Admissible
      <3>3. chain[Len(chain)].start <= chain[i].start
        BY <1>1, <2>2, <3>1 DEF ChainInv
      <3>4. cur.start \in Nat /\ chain[Len(chain)].start \in Nat /\ chain[i].start \in Nat
        BY <1>1, <1>3, <2>2, <3>1, LinkFacts DEF Record
      <3>5. chain'[j] = cur /\ chain'[i] = chain[i]
        BY <1>4, <2>2
      <3> QED
        BY <3>2, <3>3, <3>4, <3>5
    <2>3. CASE j = Len(chain') /\ i = Len(chain')
      <3>1. cur.start \in Nat
        BY <1>3 DEF Record
      <3> QED
        BY <1>4, <2>3, <3>1
    <2> QED
      BY <1>12, <2>1, <2>2, <2>3
  <1>16. \A i \in 1 .. Len(chain') : /\ Holds(table, chain'[i]) \/ Lost(table, chain'[i])
                                     /\ OfPeer(table, chain'[i])
    <2> SUFFICES ASSUME NEW i \in 1 .. Len(chain')
                 PROVE  /\ Holds(table, chain'[i]) \/ Lost(table, chain'[i])
                        /\ OfPeer(table, chain'[i])
      OBVIOUS
    <2>1. CASE i \in 1 .. Len(chain)
      <3>1. chain'[i] = chain[i]
        BY <1>4, <2>1
      <3>2. /\ Holds(table, chain[i]) \/ Lost(table, chain[i])
            /\ OfPeer(table, chain[i])
        BY <1>1, <2>1 DEF WalkInv
      <3> QED
        BY <3>1, <3>2
    <2>2. CASE i = Len(chain')
      BY <1>4, <1>7, <1>8, <2>2
    <2> QED
      BY <1>12, <2>1, <2>2
  <1> QED
    BY <1>3, <1>4, <1>5, <1>9, <1>11, <1>13, <1>14, <1>15, <1>16

LEMMA HostStill ==
  ASSUME IInv, UNCHANGED host
  PROVE  TableInv' /\ Last' = Last
  BY DEF IInv, TableInv, Live, Last, Newest, host

LEMMA ClimbKeeps ==
  ASSUME IInv, Climb
  PROVE  IInv'
  <1>1. /\ pass = "walk" /\ Bracketed /\ Admissible(cur) /\ ~TooFar(cur) /\ ~Topmost(cur)
        /\ chain' = Append(chain, cur) /\ field' = 1 /\ cur' = Blank
        /\ UNCHANGED <<host, peer, pass, again, instant>>
    BY DEF Climb, NextRecord
  <1>2. TableInv' /\ Last' = Last
    BY <1>1, HostStill
  <1>3. ChainInv /\ WalkInv /\ TableInv
    BY DEF IInv
  <1>4. again = <<>> /\ Len(again) = 0 /\ MaxHops \in Nat /\ Len(chain) <= MaxHops
    BY <1>1, <1>3, HopsAssumption DEF WalkInv, ChainInv, TooFar
  <1>5. /\ Len(chain') = Len(chain) + 1 /\ Len(chain) \in Nat
        /\ chain'[Len(chain')] = cur /\ cur.ppid \in Live \cup {0}
    BY <1>1, Linked
  <1>6. ChainInv'
    <2>1. /\ chain' \in Seq(Record) /\ again' \in Seq(Record) /\ cur' \in Record
          /\ peer' = peer /\ field' = 1 /\ pass' = pass /\ pass = "walk"
      BY <1>1, <1>3, Linked, BlankRecord DEF ChainInv
    <2>2. Len(chain') <= MaxHops + 2 /\ Len(again') <= Len(chain')
      BY <1>1, <1>4, <1>5
    <2>3. /\ chain'[1].pid = peer.pid
          /\ \A i \in 1 .. Len(chain') : chain'[i].pid \in Pid \ {1} /\ chain'[i].start <= Last
          /\ \A i \in 1 .. Len(chain') : i < Len(chain') => chain'[i].ppid = chain'[i + 1].pid
          /\ \A i, j \in 1 .. Len(chain') : i <= j => chain'[j].start <= chain'[i].start
      BY <1>1, Linked
    <2>4. peer.pid \in Pid \ {1}
      BY <1>3 DEF ChainInv
    <2> QED
      BY <1>2, <2>1, <2>2, <2>3, <2>4 DEF ChainInv
  <1>7. WalkInv'
    <2>1. cur.ppid \in Pid \ {1}
      <3>1. cur.ppid > 1
        <4>1. cur.ppid \in Nat
          BY <1>3 DEF ChainInv, Record
        <4> QED
          BY <1>1, <4>1 DEF Topmost
      <3> QED
        BY <1>3, <1>5, <3>1 DEF TableInv
    <2>2. \A i \in 1 .. Len(chain') : /\ Holds(table, chain'[i]) \/ Lost(table, chain'[i])
                                      /\ OfPeer(table, chain'[i])
      BY <1>1, Linked
    <2>3. table' = table /\ peer' = peer /\ again' = again
      BY <1>1 DEF host
    <2>4. \A i \in 1 .. Len(chain') : /\ Holds(table, chain[i])' \/ Lost(table, chain[i])'
                                      /\ OfPeer(table, chain[i])'
      BY <2>2, <2>3 DEF Holds, Lost, Alive, OfPeer
    <2>5. Len(chain') <= MaxHops + 1
      BY <1>4, <1>5
    <2> QED
      BY <1>4, <1>5, <2>1, <2>3, <2>4, <2>5 DEF WalkInv
  <1>8. ConfirmInv' /\ CurInv'
    BY <1>1 DEF ConfirmInv, CurInv
  <1> QED
    BY <1>2, <1>6, <1>7, <1>8 DEF IInv

LEMMA ArriveKeeps ==
  ASSUME IInv, Arrive
  PROVE  IInv'
  <1>1. /\ pass = "walk" /\ Bracketed /\ Admissible(cur) /\ Arrives(cur)
        /\ chain' = Append(chain, cur) /\ field' = 1 /\ cur' = Blank
        /\ instant' = table /\ pass' = "confirm"
        /\ UNCHANGED <<host, peer, again>>
    BY DEF Arrive, NextRecord
  <1>2. TableInv' /\ Last' = Last
    BY <1>1, HostStill
  <1>3. ChainInv /\ WalkInv /\ TableInv /\ CurInv
    BY DEF IInv
  <1>4. again = <<>> /\ Len(again) = 0 /\ MaxHops \in Nat /\ Len(chain) <= MaxHops + 1
    BY <1>1, <1>3, HopsAssumption DEF WalkInv, ChainInv
  <1>5. /\ Len(chain') = Len(chain) + 1 /\ Len(chain) \in Nat
        /\ chain'[Len(chain')] = cur
    BY <1>1, Linked
  <1>6. ChainInv'
    <2>1. /\ chain' \in Seq(Record) /\ again' \in Seq(Record) /\ cur' \in Record
          /\ peer' = peer /\ field' = 1 /\ pass' = "confirm"
      BY <1>1, <1>3, Linked, BlankRecord DEF ChainInv
    <2>2. Len(chain') <= MaxHops + 2 /\ Len(again') <= Len(chain')
      BY <1>1, <1>4, <1>5
    <2>3. /\ chain'[1].pid = peer.pid
          /\ \A i \in 1 .. Len(chain') : chain'[i].pid \in Pid \ {1} /\ chain'[i].start <= Last
          /\ \A i \in 1 .. Len(chain') : i < Len(chain') => chain'[i].ppid = chain'[i + 1].pid
          /\ \A i, j \in 1 .. Len(chain') : i <= j => chain'[j].start <= chain'[i].start
      BY <1>1, Linked
    <2>4. peer.pid \in Pid \ {1}
      BY <1>3 DEF ChainInv
    <2> QED
      BY <1>2, <2>1, <2>2, <2>3, <2>4 DEF ChainInv
  <1>7. ConfirmInv'
    <2>1. chain' # <<>> /\ Len(again') < Len(chain')
      BY <1>1, <1>4, <1>5
    <2>2. \A i \in 1 .. Len(chain') : /\ Holds(table, chain'[i]) \/ Lost(table, chain'[i])
                                      /\ OfPeer(table, chain'[i])
      BY <1>1, Linked
    <2>3. table' = table /\ peer' = peer /\ instant' = table /\ ran' = ran
          /\ installed' = installed
      BY <1>1 DEF host
    <2>4. \A i \in 1 .. Len(chain') : /\ Holds(instant, chain[i])' \/ Lost(table, chain[i])'
                                      /\ OfPeer(instant, chain[i])'
      BY <2>2, <2>3 DEF Holds, Lost, Alive, OfPeer
    <2>5. \A p \in DOMAIN instant' \ {1} :
             instant'[instant'[p].ppid].start < instant'[p].start
      BY <1>3, <2>3 DEF TableInv, Live
    <2>6. ASSUME Len(chain') = 1
          PROVE  \E r \in ran : Foreign(r) /\ r[1] = peer.pid /\ r[2] = chain'[1].start
      <3>1. chain = <<>> /\ chain'[1] = cur
        <4>1. Len(chain) = 0 /\ chain \in Seq(Record)
          <5>1. Len(chain) = 0
            <6> DEFINE m == Len(chain)
                       k == Len(chain')
            <6>1. k = m + 1 /\ k = 1 /\ m \in Nat
              BY <1>5, <2>6
            <6> HIDE DEF m, k
            <6>2. m = 0
              BY <6>1
            <6> QED
              BY <6>2 DEF m
          <5> QED
            BY <1>3, <5>1 DEF ChainInv
        <4>2. chain'[1] = cur
          BY <1>5, <2>6
        <4> QED
          BY <4>1, <4>2
      <3>2. cur.file # FileOf[installed]
        BY <1>1, <3>1 DEF Arrives, Climbs, IsHelper
      <3>3. cur.pid = Target /\ Target = peer.pid
        <4>1. Reading
          BY <1>1 DEF Reading
        <4> QED
          BY <1>1, <3>1, <4>1, Linked, TargetPid
      <3>4. Alive(table, cur) /\ field = 6
        BY <1>1, <3>3 DEF Bracketed, Alive, Live, Fields
      <3>5. PICK img \in Image \cup {"init"} :
              <<cur.pid, cur.start, img>> \in ran /\ cur.file = FileOf[img]
        BY <1>1, <1>3, <3>4 DEF CurInv
      <3>6. img # installed
        BY <3>2, <3>5
      <3>7. Foreign(<<cur.pid, cur.start, img>>)
        BY <3>5, <3>6 DEF Foreign
      <3> QED
        BY <3>1, <3>3, <3>5, <3>7
    <2>7. \A r : Foreign(r)' <=> Foreign(r)
      BY <2>3 DEF Foreign
    <2>8. Len(again') = 0
      BY <1>1, <1>4
    <2> QED
      BY <1>1, <1>5, <2>1, <2>3, <2>4, <2>5, <2>6, <2>7, <2>8 DEF ConfirmInv
  <1>8. WalkInv' /\ CurInv'
    BY <1>1 DEF WalkInv, CurInv
  <1> QED
    BY <1>2, <1>6, <1>7, <1>8 DEF IInv

LEMMA ConfirmKeeps ==
  ASSUME IInv, ConfirmLink
  PROVE  IInv'
  <1>1. /\ pass = "confirm" /\ Bracketed /\ Same(cur, chain[Len(again) + 1])
        /\ again' = Append(again, cur) /\ field' = 1 /\ cur' = Blank
        /\ pass' = IF Len(again') = Len(chain) THEN "bound" ELSE "confirm"
        /\ UNCHANGED <<host, peer, chain, instant>>
    BY DEF ConfirmLink, NextRecord
  <1>2. TableInv' /\ Last' = Last
    BY <1>1, HostStill
  <1>3. ChainInv /\ ConfirmInv
    BY DEF IInv
  <1>4. /\ again \in Seq(Record) /\ cur \in Record
        /\ Len(again) \in Nat /\ Len(chain) \in Nat /\ Len(again) < Len(chain)
    BY <1>1, <1>3 DEF ChainInv, ConfirmInv
  <1>5. again' \in Seq(Record) /\ Len(again') = Len(again) + 1
    BY <1>1, <1>4
  <1>6. ChainInv'
    BY <1>1, <1>2, <1>3, <1>4, <1>5, BlankRecord DEF ChainInv
  <1>7. Holds(table, chain[Len(again) + 1])
    <2>1. Reading
      BY <1>1 DEF Reading
    <2>2. Target = chain[Len(again) + 1].pid
      BY <1>1, <2>1, TargetPid
    <2> QED
      BY <1>1, <2>2, BracketedHolds DEF Same
  <1>8. Holds(instant, chain[Len(again) + 1])
    <2>1. ~Lost(table, chain[Len(again) + 1])
      BY <1>7 DEF Lost, Holds
    <2>2. Len(again) + 1 \in 1 .. Len(chain)
      BY <1>4
    <2> QED
      BY <1>1, <1>3, <2>1, <2>2 DEF ConfirmInv
  <1>9. ConfirmInv'
    <2>1. \A i \in 1 .. Len(chain) : i <= Len(again') => Holds(instant, chain[i])
      <3> SUFFICES ASSUME NEW i \in 1 .. Len(chain), i <= Len(again')
                   PROVE  Holds(instant, chain[i])
        OBVIOUS
      <3>1. i <= Len(again) \/ i = Len(again) + 1
        BY <1>4, <1>5
      <3> QED
        BY <1>1, <1>3, <1>8, <3>1 DEF ConfirmInv
    <2>2. /\ table' = table /\ peer' = peer /\ instant' = instant /\ ran' = ran
          /\ installed' = installed /\ chain' = chain
      BY <1>1 DEF host
    <2>3. \A i \in 1 .. Len(chain) : /\ Holds(instant, chain[i]) \/ Lost(table, chain[i])
                                     /\ OfPeer(instant, chain[i])
      BY <1>1, <1>3 DEF ConfirmInv
    <2>4. \A i \in 1 .. Len(chain') : /\ Holds(instant, chain[i])' \/ Lost(table, chain[i])'
                                      /\ OfPeer(instant, chain[i])'
      BY <2>2, <2>3 DEF Holds, Lost, Alive, OfPeer
    <2>5. \A i \in 1 .. Len(chain') : i <= Len(again') => Holds(instant, chain[i])'
      BY <2>1, <2>2 DEF Holds, Alive
    <2>6. \A r : Foreign(r)' <=> Foreign(r)
      BY <2>2 DEF Foreign
    <2>7. /\ pass' = "confirm" => Len(again') < Len(chain')
          /\ pass' = "bound" => Len(again') = Len(chain')
      BY <1>1, <1>4, <1>5, <2>2
    <2> QED
      BY <1>1, <1>3, <2>2, <2>4, <2>5, <2>6, <2>7 DEF ConfirmInv
  <1>10. WalkInv' /\ CurInv'
    BY <1>1 DEF WalkInv, CurInv
  <1> QED
    BY <1>2, <1>6, <1>9, <1>10 DEF IInv

LEMMA StartsBound ==
  Init => IInv
  <1> SUFFICES ASSUME Init PROVE IInv
    OBVIOUS
  <1>1. /\ pass = "walk" /\ field = 1 /\ cur = Blank /\ chain = <<>> /\ again = <<>>
    BY DEF Init
  <1>2. peer.pid \in Pid \ {1}
    BY DEF Init
  <1>3. ChainInv
    BY <1>1, <1>2, BlankRecord, HopsAssumption DEF ChainInv
  <1>4. WalkInv /\ ConfirmInv /\ CurInv
    BY <1>1, HopsAssumption DEF WalkInv, ConfirmInv, CurInv
  <1> QED
    BY <1>3, <1>4, TableInit DEF IInv

LEMMA StaysBound ==
  IInv /\ [Next]_vars => IInv'
  <1> SUFFICES ASSUME IInv, [Next]_vars PROVE IInv'
    OBVIOUS
  <1>1. CASE Host
    BY <1>1, HostKeepsLinks
  <1>2. CASE ReadField
    BY <1>2, ReadKeeps
  <1>3. CASE ReadFails \/ ReadTorn \/ WalkRefused \/ ConfirmRefused
    BY <1>3, RefuseKeeps DEF ReadFails, ReadTorn, WalkRefused, ConfirmRefused
  <1>4. CASE Climb
    BY <1>4, ClimbKeeps
  <1>5. CASE Arrive
    BY <1>5, ArriveKeeps
  <1>6. CASE ConfirmLink
    BY <1>6, ConfirmKeeps
  <1>7. CASE UNCHANGED vars
    <2>1. UNCHANGED <<table, installed, events, ran, peer, pass, field, cur, chain, again,
                      instant>>
      BY <1>7 DEF vars
    <2>2. TableInv'
      BY <2>1 DEF IInv, TableInv, Live, Last, Newest
    <2>3. ChainInv' /\ WalkInv'
      BY <2>1 DEF IInv, ChainInv, WalkInv, Last, Newest, Holds, Lost, Alive, OfPeer
    <2>4. ConfirmInv'
      BY <2>1 DEF IInv, ConfirmInv, Holds, Lost, Alive, OfPeer, Foreign
    <2>5. CurInv'
      BY <2>1 DEF IInv, CurInv, Last, Newest, Alive, Target
    <2> QED
      BY <2>2, <2>3, <2>4, <2>5 DEF IInv
  <1> QED
    BY <1>1, <1>2, <1>3, <1>4, <1>5, <1>6, <1>7 DEF Next, Walk

\* What the inductive invariant says of a walk that bound.
LEMMA BoundIsRight ==
  ASSUME IInv, pass = "bound"
  PROVE  AncestryAtOneInstant /\ ClientNeverBound
  <1>1. TableInv /\ ChainInv /\ ConfirmInv
    BY DEF IInv
  <1>2. /\ chain # <<>> /\ Len(chain) \in Nat \ {0}
        /\ \A i \in 1 .. Len(chain) : Holds(instant, chain[i])
    <2>1. chain # <<>> /\ chain \in Seq(Record) /\ Len(again) = Len(chain)
      BY <1>1 DEF ChainInv, ConfirmInv
    <2>2. Len(chain) \in Nat \ {0}
      BY <2>1
    <2> QED
      BY <1>1, <2>1, <2>2 DEF ConfirmInv
  <1>3. TypeOK
    BY <1>1 DEF TypeOK, TableInv, ChainInv, Fields
  <1>4. AncestryAtOneInstant
    <2> SUFFICES ASSUME NEW i \in 1 .. Len(chain)
                 PROVE  /\ chain[i].pid \in DOMAIN instant
                        /\ instant[chain[i].pid].start = chain[i].start
                        /\ instant[chain[i].pid].uid = peer.uid
                        /\ i < Len(chain) => instant[chain[i].pid].ppid = chain[i + 1].pid
      BY <1>3 DEF AncestryAtOneInstant
    <2>1. Holds(instant, chain[i]) /\ OfPeer(instant, chain[i])
      BY <1>1, <1>2 DEF ConfirmInv
    <2>2. i < Len(chain) => chain[i].ppid = chain[i + 1].pid
      BY <1>1 DEF ChainInv
    <2> QED
      BY <2>1, <2>2 DEF Holds, Alive, OfPeer
  <1>5. ClientNeverBound
    <2> SUFFICES ASSUME \A r \in ran : (r[1] = peer.pid /\ r[2] = chain[1].start)
                                          => r[3] = installed
                 PROVE  Bound.pid # peer.pid
      BY DEF ClientNeverBound
    <2>1. Len(chain) # 1
      BY <1>1 DEF ConfirmInv, Foreign
    <2> DEFINE n == Len(chain)
    <2>2. 1 \in 1 .. n /\ 2 \in 1 .. n /\ n \in 1 .. n /\ 1 < n
      <3>1. n \in Nat /\ n # 0 /\ n # 1
        BY <1>2, <2>1
      <3> HIDE DEF n
      <3> QED
        BY <3>1
    <2>3. chain[1].pid = peer.pid /\ chain[1].ppid = chain[2].pid /\ chain[1].pid # 1
      <3>1. 1 + 1 = 2
        OBVIOUS
      <3> QED
        BY <1>1, <1>2, <2>2, <3>1 DEF ChainInv
    <2>4. chain[1].pid \in DOMAIN instant /\ instant[chain[1].pid].start = chain[1].start
          /\ instant[chain[1].pid].ppid = chain[1].ppid
          /\ instant[chain[2].pid].start = chain[2].start
          /\ instant[chain[n].pid].start = chain[n].start
      BY <1>2, <2>2 DEF Holds, Alive
    <2>5. chain[2].start < chain[1].start
      BY <1>1, <2>3, <2>4 DEF ConfirmInv
    <2>6. chain[n].start <= chain[2].start
      BY <1>1, <2>2 DEF ChainInv
    <2>7. chain[1].start \in Nat /\ chain[2].start \in Nat /\ chain[n].start \in Nat
      BY <1>1, <2>2, LinkFacts
    <2>8. chain[n].pid # chain[1].pid
      BY <2>4, <2>5, <2>6, <2>7
    <2> QED
      BY <2>3, <2>8 DEF Bound
  <1> QED
    BY <1>4, <1>5

\* Whatever forks, exits, execs, pid reuse and upgrades fall between the reads of
\* bindRuntime, a walk that binds found the peer's ancestry of one instant, and it
\* does not bind a process that only ever ran the installed client.
THEOREM BindsRuntime == Spec => []BindsTheRuntime
  <1>1. IInv => BindsTheRuntime
    <2> SUFFICES ASSUME IInv PROVE BindsTheRuntime
      OBVIOUS
    <2>1. CASE pass = "bound"
      BY <2>1, BoundIsRight DEF BindsTheRuntime
    <2>2. CASE pass # "bound"
      BY <2>2 DEF BindsTheRuntime, AncestryAtOneInstant, ClientNeverBound, TypeOK, IInv,
                  TableInv, ChainInv, Fields
    <2> QED
      BY <2>1, <2>2
  <1> QED
    BY <1>1, StartsBound, StaysBound, PTL DEF Spec

-----------------------------------------------------------------------------
(* The ancestors of a process                                              *)

LEMMA UpTo ==
  ASSUME NEW S, NEW N \in Nat, 0 \in S,
         \A n \in 0 .. N : n \in S /\ n < N => n + 1 \in S
  PROVE  0 .. N \subseteq S
  <1> SUFFICES ASSUME NEW bad, bad = (0 .. N) \ S, bad # {} PROVE FALSE
    OBVIOUS
  <1> DEFINE R == {ss \in Nat \X Nat : ss[1] < ss[2]}
  <1>1. IsWellFoundedOn(R, Nat)
    BY NatLessThanWellFounded DEF OpToRel
  <1>2. \A i, m \in Nat : i < m => <<i, m>> \in R
    OBVIOUS
  <1>3. bad \subseteq Nat
    OBVIOUS
  <1>4. PICK m \in bad : \A i \in bad : ~(<<i, m>> \in R)
    <2> HIDE DEF R
    <2> QED BY <1>1, <1>3, WFMin
  <1>5. m \in 1 .. N /\ m \notin S
    OBVIOUS
  <1>6. m - 1 \in 0 .. N /\ m - 1 < m /\ m - 1 < N
    BY <1>5
  <1>7. m - 1 \in S
    <2>1. m - 1 \notin bad
      <3>1. m - 1 \in Nat /\ m \in Nat
        BY <1>5
      <3> HIDE DEF R
      <3> QED
        BY <1>2, <1>4, <1>6, <3>1
    <2> QED
      BY <1>6, <2>1
  <1>8. (m - 1) + 1 \in S
    BY <1>6, <1>7
  <1> QED
    BY <1>5, <1>8

\* The recursive function that climbs from p in t is well defined.
IsClimb(f, N, t, p) ==
  f = [k \in 0 .. N |-> IF k = 0 THEN t[p].ppid
                        ELSE IF f[k - 1] <= 1 THEN 0
                        ELSE t[f[k - 1]].ppid]

LEMMA ClimbExists ==
  ASSUME NEW N \in Nat, NEW t, NEW p
  PROVE  \E f : IsClimb(f, N, t, p)
  <1> DEFINE S == {n \in 0 .. N : \E f : IsClimb(f, n, t, p)}
  <1>1. 0 \in S
    <2> DEFINE f == [k \in 0 .. 0 |-> t[p].ppid]
    <2>1. IsClimb(f, 0, t, p)
      BY DEF IsClimb
    <2> QED
      BY <2>1
  <1>2. ASSUME NEW n \in 0 .. N, n \in S, n < N PROVE n + 1 \in S
    <2>1. PICK f : IsClimb(f, n, t, p)
      BY <1>2
    <2> DEFINE g == [k \in 0 .. (n + 1) |-> IF k <= n THEN f[k]
                                            ELSE IF f[n] <= 1 THEN 0 ELSE t[f[n]].ppid]
    <2>2. \A k \in 0 .. n : f[k] = IF k = 0 THEN t[p].ppid
                                   ELSE IF f[k - 1] <= 1 THEN 0 ELSE t[f[k - 1]].ppid
      BY <2>1 DEF IsClimb
    <2>3. \A k \in 0 .. (n + 1) : g[k] = IF k = 0 THEN t[p].ppid
                                         ELSE IF g[k - 1] <= 1 THEN 0
                                         ELSE t[g[k - 1]].ppid
      <3> TAKE k \in 0 .. (n + 1)
      <3>1. CASE k = 0
        BY <2>2, <3>1
      <3>2. CASE k \in 1 .. n
        <4>1. k - 1 \in 0 .. (n + 1) /\ k - 1 <= n /\ k <= n /\ k \in 0 .. n /\ k # 0
          BY <3>2
        <4>2. g[k - 1] = f[k - 1] /\ g[k] = f[k]
          BY <4>1
        <4> HIDE DEF g
        <4> QED
          BY <2>2, <4>1, <4>2
      <3>3. CASE k = n + 1
        <4>1. k - 1 = n /\ n \in 0 .. (n + 1) /\ n <= n /\ ~(k <= n) /\ k # 0
          BY <3>3
        <4>2. g[k - 1] = f[n]
          BY <4>1
        <4>3. g[k] = IF f[n] <= 1 THEN 0 ELSE t[f[n]].ppid
          BY <4>1
        <4> HIDE DEF g
        <4> QED
          BY <4>1, <4>2, <4>3
      <3> QED
        BY <3>1, <3>2, <3>3
    <2>4. g = [k \in 0 .. (n + 1) |-> g[k]]
      OBVIOUS
    <2> HIDE DEF g
    <2>5. g = [k \in 0 .. (n + 1) |-> IF k = 0 THEN t[p].ppid
                                      ELSE IF g[k - 1] <= 1 THEN 0
                                      ELSE t[g[k - 1]].ppid]
      BY <2>3, <2>4
    <2>6. IsClimb(g, n + 1, t, p)
      BY <2>5 DEF IsClimb
    <2>7. n + 1 \in 0 .. N
      BY <1>2
    <2> QED
      BY <2>6, <2>7
  <1> HIDE DEF S
  <1>3. N \in S
    BY <1>1, <1>2, UpTo
  <1> QED
    BY <1>3 DEF S

LEMMA AncestorSteps ==
  ASSUME NEW t, NEW p
  PROVE  /\ Ancestor(t, p)[0] = t[p].ppid
         /\ \A k \in 1 .. (MaxHops + 1) :
              Ancestor(t, p)[k] = IF Ancestor(t, p)[k - 1] <= 1 THEN 0
                                  ELSE t[Ancestor(t, p)[k - 1]].ppid
  <1> DEFINE N == MaxHops + 1
             A == Ancestor(t, p)
  <1>1. N \in Nat
    BY HopsAssumption
  <1>2. A = CHOOSE f : IsClimb(f, N, t, p)
    BY DEF Ancestor, IsClimb
  <1>3. \E f : IsClimb(f, N, t, p)
    <2> HIDE DEF N
    <2> QED
      BY <1>1, ClimbExists
  <1> HIDE DEF A, N
  <1>4. IsClimb(A, N, t, p)
    BY <1>2, <1>3
  <1>5. \A k \in 0 .. N : A[k] = IF k = 0 THEN t[p].ppid
                                 ELSE IF A[k - 1] <= 1 THEN 0 ELSE t[A[k - 1]].ppid
    BY <1>4 DEF IsClimb
  <1>6. A[0] = t[p].ppid
    BY <1>1, <1>5
  <1>7. \A k \in 1 .. N : A[k] = IF A[k - 1] <= 1 THEN 0 ELSE t[A[k - 1]].ppid
    BY <1>1, <1>5
  <1> QED
    BY <1>6, <1>7 DEF A, N

-----------------------------------------------------------------------------
(* A host that stands still                                                *)

\* What a record of which n - 1 fields were read says of p.
ReadOf(r, p, n) ==
  /\ n > 1 => r.pid = p /\ r.start = table[p].start /\ r.ppid = table[p].ppid
  /\ n > 2 => (r.shell <=> table[p].image \in ShellNamed)
  /\ n > 3 => r.file = FileOf[table[p].image]
  /\ n > 4 => (r.c <=> table[p].image \in CFlagged)
  /\ n > 5 => r.uid = table[p].uid

\* The walk goes on above the i-th link.
ClimbedAt(i) ==
  IF i = 1 THEN table[chain[i].pid].image = installed
           ELSE Wrapper(table[chain[i].pid].image)

Above(i) == Ancestor(table, peer.pid)[i - 1]

QuietInv ==
  events = 0 =>
    /\ peer.pid \in Live /\ peer.uid = table[peer.pid].uid
    /\ \A p \in Live \ {1} : table[p].image \in Image
    /\ Reading => ReadOf(cur, Target, field)
    /\ \A i \in 1 .. Len(chain) :
         /\ chain[i].pid \in Live /\ ReadOf(chain[i], chain[i].pid, 6)
         /\ chain[i].uid = peer.uid
         /\ chain[i].ppid = Above(i)
         /\ i < Len(chain) \/ pass = "walk" => ClimbedAt(i) /\ chain[i].ppid > 1
    /\ pass \in {"confirm", "bound"} => ~ClimbedAt(Len(chain))
    /\ pass = "refused" => RuntimesOf(table, peer.pid) = {}

LEMMA QuietTarget ==
  ASSUME IInv, QuietInv, events = 0, Reading
  PROVE  /\ Target \in Live \ {1}
         /\ pass = "walk" /\ chain # <<>> => /\ Target = chain[Len(chain)].ppid
                                             /\ Len(chain) \in 1 .. Len(chain)
  <1>1. TableInv /\ ChainInv
    BY DEF IInv
  <1>2. Target \in Pid \ {1}
    BY TargetPid
  <1>3. CASE pass = "walk" /\ chain = <<>>
    BY <1>2, <1>3, TargetPid DEF QuietInv
  <1>4. CASE pass = "walk" /\ chain # <<>>
    <2>1. Len(chain) \in 1 .. Len(chain)
      BY <1>1, <1>4 DEF ChainInv
    <2>2. Target = chain[Len(chain)].ppid
      BY <1>4, TargetPid
    <2>3. chain[Len(chain)].pid \in Live \ {1}
          /\ chain[Len(chain)].ppid = table[chain[Len(chain)].pid].ppid
      BY <1>1, <2>1, LinkFacts DEF QuietInv, ReadOf
    <2>4. Target \in Live
      BY <1>1, <2>2, <2>3 DEF TableInv
    <2> QED
      BY <1>2, <2>1, <2>2, <2>4
  <1>5. CASE pass = "confirm"
    <2>1. Len(again) + 1 \in 1 .. Len(chain) /\ Target = chain[Len(again) + 1].pid
      BY <1>5, TargetPid
    <2>2. Target \in Live
      BY <2>1 DEF QuietInv
    <2> QED
      BY <1>2, <1>5, <2>2
  <1> QED
    BY <1>3, <1>4, <1>5 DEF Reading

LEMMA QuietReads ==
  ASSUME IInv, QuietInv, events = 0, Reading, field < 6, cur' = Filled(Target)
  PROVE  ReadOf(cur', Target, field + 1)
  <1>1. cur \in Record /\ field \in 1 .. 5
    BY DEF IInv, ChainInv
  <1>2. ReadOf(cur, Target, field)
    BY DEF QuietInv
  <1> DEFINE img == table[Target].image
  <1>3. CASE field = 1
    <2>1. cur' = [cur EXCEPT !.pid = Target, !.start = table[Target].start,
                             !.ppid = table[Target].ppid]
      BY <1>3 DEF Filled
    <2>2. cur'.pid = Target /\ cur'.start = table[Target].start
          /\ cur'.ppid = table[Target].ppid
      BY <1>1, <2>1 DEF Record
    <2> QED
      BY <1>3, <2>2 DEF ReadOf
  <1>4. CASE field = 2
    <2>1. cur' = [cur EXCEPT !.shell = (img \in ShellNamed)]
      BY <1>4 DEF Filled
    <2>2. /\ cur'.pid = cur.pid /\ cur'.start = cur.start /\ cur'.ppid = cur.ppid
      BY <1>1, <2>1 DEF Record
    <2>3. cur'.shell = (img \in ShellNamed)
      BY <1>1, <2>1 DEF Record
    <2>4. cur'.shell <=> img \in ShellNamed
      BY <2>3
    <2>5. field + 1 = 3
      BY <1>4
    <2>6. cur.pid = Target /\ cur.start = table[Target].start /\ cur.ppid = table[Target].ppid
      BY <1>2, <1>4 DEF ReadOf
    <2> QED
      BY <2>2, <2>4, <2>5, <2>6 DEF ReadOf
  <1>5. CASE field = 3
    <2>1. cur' = [cur EXCEPT !.file = FileOf[img]]
      BY <1>5 DEF Filled
    <2>2. /\ cur'.pid = cur.pid /\ cur'.start = cur.start /\ cur'.ppid = cur.ppid
          /\ cur'.shell = cur.shell /\ cur'.file = FileOf[img]
      BY <1>1, <2>1 DEF Record
    <2> QED
      BY <1>2, <1>5, <2>2 DEF ReadOf
  <1>6. CASE field = 4
    <2>1. cur' = [cur EXCEPT !.c = (img \in CFlagged)]
      BY <1>6 DEF Filled
    <2>2. /\ cur'.pid = cur.pid /\ cur'.start = cur.start /\ cur'.ppid = cur.ppid
          /\ cur'.shell = cur.shell /\ cur'.file = cur.file
      BY <1>1, <2>1 DEF Record
    <2>3. cur'.c = (img \in CFlagged)
      BY <1>1, <2>1 DEF Record
    <2>4. cur'.c <=> img \in CFlagged
      BY <2>3
    <2>5. field + 1 = 5
      BY <1>6
    <2>6. /\ cur.pid = Target /\ cur.start = table[Target].start /\ cur.ppid = table[Target].ppid
          /\ cur.file = FileOf[img]
      BY <1>2, <1>6 DEF ReadOf
    <2>7. cur'.shell <=> img \in ShellNamed
      BY <1>2, <1>6, <2>2 DEF ReadOf
    <2> QED
      BY <2>2, <2>4, <2>5, <2>6, <2>7 DEF ReadOf
  <1>7. CASE field = 5
    <2>1. cur' = [cur EXCEPT !.uid = table[Target].uid]
      BY <1>7 DEF Filled
    <2>2. /\ cur'.pid = cur.pid /\ cur'.start = cur.start /\ cur'.ppid = cur.ppid
          /\ cur'.shell = cur.shell /\ cur'.file = cur.file /\ cur'.c = cur.c
          /\ cur'.uid = table[Target].uid
      BY <1>1, <2>1 DEF Record
    <2> QED
      BY <1>2, <1>7, <2>2 DEF ReadOf
  <1> QED
    BY <1>1, <1>3, <1>4, <1>5, <1>6, <1>7

\* The record of Target is complete and true.
LEMMA QuietRecord ==
  ASSUME IInv, QuietInv, events = 0, Reading, field = 6
  PROVE  /\ ReadOf(cur, Target, 6) /\ Bracketed /\ cur.pid = Target
         /\ table[Target].ppid = cur.ppid
  <1>1. ReadOf(cur, Target, 6) /\ Target \in Live
    BY QuietTarget DEF QuietInv
  <1> QED
    BY <1>1 DEF ReadOf, Bracketed, Fields

\* In a still table a parent is never too young.
LEMMA QuietAdmissible ==
  ASSUME IInv, QuietInv, events = 0, Reading, field = 6, pass = "walk"
  PROVE  /\ chain # <<>> => cur.start <= chain[Len(chain)].start
         /\ chain = <<>> => cur.uid = peer.uid
  <1>1. ReadOf(cur, Target, 6) /\ TableInv /\ ChainInv
    BY QuietRecord DEF IInv
  <1>2. ASSUME chain # <<>> PROVE cur.start <= chain[Len(chain)].start
    <2> DEFINE p == chain[Len(chain)].pid
    <2>1. Target = chain[Len(chain)].ppid /\ Len(chain) \in 1 .. Len(chain)
      BY <1>2, QuietTarget
    <2>2. p \in Live \ {1} /\ chain[Len(chain)].start = table[p].start
          /\ chain[Len(chain)].ppid = table[p].ppid
      BY <1>1, <2>1, LinkFacts DEF QuietInv, ReadOf
    <2>3. table[Target].start < table[p].start
      BY <1>1, <2>1, <2>2 DEF TableInv
    <2>4. table[Target].start \in Nat /\ table[p].start \in Nat
      BY <1>1, <2>2, QuietTarget, Started
    <2>5. cur.start = table[Target].start
      BY <1>1 DEF ReadOf
    <2> QED
      BY <2>2, <2>3, <2>4, <2>5
  <1>3. ASSUME chain = <<>> PROVE cur.uid = peer.uid
    BY <1>1, <1>3, TargetPid DEF ReadOf, QuietInv
  <1> QED
    BY <1>2, <1>3

\* Whether the walk climbs from the record is the rule of the ancestry.
LEMMA QuietClimbs ==
  ASSUME IInv, QuietInv, events = 0, Reading, field = 6, pass = "walk"
  PROVE  Climbs(cur) <=> IF chain = <<>> THEN table[Target].image = installed
                                         ELSE Wrapper(table[Target].image)
  <1>1. ReadOf(cur, Target, 6) /\ Target \in Live \ {1}
    BY QuietRecord, QuietTarget
  <1>2. table[Target].image \in Image /\ installed \in ClientImages
    BY <1>1 DEF QuietInv, IInv, TableInv
  <1>3. cur.file = FileOf[installed] <=> table[Target].image = installed
    BY <1>1, <1>2, ImageAssumption DEF ReadOf
  <1>4. cur.shell /\ cur.c <=> Wrapper(table[Target].image)
    BY <1>1 DEF ReadOf, Wrapper
  <1> QED
    BY <1>3, <1>4 DEF Climbs, IsHelper, IsWrapper

-----------------------------------------------------------------------------
(* The rule of the ancestry and the chain                                  *)

\* Why an ancestor is a runtime.
Serves(t, p, m) ==
  /\ \A k \in 0..m : /\ Ancestor(t, p)[k] > 1
                     /\ t[Ancestor(t, p)[k]].uid = t[p].uid
  /\ \A k \in 0..(m - 1) : Wrapper(t[Ancestor(t, p)[k]].image)
  /\ ~Wrapper(t[Ancestor(t, p)[m]].image)

LEMMA RuntimesAre ==
  RuntimesOf(table, peer.pid) =
    IF table[peer.pid].image # installed THEN {peer.pid}
    ELSE {Ancestor(table, peer.pid)[n] : n \in {m \in 0..MaxHops : Serves(table, peer.pid, m)}}
  BY DEF RuntimesOf, Serves

\* Above the client the links are its ancestors, all but the last wrappers.
LEMMA LinksAreAncestors ==
  ASSUME IInv, QuietInv, events = 0, NEW k \in 0 .. MaxHops, k + 2 <= Len(chain)
  PROVE  /\ k + 1 \in 1 .. Len(chain) /\ k + 2 \in 1 .. Len(chain) /\ k + 1 < Len(chain)
         /\ Ancestor(table, peer.pid)[k] = chain[k + 2].pid
         /\ Ancestor(table, peer.pid)[k] > 1
         /\ table[chain[k + 2].pid].uid = peer.uid
         /\ ClimbedAt(k + 2) <=> Wrapper(table[chain[k + 2].pid].image)
  <1>1. ChainInv
    BY DEF IInv
  <1>2. k \in Nat /\ Len(chain) \in Nat
    BY <1>1, HopsAssumption DEF ChainInv
  <1>3. /\ k + 1 \in 1 .. Len(chain) /\ k + 2 \in 1 .. Len(chain) /\ k + 1 < Len(chain)
        /\ (k + 1) + 1 = k + 2 /\ (k + 1) - 1 = k /\ k + 2 # 1
    BY <1>2
  <1>4. chain[k + 1].ppid = chain[k + 2].pid
    BY <1>1, <1>3 DEF ChainInv
  <1>5. chain[k + 1].ppid = Ancestor(table, peer.pid)[k] /\ chain[k + 1].ppid > 1
    BY <1>3 DEF QuietInv, Above
  <1>6. table[chain[k + 2].pid].uid = peer.uid
    BY <1>3 DEF QuietInv, ReadOf
  <1> QED
    BY <1>3, <1>4, <1>5, <1>6 DEF ClimbedAt

LEMMA QuietBound ==
  ASSUME IInv, QuietInv, events = 0, pass = "bound"
  PROVE  RuntimesOf(table, peer.pid) = {Bound.pid}
  <1>1. ChainInv /\ ConfirmInv
    BY DEF IInv
  <1> DEFINE n == Len(chain)
             A == Ancestor(table, peer.pid)
  <1>2. n \in Nat /\ n # 0 /\ n <= MaxHops + 2 /\ MaxHops \in Nat
    BY <1>1, HopsAssumption DEF ChainInv, ConfirmInv
  <1>3. chain[1].pid = peer.pid /\ ~ClimbedAt(n)
    BY <1>1 DEF ChainInv, ConfirmInv, QuietInv
  <1>4. CASE n = 1
    BY <1>3, <1>4, RuntimesAre DEF ClimbedAt, Bound
  <1>5. CASE n # 1
    <2> DEFINE m == n - 2
    <2>1. m \in 0 .. MaxHops /\ m + 2 = n
      <3> HIDE DEF n
      <3> QED
        BY <1>2, <1>5
    <2>2. table[peer.pid].image = installed
      <3>1. 1 \in 1 .. n /\ 1 < n
        <4> HIDE DEF n
        <4> QED
          BY <1>2, <1>5
      <3>2. ClimbedAt(1)
        BY <3>1 DEF QuietInv
      <3> QED
        BY <1>3, <3>2 DEF ClimbedAt
    <2>3. \A k \in 0 .. MaxHops : k <= m => k + 2 <= n
      <3> HIDE DEF n
      <3> QED
        BY <1>2
    <2>4. peer.uid = table[peer.pid].uid
      BY DEF QuietInv
    <2>5. \A k \in 0 .. m : k \in 0 .. MaxHops /\ k <= m
      <3> HIDE DEF m
      <3> QED
        BY <1>2, <2>1
    <2>6. Serves(table, peer.pid, m)
      <3>1. ASSUME NEW k \in 0 .. m
            PROVE A[k] > 1 /\ table[A[k]].uid = table[peer.pid].uid
        BY <2>3, <2>4, <2>5, LinksAreAncestors
      <3>2. ASSUME NEW k \in 0 .. (m - 1) PROVE Wrapper(table[A[k]].image)
        <4>1. k \in 0 .. m /\ k < m
          <5> HIDE DEF m
          <5> QED
            BY <2>1
        <4>2. /\ A[k] = chain[k + 2].pid /\ k + 2 \in 1 .. n
              /\ ClimbedAt(k + 2) <=> Wrapper(table[chain[k + 2].pid].image)
          BY <2>3, <2>5, <4>1, LinksAreAncestors
        <4>3. k + 2 < n
          <5> HIDE DEF n
          <5> QED
            BY <1>2, <4>1
        <4>4. ClimbedAt(k + 2)
          BY <4>2, <4>3 DEF QuietInv
        <4> QED
          BY <4>2, <4>4
      <3>3. ~Wrapper(table[A[m]].image)
        <4>1. m + 2 <= n
          BY <2>1, <2>3
        <4>2. A[m] = chain[m + 2].pid
              /\ (ClimbedAt(m + 2) <=> Wrapper(table[chain[m + 2].pid].image))
          BY <2>1, <4>1, LinksAreAncestors
        <4> QED
          BY <1>3, <2>1, <4>2
      <3> HIDE DEF m
      <3> QED
        BY <3>1, <3>2, <3>3 DEF Serves
    <2>7. A[m] = Bound.pid
      <3>1. m + 2 <= n
        BY <2>1, <2>3
      <3> QED
        BY <2>1, <3>1, LinksAreAncestors DEF Bound
    <2>8. ASSUME NEW i \in 0 .. MaxHops, Serves(table, peer.pid, i) PROVE i = m
      <3> HIDE DEF m
      <3>1. ~(i < m)
        <4>1. i < m => i \in 0 .. (m - 1)
          BY <2>1
        <4> QED
          BY <2>6, <2>8, <4>1 DEF Serves
      <3>2. ~(m < i)
        <4>1. m < i => m \in 0 .. (i - 1)
          BY <2>1
        <4> QED
          BY <2>6, <2>8, <4>1 DEF Serves
      <3> QED
        BY <2>1, <3>1, <3>2
    <2> HIDE DEF m
    <2>9. {i \in 0 .. MaxHops : Serves(table, peer.pid, i)} = {m}
      BY <2>1, <2>6, <2>8
    <2> QED
      BY <2>2, <2>7, <2>9, RuntimesAre
  <1> QED
    BY <1>4, <1>5

LEMMA QuietRefused ==
  ASSUME IInv, QuietInv, events = 0, WalkRefused
  PROVE  RuntimesOf(table, peer.pid) = {}
  <1>1. /\ pass = "walk" /\ field = 6 /\ Reading
        /\ \/ ~Admissible(cur)
           \/ Climbs(cur) /\ (TooFar(cur) \/ Topmost(cur))
    BY DEF WalkRefused, Bracketed, Fields, Arrives
  <1>2. ChainInv /\ WalkInv /\ ReadOf(cur, Target, 6) /\ cur.pid = Target
        /\ Target \in Live \ {1} /\ table[Target].ppid = cur.ppid
    BY <1>1, QuietRecord, QuietTarget DEF IInv
  <1> DEFINE n == Len(chain)
             A == Ancestor(table, peer.pid)
  <1>3. n \in Nat /\ MaxHops \in Nat /\ n <= MaxHops + 1 /\ (chain = <<>> <=> n = 0)
    BY <1>1, <1>2, HopsAssumption DEF ChainInv, WalkInv
  <1>4. Target \in Nat /\ Target > 1
    <2>1. Target \in Nat /\ Target # 0
      BY <1>2, PidAssumption DEF IInv, TableInv
    <2> QED
      BY <1>2, <2>1
  <1>5. CASE chain = <<>>
    <2>1. Target = peer.pid
      BY <1>1, <1>5, TargetPid
    <2>2. Admissible(cur)
      BY <1>1, <1>5, QuietAdmissible DEF Admissible
    <2>3. ~TooFar(cur)
      BY <1>3, <1>5 DEF TooFar
    <2>4. Climbs(cur) /\ cur.ppid <= 1
      BY <1>1, <2>2, <2>3 DEF Topmost
    <2>5. table[peer.pid].image = installed
      BY <1>1, <1>5, <2>1, <2>4, QuietClimbs
    <2>6. A[0] <= 1
      BY <1>2, <2>1, <2>4, AncestorSteps
    <2>7. ASSUME NEW m \in 0 .. MaxHops, Serves(table, peer.pid, m) PROVE FALSE
      <3>1. 0 \in 0 .. m
        BY <1>3
      <3>2. A[0] > 1 /\ A[0] \in Nat
        <4>1. A[0] = cur.ppid /\ cur.ppid \in Nat
          BY <1>2, <2>1, AncestorSteps DEF ChainInv, Record
        <4> QED
          BY <2>7, <3>1, <4>1 DEF Serves
      <3> QED
        BY <2>6, <3>2
    <2>8. {m \in 0 .. MaxHops : Serves(table, peer.pid, m)} = {}
      BY <2>7
    <2> QED
      BY <2>5, <2>8, RuntimesAre
  <1>6. CASE chain # <<>>
    <2>1. n \in 1 .. n /\ 1 \in 1 .. n /\ n - 1 \in 0 .. MaxHops
      <3>1. n # 0
        BY <1>3, <1>6
      <3> HIDE DEF n
      <3> QED
        BY <1>3, <3>1
    <2>2. table[peer.pid].image = installed
      <3>1. ClimbedAt(1)
        BY <1>1, <2>1 DEF QuietInv
      <3>2. chain[1].pid = peer.pid
        BY <1>2, <1>6 DEF ChainInv
      <3> QED
        BY <3>1, <3>2 DEF ClimbedAt
    <2>3. A[n - 1] = Target
      <3>1. Target = chain[n].ppid
        BY <1>1, <1>6, QuietTarget
      <3>2. chain[n].ppid = A[n - 1]
        BY <2>1 DEF QuietInv, Above
      <3> QED
        BY <3>1, <3>2
    <2>4. ASSUME NEW m \in 0 .. MaxHops, Serves(table, peer.pid, m) PROVE FALSE
      <3>1. ~(m < n - 1)
        <4> SUFFICES ASSUME m < n - 1 PROVE FALSE
          OBVIOUS
        <4>1. m + 2 <= n /\ m + 2 \in 1 .. n
          <5> HIDE DEF n
          <5> QED
            BY <1>3
        <4>2. /\ A[m] = chain[m + 2].pid
              /\ ClimbedAt(m + 2) <=> Wrapper(table[chain[m + 2].pid].image)
          BY <4>1, LinksAreAncestors
        <4>3. ClimbedAt(m + 2)
          BY <1>1, <4>1 DEF QuietInv
        <4> QED
          BY <2>4, <4>2, <4>3 DEF Serves
      <3>2. n - 1 \in 0 .. m
        <4> HIDE DEF n
        <4> QED
          BY <1>3, <2>1, <3>1
      <3>3. table[Target].uid = peer.uid
        <4>1. table[A[n - 1]].uid = table[peer.pid].uid
          BY <2>4, <3>2 DEF Serves
        <4> QED
          BY <2>3, <4>1 DEF QuietInv
      <3>4. Admissible(cur)
        BY <1>1, <1>2, <1>6, <3>3, QuietAdmissible DEF Admissible, ReadOf
      <3>5. Wrapper(table[Target].image) /\ (TooFar(cur) \/ Topmost(cur))
        BY <1>1, <1>6, <3>4, QuietClimbs
      <3>6. m # n - 1
        BY <2>3, <2>4, <3>5 DEF Serves
      <3>7. n \in 0 .. m /\ n <= MaxHops /\ n \in 1 .. (MaxHops + 1)
        <4> HIDE DEF n
        <4> QED
          BY <1>3, <2>1, <3>2, <3>6
      <3>8. Topmost(cur)
        BY <1>3, <3>5, <3>7 DEF TooFar
      <3>9. A[n] = cur.ppid
        <4>1. A[n] = IF A[n - 1] <= 1 THEN 0 ELSE table[A[n - 1]].ppid
          BY <3>7, AncestorSteps
        <4>2. ~(Target <= 1)
          BY <1>4
        <4> QED
          BY <1>2, <2>3, <4>1, <4>2
      <3>10. A[n] > 1
        BY <2>4, <3>7 DEF Serves
      <3>11. cur.ppid \in Nat
        BY <1>2 DEF ChainInv, Record
      <3> QED
        BY <3>8, <3>9, <3>10, <3>11 DEF Topmost
    <2>5. {m \in 0 .. MaxHops : Serves(table, peer.pid, m)} = {}
      BY <2>4
    <2> QED
      BY <2>2, <2>5, RuntimesAre
  <1> QED
    BY <1>5, <1>6

-----------------------------------------------------------------------------
(* Nothing but the walk changes a still host                               *)

LEMMA SameRule ==
  ASSUME UNCHANGED host, UNCHANGED peer
  PROVE  /\ RuntimesOf(table, peer.pid)' = RuntimesOf(table, peer.pid)
         /\ Ancestor(table, peer.pid)' = Ancestor(table, peer.pid)
         /\ table' = table /\ installed' = installed /\ events' = events /\ Live' = Live
         /\ peer' = peer
         /\ \A r, p, n : ReadOf(r, p, n)' <=> ReadOf(r, p, n)
  BY DEF host, RuntimesOf, Ancestor, Live, ReadOf, Wrapper

LEMMA QuietLinks ==
  ASSUME IInv, QuietInv, events = 0, pass = "walk", Bracketed, Admissible(cur),
         chain' = Append(chain, cur)
  PROVE  \A i \in 1 .. Len(chain') :
           /\ chain'[i].pid \in Live /\ ReadOf(chain'[i], chain'[i].pid, 6)
           /\ chain'[i].uid = peer.uid
           /\ chain'[i].ppid = Above(i)
           /\ i < Len(chain') =>
                /\ chain'[i].ppid > 1
                /\ IF i = 1 THEN table[chain'[i].pid].image = installed
                            ELSE Wrapper(table[chain'[i].pid].image)
  <1>1. /\ Len(chain') = Len(chain) + 1 /\ Len(chain) \in Nat
        /\ cur.pid = Target /\ chain'[Len(chain')] = cur
        /\ \A i \in 1 .. Len(chain) : chain'[i] = chain[i]
    BY Linked
  <1>2. Reading /\ field = 6
    BY DEF Bracketed, Fields
  <1>3. ReadOf(cur, Target, 6) /\ Target \in Live \ {1} /\ table[Target].ppid = cur.ppid
    BY <1>2, QuietRecord, QuietTarget
  <1>4. cur.uid = peer.uid
    BY DEF Admissible
  <1>5. cur.ppid = Above(Len(chain'))
    <2> DEFINE n == Len(chain)
               A == Ancestor(table, peer.pid)
    <2>1. Len(chain') - 1 = n
      BY <1>1
    <2>2. CASE chain = <<>>
      <3>1. n = 0 /\ Target = peer.pid
        BY <1>2, <2>2, TargetPid
      <3> QED
        BY <1>3, <2>1, <3>1, AncestorSteps DEF Above
    <2>3. CASE chain # <<>>
      <3>1. Target = chain[n].ppid /\ n \in 1 .. n
        BY <1>2, <2>3, QuietTarget
      <3>2. chain[n].ppid = A[n - 1] /\ chain[n].ppid > 1 /\ chain[n].ppid \in Nat
        BY <3>1, LinkFacts DEF QuietInv, Above, IInv
      <3>3. n \in 1 .. (MaxHops + 1)
        <4>1. n <= MaxHops + 1 /\ n \in Nat /\ MaxHops \in Nat
          BY <1>1, HopsAssumption DEF IInv, WalkInv
        <4> HIDE DEF n
        <4> QED
          BY <3>1, <4>1
      <3>4. A[n] = IF A[n - 1] <= 1 THEN 0 ELSE table[A[n - 1]].ppid
        BY <3>3, AncestorSteps
      <3>5. ~(A[n - 1] <= 1)
        BY <3>2
      <3>6. A[n] = cur.ppid
        BY <1>3, <3>1, <3>2, <3>4, <3>5
      <3> QED
        BY <2>1, <3>6 DEF Above
    <2> QED
      BY <2>2, <2>3
  <1> SUFFICES ASSUME NEW i \in 1 .. Len(chain')
               PROVE  /\ chain'[i].pid \in Live /\ ReadOf(chain'[i], chain'[i].pid, 6)
                      /\ chain'[i].uid = peer.uid
                      /\ chain'[i].ppid = Above(i)
                      /\ i < Len(chain') =>
                           /\ chain'[i].ppid > 1
                           /\ IF i = 1 THEN table[chain'[i].pid].image = installed
                                       ELSE Wrapper(table[chain'[i].pid].image)
    OBVIOUS
  <1>6. CASE i = Len(chain')
    BY <1>1, <1>3, <1>4, <1>5, <1>6
  <1>7. CASE i # Len(chain')
    <2>1. i \in 1 .. Len(chain) /\ chain'[i] = chain[i]
      BY <1>1, <1>7
    <2>2. /\ chain[i].pid \in Live /\ ReadOf(chain[i], chain[i].pid, 6)
          /\ chain[i].uid = peer.uid /\ chain[i].ppid = Above(i)
          /\ ClimbedAt(i) /\ chain[i].ppid > 1
      BY <2>1 DEF QuietInv
    <2> QED
      BY <2>1, <2>2 DEF ClimbedAt
  <1> QED
    BY <1>6, <1>7

LEMMA QuietInit == Init => QuietInv
  <1> SUFFICES ASSUME Init PROVE QuietInv
    OBVIOUS
  <1>1. TableInv /\ ChainInv
    BY StartsBound DEF IInv
  <1>2. /\ pass = "walk" /\ field = 1 /\ chain = <<>>
    BY DEF Init
  <1>3. PICK parent \in {f \in [Pid \ {1} -> Pid] : \A p \in Pid \ {1} : f[p] < p},
             uid \in [Pid \ {1} -> Uid],
             image \in [Pid \ {1} -> (Image \ ClientImages) \cup {installed}] :
          table = TableOf(parent, uid, image)
    BY DEF Init
  <1>4. Live = Pid
    BY <1>3 DEF Live, TableOf
  <1>5. \A p \in Live \ {1} : table[p].image \in Image
    <2> SUFFICES ASSUME NEW p \in Pid \ {1} PROVE table[p].image \in Image
      BY <1>4
    <2>1. image[p] \in Image
      <3>1. installed \in Image
        BY <1>1, ImageAssumption DEF TableInv
      <3> QED
        BY <1>3, <3>1
    <2>2. table[p] = [start |-> p, ppid |-> parent[p], uid |-> uid[p], image |-> image[p]]
      BY <1>3 DEF TableOf
    <2> QED
      BY <2>1, <2>2
  <1>6. peer.pid \in Live /\ peer.uid = table[peer.pid].uid
    <2>1. \E p \in Pid \ {1} : peer = [pid |-> p, uid |-> table[p].uid]
      BY DEF Init
    <2> QED
      BY <1>4, <2>1
  <1>7. ReadOf(cur, Target, field)
    BY <1>2 DEF ReadOf
  <1>8. \A i \in 1 .. Len(chain) : FALSE
    BY <1>2
  <1> QED
    BY <1>2, <1>5, <1>6, <1>7, <1>8 DEF QuietInv

\* The steps that go on leave the host, the peer and the rule as they are.
LEMMA QuietRead ==
  ASSUME IInv, QuietInv, events = 0, ReadField
  PROVE  QuietInv'
  <1>1. /\ Reading /\ field < 6 /\ cur' = Filled(Target) /\ field' = field + 1
        /\ UNCHANGED host /\ UNCHANGED peer
        /\ UNCHANGED <<pass, chain, again, instant>>
    BY DEF ReadField, Fields
  <1>2. ReadOf(cur', Target, field + 1) /\ Target' = Target
    BY <1>1, QuietReads DEF Target
  <1>3. ReadOf(cur, Target, field)' <=> ReadOf(cur', Target, field + 1)
    BY <1>1, <1>2, SameRule DEF ReadOf
  <1>4. \A i : ClimbedAt(i)' <=> ClimbedAt(i)
    BY <1>1, SameRule DEF ClimbedAt, Wrapper
  <1>5. \A i : /\ Above(i)' = Above(i)
               /\ ReadOf(chain[i], chain[i].pid, 6)' <=> ReadOf(chain[i], chain[i].pid, 6)
    BY <1>1, SameRule DEF Above, ReadOf
  <1> QED
    BY <1>1, <1>2, <1>3, <1>4, <1>5, SameRule DEF QuietInv, Reading

LEMMA QuietClimb ==
  ASSUME IInv, QuietInv, events = 0, Climb
  PROVE  QuietInv'
  <1>1. /\ pass = "walk" /\ Bracketed /\ Admissible(cur) /\ Climbs(cur) /\ ~Topmost(cur)
        /\ chain' = Append(chain, cur) /\ field' = 1 /\ pass' = "walk"
        /\ UNCHANGED host /\ UNCHANGED peer
    BY DEF Climb, NextRecord
  <1>2. Reading /\ field = 6
    BY <1>1 DEF Bracketed, Fields
  <1>3. /\ Len(chain') = Len(chain) + 1 /\ Len(chain) \in Nat
        /\ cur.pid = Target /\ chain'[Len(chain')] = cur
    BY <1>1, Linked
  <1>4. \A i \in 1 .. Len(chain') :
           /\ chain'[i].pid \in Live /\ ReadOf(chain'[i], chain'[i].pid, 6)
           /\ chain'[i].uid = peer.uid
           /\ chain'[i].ppid = Above(i)
           /\ i < Len(chain') =>
                /\ chain'[i].ppid > 1
                /\ IF i = 1 THEN table[chain'[i].pid].image = installed
                            ELSE Wrapper(table[chain'[i].pid].image)
    BY <1>1, QuietLinks
  <1>5. cur.ppid > 1
    <2>1. cur.ppid \in Nat
      BY DEF IInv, ChainInv, Record
    <2> QED
      BY <1>1, <2>1 DEF Topmost
  <1>6. IF Len(chain') = 1 THEN table[cur.pid].image = installed
                           ELSE Wrapper(table[cur.pid].image)
    <2>1. chain = <<>> <=> Len(chain') = 1
      <3>1. chain = <<>> <=> Len(chain) = 0
        BY DEF IInv, ChainInv
      <3>2. Len(chain) = 0 <=> Len(chain') = 1
        <4> DEFINE m == Len(chain)
                   k == Len(chain')
        <4>1. k = m + 1 /\ m \in Nat
          BY <1>3
        <4> HIDE DEF m, k
        <4>2. m = 0 <=> k = 1
          BY <4>1
        <4> QED
          BY <4>2 DEF m, k
      <3> QED
        BY <3>1, <3>2
    <2> QED
      BY <1>1, <1>2, <1>3, <2>1, QuietClimbs
  <1>7. \A i \in 1 .. Len(chain') :
           /\ chain'[i].ppid > 1
           /\ IF i = 1 THEN table[chain'[i].pid].image = installed
                       ELSE Wrapper(table[chain'[i].pid].image)
    <2> SUFFICES ASSUME NEW i \in 1 .. Len(chain')
                 PROVE  /\ chain'[i].ppid > 1
                        /\ IF i = 1 THEN table[chain'[i].pid].image = installed
                                    ELSE Wrapper(table[chain'[i].pid].image)
      OBVIOUS
    <2>1. i < Len(chain') \/ i = Len(chain')
      BY <1>3
    <2> QED
      BY <1>3, <1>4, <1>5, <1>6, <2>1
  <1>8. \A i : ClimbedAt(i)' <=> IF i = 1 THEN table[chain'[i].pid].image = installed
                                          ELSE Wrapper(table[chain'[i].pid].image)
    BY <1>1, SameRule DEF ClimbedAt, Wrapper
  <1>9. \A i : /\ Above(i)' = Above(i)
               /\ ReadOf(chain[i], chain[i].pid, 6)' <=> ReadOf(chain'[i], chain'[i].pid, 6)
    BY <1>1, SameRule DEF Above, ReadOf
  <1>10. ReadOf(cur, Target, field)'
    BY <1>1 DEF ReadOf
  <1>11. /\ peer.pid \in Live /\ peer.uid = table[peer.pid].uid
         /\ \A p \in Live \ {1} : table[p].image \in Image
    BY DEF QuietInv
  <1> QED
    BY <1>1, <1>4, <1>7, <1>8, <1>9, <1>10, <1>11, SameRule DEF QuietInv

LEMMA QuietArrive ==
  ASSUME IInv, QuietInv, events = 0, Arrive
  PROVE  QuietInv'
  <1>1. /\ pass = "walk" /\ Bracketed /\ Admissible(cur) /\ ~Climbs(cur)
        /\ chain' = Append(chain, cur) /\ field' = 1 /\ pass' = "confirm"
        /\ UNCHANGED host /\ UNCHANGED peer
    BY DEF Arrive, NextRecord, Arrives
  <1>2. Reading /\ field = 6
    BY <1>1 DEF Bracketed, Fields
  <1>3. /\ Len(chain') = Len(chain) + 1 /\ Len(chain) \in Nat
        /\ cur.pid = Target /\ chain'[Len(chain')] = cur
    BY <1>1, Linked
  <1>4. \A i \in 1 .. Len(chain') :
           /\ chain'[i].pid \in Live /\ ReadOf(chain'[i], chain'[i].pid, 6)
           /\ chain'[i].uid = peer.uid
           /\ chain'[i].ppid = Above(i)
           /\ i < Len(chain') =>
                /\ chain'[i].ppid > 1
                /\ IF i = 1 THEN table[chain'[i].pid].image = installed
                            ELSE Wrapper(table[chain'[i].pid].image)
    BY <1>1, QuietLinks
  <1>5. ~(IF Len(chain') = 1 THEN table[cur.pid].image = installed
                             ELSE Wrapper(table[cur.pid].image))
    <2>1. chain = <<>> <=> Len(chain') = 1
      <3>1. chain = <<>> <=> Len(chain) = 0
        BY DEF IInv, ChainInv
      <3>2. Len(chain) = 0 <=> Len(chain') = 1
        <4> DEFINE m == Len(chain)
                   k == Len(chain')
        <4>1. k = m + 1 /\ m \in Nat
          BY <1>3
        <4> HIDE DEF m, k
        <4>2. m = 0 <=> k = 1
          BY <4>1
        <4> QED
          BY <4>2 DEF m, k
      <3> QED
        BY <3>1, <3>2
    <2> QED
      BY <1>1, <1>2, <1>3, <2>1, QuietClimbs
  <1>6. \A i : ClimbedAt(i)' <=> IF i = 1 THEN table[chain'[i].pid].image = installed
                                          ELSE Wrapper(table[chain'[i].pid].image)
    BY <1>1, SameRule DEF ClimbedAt, Wrapper
  <1>7. ~ClimbedAt(Len(chain))'
    <2>1. ~(IF Len(chain') = 1 THEN table[chain'[Len(chain')].pid].image = installed
                               ELSE Wrapper(table[chain'[Len(chain')].pid].image))
      BY <1>3, <1>5
    <2>2. ClimbedAt(Len(chain))' <=>
            IF Len(chain') = 1 THEN table[chain'[Len(chain')].pid].image = installed
                               ELSE Wrapper(table[chain'[Len(chain')].pid].image)
      BY <1>1, SameRule DEF ClimbedAt, Wrapper
    <2> QED
      BY <2>1, <2>2
  <1>8. \A i : /\ Above(i)' = Above(i)
               /\ ReadOf(chain[i], chain[i].pid, 6)' <=> ReadOf(chain'[i], chain'[i].pid, 6)
    BY <1>1, SameRule DEF Above, ReadOf
  <1>9. ReadOf(cur, Target, field)'
    BY <1>1 DEF ReadOf
  <1>10. /\ peer.pid \in Live /\ peer.uid = table[peer.pid].uid
         /\ \A p \in Live \ {1} : table[p].image \in Image
    BY DEF QuietInv
  <1> QED
    BY <1>1, <1>4, <1>6, <1>7, <1>8, <1>9, <1>10, SameRule DEF QuietInv

LEMMA QuietConfirm ==
  ASSUME IInv, QuietInv, events = 0, ConfirmLink
  PROVE  QuietInv'
  <1>1. /\ pass = "confirm" /\ field' = 1 /\ pass' \in {"confirm", "bound"}
        /\ UNCHANGED host /\ UNCHANGED peer /\ chain' = chain
    BY DEF ConfirmLink, NextRecord
  <1>2. \A i : ClimbedAt(i)' <=> ClimbedAt(i)
    BY <1>1, SameRule DEF ClimbedAt, Wrapper
  <1>3. \A i : /\ Above(i)' = Above(i)
               /\ ReadOf(chain[i], chain[i].pid, 6)' <=> ReadOf(chain[i], chain[i].pid, 6)
    BY <1>1, SameRule DEF Above, ReadOf
  <1>4. ReadOf(cur, Target, field)'
    BY <1>1 DEF ReadOf
  <1>5. ~ClimbedAt(Len(chain)) /\ ~ClimbedAt(Len(chain))'
    <2>1. ClimbedAt(Len(chain))' <=> ClimbedAt(Len(chain))
      BY <1>1, SameRule DEF ClimbedAt, Wrapper
    <2> QED
      BY <1>1, <2>1 DEF QuietInv
  <1> QED
    BY <1>1, <1>2, <1>3, <1>4, <1>5, SameRule DEF QuietInv

\* On a still host a read does not fail and what is read again is the same.
LEMMA QuietNeverTorn ==
  ASSUME IInv, QuietInv, events = 0
  PROVE  ~ReadFails /\ ~ReadTorn /\ ~ConfirmRefused
  <1>1. ~ReadFails
    BY QuietTarget DEF ReadFails
  <1>2. ~ReadTorn
    BY QuietRecord DEF ReadTorn, Fields
  <1>3. ~ConfirmRefused
    <2> SUFFICES ASSUME ConfirmRefused PROVE FALSE
      OBVIOUS
    <2>1. /\ pass = "confirm" /\ Reading /\ field = 6
          /\ ~Same(cur, chain[Len(again) + 1])
      BY DEF ConfirmRefused, Bracketed, Fields
    <2>2. Len(again) + 1 \in 1 .. Len(chain) /\ Target = chain[Len(again) + 1].pid
      BY <2>1, TargetPid
    <2>3. ReadOf(cur, Target, 6) /\ ReadOf(chain[Len(again) + 1], Target, 6)
      BY <2>1, <2>2, QuietRecord DEF QuietInv
    <2> QED
      BY <2>1, <2>3 DEF ReadOf, Same
  <1> QED
    BY <1>1, <1>2, <1>3

LEMMA QuietStep ==
  ASSUME IInv, QuietInv, [Next]_vars
  PROVE  QuietInv'
  <1> SUFFICES ASSUME events' = 0 PROVE QuietInv'
    BY DEF QuietInv
  <1>1. CASE Host
    <2>1. events' = events + 1
      BY <1>1 DEF Host, Fork, Exit, Exec, Upgrade, Changed
    <2>2. events \in Nat
      BY LastNat DEF IInv
    <2> QED
      BY <2>1, <2>2
  <1>2. CASE Walk
    <2>1. events = 0
      BY <1>2 DEF Walk, ReadField, ReadFails, ReadTorn, Climb, Arrive, WalkRefused,
                  ConfirmLink, ConfirmRefused, Refuse, host
    <2>2. CASE ReadField
      BY <2>1, <2>2, QuietRead
    <2>3. CASE Climb
      BY <2>1, <2>3, QuietClimb
    <2>4. CASE Arrive
      BY <2>1, <2>4, QuietArrive
    <2>5. CASE ConfirmLink
      BY <2>1, <2>5, QuietConfirm
    <2>6. CASE WalkRefused
      <3>1. /\ pass = "walk" /\ pass' = "refused" /\ UNCHANGED host /\ UNCHANGED peer
            /\ chain' = chain
        BY <2>6 DEF WalkRefused, Refuse
      <3>2. RuntimesOf(table, peer.pid)' = {}
        BY <2>1, <2>6, <3>1, QuietRefused, SameRule
      <3>3. \A i : ClimbedAt(i)' <=> ClimbedAt(i)
        BY <3>1, SameRule DEF ClimbedAt, Wrapper
      <3>4. \A i : /\ Above(i)' = Above(i)
                   /\ ReadOf(chain[i], chain[i].pid, 6)' <=> ReadOf(chain[i], chain[i].pid, 6)
        BY <3>1, SameRule DEF Above, ReadOf
      <3> QED
        BY <2>1, <3>1, <3>2, <3>3, <3>4, SameRule DEF QuietInv, Reading
    <2> QED
      BY <1>2, <2>1, <2>2, <2>3, <2>4, <2>5, <2>6, QuietNeverTorn DEF Walk
  <1>3. CASE UNCHANGED vars
    <2>1. UNCHANGED host /\ UNCHANGED peer
          /\ UNCHANGED <<pass, field, cur, chain, again, instant>>
      BY <1>3 DEF vars, host
    <2>2. Target' = Target
      BY <2>1 DEF Target
    <2>3. \A i : ClimbedAt(i)' <=> ClimbedAt(i)
      BY <2>1, SameRule DEF ClimbedAt, Wrapper
    <2>4. \A i : /\ Above(i)' = Above(i)
                 /\ ReadOf(chain[i], chain[i].pid, 6)' <=> ReadOf(chain[i], chain[i].pid, 6)
      BY <2>1, SameRule DEF Above, ReadOf
    <2>5. ReadOf(cur, Target, field)' <=> ReadOf(cur, Target, field)
      BY <2>1, <2>2, SameRule DEF ReadOf
    <2>6. ClimbedAt(Len(chain))' <=> ClimbedAt(Len(chain))
      BY <2>1, SameRule DEF ClimbedAt, Wrapper
    <2> QED
      BY <2>1, <2>2, <2>3, <2>4, <2>5, <2>6, SameRule DEF QuietInv, Reading
  <1> QED
    BY <1>1, <1>2, <1>3 DEF Next

\* On a host that stands still bindRuntime decides by the documented rule: it binds
\* the first ancestor that is no wrapper, and refuses when there is none.
THEOREM BindsByTheRule == Spec => []QuietExact
  <1>1. IInv /\ QuietInv => QuietExact
    BY QuietBound DEF QuietExact, QuietInv
  <1>2. Init => IInv /\ QuietInv
    BY StartsBound, QuietInit
  <1>3. (IInv /\ QuietInv) /\ [Next]_vars => (IInv /\ QuietInv)'
    BY StaysBound, QuietStep
  <1> QED
    BY <1>1, <1>2, <1>3, PTL DEF Spec
=============================================================================

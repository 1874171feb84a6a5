------------------------ MODULE IntegrationLockProofs ------------------------
(***************************************************************************)
(* Proofs about IntegrationLock, for any number of processes and inodes.   *)
(***************************************************************************)
EXTENDS IntegrationLock, TLAPS

\* A call has a file of its own between its create and its return.
Making == {"publish", "undo", "held", "exit", "overrun", "release", "remove"}
Judging == {"recheck", "unlink"}

FilesAreOwn ==
  /\ \A p \in Procs : mine[p] # 0 <=> p \in alive /\ pc[p] \in Making
  /\ \A p, q \in Procs : mine[p] = mine[q] /\ mine[p] # 0 => p = q

\* What stands at the path names the process that still has it.
FilesNameTheirMaker == \A p \in Procs : mine[p] # 0 /\ mine[p] = file.ino => p \in file.by

\* The robbed and those whose lock was handed back are exactly the ones whose file is no
\* longer at the path.
LosersLostTheirs ==
  \A p \in Procs : p \in robbed \cup handed <=> mine[p] # 0 /\ mine[p] # file.ino

\* What the sweep judged a corpse is one as long as it stands there: age and death do not
\* pass, and its inode is nobody else's.
CorpsesStayCorpses ==
  \A p \in Procs : p \in alive /\ pc[p] \in Judging =>
    /\ sees[p].ino # 0
    /\ sees[p].ino = file.ino /\ sees[p].token => file.token
    /\ Seen = sees[p] => Corpse(file)

\* A waiter past its deadline outlived the window of the file it found.
TheLateOutlastedIt ==
  \A p \in late : /\ p \in alive /\ pc[p] \in Waiting
                  /\ AtPath /\ p \in stood => file.age = 2

IInv == /\ TypeOK /\ FilesAreOwn /\ FilesNameTheirMaker /\ LosersLostTheirs
        /\ CorpsesStayCorpses /\ TheLateOutlastedIt

\* The initial state satisfies the invariant: no file, nobody waiting.
LEMMA InitIInv == Init => IInv
<1> SUFFICES ASSUME Init PROVE IInv
  OBVIOUS
<1> USE LockAssumption DEF Init, NoFile, Nothing
<1>1. TypeOK
  BY DEF TypeOK, PCs
<1>2. FilesAreOwn /\ FilesNameTheirMaker /\ LosersLostTheirs
  BY DEF FilesAreOwn, FilesNameTheirMaker, LosersLostTheirs, Making
<1>3. CorpsesStayCorpses /\ TheLateOutlastedIt
  BY DEF CorpsesStayCorpses, TheLateOutlastedIt, Judging
<1> QED
  BY <1>1, <1>2, <1>3 DEF IInv

\* Steps of a call that touch neither the path nor who owns what keep the invariant.
LEMMA Moves ==
  ASSUME IInv, NEW p \in Procs, NEW from \in PCs, NEW to \in PCs, Goto(p, from, to),
         from \in Making <=> to \in Making,
         to \in Judging => from = "recheck" /\ sees' = sees,
         from \in Waiting => to \in Waiting /\ stood' = stood,
         sees' \in {sees, [sees EXCEPT ![p] = Nothing]},
         stood' \in {stood, stood \cup {p}},
         erred' \in {erred, erred \cup {p}, erred \ {p}},
         UNCHANGED <<file, mine, alive, robbed, handed, late>>
  PROVE  IInv'
<1> USE DEF IInv, Goto, Making, Judging
<1>0. /\ pc' \in [Procs -> PCs] /\ pc'[p] = to /\ pc[p] = from /\ p \in alive
      /\ \A q \in Procs \ {p} : pc'[q] = pc[q] /\ sees'[q] = sees[q]
      /\ sees' \in [Procs -> [ino : 0..FILES, token : BOOLEAN]]
  <2>1. Nothing \in [ino : 0..FILES, token : BOOLEAN]
    BY LockAssumption DEF Nothing
  <2>2. /\ pc \in [Procs -> PCs] /\ sees \in [Procs -> [ino : 0..FILES, token : BOOLEAN]]
    BY DEF TypeOK
  <2>3. CASE sees' = sees
    BY <2>2, <2>3
  <2>4. CASE sees' = [sees EXCEPT ![p] = Nothing]
    BY <2>1, <2>2, <2>4
  <2> QED
    BY <2>3, <2>4
<1>1. TypeOK'
  BY <1>0 DEF TypeOK
<1>2. FilesAreOwn'
  BY <1>0 DEF FilesAreOwn
<1>3. FilesNameTheirMaker' /\ LosersLostTheirs'
  BY DEF FilesNameTheirMaker, LosersLostTheirs
<1>4. CorpsesStayCorpses'
  BY <1>0 DEF CorpsesStayCorpses, Seen, Corpse, Overdue, Dead
<1>5. TheLateOutlastedIt'
  BY <1>0 DEF TheLateOutlastedIt, AtPath, TypeOK
<1> QED
  BY <1>1, <1>2, <1>3, <1>4, <1>5

\* A call that returns, or dies, and leaves the path alone.
LEMMA Returns ==
  ASSUME IInv, NEW p \in Procs, NEW to \in PCs \ (Making \cup Waiting), Forget(p),
         pc' = [pc EXCEPT ![p] = to], p \in alive, alive' \in {alive, alive \ {p}},
         robbed' = robbed \ {p}, erred' \in {erred, erred \cup {p}, erred \ {p}}, file' = file
  PROVE  IInv'
<1> USE DEF IInv, Forget
<1>0. /\ pc' \in [Procs -> PCs] /\ pc'[p] = to
      /\ \A q \in Procs \ {p} : pc'[q] = pc[q] /\ sees'[q] = sees[q] /\ mine'[q] = mine[q]
      /\ sees' \in [Procs -> [ino : 0..FILES, token : BOOLEAN]]
      /\ mine' \in [Procs -> 0..FILES] /\ mine'[p] = 0
      /\ to \notin Judging
  BY LockAssumption DEF TypeOK, Nothing, Judging, Waiting, Sweeping
<1>1. TypeOK'
  BY <1>0 DEF TypeOK
<1>2. FilesAreOwn'
  BY <1>0 DEF FilesAreOwn
<1>3. FilesNameTheirMaker' /\ LosersLostTheirs'
  BY <1>0 DEF FilesNameTheirMaker, LosersLostTheirs
<1>4. CorpsesStayCorpses'
  BY <1>0 DEF CorpsesStayCorpses, Seen, Corpse, Overdue, Dead, TypeOK
<1>5. TheLateOutlastedIt'
  BY <1>0 DEF TheLateOutlastedIt, AtPath, TypeOK
<1> QED
  BY <1>1, <1>2, <1>3, <1>4, <1>5

\* Whoever removes the file, whoever else lost it by that is counted as robbed.
LEMMA Robbing ==
  ASSUME IInv, NEW p \in Procs, NEW when \in BOOLEAN,
         AtPath /\ ~when => \A q \in Procs : mine[q] = file.ino => q = p,
         NEW q \in Procs \ {p}
  PROVE  q \in robbed \cup Robs(p, when) \cup handed <=> mine[q] # 0
BY DEF IInv, Robs, AtPath, LosersLostTheirs, FilesAreOwn, TypeOK

\* A call that returns after it removed what stood at the path.
LEMMA RemovesAndReturns ==
  ASSUME IInv, NEW p \in Procs, Removal(p),
         pc' = [pc EXCEPT ![p] = "idle"] \/ pc' = [pc EXCEPT ![p] = "unlocked"],
         p \in alive, pc[p] \in Making
  PROVE  IInv'
<1> USE DEF IInv, Removal, Forget
<1>0. /\ pc' \in [Procs -> PCs] /\ pc'[p] \in {"idle", "unlocked"}
      /\ \A q \in Procs \ {p} : pc'[q] = pc[q] /\ sees'[q] = sees[q] /\ mine'[q] = mine[q]
      /\ sees' \in [Procs -> [ino : 0..FILES, token : BOOLEAN]]
      /\ mine' \in [Procs -> 0..FILES] /\ mine'[p] = 0
  <2>1. pc' \in [Procs -> PCs] /\ pc'[p] \in {"idle", "unlocked"} /\ \A q \in Procs \ {p} : pc'[q] = pc[q]
    BY DEF TypeOK, PCs
  <2>2. /\ \A q \in Procs \ {p} : sees'[q] = sees[q] /\ mine'[q] = mine[q]
        /\ sees' \in [Procs -> [ino : 0..FILES, token : BOOLEAN]]
        /\ mine' \in [Procs -> 0..FILES] /\ mine'[p] = 0
    BY LockAssumption DEF TypeOK, Nothing
  <2> QED
    BY <2>1, <2>2
<1>1. LosersLostTheirs'
  <2>1. AtPath /\ ~~Owns(p) => \A q \in Procs : mine[q] = file.ino => q = p
    BY DEF FilesAreOwn, Owns, AtPath
  <2>2. \A q \in Procs \ {p} : q \in robbed \cup Robs(p, ~Owns(p)) \cup handed <=> mine[q] # 0
    BY <2>1, Robbing DEF Owns, AtPath
  <2> QED
    BY <1>0, <2>2 DEF LosersLostTheirs, NoFile
<1>2. TypeOK'
  BY <1>0, LockAssumption DEF TypeOK, NoFile, Robs
<1>3. FilesAreOwn' /\ FilesNameTheirMaker'
  BY <1>0 DEF FilesAreOwn, FilesNameTheirMaker, Making, NoFile
<1>4. CorpsesStayCorpses'
  BY <1>0 DEF CorpsesStayCorpses, Seen, Judging, NoFile, TypeOK
<1>5. TheLateOutlastedIt'
  BY <1>0 DEF TheLateOutlastedIt, AtPath, NoFile, TypeOK
<1> QED
  BY <1>1, <1>2, <1>3, <1>4, <1>5

\* The runner takes the lock back, and the section goes on.
LEMMA HandsBack ==
  ASSUME IInv, NEW p \in Procs, HandBack(p)
  PROVE  IInv'
<1> USE DEF IInv, HandBack, Goto, judging
<1>0. /\ pc' \in [Procs -> PCs] /\ pc'[p] = "overrun" /\ pc[p] = "exit" /\ p \in alive
      /\ \A q \in Procs \ {p} : pc'[q] = pc[q]
  BY DEF TypeOK, PCs
<1>1. LosersLostTheirs'
  <2>1. AtPath /\ ~~Owns(p) => \A q \in Procs : mine[q] = file.ino => q = p
    BY DEF FilesAreOwn, Owns, AtPath
  <2>2. \A q \in Procs \ {p} : q \in robbed \cup Robs(p, ~Owns(p)) \cup handed <=> mine[q] # 0
    BY <2>1, Robbing DEF Owns, AtPath
  <2>3. mine[p] # 0
    BY <1>0 DEF FilesAreOwn, Making
  <2> QED
    BY <2>2, <2>3 DEF LosersLostTheirs, NoFile
<1>2. TypeOK'
  BY <1>0, LockAssumption DEF TypeOK, NoFile, Robs
<1>3. FilesAreOwn' /\ FilesNameTheirMaker'
  BY <1>0 DEF FilesAreOwn, FilesNameTheirMaker, Making, NoFile
<1>4. CorpsesStayCorpses'
  BY <1>0 DEF CorpsesStayCorpses, Seen, Judging, NoFile, TypeOK
<1>5. TheLateOutlastedIt'
  BY <1>0 DEF TheLateOutlastedIt, AtPath, NoFile, Waiting, Sweeping, TypeOK
<1> QED
  BY <1>1, <1>2, <1>3, <1>4, <1>5

\* The sweep's unlink.
LEMMA Sweeps ==
  ASSUME IInv, NEW p \in Procs, Unlink(p)
  PROVE  IInv'
<1> USE DEF IInv, Unlink, Goto
<1>0. /\ pc' \in [Procs -> PCs] /\ pc'[p] = "create" /\ pc[p] = "unlink"
      /\ \A q \in Procs \ {p} : pc'[q] = pc[q] /\ sees'[q] = sees[q]
      /\ sees' \in [Procs -> [ino : 0..FILES, token : BOOLEAN]]
  BY LockAssumption DEF TypeOK, Nothing, PCs, Waiting
<1>1. mine[p] = 0
  BY <1>0 DEF FilesAreOwn, Making
<1>2. LosersLostTheirs'
  <2> DEFINE when == Seen # sees[p] \/ Overdue(file)
  <2>1. AtPath /\ ~when => \A q \in Procs : mine[q] = file.ino => q = p
    <3> SUFFICES ASSUME AtPath, Seen = sees[p], ~Overdue(file) PROVE \A q \in Procs : mine[q] # file.ino
      OBVIOUS
    <3>1. Dead(file)
      BY <1>0 DEF CorpsesStayCorpses, Judging, Corpse
    <3> QED
      BY <3>1 DEF Dead, FilesAreOwn, FilesNameTheirMaker, AtPath
  <2>2. when \in BOOLEAN
    OBVIOUS
  <2>3. robbed' = robbed \cup Robs(p, when)
    OBVIOUS
  <2> HIDE DEF when
  <2>4. \A q \in Procs \ {p} : q \in robbed' \cup handed <=> mine[q] # 0
    BY <2>1, <2>2, <2>3, Robbing
  <2>5. p \notin robbed' \cup handed
    BY <1>1, <2>3 DEF LosersLostTheirs, Robs
  <2> QED
    BY <1>1, <2>4, <2>5 DEF LosersLostTheirs, NoFile
<1>3. TypeOK'
  BY <1>0, LockAssumption DEF TypeOK, NoFile, Robs
<1>4. FilesAreOwn' /\ FilesNameTheirMaker'
  BY <1>0 DEF FilesAreOwn, FilesNameTheirMaker, Making, NoFile
<1>5. CorpsesStayCorpses'
  BY <1>0 DEF CorpsesStayCorpses, Seen, Judging, NoFile, TypeOK
<1>6. TheLateOutlastedIt'
  BY <1>0 DEF TheLateOutlastedIt, AtPath, NoFile, Waiting, Sweeping, TypeOK
<1> QED
  BY <1>2, <1>3, <1>4, <1>5, <1>6

\* The exclusive create: a file nobody knows yet.
LEMMA Creates ==
  ASSUME IInv, NEW p \in Procs, Create(p)
  PROVE  IInv'
<1> USE DEF IInv, Create, Goto
<1>0. /\ Fresh \in 1..FILES /\ \A q \in Procs : Fresh \notin {mine[q], sees[q].ino}
      /\ file' = [ino |-> Fresh, token |-> FALSE, age |-> 0, by |-> {p}]
      /\ mine' = [mine EXCEPT ![p] = Fresh]
  BY DEF Fresh
<1>1. PICK i \in 1..FILES : /\ \A q \in Procs : i \notin {mine[q], sees[q].ino}
                            /\ file' = [ino |-> i, token |-> FALSE, age |-> 0, by |-> {p}]
                            /\ mine' = [mine EXCEPT ![p] = i]
  BY <1>0
<1>2. /\ pc' \in [Procs -> PCs] /\ pc'[p] = "publish" /\ pc[p] = "create" /\ p \in alive
      /\ \A q \in Procs \ {p} : pc'[q] = pc[q] /\ mine'[q] = mine[q]
      /\ mine' \in [Procs -> 0..FILES] /\ mine'[p] = i
      /\ file'.ino = i /\ ~file'.token /\ file'.by = {p} /\ i # 0 /\ file.ino = 0
  BY <1>1, LockAssumption DEF TypeOK, PCs, AtPath
<1>3. TypeOK'
  BY <1>1, <1>2 DEF TypeOK
<1>4. FilesAreOwn' /\ FilesNameTheirMaker'
  BY <1>1, <1>2 DEF FilesAreOwn, FilesNameTheirMaker, Making
<1>5. LosersLostTheirs'
  BY <1>1, <1>2 DEF LosersLostTheirs, FilesAreOwn, Making
<1>6. CorpsesStayCorpses'
  BY <1>1, <1>2 DEF CorpsesStayCorpses, Judging, Seen
<1>7. TheLateOutlastedIt'
  BY <1>2 DEF TheLateOutlastedIt
<1> QED
  BY <1>3, <1>4, <1>5, <1>6, <1>7

\* The token is written to the file this call made, if it still stands there.
LEMMA Publishes ==
  ASSUME IInv, NEW p \in Procs, Publish(p)
  PROVE  IInv'
<1> USE DEF IInv
<1>0. /\ pc' \in [Procs -> PCs] /\ pc'[p] = "held" /\ pc[p] = "publish" /\ p \in alive
      /\ \A q \in Procs \ {p} : pc'[q] = pc[q]
      /\ file' \in [ino : 0..FILES, token : BOOLEAN, age : 0..2, by : SUBSET Procs]
      /\ file'.ino = file.ino /\ file'.age = file.age /\ (file.token => file'.token)
      /\ file'.by = file.by
      /\ UNCHANGED <<mine, sees, stood, late, alive, robbed, handed, erred>>
      /\ file'.token = file.token => file' = file
  BY DEF Publish, Goto, judging, history, TypeOK, PCs
<1>1. TypeOK'
  BY <1>0 DEF TypeOK
<1>2. FilesAreOwn' /\ FilesNameTheirMaker' /\ LosersLostTheirs'
  BY <1>0 DEF FilesAreOwn, FilesNameTheirMaker, LosersLostTheirs, Making
<1>3. CorpsesStayCorpses'
  <2>1. ASSUME NEW q \in Procs, q \in alive, pc'[q] \in Judging
        PROVE  /\ sees[q].ino # 0
               /\ sees[q].ino = file'.ino /\ sees[q].token => file'.token
               /\ Seen' = sees[q] => Seen = sees[q] /\ file' = file
    <3>1. pc[q] \in Judging
      BY <1>0, <2>1 DEF Judging
    <3>2. sees[q].ino # 0 /\ (sees[q].ino = file.ino /\ sees[q].token => file.token)
      BY <2>1, <3>1 DEF CorpsesStayCorpses
    <3>3. ASSUME Seen' = sees[q] PROVE Seen = sees[q] /\ file' = file
      <4>1. sees[q].ino = file.ino /\ sees[q].token = file'.token
        <5>1. sees[q] = [ino |-> file'.ino, token |-> file'.token]
          BY <1>0, <3>3 DEF Seen
        <5>2. sees[q].ino = file'.ino /\ sees[q].token = file'.token
          BY <5>1
        <5> QED
          BY <1>0, <5>2
      <4>2. file'.token = file.token
        BY <1>0, <3>2, <4>1 DEF TypeOK
      <4> QED
        BY <1>0, <3>3, <4>2 DEF Seen
    <3> QED
      BY <1>0, <3>2, <3>3
  <2>2. ASSUME NEW q \in Procs, q \in alive, pc'[q] \in Judging, Seen' = sees[q]
        PROVE  Corpse(file)'
    <3>1. file' = file /\ Seen = sees[q] /\ pc[q] \in Judging
      BY <1>0, <2>1, <2>2 DEF Judging
    <3>2. Corpse(file)
      BY <2>2, <3>1 DEF CorpsesStayCorpses
    <3> QED
      BY <1>0, <3>1, <3>2 DEF Corpse, Overdue, Dead
  <2> QED
    BY <1>0, <2>1, <2>2 DEF CorpsesStayCorpses
<1>4. TheLateOutlastedIt'
  BY <1>0 DEF TheLateOutlastedIt, AtPath, Waiting, Sweeping, TypeOK
<1> QED
  BY <1>1, <1>2, <1>3, <1>4

\* The sweep judges the file a corpse.
LEMMA Looks ==
  ASSUME IInv, NEW p \in Procs, Look(p)
  PROVE  IInv'
<1> USE DEF IInv, Look, Goto, history
<1>0. /\ pc' \in [Procs -> PCs] /\ pc'[p] = "recheck" /\ pc[p] = "look"
      /\ \A q \in Procs \ {p} : pc'[q] = pc[q] /\ sees'[q] = sees[q]
      /\ sees'[p] = [ino |-> file.ino, token |-> file.token]
      /\ sees' \in [Procs -> [ino : 0..FILES, token : BOOLEAN]]
  BY DEF TypeOK, PCs, Waiting, Sweeping, Seen
<1>1. TypeOK'
  BY <1>0 DEF TypeOK
<1>2. FilesAreOwn' /\ FilesNameTheirMaker' /\ LosersLostTheirs'
  BY <1>0 DEF FilesAreOwn, FilesNameTheirMaker, LosersLostTheirs, Making
<1>3. CorpsesStayCorpses'
  BY <1>0 DEF CorpsesStayCorpses, Judging, Seen, Corpse, Overdue, Dead, AtPath
<1>4. TheLateOutlastedIt'
  BY <1>0 DEF TheLateOutlastedIt, AtPath, Waiting, Sweeping
<1> QED
  BY <1>1, <1>2, <1>3, <1>4

\* Time passes.
LEMMA Ages ==
  ASSUME IInv, Age \/ \E p \in Procs : Deadline(p)
  PROVE  IInv'
<1> USE DEF IInv, judging, history
<1>1. CASE Age
  <2>0. /\ file' \in [ino : 0..FILES, token : BOOLEAN, age : 0..2, by : SUBSET Procs]
        /\ file'.ino = file.ino /\ file'.token = file.token /\ file'.age = file.age + 1
        /\ file.age \in 0..1
        /\ file'.by = file.by
        /\ UNCHANGED <<pc, mine, sees, stood, late, alive, robbed, handed, erred>>
    BY <1>1 DEF Age, TypeOK
  <2>1. TypeOK' /\ FilesAreOwn' /\ FilesNameTheirMaker' /\ LosersLostTheirs' /\ TheLateOutlastedIt'
    BY <2>0 DEF TypeOK, FilesAreOwn, FilesNameTheirMaker, LosersLostTheirs, TheLateOutlastedIt, AtPath
  <2>2. CorpsesStayCorpses'
    BY <2>0 DEF CorpsesStayCorpses, Seen, Corpse, Overdue, Dead
  <2> QED
    BY <2>1, <2>2
<1>2. ASSUME NEW p \in Procs, Deadline(p) PROVE IInv'
  <2> USE <1>2 DEF Deadline
  <2>1. TypeOK' /\ FilesAreOwn' /\ FilesNameTheirMaker' /\ LosersLostTheirs'
    BY DEF TypeOK, FilesAreOwn, FilesNameTheirMaker, LosersLostTheirs
  <2>2. CorpsesStayCorpses' /\ TheLateOutlastedIt'
    BY DEF CorpsesStayCorpses, Seen, Corpse, Overdue, Dead, TheLateOutlastedIt, AtPath
  <2> QED
    BY <2>1, <2>2
<1> QED
  BY <1>1, <1>2

\* Every step keeps the invariant.
LEMMA StepIInv == IInv /\ [Next]_vars => IInv'
<1> SUFFICES ASSUME IInv, [Next]_vars PROVE IInv'
  OBVIOUS
<1>0. CASE UNCHANGED vars
  BY <1>0 DEF vars, IInv, TypeOK, FilesAreOwn, FilesNameTheirMaker, LosersLostTheirs, CorpsesStayCorpses,
         TheLateOutlastedIt, AtPath, Seen, Corpse, Overdue, Dead
<1>1. CASE Age \/ \E p \in Procs : Deadline(p)
  BY <1>1, Ages
<1>2. ASSUME NEW p \in Procs, Create(p) \/ Publish(p) \/ Look(p) \/ Unlink(p) PROVE IInv'
  BY <1>2, Creates, Publishes, Looks, Sweeps
<1>3. ASSUME NEW p \in Procs, Undo(p) \/ Remove(p) PROVE IInv'
  BY <1>3, RemovesAndReturns DEF Undo, Remove, Goto, Making
<1>4. ASSUME NEW p \in Procs, Crash(p) \/ HandBack(p) PROVE IInv'
  BY <1>4, Returns, HandsBack DEF Crash, PCs, Making, Waiting, Sweeping
<1>5. ASSUME NEW p \in Procs, NEW from \in PCs, NEW to \in {"idle", "unlocked"},
             Goto(p, from, to), Leaves(p)
      PROVE  IInv'
  BY <1>5, Returns DEF Leaves, Goto, PCs, Making, Waiting, Sweeping
<1>6. ASSUME NEW p \in Procs, NEW at \in Sweeping, Alive(p, at),
             erred' \in {erred, erred \cup {p}}
      PROVE  IInv'
  <2>1. CASE /\ Goto(p, at, "wait") /\ sees' = [sees EXCEPT ![p] = Nothing]
             /\ UNCHANGED <<mine, stood, late, handed>>
    <3>1. /\ at \in PCs /\ "wait" \in PCs /\ at \notin Making /\ "wait" \notin Making
          /\ "wait" \notin Judging /\ "wait" \in Waiting
      BY <1>6 DEF PCs, Making, Judging, Waiting, Sweeping
    <3>2. UNCHANGED <<file, mine, alive, robbed, handed, late>>
      BY <1>6, <2>1 DEF Alive
    <3> QED
      BY <1>6, <2>1, <3>1, <3>2, Moves
  <2>2. CASE Goto(p, at, "unlocked") /\ Forget(p)
    <3>1. robbed' = robbed \ {p}
      BY <1>6, <2>2 DEF Alive, Goto, IInv, LosersLostTheirs, FilesAreOwn, Making, Sweeping
    <3> QED
      BY <1>6, <2>2, <3>1, Returns DEF Alive, Goto, PCs, Making, Waiting, Sweeping
  <2> QED
    BY <1>6, <2>1, <2>2 DEF Alive
<1>7. ASSUME NEW p \in Procs, LookAlive(p) \/ RecheckFails(p) \/ UnlinkFails(p) \/ SweepFails(p)
      PROVE  IInv'
  BY <1>6, <1>7 DEF LookAlive, RecheckFails, UnlinkFails, SweepFails, Sweeping
<1>8. ASSUME NEW p \in Procs, \/ CreateFails(p) \/ PublishFailsRobbed(p) \/ UndoFails(p)
                             \/ ReleaseRobbed(p) \/ ReleaseFails(p)
      PROVE  IInv'
  BY <1>5, <1>8 DEF CreateFails, PublishFailsRobbed, UndoFails, ReleaseRobbed, ReleaseFails,
         PCs, Waiting
<1>9. ASSUME NEW p \in Procs,
             \/ Acquire(p) \/ PublishFails(p) \/ Exists(p) \/ Recheck(p) \/ Retry(p)
             \/ Release(p) \/ ReadToken(p) \/ Signal(p) \/ HandBackFails(p) \/ Unlocked(p)
      PROVE  IInv'
  <2> USE DEF PCs, Making, Judging, Waiting, Sweeping, judging, history
  <2>1. CASE Acquire(p)
    BY <2>1, Moves DEF Acquire, Goto
  <2>2. CASE PublishFails(p) \/ Exists(p) \/ Recheck(p)
    BY <2>2, Moves DEF PublishFails, Exists, Recheck
  <2>3. CASE Retry(p) \/ Release(p) \/ ReadToken(p)
    BY <2>3, Moves DEF Retry, Release, ReadToken
  <2>4. CASE Signal(p) \/ HandBackFails(p) \/ Unlocked(p)
    BY <2>4, Moves DEF Signal, HandBackFails, Unlocked
  <2> QED
    BY <1>9, <2>1, <2>2, <2>3, <2>4
<1> QED
  BY <1>0, <1>1, <1>2, <1>3, <1>4, <1>7, <1>8, <1>9 DEF Next, Step, Fault

\* The invariant holds in every reachable state.
THEOREM Invariance == Spec => []IInv
BY InitIInv, StepIInv, PTL DEF Spec

\* Every reachable state of the integration lock is well typed.
THEOREM Typing == Spec => []TypeOK
<1>1. IInv => TypeOK
  BY DEF IInv
<1> QED
  BY <1>1, Invariance, PTL

\* Two processes are in the section at a time only if one of them was robbed of the lock or
\* its runner took it back, for any number of processes (work-driver-lock.ts:62-72, 146-227,
\* stale-lock-sweep.ts:432).
THEOREM Exclusion == Spec => []ExclusiveUnlessLost
<1>1. IInv => ExclusiveUnlessLost
  BY DEF IInv, LosersLostTheirs, FilesAreOwn, Making, ExclusiveUnlessLost, InSection
<1> QED
  BY <1>1, Invariance, PTL

\* Who lost the lock finds its token gone and removes nothing (work-driver-lock.ts:156-175,
\* 246).
THEOREM LosersDoNotRob == Spec => LosersRemoveNothing
<1>1. IInv /\ [Next]_vars =>
        [\A p \in robbed \cup handed : pc'[p] \in {"exit", "remove"} => pc'[p] = pc[p]]_vars
  <2> SUFFICES ASSUME IInv, Next, NEW p \in Procs, p \in robbed \cup handed,
                      pc'[p] \in {"exit", "remove"}
               PROVE  pc'[p] = pc[p]
    BY DEF IInv, TypeOK
  <2>1. ~Owns(p)
    BY DEF IInv, LosersLostTheirs, Owns
  <2>2. PICK q \in Procs : Age \/ Acquire(q) \/ Step(q) \/ Fault(q) \/ Deadline(q)
    BY DEF Next
  <2>3. \/ pc' = pc
        \/ \E to \in PCs : pc' = [pc EXCEPT ![q] = to] /\ (to \in {"exit", "remove"} => Owns(q))
    BY <2>2 DEF Age, Deadline, Acquire, Step, Fault, Create, Publish, Undo, Exists, Look, LookAlive,
       Recheck, RecheckFails, Unlink, UnlinkFails, Retry, Release, ReadToken, ReleaseRobbed, Remove,
       HandBack, Unlocked, CreateFails, PublishFails, PublishFailsRobbed, UndoFails, SweepFails,
       ReleaseFails, Signal, HandBackFails, Crash, Alive, Goto, PCs, Waiting, Sweeping
  <2> QED
    BY <2>1, <2>3 DEF IInv, TypeOK
<1> QED
  BY <1>1, Invariance, PTL DEF Spec, LosersRemoveNothing

\* A waiter goes on unlocked past the file it found when it came only after an error of the
\* sweep or a token written between its two looks: otherwise the sweep convicts that file
\* first (work-driver-lock.ts:196-215, stale-lock-sweep.ts:319-326, 437-449).
THEOREM WaitersOutlast == Spec => WaitersOutlastWhomTheyFound
<1> DEFINE A(p) == pc[p] \in Sweeping /\ pc'[p] = "unlocked" /\ AtPath /\ p \in stood =>
                     p \in erred' \/ (pc[p] = "recheck" /\ Seen # sees[p])
<1>1. IInv /\ [Next]_vars => [\A p \in Procs : A(p)]_vars
  <2> SUFFICES ASSUME IInv, Next, NEW p \in Procs, pc[p] \in Sweeping, pc'[p] = "unlocked",
                      AtPath, p \in stood, p \notin erred'
               PROVE  pc[p] = "recheck" /\ Seen # sees[p]
    OBVIOUS
  <2>1. PICK q \in Procs : Age \/ Acquire(q) \/ Step(q) \/ Fault(q) \/ Deadline(q)
    BY DEF Next
  <2>2. LookAlive(p) \/ RecheckFails(p) \/ UnlinkFails(p) \/ SweepFails(p)
    BY <2>1 DEF Age, Deadline, Acquire, Step, Fault, Create, Publish, Undo, Exists, Look, LookAlive,
       Recheck, RecheckFails, Unlink, UnlinkFails, Retry, Release, ReadToken, ReleaseRobbed, Remove,
       HandBack, Unlocked, CreateFails, PublishFails, PublishFailsRobbed, UndoFails, SweepFails,
       ReleaseFails, Signal, HandBackFails, Crash, Alive, Goto, IInv, TypeOK, Sweeping
  <2>3. CASE LookAlive(p)
    <3>1. p \in late
      BY <2>3 DEF LookAlive, Alive, Goto, IInv, TypeOK
    <3>2. file.age = 2
      BY <3>1 DEF IInv, TheLateOutlastedIt
    <3> QED
      BY <2>3, <3>2 DEF LookAlive, Corpse, Overdue
  <2>4. CASE RecheckFails(p)
    BY <2>4 DEF RecheckFails, Alive, Goto
  <2>5. CASE UnlinkFails(p) \/ SweepFails(p)
    BY <2>5 DEF UnlinkFails, SweepFails
  <2> QED
    BY <2>2, <2>3, <2>4, <2>5
<1> QED
  BY <1>1, Invariance, PTL DEF Spec, WaitersOutlastWhomTheyFound
=============================================================================

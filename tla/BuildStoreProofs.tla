-------------------------- MODULE BuildStoreProofs --------------------------
(***************************************************************************)
(* What holds of the build store for every value of the constants.         *)
(***************************************************************************)
EXTENDS BuildStore, TLAPS

\* What a process holds in memory at the step it is about to take.
Placed ==
  /\ \A b \in Builders : pc[b] \in {"built", "swap", "gap"} => bld[b].tree \in Tree
  /\ \A c \in Checkers : pc[c] \in {"examine", "record"} => chk[c].id \in Ids
  /\ \A c \in Checkers : pc[c] = "examine" => chk[c].bytes \in Ids
  /\ \A c \in Checkers : pc[c] = "record" => chk[c].doc \in Contract
  /\ \A g \in Collectors : pc[g] \in {"pick", "erase", "remove"} => \A id \in col[g].todo : builds[id] # None
  /\ \A g \in Collectors : pc[g] \in {"erase", "remove"} =>
        col[g].victim \in Ids \ col[g].todo /\ builds[col[g].victim] # None

\* What rmtree leaves of a tree is still a tree.
LEMMA DamagedIsTree ==
  ASSUME NEW t \in Tree, NEW u \in Damaged(t)
  PROVE  /\ u \in Tree /\ u.contract \in {t.contract, None}
         /\ u.bytes \in {t.bytes, None} /\ u.exports \in {t.exports, None}
<1>1. 0 \in Nat
  BY SMT
<1>. QED  BY <1>1, Zenon DEF Damaged, Tree

\* BuildFinish leaves its builder with a whole tree.
LEMMA FinishedJob ==
  ASSUME TypeOK, NEW b \in Builders, BuildFinish(b)
  PROVE  /\ bld'[b] \in BuildJob /\ bld'[b].tree \in Tree
         /\ bld'[b].id = bld[b].id /\ bld'[b].tree.contract = None
         /\ \A y \in Builders \ {b} : bld'[y] = bld[y]
<1>. DEFINE t == [bytes |-> bld[b].code, exports |-> exports, built |-> clock',
                  db |-> TRUE, whole |-> TRUE, contract |-> None, pids |-> {}]
<1>1. bld[b] \in BuildJob
  BY SMT DEF TypeOK, JobTypes, JobsOfRunning, BuildFinish
<1>2. bld' = [bld EXCEPT ![b].tree = t]
  BY DEF BuildFinish
<1>3. clock' \in Nat
  BY SMT DEF BuildFinish, TypeOK, ControlTypes
<1>4. t \in Tree /\ t.contract = None
  BY <1>1, <1>3, SMT DEF Tree, BuildJob, TypeOK, ControlTypes
<1>. HIDE DEF t
<1>. QED  BY <1>1, <1>2, <1>4, SMT DEF BuildJob, TypeOK, JobTypes

\* BuildCarryOver gives the finished tree the contract of the old one or none.
LEMMA CarriedJob ==
  ASSUME TypeOK, Placed, NEW b \in Builders, BuildCarryOver(b)
  PROVE  /\ bld'[b] \in BuildJob /\ bld'[b].tree \in Tree
         /\ bld'[b].id = bld[b].id /\ builds[bld[b].id] # None
         /\ bld'[b].tree.contract \in {builds[bld[b].id].contract, None}
         /\ \A y \in Builders \ {b} : bld'[y] = bld[y]
<1>. DEFINE x == CarriedContract(builds[bld[b].id], bld[b].tree)
<1>1. bld[b] \in BuildJob /\ bld[b].tree \in Tree /\ builds[bld[b].id] # None
  BY SMT DEF TypeOK, JobTypes, JobsOfRunning, Placed, BuildCarryOver
<1>2. bld' = [bld EXCEPT ![b].tree.contract = x]
  BY DEF BuildCarryOver
<1>3. x \in {builds[bld[b].id].contract, None}
  BY DEF CarriedContract
<1>4. x \in Contract \cup {None}
  BY <1>1, <1>3, SMT DEF TypeOK, DiskTypes, BuildJob, Tree
<1>. HIDE DEF x
<1>. DEFINE t == [bld[b].tree EXCEPT !.contract = x]
<1>5. t \in Tree /\ t.contract = x
  BY <1>1, <1>4, SMT DEF Tree
<1>6. bld'[b] = [bld[b] EXCEPT !.tree = t] /\ \A y \in Builders \ {b} : bld'[y] = bld[y]
  BY <1>1, <1>2, SMT DEF TypeOK, JobTypes, BuildJob, Tree
<1>. HIDE DEF t
<1>. QED  BY <1>1, <1>3, <1>5, <1>6, SMT DEF BuildJob

\* CheckOpen notes a recorded build.
LEMMA OpenedJob ==
  ASSUME TypeOK, NEW c \in Checkers, CheckOpen(c)
  PROVE  /\ chk'[c] \in CheckJob /\ chk'[c].id \in Ids /\ chk'[c].bytes \in Ids /\ chk'[c].doc = chk[c].doc
         /\ \A y \in Checkers \ {c} : chk'[y] = chk[y]
<1>1. PICK id \in Ids :
        /\ Recorded(builds[id])
        /\ chk' = [chk EXCEPT ![c].id = id, ![c].bytes = builds[id].bytes, ![c].pinned = builds[id].exports,
                              ![c].fresh = (id = sources), ![c].sound = builds[id].whole]
  BY DEF CheckOpen
<1>2. builds[id] \in Tree /\ chk[c] \in CheckJob
  BY <1>1, SMT DEF TypeOK, DiskTypes, JobTypes, JobsOfRunning, Recorded, CheckOpen
<1>3. /\ chk'[c] = [chk[c] EXCEPT !.id = id, !.bytes = builds[id].bytes, !.pinned = builds[id].exports,
                                  !.fresh = (id = sources), !.sound = builds[id].whole]
      /\ \A y \in Checkers \ {c} : chk'[y] = chk[y]
  BY <1>1, SMT DEF TypeOK, JobTypes
<1>4. (id = sources) \in BOOLEAN
  OBVIOUS
<1>5. builds[id].bytes \in Ids /\ builds[id].exports \in Exports \cup {None} /\ builds[id].whole \in BOOLEAN
  BY <1>1, <1>2, SMT DEF Tree, Recorded
<1>6. chk'[c] \in CheckJob
  BY <1>2, <1>3, <1>4, <1>5, Zenon DEF CheckJob
<1>7. chk'[c].id = id /\ chk'[c].bytes = builds[id].bytes /\ chk'[c].doc = chk[c].doc
  BY <1>2, <1>3, Zenon DEF CheckJob
<1>. QED  BY <1>3, <1>5, <1>6, <1>7

\* CheckExamine leaves its checker with a document, and a strict pass in it is in `earned'.
LEMMA WrittenDoc ==
  ASSUME TypeOK, Placed, NEW c \in Checkers, CheckExamine(c)
  PROVE  /\ chk'[c] \in CheckJob /\ chk'[c].id = chk[c].id /\ chk'[c].doc \in Contract
         /\ chk'[c].doc.status = "pass" /\ chk'[c].doc.strict
              => <<chk'[c].id, chk'[c].doc.bytes, chk'[c].doc.exports>> \in earned'
         /\ \A y \in Checkers \ {c} : chk'[y] = chk[y]
<1>1. chk[c] \in CheckJob /\ chk[c].id \in Ids /\ chk[c].bytes \in Ids
  BY SMT DEF TypeOK, JobTypes, JobsOfRunning, Placed, CheckExamine
<1>2. PICK flaw \in BOOLEAN :
        /\ chk' = [chk EXCEPT ![c].doc = [status |-> IF Good(c) /\ ~flaw THEN "pass" ELSE "fail",
                                          strict |-> chk[c].strict, bytes |-> chk[c].bytes, exports |-> exports],
                              ![c].bytes = None, ![c].pinned = None, ![c].fresh = FALSE, ![c].sound = FALSE]
        /\ earned' = IF (Good(c) /\ ~flaw) /\ chk[c].strict
                       THEN earned \cup {<<chk[c].id, chk[c].bytes, exports>>} ELSE earned
  BY DEF CheckExamine
<1>. DEFINE d == [status |-> IF Good(c) /\ ~flaw THEN "pass" ELSE "fail",
                  strict |-> chk[c].strict, bytes |-> chk[c].bytes, exports |-> exports]
<1>3. d \in Contract /\ (d.status = "pass" => Good(c) /\ ~flaw) /\ d.strict = chk[c].strict
      /\ d.bytes = chk[c].bytes /\ d.exports = exports
  BY <1>1, SMT DEF Contract, CheckJob, TypeOK, ControlTypes
<1>4. /\ chk'[c] = [chk[c] EXCEPT !.doc = d, !.bytes = None, !.pinned = None, !.fresh = FALSE, !.sound = FALSE]
      /\ \A y \in Checkers \ {c} : chk'[y] = chk[y]
  BY <1>2, SMT DEF TypeOK, JobTypes
<1>. HIDE DEF d
<1>5. chk'[c] \in CheckJob
  BY <1>1, <1>3, <1>4, Zenon DEF CheckJob
<1>6. chk'[c].id = chk[c].id /\ chk'[c].doc = d
  BY <1>1, <1>4, Zenon DEF CheckJob
<1>7. d.status = "pass" /\ d.strict => <<chk[c].id, d.bytes, d.exports>> \in earned'
  BY <1>2, <1>3
<1>. QED  BY <1>3, <1>4, <1>5, <1>6, <1>7

\* A launcher changes pidfiles only, and a directory it makes again holds nothing else.
LEMMA SweptBuilds ==
  ASSUME TypeOK, NEW s \in Servers, ServeSweep(s) \/ ServePidfile(s)
  PROVE  /\ builds' \in [Ids -> Tree \cup {None}]
         /\ \A id \in Ids : builds[id] # None =>
              /\ builds'[id] # None /\ builds'[id].bytes = builds[id].bytes
              /\ builds'[id].exports = builds[id].exports /\ builds'[id].contract = builds[id].contract
              /\ builds'[id].built = builds[id].built /\ builds'[id].whole = builds[id].whole
         /\ \A id \in Ids : builds[id] = None /\ builds'[id] # None =>
              builds'[id].bytes = None /\ builds'[id].contract = None /\ builds'[id].built = 0
<1>0. srv[s] \in ServeJob /\ srv[s].id \in Ids
  BY SMT DEF TypeOK, JobTypes, JobsOfRunning, ServeSweep, ServePidfile, ServeJob
<1>1. ASSUME NEW id \in Ids, builds[id] # None, NEW pids \in SUBSET Servers
      PROVE  LET t == [builds[id] EXCEPT !.pids = pids] IN
             /\ t \in Tree /\ t.bytes = builds[id].bytes /\ t.exports = builds[id].exports
             /\ t.contract = builds[id].contract /\ t.built = builds[id].built /\ t.whole = builds[id].whole
  <2>1. builds[id] \in Tree
    BY <1>1, SMT DEF TypeOK, DiskTypes
  <2>. QED  BY <1>1, <2>1, Zenon DEF Tree
<1>2. \A id \in Ids : builds[id] # None => builds[id].pids \in SUBSET Servers
  BY SMT DEF TypeOK, DiskTypes, Tree
<1>3. CASE ServeSweep(s)
  <2>. DEFINE swept(id) == [builds[id] EXCEPT !.pids = LivePids(builds[id])]
  <2>1. ASSUME NEW id \in Ids, builds[id] # None
        PROVE  swept(id) \in Tree /\ swept(id).bytes = builds[id].bytes
               /\ swept(id).exports = builds[id].exports /\ swept(id).contract = builds[id].contract
               /\ swept(id).built = builds[id].built /\ swept(id).whole = builds[id].whole
    <3>1. LivePids(builds[id]) \in SUBSET Servers
      BY <1>2, <2>1 DEF LivePids
    <3>. QED  BY <1>1, <2>1, <3>1
  <2>2. Bare \in Tree /\ Bare.contract = None /\ Bare.bytes = None /\ Bare.built = 0
    BY SMT DEF Bare, Tree
  <2>3. builds' = [id \in Ids |-> IF builds[id] # None THEN swept(id) ELSE IF id = srv[s].id THEN Bare ELSE None]
    BY <1>3 DEF ServeSweep
  <2>. HIDE DEF swept
  <2>. QED  BY <2>1, <2>2, <2>3, NoneIsNothing, SMT
<1>4. CASE ServePidfile(s) /\ ~UNCHANGED builds
  <2>. DEFINE x == srv[s].id  t == [builds[x] EXCEPT !.pids = builds[x].pids \cup {s}]
  <2>1. builds[x] # None /\ builds' = [builds EXCEPT ![x] = t]
    BY <1>4 DEF ServePidfile
  <2>2. /\ t \in Tree /\ t.bytes = builds[x].bytes /\ t.exports = builds[x].exports
        /\ t.contract = builds[x].contract /\ t.built = builds[x].built /\ t.whole = builds[x].whole
    <3>1. builds[x].pids \cup {s} \in SUBSET Servers
      BY <1>0, <1>2, <2>1
    <3>. QED  BY <1>0, <1>1, <2>1, <3>1
  <2>. HIDE DEF t
  <2>. QED  BY <1>0, <2>1, <2>2, NoneIsNothing, SMT DEF TypeOK, DiskTypes
<1>5. CASE UNCHANGED builds
  BY <1>5, SMT DEF TypeOK, DiskTypes
<1>. QED  BY <1>3, <1>4, <1>5

\* Without its database a build is still there and records what it recorded.
LEMMA LostDatabase ==
  ASSUME TypeOK, LoseDatabase
  PROVE  /\ builds' \in [Ids -> Tree \cup {None}]
         /\ \A id \in Ids : builds[id] = None <=> builds'[id] = None
         /\ \A id \in Ids : builds[id] # None =>
              /\ builds'[id].bytes = builds[id].bytes /\ builds'[id].exports = builds[id].exports
              /\ builds'[id].contract = builds[id].contract
              /\ builds'[id].built = builds[id].built /\ builds'[id].whole = builds[id].whole
<1>1. PICK id \in Ids : builds[id] # None /\ builds' = [builds EXCEPT ![id].db = FALSE]
  BY DEF LoseDatabase
<1>2. builds[id] \in Tree
  BY <1>1, SMT DEF TypeOK, DiskTypes
<1>. DEFINE t == [builds[id] EXCEPT !.db = FALSE]
<1>3. /\ t \in Tree /\ t.bytes = builds[id].bytes /\ t.exports = builds[id].exports
      /\ t.contract = builds[id].contract /\ t.built = builds[id].built /\ t.whole = builds[id].whole
  BY <1>2, Zenon DEF Tree
<1>4. builds' = [builds EXCEPT ![id] = t] /\ builds[id] # None
  BY <1>1
<1>. HIDE DEF t
<1>. QED  BY <1>3, <1>4, NoneIsNothing, SMT DEF TypeOK, DiskTypes

\* Every step of a builder keeps the types.
LEMMA BuilderTypes ==
  ASSUME TypeOK, Placed, NEW b \in Builders, BuildStart(b) \/ BuildStep(b)
  PROVE  TypeOK'
<1>1. CASE BuildStart(b)
  <2>1. DiskTypes'
    BY <1>1, SMT DEF TypeOK, DiskTypes, BuildStart, Start, disk
  <2>2. ControlTypes'
    BY <1>1, SMT DEF TypeOK, ControlTypes, BuildStart, world, Goto, Inside, Waiting, Procs, Lockers, Start
  <2>3. JobTypes'
    BY <1>1, SMT DEF TypeOK, JobTypes, BuildStart, BuildJob, Start, ControlTypes
  <2>4. JobsOfRunning'
    BY <2>3, <1>1, SMT, RolesDisjoint, NoneIsNothing
    DEF TypeOK, JobsOfRunning, JobTypes, ControlTypes, BuildStart, Goto, Procs, Lockers, BuildJob, Start
  <2>. QED  BY <2>1, <2>2, <2>3, <2>4 DEF TypeOK
<1>2. CASE BuildLocked(b)
  <2>0. bld[b] \in BuildJob
    BY <1>2, SMT DEF TypeOK, JobTypes, JobsOfRunning, Placed, BuildLocked, Take
  <2>1. DiskTypes'
    BY <2>0, <1>2, SMT
    DEF TypeOK, DiskTypes, BuildLocked, ControlTypes, Take, RestoreOrphans, Picks, Orphans, BuildJob
  <2>2. ControlTypes'
    BY <2>0, <1>2, SMT
    DEF TypeOK, ControlTypes, BuildLocked, world, Goto, Inside, Waiting, Procs, Lockers, Take, bounds
  <2>3. JobTypes'
    BY <2>0, <1>2, SMT DEF TypeOK, JobTypes, BuildLocked, BuildJob, ControlTypes
  <2>4. JobsOfRunning'
    BY <2>0, <2>3, <1>2, SMT, RolesDisjoint, NoneIsNothing
    DEF TypeOK, JobsOfRunning, JobTypes, ControlTypes, BuildLocked, Goto, Procs, Lockers, BuildJob, Take
  <2>. QED  BY <2>1, <2>2, <2>3, <2>4 DEF TypeOK
<1>3. CASE BuildKeep(b)
  <2>0. bld[b] \in BuildJob
    BY <1>3, SMT DEF TypeOK, JobTypes, JobsOfRunning, Placed, BuildKeep
  <2>1. DiskTypes'
    BY <2>0, <1>3, SMT DEF TypeOK, DiskTypes, BuildKeep, ControlTypes, BuildJob, Tree
  <2>2. ControlTypes'
    BY <2>0, <1>3, SMT DEF TypeOK, ControlTypes, BuildKeep, world, Goto, Inside, Waiting, Procs, Lockers, bounds
  <2>3. JobTypes'
    BY <2>0, <1>3, SMT DEF TypeOK, JobTypes, BuildKeep, BuildJob, local
  <2>4. JobsOfRunning'
    BY <2>0, <2>3, <1>3, SMT, RolesDisjoint, NoneIsNothing
    DEF TypeOK, JobsOfRunning, JobTypes, ControlTypes, BuildKeep, Goto, Procs, Lockers, BuildJob, local
  <2>. QED  BY <2>1, <2>2, <2>3, <2>4 DEF TypeOK
<1>4. CASE BuildFinish(b)
  <2>0. bld[b] \in BuildJob
    BY <1>4, SMT DEF TypeOK, JobTypes, JobsOfRunning, Placed, BuildFinish
  <2>1. DiskTypes'
    BY <2>0, <1>4, SMT DEF TypeOK, DiskTypes, BuildFinish, disk
  <2>2. ControlTypes'
    BY <2>0, <1>4, SMT
    DEF TypeOK, ControlTypes, BuildFinish, world, Goto, Inside, Waiting, Procs, Lockers, bounds
  <2>3. bld'[b] \in BuildJob /\ \A y \in Builders \ {b} : bld'[y] = bld[y]
    BY <1>4, FinishedJob
  <2>4. JobTypes'
    BY <2>0, <2>3, <1>4, SMT DEF TypeOK, JobTypes, BuildFinish, Start, local
  <2>5. pc' = [pc EXCEPT ![b] = "built"] /\ UNCHANGED <<chk, prm, col, srv>>
    BY <1>4 DEF BuildFinish, Goto
  <2>6. JobsOfRunning'
    BY <2>3, <2>5, SMT, RolesDisjoint, NoneIsNothing
    DEF TypeOK, JobsOfRunning, JobTypes, ControlTypes, Procs, Lockers
  <2>. QED  BY <2>1, <2>2, <2>4, <2>6 DEF TypeOK
<1>5. CASE BuildInstall(b)
  <2>0. bld[b] \in BuildJob
    BY <1>5, SMT DEF TypeOK, JobTypes, JobsOfRunning, Placed, BuildInstall
  <2>1. DiskTypes'
    BY <2>0, <1>5, SMT DEF TypeOK, DiskTypes, BuildInstall, BuildJob
  <2>2. ControlTypes'
    BY <2>0, <1>5, SMT
    DEF TypeOK, ControlTypes, BuildInstall, world, Goto, Inside, Waiting, Procs, Lockers, bounds
  <2>3. JobTypes'
    BY <2>0, <1>5, SMT DEF TypeOK, JobTypes, BuildInstall, BuildJob, local
  <2>4. JobsOfRunning'
    BY <2>0, <2>3, <1>5, SMT, RolesDisjoint, NoneIsNothing
    DEF TypeOK, JobsOfRunning, JobTypes, ControlTypes, BuildInstall, Goto, Procs, Lockers, BuildJob, local
  <2>. QED  BY <2>1, <2>2, <2>3, <2>4 DEF TypeOK
<1>6. CASE BuildCarryOver(b)
  <2>0. bld[b] \in BuildJob /\ bld[b].tree \in Tree
    BY <1>6, SMT DEF TypeOK, JobTypes, JobsOfRunning, Placed, BuildCarryOver
  <2>1. DiskTypes'
    BY <2>0, <1>6, SMT DEF TypeOK, DiskTypes, BuildCarryOver, disk
  <2>2. ControlTypes'
    BY <2>0, <1>6, SMT
    DEF TypeOK, ControlTypes, BuildCarryOver, world, Goto, Inside, Waiting, Procs, Lockers, bounds
  <2>3. bld'[b] \in BuildJob /\ \A y \in Builders \ {b} : bld'[y] = bld[y]
    BY <1>6, CarriedJob
  <2>4. JobTypes'
    BY <2>0, <2>3, <1>6, SMT DEF TypeOK, JobTypes, BuildCarryOver, Start, local
  <2>5. pc' = [pc EXCEPT ![b] = "swap"] /\ UNCHANGED <<chk, prm, col, srv>>
    BY <1>6 DEF BuildCarryOver, Goto
  <2>6. JobsOfRunning'
    BY <2>3, <2>5, SMT, RolesDisjoint, NoneIsNothing
    DEF TypeOK, JobsOfRunning, JobTypes, ControlTypes, Procs, Lockers
  <2>. QED  BY <2>1, <2>2, <2>4, <2>6 DEF TypeOK
<1>7. CASE BuildExchange(b)
  <2>0. bld[b] \in BuildJob
    BY <1>7, SMT DEF TypeOK, JobTypes, JobsOfRunning, Placed, BuildExchange
  <2>1. DiskTypes'
    BY <2>0, <1>7, SMT DEF TypeOK, DiskTypes, BuildExchange, BuildJob
  <2>2. ControlTypes'
    BY <2>0, <1>7, SMT
    DEF TypeOK, ControlTypes, BuildExchange, world, Goto, Inside, Waiting, Procs, Lockers, bounds
  <2>3. JobTypes'
    BY <2>0, <1>7, SMT DEF TypeOK, JobTypes, BuildExchange, BuildJob, local
  <2>4. JobsOfRunning'
    BY <2>0, <2>3, <1>7, SMT, RolesDisjoint, NoneIsNothing
    DEF TypeOK, JobsOfRunning, JobTypes, ControlTypes, BuildExchange, Goto, Procs, Lockers, BuildJob, local
  <2>. QED  BY <2>1, <2>2, <2>3, <2>4 DEF TypeOK
<1>8. CASE BuildMoveOld(b)
  <2>0. bld[b] \in BuildJob
    BY <1>8, SMT DEF TypeOK, JobTypes, JobsOfRunning, Placed, BuildMoveOld
  <2>1. DiskTypes'
    BY <2>0, <1>8, SMT DEF TypeOK, DiskTypes, BuildMoveOld, BuildJob
  <2>2. ControlTypes'
    BY <2>0, <1>8, SMT
    DEF TypeOK, ControlTypes, BuildMoveOld, world, Goto, Inside, Waiting, Procs, Lockers, bounds
  <2>3. JobTypes'
    BY <2>0, <1>8, SMT DEF TypeOK, JobTypes, BuildMoveOld, BuildJob, local
  <2>4. JobsOfRunning'
    BY <2>0, <2>3, <1>8, SMT, RolesDisjoint, NoneIsNothing
    DEF TypeOK, JobsOfRunning, JobTypes, ControlTypes, BuildMoveOld, Goto, Procs, Lockers, BuildJob, local
  <2>. QED  BY <2>1, <2>2, <2>3, <2>4 DEF TypeOK
<1>9. CASE BuildMoveNew(b)
  <2>0. bld[b] \in BuildJob
    BY <1>9, SMT DEF TypeOK, JobTypes, JobsOfRunning, Placed, BuildMoveNew
  <2>1. DiskTypes'
    BY <2>0, <1>9, SMT DEF TypeOK, DiskTypes, BuildMoveNew, BuildJob
  <2>2. ControlTypes'
    BY <2>0, <1>9, SMT
    DEF TypeOK, ControlTypes, BuildMoveNew, world, Goto, Inside, Waiting, Procs, Lockers, bounds
  <2>3. JobTypes'
    BY <2>0, <1>9, SMT DEF TypeOK, JobTypes, BuildMoveNew, BuildJob, local
  <2>4. JobsOfRunning'
    BY <2>0, <2>3, <1>9, SMT, RolesDisjoint, NoneIsNothing
    DEF TypeOK, JobsOfRunning, JobTypes, ControlTypes, BuildMoveNew, Goto, Procs, Lockers, BuildJob, local
  <2>. QED  BY <2>1, <2>2, <2>3, <2>4 DEF TypeOK
<1>10. CASE BuildUndo(b)
  <2>0. bld[b] \in BuildJob
    BY <1>10, SMT DEF TypeOK, JobTypes, JobsOfRunning, Placed, BuildUndo
  <2>1. DiskTypes'
    BY <2>0, <1>10, SMT DEF TypeOK, DiskTypes, BuildUndo, BuildJob
  <2>2. ControlTypes'
    BY <2>0, <1>10, SMT
    DEF TypeOK, ControlTypes, BuildUndo, world, Goto, Inside, Waiting, Procs, Lockers, bounds, Release
  <2>3. JobTypes'
    BY <2>0, <1>10, SMT DEF TypeOK, JobTypes, BuildUndo, BuildJob
  <2>4. JobsOfRunning'
    BY <2>0, <2>3, <1>10, SMT, RolesDisjoint, NoneIsNothing
    DEF TypeOK, JobsOfRunning, JobTypes, ControlTypes, BuildUndo, Goto, Procs, Lockers, BuildJob, Release
  <2>. QED  BY <2>1, <2>2, <2>3, <2>4 DEF TypeOK
<1>11. CASE BuildDropOld(b)
  <2>0. bld[b] \in BuildJob
    BY <1>11, SMT DEF TypeOK, JobTypes, JobsOfRunning, Placed, BuildDropOld
  <2>1. DiskTypes'
    BY <2>0, <1>11, SMT DEF TypeOK, DiskTypes, BuildDropOld, BuildJob
  <2>2. ControlTypes'
    BY <2>0, <1>11, SMT
    DEF TypeOK, ControlTypes, BuildDropOld, world, Goto, Inside, Waiting, Procs, Lockers, bounds
  <2>3. JobTypes'
    BY <2>0, <1>11, SMT DEF TypeOK, JobTypes, BuildDropOld, BuildJob, local
  <2>4. JobsOfRunning'
    BY <2>0, <2>3, <1>11, SMT, RolesDisjoint, NoneIsNothing
    DEF TypeOK, JobsOfRunning, JobTypes, ControlTypes, BuildDropOld, Goto, Procs, Lockers, BuildJob, local
  <2>. QED  BY <2>1, <2>2, <2>3, <2>4 DEF TypeOK
<1>12. CASE BuildLink(b)
  <2>0. bld[b] \in BuildJob
    BY <1>12, SMT DEF TypeOK, JobTypes, JobsOfRunning, Placed, BuildLink
  <2>1. DiskTypes'
    BY <2>0, <1>12, SMT DEF TypeOK, DiskTypes, BuildLink, BuildJob
  <2>2. ControlTypes'
    BY <2>0, <1>12, SMT
    DEF TypeOK, ControlTypes, BuildLink, world, Goto, Inside, Waiting, Procs, Lockers, bounds, Release
  <2>3. JobTypes'
    BY <2>0, <1>12, SMT DEF TypeOK, JobTypes, BuildLink, BuildJob
  <2>4. JobsOfRunning'
    BY <2>0, <2>3, <1>12, SMT, RolesDisjoint, NoneIsNothing
    DEF TypeOK, JobsOfRunning, JobTypes, ControlTypes, BuildLink, Goto, Procs, Lockers, BuildJob
  <2>. QED  BY <2>1, <2>2, <2>3, <2>4 DEF TypeOK
<1>13. CASE BuildFail(b)
  <2>0. bld[b] \in BuildJob
    BY <1>13, SMT DEF TypeOK, JobTypes, JobsOfRunning, Placed, BuildFail
  <2>1. DiskTypes'
    BY <2>0, <1>13, SMT DEF TypeOK, DiskTypes, BuildFail, BuildJob
  <2>2. ControlTypes'
    BY <2>0, <1>13, SMT
    DEF TypeOK, ControlTypes, BuildFail, world, Goto, Inside, Waiting, Procs, Lockers, bounds, Release
  <2>3. JobTypes'
    BY <2>0, <1>13, SMT DEF TypeOK, JobTypes, BuildFail, BuildJob
  <2>4. JobsOfRunning'
    BY <2>0, <2>3, <1>13, SMT, RolesDisjoint, NoneIsNothing
    DEF TypeOK, JobsOfRunning, JobTypes, ControlTypes, BuildFail, Goto, Procs, Lockers, BuildJob
  <2>. QED  BY <2>1, <2>2, <2>3, <2>4 DEF TypeOK
<1>14. CASE BuildRead(b)
  <2>0. bld[b] \in BuildJob
    BY <1>14, SMT DEF TypeOK, JobTypes, JobsOfRunning, Placed, BuildRead
  <2>1. DiskTypes'
    BY <2>0, <1>14, SMT DEF TypeOK, DiskTypes, BuildRead, disk
  <2>2. ControlTypes'
    BY <2>0, <1>14, SMT DEF TypeOK, ControlTypes, BuildRead, world, Goto, Inside, Waiting, Procs, Lockers, bounds
  <2>3. JobTypes'
    BY <2>0, <1>14, SMT DEF TypeOK, JobTypes, BuildRead, BuildJob, ControlTypes
  <2>4. JobsOfRunning'
    BY <2>0, <2>3, <1>14, SMT, RolesDisjoint, NoneIsNothing
    DEF TypeOK, JobsOfRunning, JobTypes, ControlTypes, BuildRead, Goto, Procs, Lockers, BuildJob
  <2>. QED  BY <2>1, <2>2, <2>3, <2>4 DEF TypeOK
<1>. QED  BY <1>1, <1>2, <1>3, <1>4, <1>5, <1>6, <1>7, <1>8, <1>9, <1>10, <1>11, <1>12, <1>13, <1>14 DEF BuildStep

\* Every step of a promote keeps the types.
LEMMA PromoterTypes ==
  ASSUME TypeOK, Placed, NEW p \in Promoters, PromoteStart(p) \/ PromoteStep(p)
  PROVE  TypeOK'
<1>1. CASE PromoteStart(p)
  <2>1. DiskTypes'
    BY <1>1, SMT DEF TypeOK, DiskTypes, PromoteStart, Start, disk
  <2>2. ControlTypes'
    BY <1>1, SMT DEF TypeOK, ControlTypes, PromoteStart, world, Goto, Inside, Waiting, Procs, Lockers, Start
  <2>3. JobTypes'
    BY <1>1, SMT DEF TypeOK, JobTypes, PromoteStart, PromoteJob, Start, ControlTypes
  <2>4. JobsOfRunning'
    BY <2>3, <1>1, SMT, RolesDisjoint, NoneIsNothing
    DEF TypeOK, JobsOfRunning, JobTypes, ControlTypes, PromoteStart, Goto, Procs, Lockers, PromoteJob, Start
  <2>. QED  BY <2>1, <2>2, <2>3, <2>4 DEF TypeOK
<1>2. CASE PromoteLocked(p)
  <2>0. prm[p] \in PromoteJob
    BY <1>2, SMT DEF TypeOK, JobTypes, JobsOfRunning, Placed, PromoteLocked, Take
  <2>1. DiskTypes'
    BY <2>0, <1>2, SMT DEF TypeOK, DiskTypes, PromoteLocked, ControlTypes, Take, RestoreOrphans, Picks, Orphans
  <2>2. ControlTypes'
    BY <2>0, <1>2, SMT
    DEF TypeOK, ControlTypes, PromoteLocked, world, Goto, Inside, Waiting, Procs, Lockers, Take, bounds
  <2>3. JobTypes'
    BY <2>0, <1>2, SMT DEF TypeOK, JobTypes, PromoteLocked, PromoteJob, local
  <2>4. JobsOfRunning'
    BY <2>0, <2>3, <1>2, SMT, RolesDisjoint, NoneIsNothing
    DEF TypeOK, JobsOfRunning, JobTypes, ControlTypes, PromoteLocked, Goto, Procs, Lockers, PromoteJob, Take, local
  <2>. QED  BY <2>1, <2>2, <2>3, <2>4 DEF TypeOK
<1>3. CASE PromoteChoose(p)
  <2>0. prm[p] \in PromoteJob
    BY <1>3, SMT DEF TypeOK, JobTypes, JobsOfRunning, Placed, PromoteChoose
  <2>1. DiskTypes'
    BY <2>0, <1>3, SMT DEF TypeOK, DiskTypes, PromoteChoose, disk
  <2>2. ControlTypes'
    BY <2>0, <1>3, SMT
    DEF TypeOK, ControlTypes, PromoteChoose, world, Goto, Inside, Waiting, Procs, Lockers, bounds
  <2>3. JobTypes'
    BY <2>0, <1>3, SMT DEF TypeOK, JobTypes, PromoteChoose, PromoteJob
  <2>4. JobsOfRunning'
    BY <2>0, <2>3, <1>3, SMT, RolesDisjoint, NoneIsNothing
    DEF TypeOK, JobsOfRunning, JobTypes, ControlTypes, PromoteChoose, Goto, Procs, Lockers, PromoteJob
  <2>. QED  BY <2>1, <2>2, <2>3, <2>4 DEF TypeOK
<1>4. CASE PromoteRefuse(p)
  <2>0. prm[p] \in PromoteJob
    BY <1>4, SMT DEF TypeOK, JobTypes, JobsOfRunning, Placed, PromoteRefuse
  <2>1. DiskTypes'
    BY <2>0, <1>4, SMT DEF TypeOK, DiskTypes, PromoteRefuse, disk
  <2>2. ControlTypes'
    BY <2>0, <1>4, SMT
    DEF TypeOK, ControlTypes, PromoteRefuse, world, Goto, Inside, Waiting, Procs, Lockers, bounds, Release
  <2>3. JobTypes'
    BY <2>0, <1>4, SMT DEF TypeOK, JobTypes, PromoteRefuse, PromoteJob
  <2>4. JobsOfRunning'
    BY <2>0, <2>3, <1>4, SMT, RolesDisjoint, NoneIsNothing
    DEF TypeOK, JobsOfRunning, JobTypes, ControlTypes, PromoteRefuse, Goto, Procs, Lockers, PromoteJob
  <2>. QED  BY <2>1, <2>2, <2>3, <2>4 DEF TypeOK
<1>5. CASE PromoteLink(p)
  <2>0. prm[p] \in PromoteJob
    BY <1>5, SMT DEF TypeOK, JobTypes, JobsOfRunning, Placed, PromoteLink
  <2>1. DiskTypes'
    BY <2>0, <1>5, SMT DEF TypeOK, DiskTypes, PromoteLink, PromoteJob
  <2>2. ControlTypes'
    BY <2>0, <1>5, SMT
    DEF TypeOK, ControlTypes, PromoteLink, world, Goto, Inside, Waiting, Procs, Lockers, bounds, Release
  <2>3. JobTypes'
    BY <2>0, <1>5, SMT DEF TypeOK, JobTypes, PromoteLink, PromoteJob
  <2>4. JobsOfRunning'
    BY <2>0, <2>3, <1>5, SMT, RolesDisjoint, NoneIsNothing
    DEF TypeOK, JobsOfRunning, JobTypes, ControlTypes, PromoteLink, Goto, Procs, Lockers, PromoteJob
  <2>. QED  BY <2>1, <2>2, <2>3, <2>4 DEF TypeOK
<1>. QED  BY <1>1, <1>2, <1>3, <1>4, <1>5 DEF PromoteStep

\* Every step of a gc keeps the types; what rmtree leaves of a tree is still a tree.
LEMMA CollectorTypes ==
  ASSUME TypeOK, Placed, NEW g \in Collectors, GcStart(g) \/ GcStep(g)
  PROVE  TypeOK'
<1>1. CASE GcStart(g)
  <2>1. DiskTypes'
    BY <1>1, SMT DEF TypeOK, DiskTypes, GcStart, Start, disk
  <2>2. ControlTypes'
    BY <1>1, SMT DEF TypeOK, ControlTypes, GcStart, world, Goto, Inside, Waiting, Procs, Lockers, Start
  <2>3. JobTypes'
    BY <1>1, SMT DEF TypeOK, JobTypes, GcStart, CollectJob, Start, ControlTypes
  <2>4. JobsOfRunning'
    BY <2>3, <1>1, SMT, RolesDisjoint, NoneIsNothing
    DEF TypeOK, JobsOfRunning, JobTypes, ControlTypes, GcStart, Goto, Procs, Lockers, CollectJob, Start
  <2>. QED  BY <2>1, <2>2, <2>3, <2>4 DEF TypeOK
<1>2. CASE GcLocked(g)
  <2>0. col[g] \in CollectJob
    BY <1>2, SMT DEF TypeOK, JobTypes, JobsOfRunning, Placed, GcLocked, Take
  <2>1. DiskTypes'
    BY <2>0, <1>2, SMT DEF TypeOK, DiskTypes, GcLocked, ControlTypes, Take, RestoreOrphans, Picks, Orphans
  <2>2. ControlTypes'
    BY <2>0, <1>2, SMT
    DEF TypeOK, ControlTypes, GcLocked, world, Goto, Inside, Waiting, Procs, Lockers, Take, bounds
  <2>3. col'[g] \in CollectJob /\ \A y \in Collectors \ {g} : col'[y] = col[y]
    <3>1. LinkTarget(current) \in Ids \cup {None}
      BY DEF LinkTarget, TypeOK, DiskTypes
    <3>2. col' = [col EXCEPT ![g].current = LinkTarget(current)]
      BY <1>2 DEF GcLocked
    <3>. QED  BY <2>0, <3>1, <3>2, SMT DEF TypeOK, JobTypes, CollectJob
  <2>4. JobTypes'
    BY <2>0, <2>3, <1>2, SMT DEF TypeOK, JobTypes, GcLocked, Start, local
  <2>5. JobsOfRunning'
    BY <2>0, <2>3, <2>4, <1>2, SMT, RolesDisjoint, NoneIsNothing
    DEF TypeOK, JobsOfRunning, JobTypes, ControlTypes, GcLocked, Start, Take, Goto, Procs, Lockers
  <2>. QED  BY <2>1, <2>2, <2>4, <2>5 DEF TypeOK
<1>3. CASE GcScan(g)
  <2>0. col[g] \in CollectJob
    BY <1>3, SMT DEF TypeOK, JobTypes, JobsOfRunning, Placed, GcScan
  <2>1. DiskTypes'
    BY <2>0, <1>3, SMT DEF TypeOK, DiskTypes, GcScan, disk
  <2>2. ControlTypes'
    BY <2>0, <1>3, SMT DEF TypeOK, ControlTypes, GcScan, world, Goto, Inside, Waiting, Procs, Lockers, bounds
  <2>3. col'[g] \in CollectJob /\ \A y \in Collectors \ {g} : col'[y] = col[y]
    <3>. DEFINE l == LinkTarget(latest)
    <3>1. PICK kept \in Newest(Keep) : col' = [col EXCEPT ![g].latest = l, ![g].todo = Stored \ kept]
      BY <1>3 DEF GcScan
    <3>. DEFINE t == Stored \ kept
    <3>2. col' = [col EXCEPT ![g].latest = l, ![g].todo = t] 
      BY <3>1
    <3>4. l \in Ids \cup {None} /\ t \in SUBSET Ids
      BY DEF LinkTarget, Stored, TypeOK, DiskTypes
    <3>. HIDE DEF l, t
    <3>3. /\ col'[g] = [col[g] EXCEPT !.latest = l, !.todo = t]
          /\ \A y \in Collectors \ {g} : col'[y] = col[y]
      BY <3>2, SMT DEF TypeOK, JobTypes
    <3>. QED  BY <2>0, <3>4, <3>3, Zenon DEF CollectJob
  <2>4. JobTypes'
    BY <2>0, <2>3, <1>3, SMT DEF TypeOK, JobTypes, GcScan, Start, local
  <2>5. pc' = [pc EXCEPT ![g] = "pick"] /\ UNCHANGED <<bld, chk, prm, srv>>
    BY <1>3 DEF GcScan, Goto
  <2>6. JobsOfRunning'
    BY <2>3, <2>5, SMT, RolesDisjoint, NoneIsNothing
    DEF TypeOK, JobsOfRunning, JobTypes, ControlTypes, Procs, Lockers
  <2>. QED  BY <2>1, <2>2, <2>4, <2>6 DEF TypeOK
<1>4. CASE GcPick(g)
  <2>0. col[g] \in CollectJob
    BY <1>4, SMT DEF TypeOK, JobTypes, JobsOfRunning, Placed, GcPick
  <2>1. DiskTypes'
    BY <2>0, <1>4, SMT DEF TypeOK, DiskTypes, GcPick, disk
  <2>2. ControlTypes'
    BY <2>0, <1>4, SMT DEF TypeOK, ControlTypes, GcPick, world, Goto, Inside, Waiting, Procs, Lockers, bounds
  <2>3. JobTypes'
    BY <2>0, <1>4, SMT DEF TypeOK, JobTypes, GcPick, CollectJob
  <2>4. JobsOfRunning'
    BY <2>0, <2>3, <1>4, SMT, RolesDisjoint, NoneIsNothing
    DEF TypeOK, JobsOfRunning, JobTypes, ControlTypes, GcPick, Goto, Procs, Lockers, CollectJob
  <2>. QED  BY <2>1, <2>2, <2>3, <2>4 DEF TypeOK
<1>5. CASE GcErase(g)
  <2>0. col[g] \in CollectJob /\ col[g].victim \in Ids /\ builds[col[g].victim] # None
    BY <1>5, SMT DEF TypeOK, JobTypes, JobsOfRunning, Placed, GcErase
  <2>1. DiskTypes'
    BY <2>0, <1>5, SMT, DamagedIsTree DEF TypeOK, DiskTypes, GcErase
  <2>2. ControlTypes'
    BY <2>0, <1>5, SMT DEF TypeOK, ControlTypes, GcErase, world, Goto, Inside, Waiting, Procs, Lockers, bounds
  <2>3. JobTypes'
    BY <2>0, <1>5, SMT DEF TypeOK, JobTypes, GcErase, CollectJob, local
  <2>4. JobsOfRunning'
    BY <2>0, <2>3, <1>5, SMT, RolesDisjoint, NoneIsNothing
    DEF TypeOK, JobsOfRunning, JobTypes, ControlTypes, GcErase, Goto, Procs, Lockers, CollectJob, local
  <2>. QED  BY <2>1, <2>2, <2>3, <2>4 DEF TypeOK
<1>6. CASE GcRemove(g)
  <2>0. col[g] \in CollectJob /\ col[g].victim \in Ids
    BY <1>6, SMT DEF TypeOK, JobTypes, JobsOfRunning, Placed, GcRemove
  <2>1. DiskTypes'
    BY <2>0, <1>6, SMT DEF TypeOK, DiskTypes, GcRemove
  <2>2. ControlTypes'
    BY <2>0, <1>6, SMT DEF TypeOK, ControlTypes, GcRemove, world, Goto, Inside, Waiting, Procs, Lockers, bounds
  <2>3. JobTypes'
    BY <2>0, <1>6, SMT DEF TypeOK, JobTypes, GcRemove, CollectJob
  <2>4. JobsOfRunning'
    BY <2>0, <2>3, <1>6, SMT, RolesDisjoint, NoneIsNothing
    DEF TypeOK, JobsOfRunning, JobTypes, ControlTypes, GcRemove, Goto, Procs, Lockers, CollectJob
  <2>. QED  BY <2>1, <2>2, <2>3, <2>4 DEF TypeOK
<1>7. CASE GcSweep(g)
  <2>0. col[g] \in CollectJob
    BY <1>7, SMT DEF TypeOK, JobTypes, JobsOfRunning, Placed, GcSweep
  <2>1. DiskTypes'
    BY <2>0, <1>7, SMT DEF TypeOK, DiskTypes, GcSweep
  <2>2. ControlTypes'
    BY <2>0, <1>7, SMT
    DEF TypeOK, ControlTypes, GcSweep, world, Goto, Inside, Waiting, Procs, Lockers, bounds, Release
  <2>3. JobTypes'
    BY <2>0, <1>7, SMT DEF TypeOK, JobTypes, GcSweep, CollectJob
  <2>4. JobsOfRunning'
    BY <2>0, <2>3, <1>7, SMT, RolesDisjoint, NoneIsNothing
    DEF TypeOK, JobsOfRunning, JobTypes, ControlTypes, GcSweep, Goto, Procs, Lockers, CollectJob
  <2>. QED  BY <2>1, <2>2, <2>3, <2>4 DEF TypeOK
<1>. QED  BY <1>1, <1>2, <1>3, <1>4, <1>5, <1>6, <1>7 DEF GcStep

\* Every step of a check keeps the types.
LEMMA CheckerTypes ==
  ASSUME TypeOK, Placed, NEW c \in Checkers, CheckStart(c) \/ CheckStep(c)
  PROVE  TypeOK'
<1>1. CASE CheckStart(c)
  <2>1. DiskTypes'
    BY <1>1, SMT DEF TypeOK, DiskTypes, CheckStart, Start, disk
  <2>2. ControlTypes'
    BY <1>1, SMT DEF TypeOK, ControlTypes, CheckStart, world, Goto, Inside, Waiting, Procs, Lockers, Start
  <2>3. chk'[c] \in CheckJob /\ \A y \in Checkers \ {c} : chk'[y] = chk[y]
    BY <1>1, SMT DEF TypeOK, JobTypes, CheckStart, CheckJob, ControlTypes, Start
  <2>4. JobTypes'
    BY <2>3, <1>1, SMT DEF TypeOK, JobTypes, CheckStart, Start, local
  <2>5. pc' = [pc EXCEPT ![c] = "open"] /\ UNCHANGED <<bld, prm, col, srv>>
    BY <1>1 DEF CheckStart, Goto, Start
  <2>6. JobsOfRunning'
    BY <2>3, <2>5, SMT, RolesDisjoint, NoneIsNothing
    DEF TypeOK, JobsOfRunning, JobTypes, ControlTypes, Procs, Lockers
  <2>. QED  BY <2>1, <2>2, <2>4, <2>6 DEF TypeOK
<1>2. CASE CheckOpen(c)
  <2>0. chk[c] \in CheckJob
    BY <1>2, SMT DEF TypeOK, JobTypes, JobsOfRunning, Placed, CheckOpen
  <2>1. DiskTypes'
    BY <2>0, <1>2, SMT DEF TypeOK, DiskTypes, CheckOpen, disk
  <2>2. ControlTypes'
    BY <2>0, <1>2, SMT DEF TypeOK, ControlTypes, CheckOpen, world, Goto, Inside, Waiting, Procs, Lockers, bounds
  <2>3. chk'[c] \in CheckJob /\ \A y \in Checkers \ {c} : chk'[y] = chk[y]
    BY <1>2, OpenedJob
  <2>4. JobTypes'
    BY <2>0, <2>3, <1>2, SMT DEF TypeOK, JobTypes, CheckOpen, Start, local
  <2>5. pc' = [pc EXCEPT ![c] = "examine"] /\ UNCHANGED <<bld, prm, col, srv>>
    BY <1>2 DEF CheckOpen, Goto
  <2>6. JobsOfRunning'
    BY <2>3, <2>5, SMT, RolesDisjoint, NoneIsNothing
    DEF TypeOK, JobsOfRunning, JobTypes, ControlTypes, Procs, Lockers
  <2>. QED  BY <2>1, <2>2, <2>4, <2>6 DEF TypeOK
<1>3. CASE CheckExamine(c)
  <2>0. chk[c] \in CheckJob /\ chk[c].id \in Ids /\ chk[c].bytes \in Ids
    BY <1>3, SMT DEF TypeOK, JobTypes, JobsOfRunning, Placed, CheckExamine
  <2>1. DiskTypes'
    BY <2>0, <1>3, SMT DEF TypeOK, DiskTypes, CheckExamine, disk
  <2>2. ControlTypes'
    BY <2>0, <1>3, SMT
    DEF TypeOK, ControlTypes, CheckExamine, world, Goto, Inside, Waiting, Procs, Lockers, bounds, CheckJob
  <2>3. chk'[c] \in CheckJob /\ \A y \in Checkers \ {c} : chk'[y] = chk[y]
    BY <1>3, WrittenDoc
  <2>4. JobTypes'
    BY <2>0, <2>3, <1>3, SMT DEF TypeOK, JobTypes, CheckExamine, Start, local
  <2>5. pc' = [pc EXCEPT ![c] = "record"] /\ UNCHANGED <<bld, prm, col, srv>>
    BY <1>3 DEF CheckExamine, Goto
  <2>6. JobsOfRunning'
    BY <2>3, <2>5, SMT, RolesDisjoint, NoneIsNothing
    DEF TypeOK, JobsOfRunning, JobTypes, ControlTypes, Procs, Lockers
  <2>. QED  BY <2>1, <2>2, <2>4, <2>6 DEF TypeOK
<1>4. CASE CheckRecord(c)
  <2>0. chk[c] \in CheckJob /\ chk[c].id \in Ids /\ chk[c].doc \in Contract
    BY <1>4, SMT DEF TypeOK, JobTypes, JobsOfRunning, Placed, CheckRecord
  <2>1. DiskTypes'
    BY <2>0, <1>4, SMT DEF TypeOK, DiskTypes, CheckRecord, SameBuild, Recorded, Tree
  <2>2. ControlTypes'
    BY <2>0, <1>4, SMT
    DEF TypeOK, ControlTypes, CheckRecord, world, Goto, Inside, Waiting, Procs, Lockers, bounds
  <2>3. JobTypes'
    BY <2>0, <1>4, SMT DEF TypeOK, JobTypes, CheckRecord, CheckJob
  <2>4. JobsOfRunning'
    BY <2>0, <2>3, <1>4, SMT, RolesDisjoint, NoneIsNothing
    DEF TypeOK, JobsOfRunning, JobTypes, ControlTypes, CheckRecord, Goto, Procs, Lockers, CheckJob
  <2>. QED  BY <2>1, <2>2, <2>3, <2>4 DEF TypeOK
<1>5. CASE CheckAbort(c)
  <2>0. chk[c] \in CheckJob
    BY <1>5, SMT DEF TypeOK, JobTypes, JobsOfRunning, Placed, CheckAbort
  <2>1. DiskTypes'
    BY <2>0, <1>5, SMT DEF TypeOK, DiskTypes, CheckAbort, disk
  <2>2. ControlTypes'
    BY <2>0, <1>5, SMT
    DEF TypeOK, ControlTypes, CheckAbort, world, Goto, Inside, Waiting, Procs, Lockers, bounds
  <2>3. JobTypes'
    BY <2>0, <1>5, SMT DEF TypeOK, JobTypes, CheckAbort, CheckJob
  <2>4. JobsOfRunning'
    BY <2>0, <2>3, <1>5, SMT, RolesDisjoint, NoneIsNothing
    DEF TypeOK, JobsOfRunning, JobTypes, ControlTypes, CheckAbort, Goto, Procs, Lockers, CheckJob
  <2>. QED  BY <2>1, <2>2, <2>3, <2>4 DEF TypeOK
<1>. QED  BY <1>1, <1>2, <1>3, <1>4, <1>5 DEF CheckStep

\* Every step of a launcher or server keeps the types; a directory made again is a tree without a manifest.
LEMMA ServerTypes ==
  ASSUME TypeOK, Placed, NEW s \in Servers, ServeResolve(s) \/ ServeStep(s)
  PROVE  TypeOK'
<1>1. CASE ServeResolve(s)
  <2>1. DiskTypes'
    BY <1>1, SMT DEF TypeOK, DiskTypes, ServeResolve, Start, disk
  <2>2. ControlTypes'
    BY <1>1, SMT DEF TypeOK, ControlTypes, ServeResolve, world, Goto, Inside, Waiting, Procs, Lockers, Start
  <2>3. JobTypes'
    BY <1>1, SMT DEF TypeOK, JobTypes, ServeResolve, ServeJob, Start, DiskTypes
  <2>4. JobsOfRunning'
    BY <2>3, <1>1, SMT, RolesDisjoint, NoneIsNothing
    DEF TypeOK, JobsOfRunning, JobTypes, ControlTypes, ServeResolve, Goto, Procs, Lockers, ServeJob, Start
  <2>. QED  BY <2>1, <2>2, <2>3, <2>4 DEF TypeOK
<1>2. CASE ServeSweep(s) \/ ServePidfile(s)
  <2>0. srv[s] \in ServeJob
    BY <1>2, SMT DEF TypeOK, JobTypes, JobsOfRunning, Placed, ServeSweep, ServePidfile
  <2>1. DiskTypes'
    BY <1>2, SweptBuilds DEF TypeOK, DiskTypes, ServeSweep, ServePidfile
  <2>2. ControlTypes'
    BY <2>0, <1>2, SMT
    DEF TypeOK, ControlTypes, ServeSweep, ServePidfile, world, Goto, Inside, Waiting, Procs, Lockers, bounds
  <2>3. JobTypes'
    BY <2>0, <1>2, SMT DEF TypeOK, JobTypes, ServeSweep, ServePidfile, ServeJob, local
  <2>4. JobsOfRunning'
    BY <2>0, <2>3, <1>2, SMT, RolesDisjoint, NoneIsNothing
    DEF TypeOK, JobsOfRunning, JobTypes, ControlTypes, ServeSweep, ServePidfile, Goto, Procs, Lockers, ServeJob, local
  <2>. QED  BY <2>1, <2>2, <2>3, <2>4 DEF TypeOK
<1>3. CASE ServeOpen(s)
  <2>0. srv[s] \in ServeJob
    BY <1>3, SMT DEF TypeOK, JobTypes, JobsOfRunning, Placed, ServeOpen
  <2>1. DiskTypes'
    BY <2>0, <1>3, SMT DEF TypeOK, DiskTypes, ServeOpen, disk
  <2>2. ControlTypes'
    BY <2>0, <1>3, SMT DEF TypeOK, ControlTypes, ServeOpen, world, Goto, Inside, Waiting, Procs, Lockers, bounds
  <2>3. srv'[s] \in ServeJob /\ \A y \in Servers \ {s} : srv'[y] = srv[y]
    BY <2>0, <1>3, SMT DEF TypeOK, JobTypes, ServeOpen, ServeJob, DiskTypes, Servable, Recorded, Tree
  <2>4. JobTypes'
    BY <2>0, <2>3, <1>3, SMT DEF TypeOK, JobTypes, ServeOpen, Start, local
  <2>5. JobsOfRunning'
    BY <2>0, <2>3, <2>4, <1>3, SMT, RolesDisjoint, NoneIsNothing
    DEF TypeOK, JobsOfRunning, JobTypes, ControlTypes, ServeOpen, Start, Take, Goto, Procs, Lockers
  <2>. QED  BY <2>1, <2>2, <2>4, <2>5 DEF TypeOK
<1>4. CASE ServeStop(s)
  <2>0. srv[s] \in ServeJob
    BY <1>4, SMT DEF TypeOK, JobTypes, JobsOfRunning, Placed, ServeStop
  <2>1. DiskTypes'
    BY <2>0, <1>4, SMT DEF TypeOK, DiskTypes, ServeStop, disk
  <2>2. ControlTypes'
    BY <2>0, <1>4, SMT DEF TypeOK, ControlTypes, ServeStop, world, Goto, Inside, Waiting, Procs, Lockers, bounds
  <2>3. JobTypes'
    BY <2>0, <1>4, SMT DEF TypeOK, JobTypes, ServeStop, ServeJob
  <2>4. JobsOfRunning'
    BY <2>0, <2>3, <1>4, SMT, RolesDisjoint, NoneIsNothing
    DEF TypeOK, JobsOfRunning, JobTypes, ControlTypes, ServeStop, Goto, Procs, Lockers, ServeJob
  <2>. QED  BY <2>1, <2>2, <2>3, <2>4 DEF TypeOK
<1>. QED  BY <1>1, <1>2, <1>3, <1>4 DEF ServeStep


\* The surroundings, the crashes and the rmtrees keep the types.
LEMMA SurroundingTypes ==
  ASSUME TypeOK,
         \/ \E p \in Builders \cup Collectors, d \in Ids \X Builders : Erode(p, d)
         \/ \E p \in Procs : LockTimeout(p) \/ Crash(p)
         \/ EditSources \/ EditExports \/ LoseDatabase
  PROVE  TypeOK'
<1>1. ASSUME NEW p \in Builders \cup Collectors, NEW d \in Ids \X Builders, Erode(p, d)
      PROVE  TypeOK'
  <2>1. PICK t \in Damaged(trash[d]) : trash' = [trash EXCEPT ![d] = t]
    BY <1>1 DEF Erode
  <2>2. trash[d] \in Tree
    BY <1>1, SMT DEF TypeOK, DiskTypes, Erode
  <2>3. t \in Tree
    BY <2>2, DamagedIsTree
  <2>4. DiskTypes'
    BY <2>1, <2>3, <1>1, SMT DEF TypeOK, DiskTypes, Erode
  <2>5. ControlTypes' /\ JobTypes' /\ JobsOfRunning'
    BY <1>1, SMT DEF TypeOK, ControlTypes, JobTypes, JobsOfRunning, Erode, world, local, bounds
  <2>. QED  BY <2>4, <2>5 DEF TypeOK
<1>2. ASSUME NEW p \in Procs, LockTimeout(p)
      PROVE  TypeOK'
  <2>1. DiskTypes' /\ ControlTypes' /\ JobTypes'
    BY <1>2, SMT DEF TypeOK, DiskTypes, ControlTypes, JobTypes, LockTimeout, Forget, Goto, disk, world, bounds
  <2>2. JobsOfRunning'
    BY <1>2, SMT DEF TypeOK, JobsOfRunning, ControlTypes, LockTimeout, Forget, Goto, Procs, Lockers
  <2>. QED  BY <2>1, <2>2 DEF TypeOK
<1>3. ASSUME NEW p \in Procs, Crash(p)
      PROVE  TypeOK'
  <2>1. DiskTypes' /\ ControlTypes' /\ JobTypes'
    BY <1>3, SMT DEF TypeOK, DiskTypes, ControlTypes, JobTypes, Crash, Forget, Release, Goto, disk, world
  <2>2. JobsOfRunning'
    BY <1>3, SMT DEF TypeOK, JobsOfRunning, ControlTypes, Crash, Forget, Goto, Procs, Lockers
  <2>. QED  BY <2>1, <2>2 DEF TypeOK
<1>4. ASSUME EditSources \/ EditExports
      PROVE  TypeOK'
  <2>1. DiskTypes'
    BY <1>4, SMT DEF TypeOK, DiskTypes, EditSources, EditExports, Edit
  <2>2. ControlTypes' /\ JobTypes' /\ JobsOfRunning'
    BY <1>4, SMT DEF TypeOK, ControlTypes, JobTypes, JobsOfRunning, EditSources, EditExports, Edit, local
  <2>. QED  BY <2>1, <2>2 DEF TypeOK
<1>5. ASSUME LoseDatabase
      PROVE  TypeOK'
  <2>1. UNCHANGED <<tmp, trash, current, latest>>
    BY <1>5 DEF LoseDatabase, Edit
  <2>2. DiskTypes'
    BY <1>5, <2>1, LostDatabase DEF TypeOK, DiskTypes
  <2>3. ControlTypes' /\ JobTypes' /\ JobsOfRunning'
    BY <1>5, SMT DEF TypeOK, ControlTypes, JobTypes, JobsOfRunning, LoseDatabase, Edit, world, local
  <2>. QED  BY <2>2, <2>3 DEF TypeOK
<1>. QED  BY <1>1, <1>2, <1>3, <1>4, <1>5

\* A builder is inside exactly between taking and releasing the lock.
LEMMA BuilderLocks ==
  ASSUME TypeOK, MutualExclusion, NEW b \in Builders, BuildStart(b) \/ BuildStep(b)
  PROVE  MutualExclusion'
<1>. USE DEF MutualExclusion, TypeOK, ControlTypes, Procs, Lockers, Inside, Goto
<1>1. CASE BuildStart(b)
  BY <1>1, SMT DEF BuildStart, Start
<1>2. CASE BuildLocked(b)
  BY <1>2, SMT, NoneIsNothing DEF BuildLocked, Take
<1>3. CASE BuildKeep(b)
  BY <1>3, SMT DEF BuildKeep
<1>4. CASE BuildFinish(b)
  BY <1>4, SMT DEF BuildFinish
<1>5. CASE BuildInstall(b)
  BY <1>5, SMT DEF BuildInstall
<1>6. CASE BuildCarryOver(b)
  BY <1>6, SMT DEF BuildCarryOver
<1>7. CASE BuildExchange(b)
  BY <1>7, SMT DEF BuildExchange
<1>8. CASE BuildMoveOld(b)
  BY <1>8, SMT DEF BuildMoveOld
<1>9. CASE BuildMoveNew(b)
  BY <1>9, SMT DEF BuildMoveNew
<1>10. CASE BuildUndo(b)
  BY <1>10, SMT, NoneIsNothing DEF BuildUndo, Release
<1>11. CASE BuildDropOld(b)
  BY <1>11, SMT DEF BuildDropOld
<1>12. CASE BuildLink(b)
  BY <1>12, SMT, NoneIsNothing DEF BuildLink, Release
<1>13. CASE BuildFail(b)
  BY <1>13, SMT, NoneIsNothing DEF BuildFail, Release
<1>14. CASE BuildRead(b)
  BY <1>14, SMT DEF BuildRead
<1>. QED  BY <1>1, <1>2, <1>3, <1>4, <1>5, <1>6, <1>7, <1>8, <1>9, <1>10, <1>11, <1>12, <1>13, <1>14 DEF BuildStep

\* A promoter is inside exactly between taking and releasing the lock.
LEMMA PromoterLocks ==
  ASSUME TypeOK, MutualExclusion, NEW p \in Promoters, PromoteStart(p) \/ PromoteStep(p)
  PROVE  MutualExclusion'
<1>. USE DEF MutualExclusion, TypeOK, ControlTypes, Procs, Lockers, Inside, Goto
<1>1. CASE PromoteStart(p)
  BY <1>1, SMT DEF PromoteStart, Start
<1>2. CASE PromoteLocked(p)
  BY <1>2, SMT, NoneIsNothing DEF PromoteLocked, Take
<1>3. CASE PromoteChoose(p)
  BY <1>3, SMT DEF PromoteChoose
<1>4. CASE PromoteRefuse(p)
  BY <1>4, SMT, NoneIsNothing DEF PromoteRefuse, Release
<1>5. CASE PromoteLink(p)
  BY <1>5, SMT, NoneIsNothing DEF PromoteLink, Release
<1>. QED  BY <1>1, <1>2, <1>3, <1>4, <1>5 DEF PromoteStep

\* A collector is inside exactly between taking and releasing the lock.
LEMMA CollectorLocks ==
  ASSUME TypeOK, MutualExclusion, NEW g \in Collectors, GcStart(g) \/ GcStep(g)
  PROVE  MutualExclusion'
<1>. USE DEF MutualExclusion, TypeOK, ControlTypes, Procs, Lockers, Inside, Goto
<1>1. CASE GcStart(g)
  BY <1>1, SMT DEF GcStart, Start
<1>2. CASE GcLocked(g)
  BY <1>2, SMT, NoneIsNothing DEF GcLocked, Take
<1>3. CASE GcScan(g)
  BY <1>3, SMT DEF GcScan
<1>4. CASE GcPick(g)
  BY <1>4, SMT DEF GcPick
<1>5. CASE GcErase(g)
  BY <1>5, SMT DEF GcErase
<1>6. CASE GcRemove(g)
  BY <1>6, SMT DEF GcRemove
<1>7. CASE GcSweep(g)
  BY <1>7, SMT, NoneIsNothing DEF GcSweep, Release
<1>. QED  BY <1>1, <1>2, <1>3, <1>4, <1>5, <1>6, <1>7 DEF GcStep

\* A checker never holds the lock across a step.
LEMMA CheckerLocks ==
  ASSUME TypeOK, MutualExclusion, NEW c \in Checkers, CheckStart(c) \/ CheckStep(c)
  PROVE  MutualExclusion'
<1>. USE DEF MutualExclusion, TypeOK, ControlTypes, Procs, Lockers, Inside, Goto
<1>1. CASE CheckStart(c)
  BY <1>1, SMT DEF CheckStart, Start
<1>2. CASE CheckOpen(c)
  BY <1>2, SMT DEF CheckOpen
<1>3. CASE CheckExamine(c)
  BY <1>3, SMT DEF CheckExamine
<1>4. CASE CheckRecord(c)
  BY <1>4, SMT DEF CheckRecord
<1>5. CASE CheckAbort(c)
  BY <1>5, SMT DEF CheckAbort
<1>. QED  BY <1>1, <1>2, <1>3, <1>4, <1>5 DEF CheckStep

\* A server never holds the lock across a step.
LEMMA ServerLocks ==
  ASSUME TypeOK, MutualExclusion, NEW s \in Servers, ServeResolve(s) \/ ServeStep(s)
  PROVE  MutualExclusion'
<1>. USE DEF MutualExclusion, TypeOK, ControlTypes, Procs, Lockers, Inside, Goto
<1>1. CASE ServeResolve(s)
  BY <1>1, SMT DEF ServeResolve, Start
<1>2. CASE ServeSweep(s) \/ ServePidfile(s)
  BY <1>2, SMT DEF ServeSweep, ServePidfile
<1>3. CASE ServeOpen(s)
  BY <1>3, SMT DEF ServeOpen
<1>4. CASE ServeStop(s)
  BY <1>4, SMT DEF ServeStop
<1>. QED  BY <1>1, <1>2, <1>3, <1>4 DEF ServeStep

\* A timeout ends a process that waits; a crash ends any process and takes its lock with it.
LEMMA SurroundingLocks ==
  ASSUME TypeOK, MutualExclusion,
         \/ \E p \in Builders \cup Collectors, d \in Ids \X Builders : Erode(p, d)
         \/ \E p \in Procs : LockTimeout(p) \/ Crash(p)
         \/ EditSources \/ EditExports \/ LoseDatabase
  PROVE  MutualExclusion'
<1>1. ASSUME NEW p \in Builders \cup Collectors, NEW d \in Ids \X Builders, Erode(p, d)
      PROVE  MutualExclusion'
  BY <1>1, SMT DEF MutualExclusion, Erode
<1>2. ASSUME NEW p \in Procs, LockTimeout(p)
      PROVE  MutualExclusion'
  BY <1>2, SMT DEF MutualExclusion, TypeOK, ControlTypes, LockTimeout, Goto, Inside, Waiting
<1>3. ASSUME NEW p \in Procs, Crash(p)
      PROVE  MutualExclusion'
  BY <1>3, SMT, NoneIsNothing DEF MutualExclusion, TypeOK, ControlTypes, Crash, Release, Goto, Inside
<1>4. ASSUME EditSources \/ EditExports \/ LoseDatabase
      PROVE  MutualExclusion'
  BY <1>4, SMT DEF MutualExclusion, EditSources, EditExports, LoseDatabase, Edit
<1>. QED  BY <1>1, <1>2, <1>3, <1>4

\* A builder's step leaves every process with what it needs for its next one.
LEMMA BuilderPlaced ==
  ASSUME TypeOK, TypeOK', MutualExclusion, Placed, NEW b \in Builders, BuildStart(b) \/ BuildStep(b)
  PROVE  Placed'
<1>. USE DEF TypeOK, ControlTypes, Procs, Lockers, Inside, Goto, Placed
<1>1. CASE BuildStart(b)
  BY <1>1, SMT, RolesDisjoint, NoneIsNothing
  DEF BuildStart, Start, JobTypes, DiskTypes, MutualExclusion, disk, local
<1>2. CASE BuildLocked(b)
  BY <1>2, SMT, RolesDisjoint, NoneIsNothing
  DEF BuildLocked, Take, RestoreOrphans, Picks, Orphans, JobTypes, DiskTypes, MutualExclusion, disk, local
<1>3. CASE BuildKeep(b)
  BY <1>3, SMT, RolesDisjoint, NoneIsNothing DEF BuildKeep, JobTypes, DiskTypes, MutualExclusion, disk, local
<1>4. CASE BuildFinish(b)
  <2>1. bld'[b].tree \in Tree /\ \A y \in Builders \ {b} : bld'[y] = bld[y]
    BY <1>4, FinishedJob
  <2>2. pc' = [pc EXCEPT ![b] = "built"] /\ UNCHANGED <<builds, chk, col>>
    BY <1>4 DEF BuildFinish, disk
  <2>. QED  BY <2>1, <2>2, SMT, RolesDisjoint
<1>5. CASE BuildInstall(b)
  BY <1>5, SMT, RolesDisjoint, NoneIsNothing DEF BuildInstall, JobTypes, DiskTypes, MutualExclusion, disk, local
<1>6. CASE BuildCarryOver(b)
  <2>1. bld'[b].tree \in Tree /\ \A y \in Builders \ {b} : bld'[y] = bld[y]
    BY <1>6, CarriedJob
  <2>2. pc' = [pc EXCEPT ![b] = "swap"] /\ UNCHANGED <<builds, chk, col>>
    BY <1>6 DEF BuildCarryOver, disk
  <2>. QED  BY <2>1, <2>2, SMT, RolesDisjoint
<1>7. CASE BuildExchange(b)
  BY <1>7, SMT, RolesDisjoint, NoneIsNothing
  DEF BuildExchange, JobTypes, DiskTypes, MutualExclusion, disk, local
<1>8. CASE BuildMoveOld(b)
  BY <1>8, SMT, RolesDisjoint, NoneIsNothing DEF BuildMoveOld, JobTypes, DiskTypes, MutualExclusion, disk, local
<1>9. CASE BuildMoveNew(b)
  BY <1>9, SMT, RolesDisjoint, NoneIsNothing DEF BuildMoveNew, JobTypes, DiskTypes, MutualExclusion, disk, local
<1>10. CASE BuildUndo(b)
  BY <1>10, SMT, RolesDisjoint, NoneIsNothing DEF BuildUndo, JobTypes, DiskTypes, MutualExclusion, disk, local
<1>11. CASE BuildDropOld(b)
  BY <1>11, SMT, RolesDisjoint, NoneIsNothing
  DEF BuildDropOld, JobTypes, DiskTypes, MutualExclusion, disk, local
<1>12. CASE BuildLink(b)
  BY <1>12, SMT, RolesDisjoint, NoneIsNothing DEF BuildLink, JobTypes, DiskTypes, MutualExclusion, disk, local
<1>13. CASE BuildFail(b)
  BY <1>13, SMT, RolesDisjoint, NoneIsNothing DEF BuildFail, JobTypes, DiskTypes, MutualExclusion, disk, local
<1>14. CASE BuildRead(b)
  BY <1>14, SMT, RolesDisjoint, NoneIsNothing DEF BuildRead, JobTypes, DiskTypes, MutualExclusion, disk
<1>. QED  BY <1>1, <1>2, <1>3, <1>4, <1>5, <1>6, <1>7, <1>8, <1>9, <1>10, <1>11, <1>12, <1>13, <1>14 DEF BuildStep

\* A promoter's step leaves every process with what it needs for its next one.
LEMMA PromoterPlaced ==
  ASSUME TypeOK, TypeOK', MutualExclusion, Placed, NEW p \in Promoters, PromoteStart(p) \/ PromoteStep(p)
  PROVE  Placed'
<1>. USE DEF TypeOK, ControlTypes, Procs, Lockers, Inside, Goto, Placed
<1>1. CASE PromoteStart(p)
  BY <1>1, SMT, RolesDisjoint, NoneIsNothing
  DEF PromoteStart, Start, JobTypes, DiskTypes, MutualExclusion, disk, local
<1>2. CASE PromoteLocked(p)
  BY <1>2, SMT, RolesDisjoint, NoneIsNothing
  DEF PromoteLocked, Take, RestoreOrphans, Picks, Orphans, JobTypes, DiskTypes, MutualExclusion, disk, local
<1>3. CASE PromoteChoose(p)
  BY <1>3, SMT, RolesDisjoint, NoneIsNothing
  DEF PromoteChoose, JobTypes, DiskTypes, MutualExclusion, disk, local
<1>4. CASE PromoteRefuse(p)
  BY <1>4, SMT, RolesDisjoint, NoneIsNothing
  DEF PromoteRefuse, JobTypes, DiskTypes, MutualExclusion, disk, local
<1>5. CASE PromoteLink(p)
  BY <1>5, SMT, RolesDisjoint, NoneIsNothing DEF PromoteLink, JobTypes, DiskTypes, MutualExclusion, disk, local
<1>. QED  BY <1>1, <1>2, <1>3, <1>4, <1>5 DEF PromoteStep

\* A collector's step leaves every process with what it needs for its next one.
LEMMA CollectorPlaced ==
  ASSUME TypeOK, TypeOK', MutualExclusion, Placed, NEW g \in Collectors, GcStart(g) \/ GcStep(g)
  PROVE  Placed'
<1>. USE DEF TypeOK, ControlTypes, Procs, Lockers, Inside, Goto, Placed
<1>1. CASE GcStart(g)
  BY <1>1, SMT, RolesDisjoint, NoneIsNothing
  DEF GcStart, Start, JobTypes, DiskTypes, MutualExclusion, disk, local
<1>2. CASE GcLocked(g)
  BY <1>2, SMT, RolesDisjoint, NoneIsNothing
  DEF GcLocked, Take, RestoreOrphans, Picks, Orphans, JobTypes, DiskTypes, MutualExclusion, disk, local
<1>3. CASE GcScan(g)
  <2>1. PICK kept \in Newest(Keep) :
          col' = [col EXCEPT ![g].latest = LinkTarget(latest), ![g].todo = Stored \ kept]
    BY <1>3 DEF GcScan
  <2>2. \A id \in Stored : builds[id] # None
    BY DEF Stored
  <2>3. /\ col'[g].todo = Stored \ kept /\ \A y \in Collectors \ {g} : col'[y] = col[y]
        /\ pc' = [pc EXCEPT ![g] = "pick"] /\ UNCHANGED <<builds, bld, chk>>
    <3>1. col \in [Collectors -> CollectJob \cup {None}] /\ col[g] \in CollectJob
      BY <1>3, SMT DEF JobTypes, JobsOfRunning, GcScan
    <3>. QED  BY <1>3, <2>1, <3>1, SMT DEF GcScan, disk, CollectJob
  <2>. QED  BY <2>2, <2>3, SMT, RolesDisjoint, NoneIsNothing
<1>4. CASE GcPick(g)
  <2>1. PICK id \in col[g].todo :
          IF Held(g, id)
            THEN /\ col' = [col EXCEPT ![g].todo = @ \ {id}]
                 /\ UNCHANGED pc
            ELSE /\ col' = [col EXCEPT ![g].todo = @ \ {id}, ![g].victim = id]
                 /\ pc' = [pc EXCEPT ![g] = "erase"]
    BY <1>4 DEF GcPick
  <2>2. pc[g] = "pick" /\ col[g] \in CollectJob /\ UNCHANGED <<builds, bld, chk>>
    BY <1>4, SMT DEF GcPick, disk, JobTypes, JobsOfRunning
  <2>3. id \in Ids
    BY <2>1, <2>2, SMT DEF CollectJob
  <2>4. CASE Held(g, id)
    <3>1. /\ UNCHANGED pc /\ col'[g].victim = col[g].victim /\ col'[g].todo = col[g].todo \ {id}
          /\ \A y \in Collectors \ {g} : col'[y] = col[y]
      BY <2>1, <2>2, <2>4, SMT DEF JobTypes, CollectJob
    <3>. QED  BY <2>2, <3>1, SMT, RolesDisjoint
  <2>5. CASE ~Held(g, id)
    <3>1. /\ pc' = [pc EXCEPT ![g] = "erase"]
          /\ col'[g].victim = id /\ col'[g].todo = col[g].todo \ {id}
          /\ \A y \in Collectors \ {g} : col'[y] = col[y]
      BY <2>1, <2>2, <2>5, SMT DEF JobTypes, CollectJob
    <3>2. builds[id] # None /\ \A i \in col'[g].todo : builds[i] # None
      BY <2>1, <2>2, <3>1
    <3>. QED  BY <2>2, <2>3, <3>1, <3>2, SMT, RolesDisjoint
  <2>. QED  BY <2>4, <2>5
<1>5. CASE GcErase(g)
  <2>1. PICK t \in Damaged(builds[col[g].victim]) : builds' = [builds EXCEPT ![col[g].victim] = t]
    BY <1>5 DEF GcErase
  <2>2. /\ pc[g] = "erase" /\ pc' = [pc EXCEPT ![g] = "remove"] /\ UNCHANGED <<bld, chk, col>>
        /\ col[g].victim \in Ids /\ builds[col[g].victim] \in Tree
    BY <1>5, SMT DEF GcErase, local, DiskTypes
  <2>3. t # None
    BY <2>2, DamagedIsTree, NoneIsNothing
  <2>. QED  BY <2>1, <2>2, <2>3, SMT, RolesDisjoint DEF DiskTypes
<1>6. CASE GcRemove(g)
  BY <1>6, SMT, RolesDisjoint, NoneIsNothing DEF GcRemove, JobTypes, DiskTypes, MutualExclusion, disk, local
<1>7. CASE GcSweep(g)
  BY <1>7, SMT, RolesDisjoint, NoneIsNothing DEF GcSweep, JobTypes, DiskTypes, MutualExclusion, disk, local
<1>. QED  BY <1>1, <1>2, <1>3, <1>4, <1>5, <1>6, <1>7 DEF GcStep

\* A checker's step leaves every process with what it needs for its next one.
LEMMA CheckerPlaced ==
  ASSUME TypeOK, TypeOK', MutualExclusion, Placed, NEW c \in Checkers, CheckStart(c) \/ CheckStep(c)
  PROVE  Placed'
<1>. USE DEF TypeOK, ControlTypes, Procs, Lockers, Inside, Goto, Placed
<1>1. CASE CheckStart(c)
  BY <1>1, SMT, RolesDisjoint, NoneIsNothing
  DEF CheckStart, Start, JobTypes, DiskTypes, MutualExclusion, disk, local
<1>2. CASE CheckOpen(c)
  <2>1. chk'[c].id \in Ids /\ chk'[c].bytes \in Ids /\ \A y \in Checkers \ {c} : chk'[y] = chk[y]
    BY <1>2, OpenedJob
  <2>2. pc' = [pc EXCEPT ![c] = "examine"] /\ UNCHANGED <<builds, bld, col>>
    BY <1>2 DEF CheckOpen, disk
  <2>. QED  BY <2>1, <2>2, SMT, RolesDisjoint
<1>3. CASE CheckExamine(c)
  <2>1. chk'[c].id = chk[c].id /\ chk'[c].doc \in Contract /\ \A y \in Checkers \ {c} : chk'[y] = chk[y]
    BY <1>3, WrittenDoc
  <2>2. pc[c] = "examine" /\ pc' = [pc EXCEPT ![c] = "record"] /\ UNCHANGED <<builds, bld, col>>
    BY <1>3 DEF CheckExamine, disk
  <2>. QED  BY <2>1, <2>2, SMT, RolesDisjoint
<1>4. CASE CheckRecord(c)
  BY <1>4, SMT, RolesDisjoint, NoneIsNothing DEF CheckRecord, JobTypes, DiskTypes, MutualExclusion, disk, local
<1>5. CASE CheckAbort(c)
  BY <1>5, SMT, RolesDisjoint, NoneIsNothing DEF CheckAbort, JobTypes, DiskTypes, MutualExclusion, disk, local
<1>. QED  BY <1>1, <1>2, <1>3, <1>4, <1>5 DEF CheckStep

\* A server's step leaves every process with what it needs for its next one.
LEMMA ServerPlaced ==
  ASSUME TypeOK, TypeOK', MutualExclusion, Placed, NEW s \in Servers, ServeResolve(s) \/ ServeStep(s)
  PROVE  Placed'
<1>. USE DEF TypeOK, ControlTypes, Procs, Lockers, Inside, Goto, Placed
<1>1. CASE ServeResolve(s)
  BY <1>1, SMT, RolesDisjoint, NoneIsNothing
  DEF ServeResolve, Start, JobTypes, DiskTypes, MutualExclusion, disk, local
<1>2. CASE ServeSweep(s) \/ ServePidfile(s)
  <2>1. \A id \in Ids : builds[id] # None => builds'[id] # None
    BY <1>2, SweptBuilds
  <2>2. pc' \in {[pc EXCEPT ![s] = l] : l \in {"swept", "starting"}} /\ UNCHANGED <<bld, chk, col>>
    BY <1>2 DEF ServeSweep, ServePidfile, local
  <2>3. \A g \in Collectors : pc[g] # "idle" => col[g].todo \subseteq Ids
    BY SMT DEF JobTypes, JobsOfRunning, CollectJob
  <2>. QED  BY <2>1, <2>2, <2>3, SMT, RolesDisjoint
<1>3. CASE ServeOpen(s)
  BY <1>3, SMT, RolesDisjoint, NoneIsNothing DEF ServeOpen, JobTypes, DiskTypes, MutualExclusion, disk, local
<1>4. CASE ServeStop(s)
  BY <1>4, SMT, RolesDisjoint, NoneIsNothing DEF ServeStop, JobTypes, DiskTypes, MutualExclusion, disk, local
<1>. QED  BY <1>1, <1>2, <1>3, <1>4 DEF ServeStep

\* A crash, a timeout or an edit takes nothing from a process that goes on.
LEMMA SurroundingPlaced ==
  ASSUME TypeOK, TypeOK', MutualExclusion, Placed,
         \/ \E p \in Builders \cup Collectors, d \in Ids \X Builders : Erode(p, d)
         \/ \E p \in Procs : LockTimeout(p) \/ Crash(p)
         \/ EditSources \/ EditExports \/ LoseDatabase
  PROVE  Placed'
<1>. USE DEF Placed
<1>1. ASSUME NEW p \in Builders \cup Collectors, NEW d \in Ids \X Builders, Erode(p, d)
      PROVE  Placed'
  BY <1>1, SMT DEF Erode, local
<1>2. ASSUME NEW p \in Procs, LockTimeout(p) \/ Crash(p)
      PROVE  Placed'
  <2>1. pc' = [pc EXCEPT ![p] = "idle"] /\ UNCHANGED builds
    BY <1>2 DEF LockTimeout, Crash, Goto, disk
  <2>2. /\ \A b \in Builders : b # p => bld'[b] = bld[b]
        /\ \A c \in Checkers : c # p => chk'[c] = chk[c]
        /\ \A g \in Collectors : g # p => col'[g] = col[g]
    BY <1>2, SMT DEF LockTimeout, Crash, Forget
  <2>. QED  BY <2>1, <2>2, SMT DEF TypeOK, ControlTypes, Procs, Lockers
<1>3. CASE EditSources \/ EditExports
  BY <1>3, SMT DEF EditSources, EditExports, Edit, local
<1>4. CASE LoseDatabase
  <2>1. \A id \in Ids : builds[id] # None => builds'[id] # None
    BY <1>4, LostDatabase
  <2>2. UNCHANGED <<pc, bld, chk, col>>
    BY <1>4 DEF LoseDatabase, Edit, local
  <2>3. \A g \in Collectors : pc[g] # "idle" => col[g].todo \subseteq Ids
    BY SMT DEF TypeOK, JobTypes, JobsOfRunning, CollectJob
  <2>. QED  BY <2>1, <2>2, <2>3, SMT
<1>. QED  BY <1>1, <1>2, <1>3, <1>4

\* The inductive invariant of the store.
Store == TypeOK /\ MutualExclusion /\ Placed

\* An empty store, nobody running: the inductive invariant holds.
LEMMA StoreInit == Init => Store
<1>. SUFFICES ASSUME Init PROVE Store
  OBVIOUS
<1>1. TypeOK
  BY SMT, NoneIsNothing DEF Init, TypeOK, DiskTypes, ControlTypes, JobTypes, JobsOfRunning, Procs, Lockers
<1>2. MutualExclusion
  BY SMT, NoneIsNothing DEF Init, MutualExclusion, Inside, Procs, Lockers
<1>3. Placed
  BY SMT DEF Init, Placed, Procs, Lockers
<1>. QED  BY <1>1, <1>2, <1>3 DEF Store

\* Every step of every process, crash and edit keeps the inductive invariant.
LEMMA StoreStep == Store /\ [Next]_vars => Store'
<1>. SUFFICES ASSUME Store, [Next]_vars PROVE Store'
  OBVIOUS
<1>. USE DEF Store
<1>1. ASSUME NEW b \in Builders, BuildStart(b) \/ BuildStep(b) PROVE Store'
  BY <1>1, BuilderTypes, BuilderLocks, BuilderPlaced
<1>2. ASSUME NEW p \in Promoters, PromoteStart(p) \/ PromoteStep(p) PROVE Store'
  BY <1>2, PromoterTypes, PromoterLocks, PromoterPlaced
<1>3. ASSUME NEW g \in Collectors, GcStart(g) \/ GcStep(g) PROVE Store'
  BY <1>3, CollectorTypes, CollectorLocks, CollectorPlaced
<1>4. ASSUME NEW c \in Checkers, CheckStart(c) \/ CheckStep(c) PROVE Store'
  BY <1>4, CheckerTypes, CheckerLocks, CheckerPlaced
<1>5. ASSUME NEW s \in Servers, ServeResolve(s) \/ ServeStep(s) PROVE Store'
  BY <1>5, ServerTypes, ServerLocks, ServerPlaced
<1>6. ASSUME \/ \E p \in Builders \cup Collectors, d \in Ids \X Builders : Erode(p, d)
             \/ \E p \in Procs : LockTimeout(p) \/ Crash(p)
             \/ EditSources \/ EditExports \/ LoseDatabase
      PROVE  Store'
  BY <1>6, SurroundingTypes, SurroundingLocks, SurroundingPlaced
<1>7. CASE UNCHANGED vars
  BY <1>7 DEF vars, disk, local, world, bounds, TypeOK, DiskTypes, ControlTypes, JobTypes, JobsOfRunning,
              MutualExclusion, Placed
<1>. QED  BY <1>1, <1>2, <1>3, <1>4, <1>5, <1>6, <1>7 DEF Next

\* Every variable keeps its type, whatever processes do to one another's files.
THEOREM TypeCorrect == Spec => []TypeOK
<1>1. Store => TypeOK
  BY DEF Store
<1>. QED  BY <1>1, StoreInit, StoreStep, PTL DEF Spec

\* The flock is held exactly by the process that is inside build, promote or gc: every path out of
\* them, a crash included, gives it back, and nobody gives back another's.
THEOREM LockIsExclusive == Spec => []MutualExclusion
<1>1. Store => MutualExclusion
  BY DEF Store
<1>. QED  BY <1>1, StoreInit, StoreStep, PTL DEF Spec

-----------------------------------------------------------------------------
(***************************************************************************)
(* Contract records: where a strict pass may be found, and what promote    *)
(* relies on.                                                              *)
(***************************************************************************)

\* A record that says strict pass was written by a strict check of this id that found nothing.
EarnedDoc(id, d) ==
  d # None /\ d.status = "pass" /\ d.strict => <<id, d.bytes, d.exports>> \in earned

\* PassIsEarned is not inductive: a record also waits in the memory of a check, in the finished tree of
\* a builder and in a trash directory that may be put back.
BuildsEarned == \A id \in Ids : builds[id] # None => EarnedDoc(id, builds[id].contract)
TrashEarned  == \A d \in Ids \X Builders : trash[d] # None => EarnedDoc(d[1], trash[d].contract)
TreesEarned  == \A b \in Builders : pc[b] \in {"built", "swap", "gap"} => EarnedDoc(bld[b].id, bld[b].tree.contract)
DocsEarned   == \A c \in Checkers : pc[c] = "record" => EarnedDoc(chk[c].id, chk[c].doc)
ContractsEarned == BuildsEarned /\ TrashEarned /\ TreesEarned /\ DocsEarned

\* Restored builds bring the record their trash directory held.
LEMMA RestoredEarned ==
  ASSUME TypeOK, ContractsEarned, RestoreOrphans, UNCHANGED earned
  PROVE  BuildsEarned' /\ TrashEarned'
<1>1. PICK pick \in Picks :
        /\ builds' = [id \in Ids |-> IF pick[id] = None THEN builds[id] ELSE trash[<<id, pick[id]>>]]
        /\ trash'  = [d \in Ids \X Builders |-> IF pick[d[1]] = d[2] THEN None ELSE trash[d]]
  BY DEF RestoreOrphans
<1>2. \A id \in Ids : pick[id] # None => pick[id] \in Builders /\ trash[<<id, pick[id]>>] # None
  BY SMT DEF Picks, Orphans
<1>3. ASSUME NEW id \in Ids, builds'[id] # None
      PROVE  EarnedDoc(id, builds[id].contract)'
  <2>1. CASE pick[id] = None
    BY <1>1, <1>3, <2>1, SMT DEF ContractsEarned, BuildsEarned, EarnedDoc
  <2>2. CASE pick[id] # None
    <3>1. <<id, pick[id]>> \in Ids \X Builders /\ <<id, pick[id]>>[1] = id
      BY <1>2, <2>2
    <3>2. EarnedDoc(id, trash[<<id, pick[id]>>].contract)
      BY <1>2, <2>2, <3>1 DEF ContractsEarned, TrashEarned
    <3>. QED  BY <1>1, <2>2, <3>2, SMT DEF EarnedDoc
  <2>. QED  BY <2>1, <2>2
<1>4. TrashEarned'
  BY <1>1, SMT DEF ContractsEarned, TrashEarned, EarnedDoc
<1>. QED  BY <1>3, <1>4 DEF BuildsEarned, EarnedDoc

\* A builder moves records from one place to another and makes none.
LEMMA BuilderEarned ==
  ASSUME Store, ContractsEarned, NEW b \in Builders, BuildStart(b) \/ BuildStep(b)
  PROVE  ContractsEarned'
<1>. USE DEF Store, TypeOK, ControlTypes, ContractsEarned, BuildsEarned, TrashEarned, TreesEarned,
             DocsEarned, EarnedDoc
<1>0. \A c \in Checkers : c # b
  BY RolesDisjoint
<1>1. CASE BuildStart(b)
  BY <1>0, <1>1, SMT DEF BuildStart, Start, Goto, Procs, Lockers, disk, JobTypes
<1>2. CASE BuildLocked(b)
  <2>1. BuildsEarned' /\ TrashEarned'
    BY <1>2, RestoredEarned DEF BuildLocked
  <2>2. TreesEarned' /\ DocsEarned'
    BY <1>0, <1>2, SMT DEF BuildLocked, Take, Goto, Procs, Lockers, JobTypes
  <2>. QED  BY <2>1, <2>2
<1>3. CASE BuildKeep(b)
  BY <1>0, <1>3, SMT DEF BuildKeep, Goto, Procs, Lockers, local, DiskTypes, Tree
<1>4. CASE BuildFinish(b)
  <2>1. bld'[b].tree.contract = None /\ \A y \in Builders \ {b} : bld'[y] = bld[y]
    BY <1>4, FinishedJob
  <2>2. pc' = [pc EXCEPT ![b] = "built"] /\ UNCHANGED <<builds, trash, chk, earned>>
    BY <1>4 DEF BuildFinish, Goto, disk
  <2>. QED  BY <1>0, <2>1, <2>2, SMT DEF Procs, Lockers
<1>5. CASE BuildInstall(b)
  BY <1>0, <1>5, SMT DEF BuildInstall, Goto, Procs, Lockers, local, DiskTypes, JobTypes, JobsOfRunning, BuildJob
<1>6. CASE BuildCarryOver(b)
  <2>1. /\ bld'[b].id = bld[b].id /\ builds[bld[b].id] # None
        /\ bld'[b].tree.contract \in {builds[bld[b].id].contract, None} /\ bld[b].id \in Ids
        /\ \A y \in Builders \ {b} : bld'[y] = bld[y]
    BY <1>6, CarriedJob, SMT DEF BuildJob
  <2>2. pc' = [pc EXCEPT ![b] = "swap"] /\ UNCHANGED <<builds, trash, chk, earned>>
    BY <1>6 DEF BuildCarryOver, Goto, disk
  <2>. QED  BY <1>0, <2>1, <2>2, SMT DEF Procs, Lockers
<1>7. CASE BuildExchange(b)
  BY <1>0, <1>7, SMT
  DEF BuildExchange, Goto, Procs, Lockers, local, DiskTypes, JobTypes, JobsOfRunning, BuildJob
<1>8. CASE BuildMoveOld(b)
  BY <1>0, <1>8, SMT DEF BuildMoveOld, Goto, Procs, Lockers, local, DiskTypes, JobTypes, JobsOfRunning, BuildJob
<1>9. CASE BuildMoveNew(b)
  BY <1>0, <1>9, SMT DEF BuildMoveNew, Goto, Procs, Lockers, local, DiskTypes, JobTypes, JobsOfRunning, BuildJob
<1>10. CASE BuildUndo(b)
  <2>1. /\ pc' = [pc EXCEPT ![b] = "idle"] /\ UNCHANGED <<chk, earned>>
        /\ \A y \in Builders \ {b} : bld'[y] = bld[y]
        /\ bld[b].id \in Ids
    BY <1>10, SMT DEF BuildUndo, Goto, JobTypes, JobsOfRunning, BuildJob
  <2>2. TreesEarned' /\ DocsEarned'
    BY <1>0, <2>1, SMT DEF Procs, Lockers
  <2>3. CASE UNCHANGED <<builds, trash>>
    BY <2>1, <2>2, <2>3
  <2>4. CASE /\ builds' = [builds EXCEPT ![bld[b].id] = trash[<<bld[b].id, b>>]]
             /\ trash' = [trash EXCEPT ![<<bld[b].id, b>>] = None]
    <3>1. BuildsEarned'
      BY <2>1, <2>4, SMT DEF DiskTypes
    <3>2. TrashEarned'
      BY <2>1, <2>4, SMT DEF DiskTypes
    <3>. QED  BY <2>2, <3>1, <3>2
  <2>. QED  BY <1>10, <2>3, <2>4 DEF BuildUndo
<1>11. CASE BuildDropOld(b)
  BY <1>0, <1>11, SMT DEF BuildDropOld, Goto, Procs, Lockers, local, DiskTypes
<1>12. CASE BuildLink(b)
  BY <1>0, <1>12, SMT DEF BuildLink, Goto, Procs, Lockers, JobTypes
<1>13. CASE BuildFail(b)
  BY <1>0, <1>13, SMT DEF BuildFail, Goto, Procs, Lockers, JobTypes
<1>14. CASE BuildRead(b)
  BY <1>0, <1>14, SMT DEF BuildRead, Goto, Procs, Lockers, disk, JobTypes
<1>. QED  BY <1>1, <1>2, <1>3, <1>4, <1>5, <1>6, <1>7, <1>8, <1>9, <1>10, <1>11, <1>12, <1>13, <1>14 DEF BuildStep

\* A promote touches no record but to put a build back.
LEMMA PromoterEarned ==
  ASSUME Store, ContractsEarned, NEW p \in Promoters, PromoteStart(p) \/ PromoteStep(p)
  PROVE  ContractsEarned'
<1>. USE DEF Store, TypeOK, ControlTypes, Procs, Lockers, ContractsEarned, BuildsEarned, TrashEarned,
             TreesEarned, DocsEarned, EarnedDoc
<1>0. p \notin Checkers /\ p \notin Builders
  BY RolesDisjoint
<1>1. CASE PromoteStart(p)
  BY <1>0, <1>1, SMT DEF PromoteStart, Start, Goto, disk
<1>2. CASE PromoteLocked(p)
  <2>1. BuildsEarned' /\ TrashEarned'
    BY <1>2, RestoredEarned DEF PromoteLocked
  <2>2. TreesEarned' /\ DocsEarned'
    BY <1>0, <1>2, SMT DEF PromoteLocked, Take, Goto, local
  <2>. QED  BY <2>1, <2>2
<1>3. CASE PromoteChoose(p)
  BY <1>0, <1>3, SMT DEF PromoteChoose, Goto, disk
<1>4. CASE PromoteRefuse(p)
  BY <1>0, <1>4, SMT DEF PromoteRefuse, Goto, disk
<1>5. CASE PromoteLink(p)
  BY <1>0, <1>5, SMT DEF PromoteLink, Goto
<1>. QED  BY <1>1, <1>2, <1>3, <1>4, <1>5 DEF PromoteStep

\* A gc only ever removes records.
LEMMA CollectorEarned ==
  ASSUME Store, ContractsEarned, NEW g \in Collectors, GcStart(g) \/ GcStep(g)
  PROVE  ContractsEarned'
<1>. USE DEF Store, TypeOK, ControlTypes, Procs, Lockers, ContractsEarned, BuildsEarned, TrashEarned,
             TreesEarned, DocsEarned, EarnedDoc
<1>0. g \notin Checkers /\ g \notin Builders
  BY RolesDisjoint
<1>1. CASE GcStart(g)
  BY <1>0, <1>1, SMT DEF GcStart, Start, Goto, disk
<1>2. CASE GcLocked(g)
  <2>1. BuildsEarned' /\ TrashEarned'
    BY <1>2, RestoredEarned DEF GcLocked
  <2>2. TreesEarned' /\ DocsEarned'
    BY <1>0, <1>2, SMT DEF GcLocked, Take, Goto
  <2>. QED  BY <2>1, <2>2
<1>3. CASE GcScan(g)
  BY <1>0, <1>3, SMT DEF GcScan, Goto, disk
<1>4. CASE GcPick(g)
  <2>1. /\ \A x \in Builders \cup Checkers : pc'[x] = pc[x]
        /\ UNCHANGED <<builds, trash, bld, chk, earned>>
    <3>1. UNCHANGED pc \/ pc' = [pc EXCEPT ![g] = "erase"]
      BY <1>4 DEF GcPick, Goto
    <3>2. UNCHANGED <<builds, trash, bld, chk, earned>>
      BY <1>4 DEF GcPick, disk
    <3>. QED  BY <1>0, <3>1, <3>2, SMT
  <2>. QED  BY <2>1, SMT
<1>5. CASE GcErase(g)
  <2>1. PICK t \in Damaged(builds[col[g].victim]) : builds' = [builds EXCEPT ![col[g].victim] = t]
    BY <1>5 DEF GcErase
  <2>2. /\ col[g].victim \in Ids /\ builds[col[g].victim] # None /\ builds[col[g].victim] \in Tree
        /\ pc' = [pc EXCEPT ![g] = "remove"] /\ UNCHANGED <<trash, bld, chk, earned>>
    BY <1>5, SMT DEF GcErase, Goto, local, Placed, DiskTypes
  <2>3. t.contract \in {builds[col[g].victim].contract, None}
    BY <2>2, DamagedIsTree
  <2>. QED  BY <1>0, <2>1, <2>2, <2>3, SMT DEF DiskTypes
<1>6. CASE GcRemove(g)
  BY <1>0, <1>6, SMT DEF GcRemove, Goto, DiskTypes
<1>7. CASE GcSweep(g)
  BY <1>0, <1>7, SMT DEF GcSweep, Goto
<1>. QED  BY <1>1, <1>2, <1>3, <1>4, <1>5, <1>6, <1>7 DEF GcStep

\* The check is where a strict pass is made: CheckExamine notes it in `earned', and CheckRecord writes
\* it into the build of the id it examined.
LEMMA CheckerEarned ==
  ASSUME Store, ContractsEarned, NEW c \in Checkers, CheckStart(c) \/ CheckStep(c)
  PROVE  ContractsEarned'
<1>. USE DEF Store, TypeOK, ControlTypes, Procs, Lockers, ContractsEarned, BuildsEarned, TrashEarned,
             TreesEarned, DocsEarned, EarnedDoc
<1>0. c \notin Builders
  BY RolesDisjoint
<1>1. CASE CheckStart(c)
  <2>1. /\ pc' = [pc EXCEPT ![c] = "open"] /\ UNCHANGED <<builds, trash, bld, earned>>
        /\ \A y \in Checkers \ {c} : chk'[y] = chk[y]
    BY <1>1, SMT DEF CheckStart, Start, Goto, disk, JobTypes
  <2>. QED  BY <1>0, <2>1, SMT
<1>2. CASE CheckOpen(c)
  <2>1. /\ pc' = [pc EXCEPT ![c] = "examine"] /\ UNCHANGED <<builds, trash, bld, earned>>
        /\ \A y \in Checkers \ {c} : chk'[y] = chk[y]
    BY <1>2, OpenedJob DEF CheckOpen, Goto, disk
  <2>. QED  BY <1>0, <2>1, SMT
<1>3. CASE CheckExamine(c)
  <2>1. /\ pc' = [pc EXCEPT ![c] = "record"] /\ UNCHANGED <<builds, trash, bld>>
        /\ \A y \in Checkers \ {c} : chk'[y] = chk[y]
    BY <1>3, WrittenDoc DEF CheckExamine, Goto, disk
  <2>2. earned \subseteq earned'
    BY <1>3 DEF CheckExamine
  <2>3. EarnedDoc(chk[c].id, chk[c].doc)'
    BY <1>3, WrittenDoc
  <2>. QED  BY <1>0, <2>1, <2>2, <2>3, SMT
<1>4. CASE CheckRecord(c)
  <2>1. /\ pc[c] = "record" /\ pc' = [pc EXCEPT ![c] = "idle"] /\ UNCHANGED <<trash, bld, earned>>
        /\ \A y \in Checkers \ {c} : chk'[y] = chk[y]
        /\ chk[c].id \in Ids
    BY <1>4, SMT DEF CheckRecord, Goto, JobTypes, Placed
  <2>2. BuildsEarned'
    <3>1. CASE UNCHANGED builds
      BY <2>1, <3>1
    <3>2. CASE builds' = [builds EXCEPT ![chk[c].id].contract = chk[c].doc] /\ SameBuild(c)
      <4>1. builds[chk[c].id] \in Tree
        BY <2>1, <3>2, SMT DEF SameBuild, Recorded, DiskTypes
      <4>. DEFINE t == [builds[chk[c].id] EXCEPT !.contract = chk[c].doc]
      <4>2. t.contract = chk[c].doc
        BY <4>1, SMT DEF Tree
      <4>3. builds' = [builds EXCEPT ![chk[c].id] = t]
        BY <3>2
      <4>. HIDE DEF t
      <4>4. ASSUME NEW id \in Ids, builds'[id] # None
            PROVE  EarnedDoc(id, builds[id].contract)'
        <5>1. CASE id = chk[c].id
          <6>1. builds'[id] = t
            BY <4>3, <5>1, SMT DEF DiskTypes
          <6>2. EarnedDoc(id, chk[c].doc)
            BY <2>1, <5>1
          <6>. QED  BY <2>1, <4>2, <6>1, <6>2
        <5>2. CASE id # chk[c].id
          BY <2>1, <4>3, <4>4, <5>2, SMT DEF DiskTypes
        <5>. QED  BY <5>1, <5>2
      <4>. QED  BY <4>4
    <3>. QED  BY <1>4, <3>1, <3>2 DEF CheckRecord
  <2>. QED  BY <1>0, <2>1, <2>2, SMT
<1>5. CASE CheckAbort(c)
  BY <1>0, <1>5, SMT DEF CheckAbort, Goto, disk, JobTypes
<1>. QED  BY <1>1, <1>2, <1>3, <1>4, <1>5 DEF CheckStep

\* A crash leaves the records where they are; a timeout, an edit or a half-removed trash adds none.
LEMMA SurroundingEarned ==
  ASSUME Store, ContractsEarned,
         \/ \E p \in Builders \cup Collectors, d \in Ids \X Builders : Erode(p, d)
         \/ \E p \in Procs : LockTimeout(p) \/ Crash(p)
         \/ EditSources \/ EditExports \/ LoseDatabase
  PROVE  ContractsEarned'
<1>. USE DEF Store, TypeOK, ControlTypes, ContractsEarned, BuildsEarned, TrashEarned, TreesEarned,
             DocsEarned, EarnedDoc
<1>1. ASSUME NEW p \in Builders \cup Collectors, NEW d \in Ids \X Builders, Erode(p, d)
      PROVE  ContractsEarned'
  <2>1. PICK t \in Damaged(trash[d]) : trash' = [trash EXCEPT ![d] = t]
    BY <1>1 DEF Erode
  <2>2. trash[d] \in Tree /\ trash[d] # None /\ UNCHANGED <<builds, pc, bld, chk, earned>>
    BY <1>1, SMT DEF DiskTypes, Erode, local
  <2>3. t.contract \in {trash[d].contract, None}
    BY <2>2, DamagedIsTree
  <2>. QED  BY <2>1, <2>2, <2>3, SMT DEF DiskTypes
<1>2. ASSUME NEW p \in Procs, LockTimeout(p) \/ Crash(p)
      PROVE  ContractsEarned'
  <2>1. pc' = [pc EXCEPT ![p] = "idle"] /\ UNCHANGED <<builds, trash, earned>>
    BY <1>2 DEF LockTimeout, Crash, Goto, disk
  <2>2. /\ \A b \in Builders : b # p => bld'[b] = bld[b]
        /\ \A c \in Checkers : c # p => chk'[c] = chk[c]
    BY <1>2, SMT DEF LockTimeout, Crash, Forget
  <2>. QED  BY <2>1, <2>2, SMT DEF Procs, Lockers
<1>3. CASE EditSources \/ EditExports
  BY <1>3, SMT DEF EditSources, EditExports, Edit, local
<1>4. CASE LoseDatabase
  <2>1. UNCHANGED <<trash, pc, bld, chk, earned>>
    BY <1>4 DEF LoseDatabase, Edit, local
  <2>. QED  BY <1>4, <2>1, LostDatabase
<1>. QED  BY <1>1, <1>2, <1>3, <1>4

\* A server's launcher writes no record.
LEMMA ServerEarned ==
  ASSUME Store, ContractsEarned, NEW s \in Servers, ServeResolve(s) \/ ServeStep(s)
  PROVE  ContractsEarned'
<1>. USE DEF Store, TypeOK, ControlTypes, Procs, Lockers, ContractsEarned, BuildsEarned, TrashEarned,
             TreesEarned, DocsEarned, EarnedDoc
<1>0. s \notin Checkers /\ s \notin Builders
  BY RolesDisjoint
<1>1. CASE ServeResolve(s)
  BY <1>0, <1>1, SMT DEF ServeResolve, Start, Goto, disk
<1>2. CASE ServeSweep(s) \/ ServePidfile(s)
  <2>1. pc' \in {[pc EXCEPT ![s] = l] : l \in {"swept", "starting"}} /\ UNCHANGED <<trash, bld, chk, earned>>
    BY <1>2 DEF ServeSweep, ServePidfile, Goto, local
  <2>2. BuildsEarned'
    BY <1>2, <2>1, SweptBuilds
  <2>. QED  BY <1>0, <2>1, <2>2, SMT
<1>3. CASE ServeOpen(s)
  BY <1>0, <1>3, SMT DEF ServeOpen, Goto, disk
<1>4. CASE ServeStop(s)
  BY <1>0, <1>4, SMT DEF ServeStop, Goto, disk
<1>. QED  BY <1>1, <1>2, <1>3, <1>4 DEF ServeStep

\* No step of any process lets a record count that no strict check earned.
LEMMA EarnedStep == Store /\ ContractsEarned /\ [Next]_vars => ContractsEarned'
<1>1. ASSUME Store, ContractsEarned, UNCHANGED vars
      PROVE  ContractsEarned'
  BY <1>1 DEF vars, disk, local, ContractsEarned, BuildsEarned, TrashEarned, TreesEarned, DocsEarned, EarnedDoc
<1>. QED  BY <1>1, BuilderEarned, PromoterEarned, CollectorEarned, CheckerEarned, ServerEarned,
             SurroundingEarned DEF Next

\* A build counts as strictly checked only if a strict check found nothing in exactly these bytes with
\* exactly these exports, however its record travelled since.
THEOREM StrictPassIsEarned == Spec => []PassIsEarned
<1>1. Init => ContractsEarned
  BY SMT DEF Init, ContractsEarned, BuildsEarned, TrashEarned, TreesEarned, DocsEarned, Procs, Lockers
<1>2. ContractsEarned => PassIsEarned
  BY DEF ContractsEarned, BuildsEarned, PassIsEarned, StrictPass, Recorded, EarnedDoc
<1>. QED  BY <1>1, <1>2, StoreInit, StoreStep, EarnedStep, PTL DEF Spec

-----------------------------------------------------------------------------
\* Between promote's choice and its link swap the chosen build keeps its strict pass.
Chosen == \A p \in Promoters :
            pc[p] = "promote_link" => prm[p].target \in Ids /\ StrictPass(builds[prm[p].target])

\* While a promote is inside, no step of another process takes a strict pass away.
LEMMA PassStays ==
  ASSUME Store, [Next]_vars, NEW p \in Promoters, lock = p, NEW id \in Ids, StrictPass(builds[id])
  PROVE  StrictPass(builds[id])'
<1>. USE DEF Store, StrictPass, Recorded
<1>1. p \in Procs /\ p # None /\ p \notin Builders \cup Collectors \cup Checkers \cup Servers
  BY RolesDisjoint, NoneIsNothing DEF Procs, Lockers
<1>2. \A q \in Procs \ {p} : pc[q] \notin Inside
  BY <1>1 DEF MutualExclusion
<1>3. pc[p] \in Inside
  BY <1>1 DEF MutualExclusion
<1>4. CASE UNCHANGED builds
  BY <1>4
<1>5. ASSUME NEW b \in Builders, BuildStart(b) \/ BuildStep(b) PROVE UNCHANGED builds
  BY <1>1, <1>2, <1>5, SMT
  DEF BuildStep, BuildStart, BuildLocked, BuildRead, BuildKeep, BuildFinish, BuildInstall, BuildCarryOver, BuildExchange,
      BuildMoveOld, BuildMoveNew, BuildUndo, BuildDropOld, BuildLink, BuildFail, Start, Take, disk, Inside, Procs, Lockers
<1>6. ASSUME NEW q \in Promoters, PromoteStart(q) \/ PromoteStep(q) PROVE UNCHANGED builds
  BY <1>1, <1>6, SMT
  DEF PromoteStep, PromoteStart, PromoteLocked, PromoteChoose, PromoteRefuse, PromoteLink, Start, Take, disk
<1>7. ASSUME NEW g \in Collectors, GcStart(g) \/ GcStep(g) PROVE UNCHANGED builds
  BY <1>1, <1>2, <1>7, SMT
  DEF GcStep, GcStart, GcLocked, GcScan, GcPick, GcErase, GcRemove, GcSweep, Start, Take, disk, Inside, Procs, Lockers
<1>8. ASSUME NEW c \in Checkers, CheckStart(c) \/ CheckStep(c) PROVE UNCHANGED builds
  <2>1. ~CheckRecord(c)
    BY <1>1 DEF CheckRecord
  <2>. QED  BY <1>8, <2>1 DEF CheckStep, CheckStart, CheckOpen, CheckExamine, CheckAbort, Start, disk
<1>9. ASSUME NEW s \in Servers, ServeResolve(s) \/ ServeStep(s) PROVE StrictPass(builds[id])'
  <2>1. CASE ServeSweep(s) \/ ServePidfile(s)
    BY <2>1, SweptBuilds
  <2>2. CASE ~(ServeSweep(s) \/ ServePidfile(s))
    BY <1>4, <1>9, <2>2 DEF ServeStep, ServeResolve, ServeOpen, ServeStop, Start, disk
  <2>. QED  BY <2>1, <2>2
<1>10. CASE LoseDatabase
  BY <1>10, LostDatabase
<1>11. ASSUME \/ \E q \in Builders \cup Collectors, d \in Ids \X Builders : Erode(q, d)
              \/ \E q \in Procs : LockTimeout(q) \/ Crash(q)
              \/ EditSources \/ EditExports
       PROVE  UNCHANGED builds
  BY <1>11 DEF Erode, LockTimeout, Crash, EditSources, EditExports, disk
<1>12. CASE UNCHANGED vars
  BY <1>4, <1>12 DEF vars, disk
<1>. QED  BY <1>4, <1>5, <1>6, <1>7, <1>8, <1>9, <1>10, <1>11, <1>12 DEF Next

\* A process moves its own program counter and, but for a promote, no promote's memory.
LEMMA OwnStep ==
  /\ \A b \in Builders : BuildStart(b) \/ BuildStep(b) =>
       (\E l : pc' = [pc EXCEPT ![b] = l]) /\ UNCHANGED <<current, prm>>
  /\ \A g \in Collectors : GcStart(g) \/ GcStep(g) =>
       (UNCHANGED pc \/ \E l : pc' = [pc EXCEPT ![g] = l]) /\ UNCHANGED <<current, prm>>
  /\ \A c \in Checkers : CheckStart(c) \/ CheckStep(c) =>
       (\E l : pc' = [pc EXCEPT ![c] = l]) /\ UNCHANGED <<current, prm>>
  /\ \A s \in Servers : ServeResolve(s) \/ ServeStep(s) =>
       (\E l : pc' = [pc EXCEPT ![s] = l]) /\ UNCHANGED <<current, prm>>
<1>. USE DEF Goto, Start, Take, disk, local
<1>1. ASSUME NEW b \in Builders, BuildStart(b) \/ BuildStep(b)
      PROVE  (\E l : pc' = [pc EXCEPT ![b] = l]) /\ UNCHANGED <<current, prm>>
  BY <1>1
  DEF BuildStep, BuildStart, BuildLocked, BuildRead, BuildKeep, BuildFinish, BuildInstall, BuildCarryOver, BuildExchange,
      BuildMoveOld, BuildMoveNew, BuildUndo, BuildDropOld, BuildLink, BuildFail
<1>2. ASSUME NEW g \in Collectors, GcStart(g) \/ GcStep(g)
      PROVE  (UNCHANGED pc \/ \E l : pc' = [pc EXCEPT ![g] = l]) /\ UNCHANGED <<current, prm>>
  BY <1>2 DEF GcStep, GcStart, GcLocked, GcScan, GcPick, GcErase, GcRemove, GcSweep
<1>3. ASSUME NEW c \in Checkers, CheckStart(c) \/ CheckStep(c)
      PROVE  (\E l : pc' = [pc EXCEPT ![c] = l]) /\ UNCHANGED <<current, prm>>
  BY <1>3 DEF CheckStep, CheckStart, CheckOpen, CheckExamine, CheckRecord, CheckAbort
<1>4. ASSUME NEW s \in Servers, ServeResolve(s) \/ ServeStep(s)
      PROVE  (\E l : pc' = [pc EXCEPT ![s] = l]) /\ UNCHANGED <<current, prm>>
  BY <1>4 DEF ServeStep, ServeResolve, ServeSweep, ServePidfile, ServeOpen, ServeStop
<1>. QED  BY <1>1, <1>2, <1>3, <1>4

\* Only its own PromoteChoose brings a promote to its link swap.
LEMMA ChoosesItself ==
  ASSUME Store, [Next]_vars, NEW p \in Promoters, pc'[p] = "promote_link"
  PROVE  PromoteChoose(p) \/ (pc[p] = "promote_link" /\ prm'[p] = prm[p])
<1>. USE DEF Store, TypeOK, ControlTypes, Goto
<1>1. p \in Procs /\ p \notin Builders \cup Collectors \cup Checkers \cup Servers
  BY RolesDisjoint DEF Procs, Lockers
<1>2. CASE UNCHANGED <<pc, prm>>
  BY <1>2
<1>3. ASSUME NEW b \in Builders, BuildStart(b) \/ BuildStep(b) PROVE pc'[p] = pc[p] /\ UNCHANGED prm
  BY <1>1, <1>3, OwnStep
<1>4. ASSUME NEW q \in Promoters, PromoteStart(q) \/ PromoteStep(q)
      PROVE  PromoteChoose(p) \/ (pc[p] = "promote_link" /\ prm'[p] = prm[p])
  <2>1. CASE PromoteStart(q)
    BY <1>1, <2>1, SMT DEF PromoteStart, Start
  <2>2. CASE PromoteLocked(q)
    BY <1>1, <2>2, SMT DEF PromoteLocked, Take, local
  <2>3. CASE PromoteChoose(q)
    <3>1. pc' = [pc EXCEPT ![q] = "promote_link"] /\ \A x \in Promoters \ {q} : prm'[x] = prm[x]
      BY <2>3, SMT DEF PromoteChoose, JobTypes
    <3>. QED  BY <1>1, <2>3, <3>1
  <2>4. CASE PromoteRefuse(q)
    BY <1>1, <2>4, SMT DEF PromoteRefuse, JobTypes
  <2>5. CASE PromoteLink(q)
    BY <1>1, <2>5, SMT DEF PromoteLink, JobTypes
  <2>. QED  BY <1>4, <2>1, <2>2, <2>3, <2>4, <2>5 DEF PromoteStep
<1>5. ASSUME NEW g \in Collectors, GcStart(g) \/ GcStep(g) PROVE pc'[p] = pc[p] /\ UNCHANGED prm
  BY <1>1, <1>5, OwnStep
<1>6. ASSUME NEW c \in Checkers, CheckStart(c) \/ CheckStep(c) PROVE pc'[p] = pc[p] /\ UNCHANGED prm
  BY <1>1, <1>6, OwnStep
<1>7. ASSUME NEW s \in Servers, ServeResolve(s) \/ ServeStep(s) PROVE pc'[p] = pc[p] /\ UNCHANGED prm
  BY <1>1, <1>7, OwnStep
<1>8. ASSUME NEW q \in Procs, LockTimeout(q) \/ Crash(q)
      PROVE  pc[p] = "promote_link" /\ prm'[p] = prm[p]
  BY <1>1, <1>8, SMT DEF LockTimeout, Crash, Forget
<1>9. ASSUME \/ \E q \in Builders \cup Collectors, d \in Ids \X Builders : Erode(q, d)
             \/ EditSources \/ EditExports \/ LoseDatabase
      PROVE  UNCHANGED <<pc, prm>>
  BY <1>9 DEF Erode, EditSources, EditExports, LoseDatabase, Edit, local
<1>10. CASE UNCHANGED vars
  BY <1>2, <1>10 DEF vars, local
<1>. QED  BY <1>2, <1>3, <1>4, <1>5, <1>6, <1>7, <1>8, <1>9, <1>10 DEF Next

\* The build a promote has chosen keeps its strict pass until the link is swapped.
LEMMA ChosenStep == Store /\ Chosen /\ [Next]_vars => Chosen'
<1>. SUFFICES ASSUME Store, Chosen, [Next]_vars, NEW p \in Promoters, pc'[p] = "promote_link"
              PROVE  prm'[p].target \in Ids /\ StrictPass(builds[prm[p].target])'
  BY DEF Chosen
<1>1. CASE PromoteChoose(p)
  <2>1. PICK id \in Ids : StrictPass(builds[id]) /\ prm' = [prm EXCEPT ![p].target = id]
    BY <1>1 DEF PromoteChoose, Promotable
  <2>2. prm[p] \in PromoteJob
    BY <1>1, SMT DEF PromoteChoose, Store, TypeOK, JobTypes, JobsOfRunning
  <2>3. prm'[p].target = id /\ UNCHANGED builds
    BY <1>1, <2>1, <2>2, SMT DEF PromoteChoose, disk, Store, TypeOK, JobTypes, PromoteJob
  <2>. QED  BY <2>1, <2>3 DEF StrictPass, Recorded
<1>2. CASE pc[p] = "promote_link" /\ prm'[p] = prm[p]
  <2>1. prm[p].target \in Ids /\ StrictPass(builds[prm[p].target])
    BY <1>2 DEF Chosen
  <2>2. lock = p
    BY <1>2, SMT DEF Store, MutualExclusion, Inside, Procs, Lockers
  <2>3. StrictPass(builds[prm[p].target])' <=> \A i \in Ids : i = prm'[p].target => StrictPass(builds[i])'
    BY <1>2, <2>1
  <2>4. \A i \in Ids : i = prm[p].target => StrictPass(builds[i])'
    BY <2>1, <2>2, PassStays
  <2>. QED  BY <1>2, <2>1, <2>3, <2>4
<1>. QED  BY <1>1, <1>2, ChoosesItself

\* `current' is only ever pointed at a build that has its strict pass at that moment: what promote
\* chose in an earlier step is still true when it swaps the link.
THEOREM PromotesOnlyPassing == Spec => PromotesPassing
<1>1. Init => Chosen
  BY SMT DEF Init, Chosen, Procs, Lockers
<1>2. ASSUME Store, Chosen, [Next]_vars, current' # current
      PROVE  current' # None /\ StrictPass(builds[current'])
  <2>1. PICK p \in Promoters : PromoteLink(p)
    <3>1. ~UNCHANGED vars
      BY <1>2 DEF vars, disk
    <3>2. \A p \in Promoters :
            PromoteStart(p) \/ PromoteLocked(p) \/ PromoteChoose(p) \/ PromoteRefuse(p) => UNCHANGED current
      BY DEF PromoteStart, PromoteLocked, PromoteChoose, PromoteRefuse, Start, disk
    <3>3. \A p \in Procs : LockTimeout(p) \/ Crash(p) => UNCHANGED current
      BY DEF LockTimeout, Crash, disk
    <3>4. \A p \in Builders \cup Collectors, d \in Ids \X Builders : Erode(p, d) => UNCHANGED current
      BY DEF Erode
    <3>5. EditSources \/ EditExports \/ LoseDatabase => UNCHANGED current
      BY DEF EditSources, EditExports, LoseDatabase, Edit
    <3>. QED  BY <1>2, <3>1, <3>2, <3>3, <3>4, <3>5, OwnStep DEF Next, PromoteStep
  <2>2. current' = prm[p].target /\ prm[p].target \in Ids /\ StrictPass(builds[prm[p].target])
    BY <1>2, <2>1 DEF PromoteLink, Chosen
  <2>. QED  BY <2>2, NoneIsNothing
<1>3. Store /\ Chosen /\ [Next]_vars
        => [current' # current => current' # None /\ StrictPass(builds[current'])]_vars
  BY <1>2
<1>. QED  BY <1>1, <1>3, StoreInit, StoreStep, ChosenStep, PTL DEF Spec, PromotesPassing
=============================================================================

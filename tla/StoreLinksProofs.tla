--------------------------- MODULE StoreLinksProofs ---------------------------
(***************************************************************************)
(* What stays on disk.  Where the filesystem has an exchange call, no step *)
(* of a replacement leaves its id without a build, and a gc removes none   *)
(* that a link names.  With and without one, a gc removes none of the      *)
(* newest and none that a server holds, and no build is lost.              *)
(***************************************************************************)
EXTENDS BuildStoreProofs, FiniteSetTheorems

\* With an exchange call nothing is ever in trash, so no restore changes a build.
NoTrash == \A d \in Ids \X Builders : trash[d] = None

\* What a builder has in hand, and what it is about to point `latest' at.
BuilderLinked(b) ==
  /\ pc[b] \in {"built", "swap"} => Recorded(bld[b].tree)
  /\ pc[b] \in {"drop_old", "build_link"} => Recorded(builds[bld[b].id])
  /\ pc[b] # "gap"

\* The links a gc has read are the links that are, and its victim is behind none of them.
CollectorLinked(g) ==
  /\ pc[g] \in {"scan", "pick", "erase", "remove"} => col[g].current = current
  /\ pc[g] \in {"pick", "erase", "remove"} => col[g].latest = latest
  /\ pc[g] \in {"erase", "remove"} => col[g].victim \notin {current, latest}

Linked ==
  /\ NoTrash /\ LinksResolve
  /\ \A b \in Builders : BuilderLinked(b)
  /\ \A g \in Collectors : CollectorLinked(g)

\* No build that has a manifest loses it.
Kept == \A id \in Ids : Recorded(builds[id]) => Recorded(builds[id])'

\* Every builder and every gc but p is where it was, with what it held.
OthersStay(p) ==
  /\ \A b \in Builders \ {p} : pc'[b] = pc[b] /\ bld'[b] = bld[b]
  /\ \A g \in Collectors \ {p} : pc'[g] = pc[g] /\ col'[g] = col[g]

-----------------------------------------------------------------------------
LEMMA NothingRestored ==
  ASSUME TypeOK, NoTrash, RestoreOrphans
  PROVE  UNCHANGED <<builds, trash>>
<1>1. PICK pick \in Picks :
        /\ builds' = [id \in Ids |-> IF pick[id] = None THEN builds[id] ELSE trash[<<id, pick[id]>>]]
        /\ trash'  = [d \in Ids \X Builders |-> IF pick[d[1]] = d[2] THEN None ELSE trash[d]]
  BY DEF RestoreOrphans
<1>2. \A id \in Ids : Orphans(id) = {}
  BY DEF Orphans, NoTrash
<1>3. \A id \in Ids : pick[id] = None
  BY <1>2 DEF Picks
<1>4. builds' = [id \in Ids |-> builds[id]]
  BY <1>1, <1>3
<1>5. trash' = [d \in Ids \X Builders |-> trash[d]]
  <2>1. \A d \in Ids \X Builders : (IF pick[d[1]] = d[2] THEN None ELSE trash[d]) = trash[d]
    BY DEF NoTrash
  <2>. QED  BY <1>1, <2>1
<1>. QED  BY <1>4, <1>5, Zenon DEF TypeOK, DiskTypes

\* The lock has one holder.
LEMMA OneInside ==
  ASSUME Store, NEW p \in Procs, NEW q \in Procs, p # q, lock \in {p, None}
  PROVE  pc[q] \notin Inside
BY NoneIsNothing DEF Store, MutualExclusion, Procs, Lockers

LEMMA BuilderStays ==
  ASSUME TypeOK, NEW b \in Builders, BuilderLinked(b), pc'[b] = pc[b], bld'[b] = bld[b],
         Kept \/ pc[b] \notin Inside
  PROVE  BuilderLinked(b)'
<1>1. CASE pc[b] \notin Inside
  BY <1>1 DEF Inside, BuilderLinked
<1>2. CASE Kept
  <2>1. pc[b] \in {"drop_old", "build_link"} => bld[b].id \in Ids
    BY SMT DEF TypeOK, JobTypes, JobsOfRunning, BuildJob
  <2>2. pc'[b] \in {"drop_old", "build_link"} => Recorded(builds[bld[b].id])'
    BY <1>2, <2>1 DEF BuilderLinked, Kept, Recorded
  <2>3. pc'[b] \in {"built", "swap"} => Recorded(bld[b].tree)'
    BY DEF BuilderLinked, Recorded
  <2>. QED  BY <2>2, <2>3 DEF BuilderLinked
<1>. QED  BY <1>1, <1>2

LEMMA CollectorStays ==
  ASSUME NEW g \in Collectors, CollectorLinked(g), pc'[g] = pc[g], col'[g] = col[g],
         UNCHANGED <<current, latest>> \/ pc[g] \notin Inside
  PROVE  CollectorLinked(g)'
BY DEF CollectorLinked, Inside

\* A step that keeps the builds and the links leaves only its own process to be looked at.
LEMMA CalmStep ==
  ASSUME TypeOK, Linked, NoTrash', Kept, UNCHANGED <<current, latest>>, NEW p, OthersStay(p),
         p \in Builders => BuilderLinked(p)',
         p \in Collectors => CollectorLinked(p)'
  PROVE  Linked'
<1>1. \A b \in Builders : BuilderLinked(b)'
  BY BuilderStays DEF Linked, OthersStay
<1>2. \A g \in Collectors : CollectorLinked(g)'
  BY CollectorStays DEF Linked, OthersStay
<1>3. LinksResolve'
  <2>1. current \in Ids \cup {None} /\ latest \in Ids \cup {None}
    BY DEF TypeOK, DiskTypes
  <2>. QED  BY <2>1 DEF Linked, LinksResolve, Kept, Recorded
<1>. QED  BY <1>1, <1>2, <1>3 DEF Linked

\* A process that ends, or waits, promises nothing.
LEMMA OutsideLinked ==
  ASSUME NEW p, pc'[p] \notin Inside
  PROVE  BuilderLinked(p)' /\ CollectorLinked(p)'
BY DEF BuilderLinked, CollectorLinked, Inside

\* What a builder has finished has a manifest, and keeps it when the contract is carried over.
LEMMA FinishedRecorded ==
  ASSUME Store, NEW b \in Builders, BuildFinish(b)
  PROVE  Recorded(bld'[b].tree)
<1>. USE DEF Store
<1>. DEFINE t == [bytes |-> bld[b].code, exports |-> exports, built |-> clock',
                  db |-> TRUE, whole |-> TRUE, contract |-> None, pids |-> {}]
<1>1. bld[b] \in BuildJob
  BY SMT DEF BuildFinish, TypeOK, JobTypes, JobsOfRunning
<1>2. bld' = [bld EXCEPT ![b].tree = t]
  BY DEF BuildFinish
<1>3. t.bytes = bld[b].code
  OBVIOUS
<1>. HIDE DEF t
<1>4. bld'[b].tree = t
  BY <1>1, <1>2, SMT DEF TypeOK, JobTypes, BuildJob
<1>. QED  BY <1>1, <1>3, <1>4, FinishedJob, NoneIsNothing DEF BuildJob, Recorded

LEMMA CarriedRecorded ==
  ASSUME Store, NEW b \in Builders, BuildCarryOver(b), Recorded(bld[b].tree)
  PROVE  Recorded(bld'[b].tree)
<1>. USE DEF Store
<1>1. bld[b] \in BuildJob /\ bld[b].tree \in Tree
  BY SMT DEF BuildCarryOver, Placed, TypeOK, JobTypes, JobsOfRunning
<1>2. PICK x : bld' = [bld EXCEPT ![b].tree.contract = x]
  BY DEF BuildCarryOver
<1>3. bld'[b].tree.bytes = bld[b].tree.bytes
  BY <1>1, <1>2, SMT DEF BuildJob, Tree, TypeOK, JobTypes
<1>. QED  BY <1>3, CarriedJob, NoneIsNothing DEF Recorded

-----------------------------------------------------------------------------
\* A builder, step by step: what it installs has a manifest, and it links what it installed.
LEMMA BuilderLinks ==
  ASSUME HasExchange, Store, Linked, NEW b \in Builders, BuildStart(b) \/ BuildStep(b)
  PROVE  Linked'
<1>. USE DEF Store, Goto
<1>0. /\ b \in Procs /\ b \notin Collectors /\ Builders \subseteq Procs /\ Collectors \subseteq Procs
      /\ pc \in [Procs -> Inside \cup Waiting \cup
                          {"idle", "open", "examine", "resolved", "swept", "starting", "serving"}]
      /\ \A x \in Builders : pc[x] # "idle" => bld[x] \in BuildJob
  <2>1. \A x \in Builders : bld[x] = None <=> pc[x] = "idle"
    BY DEF TypeOK, JobsOfRunning
  <2>2. \A x \in Builders : bld[x] \in BuildJob \cup {None}
    BY DEF TypeOK, JobTypes
  <2>. QED  BY <2>1, <2>2, RolesDisjoint DEF Procs, Lockers, TypeOK, ControlTypes
<1>1. ASSUME BuildStep(b), pc[b] # "build_wait"
      PROVE  pc[b] \in Inside /\ lock = b /\ bld[b] \in BuildJob /\ bld[b].id \in Ids
  <2>1. pc[b] \in Inside
    BY <1>1 DEF BuildStep, BuildLocked, BuildRead, BuildKeep, BuildFinish, BuildInstall, BuildCarryOver,
      BuildExchange,
      BuildMoveOld, BuildMoveNew, BuildUndo, BuildDropOld, BuildLink, BuildFail, Take, Inside
  <2>2. lock = b
    BY <1>0, <2>1 DEF MutualExclusion
  <2>3. pc[b] # "idle"
    BY <2>1 DEF Inside
  <2>4. bld[b] \in BuildJob
    BY <1>0, <2>3
  <2>. QED  BY <2>1, <2>2, <2>4 DEF BuildJob
<1>2. CASE BuildStart(b)
  <2>1. OthersStay(b) /\ pc'[b] = "build_wait"
    BY <1>0, <1>2, SMT DEF BuildStart, Start, OthersStay, TypeOK, JobTypes
  <2>2. NoTrash' /\ Kept /\ UNCHANGED <<current, latest>>
    BY <1>2 DEF BuildStart, Start, disk, Linked, NoTrash, Kept, Recorded
  <2>3. BuilderLinked(b)'
    BY <2>1, OutsideLinked DEF Inside
  <2>. QED  BY <1>0, <2>1, <2>2, <2>3, CalmStep
<1>3. CASE BuildLocked(b)
  <2>1. OthersStay(b) /\ pc'[b] = "reading"
    BY <1>0, <1>3, SMT DEF BuildLocked, Take, OthersStay, TypeOK, JobTypes
  <2>2. UNCHANGED <<builds, trash>>
    BY <1>3, NothingRestored DEF BuildLocked, Linked
  <2>3. NoTrash' /\ Kept /\ UNCHANGED <<current, latest>>
    BY <1>3, <2>2 DEF BuildLocked, Linked, NoTrash, Kept, Recorded
  <2>4. BuilderLinked(b)'
    BY <2>1 DEF BuilderLinked
  <2>. QED  BY <1>0, <2>1, <2>3, <2>4, CalmStep
<1>12. CASE BuildRead(b)
  <2>1. OthersStay(b) /\ pc'[b] = "building"
    BY <1>0, <1>12, SMT DEF BuildRead, OthersStay, TypeOK, JobTypes
  <2>2. NoTrash' /\ Kept /\ UNCHANGED <<current, latest>>
    BY <1>12 DEF BuildRead, disk, Linked, NoTrash, Kept, Recorded
  <2>3. BuilderLinked(b)'
    BY <2>1 DEF BuilderLinked
  <2>. QED  BY <1>0, <2>1, <2>2, <2>3, CalmStep
<1>4. CASE BuildKeep(b)
  <2>1. OthersStay(b) /\ pc'[b] = "build_link" /\ bld'[b] = bld[b]
    BY <1>0, <1>4, SMT DEF BuildKeep, OthersStay, local
  <2>. DEFINE old == builds[bld[b].id]
              new == [old EXCEPT !.exports = exports]
  <2>2. bld[b] \in BuildJob /\ bld[b].id \in Ids
    BY <1>1, <1>4 DEF BuildStep, BuildRead, BuildKeep
  <2>3. old \in Tree
    BY <1>4, <2>2 DEF BuildKeep, TypeOK, DiskTypes
  <2>4. old.bytes \in Ids
    BY <1>4, <2>2 DEF BuildKeep, BuildJob
  <2>5. new.bytes = old.bytes /\ new \in Tree
    BY <2>3, SMT DEF Tree, TypeOK, ControlTypes
  <2>6. builds' = [builds EXCEPT ![bld[b].id] = new]
    BY <1>4 DEF BuildKeep
  <2>. HIDE DEF new, old
  <2>7. Recorded(new)
    BY <2>4, <2>5, NoneIsNothing DEF Recorded
  <2>8. builds'[bld[b].id] = new /\ \A id \in Ids \ {bld[b].id} : builds'[id] = builds[id]
    BY <2>2, <2>6 DEF TypeOK, DiskTypes
  <2>9. NoTrash' /\ Kept /\ UNCHANGED <<current, latest>>
    BY <1>4, <2>7, <2>8 DEF BuildKeep, Linked, NoTrash, Kept, Recorded
  <2>10. BuilderLinked(b)'
    BY <2>1, <2>7, <2>8 DEF BuilderLinked, Recorded
  <2>. QED  BY <1>0, <2>1, <2>9, <2>10, CalmStep
<1>5. CASE BuildFinish(b)
  <2>1. Recorded(bld'[b].tree)
    BY <1>5, FinishedRecorded
  <2>2. OthersStay(b) /\ pc'[b] = "built"
    <3>1. \A y \in Builders \ {b} : bld'[y] = bld[y]
      BY <1>5, FinishedJob
    <3>. QED  BY <1>0, <1>5, <3>1, SMT DEF BuildFinish, OthersStay
  <2>3. NoTrash' /\ Kept /\ UNCHANGED <<current, latest>>
    BY <1>5 DEF BuildFinish, disk, Linked, NoTrash, Kept, Recorded
  <2>4. BuilderLinked(b)'
    BY <2>1, <2>2 DEF BuilderLinked, Recorded
  <2>. QED  BY <1>0, <2>2, <2>3, <2>4, CalmStep
<1>6. CASE BuildCarryOver(b)
  <2>1. Recorded(bld'[b].tree)
    BY <1>6, CarriedRecorded DEF BuildCarryOver, Linked, BuilderLinked
  <2>2. OthersStay(b) /\ pc'[b] = "swap"
    <3>1. \A y \in Builders \ {b} : bld'[y] = bld[y]
      BY <1>6, CarriedJob
    <3>. QED  BY <1>0, <1>6, <3>1, SMT DEF BuildCarryOver, OthersStay
  <2>3. NoTrash' /\ Kept /\ UNCHANGED <<current, latest>>
    BY <1>6 DEF BuildCarryOver, disk, Linked, NoTrash, Kept, Recorded
  <2>4. BuilderLinked(b)'
    BY <2>1, <2>2 DEF BuilderLinked, Recorded
  <2>. QED  BY <1>0, <2>2, <2>3, <2>4, CalmStep
<1>7. CASE BuildInstall(b) \/ BuildExchange(b)
  <2>1. /\ bld[b].id \in Ids /\ Recorded(bld[b].tree)
        /\ builds' = [builds EXCEPT ![bld[b].id] = bld[b].tree]
        /\ UNCHANGED <<trash, current, latest, bld, col>>
    BY <1>1, <1>7 DEF BuildStep, BuildInstall, BuildExchange, Linked, BuilderLinked, local
  <2>2. builds'[bld[b].id] = bld[b].tree /\ \A id \in Ids \ {bld[b].id} : builds'[id] = builds[id]
    BY <2>1 DEF TypeOK, DiskTypes
  <2>3. OthersStay(b) /\ pc'[b] \in {"drop_old", "build_link"}
    BY <1>0, <1>7, <2>1, SMT DEF BuildInstall, BuildExchange, OthersStay
  <2>4. NoTrash' /\ Kept /\ UNCHANGED <<current, latest>>
    BY <2>1, <2>2 DEF Linked, NoTrash, Kept, Recorded
  <2>5. BuilderLinked(b)'
    BY <2>1, <2>2, <2>3 DEF BuilderLinked, Recorded
  <2>. QED  BY <1>0, <2>3, <2>4, <2>5, CalmStep
<1>8. CASE BuildMoveOld(b) \/ BuildMoveNew(b) \/ BuildUndo(b)
  BY <1>8 DEF BuildMoveOld, BuildMoveNew, BuildUndo, Linked, BuilderLinked
<1>9. CASE BuildDropOld(b)
  <2>1. OthersStay(b) /\ pc'[b] = "build_link" /\ bld'[b] = bld[b]
    BY <1>0, <1>9, SMT DEF BuildDropOld, OthersStay, local
  <2>2. NoTrash'
    BY <1>9, Zenon DEF BuildDropOld, Linked, NoTrash, TypeOK, DiskTypes
  <2>3. Kept /\ UNCHANGED <<builds, current, latest>>
    BY <1>9 DEF BuildDropOld, Kept, Recorded
  <2>4. BuilderLinked(b)'
    BY <1>9, <2>1, <2>3 DEF BuildDropOld, Linked, BuilderLinked, Recorded
  <2>. QED  BY <1>0, <2>1, <2>2, <2>3, <2>4, CalmStep
<1>10. CASE BuildLink(b)
  <2>1. /\ lock = b /\ bld[b].id \in Ids /\ Recorded(builds[bld[b].id]) /\ latest' = bld[b].id
        /\ UNCHANGED <<builds, trash, current>>
    BY <1>1, <1>10 DEF BuildStep, BuildLink, Linked, BuilderLinked
  <2>2. OthersStay(b) /\ pc'[b] = "idle"
    BY <1>0, <1>10, SMT DEF BuildLink, OthersStay, TypeOK, JobTypes
  <2>3. \A x \in Builders \cup Collectors : x # b => pc[x] \notin Inside
    BY <1>0, <2>1, OneInside
  <2>4. \A x \in Builders : BuilderLinked(x)'
    <3>1. BuilderLinked(b)'
      BY <2>2, OutsideLinked DEF Inside
    <3>. QED  BY <2>2, <2>3, <3>1, BuilderStays DEF OthersStay, Linked
  <2>5. \A g \in Collectors : CollectorLinked(g)'
    BY <1>0, <2>2, <2>3, CollectorStays DEF OthersStay, Linked
  <2>6. NoTrash' /\ LinksResolve'
    BY <2>1 DEF Linked, NoTrash, LinksResolve, Recorded
  <2>. QED  BY <2>4, <2>5, <2>6 DEF Linked
<1>11. CASE BuildFail(b)
  <2>1. OthersStay(b) /\ pc'[b] = "idle"
    BY <1>0, <1>11, SMT DEF BuildFail, OthersStay, TypeOK, JobTypes
  <2>2. NoTrash' /\ Kept /\ UNCHANGED <<current, latest>>
    BY <1>11 DEF BuildFail, Linked, NoTrash, Kept, Recorded
  <2>3. BuilderLinked(b)'
    BY <2>1, OutsideLinked DEF Inside
  <2>. QED  BY <1>0, <2>1, <2>2, <2>3, CalmStep
<1>. QED  BY <1>2, <1>3, <1>4, <1>5, <1>6, <1>7, <1>8, <1>9, <1>10, <1>11, <1>12 DEF BuildStep

\* A promote links a build that has its strict pass, and with it a manifest.
LEMMA PromoterLinks ==
  ASSUME Store, Chosen, Linked, NEW p \in Promoters, PromoteStart(p) \/ PromoteStep(p)
  PROVE  Linked'
<1>. USE DEF Store, Goto
<1>0. /\ p \in Procs /\ p \notin Builders \cup Collectors
      /\ Builders \subseteq Procs /\ Collectors \subseteq Procs
      /\ pc \in [Procs -> Inside \cup Waiting \cup
                          {"idle", "open", "examine", "resolved", "swept", "starting", "serving"}]
  BY RolesDisjoint DEF Procs, Lockers, TypeOK, ControlTypes
<1>1. OthersStay(p) /\ UNCHANGED latest
  BY <1>0, SMT DEF PromoteStep, PromoteStart, PromoteLocked, PromoteChoose, PromoteRefuse, PromoteLink, Start,
                   Take, OthersStay, disk, local
<1>2. CASE PromoteLocked(p)
  <2>1. UNCHANGED <<builds, trash>>
    BY <1>2, NothingRestored DEF PromoteLocked, Linked
  <2>2. NoTrash' /\ Kept /\ UNCHANGED current
    BY <1>2, <2>1 DEF PromoteLocked, Linked, NoTrash, Kept, Recorded
  <2>. QED  BY <1>0, <1>1, <2>2, CalmStep
<1>3. CASE PromoteStart(p) \/ PromoteChoose(p) \/ PromoteRefuse(p)
  <2>1. NoTrash' /\ Kept /\ UNCHANGED current
    BY <1>3 DEF PromoteStart, PromoteChoose, PromoteRefuse, Start, disk, Linked, NoTrash, Kept, Recorded
  <2>. QED  BY <1>0, <1>1, <2>1, CalmStep
<1>4. CASE PromoteLink(p)
  <2>1. /\ lock = p
        /\ current' \in Ids /\ Recorded(builds[current']) /\ UNCHANGED <<builds, trash>>
    <3>1. lock = p
      BY <1>0, <1>4 DEF PromoteLink, MutualExclusion, Inside
    <3>. QED  BY <1>4, <3>1 DEF PromoteLink, Chosen, StrictPass
  <2>2. \A x \in Builders \cup Collectors : pc[x] \notin Inside
    BY <1>0, <2>1, OneInside
  <2>3. \A x \in Builders : BuilderLinked(x)'
    BY <1>0, <1>1, <2>2, BuilderStays DEF OthersStay, Linked
  <2>4. \A g \in Collectors : CollectorLinked(g)'
    BY <1>0, <1>1, <2>2, CollectorStays DEF OthersStay, Linked
  <2>5. NoTrash' /\ LinksResolve'
    BY <1>1, <2>1 DEF Linked, NoTrash, LinksResolve, Recorded
  <2>. QED  BY <2>3, <2>4, <2>5 DEF Linked
<1>. QED  BY <1>2, <1>3, <1>4 DEF PromoteStep

\* A gc reads both links under the lock, and what it then removes is behind neither.
LEMMA CollectorLinks ==
  ASSUME Store, Linked, NEW g \in Collectors, GcStart(g) \/ GcStep(g)
  PROVE  Linked'
<1>. USE DEF Store, Goto
<1>0. /\ g \in Procs /\ g \notin Builders /\ Builders \subseteq Procs /\ Collectors \subseteq Procs
      /\ pc \in [Procs -> Inside \cup Waiting \cup
                          {"idle", "open", "examine", "resolved", "swept", "starting", "serving"}]
  BY RolesDisjoint DEF Procs, Lockers, TypeOK, ControlTypes
<1>1. OthersStay(g) /\ UNCHANGED <<current, latest>>
  <2>1. GcPick(g) => OthersStay(g)
    <3>1. GcPick(g) => /\ UNCHANGED pc \/ pc' = [pc EXCEPT ![g] = "erase"]
                       /\ UNCHANGED bld /\ \A h \in Collectors \ {g} : col'[h] = col[h]
      BY SMT DEF GcPick, TypeOK, JobTypes
    <3>. QED  BY <1>0, <3>1, SMT DEF OthersStay
  <2>2. ~GcPick(g) => OthersStay(g)
    BY <1>0, SMT DEF GcStep, GcStart, GcLocked, GcScan, GcErase, GcRemove, GcSweep, Start, Take, OthersStay,
                     local, TypeOK, JobTypes
  <2>. QED  BY <2>1, <2>2 DEF GcStep, GcStart, GcLocked, GcScan, GcPick, GcErase, GcRemove, GcSweep, Start, disk
<1>2. pc[g] # "idle" => col[g] \in CollectJob
  BY DEF TypeOK, JobTypes, JobsOfRunning
<1>3. LinkTarget(current) = current /\ LinkTarget(latest) = latest
  <2>1. current \in Ids \cup {None} /\ latest \in Ids \cup {None}
    BY DEF TypeOK, DiskTypes
  <2>. QED  BY <2>1 DEF LinkTarget, Linked, LinksResolve, Recorded
<1>4. CASE GcStart(g)
  <2>1. NoTrash' /\ Kept /\ pc'[g] \notin Inside
    BY <1>0, <1>4 DEF GcStart, Start, disk, Linked, NoTrash, Kept, Recorded, Inside
  <2>. QED  BY <1>0, <1>1, <2>1, OutsideLinked, CalmStep
<1>5. CASE GcLocked(g)
  <2>1. UNCHANGED <<builds, trash>>
    BY <1>5, NothingRestored DEF GcLocked, Linked
  <2>2. NoTrash' /\ Kept
    BY <2>1 DEF Linked, NoTrash, Kept, Recorded
  <2>3. pc'[g] = "scan" /\ col'[g].current = current
    BY <1>0, <1>2, <1>3, <1>5, SMT DEF GcLocked, Take, TypeOK, JobTypes, CollectJob
  <2>4. CollectorLinked(g)'
    BY <1>1, <2>3 DEF CollectorLinked
  <2>. QED  BY <1>0, <1>1, <2>2, <2>4, CalmStep
<1>6. CASE GcScan(g)
  <2>1. NoTrash' /\ Kept
    BY <1>6 DEF GcScan, disk, Linked, NoTrash, Kept, Recorded
  <2>2. pc'[g] = "pick" /\ col'[g].current = current /\ col'[g].latest = latest
    <3>1. PICK l, T : col' = [col EXCEPT ![g].latest = l, ![g].todo = T] /\ l = latest
      BY <1>3, <1>6 DEF GcScan
    <3>2. col[g].current = current /\ col[g] \in CollectJob /\ pc'[g] = "pick"
      BY <1>0, <1>2, <1>6 DEF GcScan, Linked, CollectorLinked
    <3>. QED  BY <3>1, <3>2, SMT DEF TypeOK, JobTypes, CollectJob
  <2>3. CollectorLinked(g)'
    BY <1>1, <2>2 DEF CollectorLinked
  <2>. QED  BY <1>0, <1>1, <2>1, <2>3, CalmStep
<1>7. CASE GcPick(g)
  <2>1. NoTrash' /\ Kept
    BY <1>7 DEF GcPick, disk, Linked, NoTrash, Kept, Recorded
  <2>2. col[g] \in CollectJob /\ col[g].current = current /\ col[g].latest = latest
    BY <1>2, <1>7 DEF GcPick, Linked, CollectorLinked
  <2>3. PICK id \in col[g].todo :
          \/ col' = [col EXCEPT ![g].todo = @ \ {id}] /\ UNCHANGED pc
          \/ /\ ~Held(g, id)
             /\ col' = [col EXCEPT ![g].todo = @ \ {id}, ![g].victim = id]
             /\ pc' = [pc EXCEPT ![g] = "erase"]
    BY <1>7, Zenon DEF GcPick
  <2>4. CASE col' = [col EXCEPT ![g].todo = @ \ {id}] /\ UNCHANGED pc
    <3>1. col'[g].current = current /\ col'[g].latest = latest /\ pc'[g] = "pick"
      BY <1>7, <2>2, <2>4, SMT DEF GcPick, TypeOK, JobTypes, CollectJob
    <3>2. CollectorLinked(g)'
      BY <1>1, <3>1 DEF CollectorLinked
    <3>. QED  BY <1>0, <1>1, <2>1, <3>2, CalmStep
  <2>5. CASE /\ ~Held(g, id)
             /\ col' = [col EXCEPT ![g].todo = @ \ {id}, ![g].victim = id]
             /\ pc' = [pc EXCEPT ![g] = "erase"]
    <3>1. /\ col'[g].current = current /\ col'[g].latest = latest
          /\ col'[g].victim = id /\ pc'[g] = "erase"
      BY <1>0, <2>2, <2>5, SMT DEF TypeOK, JobTypes, CollectJob
    <3>2. id \notin {current, latest}
      BY <2>2, <2>5 DEF Held
    <3>3. CollectorLinked(g)'
      BY <1>1, <3>1, <3>2 DEF CollectorLinked
    <3>. QED  BY <1>0, <1>1, <2>1, <3>3, CalmStep
  <2>. QED  BY <2>3, <2>4, <2>5
<1>8. CASE GcErase(g) \/ GcRemove(g)
  <2>1. /\ col[g].current = current /\ col[g].latest = latest /\ col[g].victim \notin {current, latest}
        /\ col[g] \in CollectJob /\ lock = g
    <3>1. lock = g
      BY <1>0, <1>8 DEF GcErase, GcRemove, MutualExclusion, Inside
    <3>. QED  BY <1>2, <1>8, <3>1 DEF GcErase, GcRemove, Linked, CollectorLinked
  <2>2. /\ \A id \in Ids : id # col[g].victim => builds'[id] = builds[id]
        /\ UNCHANGED trash
    <3>1. \E t : builds' = [builds EXCEPT ![col[g].victim] = t]
      BY <1>8 DEF GcErase, GcRemove
    <3>. QED  BY <1>8, <3>1 DEF GcErase, GcRemove, TypeOK, DiskTypes
  <2>3. \A b \in Builders : BuilderLinked(b)'
    <3>1. \A b \in Builders : pc[b] \notin Inside
      BY <1>0, <2>1, OneInside
    <3>. QED  BY <1>0, <1>1, <3>1, BuilderStays DEF OthersStay, Linked
  <2>4. LinksResolve'
    <3>1. current \in Ids \cup {None} /\ latest \in Ids \cup {None}
      BY DEF TypeOK, DiskTypes
    <3>. QED  BY <1>1, <2>1, <2>2, <3>1 DEF Linked, LinksResolve, Recorded
  <2>5. CollectorLinked(g)'
    <3>1. CASE GcErase(g)
      BY <1>0, <1>1, <2>1, <3>1 DEF GcErase, local, CollectorLinked
    <3>2. CASE GcRemove(g)
      <4>1. pc'[g] = "pick" /\ col'[g].current = current /\ col'[g].latest = latest
        BY <1>0, <2>1, <3>2, SMT DEF GcRemove, TypeOK, JobTypes, CollectJob
      <4>. QED  BY <1>1, <4>1 DEF CollectorLinked
    <3>. QED  BY <1>8, <3>1, <3>2
  <2>6. \A h \in Collectors : CollectorLinked(h)'
    BY <1>1, <2>5, CollectorStays DEF OthersStay, Linked
  <2>. QED  BY <2>2, <2>3, <2>4, <2>6 DEF Linked, NoTrash
<1>9. CASE GcSweep(g)
  <2>1. NoTrash' /\ Kept /\ pc'[g] \notin Inside
    BY <1>0, <1>9 DEF GcSweep, Linked, NoTrash, Kept, Recorded, Inside
  <2>. QED  BY <1>0, <1>1, <2>1, OutsideLinked, CalmStep
<1>. QED  BY <1>4, <1>5, <1>6, <1>7, <1>8, <1>9 DEF GcStep

\* A check writes contract.json and a launcher writes pidfiles: neither touches a manifest.
LEMMA ReaderLinks ==
  ASSUME Store, Linked,
         \/ \E c \in Checkers : CheckStart(c) \/ CheckStep(c)
         \/ \E s \in Servers : ServeResolve(s) \/ ServeStep(s)
  PROVE  Linked'
<1>. USE DEF Store, Goto
<1>0. /\ Checkers \subseteq Procs /\ Servers \subseteq Procs
      /\ pc \in [Procs -> Inside \cup Waiting \cup
                          {"idle", "open", "examine", "resolved", "swept", "starting", "serving"}]
      /\ \A q \in Checkers \cup Servers : q \notin Builders \cup Collectors
  BY RolesDisjoint DEF Procs, Lockers, TypeOK, ControlTypes
<1>1. ASSUME NEW c \in Checkers, CheckStart(c) \/ CheckStep(c)
      PROVE  Linked'
  <2>1. OthersStay(c) /\ UNCHANGED <<trash, current, latest>>
    <3>1. UNCHANGED <<trash, current, latest, bld, col>>
      BY <1>1 DEF CheckStep, CheckStart, CheckOpen, CheckExamine, CheckRecord, CheckAbort, Start, disk
    <3>2. PICK l : pc' = [pc EXCEPT ![c] = l]
      BY <1>1, OwnStep
    <3>3. \A x \in (Builders \cup Collectors) \ {c} : pc'[x] = pc[x]
      BY <1>0, <3>2 DEF Procs, Lockers
    <3>. QED  BY <3>1, <3>3 DEF OthersStay
  <2>2. Kept
    <3>1. CASE UNCHANGED builds
      BY <3>1 DEF Kept, Recorded
    <3>2. CASE CheckRecord(c) /\ ~UNCHANGED builds
      <4>1. builds' = [builds EXCEPT ![chk[c].id].contract = chk[c].doc] /\ chk[c].id \in Ids
        BY <3>2, SMT DEF CheckRecord, Placed
      <4>2. ASSUME NEW id \in Ids, Recorded(builds[id])
            PROVE  Recorded(builds[id])'
        <5>1. builds[id] \in Tree
          BY <4>2 DEF Recorded, TypeOK, DiskTypes
        <5>. DEFINE u == [builds[id] EXCEPT !.contract = chk[c].doc]
        <5>2. u.bytes = builds[id].bytes /\ u # None
          <6>1. chk[c].doc \in Contract
            BY <3>2 DEF CheckRecord, Placed
          <6>2. u \in Tree
            BY <5>1, <6>1, Zenon DEF Tree
          <6>. QED  BY <5>1, <6>2, NoneIsNothing, SMT DEF Tree
        <5>3. builds'[id] \in {builds[id], u}
          BY <4>1, SMT DEF TypeOK, DiskTypes
        <5>. HIDE DEF u
        <5>. QED  BY <4>2, <5>2, <5>3 DEF Recorded
      <4>. QED  BY <4>2 DEF Kept
    <3>. QED  BY <1>1, <3>1, <3>2 DEF CheckStep, CheckStart, CheckOpen, CheckExamine, CheckAbort, Start, disk
  <2>. QED  BY <1>0, <2>1, <2>2, CalmStep DEF Linked, NoTrash
<1>2. ASSUME NEW s \in Servers, ServeResolve(s) \/ ServeStep(s)
      PROVE  Linked'
  <2>1. OthersStay(s) /\ UNCHANGED <<trash, current, latest>>
    <3>1. UNCHANGED <<trash, current, latest, bld, col>>
      BY <1>2 DEF ServeStep, ServeResolve, ServeSweep, ServePidfile, ServeOpen, ServeStop, Start, disk, local
    <3>2. PICK l : pc' = [pc EXCEPT ![s] = l]
      BY <1>2, OwnStep
    <3>3. \A x \in (Builders \cup Collectors) \ {s} : pc'[x] = pc[x]
      BY <1>0, <3>2 DEF Procs, Lockers
    <3>. QED  BY <3>1, <3>3 DEF OthersStay
  <2>2. Kept
    <3>1. CASE ServeSweep(s) \/ ServePidfile(s)
      BY <3>1, SweptBuilds DEF Kept, Recorded
    <3>2. CASE ~ServeSweep(s) /\ ~ServePidfile(s)
      BY <1>2, <3>2 DEF ServeStep, ServeResolve, ServeOpen, ServeStop, Start, disk, Kept, Recorded
    <3>. QED  BY <3>1, <3>2
  <2>. QED  BY <1>0, <2>1, <2>2, CalmStep DEF Linked, NoTrash
<1>. QED  BY <1>1, <1>2

\* A process that dies or gives up leaves both links and every manifest where they are.
LEMMA SurroundingLinks ==
  ASSUME Store, Linked,
         \/ \E p \in Builders \cup Collectors, d \in Ids \X Builders : Erode(p, d)
         \/ \E p \in Procs : LockTimeout(p) \/ Crash(p)
         \/ EditSources \/ EditExports \/ LoseDatabase
  PROVE  Linked'
<1>. USE DEF Store, Goto
<1>1. \A p \in Builders \cup Collectors, d \in Ids \X Builders : ~Erode(p, d)
  BY DEF Erode, Linked, NoTrash
<1>2. ASSUME NEW p \in Procs, LockTimeout(p) \/ Crash(p)
      PROVE  Linked'
  <2>1. OthersStay(p)
    BY <1>2, SMT DEF LockTimeout, Crash, Forget, OthersStay, TypeOK, ControlTypes, Procs, Lockers
  <2>2. NoTrash' /\ Kept /\ UNCHANGED <<current, latest>>
    BY <1>2 DEF LockTimeout, Crash, disk, Linked, NoTrash, Kept, Recorded
  <2>3. pc'[p] \notin Inside
    BY <1>2 DEF LockTimeout, Crash, TypeOK, ControlTypes, Inside
  <2>. QED  BY <2>1, <2>2, <2>3, OutsideLinked, CalmStep
<1>3. CASE EditSources \/ EditExports \/ LoseDatabase
  <2>1. UNCHANGED <<trash, current, latest, pc, bld, col>>
    BY <1>3 DEF EditSources, EditExports, LoseDatabase, Edit, local
  <2>2. Kept
    BY <1>3, LostDatabase DEF EditSources, EditExports, Kept, Recorded
  <2>3. NoTrash' /\ OthersStay(None) /\ None \notin Builders \cup Collectors
    BY <2>1, NoneIsNothing DEF Linked, NoTrash, OthersStay, Procs, Lockers
  <2>. QED  BY <2>1, <2>2, <2>3, CalmStep
<1>. QED  BY <1>1, <1>2, <1>3

LEMMA LinkedStep == HasExchange /\ Store /\ Chosen /\ Linked /\ [Next]_vars => Linked'
<1>1. ASSUME Linked, UNCHANGED vars
      PROVE  Linked'
  BY <1>1 DEF vars, disk, local, Linked, NoTrash, LinksResolve, BuilderLinked, CollectorLinked, Recorded
<1>. QED  BY <1>1, BuilderLinks, PromoterLinks, CollectorLinks, ReaderLinks, SurroundingLinks DEF Next

\* With an exchange call `current' and `latest' lead to a build with a manifest at every instant, whoever
\* replaces, promotes, collects or dies (replace_dir by exchange, update_link, gc).
THEOREM LinksAlwaysResolve ==
  ASSUME HasExchange
  PROVE  Spec => []LinksResolve
<1>1. Init => Chosen /\ Linked
  BY SMT DEF Init, Chosen, Linked, NoTrash, LinksResolve, BuilderLinked, CollectorLinked, Procs, Lockers
<1>2. Store /\ Chosen /\ Linked /\ [Next]_vars => Linked'
  BY LinkedStep
<1>3. Linked => LinksResolve
  BY DEF Linked
<1>. QED  BY <1>1, <1>2, <1>3, StoreInit, StoreStep, ChosenStep, PTL DEF Spec

\* With an exchange call gc never removes a build that `current' or `latest' points at; without one it may, since
\* it follows `current' before it puts the orphans back (gc).
THEOREM GcSparesLinks ==
  ASSUME HasExchange
  PROVE  Spec => GcSparesLinked
<1>1. Init => Chosen /\ Linked
  BY SMT DEF Init, Chosen, Linked, NoTrash, LinksResolve, BuilderLinked, CollectorLinked, Procs, Lockers
<1>2. Linked => [\A g \in Collectors :
                   pc[g] = "remove" /\ pc'[g] = "pick" => col[g].victim \notin {current, latest}]_vars
  BY DEF Linked, CollectorLinked
<1>3. Store /\ Chosen /\ Linked /\ [Next]_vars => Linked'
  BY LinkedStep
<1>. QED  BY <1>1, <1>2, <1>3, StoreInit, StoreStep, ChosenStep, PTL DEF Spec, GcSparesLinked

-----------------------------------------------------------------------------
\* A step that changes nothing of what counts of a build; only a launcher makes a directory.
Same ==
  \A id \in Ids :
    /\ builds[id] # None => /\ builds'[id] # None
                            /\ builds'[id].bytes = builds[id].bytes
                            /\ builds'[id].exports = builds[id].exports
                            /\ builds'[id].contract = builds[id].contract
                            /\ builds'[id].built = builds[id].built
                            /\ builds'[id].whole = builds[id].whole
    /\ builds[id] = None /\ builds'[id] # None => /\ Servers # {}
                                                  /\ builds'[id].bytes = None /\ builds'[id].built = 0

Still == Same /\ UNCHANGED <<tmp, trash>> /\ (lock = None => lock' = None)

\* Who does not have the lock leaves the store as it is, or restores its orphans as it takes the lock, or
\* writes a record.
LEMMA StepKinds ==
  ASSUME Store, [Next]_vars
  PROVE  \/ Still
         \/ /\ lock = None /\ RestoreOrphans
            /\ UNCHANGED tmp \/ \E b \in Builders : BuildLocked(b)
         \/ \E c \in Checkers : CheckRecord(c)
         \/ \E b \in Builders : lock = b /\ BuildStep(b)
         \/ \E g \in Collectors : lock = g /\ (GcErase(g) \/ GcRemove(g) \/ GcSweep(g))
         \/ \E p \in Builders \cup Collectors, d \in Ids \X Builders : lock = p /\ Erode(p, d)
<1>. USE DEF Store
<1>. DEFINE Restoring == /\ lock = None /\ RestoreOrphans
                         /\ UNCHANGED tmp \/ \E b \in Builders : BuildLocked(b)
            Calm == UNCHANGED <<builds, tmp, trash>> /\ (lock = None => lock' = None)
<1>1. Calm => Still
  BY DEF Still, Same
<1>2. \A p \in Lockers : p # None /\ (pc[p] \in Inside => lock = p)
  BY NoneIsNothing DEF MutualExclusion, Procs
<1>3. ASSUME NEW b \in Builders, BuildStart(b) \/ BuildStep(b)
      PROVE  Calm \/ Restoring \/ (lock = b /\ BuildStep(b))
  <2>1. CASE BuildStart(b)
    BY <2>1 DEF BuildStart, Start, disk
  <2>2. CASE BuildLocked(b)
    BY <2>2 DEF BuildLocked, Take
  <2>3. CASE BuildStep(b) /\ ~BuildLocked(b)
    <3>1. pc[b] \in Inside
      BY <2>3 DEF BuildStep, BuildRead, BuildKeep, BuildFinish, BuildInstall, BuildCarryOver, BuildExchange,
        BuildMoveOld, BuildMoveNew, BuildUndo, BuildDropOld, BuildLink, BuildFail, Inside
    <3>. QED  BY <1>2, <2>3, <3>1 DEF Lockers
  <2>. QED  BY <1>3, <2>1, <2>2, <2>3
<1>4. ASSUME NEW p \in Promoters, PromoteStart(p) \/ PromoteStep(p)
      PROVE  Calm \/ Restoring
  <2>1. CASE PromoteStart(p)
    BY <2>1 DEF PromoteStart, Start, disk
  <2>2. CASE PromoteLocked(p)
    BY <2>2 DEF PromoteLocked, Take
  <2>3. CASE PromoteChoose(p) \/ PromoteRefuse(p) \/ PromoteLink(p)
    <3>1. pc[p] \in Inside
      BY <2>3 DEF PromoteChoose, PromoteRefuse, PromoteLink, Inside
    <3>2. lock # None
      BY <1>2, <3>1 DEF Lockers
    <3>. QED  BY <2>3, <3>2 DEF PromoteChoose, PromoteRefuse, PromoteLink, disk
  <2>. QED  BY <1>4, <2>1, <2>2, <2>3 DEF PromoteStep
<1>5. ASSUME NEW g \in Collectors, GcStart(g) \/ GcStep(g)
      PROVE  Calm \/ Restoring \/ (lock = g /\ (GcErase(g) \/ GcRemove(g) \/ GcSweep(g)))
  <2>1. CASE GcStart(g) \/ GcScan(g) \/ GcPick(g)
    BY <2>1 DEF GcStart, GcScan, GcPick, Start, disk
  <2>2. CASE GcLocked(g)
    BY <2>2 DEF GcLocked, Take
  <2>3. CASE GcErase(g) \/ GcRemove(g) \/ GcSweep(g)
    <3>1. pc[g] \in Inside
      BY <2>3 DEF GcErase, GcRemove, GcSweep, Inside
    <3>. QED  BY <1>2, <2>3, <3>1 DEF Lockers
  <2>. QED  BY <1>5, <2>1, <2>2, <2>3 DEF GcStep
<1>6. ASSUME NEW c \in Checkers, CheckStart(c) \/ CheckStep(c)
      PROVE  Calm \/ CheckRecord(c)
  BY <1>6 DEF CheckStep, CheckStart, CheckOpen, CheckExamine, CheckAbort, Start, disk
<1>7. ASSUME NEW s \in Servers, ServeResolve(s) \/ ServeStep(s)
      PROVE  Still
  <2>1. CASE ServeSweep(s) \/ ServePidfile(s)
    <3>1. UNCHANGED <<tmp, trash, lock>>
      BY <2>1 DEF ServeSweep, ServePidfile
    <3>2. Servers # {}
      OBVIOUS
    <3>. QED  BY <2>1, <3>1, <3>2, SweptBuilds DEF Still, Same
  <2>2. CASE ~ServeSweep(s) /\ ~ServePidfile(s)
    BY <1>1, <1>7, <2>2 DEF ServeStep, ServeResolve, ServeOpen, ServeStop, Start, disk
  <2>. QED  BY <2>1, <2>2
<1>8. ASSUME NEW p \in Procs, LockTimeout(p) \/ Crash(p)
      PROVE  Calm
  BY <1>8 DEF LockTimeout, Crash, Release, disk
<1>9. ASSUME NEW p \in Builders \cup Collectors, NEW d \in Ids \X Builders, Erode(p, d)
      PROVE  lock = p
  BY <1>2, <1>9 DEF Erode, Inside, Lockers
<1>10. CASE EditSources \/ EditExports \/ UNCHANGED vars
  BY <1>1, <1>10 DEF EditSources, EditExports, Edit, vars, disk
<1>11. CASE LoseDatabase
  <2>1. UNCHANGED <<tmp, trash, lock>>
    BY <1>11 DEF LoseDatabase, Edit
  <2>. QED  BY <1>11, <2>1, LostDatabase DEF Still, Same
<1>. HIDE DEF Calm
<1>12. CASE Next
  <2>1. CASE \E b \in Builders : BuildStart(b) \/ BuildStep(b)
    BY <1>1, <1>3, <2>1
  <2>2. CASE \E p \in Promoters : PromoteStart(p) \/ PromoteStep(p)
    BY <1>1, <1>4, <2>2
  <2>3. CASE \E g \in Collectors : GcStart(g) \/ GcStep(g)
    BY <1>1, <1>5, <2>3
  <2>4. CASE \E c \in Checkers : CheckStart(c) \/ CheckStep(c)
    BY <1>1, <1>6, <2>4
  <2>5. CASE \E p \in Builders \cup Collectors, d \in Ids \X Builders : Erode(p, d)
    BY <1>9, <2>5
  <2>6. CASE \E p \in Procs : LockTimeout(p) \/ Crash(p)
    BY <1>1, <1>8, <2>6
  <2>. QED  BY <1>7, <1>10, <1>11, <1>12, <2>1, <2>2, <2>3, <2>4, <2>5, <2>6 DEF Next
<1>. QED  BY <1>10, <1>12

\* A build that is there stays what it is, but for its replacement and for its removal by gc.
LEMMA WhoChanges ==
  ASSUME Store, [Next]_vars, NEW id \in Ids, builds[id] # None
  PROVE  \/ /\ builds'[id] # None /\ builds'[id].bytes = builds[id].bytes
            /\ builds'[id].built = builds[id].built /\ builds'[id].whole = builds[id].whole
         \/ \E b \in Builders : bld[b].id = id /\ (BuildExchange(b) \/ BuildMoveOld(b))
         \/ \E g \in Collectors : col[g].victim = id /\ (GcErase(g) \/ GcRemove(g))
<1>. DEFINE Stays == /\ builds'[id] # None /\ builds'[id].bytes = builds[id].bytes
                     /\ builds'[id].built = builds[id].built /\ builds'[id].whole = builds[id].whole
<1>0. \/ Still \/ RestoreOrphans
      \/ \E c \in Checkers : CheckRecord(c)
      \/ \E b \in Builders : BuildStep(b)
      \/ \E g \in Collectors : GcErase(g) \/ GcRemove(g) \/ GcSweep(g)
      \/ \E p \in Builders \cup Collectors, d \in Ids \X Builders : Erode(p, d)
  BY StepKinds
<1>. USE DEF Store
<1>1. builds \in [Ids -> Tree \cup {None}] /\ builds[id] \in Tree
  BY DEF TypeOK, DiskTypes
<1>2. builds'[id] = builds[id] => Stays
  OBVIOUS
<1>3. ASSUME RestoreOrphans PROVE Stays
  <2>1. PICK pick \in Picks :
          builds' = [i \in Ids |-> IF pick[i] = None THEN builds[i] ELSE trash[<<i, pick[i]>>]]
    BY <1>3 DEF RestoreOrphans
  <2>2. pick[id] = None
    BY <2>1 DEF Picks, Orphans
  <2>. QED  BY <1>2, <2>1, <2>2
<1>4. ASSUME NEW b \in Builders, BuildStep(b)
      PROVE  Stays \/ RestoreOrphans \/ (bld[b].id = id /\ (BuildExchange(b) \/ BuildMoveOld(b)))
  <2>1. CASE BuildExchange(b) \/ BuildMoveOld(b)
    <3>1. bld[b].id # id => builds'[id] = builds[id]
      BY <1>1, <2>1 DEF BuildExchange, BuildMoveOld
    <3>. QED  BY <1>2, <2>1, <3>1
  <2>2. CASE BuildInstall(b) \/ BuildMoveNew(b) \/ BuildUndo(b)
    <3>1. builds'[id] = builds[id]
      BY <1>1, <2>2 DEF BuildInstall, BuildMoveNew, BuildUndo
    <3>. QED  BY <1>2, <3>1
  <2>3. CASE BuildKeep(b)
    <3>. DEFINE u == [builds[id] EXCEPT !.exports = exports]
    <3>0. builds[id] \in Tree /\ exports \in Exports
      BY <1>1 DEF TypeOK, ControlTypes
    <3>1. u \in Tree /\ u.bytes = builds[id].bytes /\ u.built = builds[id].built /\ u.whole = builds[id].whole
      BY <3>0, Zenon DEF Tree
    <3>2. builds'[id] \in {builds[id], u}
      BY <1>1, <2>3 DEF BuildKeep
    <3>. HIDE DEF u
    <3>. QED  BY <1>1, <3>1, <3>2, NoneIsNothing
  <2>4. CASE BuildLocked(b)
    BY <2>4 DEF BuildLocked
  <2>5. CASE UNCHANGED builds
    BY <1>2, <2>5
  <2>. QED  BY <1>4, <2>1, <2>2, <2>3, <2>4, <2>5
            DEF BuildStep, BuildRead, BuildFinish, BuildCarryOver, BuildDropOld, BuildLink, BuildFail, disk
<1>5. ASSUME NEW g \in Collectors, GcErase(g) \/ GcRemove(g) \/ GcSweep(g)
      PROVE  Stays \/ (col[g].victim = id /\ (GcErase(g) \/ GcRemove(g)))
  <2>1. CASE GcErase(g) \/ GcRemove(g)
    <3>1. \E t : builds' = [builds EXCEPT ![col[g].victim] = t]
      BY <2>1 DEF GcErase, GcRemove
    <3>2. col[g].victim # id => builds'[id] = builds[id]
      BY <1>1, <3>1
    <3>. QED  BY <1>2, <2>1, <3>2
  <2>2. CASE GcSweep(g)
    BY <1>2, <2>2 DEF GcSweep
  <2>. QED  BY <1>5, <2>1, <2>2
<1>6. ASSUME NEW c \in Checkers, CheckRecord(c)
      PROVE  Stays
  <2>. DEFINE u == [builds[id] EXCEPT !.contract = chk[c].doc]
  <2>1. chk[c].doc \in Contract
    BY <1>6 DEF CheckRecord, Placed
  <2>2. u \in Tree /\ u.bytes = builds[id].bytes /\ u.built = builds[id].built /\ u.whole = builds[id].whole
    BY <1>1, <2>1, Zenon DEF Tree
  <2>3. builds'[id] \in {builds[id], u}
    BY <1>1, <1>6 DEF CheckRecord
  <2>. HIDE DEF u
  <2>. QED  BY <1>1, <2>2, <2>3, NoneIsNothing
<1>7. ASSUME Still PROVE Stays
  BY <1>7 DEF Still, Same
<1>8. ASSUME \E p \in Builders \cup Collectors, d \in Ids \X Builders : Erode(p, d) PROVE Stays
  BY <1>2, <1>8 DEF Erode
<1>. HIDE DEF Stays
<1>9. \/ Stays
      \/ \E b \in Builders : bld[b].id = id /\ (BuildExchange(b) \/ BuildMoveOld(b))
      \/ \E g \in Collectors : col[g].victim = id /\ (GcErase(g) \/ GcRemove(g))
  BY <1>0, <1>3, <1>4, <1>5, <1>6, <1>7, <1>8
<1>. QED  BY <1>9 DEF Stays

\* Few steps change what counts of a build.
LEMMA QuietSteps ==
  ASSUME HasExchange, Store, Linked, [Next]_vars
  PROVE  \/ Same
         \/ \E b \in Builders : BuildKeep(b) \/ BuildInstall(b) \/ BuildExchange(b)
         \/ \E g \in Collectors : GcErase(g) \/ GcRemove(g)
         \/ \E c \in Checkers : CheckRecord(c)
<1>1. UNCHANGED builds => Same
  BY DEF Same
<1>2. RestoreOrphans => UNCHANGED builds
  BY NothingRestored DEF Linked, Store
<1>3. ASSUME NEW b \in Builders, BuildStep(b)
      PROVE  UNCHANGED builds \/ BuildKeep(b) \/ BuildInstall(b) \/ BuildExchange(b)
  <2>1. ~BuildMoveOld(b) /\ ~BuildMoveNew(b) /\ ~BuildUndo(b)
    BY DEF BuildMoveOld, BuildMoveNew, BuildUndo, Linked, BuilderLinked
  <2>. QED  BY <1>2, <1>3, <2>1
            DEF BuildStep, BuildLocked, BuildRead, BuildFinish, BuildCarryOver, BuildDropOld, BuildLink, BuildFail, disk
<1>4. ASSUME \/ \E g \in Collectors : GcSweep(g)
             \/ \E q \in Builders \cup Collectors, d \in Ids \X Builders : Erode(q, d)
      PROVE  UNCHANGED builds
  BY <1>4 DEF GcSweep, Erode
<1>. QED  BY <1>1, <1>2, <1>3, <1>4, StepKinds DEF Still

\* A gc removes a build only while the newest Keep are others.  It takes the old ones in any order and half
\* removed ones have lost their built_at, so what must be kept in mind are the builds it did not list: they are
\* still there, and none of those it has listed, or is at, is newer.
Listed(g) == IF pc[g] = "pick" THEN col[g].todo ELSE col[g].todo \cup {col[g].victim}

Outlast(K, L) ==
  /\ Cardinality(K) >= Keep
  /\ \A k \in K : builds[k] # None
  /\ \A k \in K, id \in L : builds[id] # None => builds[k].built >= builds[id].built

Outlasted(g) == \E L : L = Listed(g) /\ (L = {} \/ \E K \in SUBSET (Ids \ L) : Outlast(K, L))

Aged == \A g \in Collectors : pc[g] \in {"pick", "erase", "remove"} => Outlasted(g)

\* Builds that are not listed and stay as old as they are outlast what is left of the list.
LEMMA OutlastStays ==
  ASSUME TypeOK, NEW L \in SUBSET Ids, NEW K \in SUBSET (Ids \ L), Outlast(K, L), NEW M \in SUBSET L,
         \A k \in Ids \ L : builds[k] # None => builds'[k] # None /\ builds'[k].built = builds[k].built,
         \A id \in M : builds'[id] # None => builds[id] # None /\ builds'[id].built \in {builds[id].built, 0}
  PROVE  Outlast(K, M)'
<1>1. \A id \in Ids : builds[id] # None => builds[id].built \in Nat
  BY DEF TypeOK, DiskTypes, Tree
<1>2. \A k \in K : builds'[k] # None /\ builds'[k].built = builds[k].built /\ builds[k].built \in Nat
  BY <1>1 DEF Outlast
<1>3. ASSUME NEW k \in K, NEW id \in M, builds'[id] # None
      PROVE  builds'[k].built >= builds'[id].built
  BY <1>1, <1>2, <1>3 DEF Outlast
<1>. QED  BY <1>2, <1>3 DEF Outlast

\* Only its own steps bring a gc to its next build.
LEMMA CollectsItself ==
  ASSUME Store, [Next]_vars, NEW g \in Collectors, pc'[g] \in {"pick", "erase", "remove"}
  PROVE  \/ GcScan(g) \/ GcPick(g) \/ GcErase(g) \/ GcRemove(g)
         \/ pc[g] = pc'[g] /\ col'[g] = col[g]
<1>. USE DEF Store, TypeOK, ControlTypes, Goto
<1>1. g \in Procs /\ g \notin Promoters \cup Builders \cup Checkers \cup Servers
  BY RolesDisjoint DEF Procs, Lockers
<1>2. CASE UNCHANGED <<pc, col>>
  BY <1>2
<1>3. ASSUME NEW h \in Collectors, GcStart(h) \/ GcStep(h)
      PROVE  \/ GcScan(g) \/ GcPick(g) \/ GcErase(g) \/ GcRemove(g)
             \/ pc[g] = pc'[g] /\ col'[g] = col[g]
  <2>1. h # g => pc[g] = pc'[g]
    BY <1>1, <1>3, OwnStep
  <2>2. h # g => col'[g] = col[g]
    <3>1. GcPick(h) => \A x \in Collectors \ {h} : col'[x] = col[x]
      BY SMT DEF GcPick, JobTypes
    <3>2. ~GcPick(h) => \A x \in Collectors \ {h} : col'[x] = col[x]
      BY <1>3, SMT DEF GcStep, GcStart, GcLocked, GcScan, GcErase, GcRemove, GcSweep, JobTypes, local
    <3>. QED  BY <3>1, <3>2
  <2>3. ASSUME h = g, GcStart(g) \/ GcLocked(g) \/ GcSweep(g)
        PROVE  FALSE
    BY <1>1, <2>3 DEF GcStart, GcLocked, GcSweep, Start, Take
  <2>. QED  BY <1>3, <2>1, <2>2, <2>3 DEF GcStep
<1>4. ASSUME NEW p \in Promoters, PromoteStart(p) \/ PromoteStep(p) PROVE pc'[g] = pc[g] /\ UNCHANGED col
  BY <1>1, <1>4
  DEF PromoteStep, PromoteStart, PromoteLocked, PromoteChoose, PromoteRefuse, PromoteLink, Start, Take, local
<1>5. ASSUME NEW b \in Builders, BuildStart(b) \/ BuildStep(b) PROVE pc'[g] = pc[g] /\ UNCHANGED col
  <2>1. UNCHANGED col
    BY <1>5
    DEF BuildStep, BuildStart, BuildLocked, BuildRead, BuildKeep, BuildFinish, BuildInstall, BuildCarryOver,
      BuildExchange,
        BuildMoveOld, BuildMoveNew, BuildUndo, BuildDropOld, BuildLink, BuildFail, local
  <2>. QED  BY <1>1, <1>5, <2>1, OwnStep
<1>6. ASSUME NEW c \in Checkers, CheckStart(c) \/ CheckStep(c) PROVE pc'[g] = pc[g] /\ UNCHANGED col
  <2>1. UNCHANGED col
    BY <1>6 DEF CheckStep, CheckStart, CheckOpen, CheckExamine, CheckRecord, CheckAbort
  <2>. QED  BY <1>1, <1>6, <2>1, OwnStep
<1>7. ASSUME NEW s \in Servers, ServeResolve(s) \/ ServeStep(s) PROVE pc'[g] = pc[g] /\ UNCHANGED col
  <2>1. UNCHANGED col
    BY <1>7 DEF ServeStep, ServeResolve, ServeSweep, ServePidfile, ServeOpen, ServeStop, local
  <2>. QED  BY <1>1, <1>7, <2>1, OwnStep
<1>8. ASSUME NEW p \in Procs, LockTimeout(p) \/ Crash(p) PROVE pc[g] = pc'[g] /\ col'[g] = col[g]
  BY <1>1, <1>8 DEF LockTimeout, Crash, Forget
<1>9. ASSUME \/ \E q \in Builders \cup Collectors, d \in Ids \X Builders : Erode(q, d)
             \/ EditSources \/ EditExports \/ LoseDatabase
      PROVE  UNCHANGED <<pc, col>>
  BY <1>9 DEF Erode, EditSources, EditExports, LoseDatabase, Edit, local
<1>. QED  BY <1>2, <1>3, <1>4, <1>5, <1>6, <1>7, <1>8, <1>9 DEF Next, vars, local

LEMMA AgedStep ==
  ASSUME Store, Aged, [Next]_vars
  PROVE  Aged'
<1>. SUFFICES ASSUME NEW g \in Collectors, pc'[g] \in {"pick", "erase", "remove"}
              PROVE  Outlasted(g)'
  BY DEF Aged
<1>. USE DEF Store
<1>0. /\ g \in Procs /\ builds \in [Ids -> Tree \cup {None}] /\ pc = [p \in Procs |-> pc[p]]
  <2>1. pc = [p \in Procs |-> pc[p]]
    BY Zenon DEF TypeOK, ControlTypes
  <2>. QED  BY <2>1 DEF Procs, Lockers, TypeOK, DiskTypes
<1>1. pc[g] # "idle" => col[g] \in CollectJob
  BY DEF TypeOK, JobTypes, JobsOfRunning
<1>2. CASE GcScan(g)
  <2>1. PICK kept \in Newest(Keep) :
          \E k : col' = [col EXCEPT ![g].latest = k, ![g].todo = Stored \ kept]
    BY <1>2 DEF GcScan
  <2>2. pc[g] = "scan" /\ pc'[g] = "pick" /\ UNCHANGED builds
    BY <1>0, <1>2 DEF GcScan, Goto, disk
  <2>0. PICK L : L = Stored \ kept
    OBVIOUS
  <2>3. col'[g].todo = L
    BY <1>1, <2>0, <2>1, <2>2, SMT DEF TypeOK, JobTypes, CollectJob
  <2>4. Listed(g)' = L
    BY <2>2, <2>3 DEF Listed
  <2>5. L # {} => kept \in SUBSET (Ids \ L) /\ Outlast(kept, L)'
    <3>1. kept \subseteq Stored /\ Stored \subseteq Ids
      BY DEF Newest, Stored
    <3>2. L # {} => Cardinality(kept) = Keep
      BY <2>0, <3>1 DEF Newest
    <3>3. \A k \in kept, id \in L : builds[k].built >= builds[id].built
      BY <2>0 DEF Newest
    <3>. QED  BY <2>0, <2>2, <3>1, <3>2, <3>3, ConstantsOK DEF Outlast, Stored
  <2>. QED  BY <2>4, <2>5 DEF Outlasted
<1>3. ASSUME pc[g] \in {"pick", "erase", "remove"}, Listed(g)' \subseteq Listed(g),
             \A k \in Ids \ Listed(g) : builds[k] # None => builds'[k] # None /\ builds'[k].built = builds[k].built,
             \A id \in Listed(g)' : builds'[id] # None =>
               builds[id] # None /\ builds'[id].built \in {builds[id].built, 0}
      PROVE  Outlasted(g)'
  <2>1. PICK L : L = Listed(g) /\ (L = {} \/ \E K \in SUBSET (Ids \ L) : Outlast(K, L))
    BY <1>3 DEF Aged, Outlasted
  <2>2. PICK M : M = Listed(g)'
    OBVIOUS
  <2>3. L \subseteq Ids /\ M \subseteq L
    <3>1. pc[g] # "pick" => col[g].victim \in Ids
      BY <1>3 DEF Placed
    <3>2. L \subseteq Ids
      BY <1>1, <1>3, <2>1, <3>1 DEF Listed, CollectJob
    <3>. QED  BY <1>3, <2>1, <2>2, <3>2
  <2>4. CASE L = {}
    BY <2>2, <2>3, <2>4 DEF Outlasted
  <2>5. ASSUME NEW K \in SUBSET (Ids \ L), Outlast(K, L)
        PROVE  Outlasted(g)'
    <3>1. Outlast(K, M)'
      BY <1>3, <2>1, <2>2, <2>3, <2>5, OutlastStays
    <3>. QED  BY <2>2, <2>3, <3>1 DEF Outlasted
  <2>. QED  BY <2>1, <2>4, <2>5
<1>4. CASE GcPick(g)
  <2>1. pc[g] = "pick" /\ UNCHANGED builds /\ col[g] \in CollectJob
    BY <1>1, <1>4 DEF GcPick, disk
  <2>2. PICK id \in col[g].todo :
          \/ col' = [col EXCEPT ![g].todo = @ \ {id}] /\ UNCHANGED pc
          \/ /\ col' = [col EXCEPT ![g].todo = @ \ {id}, ![g].victim = id]
             /\ pc' = [pc EXCEPT ![g] = "erase"]
    BY <1>4, Zenon DEF GcPick, Goto
  <2>3. col'[g].todo \subseteq col[g].todo /\ (pc'[g] # "pick" => col'[g].victim = id)
    BY <1>0, <2>1, <2>2, SMT DEF TypeOK, JobTypes, CollectJob
  <2>4. Listed(g)' \subseteq Listed(g)
    BY <2>1, <2>3 DEF Listed
  <2>5. \A j \in Listed(g) : builds[j] # None
    BY <2>1 DEF Listed, Placed
  <2>. QED  BY <1>3, <2>1, <2>4, <2>5
<1>5. CASE GcErase(g) \/ GcRemove(g)
  <2>0. PICK v : v = col[g].victim
    OBVIOUS
  <2>1. /\ pc[g] \in {"erase", "remove"}
        /\ v \in Ids \ col[g].todo /\ builds[v] \in Tree /\ col[g] \in CollectJob
        /\ \A id \in col[g].todo : builds[id] # None /\ id \in Ids
    <3>1. pc[g] \in {"erase", "remove"}
      BY <1>5 DEF GcErase, GcRemove
    <3>2. v \in Ids \ col[g].todo /\ builds[v] # None /\ \A id \in col[g].todo : builds[id] # None
      BY <2>0, <3>1 DEF Placed
    <3>3. col[g] \in CollectJob
      BY <1>1, <3>1
    <3>. QED  BY <1>0, <3>1, <3>2, <3>3 DEF CollectJob
  <2>2. PICK t : /\ builds' = [builds EXCEPT ![v] = t]
                 /\ t = None \/ (t \in Tree /\ t.built \in {builds[v].built, 0})
    <3>1. ASSUME NEW u \in Damaged(builds[v]) PROVE u \in Tree /\ u.built \in {builds[v].built, 0}
      <4>1. u.built \in {builds[v].built, 0}
        BY <2>1, <3>1, Zenon DEF Damaged, Tree
      <4>. QED  BY <2>1, <4>1, DamagedIsTree
    <3>. QED  BY <1>5, <2>0, <3>1, Zenon DEF GcErase, GcRemove
  <2>3. col'[g].todo = col[g].todo /\ (pc'[g] # "pick" => GcErase(g) /\ col'[g].victim = v)
    BY <1>0, <1>5, <2>0, <2>1, SMT DEF GcErase, GcRemove, Goto, local, TypeOK, JobTypes, CollectJob
  <2>4. builds'[v] = t /\ \A j \in Ids \ {v} : builds'[j] = builds[j]
    BY <1>0, <2>1, <2>2
  <2>5. Listed(g)' \subseteq Listed(g) /\ Listed(g) = col[g].todo \cup {v}
    BY <2>0, <2>1, <2>3 DEF Listed
  <2>6. builds[v] # None
    BY <2>1, NoneIsNothing
  <2>. HIDE DEF Store
  <2>. QED  BY <1>3, <2>1, <2>2, <2>4, <2>5, <2>6
<1>6. CASE pc[g] = pc'[g] /\ col'[g] = col[g] /\ ~GcErase(g) /\ ~GcRemove(g)
  <2>1. lock = g /\ g # None
    BY <1>0, <1>6, NoneIsNothing DEF MutualExclusion, Inside, Procs, Lockers
  <2>2. g \notin Builders
    BY RolesDisjoint
  <2>3. ~GcSweep(g)
    BY <1>0, <1>6 DEF GcSweep, Goto
  <2>4. (\E p \in Builders \cup Collectors, d \in Ids \X Builders : Erode(p, d)) => Same
    BY DEF Erode, Same
  <2>5. Same
    BY <1>6, <2>1, <2>2, <2>3, <2>4, StepKinds DEF CheckRecord, Still
  <2>6. Listed(g)' = Listed(g)
    BY <1>6 DEF Listed
  <2>7. \A id \in Listed(g) : id \in Ids /\ builds[id] # None
    BY <1>1, <1>6 DEF Listed, Placed, CollectJob
  <2>8. \A id \in Ids : builds[id] # None => builds'[id] # None /\ builds'[id].built = builds[id].built
    BY <2>5 DEF Same
  <2>. HIDE DEF Store
  <2>. QED  BY <1>3, <1>6, <2>6, <2>7, <2>8
<1>. QED  BY <1>2, <1>4, <1>5, <1>6, CollectsItself

\* With and without an exchange call, a build that goes leaves Keep others behind at that moment, none older, whatever
\* order gc takes the old ones in, and however many crashes, checks and launchers there are.
THEOREM GcSparesNewest ==
  ASSUME IsFiniteSet(Ids)
  PROVE  Spec => GcKeepsNewest
<1>1. Init => Aged
  BY SMT DEF Init, Aged, Procs, Lockers
<1>2. ASSUME Store, Aged, [Next]_vars, NEW id \in Ids, builds[id] # None, builds'[id] = None,
             \A b \in Builders : trash'[<<id, b>>] # builds[id]
      PROVE  Cardinality(NotOlder(id)) >= Keep
  <2>0. builds \in [Ids -> Tree \cup {None}] /\ trash \in [Ids \X Builders -> Tree \cup {None}]
    BY <1>2 DEF Store, TypeOK, DiskTypes
  <2>1. ASSUME NEW b \in Builders, bld[b].id = id, BuildExchange(b) \/ BuildMoveOld(b)
        PROVE  FALSE
    <3>1. CASE BuildExchange(b)
      <4>1. builds' = [builds EXCEPT ![id] = bld[b].tree] /\ bld[b].tree \in Tree
        BY <1>2, <2>1, <3>1 DEF BuildExchange, Store, Placed
      <4>. QED  BY <1>2, <2>0, <4>1, NoneIsNothing
    <3>2. CASE BuildMoveOld(b)
      BY <1>2, <2>0, <2>1, <3>2 DEF BuildMoveOld
    <3>. QED  BY <2>1, <3>1, <3>2
  <2>2. ASSUME NEW g \in Collectors, col[g].victim = id, GcErase(g) \/ GcRemove(g)
        PROVE  Cardinality(NotOlder(id)) >= Keep
    <3>1. pc[g] \in {"erase", "remove"}
      BY <2>2 DEF GcErase, GcRemove
    <3>2. id \in Listed(g)
      BY <2>2, <3>1 DEF Listed
    <3>3. PICK K \in SUBSET (Ids \ Listed(g)) : Outlast(K, Listed(g))
      BY <1>2, <3>1, <3>2 DEF Aged, Outlasted
    <3>4. K \subseteq NotOlder(id) /\ NotOlder(id) \subseteq Ids
      BY <1>2, <3>2, <3>3 DEF Outlast, NotOlder
    <3>5. IsFiniteSet(K) /\ IsFiniteSet(NotOlder(id))
      BY <3>4, FS_Subset
    <3>6. Cardinality(K) \in Nat /\ Cardinality(NotOlder(id)) \in Nat /\ Cardinality(K) <= Cardinality(NotOlder(id))
      BY <3>4, <3>5, FS_Subset, FS_CardinalityType
    <3>. QED  BY <3>3, <3>6, ConstantsOK DEF Outlast
  <2>. QED  BY <1>2, <2>1, <2>2, WhoChanges
<1>3. Store /\ Aged /\ [Next]_vars
        => [\A id \in Ids : builds[id] # None /\ builds'[id] = None
                            /\ (\A b \in Builders : trash'[<<id, b>>] # builds[id])
              => Cardinality(NotOlder(id)) >= Keep]_vars
  BY <1>2
<1>4. Store /\ Aged /\ [Next]_vars => Aged'
  BY AgedStep
<1>. QED  BY <1>1, <1>3, <1>4, StoreInit, StoreStep, PTL DEF Spec, GcKeepsNewest

-----------------------------------------------------------------------------
\* Only its own steps, and its end, change where a builder is and what it holds.
LEMMA BuildsItself ==
  ASSUME Store, [Next]_vars, NEW b \in Builders
  PROVE  \/ BuildStart(b) \/ BuildStep(b) \/ LockTimeout(b) \/ Crash(b)
         \/ pc'[b] = pc[b] /\ bld'[b] = bld[b]
<1>. USE DEF Store, TypeOK, ControlTypes, Goto
<1>1. b \in Procs /\ b \notin Promoters \cup Collectors \cup Checkers \cup Servers
  BY RolesDisjoint DEF Procs, Lockers
<1>2. CASE UNCHANGED <<pc, bld>>
  BY <1>2
<1>3. ASSUME NEW a \in Builders, BuildStart(a) \/ BuildStep(a)
      PROVE  BuildStart(b) \/ BuildStep(b) \/ (pc'[b] = pc[b] /\ bld'[b] = bld[b])
  <2>1. a # b => pc[b] = pc'[b]
    BY <1>1, <1>3, OwnStep
  <2>2. a # b => bld'[b] = bld[b]
    <3>1. CASE BuildFinish(a)
      BY <3>1, FinishedJob
    <3>2. CASE BuildCarryOver(a)
      BY <3>2, CarriedJob
    <3>3. CASE ~BuildFinish(a) /\ ~BuildCarryOver(a)
      BY <1>3, <3>3, SMT
      DEF BuildStep, BuildStart, BuildLocked, BuildRead, BuildKeep, BuildInstall, BuildExchange, BuildMoveOld,
          BuildMoveNew, BuildUndo, BuildDropOld, BuildLink, BuildFail, JobTypes, local
    <3>. QED  BY <3>1, <3>2, <3>3
  <2>. QED  BY <1>3, <2>1, <2>2
<1>4. ASSUME NEW p \in Promoters, PromoteStart(p) \/ PromoteStep(p) PROVE pc'[b] = pc[b] /\ UNCHANGED bld
  BY <1>1, <1>4
  DEF PromoteStep, PromoteStart, PromoteLocked, PromoteChoose, PromoteRefuse, PromoteLink, Start, Take, local
<1>5. ASSUME NEW g \in Collectors, GcStart(g) \/ GcStep(g) PROVE pc'[b] = pc[b] /\ UNCHANGED bld
  <2>1. UNCHANGED bld
    BY <1>5 DEF GcStep, GcStart, GcLocked, GcScan, GcPick, GcErase, GcRemove, GcSweep, local
  <2>. QED  BY <1>1, <1>5, <2>1, OwnStep
<1>6. ASSUME NEW c \in Checkers, CheckStart(c) \/ CheckStep(c) PROVE pc'[b] = pc[b] /\ UNCHANGED bld
  <2>1. UNCHANGED bld
    BY <1>6 DEF CheckStep, CheckStart, CheckOpen, CheckExamine, CheckRecord, CheckAbort
  <2>. QED  BY <1>1, <1>6, <2>1, OwnStep
<1>7. ASSUME NEW s \in Servers, ServeResolve(s) \/ ServeStep(s) PROVE pc'[b] = pc[b] /\ UNCHANGED bld
  <2>1. UNCHANGED bld
    BY <1>7 DEF ServeStep, ServeResolve, ServeSweep, ServePidfile, ServeOpen, ServeStop, local
  <2>. QED  BY <1>1, <1>7, <2>1, OwnStep
<1>8. ASSUME NEW p \in Procs, p # b, LockTimeout(p) \/ Crash(p) PROVE pc[b] = pc'[b] /\ bld'[b] = bld[b]
  BY <1>1, <1>8 DEF LockTimeout, Crash, Forget
<1>9. ASSUME \/ \E q \in Builders \cup Collectors, d \in Ids \X Builders : Erode(q, d)
             \/ EditSources \/ EditExports \/ LoseDatabase
      PROVE  UNCHANGED <<pc, bld>>
  BY <1>9 DEF Erode, EditSources, EditExports, LoseDatabase, Edit, local
<1>. QED  BY <1>2, <1>3, <1>4, <1>5, <1>6, <1>7, <1>8, <1>9 DEF Next, vars, local

\* Only its own steps bring a builder to the swap; until then it keeps the tree it has.
LEMMA FinishesItself ==
  ASSUME Store, [Next]_vars, NEW b \in Builders, pc'[b] \in {"built", "swap", "gap"}
  PROVE  \/ BuildFinish(b) \/ BuildCarryOver(b) \/ BuildMoveOld(b)
         \/ pc[b] = pc'[b] /\ bld'[b] = bld[b]
<1>1. b \in Procs /\ pc \in [Procs -> Inside \cup Waiting \cup
                               {"idle", "open", "examine", "resolved", "swept", "starting", "serving"}]
  BY DEF Store, TypeOK, ControlTypes, Procs, Lockers
<1>2. ASSUME \/ BuildStart(b) \/ LockTimeout(b) \/ Crash(b)
             \/ BuildStep(b) /\ ~BuildFinish(b) /\ ~BuildCarryOver(b) /\ ~BuildMoveOld(b)
      PROVE  FALSE
  BY <1>1, <1>2
  DEF BuildStep, BuildStart, BuildLocked, BuildRead, BuildKeep, BuildInstall, BuildExchange, BuildMoveNew,
      BuildUndo, BuildDropOld, BuildLink, BuildFail, LockTimeout, Crash, Start, Take, Goto
<1>. QED  BY <1>2, BuildsItself

\* Nobody but who has passed its look at the pidfiles changes a build that a server holds.
LEMMA HeldStays ==
  ASSUME Store, [Next]_vars, NEW id \in Ids, builds[id] # None, ~PastTheLook(id)
  PROVE  /\ builds'[id] # None
         /\ builds'[id].built = builds[id].built /\ builds'[id].whole = builds[id].whole
<1>1. ASSUME NEW b \in Builders, bld[b].id = id PROVE ~BuildExchange(b) /\ ~BuildMoveOld(b)
  BY <1>1 DEF PastTheLook, BuildExchange, BuildMoveOld
<1>2. ASSUME NEW g \in Collectors, col[g].victim = id PROVE ~GcErase(g) /\ ~GcRemove(g)
  BY <1>2 DEF PastTheLook, GcErase, GcRemove
<1>. QED  BY <1>1, <1>2, WhoChanges

\* A builder or a gc that looks at the pidfiles of a build that a server holds goes no further.
LEMMA LookStops ==
  ASSUME Store, [Next]_vars, NEW id \in Ids, LivePids(builds[id]) # {}, ~PastTheLook(id)
  PROVE  ~PastTheLook(id)'
<1>. USE DEF Store
<1>0. \A q \in Lockers : q \in Procs
  BY DEF Procs
<1>1. ASSUME NEW b \in Builders, pc'[b] \in {"swap", "gap"}
      PROVE  bld'[b].id # id
  <2>1. CASE BuildFinish(b)
    BY <1>0, <1>1, <2>1 DEF BuildFinish, Goto, TypeOK, ControlTypes, Lockers
  <2>2. CASE BuildCarryOver(b)
    <3>1. bld'[b].id = bld[b].id
      BY <2>2, CarriedJob
    <3>2. LivePids(builds[bld[b].id]) = {}
      BY <2>2 DEF BuildCarryOver
    <3>. QED  BY <3>1, <3>2
  <2>3. CASE BuildMoveOld(b)
    BY <2>3 DEF BuildMoveOld, local, PastTheLook
  <2>4. CASE pc[b] = pc'[b] /\ bld'[b] = bld[b]
    BY <1>1, <2>4 DEF PastTheLook
  <2>. QED  BY <1>1, <2>1, <2>2, <2>3, <2>4, FinishesItself
<1>2. ASSUME NEW g \in Collectors, pc'[g] \in {"erase", "remove"}
      PROVE  col'[g].victim # id
  <2>1. CASE GcScan(g) \/ GcRemove(g)
    BY <1>0, <1>2, <2>1 DEF GcScan, GcRemove, Goto, TypeOK, ControlTypes, Lockers
  <2>2. CASE GcPick(g)
    <3>1. pc[g] = "pick" /\ col[g] \in CollectJob
      BY <2>2, SMT DEF GcPick, TypeOK, JobTypes, JobsOfRunning
    <3>2. PICK v \in col[g].todo : /\ ~Held(g, v)
                                   /\ col' = [col EXCEPT ![g].todo = @ \ {v}, ![g].victim = v]
      BY <1>2, <2>2, <3>1, Zenon DEF GcPick
    <3>3. col'[g].victim = v
      BY <3>1, <3>2, SMT DEF TypeOK, JobTypes, CollectJob
    <3>. QED  BY <3>2, <3>3 DEF Held
  <2>3. CASE GcErase(g)
    BY <2>3 DEF GcErase, local, PastTheLook
  <2>4. CASE pc[g] = pc'[g] /\ col'[g] = col[g]
    BY <1>2, <2>4 DEF PastTheLook
  <2>. QED  BY <1>2, <2>1, <2>2, <2>3, <2>4, CollectsItself
<1>. QED  BY <1>1, <1>2 DEF PastTheLook

\* A build that a server holds by its pidfile is neither swapped nor removed unless whoever does had
\* looked at the pidfiles before, with and without an exchange call (live_pids in build_profile and gc).
THEOREM HeldBuildsStay == Spec => HeldBuildStays
<1>1. ASSUME Store, [Next]_vars, NEW s \in Servers, NEW id \in Ids,
             pc[s] = "serving", s \in builds[id].pids
      PROVE  LivePids(builds[id]) # {}
  BY <1>1 DEF LivePids, Alive
<1>2. Store /\ [Next]_vars
        => [\A s \in Servers, id \in Ids :
              pc[s] = "serving" /\ srv[s].id = id /\ builds[id] # None /\ s \in builds[id].pids /\ ~PastTheLook(id)
                => /\ ~PastTheLook(id)'
                   /\ builds'[id] # None
                   /\ builds'[id].built = builds[id].built /\ builds'[id].whole = builds[id].whole]_vars
  BY <1>1, HeldStays, LookStops
<1>. QED  BY <1>2, StoreInit, StoreStep, PTL DEF Spec, HeldBuildStays

-----------------------------------------------------------------------------
(***************************************************************************)
(* No build is lost.  With an exchange call a build never leaves its       *)
(* place.  Without one it is put aside between two renames, and what must  *)
(* be kept in mind is whose it is: of a builder that is between them, or   *)
(* that died there.                                                        *)
(***************************************************************************)

\* What a builder has put aside, and what it has in hand to put in its place.
BuilderApart(b) ==
  /\ pc[b] # "idle" => runs[b] # 0
  /\ pc[b] \in {"built", "swap", "gap"} => Recorded(bld[b].tree)
  /\ pc[b] \in {"reading", "building", "built", "swap", "gap"} => <<bld[b].id, b>> \in tmp
  /\ pc[b] = "gap" => builds[bld[b].id] = None
  /\ pc[b] = "drop_old" => <<bld[b].id, b>> \notin tmp
  /\ \A id \in Ids : trash[<<id, b>>] # None =>
       \/ pc[b] \in {"gap", "drop_old"} /\ bld[b].id = id
       \/ pc[b] = "idle" /\ runs[b] # 0 /\ crashes # 0

\* One process dies, so one orphan is left; until it is put back nobody has the lock.
OneLeft ==
  \A i, j \in Ids, a, b \in Builders :
    trash[<<i, a>>] # None /\ trash[<<j, b>>] # None /\ pc[a] = "idle" /\ pc[b] = "idle" => i = j /\ a = b

LeftAlone ==
  \A id \in Ids, b \in Builders :
    <<id, b>> \in tmp /\ trash[<<id, b>>] # None /\ pc[b] = "idle" => lock = None /\ builds[id] = None

Apart == (\A b \in Builders : BuilderApart(b)) /\ OneLeft /\ LeftAlone

\* One death, no process under an old pid, and no launcher that makes a directory again.
Lone == ~HasExchange /\ Servers = {} /\ MaxRuns <= 1 /\ MaxCrashes <= 1

LEMMA CountersGrow ==
  ASSUME Store, [Next]_vars, NEW b \in Builders
  PROVE  (runs[b] # 0 => runs'[b] # 0) /\ (crashes # 0 => crashes' # 0)
<1>. USE DEF Store, TypeOK, ControlTypes
<1>0. b \in Procs /\ runs[b] \in Nat /\ crashes \in Nat
  BY DEF Procs, Lockers
<1>1. ASSUME NEW p \in Procs, NEW l, Start(p, l) PROVE runs'[b] \in {runs[b], runs[b] + 1} /\ crashes' = crashes
  BY <1>0, <1>1 DEF Start
<1>2. CASE UNCHANGED <<runs, crashes>>
  BY <1>2
<1>3. ASSUME NEW x \in Builders, BuildStart(x) \/ BuildStep(x)
      PROVE  UNCHANGED <<runs, crashes>> \/ \E l : Start(x, l)
  BY <1>3 DEF BuildStep, BuildStart, BuildLocked, BuildRead, BuildKeep, BuildFinish, BuildInstall, BuildCarryOver,
      BuildExchange,
      BuildMoveOld, BuildMoveNew, BuildUndo, BuildDropOld, BuildLink, BuildFail, bounds
<1>4. ASSUME NEW p \in Promoters, PromoteStart(p) \/ PromoteStep(p)
      PROVE  UNCHANGED <<runs, crashes>> \/ \E l : Start(p, l)
  BY <1>4 DEF PromoteStep, PromoteStart, PromoteLocked, PromoteChoose, PromoteRefuse, PromoteLink, bounds
<1>5. ASSUME NEW g \in Collectors, GcStart(g) \/ GcStep(g)
      PROVE  UNCHANGED <<runs, crashes>> \/ \E l : Start(g, l)
  BY <1>5 DEF GcStep, GcStart, GcLocked, GcScan, GcPick, GcErase, GcRemove, GcSweep, bounds
<1>6. ASSUME NEW c \in Checkers, CheckStart(c) \/ CheckStep(c)
      PROVE  UNCHANGED <<runs, crashes>> \/ \E l : Start(c, l)
  BY <1>6 DEF CheckStep, CheckStart, CheckOpen, CheckExamine, CheckRecord, CheckAbort, bounds
<1>7. ASSUME NEW s \in Servers, ServeResolve(s) \/ ServeStep(s)
      PROVE  UNCHANGED <<runs, crashes>> \/ \E l : Start(s, l)
  BY <1>7 DEF ServeStep, ServeResolve, ServeSweep, ServePidfile, ServeOpen, ServeStop, bounds
<1>8. ASSUME NEW p \in Procs, LockTimeout(p) \/ Crash(p)
      PROVE  UNCHANGED runs /\ crashes' \in {crashes, crashes + 1}
  BY <1>8 DEF LockTimeout, Crash, bounds
<1>9. ASSUME \/ \E q \in Builders \cup Collectors, d \in Ids \X Builders : Erode(q, d)
             \/ EditSources \/ EditExports \/ LoseDatabase \/ UNCHANGED vars
      PROVE  UNCHANGED <<runs, crashes>>
  BY <1>9 DEF Erode, EditSources, EditExports, LoseDatabase, Edit, vars, bounds
<1>10. \/ UNCHANGED <<runs, crashes>>
       \/ \E p \in Procs : \E l : Start(p, l)
       \/ UNCHANGED runs /\ crashes' \in {crashes, crashes + 1}
  BY <1>3, <1>4, <1>5, <1>6, <1>7, <1>8, <1>9 DEF Next, Procs, Lockers
<1>. QED  BY <1>0, <1>1, <1>10

LEMMA RestoreTakes ==
  ASSUME TypeOK, RestoreOrphans, NEW id \in Ids, NEW b \in Builders, trash'[<<id, b>>] # None
  PROVE  trash[<<id, b>>] # None
BY DEF RestoreOrphans, TypeOK, DiskTypes

\* Only a builder puts anything in its own trash directories.
LEMMA TrashShrinks ==
  ASSUME Store, [Next]_vars, NEW id \in Ids, NEW b \in Builders, ~BuildStep(b), trash'[<<id, b>>] # None
  PROVE  trash[<<id, b>>] # None
<1>0. trash \in [Ids \X Builders -> Tree \cup {None}] /\ <<id, b>> \in Ids \X Builders
  BY DEF Store, TypeOK, DiskTypes
<1>1. RestoreOrphans => trash[<<id, b>>] # None
  BY RestoreTakes DEF Store
<1>2. ASSUME NEW a \in Builders, BuildStep(a)
      PROVE  RestoreOrphans \/ trash'[<<id, b>>] = trash[<<id, b>>]
  <2>1. CASE BuildMoveOld(a) \/ BuildUndo(a) \/ BuildDropOld(a)
    <3>1. UNCHANGED trash \/ \E t, d : trash' = [trash EXCEPT ![<<d, a>>] = t]
      BY <2>1 DEF BuildMoveOld, BuildUndo, BuildDropOld
    <3>2. a # b
      BY <1>2
    <3>. QED  BY <1>0, <3>1, <3>2
  <2>2. CASE BuildLocked(a)
    BY <2>2 DEF BuildLocked
  <2>. QED  BY <1>2, <2>1, <2>2 DEF BuildStep, BuildRead, BuildKeep, BuildFinish, BuildInstall, BuildCarryOver,
                                    BuildExchange, BuildMoveNew, BuildLink, BuildFail, disk
<1>3. ASSUME NEW g \in Collectors, GcErase(g) \/ GcRemove(g) \/ GcSweep(g)
      PROVE  trash[<<id, b>>] # None
  BY <1>0, <1>3 DEF GcErase, GcRemove, GcSweep
<1>4. ASSUME NEW p \in Builders \cup Collectors, NEW d \in Ids \X Builders, Erode(p, d)
      PROVE  trash[<<id, b>>] # None
  BY <1>0, <1>4 DEF Erode
<1>5. (\E c \in Checkers : CheckRecord(c)) => UNCHANGED trash
  BY DEF CheckRecord
<1>. QED  BY <1>1, <1>2, <1>3, <1>4, <1>5, StepKinds DEF Still

\* While a builder has the lock, nobody else touches the directories of the writers or makes a build.
LEMMA OthersLeave ==
  ASSUME Servers = {}, Store, [Next]_vars, NEW b \in Builders, pc[b] \in Inside, ~BuildStep(b)
  PROVE  /\ UNCHANGED tmp
         /\ pc[b] = "gap" => UNCHANGED trash
         /\ \A id \in Ids : builds[id] = None => builds'[id] = None
<1>1. lock = b /\ b # None
  BY NoneIsNothing DEF Store, MutualExclusion, Procs, Lockers
<1>2. CASE Still
  BY <1>2 DEF Still, Same
<1>3. ASSUME NEW d \in Ids \X Builders, Erode(b, d)
      PROVE  UNCHANGED <<tmp, builds>> /\ pc[b] # "gap"
  BY <1>3 DEF Erode
<1>. QED  BY <1>1, <1>2, <1>3, RolesDisjoint, StepKinds DEF CheckRecord

\* A builder, step by step.  When it ends of itself it leaves nothing aside.
LEMMA BuilderSetsAside ==
  ASSUME Lone, Store, NEW b \in Builders, BuilderApart(b), BuildStart(b) \/ BuildStep(b)
  PROVE  BuilderApart(b)' /\ (pc'[b] = "idle" => \A id \in Ids : trash'[<<id, b>>] = None)
<1>. USE DEF Store, Goto
<1>0. /\ b \in Procs /\ pc \in [Procs -> Inside \cup Waiting \cup
                                  {"idle", "open", "examine", "resolved", "swept", "starting", "serving"}]
      /\ runs \in [Procs -> Nat] /\ runs[b] \in Nat /\ MaxRuns \in Nat
      /\ builds \in [Ids -> Tree \cup {None}] /\ trash \in [Ids \X Builders -> Tree \cup {None}]
      /\ bld \in [Builders -> BuildJob \cup {None}]
  BY ConstantsOK DEF Procs, Lockers, TypeOK, ControlTypes, DiskTypes, JobTypes
<1>1. pc[b] # "idle" => bld[b] \in BuildJob /\ bld[b].id \in Ids
  BY DEF TypeOK, JobTypes, JobsOfRunning, BuildJob
<1>. DEFINE Clean == \A id \in Ids : trash'[<<id, b>>] = None
<1>2. pc[b] \notin {"gap", "drop_old", "idle"} => \A id \in Ids : trash[<<id, b>>] = None
  BY DEF BuilderApart
<1>3. CASE BuildStart(b)
  <2>1. pc[b] = "idle" /\ runs[b] = 0 /\ runs'[b] # 0 /\ pc'[b] = "build_wait" /\ UNCHANGED trash
    <3>1. pc[b] = "idle" /\ runs[b] < MaxRuns /\ MaxRuns <= 1 /\ UNCHANGED trash
      BY <1>3 DEF BuildStart, Start, Lone, disk
    <3>2. runs'[b] = runs[b] + 1 /\ pc'[b] = "build_wait"
      BY <1>0, <1>3, SMT DEF BuildStart, Start
    <3>. QED  BY <1>0, <3>1, <3>2
  <2>. QED  BY <2>1 DEF BuilderApart
<1>4. ASSUME BuildStep(b)
      PROVE  UNCHANGED runs /\ pc[b] # "idle"
  BY <1>4 DEF BuildStep, BuildLocked, BuildRead, BuildKeep, BuildFinish, BuildInstall, BuildCarryOver,
      BuildExchange,
    BuildMoveOld, BuildMoveNew, BuildUndo, BuildDropOld, BuildLink, BuildFail, Take, bounds
<1>5. CASE BuildLocked(b)
  <2>1. pc[b] = "build_wait" /\ pc'[b] = "reading"
    BY <1>0, <1>5 DEF BuildLocked, Take
  <2>2. Clean
    BY <1>2, <1>5, <2>1, RestoreTakes DEF BuildLocked
  <2>3. bld'[b].id = sources /\ <<sources, b>> \in tmp'
    BY <1>0, <1>1, <1>5, <2>1, SMT DEF BuildLocked, BuildJob
  <2>. QED  BY <1>4, <1>5, <2>1, <2>2, <2>3 DEF BuilderApart, BuildStep
<1>14. CASE BuildRead(b)
  <2>1. pc[b] = "reading" /\ pc'[b] = "building" /\ UNCHANGED <<tmp, trash>> /\ bld'[b].id = bld[b].id
    <3>1. PICK x : bld' = [bld EXCEPT ![b].code = x]
      BY <1>14 DEF BuildRead
    <3>2. bld[b] \in BuildJob
      BY <1>1, <1>14 DEF BuildRead
    <3>3. bld'[b].id = bld[b].id
      BY <1>0, <3>1, <3>2, SMT DEF BuildJob
    <3>. QED  BY <1>0, <1>14, <3>3 DEF BuildRead, disk
  <2>. QED  BY <1>2, <1>4, <1>14, <2>1 DEF BuilderApart, BuildStep
<1>6. CASE BuildKeep(b) \/ BuildInstall(b) \/ BuildLink(b) \/ BuildFail(b)
  <2>1. pc[b] \notin {"gap", "drop_old", "idle"} /\ pc'[b] \in {"build_link", "idle"} /\ UNCHANGED trash
    BY <1>0, <1>6 DEF BuildKeep, BuildInstall, BuildLink, BuildFail
  <2>. QED  BY <1>2, <1>4, <1>6, <2>1 DEF BuilderApart, BuildStep
<1>7. CASE BuildFinish(b)
  <2>1. /\ pc[b] = "building" /\ pc'[b] = "built" /\ UNCHANGED <<tmp, trash>>
        /\ Recorded(bld'[b].tree) /\ bld'[b].id = bld[b].id
    BY <1>0, <1>7, FinishedJob, FinishedRecorded DEF BuildFinish, disk
  <2>. QED  BY <1>2, <1>4, <1>7, <2>1 DEF BuilderApart, BuildStep, Recorded
<1>8. CASE BuildCarryOver(b)
  <2>1. /\ pc[b] = "built" /\ pc'[b] = "swap" /\ UNCHANGED <<tmp, trash>>
        /\ Recorded(bld'[b].tree) /\ bld'[b].id = bld[b].id
    BY <1>0, <1>8, CarriedJob, CarriedRecorded DEF BuildCarryOver, disk, BuilderApart
  <2>. QED  BY <1>2, <1>4, <1>8, <2>1 DEF BuilderApart, BuildStep, Recorded
<1>9. CASE BuildMoveOld(b)
  <2>1. /\ pc[b] = "swap" /\ pc'[b] = "gap" /\ UNCHANGED <<tmp, bld>>
        /\ trash' = [trash EXCEPT ![<<bld[b].id, b>>] = builds[bld[b].id]]
        /\ builds' = [builds EXCEPT ![bld[b].id] = None]
    BY <1>0, <1>9 DEF BuildMoveOld, local
  <2>2. builds'[bld[b].id] = None
    BY <1>0, <1>1, <2>1
  <2>3. \A id \in Ids : trash'[<<id, b>>] # None => id = bld[b].id
    BY <1>0, <1>2, <2>1
  <2>. QED  BY <1>4, <1>9, <2>1, <2>2, <2>3 DEF BuilderApart, BuildStep, Recorded
<1>10. CASE BuildMoveNew(b)
  <2>1. /\ pc[b] = "gap" /\ pc'[b] = "drop_old" /\ UNCHANGED <<trash, bld>>
        /\ <<bld[b].id, b>> \notin tmp'
    BY <1>0, <1>10 DEF BuildMoveNew, local
  <2>. QED  BY <1>4, <1>10, <2>1 DEF BuilderApart, BuildStep
<1>11. CASE BuildUndo(b)
  <2>1. pc[b] = "gap" /\ pc'[b] = "idle" /\ builds[bld[b].id] = None
    BY <1>0, <1>11 DEF BuildUndo, BuilderApart
  <2>2. trash' = [trash EXCEPT ![<<bld[b].id, b>>] = None]
    BY <1>11, <2>1 DEF BuildUndo
  <2>3. Clean
    BY <1>0, <1>1, <2>1, <2>2 DEF BuilderApart
  <2>. QED  BY <1>4, <1>11, <2>1, <2>3 DEF BuilderApart, BuildStep
<1>12. CASE BuildDropOld(b)
  <2>1. /\ pc[b] = "drop_old" /\ pc'[b] = "build_link"
        /\ trash' = [trash EXCEPT ![<<bld[b].id, b>>] = None]
    BY <1>0, <1>12 DEF BuildDropOld
  <2>2. Clean
    BY <1>0, <1>1, <2>1 DEF BuilderApart
  <2>. QED  BY <1>4, <1>12, <2>1, <2>2 DEF BuilderApart, BuildStep
<1>13. ~BuildExchange(b)
  BY DEF BuildExchange, Lone
<1>. QED  BY <1>3, <1>5, <1>6, <1>7, <1>8, <1>9, <1>10, <1>11, <1>12, <1>13, <1>14 DEF BuildStep

\* A builder dies, or gives up waiting: what it had put aside stays.
LEMMA BuilderEnds ==
  ASSUME Lone, Store, NEW b \in Builders, BuilderApart(b), LockTimeout(b) \/ Crash(b)
  PROVE  /\ BuilderApart(b)' /\ pc'[b] = "idle" /\ UNCHANGED disk
         /\ LockTimeout(b) => \A id \in Ids : trash[<<id, b>>] = None
<1>0. /\ b \in Procs /\ pc \in [Procs -> Inside \cup Waiting \cup
                                  {"idle", "open", "examine", "resolved", "swept", "starting", "serving"}]
      /\ crashes \in Nat /\ runs \in [Procs -> Nat]
  BY DEF Store, Procs, Lockers, TypeOK, ControlTypes
<1>1. pc[b] # "idle" /\ pc'[b] = "idle" /\ UNCHANGED disk /\ UNCHANGED runs
  BY <1>0 DEF LockTimeout, Crash, Alive, Goto, Waiting, bounds
<1>2. CASE LockTimeout(b)
  <2>1. \A id \in Ids : trash[<<id, b>>] = None
    BY <1>2 DEF LockTimeout, Waiting, BuilderApart
  <2>. QED  BY <1>1, <2>1 DEF BuilderApart, disk
<1>3. CASE Crash(b)
  <2>1. crashes' # 0 /\ ~LockTimeout(b)
    BY <1>0, <1>3 DEF Crash, LockTimeout, bounds
  <2>. QED  BY <1>1, <2>1 DEF BuilderApart, disk
<1>. QED  BY <1>2, <1>3

\* Whatever the others do, what a builder has put aside is safe.
LEMMA BuilderWaits ==
  ASSUME Lone, Store, [Next]_vars, NEW b \in Builders, BuilderApart(b), ~BuildStart(b), ~BuildStep(b),
         pc'[b] = pc[b], bld'[b] = bld[b]
  PROVE  BuilderApart(b)'
<1>1. \A id \in Ids : trash'[<<id, b>>] # None => trash[<<id, b>>] # None
  BY TrashShrinks
<1>2. (pc'[b] # "idle" => runs'[b] # 0)
  BY CountersGrow DEF BuilderApart
<1>3. \A id \in Ids : trash'[<<id, b>>] # None =>
        \/ pc'[b] \in {"gap", "drop_old"} /\ bld'[b].id = id
        \/ pc'[b] = "idle" /\ runs'[b] # 0 /\ crashes' # 0
  BY <1>1, CountersGrow DEF BuilderApart
<1>4. CASE pc[b] \in Inside
  <2>1. UNCHANGED tmp /\ \A id \in Ids : builds[id] = None => builds'[id] = None
    BY <1>4, OthersLeave DEF Lone
  <2>2. bld[b].id \in Ids
    BY <1>4 DEF Store, TypeOK, JobTypes, JobsOfRunning, BuildJob, Inside
  <2>. QED  BY <1>2, <1>3, <2>1, <2>2 DEF BuilderApart, Recorded
<1>5. CASE pc[b] \notin Inside
  BY <1>2, <1>3, <1>5 DEF BuilderApart, Inside
<1>. QED  BY <1>4, <1>5

LEMMA BuildersApart ==
  ASSUME Lone, Store, [Next]_vars, Apart, NEW b \in Builders
  PROVE  BuilderApart(b)'
BY BuildsItself, BuilderSetsAside, BuilderEnds, BuilderWaits DEF Apart

\* Nothing is left in trash but by a builder that dies between the renames, or after them.
LEMMA LeftByDeath ==
  ASSUME Lone, Store, [Next]_vars, Apart, NEW id \in Ids, NEW b \in Builders,
         pc'[b] = "idle", trash'[<<id, b>>] # None
  PROVE  /\ trash[<<id, b>>] # None
         /\ pc[b] = "idle" \/ (Crash(b) /\ pc[b] \in {"gap", "drop_old"} /\ bld[b].id = id)
<1>0. BuilderApart(b)
  BY DEF Apart
<1>1. ~BuildStart(b) /\ ~BuildStep(b) /\ ~LockTimeout(b)
  BY <1>0, BuilderSetsAside, BuilderEnds DEF disk
<1>2. trash[<<id, b>>] # None
  BY <1>1, TrashShrinks
<1>. QED  BY <1>0, <1>1, <1>2, BuildsItself DEF BuilderApart

\* The one death comes first: a process that dies finds no orphan.
LEMMA DiesOnce ==
  ASSUME Lone, Store, Apart, NEW p \in Procs, Crash(p), NEW id \in Ids, NEW b \in Builders, pc[b] = "idle"
  PROVE  trash[<<id, b>>] = None
<1>1. crashes = 0
  BY ConstantsOK DEF Crash, Lone, Store, TypeOK, ControlTypes
<1>. QED  BY <1>1 DEF Apart, BuilderApart

LEMMA OneLeftStep ==
  ASSUME Lone, Store, [Next]_vars, Apart
  PROVE  OneLeft'
<1>. SUFFICES ASSUME NEW i \in Ids, NEW j \in Ids, NEW a \in Builders, NEW b \in Builders,
                     trash'[<<i, a>>] # None, trash'[<<j, b>>] # None, pc'[a] = "idle", pc'[b] = "idle"
              PROVE  i = j /\ a = b
  BY DEF OneLeft
<1>0. a \in Procs /\ b \in Procs
  BY DEF Procs, Lockers
<1>1. /\ trash[<<i, a>>] # None /\ (pc[a] = "idle" \/ (Crash(a) /\ pc[a] \in {"gap", "drop_old"} /\ bld[a].id = i))
      /\ trash[<<j, b>>] # None /\ (pc[b] = "idle" \/ (Crash(b) /\ pc[b] \in {"gap", "drop_old"} /\ bld[b].id = j))
  BY LeftByDeath
<1>2. CASE pc[a] = "idle" /\ pc[b] = "idle"
  BY <1>1, <1>2 DEF Apart, OneLeft
<1>3. CASE Crash(a) /\ Crash(b)
  <2>1. a = b
    BY <1>0, <1>3, SMT DEF Crash, Alive, Goto, Store, TypeOK, ControlTypes
  <2>. QED  BY <1>1, <2>1, <1>0, <1>3, DiesOnce
<1>4. CASE (pc[a] = "idle" /\ Crash(b)) \/ (pc[b] = "idle" /\ Crash(a))
  BY <1>0, <1>1, <1>4, DiesOnce
<1>. QED  BY <1>1, <1>2, <1>3, <1>4

LEMMA TmpGrows ==
  ASSUME Store, [Next]_vars, NEW id \in Ids, NEW b \in Builders, <<id, b>> \in tmp', pc'[b] = "idle"
  PROVE  <<id, b>> \in tmp
<1>1. ASSUME NEW a \in Builders, BuildLocked(a)
      PROVE  <<id, b>> \in tmp
  <2>1. pc'[a] = "reading" /\ tmp' = tmp \cup {<<sources, a>>}
    BY <1>1 DEF BuildLocked, Take, Goto, Store, TypeOK, ControlTypes, Procs, Lockers
  <2>. QED  BY <2>1
<1>2. ASSUME NEW a \in Builders, BuildStep(a), ~BuildLocked(a)
      PROVE  tmp' \subseteq tmp
  BY <1>2 DEF BuildStep, BuildRead, BuildKeep, BuildFinish, BuildInstall, BuildCarryOver, BuildExchange,
    BuildMoveOld, BuildMoveNew, BuildUndo, BuildDropOld, BuildLink, BuildFail, disk
<1>3. ASSUME \/ \E g \in Collectors : GcErase(g) \/ GcRemove(g) \/ GcSweep(g)
             \/ \E c \in Checkers : CheckRecord(c)
             \/ \E p \in Builders \cup Collectors, d \in Ids \X Builders : Erode(p, d)
      PROVE  tmp' \subseteq tmp
  BY <1>3 DEF GcErase, GcRemove, GcSweep, CheckRecord, Erode
<1>. QED  BY <1>1, <1>2, <1>3, StepKinds DEF Still

\* The only orphan there is goes back to its place.
LEMMA OrphanRestored ==
  ASSUME Store, OneLeft, RestoreOrphans, NEW id \in Ids, NEW b \in Builders,
         pc[b] = "idle", trash[<<id, b>>] # None, builds[id] = None
  PROVE  builds'[id] = trash[<<id, b>>] /\ trash'[<<id, b>>] = None
<1>1. PICK pick \in Picks :
        /\ builds' = [i \in Ids |-> IF pick[i] = None THEN builds[i] ELSE trash[<<i, pick[i]>>]]
        /\ trash'  = [d \in Ids \X Builders |-> IF pick[d[1]] = d[2] THEN None ELSE trash[d]]
  BY DEF RestoreOrphans
<1>2. Orphans(id) = {b}
  BY DEF Orphans, OneLeft, Alive
<1>3. pick[id] = b
  BY <1>1, <1>2 DEF Picks
<1>4. b # None
  BY NoneIsNothing DEF Procs, Lockers
<1>. QED  BY <1>1, <1>3, <1>4

\* Until an orphan is restored, who has no lock leaves its place empty.
LEMMA FreeStep ==
  ASSUME Lone, Store, [Next]_vars, OneLeft, lock = None, NEW id \in Ids, NEW b \in Builders,
         pc[b] = "idle", trash[<<id, b>>] # None, builds[id] = None
  PROVE  \/ builds'[id] = trash[<<id, b>>] /\ trash'[<<id, b>>] = None
         \/ UNCHANGED <<tmp, trash>> /\ lock' = None /\ builds'[id] = None
<1>1. ASSUME NEW c \in Checkers, CheckRecord(c)
      PROVE  UNCHANGED <<tmp, trash>> /\ lock' = None /\ builds'[id] = None
  <2>1. UNCHANGED <<tmp, trash>> /\ lock' = None
    BY <1>1 DEF CheckRecord
  <2>2. CASE UNCHANGED builds
    BY <2>1, <2>2
  <2>3. CASE SameBuild(c) /\ builds' = [builds EXCEPT ![chk[c].id].contract = chk[c].doc]
    <3>1. chk[c].id # id
      BY <2>3 DEF SameBuild, Recorded
    <3>. QED  BY <2>1, <2>3, <3>1 DEF Store, TypeOK, DiskTypes
  <2>. QED  BY <1>1, <2>2, <2>3 DEF CheckRecord
<1>2. None \notin Builders \cup Collectors
  BY NoneIsNothing DEF Procs, Lockers
<1>. QED  BY <1>1, <1>2, OrphanRestored, StepKinds DEF Still, Same, Lone

LEMMA LeftAloneStep ==
  ASSUME Lone, Store, [Next]_vars, Apart
  PROVE  LeftAlone'
<1>. SUFFICES ASSUME NEW id \in Ids, NEW b \in Builders,
                     <<id, b>> \in tmp', trash'[<<id, b>>] # None, pc'[b] = "idle"
              PROVE  lock' = None /\ builds'[id] = None
  BY DEF LeftAlone
<1>1. CASE Crash(b) /\ pc[b] \in {"gap", "drop_old"} /\ bld[b].id = id
  <2>1. UNCHANGED <<builds, tmp>> /\ lock' = None
    <3>1. lock = b
      BY <1>1 DEF Store, MutualExclusion, Inside, Procs, Lockers
    <3>. QED  BY <1>1, <3>1 DEF Crash, Release, disk
  <2>. QED  BY <1>1, <2>1 DEF Apart, BuilderApart
<1>2. CASE pc[b] = "idle"
  <2>1. <<id, b>> \in tmp /\ trash[<<id, b>>] # None
    BY LeftByDeath, TmpGrows
  <2>2. lock = None /\ builds[id] = None /\ OneLeft
    BY <1>2, <2>1 DEF Apart, LeftAlone
  <2>. QED  BY <1>2, <2>1, <2>2, FreeStep
<1>. QED  BY <1>1, <1>2, LeftByDeath

LEMMA ApartStep == Lone /\ Store /\ Apart /\ [Next]_vars => Apart'
BY BuildersApart, OneLeftStep, LeftAloneStep DEF Apart

\* A build that is put aside stays where it is, or comes back.
LEMMA AsideIsSafe ==
  ASSUME Lone, Store, [Next]_vars, Apart, NEW id \in Ids, NEW b \in Builders, OnlyCopy(id, b)
  PROVE  OnDisk(id)'
<1>0. /\ <<id, b>> \in tmp /\ Recorded(trash[<<id, b>>]) /\ trash[<<id, b>>] # None
      /\ BuilderApart(b) /\ b \in Procs
      /\ builds \in [Ids -> Tree \cup {None}]
  BY DEF OnlyCopy, Recorded, Apart, Procs, Lockers, Store, TypeOK, DiskTypes
<1>1. UNCHANGED <<tmp, trash>> => OnDisk(id)'
  BY <1>0 DEF OnDisk, OnlyCopy, Recorded
<1>2. CASE pc[b] = "idle"
  <2>1. lock = None /\ builds[id] = None /\ OneLeft
    BY <1>0, <1>2 DEF Apart, LeftAlone
  <2>2. builds'[id] = trash[<<id, b>>] => OnDisk(id)'
    BY <1>0 DEF OnDisk, Recorded
  <2>. QED  BY <1>0, <1>1, <1>2, <2>1, <2>2, FreeStep
<1>3. CASE pc[b] = "gap" /\ bld[b].id = id
  <2>1. CASE BuildMoveNew(b)
    <3>1. builds'[id] = bld[b].tree /\ Recorded(bld[b].tree)
      BY <1>0, <1>3, <2>1 DEF BuildMoveNew, BuilderApart
    <3>. QED  BY <3>1 DEF OnDisk, Recorded
  <2>2. CASE BuildUndo(b)
    <3>1. builds'[id] = trash[<<id, b>>]
      BY <1>0, <1>3, <2>2 DEF BuildUndo, BuilderApart
    <3>. QED  BY <1>0, <3>1 DEF OnDisk, Recorded
  <2>3. CASE ~BuildMoveNew(b) /\ ~BuildUndo(b)
    <3>1. ~BuildStep(b)
      BY <1>3, <2>3
      DEF BuildStep, BuildLocked, BuildRead, BuildKeep, BuildFinish, BuildInstall, BuildCarryOver,
      BuildExchange,
          BuildMoveOld, BuildDropOld, BuildLink, BuildFail, Take
    <3>2. UNCHANGED <<tmp, trash>>
      BY <1>3, <3>1, OthersLeave DEF Lone, Inside
    <3>. QED  BY <1>1, <3>2
  <2>. QED  BY <2>1, <2>2, <2>3
<1>. QED  BY <1>0, <1>2, <1>3 DEF BuilderApart

\* A build in its place stays there, is put aside, or is the one a gc is at.
LEMMA PlacedIsSafe ==
  ASSUME Store, [Next]_vars, NEW id \in Ids, Recorded(builds[id]),
         \A b \in Builders : pc[b] = "swap" => Recorded(bld[b].tree) /\ (HasExchange \/ <<bld[b].id, b>> \in tmp)
  PROVE  OnDisk(id)' \/ \E g \in Collectors : pc[g] \in {"erase", "remove"} /\ col[g].victim = id
<1>0. builds \in [Ids -> Tree \cup {None}] /\ trash \in [Ids \X Builders -> Tree \cup {None}] /\ builds[id] # None
  BY DEF Recorded, Store, TypeOK, DiskTypes
<1>1. ASSUME NEW b \in Builders, bld[b].id = id, BuildExchange(b)
      PROVE  OnDisk(id)'
  <2>1. builds'[id] = bld[b].tree /\ Recorded(bld[b].tree)
    BY <1>0, <1>1 DEF BuildExchange
  <2>. QED  BY <2>1 DEF OnDisk, Recorded
<1>2. ASSUME NEW b \in Builders, bld[b].id = id, BuildMoveOld(b)
      PROVE  OnDisk(id)'
  <2>1. <<id, b>> \in tmp' /\ trash'[<<id, b>>] = builds[id]
    BY <1>0, <1>2 DEF BuildMoveOld
  <2>. QED  BY <2>1 DEF OnDisk, OnlyCopy, Recorded
<1>3. ASSUME NEW g \in Collectors, GcErase(g) \/ GcRemove(g)
      PROVE  pc[g] \in {"erase", "remove"}
  BY <1>3 DEF GcErase, GcRemove
<1>4. builds'[id] # None /\ builds'[id].bytes = builds[id].bytes => OnDisk(id)'
  BY DEF OnDisk, Recorded
<1>. QED  BY <1>0, <1>1, <1>2, <1>3, <1>4, WhoChanges

\* What keeps every build safe, with and without an exchange call.
Safe == IF HasExchange THEN Chosen /\ Linked ELSE Apart

\* No build is lost: with an exchange call whatever happens, and without one where one process dies, none runs
\* under the pid of an earlier one and no launcher makes the directory of a moved build again.
THEOREM NothingIsLost ==
  ASSUME HasExchange \/ (Servers = {} /\ MaxRuns <= 1 /\ MaxCrashes <= 1)
  PROVE  Spec => NoBuildLost
<1>1. ~HasExchange => Lone
  BY DEF Lone
<1>2. Init => Safe
  <2>1. Init => Chosen /\ Linked
    BY SMT DEF Init, Chosen, Linked, NoTrash, LinksResolve, BuilderLinked, CollectorLinked, Procs, Lockers
  <2>2. Init => Apart
    BY SMT DEF Init, Apart, BuilderApart, OneLeft, LeftAlone, Procs, Lockers
  <2>. QED  BY <2>1, <2>2 DEF Safe
<1>3. Store /\ Safe /\ [Next]_vars => Safe'
  <2>1. CASE HasExchange
    BY <2>1, LinkedStep, ChosenStep DEF Safe
  <2>2. CASE ~HasExchange
    BY <1>1, <2>2, ApartStep DEF Safe
  <2>. QED  BY <2>1, <2>2
<1>4. ASSUME Store, Safe, [Next]_vars, NEW id \in Ids, OnDisk(id)
      PROVE  OnDisk(id)' \/ \E g \in Collectors : pc[g] \in {"erase", "remove"} /\ col[g].victim = id
  <2>1. CASE Recorded(builds[id])
    <3>1. \A b \in Builders :
            pc[b] = "swap" => Recorded(bld[b].tree) /\ (HasExchange \/ <<bld[b].id, b>> \in tmp)
      BY <1>4 DEF Safe, Linked, BuilderLinked, Apart, BuilderApart
    <3>. QED  BY <1>4, <2>1, <3>1, PlacedIsSafe
  <2>2. ASSUME NEW b \in Builders, OnlyCopy(id, b)
        PROVE  OnDisk(id)'
    <3>1. ~HasExchange
      BY <1>4, <2>2 DEF Safe, OnlyCopy, Recorded, Linked, NoTrash
    <3>. QED  BY <1>1, <1>4, <2>2, <3>1, AsideIsSafe DEF Safe
  <2>. QED  BY <1>4, <2>1, <2>2 DEF OnDisk
<1>5. Store /\ Safe /\ [Next]_vars
        => [\A id \in Ids : OnDisk(id) =>
              \/ OnDisk(id)'
              \/ \E g \in Collectors : pc[g] \in {"erase", "remove"} /\ col[g].victim = id]_vars
  BY <1>4
<1>. QED  BY <1>2, <1>3, <1>5, StoreInit, StoreStep, PTL DEF Spec, NoBuildLost

-----------------------------------------------------------------------------
(***************************************************************************)
(* The build store is the registry it promises to be, where the filesystem *)
(* has an exchange call: every step of every process is one operation of   *)
(* the registry or changes nothing of it.                                  *)
(***************************************************************************)

\* What a builder is about to install brings no contract, or the one that the build of the same bytes
\* in its place has.
Carries(t, old) ==
  \/ t.contract = None
  \/ old # None /\ old.bytes = t.bytes /\ old.contract = t.contract

Carried ==
  \A b \in Builders :
    /\ pc[b] = "built" => bld[b].tree.contract = None
    /\ pc[b] = "swap" => Carries(bld[b].tree, builds[bld[b].id])

-----------------------------------------------------------------------------
LEMMA SameEntries ==
  ASSUME Same
  PROVE  StoredEntry' = StoredEntry
<1>1. \A id \in Ids : EntryOf(builds[id])' = EntryOf(builds[id])
  BY DEF Same, EntryOf, Recorded
<1>. QED  BY <1>1 DEF StoredEntry

LEMMA EntryThere ==
  ASSUME NEW t \in Tree, Recorded(t)
  PROVE  /\ EntryOf(t) # None /\ EntryOf(t).bytes = t.bytes
         /\ EntryOf(t).exports = t.exports /\ EntryOf(t).contract = t.contract
<1>1. EntryOf(t) = [bytes |-> t.bytes, exports |-> t.exports, contract |-> t.contract]
  BY DEF EntryOf
<1>2. t.bytes \in Ids /\ t.exports \in Exports \cup {None} /\ t.contract \in Contract \cup {None}
  BY DEF Tree, Recorded
<1>. QED  BY <1>1, <1>2, NoneIsNoEntry

\* A step that touches one build changes one entry.
LEMMA OneEntry ==
  ASSUME NEW id \in Ids, NEW t, builds \in [Ids -> Tree \cup {None}], builds' = [builds EXCEPT ![id] = t]
  PROVE  /\ StoredEntry' = [StoredEntry EXCEPT ![id] = StoredEntry'[id]]
         /\ StoredEntry[id] = EntryOf(builds[id]) /\ StoredEntry'[id] = EntryOf(t)
<1>1. builds'[id] = t /\ \A j \in Ids \ {id} : builds'[j] = builds[j]
  OBVIOUS
<1>2. StoredEntry = [j \in Ids |-> EntryOf(builds[j])] /\ StoredEntry' = [j \in Ids |-> EntryOf(builds'[j])]
  BY DEF StoredEntry, EntryOf, Recorded
<1>3. \A j \in Ids \ {id} : EntryOf(builds'[j]) = EntryOf(builds[j])
  BY <1>1
<1>. QED  BY <1>1, <1>2, <1>3

\* Installing a tree, or renewing what its manifest pins, is the registry's Put.
LEMMA InstalledIsPut ==
  ASSUME TypeOK, NEW id \in Ids, NEW t \in Tree, Recorded(t), Carries(t, builds[id]),
         builds' = [builds EXCEPT ![id] = t], UNCHANGED <<current, latest>>
  PROVE  R!Next
<1>1. builds \in [Ids -> Tree \cup {None}]
  BY DEF TypeOK, DiskTypes
<1>2. StoredEntry'[id] # None /\ StoredEntry'[id].contract = t.contract /\ StoredEntry'[id].bytes = t.bytes
  <2>1. StoredEntry'[id] = EntryOf(t)
    BY <1>1, OneEntry
  <2>. QED  BY <2>1, EntryThere
<1>3. CASE t.contract = None
  BY <1>1, <1>2, <1>3, OneEntry DEF R!Next, R!Change, R!Put
<1>4. CASE builds[id] # None /\ builds[id].bytes = t.bytes /\ builds[id].contract = t.contract
  <2>1. builds[id] \in Tree /\ Recorded(builds[id])
    BY <1>1, <1>4 DEF Recorded
  <2>2. StoredEntry[id] # None /\ StoredEntry[id].contract = t.contract /\ StoredEntry[id].bytes = t.bytes
    <3>1. StoredEntry[id] = EntryOf(builds[id])
      BY <1>1, OneEntry
    <3>. QED  BY <1>4, <2>1, <3>1, EntryThere
  <2>. QED  BY <1>1, <1>2, <2>2, OneEntry DEF R!Next, R!Change, R!Put
<1>. QED  BY <1>3, <1>4 DEF Carries


\* A check's record under the lock is the registry's Record, or is not written.
LEMMA CheckedIsRecord ==
  ASSUME Store, NEW c \in Checkers, CheckRecord(c)
  PROVE  [R!Next]_(R!vars)
<1>. USE DEF Store
<1>. DEFINE id == chk[c].id
            doc == chk[c].doc
            t == [builds[id] EXCEPT !.contract = doc]
<1>1. id \in Ids /\ doc \in Contract /\ builds \in [Ids -> Tree \cup {None}] /\ UNCHANGED <<current, latest>>
  BY DEF CheckRecord, Placed, TypeOK, DiskTypes
<1>2. CASE UNCHANGED builds
  <2>1. StoredEntry' = StoredEntry
    BY <1>2 DEF StoredEntry, EntryOf, Recorded
  <2>. QED  BY <1>1, <2>1 DEF R!vars
<1>3. CASE builds' = [builds EXCEPT ![id].contract = doc] /\ SameBuild(c) /\ ~KeepsEarlierPass(c)
  <2>1. Recorded(builds[id]) /\ builds[id].bytes = doc.bytes /\ builds[id] \in Tree
    BY <1>1, <1>3 DEF SameBuild, Recorded
  <2>2. /\ t \in Tree /\ t.contract = doc /\ t.bytes = builds[id].bytes /\ t.exports = builds[id].exports
    BY <1>1, <2>1, Zenon DEF Tree
  <2>3. builds' = [builds EXCEPT ![id] = t]
    BY <1>3
  <2>4. doc.status # "pass" => doc.status = "fail"
    BY <1>1 DEF Contract
  <2>5. ~doc.strict /\ doc.status = "pass" => ~StrictPass(builds[id])
    BY <1>3 DEF KeepsEarlierPass
  <2>. HIDE DEF t, id, doc
  <2>6. Recorded(t)
    BY <2>1, <2>2, NoneIsNothing DEF Recorded
  <2>7. /\ StoredEntry[id] = EntryOf(builds[id]) /\ StoredEntry'[id] = EntryOf(t)
        /\ StoredEntry' = [StoredEntry EXCEPT ![id] = StoredEntry'[id]]
    BY <1>1, <2>3, OneEntry
  <2>8. /\ StoredEntry[id] # None /\ StoredEntry[id].bytes = builds[id].bytes
        /\ StoredEntry[id].exports = builds[id].exports /\ StoredEntry[id].contract = builds[id].contract
    BY <2>1, <2>7, EntryThere
  <2>9. /\ StoredEntry'[id] # None /\ StoredEntry'[id].bytes = t.bytes
        /\ StoredEntry'[id].exports = t.exports /\ StoredEntry'[id].contract = t.contract
    BY <2>2, <2>6, <2>7, EntryThere
  <2>10. doc # None
    BY <1>1, NoneIsNothing
  <2>11. R!Earned(StoredEntry[id]) => doc.strict \/ doc.status = "fail"
    BY <2>1, <2>4, <2>5, <2>8 DEF R!Earned, StrictPass
  <2>12. R!Record(id)
    BY <1>1, <2>1, <2>2, <2>8, <2>9, <2>10, <2>11 DEF R!Record
  <2>. QED  BY <1>1, <2>7, <2>12 DEF R!Next, R!Change
<1>. QED  BY <1>2, <1>3 DEF CheckRecord

\* What a gc takes apart is behind no link: the registry's Discard, or what was no entry already.
LEMMA ErasedIsDiscard ==
  ASSUME Store, Linked, NEW g \in Collectors, GcErase(g) \/ GcRemove(g)
  PROVE  [R!Next]_(R!vars)
<1>. USE DEF Store
<1>. DEFINE id == col[g].victim
<1>1. /\ id \in Ids /\ builds[id] \in Tree /\ id \notin {current, latest}
      /\ builds \in [Ids -> Tree \cup {None}] /\ UNCHANGED <<current, latest>>
  BY DEF GcErase, GcRemove, Placed, TypeOK, DiskTypes, Linked, CollectorLinked
<1>2. PICK t : /\ builds' = [builds EXCEPT ![id] = t]
               /\ t = None \/ t \in Damaged(builds[id])
  BY DEF GcErase, GcRemove
<1>. HIDE DEF id
<1>3. t # None => /\ t \in Tree /\ t.contract \in {builds[id].contract, None}
                  /\ t.bytes # None => t.bytes = builds[id].bytes /\ t.exports = builds[id].exports
  <2>1. ASSUME NEW u \in Damaged(builds[id]), u.bytes # None
        PROVE  u.exports = builds[id].exports
    BY <1>1, <2>1, Zenon DEF Damaged, Tree
  <2>. QED  BY <1>1, <1>2, <2>1, DamagedIsTree
<1>4. /\ StoredEntry[id] = EntryOf(builds[id]) /\ StoredEntry'[id] = EntryOf(t)
      /\ StoredEntry' = [StoredEntry EXCEPT ![id] = StoredEntry'[id]]
  BY <1>1, <1>2, OneEntry
<1>5. CASE ~Recorded(builds[id])
  <2>1. ~Recorded(t)
    BY <1>1, <1>3, <1>5, NoneIsNothing DEF Recorded
  <2>2. StoredEntry'[id] = StoredEntry[id]
    BY <1>4, <1>5, <2>1 DEF EntryOf
  <2>3. StoredEntry' = StoredEntry
    BY <1>4, <2>2 DEF StoredEntry
  <2>. QED  BY <1>1, <2>3 DEF R!vars
<1>6. CASE Recorded(builds[id]) /\ ~Recorded(t)
  <2>1. StoredEntry[id] # None /\ StoredEntry'[id] = None
    BY <1>1, <1>4, <1>6, EntryThere DEF EntryOf
  <2>. QED  BY <1>1, <1>4, <2>1 DEF R!Next, R!Change, R!Discard
<1>7. CASE Recorded(builds[id]) /\ Recorded(t)
  <2>1. t \in Tree /\ t.bytes = builds[id].bytes /\ t.exports = builds[id].exports
    BY <1>3, <1>7 DEF Recorded
  <2>2. /\ StoredEntry[id] # None /\ StoredEntry[id].bytes = builds[id].bytes
        /\ StoredEntry[id].exports = builds[id].exports /\ StoredEntry[id].contract = builds[id].contract
    BY <1>1, <1>4, <1>7, EntryThere
  <2>3. /\ StoredEntry'[id] # None /\ StoredEntry'[id].bytes = t.bytes
        /\ StoredEntry'[id].exports = t.exports /\ StoredEntry'[id].contract = t.contract
    BY <1>4, <1>7, <2>1, EntryThere
  <2>4. CASE t.contract = None
    BY <1>1, <1>4, <2>1, <2>2, <2>3, <2>4 DEF R!Next, R!Change, R!Discard
  <2>5. CASE t.contract = builds[id].contract
    <3>1. EntryOf(t) = EntryOf(builds[id])
      BY <1>7, <2>1, <2>5 DEF EntryOf
    <3>2. StoredEntry' = StoredEntry
      BY <1>4, <3>1 DEF StoredEntry
    <3>. QED  BY <1>1, <3>2 DEF R!vars
  <2>. QED  BY <1>3, <1>7, <2>4, <2>5 DEF Recorded
<1>. QED  BY <1>5, <1>6, <1>7

-----------------------------------------------------------------------------
\* The contract a builder carries over is still the one of the build in its place when it swaps them: the
\* lock keeps every record, every other builder and every gc away in between.
LEMMA CarriedStep == HasExchange /\ Store /\ Linked /\ Carried /\ [Next]_vars => Carried'
<1>. SUFFICES ASSUME HasExchange, Store, Linked, Carried, [Next]_vars,
                     NEW b \in Builders, pc'[b] \in {"built", "swap"}
              PROVE  /\ pc'[b] = "built" => bld'[b].tree.contract = None
                     /\ pc'[b] = "swap" => Carries(bld'[b].tree, builds'[bld'[b].id])
  BY DEF Carried, Carries
<1>. USE DEF Store
<1>0. b \in Procs /\ pc = [p \in Procs |-> pc[p]]
  <2>1. pc = [p \in Procs |-> pc[p]]
    BY Zenon DEF TypeOK, ControlTypes
  <2>. QED  BY <2>1 DEF Procs, Lockers
<1>1. CASE BuildFinish(b)
  <2>1. pc'[b] = "built"
    BY <1>0, <1>1 DEF BuildFinish, Goto
  <2>. QED  BY <1>1, <2>1, FinishedJob
<1>2. CASE BuildCarryOver(b)
  <2>. DEFINE old == builds[bld[b].id]
  <2>1. pc'[b] = "swap" /\ UNCHANGED builds
    BY <1>0, <1>2 DEF BuildCarryOver, Goto, disk
  <2>2. bld[b] \in BuildJob /\ bld[b].tree \in Tree
    BY <1>2, SMT DEF BuildCarryOver, Placed, TypeOK, JobTypes, JobsOfRunning
  <2>3. PICK x : bld' = [bld EXCEPT ![b].tree.contract = x] /\ x = CarriedContract(old, bld[b].tree)
    BY <1>2 DEF BuildCarryOver
  <2>4. bld'[b].id = bld[b].id /\ bld'[b].tree.contract = x /\ bld'[b].tree.bytes = bld[b].tree.bytes
    BY <2>2, <2>3, SMT DEF BuildJob, Tree, TypeOK, JobTypes
  <2>5. x = None \/ (old.bytes = bld[b].tree.bytes /\ x = old.contract)
    BY <2>3 DEF CarriedContract
  <2>6. old # None
    BY <1>2 DEF BuildCarryOver
  <2>7. Carries(bld'[b].tree, old)
    BY <2>4, <2>5, <2>6 DEF Carries
  <2>. QED  BY <2>1, <2>4, <2>7
<1>3. CASE pc[b] = pc'[b] /\ bld'[b] = bld[b] /\ ~BuildFinish(b) /\ ~BuildCarryOver(b)
  <2>1. lock = b /\ b # None
    BY <1>0, <1>3, NoneIsNothing DEF MutualExclusion, Inside, Procs, Lockers
  <2>2. \A q \in Procs \ {b} : pc[q] \notin Inside
    BY <1>0, <2>1, OneInside
  <2>3. ASSUME NEW a \in Builders, BuildKeep(a) \/ BuildInstall(a) \/ BuildExchange(a)
        PROVE  FALSE
    <3>1. pc[a] \in Inside /\ pc'[a] \in {"build_link", "drop_old"} /\ a \in Procs
      BY <1>0, <2>3 DEF BuildKeep, BuildInstall, BuildExchange, Goto, Inside, Procs, Lockers
    <3>. QED  BY <2>2, <3>1
  <2>4. ASSUME NEW g \in Collectors, GcErase(g) \/ GcRemove(g)
        PROVE  FALSE
    <3>1. pc[g] \in Inside /\ g \in Procs /\ g # b
      BY <2>4, RolesDisjoint DEF GcErase, GcRemove, Inside, Procs, Lockers
    <3>. QED  BY <2>2, <3>1
  <2>5. Same
    BY <2>1, <2>3, <2>4, QuietSteps DEF CheckRecord
  <2>6. pc[b] = "swap" => bld[b].id \in Ids
    BY <1>3, SMT DEF TypeOK, JobTypes, JobsOfRunning, BuildJob
  <2>7. pc[b] = "swap" => Carries(bld[b].tree, builds'[bld[b].id])
    BY <2>5, <2>6 DEF Carried, Carries, Same
  <2>. QED  BY <1>3, <2>7 DEF Carried
<1>4. ~BuildMoveOld(b)
  BY DEF BuildMoveOld
<1>. QED  BY <1>1, <1>2, <1>3, <1>4, FinishesItself

\* With an exchange call every step of every process is one step of the registry or none.
LEMMA StepIsRegistryStep ==
  ASSUME HasExchange, Store, Chosen, Linked, Carried, [Next]_vars
  PROVE  [R!Next]_(R!vars)
<1>. USE DEF Store
<1>1. ASSUME NEW b \in Builders, BuildKeep(b)
      PROVE  R!Next
  <2>. DEFINE id == bld[b].id
              t == [builds[id] EXCEPT !.exports = exports]
  <2>1. bld[b] \in BuildJob
    BY <1>1, SMT DEF BuildKeep, TypeOK, JobTypes, JobsOfRunning
  <2>2. id \in Ids /\ builds[id] # None /\ builds[id] \in Tree /\ builds[id].bytes \in Ids
    BY <1>1, <2>1 DEF BuildKeep, BuildJob, TypeOK, DiskTypes
  <2>3. t \in Tree /\ t.bytes = builds[id].bytes /\ t.contract = builds[id].contract
    BY <2>2, Zenon DEF Tree, TypeOK, ControlTypes
  <2>4. builds' = [builds EXCEPT ![id] = t] /\ UNCHANGED <<current, latest>>
    BY <1>1 DEF BuildKeep
  <2>. HIDE DEF t
  <2>5. Recorded(t) /\ Carries(t, builds[id])
    BY <2>2, <2>3, NoneIsNothing DEF Recorded, Carries
  <2>. QED  BY <2>2, <2>3, <2>4, <2>5, InstalledIsPut
<1>2. ASSUME NEW b \in Builders, BuildInstall(b) \/ BuildExchange(b)
      PROVE  R!Next
  <2>1. bld[b] \in BuildJob /\ bld[b].tree \in Tree /\ Recorded(bld[b].tree)
    BY <1>2, SMT DEF BuildInstall, BuildExchange, TypeOK, JobTypes, JobsOfRunning, Placed, Linked, BuilderLinked
  <2>2. Carries(bld[b].tree, builds[bld[b].id])
    BY <1>2 DEF BuildInstall, BuildExchange, Carried, Carries
  <2>3. builds' = [builds EXCEPT ![bld[b].id] = bld[b].tree] /\ UNCHANGED <<current, latest>>
    BY <1>2 DEF BuildInstall, BuildExchange
  <2>. QED  BY <2>1, <2>2, <2>3, InstalledIsPut DEF BuildJob
<1>3. CASE Same
  <2>1. StoredEntry' = StoredEntry
    BY <1>3, SameEntries
  <2>2. CASE UNCHANGED <<current, latest>>
    BY <2>1, <2>2 DEF R!vars
  <2>3. ASSUME NEW b \in Builders, BuildLink(b)
        PROVE  R!Next
    <3>1. bld[b].id \in Ids /\ Recorded(builds[bld[b].id])
      BY <2>3, SMT DEF BuildLink, TypeOK, JobTypes, JobsOfRunning, BuildJob, Linked, BuilderLinked
    <3>2. StoredEntry[bld[b].id] # None
      <4>1. builds[bld[b].id] \in Tree
        BY <3>1 DEF Recorded, TypeOK, DiskTypes
      <4>. QED  BY <3>1, <4>1, EntryThere DEF StoredEntry
    <3>. QED  BY <2>1, <2>3, <3>1, <3>2 DEF BuildLink, R!Next, R!PointLatest
  <2>4. ASSUME NEW p \in Promoters, PromoteLink(p)
        PROVE  R!Next
    <3>. DEFINE id == prm[p].target
    <3>1. id \in Ids /\ StrictPass(builds[id])
      BY <2>4 DEF PromoteLink, Chosen
    <3>2. Recorded(builds[id]) /\ builds[id] \in Tree
      BY <3>1 DEF StrictPass, Recorded, TypeOK, DiskTypes
    <3>3. R!Earned(StoredEntry[id])
      <4>1. StoredEntry[id] = EntryOf(builds[id])
        BY <3>1 DEF StoredEntry
      <4>. QED  BY <3>1, <3>2, <4>1, EntryThere DEF R!Earned, StrictPass
    <3>. QED  BY <2>1, <2>4, <3>1, <3>3 DEF PromoteLink, R!Next, R!PointCurrent
  <2>5. \/ UNCHANGED <<current, latest>>
        \/ \E b \in Builders : BuildLink(b)
        \/ \E p \in Promoters : PromoteLink(p)
    <3>1. \A b \in Builders : BuildStart(b) \/ BuildStep(b) => UNCHANGED <<current, latest>> \/ BuildLink(b)
      BY DEF BuildStep, BuildStart, BuildLocked, BuildRead, BuildKeep, BuildFinish, BuildInstall, BuildCarryOver,
             BuildExchange, BuildMoveOld, BuildMoveNew, BuildUndo, BuildDropOld, BuildFail, Start, disk
    <3>2. \A p \in Promoters : PromoteStart(p) \/ PromoteStep(p) => UNCHANGED <<current, latest>> \/ PromoteLink(p)
      BY DEF PromoteStep, PromoteStart, PromoteLocked, PromoteChoose, PromoteRefuse, Start, disk
    <3>3. \A g \in Collectors : GcStart(g) \/ GcStep(g) => UNCHANGED <<current, latest>>
      BY DEF GcStep, GcStart, GcLocked, GcScan, GcPick, GcErase, GcRemove, GcSweep, Start, disk
    <3>4. \A c \in Checkers : CheckStart(c) \/ CheckStep(c) => UNCHANGED <<current, latest>>
      BY DEF CheckStep, CheckStart, CheckOpen, CheckExamine, CheckRecord, CheckAbort, Start, disk
    <3>5. \A s \in Servers : ServeResolve(s) \/ ServeStep(s) => UNCHANGED <<current, latest>>
      BY DEF ServeStep, ServeResolve, ServeSweep, ServePidfile, ServeOpen, ServeStop, Start, disk
    <3>6. \A q \in Builders \cup Collectors, d \in Ids \X Builders : Erode(q, d) => UNCHANGED <<current, latest>>
      BY DEF Erode
    <3>7. \A q \in Procs : LockTimeout(q) \/ Crash(q) => UNCHANGED <<current, latest>>
      BY DEF LockTimeout, Crash, disk
    <3>8. EditSources \/ EditExports \/ LoseDatabase \/ UNCHANGED vars => UNCHANGED <<current, latest>>
      BY DEF EditSources, EditExports, LoseDatabase, Edit, vars, disk
    <3>. QED  BY <3>1, <3>2, <3>3, <3>4, <3>5, <3>6, <3>7, <3>8, Zenon DEF Next
  <2>. QED  BY <2>2, <2>3, <2>4, <2>5
<1>. QED  BY <1>1, <1>2, <1>3, QuietSteps, ErasedIsDiscard, CheckedIsRecord

\* With an exchange call the store implements the registry: locks, temp directories, renames, timeouts and
\* crashes are invisible in what counts of a build and in the two links.
THEOREM StoreImplementsRegistry ==
  ASSUME HasExchange
  PROVE  Spec => ImplementsRegistry
<1>1. Init => Chosen /\ Linked /\ Carried /\ R!Init
  <2>1. Init => Carried /\ Chosen /\ Linked
    BY SMT DEF Init, Carried, Chosen, Linked, NoTrash, LinksResolve, BuilderLinked, CollectorLinked, Procs, Lockers
  <2>2. Init => R!Init
    BY DEF Init, R!Init, StoredEntry, EntryOf, Recorded
  <2>. QED  BY <2>1, <2>2
<1>2. Store /\ Chosen /\ Linked /\ Carried /\ [Next]_vars => Linked' /\ Carried'
  BY LinkedStep, CarriedStep
<1>3. Store /\ Chosen /\ Linked /\ Carried /\ [Next]_vars => [R!Next]_(R!vars)
  BY StepIsRegistryStep
<1>. QED  BY <1>1, <1>2, <1>3, StoreInit, StoreStep, ChosenStep, PTL DEF Spec, ImplementsRegistry, R!Spec
=============================================================================

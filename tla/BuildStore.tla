----------------------------- MODULE BuildStore -----------------------------
(***************************************************************************)
(* The graph build store: the directory tree $GRAPH_ROOT/<profile>/builds  *)
(* and the commands that work on it at the same time:                      *)
(*   Builders    build.build_profile (make graph-build, --rebuild)         *)
(*   Promoters   store.promote       (make graph-promote)                  *)
(*   Collectors  store.gc            (make graph-gc)                       *)
(*   Checkers    check_graph_contract.main and record (make graph-check)   *)
(*   Servers     graph_mcp.sh followed by the MCP server it execs          *)
(* Every process dies at any step, and with it its flock; what it leaves   *)
(* on disk stays.  A process is named by its pid: a process that runs      *)
(* again (MaxRuns > 1) runs under a pid that an earlier one had.           *)
(*                                                                         *)
(* Ids are business_build_ids.  An id is the hash of the bronze and the    *)
(* code, so Ids also names the states of the sources, and `bytes' of a     *)
(* build is the state of the sources its Parquet was really made from.     *)
(***************************************************************************)
EXTENDS Naturals, FiniteSets

CONSTANTS
  Ids,                                               \* business_build_id = state of bronze and code
  Exports,                                           \* contents of the export directory
  Builders, Promoters, Collectors, Checkers, Servers,
  None,                                              \* nothing there
  HasExchange,                                       \* the filesystem has renameat2 / renamex_np
  Keep,                                              \* gc --keep
  MaxRuns,                                           \* bound: commands started per pid
  MaxEdits,                                          \* bound: changes of the surroundings
  MaxCrashes                                         \* bound: processes killed

Lockers == Builders \cup Promoters \cup Collectors   \* hold the BuildLock across several steps
Procs   == Lockers \cup Checkers \cup Servers

Contract == [status : {"pass", "fail"}, strict : BOOLEAN, bytes : Ids, exports : Exports]

\* A build directory: manifest.json (bytes = None when it is missing or unreadable), graph.lbdb,
\* whether every Parquet file is in place, contract.json and the pidfiles in .pids.
Tree == [bytes : Ids \cup {None}, exports : Exports \cup {None}, built : Nat, db : BOOLEAN,
         whole : BOOLEAN, contract : Contract \cup {None}, pids : SUBSET Servers]

BuildJob == [id : Ids, code : Ids, guard : Exports, rebuild : BOOLEAN, tree : Tree \cup {None}]
CheckJob == [strict : BOOLEAN, code : Ids, id : Ids \cup {None}, bytes : Ids \cup {None},
             pinned : Exports \cup {None}, fresh : BOOLEAN, sound : BOOLEAN, doc : Contract \cup {None}]
PromoteJob == [named : Ids \cup {None}, target : Ids \cup {None}]
CollectJob == [current : Ids \cup {None}, latest : Ids \cup {None}, todo : SUBSET Ids,
               victim : Ids \cup {None}]
ServeJob == [id : Ids, built : Nat]

ASSUME RolesDisjoint ==
  /\ Builders \cap (Promoters \cup Collectors \cup Checkers \cup Servers) = {}
  /\ Promoters \cap (Collectors \cup Checkers \cup Servers) = {}
  /\ Collectors \cap (Checkers \cup Servers) = {}
  /\ Checkers \cap Servers = {}

ASSUME NoneIsNothing ==
  /\ None \notin Ids \cup Exports \cup Procs
  /\ None \notin Tree /\ None \notin Contract
  /\ None \notin BuildJob /\ None \notin CheckJob /\ None \notin PromoteJob
  /\ None \notin CollectJob /\ None \notin ServeJob

ASSUME ConstantsOK ==
  /\ HasExchange \in BOOLEAN
  /\ Keep \in Nat /\ MaxRuns \in Nat /\ MaxEdits \in Nat /\ MaxCrashes \in Nat

VARIABLES
  sources,    \* the bronze and the code on disk now
  exports,    \* the export directory now
  clock,      \* built_at of the last manifest assembled, in seconds: 0 is that of no manifest
  builds,     \* <profile>/builds/<id>
  tmp,        \* the .tmp-<id>-<pid> directories
  trash,      \* the .trash-<id>-<pid> directories
  current,    \* $GRAPH_ROOT/current
  latest,     \* <profile>/latest
  lock,       \* holder of the flock on $GRAPH_ROOT/.lock
  pc,         \* where each process is; "idle" is: no such process
  bld, chk, prm, col, srv,     \* what a running process holds in memory
  earned,     \* history: <<id, bytes, exports>> that a strict check found good
  runs, edits, crashes         \* used up against the bounds

disk   == <<builds, tmp, trash, current, latest>>
local  == <<bld, chk, prm, col, srv>>
world  == <<sources, exports>>
bounds == <<runs, edits, crashes>>
vars   == <<world, clock, disk, lock, pc, local, earned, bounds>>

(***************************************************************************)
(* Reading the disk                                                        *)
(***************************************************************************)
Recorded(t) == t # None /\ t.bytes # None

\* Mutant: the exports of the record are not compared with the ones the manifest pins now.
StrictPassAnyExports(t) ==
  /\ Recorded(t)
  /\ t.contract # None
  /\ t.contract.status = "pass" /\ t.contract.strict
  /\ t.contract.bytes = t.bytes

\* store.is_strict_pass
StrictPass(t) ==
  /\ Recorded(t)
  /\ t.contract # None
  /\ t.contract.status = "pass"
  /\ t.contract.strict
  /\ t.contract.bytes = t.bytes
  /\ t.contract.exports = t.exports

Alive(p) == pc[p] # "idle"

\* Mutant: no pidfile is ever read.
LivePidsBlind(t) == {}

\* store.live_pids
LivePids(t) == {p \in t.pids : Alive(p)}

\* .trash-<id>-<pid> that restore_orphans may put back: the writer is gone and <id> is missing
Orphans(id) == {b \in Builders : trash[<<id, b>>] # None /\ ~Alive(b) /\ builds[id] = None}

Picks == {f \in [Ids -> Builders \cup {None}] :
            \A id \in Ids : IF Orphans(id) = {} THEN f[id] = None ELSE f[id] \in Orphans(id)}

\* Mutant: nothing is put back.
RestoreNothing == UNCHANGED <<builds, trash>>

\* store.restore_orphans: the pids are compared as text, so which of two orphans comes first is arbitrary
RestoreOrphans ==
  \E pick \in Picks :
    /\ builds' = [id \in Ids |-> IF pick[id] = None THEN builds[id] ELSE trash[<<id, pick[id]>>]]
    /\ trash'  = [d \in Ids \X Builders |-> IF pick[d[1]] = d[2] THEN None ELSE trash[d]]

Goto(p, label) == pc' = [pc EXCEPT ![p] = label]

\* Mutant: whoever ends unlocks, whether it had the lock or not.
ReleaseAnyones(p) == lock' = None

\* BuildLock.__exit__, or the kernel closing the file of a dead process
Release(p) == lock' = IF lock = p THEN None ELSE lock

Start(p, label) ==
  /\ pc[p] = "idle" /\ runs[p] < MaxRuns
  /\ runs' = [runs EXCEPT ![p] = @ + 1]
  /\ Goto(p, label)
  /\ UNCHANGED <<world, clock, disk, lock, earned, edits, crashes>>

Take(p, from, to) ==
  /\ pc[p] = from /\ lock = None
  /\ lock' = p
  /\ Goto(p, to)

(***************************************************************************)
(* build.build_profile                                                     *)
(***************************************************************************)
\* The interpreter imports the code and guard_before is hashed before the lock is asked for.
BuildStart(b) ==
  /\ Start(b, "build_wait")
  /\ \E rebuild \in BOOLEAN :
       bld' = [bld EXCEPT ![b] = [id |-> sources, code |-> sources, guard |-> exports,
                                  rebuild |-> rebuild, tree |-> None]]
  /\ UNCHANGED <<chk, prm, col, srv>>

\* Under the lock: the identity is hashed from disk, orphans are restored, .tmp-<id>-<pid> is made.
BuildLocked(b) ==
  /\ Take(b, "build_wait", "reading")
  /\ RestoreOrphans
  /\ bld' = [bld EXCEPT ![b].id = sources]
  /\ tmp' = tmp \cup {<<sources, b>>}
  /\ UNCHANGED <<world, clock, current, latest, chk, prm, col, srv, earned, bounds>>

\* Only then are the bronze and the gold script read.  What the Parquet comes to is decided by the code imported at
\* the start and by what is read now; where the two differ, either may be what tells the bytes apart.
BuildRead(b) ==
  /\ pc[b] = "reading"
  /\ \E bytes \in {bld[b].code, sources} : bld' = [bld EXCEPT ![b].code = bytes]
  /\ Goto(b, "building")
  /\ UNCHANGED <<world, clock, disk, lock, chk, prm, col, srv, earned, bounds>>

\* An existing build that recorded the same bytes and has its database is kept: repin() renews the
\* exports its manifest pins.
BuildKeep(b) ==
  LET id == bld[b].id  old == builds[id] IN
  /\ pc[b] = "building" /\ old # None /\ ~bld[b].rebuild
  /\ old.bytes = bld[b].code /\ old.db
  /\ builds' = [builds EXCEPT ![id].exports = exports]
  /\ tmp' = tmp \ {<<id, b>>}
  /\ Goto(b, "build_link")
  /\ UNCHANGED <<world, clock, trash, current, latest, lock, local, earned, bounds>>

\* Otherwise the tree is finished in .tmp: graph.lbdb loaded, manifest assembled, _check_guard passed.  Two builds
\* may be of the same second.
BuildFinish(b) ==
  LET old == builds[bld[b].id] IN
  /\ pc[b] = "building"
  /\ (old # None /\ ~bld[b].rebuild) => (old.bytes = bld[b].code /\ ~old.db)
  /\ exports = bld[b].guard
  /\ clock' \in {clock, clock + 1} \ {0}
  /\ bld' = [bld EXCEPT ![b].tree = [bytes |-> bld[b].code, exports |-> exports, built |-> clock',
                                     db |-> TRUE, whole |-> TRUE, contract |-> None, pids |-> {}]]
  /\ Goto(b, "built")
  /\ UNCHANGED <<world, disk, lock, chk, prm, col, srv, earned, bounds>>

\* os.replace(tmp, bdir): the id is new.
BuildInstall(b) ==
  LET id == bld[b].id IN
  /\ pc[b] = "built" /\ builds[id] = None
  /\ builds' = [builds EXCEPT ![id] = bld[b].tree]
  /\ tmp' = tmp \ {<<id, b>>}
  /\ Goto(b, "build_link")
  /\ UNCHANGED <<world, clock, trash, current, latest, lock, local, earned, bounds>>

\* carry_over: contract.json follows only byte-identical Parquet, and no live pid may hold the build.
CarriedContract(old, new) == IF old.bytes = new.bytes THEN old.contract ELSE None

BuildCarryOver(b) ==
  LET old == builds[bld[b].id] IN
  /\ pc[b] = "built" /\ old # None
  /\ LivePids(old) = {}
  /\ bld' = [bld EXCEPT ![b].tree.contract = CarriedContract(old, bld[b].tree)]
  /\ Goto(b, "swap")
  /\ UNCHANGED <<world, clock, disk, lock, chk, prm, col, srv, earned, bounds>>

\* replace_dir, one atomic exchange; the old tree is now the .tmp directory, removed next.
BuildExchange(b) ==
  /\ pc[b] = "swap" /\ HasExchange
  /\ builds' = [builds EXCEPT ![bld[b].id] = bld[b].tree]
  /\ Goto(b, "drop_old")
  /\ UNCHANGED <<world, clock, tmp, trash, current, latest, lock, local, earned, bounds>>

\* replace_dir without an exchange call: first rename, final -> .trash-<id>-<pid>.
BuildMoveOld(b) ==
  LET id == bld[b].id IN
  /\ pc[b] = "swap" /\ ~HasExchange /\ builds[id] # None
  /\ trash' = [trash EXCEPT ![<<id, b>>] = builds[id]]
  /\ builds' = [builds EXCEPT ![id] = None]
  /\ Goto(b, "gap")
  /\ UNCHANGED <<world, clock, tmp, current, latest, lock, local, earned, bounds>>

\* Second rename, .tmp -> final.
BuildMoveNew(b) ==
  LET id == bld[b].id IN
  /\ pc[b] = "gap" /\ builds[id] = None
  /\ builds' = [builds EXCEPT ![id] = bld[b].tree]
  /\ tmp' = tmp \ {<<id, b>>}
  /\ Goto(b, "drop_old")
  /\ UNCHANGED <<world, clock, trash, current, latest, lock, local, earned, bounds>>

\* The second rename fails (a directory with something in it is there, or an I/O error).  The undo
\* rename puts the old build back, unless something is in its place too.
BuildUndo(b) ==
  LET id == bld[b].id IN
  /\ pc[b] = "gap"
  /\ IF builds[id] = None
       THEN /\ builds' = [builds EXCEPT ![id] = trash[<<id, b>>]]
            /\ trash' = [trash EXCEPT ![<<id, b>>] = None]
       ELSE UNCHANGED <<builds, trash>>
  /\ tmp' = tmp \ {<<id, b>>}
  /\ bld' = [bld EXCEPT ![b] = None]
  /\ Goto(b, "idle") /\ Release(b)
  /\ UNCHANGED <<world, clock, current, latest, chk, prm, col, srv, earned, bounds>>

\* rmtree of the tree that was replaced: .tmp after an exchange, .trash after the renames.
BuildDropOld(b) ==
  LET id == bld[b].id IN
  /\ pc[b] = "drop_old"
  /\ tmp' = tmp \ {<<id, b>>}
  /\ trash' = [trash EXCEPT ![<<id, b>>] = None]
  /\ Goto(b, "build_link")
  /\ UNCHANGED <<world, clock, builds, current, latest, lock, local, earned, bounds>>

\* What is left of a tree while shutil.rmtree goes through it entry by entry, in directory order.
Damaged(t) ==
  {[t EXCEPT !.whole    = FALSE,
             !.db       = IF "graph.lbdb" \in lost THEN FALSE ELSE @,
             !.contract = IF "contract.json" \in lost THEN None ELSE @,
             !.bytes    = IF "manifest.json" \in lost THEN None ELSE @,
             !.exports  = IF "manifest.json" \in lost THEN None ELSE @,
             !.built    = IF "manifest.json" \in lost THEN 0 ELSE @] :
     lost \in SUBSET {"graph.lbdb", "contract.json", "manifest.json"}}

\* Mutant: the process ends with its job still in memory.
BuildLinkKeepsJob(b) ==
  /\ pc[b] = "build_link"
  /\ latest' = bld[b].id
  /\ Goto(b, "idle") /\ Release(b)
  /\ UNCHANGED <<world, clock, builds, tmp, trash, current, local, earned, bounds>>

\* update_link(<profile>/latest), then the lock is released.
BuildLink(b) ==
  /\ pc[b] = "build_link"
  /\ latest' = bld[b].id
  /\ bld' = [bld EXCEPT ![b] = None]
  /\ Goto(b, "idle") /\ Release(b)
  /\ UNCHANGED <<world, clock, builds, tmp, trash, current, chk, prm, col, srv, earned, bounds>>

\* Any exception before the swap, the refusals included (determinism violation, unreadable manifest,
\* held by live pids, guarded files changed, load failed): .tmp is removed and nothing else changes.
BuildFail(b) ==
  /\ pc[b] \in {"reading", "building", "built", "swap", "build_link"}
  /\ tmp' = tmp \ {<<bld[b].id, b>>}
  /\ bld' = [bld EXCEPT ![b] = None]
  /\ Goto(b, "idle") /\ Release(b)
  /\ UNCHANGED <<world, clock, builds, trash, current, latest, chk, prm, col, srv, earned, bounds>>

(***************************************************************************)
(* store.promote                                                           *)
(***************************************************************************)
PromoteStart(p) ==
  /\ Start(p, "promote_wait")
  /\ \E named \in Ids \cup {None} : prm' = [prm EXCEPT ![p] = [named |-> named, target |-> None]]
  /\ UNCHANGED <<bld, chk, col, srv>>

PromoteLocked(p) ==
  /\ Take(p, "promote_wait", "choose")
  /\ RestoreOrphans
  /\ UNCHANGED <<world, clock, tmp, current, latest, local, earned, bounds>>

\* A named build needs its strict pass; without a name it must also be fresh (manifest.is_fresh).
Promotable(p, id) ==
  /\ StrictPass(builds[id])
  /\ IF prm[p].named = None THEN id = sources ELSE id = prm[p].named

\* Mutant: the lock is given back between the choice and the swap.
PromoteChooseUnlocked(p) ==
  /\ pc[p] = "choose"
  /\ \E id \in Ids :
       /\ Promotable(p, id)
       /\ prm' = [prm EXCEPT ![p].target = id]
  /\ Goto(p, "promote_link") /\ Release(p)
  /\ UNCHANGED <<world, clock, disk, bld, chk, col, srv, earned, bounds>>

PromoteChoose(p) ==
  /\ pc[p] = "choose"
  /\ \E id \in Ids :
       /\ Promotable(p, id)
       /\ prm' = [prm EXCEPT ![p].target = id]
  /\ Goto(p, "promote_link")
  /\ UNCHANGED <<world, clock, disk, lock, bld, chk, col, srv, earned, bounds>>

PromoteRefuse(p) ==
  /\ pc[p] = "choose"
  /\ \A id \in Ids : ~Promotable(p, id)
  /\ prm' = [prm EXCEPT ![p] = None]
  /\ Goto(p, "idle") /\ Release(p)
  /\ UNCHANGED <<world, clock, disk, bld, chk, col, srv, earned, bounds>>

PromoteLink(p) ==
  /\ pc[p] = "promote_link"
  /\ current' = prm[p].target
  /\ prm' = [prm EXCEPT ![p] = None]
  /\ Goto(p, "idle") /\ Release(p)
  /\ UNCHANGED <<world, clock, builds, tmp, trash, latest, bld, chk, col, srv, earned, bounds>>

(***************************************************************************)
(* store.gc                                                                *)
(***************************************************************************)
GcStart(g) ==
  /\ Start(g, "gc_wait")
  /\ col' = [col EXCEPT ![g] = [current |-> None, latest |-> None, todo |-> {}, victim |-> None]]
  /\ UNCHANGED <<bld, chk, prm, srv>>

\* store.link_target: nothing when the link leads nowhere
LinkTarget(link) == IF link # None /\ builds[link] # None THEN link ELSE None

\* `current' is followed first, and only then are the orphans of the profile put back.
GcLocked(g) ==
  /\ Take(g, "gc_wait", "scan")
  /\ col' = [col EXCEPT ![g].current = LinkTarget(current)]
  /\ RestoreOrphans
  /\ UNCHANGED <<world, clock, tmp, current, latest, bld, chk, prm, srv, earned, bounds>>

\* The first n builds of the store, newest first.  Builds of one second (and those without a manifest) are ordered by
\* the mtime of their directories, which here is any order.
Stored == {id \in Ids : builds[id] # None}
Newest(n) == {K \in SUBSET Stored :
                /\ Cardinality(K) <= n /\ (K # Stored => Cardinality(K) = n)
                /\ \A k \in K, id \in Stored \ K : builds[k].built >= builds[id].built}

\* Mutant: off by one.
GcScanOneMore(g) ==
  /\ pc[g] = "scan"
  /\ \E kept \in Newest(Keep - 1) :
       col' = [col EXCEPT ![g].latest = LinkTarget(latest), ![g].todo = Stored \ kept]
  /\ Goto(g, "pick")
  /\ UNCHANGED <<world, clock, disk, lock, bld, chk, prm, srv, earned, bounds>>

\* Everything after the newest Keep builds, by built_at.
GcScan(g) ==
  /\ pc[g] = "scan"
  /\ \E kept \in Newest(Keep) :
       col' = [col EXCEPT ![g].latest = LinkTarget(latest), ![g].todo = Stored \ kept]
  /\ Goto(g, "pick")
  /\ UNCHANGED <<world, clock, disk, lock, bld, chk, prm, srv, earned, bounds>>

\* Mutant: the links are not looked at.
HeldByPidsOnly(g, id) == LivePids(builds[id]) # {}

Held(g, id) ==
  \/ LivePids(builds[id]) # {}
  \/ id \in {col[g].current, col[g].latest}

\* The next old build: held, or chosen for removal.
GcPick(g) ==
  /\ pc[g] = "pick"
  /\ \E id \in col[g].todo :
       IF Held(g, id)
         THEN /\ col' = [col EXCEPT ![g].todo = @ \ {id}]
              /\ UNCHANGED pc
         ELSE /\ col' = [col EXCEPT ![g].todo = @ \ {id}, ![g].victim = id]
              /\ Goto(g, "erase")
  /\ UNCHANGED <<world, clock, disk, lock, bld, chk, prm, srv, earned, bounds>>

\* shutil.rmtree of the build under its own name.
GcErase(g) ==
  LET id == col[g].victim IN
  /\ pc[g] = "erase"
  /\ \E t \in Damaged(builds[id]) : builds' = [builds EXCEPT ![id] = t]
  /\ Goto(g, "remove")
  /\ UNCHANGED <<world, clock, tmp, trash, current, latest, lock, local, earned, bounds>>

GcRemove(g) ==
  /\ pc[g] = "remove"
  /\ builds' = [builds EXCEPT ![col[g].victim] = None]
  /\ col' = [col EXCEPT ![g].victim = None]
  /\ Goto(g, "pick")
  /\ UNCHANGED <<world, clock, tmp, trash, current, latest, lock, bld, chk, prm, srv, earned, bounds>>

\* Last: the dot directories of dead writers.
GcSweep(g) ==
  /\ pc[g] = "pick" /\ col[g].todo = {}
  /\ tmp' = {d \in tmp : Alive(d[2])}
  /\ trash' = [d \in Ids \X Builders |-> IF Alive(d[2]) THEN trash[d] ELSE None]
  /\ col' = [col EXCEPT ![g] = None]
  /\ Goto(g, "idle") /\ Release(g)
  /\ UNCHANGED <<world, clock, builds, current, latest, bld, chk, prm, srv, earned, bounds>>

\* The rmtree of a trash directory half way: in replace_dir its own, in gc one of a dead writer.
Erode(p, d) ==
  /\ \/ pc[p] = "drop_old" /\ d = <<bld[p].id, p>>
     \/ pc[p] = "pick" /\ col[p].todo = {} /\ ~Alive(d[2])
  /\ trash[d] # None /\ trash[d].whole
  /\ \E t \in Damaged(trash[d]) : trash' = [trash EXCEPT ![d] = t]
  /\ UNCHANGED <<world, clock, builds, tmp, current, latest, lock, pc, local, earned, bounds>>

(***************************************************************************)
(* scripts/check_graph_contract.py                                         *)
(***************************************************************************)
CheckStart(c) ==
  /\ Start(c, "open")
  /\ \E strict \in BOOLEAN :
       chk' = [chk EXCEPT ![c] = [strict |-> strict, code |-> sources, id |-> None, bytes |-> None,
                                  pinned |-> None, fresh |-> FALSE, sound |-> FALSE, doc |-> None]]
  /\ UNCHANGED <<bld, prm, col, srv>>

\* The manifest is read and check_integrity compares it with the files and with the sources now.
CheckOpen(c) ==
  /\ pc[c] = "open"
  /\ \E id \in Ids :
       /\ Recorded(builds[id])
       /\ chk' = [chk EXCEPT ![c].id = id, ![c].bytes = builds[id].bytes, ![c].pinned = builds[id].exports,
                             ![c].fresh = (id = sources), ![c].sound = builds[id].whole]
  /\ Goto(c, "examine")
  /\ UNCHANGED <<world, clock, disk, lock, bld, prm, col, srv, earned, bounds>>

\* The verdict: integrity, the Cypher half (needs graph.lbdb), the rebuild of a fresh build by this
\* process's code, and the exports.  A stale build and changed exports are warnings, fatal with --strict.
NoError(c)   == chk[c].sound /\ builds[chk[c].id].db /\ (chk[c].fresh => chk[c].code = chk[c].bytes)
NoWarning(c) == chk[c].fresh /\ exports = chk[c].pinned
Good(c)      == NoError(c) /\ (chk[c].strict => NoWarning(c))

CheckExamine(c) ==
  /\ pc[c] = "examine" /\ builds[chk[c].id] # None /\ builds[chk[c].id].whole
  /\ \E flaw \in BOOLEAN :                     \* any other check of the contract that fails
       LET pass == Good(c) /\ ~flaw IN
       /\ chk' = [chk EXCEPT ![c].doc = [status |-> IF pass THEN "pass" ELSE "fail", strict |-> chk[c].strict,
                                         bytes |-> chk[c].bytes, exports |-> exports],
                             ![c].bytes = None, ![c].pinned = None, ![c].fresh = FALSE, ![c].sound = FALSE]
       /\ earned' = IF pass /\ chk[c].strict THEN earned \cup {<<chk[c].id, chk[c].bytes, exports>>} ELSE earned
  /\ Goto(c, "record")
  /\ UNCHANGED <<world, clock, disk, lock, bld, prm, col, srv, bounds>>

\* record(): under the lock, the directory must still hold what was checked (for a pass the Parquet
\* is hashed again); a plain pass never replaces a strict pass that still counts.
SameBuild(c) ==
  LET now == builds[chk[c].id]  doc == chk[c].doc IN
  /\ Recorded(now) /\ now.bytes = doc.bytes
  /\ doc.status = "pass" => now.whole

\* Mutant: every record is written.
KeepsNoEarlierPass(c) == FALSE

KeepsEarlierPass(c) ==
  /\ ~chk[c].doc.strict /\ chk[c].doc.status = "pass"
  /\ StrictPass(builds[chk[c].id])

CheckRecord(c) ==
  /\ pc[c] = "record" /\ lock = None
  /\ IF SameBuild(c) /\ ~KeepsEarlierPass(c)
       THEN builds' = [builds EXCEPT ![chk[c].id].contract = chk[c].doc]
       ELSE UNCHANGED builds
  /\ chk' = [chk EXCEPT ![c] = None]
  /\ Goto(c, "idle")
  /\ UNCHANGED <<world, clock, tmp, trash, current, latest, lock, bld, prm, col, srv, earned, bounds>>

\* No build to open, or its files vanish while they are read: an exception ends the check.
CheckAbort(c) ==
  /\ \/ pc[c] = "open" /\ \A id \in Ids : ~Recorded(builds[id])
     \/ pc[c] = "examine" /\ builds[chk[c].id] = None
     \/ pc[c] = "examine" /\ builds[chk[c].id] # None /\ ~builds[chk[c].id].whole
  /\ chk' = [chk EXCEPT ![c] = None]
  /\ Goto(c, "idle")
  /\ UNCHANGED <<world, clock, disk, lock, bld, prm, col, srv, earned, bounds>>

(***************************************************************************)
(* scripts/graph_mcp.sh and the server it becomes                          *)
(***************************************************************************)
\* The build is resolved once to its real path, without the lock, and must have a manifest.
ServeResolve(s) ==
  /\ Start(s, "resolved")
  /\ \E id \in Ids :
       /\ Recorded(builds[id])
       /\ srv' = [srv EXCEPT ![s] = [id |-> id, built |-> 0]]
  /\ UNCHANGED <<bld, chk, prm, col>>

Bare == [bytes |-> None, exports |-> None, built |-> 0, db |-> FALSE, whole |-> FALSE,
         contract |-> None, pids |-> {}]

\* mkdir -p <build>/.pids, which makes the directory again if it is gone, and a sweep of the pidfiles of dead
\* processes in every build.
ServeSweep(s) ==
  /\ pc[s] = "resolved"
  /\ builds' = [id \in Ids |-> IF builds[id] # None THEN [builds[id] EXCEPT !.pids = LivePids(builds[id])]
                               ELSE IF id = srv[s].id THEN Bare ELSE None]
  /\ Goto(s, "swept")
  /\ UNCHANGED <<world, clock, tmp, trash, current, latest, lock, local, earned, bounds>>

\* <build>/.pids/<pid>.pid, as a best effort: the launcher goes on without it when the directory is gone again, is a
\* new one without .pids, or cannot be written to.
ServePidfile(s) ==
  /\ pc[s] = "swept"
  /\ \/ /\ builds[srv[s].id] # None
        /\ builds' = [builds EXCEPT ![srv[s].id].pids = @ \cup {s}]
     \/ UNCHANGED builds
  /\ Goto(s, "starting")
  /\ UNCHANGED <<world, clock, tmp, trash, current, latest, lock, local, earned, bounds>>

\* ToolContext: every file matches the manifest, graph.lbdb is there, contract.json is a pass of it.
Servable(t) ==
  /\ Recorded(t) /\ t.whole /\ t.db
  /\ t.contract # None /\ t.contract.status = "pass" /\ t.contract.bytes = t.bytes

ServeOpen(s) ==
  /\ pc[s] = "starting" /\ Servable(builds[srv[s].id])
  /\ srv' = [srv EXCEPT ![s].built = builds[srv[s].id].built]
  /\ Goto(s, "serving")
  /\ UNCHANGED <<world, clock, disk, lock, bld, chk, prm, col, earned, bounds>>

\* The server refuses the build (exit 3), or it is stopped; its pidfile stays behind.
ServeStop(s) ==
  /\ \/ pc[s] = "starting" /\ ~Servable(builds[srv[s].id])
     \/ pc[s] = "serving"
  /\ srv' = [srv EXCEPT ![s] = None]
  /\ Goto(s, "idle")
  /\ UNCHANGED <<world, clock, disk, lock, bld, chk, prm, col, earned, bounds>>

(***************************************************************************)
(* Timeouts, crashes, and the surroundings                                 *)
(***************************************************************************)
Forget(p) ==
  /\ bld' = [b \in Builders |-> IF b = p THEN None ELSE bld[b]]
  /\ chk' = [c \in Checkers |-> IF c = p THEN None ELSE chk[c]]
  /\ prm' = [q \in Promoters |-> IF q = p THEN None ELSE prm[q]]
  /\ col' = [g \in Collectors |-> IF g = p THEN None ELSE col[g]]
  /\ srv' = [s \in Servers |-> IF s = p THEN None ELSE srv[s]]

Waiting == {"build_wait", "promote_wait", "gc_wait", "record"}

\* BuildLock.__enter__ gives up: TimeoutError, the command ends and has changed nothing.
LockTimeout(p) ==
  /\ pc[p] \in Waiting /\ lock # None
  /\ Forget(p) /\ Goto(p, "idle")
  /\ UNCHANGED <<world, clock, disk, lock, earned, bounds>>

\* The process is killed (or an rmtree of gc raises): the kernel drops its flock, the disk stays as it is.
Crash(p) ==
  /\ Alive(p) /\ crashes < MaxCrashes
  /\ crashes' = crashes + 1
  /\ Forget(p) /\ Goto(p, "idle") /\ Release(p)
  /\ UNCHANGED <<world, clock, disk, earned, runs, edits>>

Edit ==
  /\ edits < MaxEdits
  /\ edits' = edits + 1
  /\ UNCHANGED <<clock, tmp, trash, current, latest, lock, pc, local, earned, runs, crashes>>

EditSources == Edit /\ sources' \in Ids \ {sources} /\ UNCHANGED <<exports, builds>>
EditExports == Edit /\ exports' \in Exports \ {exports} /\ UNCHANGED <<sources, builds>>

\* graph.lbdb is a projection that may be deleted and rebuilt.
LoseDatabase ==
  /\ Edit
  /\ \E id \in Ids : /\ builds[id] # None /\ builds[id].db
                     /\ builds' = [builds EXCEPT ![id].db = FALSE]
  /\ UNCHANGED world

-----------------------------------------------------------------------------
Init ==
  /\ sources \in Ids /\ exports \in Exports
  /\ clock = 0
  /\ builds = [id \in Ids |-> None]
  /\ tmp = {}
  /\ trash = [d \in Ids \X Builders |-> None]
  /\ current = None /\ latest = None
  /\ lock = None
  /\ pc = [p \in Procs |-> "idle"]
  /\ bld = [b \in Builders |-> None]
  /\ chk = [c \in Checkers |-> None]
  /\ prm = [p \in Promoters |-> None]
  /\ col = [g \in Collectors |-> None]
  /\ srv = [s \in Servers |-> None]
  /\ earned = {}
  /\ runs = [p \in Procs |-> 0]
  /\ edits = 0 /\ crashes = 0

BuildStep(b) ==
  \/ BuildLocked(b) \/ BuildRead(b) \/ BuildKeep(b) \/ BuildFinish(b) \/ BuildInstall(b) \/ BuildCarryOver(b)
  \/ BuildExchange(b) \/ BuildMoveOld(b) \/ BuildMoveNew(b) \/ BuildUndo(b) \/ BuildDropOld(b)
  \/ BuildLink(b) \/ BuildFail(b)
PromoteStep(p) == PromoteLocked(p) \/ PromoteChoose(p) \/ PromoteRefuse(p) \/ PromoteLink(p)
GcStep(g) == GcLocked(g) \/ GcScan(g) \/ GcPick(g) \/ GcErase(g) \/ GcRemove(g) \/ GcSweep(g)
CheckStep(c) == CheckOpen(c) \/ CheckExamine(c) \/ CheckRecord(c) \/ CheckAbort(c)
ServeStep(s) == ServeSweep(s) \/ ServePidfile(s) \/ ServeOpen(s) \/ ServeStop(s)

Next ==
  \/ \E b \in Builders : BuildStart(b) \/ BuildStep(b)
  \/ \E p \in Promoters : PromoteStart(p) \/ PromoteStep(p)
  \/ \E g \in Collectors : GcStart(g) \/ GcStep(g)
  \/ \E c \in Checkers : CheckStart(c) \/ CheckStep(c)
  \/ \E s \in Servers : ServeResolve(s) \/ ServeStep(s)
  \/ \E p \in Builders \cup Collectors, d \in Ids \X Builders : Erode(p, d)
  \/ \E p \in Procs : LockTimeout(p) \/ Crash(p)
  \/ EditSources \/ EditExports \/ LoseDatabase

Spec == Init /\ [][Next]_vars

(***************************************************************************)
(* Properties                                                              *)
(***************************************************************************)
\* Labels at which a process holds the BuildLock.
Inside == {"reading", "building", "built", "swap", "gap", "drop_old", "build_link", "choose", "promote_link",
           "scan", "pick", "erase", "remove"}

DiskTypes ==
  /\ builds \in [Ids -> Tree \cup {None}]
  /\ tmp \subseteq Ids \X Builders
  /\ trash \in [Ids \X Builders -> Tree \cup {None}]
  /\ current \in Ids \cup {None} /\ latest \in Ids \cup {None}

ControlTypes ==
  /\ sources \in Ids /\ exports \in Exports /\ clock \in Nat
  /\ lock \in Lockers \cup {None}
  /\ pc \in [Procs -> Inside \cup Waiting \cup
                      {"idle", "open", "examine", "resolved", "swept", "starting", "serving"}]
  /\ earned \subseteq Ids \X Ids \X Exports
  /\ runs \in [Procs -> Nat] /\ edits \in Nat /\ crashes \in Nat

JobTypes ==
  /\ bld \in [Builders -> BuildJob \cup {None}]
  /\ chk \in [Checkers -> CheckJob \cup {None}]
  /\ prm \in [Promoters -> PromoteJob \cup {None}]
  /\ col \in [Collectors -> CollectJob \cup {None}]
  /\ srv \in [Servers -> ServeJob \cup {None}]

\* A process holds something in memory exactly while it runs.
JobsOfRunning ==
  /\ \A b \in Builders : bld[b] = None <=> pc[b] = "idle"
  /\ \A c \in Checkers : chk[c] = None <=> pc[c] = "idle"
  /\ \A p \in Promoters : prm[p] = None <=> pc[p] = "idle"
  /\ \A g \in Collectors : col[g] = None <=> pc[g] = "idle"
  /\ \A s \in Servers : srv[s] = None <=> pc[s] = "idle"

\* Every variable has its type, and a process that is not running holds nothing in memory (what a
\* killed command knew is gone; only its files stay).
TypeOK == DiskTypes /\ ControlTypes /\ JobTypes /\ JobsOfRunning

\* The BuildLock does its work: a process is between taking and releasing it exactly when the flock
\* names it (BuildLock; every exit path and every crash gives it back).
MutualExclusion == \A p \in Procs : pc[p] \in Inside <=> lock = p

\* A contract record that counts as a strict pass was earned: a strict check examined this id with
\* these Parquet bytes and these exports and found nothing, whatever rebuilds, re-pins, carry-overs
\* and restores came in between (is_strict_pass, record, carry_over, repin).
PassIsEarned ==
  \A id \in Ids : StrictPass(builds[id]) => <<id, builds[id].bytes, builds[id].exports>> \in earned

\* promote: the build `current' is pointed at has its strict pass at the moment of the swap, although
\* it was chosen in an earlier step (promote holds the BuildLock over both).
PromotesPassing == [][current' # current => current' # None /\ StrictPass(builds[current'])]_vars

\* Nothing is not an entry either.
ASSUME NoneIsNoEntry ==
  None \notin [bytes : Ids, exports : Exports \cup {None}, contract : Contract \cup {None}]

\* The store as the registry it promises to be: what counts of a build is in its manifest.json and
\* contract.json.  With an exchange call every step of every process is one registry step or none.
EntryOf(t) == IF Recorded(t) THEN [bytes |-> t.bytes, exports |-> t.exports, contract |-> t.contract]
              ELSE None
StoredEntry == [id \in Ids |-> EntryOf(builds[id])]
R == INSTANCE Registry WITH entry <- StoredEntry
ImplementsRegistry == R!Spec

\* `current' and `latest' never lead nowhere: at every instant their build is there with a manifest,
\* whatever is replaced, removed or killed meanwhile (replace_dir by exchange, update_link, gc).
LinksResolve == \A id \in {current, latest} \ {None} : Recorded(builds[id])

\* A build stays, in its place or as the only copy that a replacement has put aside (its .tmp is still there),
\* until a gc removes it by choice: no crash, failed rename, restore or sweep loses one (replace_dir,
\* restore_orphans, gc).  Only where no launcher makes the directory of a moved build again (README, section 4).
OnlyCopy(id, b) == <<id, b>> \in tmp /\ Recorded(trash[<<id, b>>])
OnDisk(id) == Recorded(builds[id]) \/ \E b \in Builders : OnlyCopy(id, b)
NoBuildLost ==
  [][\A id \in Ids : OnDisk(id) =>
       \/ OnDisk(id)'
       \/ \E g \in Collectors : pc[g] \in {"erase", "remove"} /\ col[g].victim = id]_vars

\* gc leaves the newest Keep builds alone, counted when a build goes (and is not put aside for its
\* replacement) and not when it was listed: Keep others are there then, none of them older.
NotOlder(id) == {j \in Ids \ {id} : builds[j] # None /\ builds[j].built >= builds[id].built}
GcKeepsNewest ==
  [][\A id \in Ids : builds[id] # None /\ builds'[id] = None /\ (\A b \in Builders : trash'[<<id, b>>] # builds[id])
        => Cardinality(NotOlder(id)) >= Keep]_vars

\* A build that a serving process holds by its pidfile is neither swapped nor removed, and no builder
\* or gc passes its look at the pidfiles of that build, unless one had already passed it when the
\* pidfile was written (live_pids in build_profile and gc).
PastTheLook(id) ==
  \/ \E b \in Builders : pc[b] \in {"swap", "gap"} /\ bld[b].id = id
  \/ \E g \in Collectors : pc[g] \in {"erase", "remove"} /\ col[g].victim = id
HeldBuildStays ==
  [][\A s \in Servers, id \in Ids :
       pc[s] = "serving" /\ srv[s].id = id /\ builds[id] # None /\ s \in builds[id].pids /\ ~PastTheLook(id)
         => /\ ~PastTheLook(id)'
            /\ builds'[id] # None
            /\ builds'[id].built = builds[id].built /\ builds'[id].whole = builds[id].whole]_vars

\* A build is immutable while it is served (context.ToolContext.cached reads it lazily on that ground).
Serves(s) == pc[s] = "serving"
ServedBuildStays ==
  [][\A s \in Servers : Serves(s) /\ Serves(s)'
       => builds'[srv[s].id] # None /\ builds'[srv[s].id].built = srv[s].built /\ builds'[srv[s].id].whole]_vars

\* If the second rename of a replacement fails, the old build is back in its place when the error is
\* raised (replace_dir).
FailedSwapRestores ==
  [][\A b \in Builders : pc[b] = "gap" /\ pc'[b] = "idle" /\ crashes' = crashes
       => Recorded(builds'[bld[b].id])]_vars

\* Build, promote and gc never see one another half done: what promote points `current' at is a
\* build with all its files (BuildLock).
PromotesWhole == [][current' # current => builds[current'].whole]_vars

\* gc never deletes a build that current or latest points at (store.py, gc).
GcSparesLinked ==
  [][\A g \in Collectors : pc[g] = "remove" /\ pc'[g] = "pick" => col[g].victim \notin {current, latest}]_vars

\* An orphan that restore_orphans puts back was the only copy: a build that a finished replacement
\* superseded never comes back.
RestoresOnlyCopy ==
  [][\A id \in Ids, b \in Builders :
       builds[id] = None /\ trash[<<id, b>>] # None /\ ~Alive(b) /\ builds'[id] = trash[<<id, b>>]
         => <<id, b>> \in tmp]_vars

=============================================================================

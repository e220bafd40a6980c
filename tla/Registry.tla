------------------------------ MODULE Registry ------------------------------
(***************************************************************************)
(* What the build store promises, without locks, temp directories, renames *)
(* or processes: a registry of builds by id, each an entry with the bytes  *)
(* it was made of, the exports it pins and its contract record, and two    *)
(* links.  Every operation is one atomic step.                             *)
(***************************************************************************)
CONSTANTS Ids, None

VARIABLES
  entry,      \* id -> [bytes, exports, contract] or None
  current,    \* the promoted id
  latest      \* the id built last

vars == <<entry, current, latest>>

Earned(e) ==
  /\ e # None /\ e.contract # None
  /\ e.contract.status = "pass" /\ e.contract.strict
  /\ e.contract.bytes = e.bytes /\ e.contract.exports = e.exports

Init ==
  /\ entry = [id \in Ids |-> None]
  /\ current = None /\ latest = None

\* A build appears, replaces the one of its id, or is kept and pins the exports of today.  A contract
\* record survives only as long as the bytes do.
Put(id) ==
  /\ entry'[id] # None
  /\ \/ entry'[id].contract = None
     \/ /\ entry[id] # None
        /\ entry'[id].contract = entry[id].contract /\ entry'[id].bytes = entry[id].bytes
  /\ UNCHANGED <<current, latest>>

\* A check records what it found about these bytes.  Only a strict run or a failure takes the place
\* of a strict pass that counts.
Record(id) ==
  /\ entry[id] # None /\ entry'[id] # None
  /\ entry'[id].bytes = entry[id].bytes /\ entry'[id].exports = entry[id].exports
  /\ entry'[id].contract # None /\ entry'[id].contract.bytes = entry[id].bytes
  /\ Earned(entry[id]) => entry'[id].contract.strict \/ entry'[id].contract.status = "fail"
  /\ UNCHANGED <<current, latest>>

\* A build no link leads to is taken apart: its record first, perhaps, and then the rest.
Discard(id) ==
  /\ id \notin {current, latest}
  /\ entry[id] # None
  /\ \/ entry'[id] = None
     \/ /\ entry'[id] # None /\ entry'[id].contract = None
        /\ entry'[id].bytes = entry[id].bytes /\ entry'[id].exports = entry[id].exports
  /\ UNCHANGED <<current, latest>>

\* One entry changes at a time.
Change(id) ==
  /\ entry' = [entry EXCEPT ![id] = entry'[id]]
  /\ Put(id) \/ Record(id) \/ Discard(id)

PointLatest(id)  == entry[id] # None /\ latest' = id /\ UNCHANGED <<entry, current>>
PointCurrent(id) == Earned(entry[id]) /\ current' = id /\ UNCHANGED <<entry, latest>>

Next == \E id \in Ids : Change(id) \/ PointLatest(id) \/ PointCurrent(id)

Spec == Init /\ [][Next]_vars
=============================================================================

---------------------------- MODULE IcebergReader ----------------------------
(***************************************************************************)
(* src/lakehouse_graph/iceberg_source.py: a build that reads one publish   *)
(* at its tag, next to the publishers and to an operator who meddles with  *)
(* the tags; and verify_build, which reads it again later.                 *)
(***************************************************************************)
EXTENDS GraphPublish

CONSTANTS
  Readers,
  MaxReads,      \* bound: builds and verifications per reader
  MaxMeddles     \* bound: tags moved or dropped by hand

ASSUME ReaderAssumption == MaxReads \in Nat /\ MaxMeddles \in Nat /\ Readers \cap Publishers = {}

VARIABLES
  rd,        \* per reader [at, tag, rows, data, of]: its label and what it holds
  built,     \* the builds that were installed: [tag, rows, data]
  verified,  \* <<build, data read again>> of every verification that found it byte-identical
  tries      \* [reads, meddles]

rvars == <<rd, built, verified, tries>>

NoRead == [at |-> "idle", tag |-> None, rows |-> {}, data |-> <<>>, of |-> None]
ReadOrder == InputOrder \o <<Nodes, Edges, Scaler>>
Leaf(t, s) == IF t \in Inputs THEN s ELSE hist[t][s]

\* Mutant: the snapshot the tag points at is not compared with the one the manifest recorded.
PinnedLoosely(t, b, s) == Target(t, b) # {}

\* read_pinned: the ref, then that it points where the manifest says, then the snapshot; or it raises.
Pinned(t, b, s) == Target(t, b) = {s} /\ Alive(t, s)

Stop(r) == rd' = [rd EXCEPT ![r] = NoRead]
Unavailable(r) == Stop(r) /\ UNCHANGED <<built, verified, tries>>

Begin(r, tag, of) ==
  /\ rd[r].at = "idle" /\ tries.reads[r] < MaxReads
  /\ rd' = [rd EXCEPT ![r] = [NoRead EXCEPT !.at = "resolve", !.tag = tag, !.of = of]]
  /\ tries' = [tries EXCEPT !.reads[r] = @ + 1]
  /\ UNCHANGED <<built, verified>>

\* resolve_publish without a tag: the newest row by published_at, which is when its run began.
BuildNewest(r) ==
  \E i \in 1..Main(Manifest) :
    /\ \A j \in 1..Main(Manifest) : hist[Manifest][j].at <= hist[Manifest][i].at
    /\ Begin(r, hist[Manifest][i].build, None)
BuildAtTag(r) == \E i \in 1..Main(Manifest) : Begin(r, hist[Manifest][i].build, None)
\* verify_build: the same publish again, for a build that is there.
Verify(r) == \E b \in built : Begin(r, b.tag, b)

\* The rows of the tag, read at the tag: some, and no table twice.  A verification compares every pin
\* the build recorded with them.
Resolve(r) ==
  LET b == rd[r].tag IN
  /\ rd[r].at = "resolve"
  /\ \/ /\ \A s \in Target(Manifest, b) : ~Alive(Manifest, s)
        /\ Unavailable(r)
     \/ \E s \in Target(Manifest, b) :
          LET mine == {i \in 1..s : hist[Manifest][i].build = b}
              rows == UNION {hist[Manifest][i].rows : i \in mine} IN
          /\ Alive(Manifest, s)
          /\ \/ /\ Cardinality(mine) # 1 \/ (rd[r].of # None /\ rd[r].of.rows # rows)
                /\ Unavailable(r)
             \/ /\ Cardinality(mine) = 1 /\ (rd[r].of # None => rd[r].of.rows = rows)
                /\ rd' = [rd EXCEPT ![r].at = "read", ![r].rows = rows]
                /\ UNCHANGED <<built, verified, tries>>

\* A verification reads the inputs only.
Wanted(r) == IF rd[r].of = None THEN ReadOrder ELSE InputOrder

\* read_inputs, read_twin: one table after the other, each at the tag.
ReadTable(r) ==
  LET t == Wanted(r)[Cardinality(DOMAIN rd[r].data) + 1]
      b == rd[r].tag IN
  /\ rd[r].at = "read"
  /\ DOMAIN rd[r].data # {Wanted(r)[i] : i \in 1..Len(Wanted(r))}
  /\ \E row \in rd[r].rows :
       /\ row[1] = t
       /\ \/ ~Pinned(t, b, row[2]) /\ Unavailable(r)
          \/ /\ Pinned(t, b, row[2])
             /\ \E s \in Target(t, b) : rd' = [rd EXCEPT ![r].data = With(@, t, Leaf(t, s))]
             /\ UNCHANGED <<built, verified, tries>>

InputsRead(data) == [t \in Inputs |-> data[t]]

\* Mutant: the published graph is not compared with the one built from the inputs.
SameTwinUnchecked(data) == TRUE

\* compare_twin: nodes and edges equal to what the builder makes of the inputs (SIMILAR_TO but for ties).
SameTwin(data) ==
  /\ data[Nodes].pins = InputsRead(data)
  /\ data[Edges].pins = InputsRead(data) /\ data[Edges].scaler = InputsRead(data)

AllRead(r) == DOMAIN rd[r].data = {Wanted(r)[i] : i \in 1..Len(Wanted(r))}

Install(r) ==
  /\ rd[r].at = "read" /\ rd[r].of = None /\ AllRead(r)
  /\ built' = IF SameTwin(rd[r].data)
                THEN built \cup {[tag |-> rd[r].tag, rows |-> rd[r].rows, data |-> rd[r].data]} ELSE built
  /\ Stop(r) /\ UNCHANGED <<verified, tries>>

FinishVerify(r) ==
  /\ rd[r].at = "read" /\ rd[r].of # None /\ AllRead(r)
  /\ verified' = verified \cup {<<rd[r].of, InputsRead(rd[r].data)>>}
  /\ Stop(r) /\ UNCHANGED <<built, tries>>

Read(r) ==
  \/ BuildNewest(r) \/ BuildAtTag(r) \/ Verify(r)
  \/ Resolve(r) \/ ReadTable(r) \/ Install(r) \/ FinishVerify(r)

\* An operator drops a tag, or moves it to another snapshot of its table.
Meddle ==
  /\ tries.meddles < MaxMeddles
  /\ tries' = [tries EXCEPT !.meddles = @ + 1]
  /\ \E x \in tags : \/ tags' = tags \ {x}
                     \/ \E s \in 1..Main(x[1]) \ {x[3]} :
                          Alive(x[1], s) /\ tags' = (tags \ {x}) \cup {<<x[1], x[2], s>>}
  /\ UNCHANGED <<hist, expired, now, pc, job, history, bounds, rd, built, verified>>

-----------------------------------------------------------------------------
RInit ==
  /\ Init
  /\ rd = [r \in Readers |-> NoRead]
  /\ built = {} /\ verified = {}
  /\ tries = [reads |-> [r \in Readers |-> 0], meddles |-> 0]

RNext ==
  \/ Next /\ UNCHANGED rvars
  \/ \E r \in Readers : Read(r) /\ UNCHANGED vars
  \/ Meddle

RSpec == RInit /\ [][RNext]_<<vars, rvars>>

(***************************************************************************)
(* Properties                                                              *)
(***************************************************************************)
\* A build is never made of two publishes: its inputs are the ones its tag's id was computed from, and the
\* graph it was compared with came from the same ones, whatever runs overlapped and whichever tag was moved.
BuiltFromOnePublish ==
  \A b \in built : /\ InputsRead(b.data) = b.tag
                   /\ \A t \in {Nodes, Edges} : b.data[t].pins = b.tag

\* A verification that succeeds has read the very inputs the build was made of.
VerifiedIsTheSame == \A v \in verified : v[2] = InputsRead(v[1].data)
=============================================================================

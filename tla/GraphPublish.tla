---------------------------- MODULE GraphPublish ----------------------------
(***************************************************************************)
(* src/jobs/graph/01_publish_gold_graph.py: Spark jobs that publish the    *)
(* graph into Iceberg tables.  Each commit and each look at a table's refs *)
(* is a step of its own; other publishers, the upstream pipeline and       *)
(* snapshot expiry act between any two of them.                            *)
(***************************************************************************)
EXTENDS Integers, FiniteSets, Sequences, SequencesExt

CONSTANTS
  InputOrder,    \* the input tables, in the order they are pinned
  Publishers,
  None,
  MaxRuns,       \* bound: runs per publisher
  MaxMoves,      \* bound: commits of the upstream pipeline
  MaxExpiries,   \* bound: expired snapshots
  MaxCrashes     \* bound: killed publishers

Inputs   == {InputOrder[i] : i \in 1..Len(InputOrder)}
Scaler   == "graph_similar_to_scaler"
Nodes    == "graph_nodes"
Edges    == "graph_edges"
Manifest == "graph_build_manifest"
Outputs  == {Nodes, Edges, Scaler}
Tables   == Inputs \cup Outputs \cup {Manifest}

ASSUME PublishAssumption ==
  /\ InputOrder \in Seq(Inputs) /\ Inputs # {}
  /\ Inputs \cap (Outputs \cup {Manifest}) = {}
  /\ None \notin Publishers
  /\ MaxRuns \in Nat /\ MaxMoves \in Nat /\ MaxExpiries \in Nat /\ MaxCrashes \in Nat

VARIABLES
  hist,      \* per table its commits: snapshot s of an output is hist[t][s], of the manifest the rows hist[1..s]
  expired,   \* <<table, snapshot>> that expire_snapshots removed
  tags,      \* <<table, build, snapshot>>
  now,       \* a clock that tells the starts of runs apart
  pc, job,   \* where a publisher is, and what it holds in memory
  finished,  \* what the runs that exited 0 had published or completed: [build, rows]
  overlap,   \* history: two runs were under way at the same time
  bounds     \* [runs, moves, expiries, crashes]

catalog == <<hist, expired, tags>>
history == <<finished, overlap>>
vars == <<hist, expired, tags, now, pc, job, finished, overlap, bounds>>

Main(t)  == Len(hist[t])                        \* main_snapshot; 0: never written
\* build_id_of: a hash of the pins (and of the code, whose changes act like a moved input).
Build(p) == job[p].pins
Target(t, b) == {x[3] : x \in {y \in tags : y[1] = t /\ y[2] = b}}
Tagged(t, s) == \E x \in tags : x[1] = t /\ x[3] = s
Alive(t, s)  == s \in 1..Main(t) /\ <<t, s>> \notin expired

\* Rows of the manifest for one build, of every append that holds it (published).
Published(b) == UNION {hist[Manifest][i].rows : i \in {j \in 1..Main(Manifest) : hist[Manifest][j].build = b}}
PairsOf(f) == {<<t, f[t]>> : t \in DOMAIN f}

NoJob == [at |-> 0, pins |-> <<>>, out |-> <<>>, rows |-> {}, todo |-> {}, scaler |-> None]

Goto(p, l) == pc' = [pc EXCEPT ![p] = l]
Leave(p)   == Goto(p, "idle") /\ job' = [job EXCEPT ![p] = NoJob]
\* PublishError, or an error of Spark: exit 1.
Fail(p)    == Leave(p) /\ UNCHANGED <<catalog, now, history, bounds>>
With(f, t, v) == [x \in DOMAIN f \cup {t} |-> IF x = t THEN v ELSE f[x]]
Commit(t, data) == hist' = [hist EXCEPT ![t] = Append(@, data)]

Start(p) ==
  /\ pc[p] = "idle" /\ bounds.runs[p] < MaxRuns
  /\ now' = now + 1
  /\ job' = [job EXCEPT ![p] = [NoJob EXCEPT !.at = now]]
  /\ Goto(p, "pin")
  /\ bounds' = [bounds EXCEPT !.runs[p] = @ + 1]
  /\ overlap' = (overlap \/ \E q \in Publishers : pc[q] # "idle")
  /\ UNCHANGED <<catalog, finished>>

\* pin_inputs: one table after the other, each at the snapshot that is main at that moment.
PinInput(p) ==
  LET t == InputOrder[Cardinality(DOMAIN job[p].pins) + 1] IN
  /\ pc[p] = "pin"
  /\ \/ Main(t) = 0 /\ Fail(p)
     \/ /\ Main(t) # 0
        /\ job' = [job EXCEPT ![p].pins = With(@, t, Main(t))]
        /\ IF DOMAIN job[p].pins \cup {t} = Inputs THEN Goto(p, "look") ELSE UNCHANGED pc
        /\ UNCHANGED <<catalog, now, history, bounds>>

\* Mutant: a build that is in the manifest is taken to have its tags.
LookManifestOnly(p) ==
  /\ pc[p] = "look"
  /\ Goto(p, IF Published(Build(p)) = {} THEN "fit" ELSE "complete")
  /\ job' = [job EXCEPT ![p].rows = Published(Build(p))]
  /\ UNCHANGED <<catalog, now, history, bounds>>

\* Mutant: every run publishes.
LookNowhere(p) ==
  /\ pc[p] = "look" /\ Goto(p, "fit")
  /\ UNCHANGED <<catalog, now, job, history, bounds>>

\* published(): a build the manifest lists is not written again, its tags are completed.
LookManifest(p) ==
  LET rows == Published(Build(p)) IN
  /\ pc[p] = "look"
  /\ IF rows = {} THEN Goto(p, "fit") /\ UNCHANGED job
                  ELSE Goto(p, "complete") /\ job' = [job EXCEPT ![p].rows = rows, ![p].todo = rows]
  /\ UNCHANGED <<catalog, now, history, bounds>>

PinsAlive(p) == \A t \in Inputs : Alive(t, job[p].pins[t])

\* createOrReplace of one output table.  Its data are known by what they were computed from.
Write(p, t, from, to) ==
  /\ pc[p] = from
  /\ \/ ~PinsAlive(p) /\ Fail(p)
     \/ /\ PinsAlive(p)
        /\ Commit(t, [pins |-> job[p].pins, scaler |-> IF t = Edges THEN job[p].scaler ELSE None])
        /\ Goto(p, to)
        /\ UNCHANGED <<expired, tags, now, job, history, bounds>>

WriteScaler(p) == Write(p, Scaler, "fit", "read_scaler")
\* The scaler is read back from the snapshot that is main now, and what it says goes into the edges.
ReadScaler(p) ==
  /\ pc[p] = "read_scaler"
  /\ job' = [job EXCEPT ![p].out = With(@, Scaler, Main(Scaler)),
                        ![p].scaler = hist[Scaler][Main(Scaler)].pins]
  /\ Goto(p, "nodes")
  /\ UNCHANGED <<catalog, now, history, bounds>>
WriteNodes(p) == Write(p, Nodes, "nodes", "edges")
WriteEdges(p) == Write(p, Edges, "edges", "read_nodes")

\* Mutant: the snapshot is foretold instead of read.
ReadOutForetold(p, t, from, to) ==
  /\ pc[p] = from
  /\ job' = [job EXCEPT ![p].out = With(@, t, Main(t) + 1)]
  /\ Goto(p, to)
  /\ UNCHANGED <<catalog, now, history, bounds>>

\* main_snapshot of what was just written: whatever is main by now.
ReadOut(p, t, from, to) ==
  /\ pc[p] = from
  /\ job' = [job EXCEPT ![p].out = With(@, t, Main(t))]
  /\ Goto(p, to)
  /\ UNCHANGED <<catalog, now, history, bounds>>
ReadNodes(p) == ReadOut(p, Nodes, "read_nodes", "read_edges")
ReadEdges(p) == ReadOut(p, Edges, "read_edges", "append")

Rows(p) == PairsOf(job[p].pins) \cup PairsOf(job[p].out)

\* Mutant: the rows are appended when the tags are on.
AppendNothing(p) ==
  /\ pc[p] = "append"
  /\ job' = [job EXCEPT ![p].rows = Rows(p), ![p].todo = Rows(p)]
  /\ Goto(p, "tag")
  /\ UNCHANGED <<catalog, now, history, bounds>>

\* part_counts and total_records need every snapshot; then the rows are appended in one commit.
AppendManifest(p) ==
  /\ pc[p] = "append"
  /\ \/ (\E r \in Rows(p) : ~Alive(r[1], r[2])) /\ Fail(p)
     \/ /\ \A r \in Rows(p) : Alive(r[1], r[2])
        /\ Commit(Manifest, [build |-> Build(p), rows |-> Rows(p), at |-> job[p].at])
        /\ job' = [job EXCEPT ![p].rows = Rows(p), ![p].todo = Rows(p)]
        /\ Goto(p, "tag")
        /\ UNCHANGED <<expired, tags, now, history, bounds>>

\* Mutant: CREATE OR REPLACE TAG.
PutTagAnew(t, b, s) == {x \in tags : x[1] # t \/ x[2] # b} \cup {<<t, b, s>>}

\* ensure_tag: CREATE TAG IF NOT EXISTS, of a snapshot that is still there ...
PutTag(t, b, s) == IF Target(t, b) = {} /\ Alive(t, s) THEN tags \cup {<<t, b, s>>} ELSE tags
\* ... and then a look where the tag points: one that points elsewhere fails the run and is never moved.
Refused(t, b, s) == <<t, b, s>> \notin PutTag(t, b, s)
EnsureTag(t, b, s) == ~Refused(t, b, s) /\ tags' = PutTag(t, b, s)

\* The inputs come before the outputs; complete_tags takes the rows as the manifest returns them.
MayTag(p, t) == pc[p] = "tag" /\ t \in Outputs => \A r \in job[p].todo : r[1] \in Outputs

TagNext(p) ==
  /\ pc[p] \in {"tag", "complete"}
  /\ \E r \in job[p].todo :
       /\ MayTag(p, r[1])
       /\ \/ Refused(r[1], Build(p), r[2]) /\ Fail(p)
          \/ /\ EnsureTag(r[1], Build(p), r[2])
             /\ job' = [job EXCEPT ![p].todo = @ \ {r}]
             /\ UNCHANGED <<hist, expired, now, pc, history, bounds>>

Succeed(p) == Leave(p) /\ finished' = finished \cup {[build |-> Build(p), rows |-> job[p].rows]}

\* The manifest table is tagged last, at its newest snapshot; a publish that is only completed leaves
\* a tag there as it is.
TagManifest(p) ==
  /\ pc[p] \in {"tag", "complete"} /\ job[p].todo = {}
  /\ LET s == Main(Manifest) IN
     \/ /\ pc[p] = "complete" /\ Target(Manifest, Build(p)) # {}
        /\ Succeed(p) /\ UNCHANGED <<catalog, now, overlap, bounds>>
     \/ /\ pc[p] = "tag" \/ Target(Manifest, Build(p)) = {}
        /\ \/ Refused(Manifest, Build(p), s) /\ Fail(p)
           \/ /\ EnsureTag(Manifest, Build(p), s)
              /\ Succeed(p)
              /\ UNCHANGED <<hist, expired, now, overlap, bounds>>

-----------------------------------------------------------------------------
\* The driver is killed; what it committed stays.
Crash(p) ==
  /\ pc[p] # "idle" /\ bounds.crashes < MaxCrashes
  /\ bounds' = [bounds EXCEPT !.crashes = @ + 1]
  /\ Leave(p)
  /\ UNCHANGED <<catalog, now, history>>

\* The upstream jobs rewrite silver or gold (createOrReplace).
Upstream(t) ==
  /\ bounds.moves < MaxMoves
  /\ bounds' = [bounds EXCEPT !.moves = @ + 1]
  /\ Commit(t, None)
  /\ UNCHANGED <<expired, tags, now, pc, job, history>>

\* expire_snapshots trims what is neither main nor tagged.
Expire(t, s) ==
  /\ bounds.expiries < MaxExpiries
  /\ Alive(t, s) /\ s # Main(t) /\ ~Tagged(t, s)
  /\ expired' = expired \cup {<<t, s>>}
  /\ bounds' = [bounds EXCEPT !.expiries = @ + 1]
  /\ UNCHANGED <<hist, tags, now, pc, job, history>>

-----------------------------------------------------------------------------
Init ==
  /\ hist = [t \in Tables |-> IF t \in Inputs THEN <<None>> ELSE <<>>]
  /\ expired = {} /\ tags = {}
  /\ now = 1
  /\ pc = [p \in Publishers |-> "idle"]
  /\ job = [p \in Publishers |-> NoJob]
  /\ finished = {} /\ overlap = FALSE
  /\ bounds = [runs |-> [p \in Publishers |-> 0], moves |-> 0, expiries |-> 0, crashes |-> 0]

Publish(p) ==
  \/ Start(p) \/ PinInput(p) \/ LookManifest(p)
  \/ WriteScaler(p) \/ ReadScaler(p) \/ WriteNodes(p) \/ WriteEdges(p)
  \/ ReadNodes(p) \/ ReadEdges(p) \/ AppendManifest(p) \/ TagNext(p) \/ TagManifest(p)

Surroundings ==
  \/ \E p \in Publishers : Crash(p)
  \/ \E t \in Inputs : Upstream(t)
  \/ \E t \in Inputs \cup Outputs : \E s \in 1..Main(t) : Expire(t, s)

Next == (\E p \in Publishers : Publish(p)) \/ Surroundings

Spec == Init /\ [][Next]_vars

(***************************************************************************)
(* Properties                                                              *)
(***************************************************************************)
Snapshots == [t \in Tables |-> 1..Main(t)]
Labels == {"idle", "pin", "look", "fit", "read_scaler", "nodes", "edges", "read_nodes", "read_edges",
           "append", "tag", "complete"}

\* Every snapshot that is named, by a tag, a row of the manifest or a job, is one that was committed.
Committed(r) == r[1] \in Tables /\ r[2] \in 1..Main(r[1])
TypeOK ==
  /\ \A t \in Tables : hist[t] \in Seq(Range(hist[t]))
  /\ \A x \in tags : Committed(<<x[1], x[3]>>)
  /\ \A r \in expired : Committed(r)
  /\ \A i \in 1..Main(Manifest) : \A r \in hist[Manifest][i].rows : Committed(r)
  /\ \A p \in Publishers : /\ pc[p] \in Labels
                           /\ \A r \in job[p].todo \cup Rows(p) : Committed(r)

\* A publish is in the ledger before its first tag, and a tag is put once, at a snapshot the ledger lists
\* for the build, and never moves, whoever crashes and whoever else publishes.
L == INSTANCE PublishLedger WITH ledger <- hist[Manifest]
ImplementsLedger == L!Spec

\* exit 0: every table the run listed or found listed carries the tag, and so does the manifest.
FinishedIsTagged ==
  \A f \in finished : /\ \A r \in f.rows : Target(r[1], f.build) = {r[2]}
                      /\ Target(Manifest, f.build) # {}

\* What iceberg_source.py asks of a publish before it builds from it: listed once, tagged everywhere as
\* listed, nothing expired, and nodes and edges equal to what the inputs at the tag give.
Readable(b) ==
  LET at == CHOOSE f \in [Tables \ {Manifest} -> UNION {{x[3]} : x \in tags}] :
              \A t \in Tables \ {Manifest} : f[t] \in Target(t, b)
  IN /\ \A t \in Tables : \E s \in Target(t, b) : Target(t, b) = {s} /\ Alive(t, s)
     /\ Published(b) = PairsOf(at)
     /\ Cardinality({i \in 1..Main(Manifest) : hist[Manifest][i].build = b}) = 1
     /\ \A t \in Outputs : hist[t][at[t]].pins = b
     /\ hist[Edges][at[Edges]].scaler = b

\* Where no two runs overlap, a run that exits 0 leaves a publish that can be read, now and ever after,
\* whatever died before it, whatever is published and expires after it.
FinishedIsReadable == ~overlap => \A f \in finished : Readable(f.build)

\* "outputs at the snapshot written" (01_publish_gold_graph.py): a tag leads to data of its own publish.
TagsItsOwn == \A x \in tags : x[1] \in Outputs => hist[x[1]][x[3]].pins = x[2]
=============================================================================

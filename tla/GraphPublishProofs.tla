------------------------- MODULE GraphPublishProofs -------------------------
(***************************************************************************)
(* What holds of the publishers for every number of them, of input tables, *)
(* of upstream commits, expired snapshots and crashes.                     *)
(***************************************************************************)
EXTENDS GraphPublish, FiniteSetTheorems, TLAPS

Snaps   == Nat \ {0}
Vectors == [Inputs -> Snaps]
Data    == [pins : Vectors, scaler : Vectors \cup {None}]
Pairs   == (Tables \ {Manifest}) \X Snaps
Entry   == [build : Vectors, rows : SUBSET Pairs, at : Nat]
Leaves  == {None} \cup Data \cup Entry
Partial(S) == UNION {[D -> Snaps] : D \in SUBSET S}
Job     == [at : Nat, pins : Partial(Inputs), out : Partial(Outputs),
            rows : SUBSET Pairs, todo : SUBSET Pairs, scaler : Vectors \cup {None}]

\* The tables: what is committed to which.
Book ==
  /\ hist \in [Tables -> Seq(Leaves)]
  /\ \A t \in Outputs : hist[t] \in Seq(Data)
  /\ hist[Manifest] \in Seq(Entry)

\* The publishers: all inputs are pinned once the manifest is looked at, and what is looked up was written.
Working ==
  /\ now \in Nat
  /\ pc \in [Publishers -> Labels]
  /\ job \in [Publishers -> Job]
  /\ \A p \in Publishers :
       /\ pc[p] = "pin" => DOMAIN job[p].pins # Inputs
       /\ pc[p] \notin {"idle", "pin"} => DOMAIN job[p].pins = Inputs
       /\ pc[p] = "read_scaler" => Main(Scaler) # 0
       /\ pc[p] \in {"edges", "read_nodes"} => Main(Nodes) # 0
       /\ pc[p] \in {"read_nodes", "read_edges"} => Main(Edges) # 0

Shape == Book /\ Working

\* Some input is left to be pinned.
LEMMA InputLeft ==
  ASSUME NEW D, D \subseteq Inputs, D # Inputs
  PROVE  InputOrder[Cardinality(D) + 1] \in Inputs
<1>. DEFINE n == Len(InputOrder)
<1>1. InputOrder \in Seq(Inputs) /\ n \in Nat /\ InputOrder \in [1..n -> Inputs]
  BY PublishAssumption
<1>2. InputOrder \in Surjection(1..n, Inputs)
  BY <1>1, Zenon DEF Surjection, Inputs
<1>3. IsFiniteSet(1..n) /\ Cardinality(1..n) = n
  BY <1>1, FS_Interval, 1 \in Int, n \in Int
<1>4. IsFiniteSet(Inputs) /\ Cardinality(Inputs) <= n
  BY <1>2, <1>3, FS_Surjection
<1>5. IsFiniteSet(D) /\ Cardinality(D) <= Cardinality(Inputs) /\ Cardinality(D) # Cardinality(Inputs)
  BY <1>4, FS_Subset
<1>6. Cardinality(D) \in Nat /\ Cardinality(Inputs) \in Nat
  BY <1>4, <1>5, FS_CardinalityType
<1>7. Cardinality(D) + 1 \in 1..n
  BY <1>1, <1>4, <1>5, <1>6
<1>. QED  BY <1>1, <1>7

\* What a table name may be.
LEMMA TableNames ==
  /\ Scaler \in Outputs /\ Nodes \in Outputs /\ Edges \in Outputs /\ Outputs = {Nodes, Edges, Scaler}
  /\ Tables = Inputs \cup Outputs \cup {Manifest}
  /\ Manifest \notin Inputs \cup Outputs /\ Inputs \cap Outputs = {}
  /\ Nodes # Edges /\ Nodes # Scaler /\ Edges # Scaler
BY PublishAssumption DEF Tables, Outputs, Scaler, Nodes, Edges, Manifest

LEMMA WithAdds ==
  ASSUME NEW S, NEW f \in Partial(S), NEW t \in S, NEW v \in Snaps
  PROVE  With(f, t, v) \in Partial(S) /\ DOMAIN With(f, t, v) = DOMAIN f \cup {t}
<1>1. PICK D \in SUBSET S : f \in [D -> Snaps]
  BY DEF Partial
<1>2. With(f, t, v) \in [D \cup {t} -> Snaps]
  BY <1>1 DEF With
<1>. QED  BY <1>1, <1>2 DEF Partial

\* The pins of a publisher that has pinned every input.
LEMMA FullPins ==
  ASSUME NEW f \in Partial(Inputs), DOMAIN f = Inputs
  PROVE  f \in Vectors
BY DEF Partial, Vectors

LEMMA RowsArePairs ==
  ASSUME Shape, NEW p \in Publishers
  PROVE  Rows(p) \in SUBSET Pairs
<1>. DEFINE j == job[p]
<1>1. j.pins \in Partial(Inputs) /\ j.out \in Partial(Outputs)
  BY DEF Shape, Working, Job
<1>2. \A t \in DOMAIN j.pins : t \in Inputs /\ j.pins[t] \in Snaps
  BY <1>1 DEF Partial
<1>3. \A t \in DOMAIN j.out : t \in Outputs /\ j.out[t] \in Snaps
  BY <1>1 DEF Partial
<1>4. Inputs \subseteq Tables \ {Manifest} /\ Outputs \subseteq Tables \ {Manifest}
  BY TableNames, Zenon
<1>5. \A t \in Tables \ {Manifest}, s \in Snaps : <<t, s>> \in Pairs
  BY DEF Pairs
<1>. QED  BY <1>2, <1>3, <1>4, <1>5, Zenon DEF Rows, PairsOf

LEMMA AppendFacts ==
  ASSUME NEW S, NEW s \in Seq(S), NEW e \in S
  PROVE  /\ Append(s, e) \in Seq(S) /\ Len(Append(s, e)) = Len(s) + 1 /\ Len(s) \in Nat
         /\ Append(s, e)[Len(s) + 1] = e
         /\ \A i \in 1..Len(s) : Append(s, e)[i] = s[i]
OBVIOUS

\* Every snapshot that is there stays, and a commit puts one after them.
Grown == \A u \in Tables : /\ Main(u) <= Main(u)'
                           /\ \A i \in 1..Main(u) : hist'[u][i] = hist[u][i]

LEMMA CommitGrows ==
  ASSUME Book, NEW t \in Tables, NEW d \in Leaves, Commit(t, d),
         t \in Outputs => d \in Data, t = Manifest => d \in Entry
  PROVE  /\ Book' /\ Grown
         /\ Main(t)' = Main(t) + 1 /\ hist'[t][Main(t) + 1] = d
         /\ \A u \in Tables : u # t => hist'[u] = hist[u]
<1>1. \A u \in Tables : hist'[u] = IF u = t THEN Append(hist[t], d) ELSE hist[u]
  BY DEF Commit, Book
<1>2. \A u \in Tables : hist[u] \in Seq(Leaves)
  BY DEF Book
<1>3. Append(hist[t], d) \in Seq(Leaves) /\ Len(Append(hist[t], d)) = Len(hist[t]) + 1
      /\ Append(hist[t], d)[Len(hist[t]) + 1] = d
      /\ \A i \in 1..Len(hist[t]) : Append(hist[t], d)[i] = hist[t][i]
  BY <1>2, AppendFacts
<1>4. hist' \in [Tables -> Seq(Leaves)]
  BY <1>3 DEF Commit, Book
<1>5. ASSUME NEW u \in Outputs PROVE hist'[u] \in Seq(Data)
  <2>1. u \in Tables /\ hist[u] \in Seq(Data)
    BY TableNames DEF Book
  <2>2. CASE u = t
    <3>1. Append(hist[t], d) \in Seq(Data)
      BY <2>1, <2>2, AppendFacts, Zenon
    <3>. QED  BY <1>1, <2>1, <2>2, <3>1, Zenon
  <2>3. CASE u # t
    BY <1>1, <2>1, <2>3, Zenon
  <2>. QED  BY <2>2, <2>3
<1>6. hist'[Manifest] \in Seq(Entry)
  <2>1. Manifest \in Tables /\ hist[Manifest] \in Seq(Entry)
    BY TableNames DEF Book
  <2>2. CASE t = Manifest
    <3>1. Append(hist[t], d) \in Seq(Entry)
      BY <2>1, <2>2, AppendFacts, Zenon
    <3>. QED  BY <1>1, <2>1, <2>2, <3>1, Zenon
  <2>3. CASE t # Manifest
    BY <1>1, <2>1, <2>3, Zenon
  <2>. QED  BY <2>2, <2>3
<1>7. ASSUME NEW u \in Tables
      PROVE  Main(u) <= Main(u)' /\ \A i \in 1..Main(u) : hist'[u][i] = hist[u][i]
  <2>1. Len(hist[u]) \in Nat
    BY <1>2
  <2>2. CASE u = t
    <3>1. hist'[u] = Append(hist[t], d)
      BY <1>1, <2>2, Zenon
    <3>2. Main(u) = Len(hist[t]) /\ Main(u)' = Len(Append(hist[t], d))
      BY <2>2, <3>1, Zenon DEF Main
    <3>3. Main(u) <= Main(u)'
      BY <1>3, <2>1, <2>2, <3>2
    <3>. QED  BY <1>3, <2>2, <3>1, <3>2, <3>3, Zenon
  <2>3. CASE u # t
    <3>1. hist'[u] = hist[u]
      BY <1>1, <2>3, Zenon
    <3>. QED  BY <2>1, <3>1 DEF Main
  <2>. QED  BY <2>2, <2>3
<1>. QED  BY <1>1, <1>3, <1>4, <1>5, <1>6, <1>7, Zenon DEF Book, Grown, Main

LEMMA UnchangedGrows ==
  ASSUME Book, hist' = hist
  PROVE  Book' /\ Grown
<1>1. \A u \in Tables : Len(hist[u]) \in Nat
  BY DEF Book
<1>. QED  BY <1>1 DEF Book, Grown, Main

\* The manifest's rows of a build are pairs.
LEMMA PublishedArePairs ==
  ASSUME Book, NEW b
  PROVE  /\ Published(b) \in SUBSET Pairs
         /\ \A r \in Published(b) : \E i \in 1..Main(Manifest) : hist[Manifest][i].build = b /\ r \in hist[Manifest][i].rows
<1>1. \A i \in 1..Main(Manifest) : hist[Manifest][i] \in Entry
  BY DEF Book, Main
<1>2. \A i \in 1..Main(Manifest) : hist[Manifest][i].rows \in SUBSET Pairs
  BY <1>1 DEF Entry
<1>. QED  BY <1>2, Zenon DEF Published

-----------------------------------------------------------------------------
(* Types. *)

\* A publisher moves on, and holds what its new step needs.
LEMMA MoveKeepsShape ==
  ASSUME Shape, Book', Grown, now' \in Nat,
         NEW p \in Publishers, NEW l \in Labels, pc' = [pc EXCEPT ![p] = l],
         job' \in [Publishers -> Job], \A q \in Publishers : q # p => job'[q] = job[q],
         l = "pin" => DOMAIN job'[p].pins # Inputs,
         l \notin {"idle", "pin"} => DOMAIN job'[p].pins = Inputs,
         l = "read_scaler" => Main(Scaler)' # 0,
         l \in {"edges", "read_nodes"} => Main(Nodes)' # 0,
         l \in {"read_nodes", "read_edges"} => Main(Edges)' # 0
  PROVE  Shape'
<1>1. pc \in [Publishers -> Labels]
  BY DEF Shape, Working
<1>2. pc' \in [Publishers -> Labels]
  BY <1>1
<1>3. \A t \in Tables : Main(t) # 0 => Main(t)' # 0
  <2>1. \A t \in Tables : Main(t) \in Nat /\ Main(t)' \in Nat /\ Main(t) <= Main(t)'
    BY DEF Shape, Book, Main, Grown
  <2>. QED  BY <2>1
<1>4. pc'[p] = l /\ \A q \in Publishers : q # p => pc'[q] = pc[q]
  BY <1>1
<1>5. Scaler \in Tables /\ Nodes \in Tables /\ Edges \in Tables
  BY TableNames
<1>6. ASSUME NEW q \in Publishers
      PROVE  /\ pc'[q] = "pin" => DOMAIN job'[q].pins # Inputs
             /\ pc'[q] \notin {"idle", "pin"} => DOMAIN job'[q].pins = Inputs
             /\ pc'[q] = "read_scaler" => Main(Scaler)' # 0
             /\ pc'[q] \in {"edges", "read_nodes"} => Main(Nodes)' # 0
             /\ pc'[q] \in {"read_nodes", "read_edges"} => Main(Edges)' # 0
  <2>1. CASE q = p
    BY <1>4, <2>1, Zenon
  <2>2. CASE q # p
    BY <1>3, <1>4, <1>5, <2>2, Zenon DEF Shape, Working
  <2>. QED  BY <2>1, <2>2
<1>. QED  BY <1>2, <1>6, Zenon DEF Shape, Working

LEMMA LeaveKeepsShape ==
  ASSUME Shape, NEW p \in Publishers, Leave(p), UNCHANGED now, Book', Grown
  PROVE  Shape'
<1>1. NoJob \in Job
  <2>1. <<>> \in Partial(Inputs) /\ <<>> \in Partial(Outputs)
    <3>1. <<>> \in [{} -> Snaps]
      OBVIOUS
    <3>. QED  BY <3>1, Zenon DEF Partial
  <2>. QED  BY <2>1 DEF NoJob, Job
<1>2. job' \in [Publishers -> Job] /\ \A q \in Publishers : q # p => job'[q] = job[q]
  BY <1>1 DEF Shape, Working, Leave
<1>3. "idle" \in Labels /\ pc' = [pc EXCEPT ![p] = "idle"] /\ now' \in Nat
  BY DEF Labels, Leave, Goto, Shape, Working
<1>. QED  BY <1>2, <1>3, MoveKeepsShape

LEMMA FailKeepsShape ==
  ASSUME Shape, NEW p \in Publishers, Fail(p)
  PROVE  Shape' /\ Grown /\ Leave(p) /\ UNCHANGED <<catalog, history>>
<1>1. Leave(p) /\ now' = now /\ UNCHANGED catalog /\ UNCHANGED history /\ hist' = hist
  BY DEF Fail, catalog
<1>2. Book' /\ Grown
  BY <1>1, UnchangedGrows DEF Shape
<1>. QED  BY <1>1, <1>2, LeaveKeepsShape

\* What a publisher may have in memory where.
LEMMA InMemory ==
  ASSUME Shape, NEW p \in Publishers
  PROVE  /\ job[p] \in Job /\ DOMAIN job = Publishers
         /\ pc[p] \notin {"idle", "pin"} => job[p].pins \in Vectors
         /\ \A t \in Tables : Main(t) \in Nat
<1>1. job[p] \in Job /\ job[p].pins \in Partial(Inputs)
  BY DEF Shape, Working, Job
<1>2. pc[p] \notin {"idle", "pin"} => DOMAIN job[p].pins = Inputs
  BY DEF Shape, Working
<1>3. \A t \in Tables : Main(t) \in Nat
  BY DEF Shape, Book, Main
<1>4. DOMAIN job = Publishers
  BY DEF Shape, Working
<1>. QED  BY <1>1, <1>2, <1>3, <1>4, FullPins, Zenon

LEMMA StartShape ==
  ASSUME Shape, NEW p \in Publishers, Start(p)
  PROVE  Shape' /\ Grown
<1>1. hist' = hist /\ now' \in Nat /\ pc' = [pc EXCEPT ![p] = "pin"] /\ "pin" \in Labels
  BY DEF Start, catalog, Goto, Labels, Shape, Working
<1>2. [NoJob EXCEPT !.at = now] \in Job
  <2>1. <<>> \in Partial(Inputs) /\ <<>> \in Partial(Outputs)
    <3>1. <<>> \in [{} -> Snaps]
      OBVIOUS
    <3>. QED  BY <3>1, Zenon DEF Partial
  <2>. QED  BY <2>1 DEF NoJob, Job, Shape, Working
<1>3. job' = [job EXCEPT ![p] = [NoJob EXCEPT !.at = now]]
  BY DEF Start
<1>4. job' \in [Publishers -> Job] /\ \A q \in Publishers : q # p => job'[q] = job[q]
  BY <1>2, <1>3 DEF Shape, Working
<1>5. job'[p].pins = <<>>
  BY <1>3, InMemory DEF NoJob
<1>6. DOMAIN job'[p].pins # Inputs
  BY <1>5, PublishAssumption
<1>7. Book' /\ Grown
  BY <1>1, UnchangedGrows DEF Shape
<1>. QED  BY <1>1, <1>4, <1>6, <1>7, MoveKeepsShape

LEMMA PinInputShape ==
  ASSUME Shape, NEW p \in Publishers, PinInput(p)
  PROVE  Shape' /\ Grown
<1>. DEFINE t == InputOrder[Cardinality(DOMAIN job[p].pins) + 1]
<1>1. CASE Main(t) = 0 /\ Fail(p)
  BY <1>1, FailKeepsShape
<1>2. CASE /\ Main(t) # 0
           /\ job' = [job EXCEPT ![p].pins = With(@, t, Main(t))]
           /\ IF DOMAIN job[p].pins \cup {t} = Inputs THEN Goto(p, "look") ELSE UNCHANGED pc
           /\ UNCHANGED <<catalog, now, history, bounds>>
  <2>1. job[p].pins \in Partial(Inputs) /\ DOMAIN job[p].pins \subseteq Inputs /\ DOMAIN job[p].pins # Inputs
    <3>1. pc[p] = "pin"
      BY DEF PinInput
    <3>2. job[p].pins \in Partial(Inputs)
      BY InMemory DEF Job
    <3>. QED  BY <3>1, <3>2 DEF Shape, Working, Partial
  <2>2. t \in Inputs /\ t \in Tables
    BY <2>1, InputLeft, TableNames
  <2>3. Main(t) \in Snaps
    BY <1>2, <2>2, InMemory DEF Snaps
  <2>. DEFINE w == With(job[p].pins, t, Main(t))
  <2>4. w \in Partial(Inputs) /\ DOMAIN w = DOMAIN job[p].pins \cup {t}
    <3>1. \A f \in Partial(Inputs), u \in Inputs, v \in Snaps :
            With(f, u, v) \in Partial(Inputs) /\ DOMAIN With(f, u, v) = DOMAIN f \cup {u}
      BY WithAdds
    <3>. HIDE DEF t
    <3>. QED  BY <2>1, <2>2, <2>3, <3>1
  <2>5. /\ job' \in [Publishers -> Job] /\ job'[p].pins = w
        /\ \A q \in Publishers : q # p => job'[q] = job[q]
    <3>. HIDE DEF w
    <3>1. job' = [job EXCEPT ![p].pins = w]
      BY <1>2 DEF w
    <3>. QED  BY <2>4, <3>1 DEF Shape, Working, Job
  <2>6. hist' = hist /\ now' \in Nat /\ Book' /\ Grown
    BY <1>2, UnchangedGrows DEF catalog, Shape, Working
  <2>7. CASE DOMAIN w = Inputs
    <3>1. pc' = [pc EXCEPT ![p] = "look"] /\ "look" \in Labels
      BY <1>2, <2>4, <2>7 DEF Goto, Labels
    <3>2. DOMAIN job'[p].pins = Inputs
      BY <2>5, <2>7
    <3>. QED  BY <2>5, <2>6, <3>1, <3>2, MoveKeepsShape
  <2>8. CASE DOMAIN w # Inputs
    <3>1. pc' = [pc EXCEPT ![p] = "pin"] /\ "pin" \in Labels
      BY <1>2, <2>4, <2>8 DEF PinInput, Labels, Shape, Working
    <3>2. DOMAIN job'[p].pins # Inputs
      BY <2>5, <2>8
    <3>. QED  BY <2>5, <2>6, <3>1, <3>2, MoveKeepsShape
  <2>. QED  BY <2>7, <2>8
<1>. QED  BY <1>1, <1>2 DEF PinInput

LEMMA LookManifestShape ==
  ASSUME Shape, NEW p \in Publishers, LookManifest(p)
  PROVE  Shape' /\ Grown
<1>. DEFINE rows == Published(Build(p))
<1>1. /\ pc[p] = "look" /\ hist' = hist /\ now' = now
      /\ IF rows = {} THEN Goto(p, "fit") /\ UNCHANGED job
         ELSE Goto(p, "complete") /\ job' = [job EXCEPT ![p].rows = rows, ![p].todo = rows]
  BY DEF LookManifest, catalog
<1>2. Book' /\ Grown /\ now' \in Nat
  BY <1>1, UnchangedGrows DEF Shape, Working
<1>3. rows \in SUBSET Pairs
  BY PublishedArePairs DEF Shape
<1>. HIDE DEF rows
<1>4. PICK l \in {"fit", "complete"} : Goto(p, l)
  BY <1>1
<1>5. /\ job' \in [Publishers -> Job] /\ job'[p].pins = job[p].pins
      /\ \A q \in Publishers : q # p => job'[q] = job[q]
  BY <1>1, <1>3 DEF Shape, Working, Job
<1>6. DOMAIN job'[p].pins = Inputs
  BY <1>1, <1>5 DEF Shape, Working
<1>7. l \in Labels /\ pc' = [pc EXCEPT ![p] = l]
  BY <1>4 DEF Labels, Goto
<1>. QED  BY <1>2, <1>4, <1>5, <1>6, <1>7, MoveKeepsShape

LEMMA WriteShape ==
  ASSUME Shape, NEW p \in Publishers, NEW t \in Outputs, NEW from \in Labels \ {"idle", "pin"},
         NEW to \in Labels \ {"idle", "pin"}, Write(p, t, from, to),
         to = "read_scaler" => t = Scaler,
         to = "edges" => t = Nodes,
         to = "read_nodes" => t = Edges /\ from = "edges",
         to # "read_edges"
  PROVE  Shape' /\ Grown
<1>1. CASE Fail(p)
  BY <1>1, FailKeepsShape
<1>. DEFINE d == [pins |-> job[p].pins, scaler |-> IF t = Edges THEN job[p].scaler ELSE None]
<1>2. CASE /\ pc[p] = from /\ Commit(t, d) /\ Goto(p, to)
           /\ UNCHANGED <<expired, tags, now, job, history, bounds>>
  <2>1. job[p].pins \in Vectors /\ job[p].scaler \in Vectors \cup {None}
    BY <1>2, InMemory DEF Job
  <2>2. d \in Data /\ d \in Leaves
    BY <2>1 DEF Data, Leaves
  <2>3. t \in Tables /\ t # Manifest
    BY TableNames
  <2>4. Book' /\ Grown /\ Main(t)' = Main(t) + 1 /\ \A u \in Tables : u # t => hist'[u] = hist[u]
    <3>. HIDE DEF d
    <3>. QED  BY <1>2, <2>2, <2>3, CommitGrows DEF Shape
  <2>5. \A u \in Tables : Main(u) \in Nat
    BY InMemory
  <2>6. Main(t)' # 0
    BY <2>3, <2>4, <2>5
  <2>7. job' = job /\ now' = now /\ pc' = [pc EXCEPT ![p] = to]
    BY <1>2 DEF Goto
  <2>8. DOMAIN job'[p].pins = Inputs /\ job' \in [Publishers -> Job] /\ now' \in Nat
    BY <1>2, <2>7 DEF Shape, Working
  <2>9. to = "read_nodes" => Main(Nodes)' # 0
    <3>1. to = "read_nodes" => Main(Nodes) # 0 /\ Nodes \in Tables /\ hist'[Nodes] = hist[Nodes]
      BY <1>2, <2>4, TableNames, Zenon DEF Shape, Working
    <3>. QED  BY <3>1 DEF Main
  <2>10. to \in Labels
    OBVIOUS
  <2>. QED  BY <2>4, <2>6, <2>7, <2>8, <2>9, <2>10, MoveKeepsShape
<1>. QED  BY <1>1, <1>2, Zenon DEF Write

LEMMA ReadScalerShape ==
  ASSUME Shape, NEW p \in Publishers, ReadScaler(p)
  PROVE  Shape' /\ Grown
<1>1. pc[p] = "read_scaler" /\ hist' = hist /\ now' = now /\ pc' = [pc EXCEPT ![p] = "nodes"] /\ "nodes" \in Labels
  BY DEF ReadScaler, catalog, Goto, Labels
<1>2. Main(Scaler) \in Snaps
  BY <1>1, InMemory, TableNames DEF Shape, Working, Snaps
<1>3. hist[Scaler][Main(Scaler)] \in Data
  BY <1>2, TableNames DEF Shape, Book, Main, Snaps
<1>4. hist[Scaler][Main(Scaler)].pins \in Vectors
  BY <1>3 DEF Data
<1>5. With(job[p].out, Scaler, Main(Scaler)) \in Partial(Outputs)
  <2>1. job[p].out \in Partial(Outputs)
    BY InMemory DEF Job
  <2>. QED  BY <1>2, <2>1, WithAdds, TableNames
<1>6. Book' /\ Grown /\ now' \in Nat
  BY <1>1, UnchangedGrows DEF Shape, Working
<1>7. /\ job' \in [Publishers -> Job] /\ job'[p].pins = job[p].pins
      /\ \A q \in Publishers : q # p => job'[q] = job[q]
  <2>1. PICK w \in Partial(Outputs), v \in Vectors : job' = [job EXCEPT ![p].out = w, ![p].scaler = v]
    BY <1>4, <1>5 DEF ReadScaler
  <2>. QED  BY <2>1 DEF Shape, Working, Job
<1>8. DOMAIN job'[p].pins = Inputs
  BY <1>1, <1>7 DEF Shape, Working
<1>. QED  BY <1>1, <1>6, <1>7, <1>8, MoveKeepsShape

LEMMA ReadOutShape ==
  ASSUME Shape, NEW p \in Publishers, NEW t \in Outputs, NEW from \in Labels \ {"idle", "pin"},
         NEW to \in {"read_edges", "append"}, ReadOut(p, t, from, to), Main(t) # 0,
         to = "read_edges" => Main(Edges) # 0
  PROVE  Shape' /\ Grown
<1>1. pc[p] = from /\ hist' = hist /\ now' = now /\ pc' = [pc EXCEPT ![p] = to] /\ to \in Labels
  BY DEF ReadOut, catalog, Goto, Labels
<1>2. Main(t) \in Snaps
  BY InMemory, TableNames DEF Snaps
<1>3. With(job[p].out, t, Main(t)) \in Partial(Outputs)
  <2>1. job[p].out \in Partial(Outputs)
    BY InMemory DEF Job
  <2>. QED  BY <1>2, <2>1, WithAdds
<1>4. Book' /\ Grown /\ now' \in Nat
  BY <1>1, UnchangedGrows DEF Shape, Working
<1>5. /\ job' \in [Publishers -> Job] /\ job'[p].pins = job[p].pins
      /\ \A q \in Publishers : q # p => job'[q] = job[q]
  <2>1. PICK w \in Partial(Outputs) : job' = [job EXCEPT ![p].out = w]
    BY <1>3 DEF ReadOut
  <2>. QED  BY <2>1 DEF Shape, Working, Job
<1>6. DOMAIN job'[p].pins = Inputs
  BY <1>1, <1>5 DEF Shape, Working
<1>7. to = "read_edges" => Main(Edges)' # 0
  BY <1>1 DEF Main
<1>. QED  BY <1>1, <1>4, <1>5, <1>6, <1>7, MoveKeepsShape

\* What a tag names, and what EnsureTag may do.
LEMMA EnsureTagFacts ==
  ASSUME NEW t, NEW b, NEW s, EnsureTag(t, b, s)
  PROVE  /\ <<t, b, s>> \in tags'
         /\ tags' = tags \/ (tags' = tags \cup {<<t, b, s>>} /\ Target(t, b) = {} /\ Alive(t, s))
BY Zenon DEF EnsureTag, Refused, PutTag

LEMMA AppendManifestShape ==
  ASSUME Shape, NEW p \in Publishers, AppendManifest(p)
  PROVE  Shape' /\ Grown
<1>1. CASE Fail(p)
  BY <1>1, FailKeepsShape
<1>. DEFINE e == [build |-> Build(p), rows |-> Rows(p), at |-> job[p].at]
<1>2. CASE /\ pc[p] = "append" /\ Commit(Manifest, e)
           /\ job' = [job EXCEPT ![p].rows = Rows(p), ![p].todo = Rows(p)]
           /\ Goto(p, "tag")
           /\ UNCHANGED <<expired, tags, now, history, bounds>>
  <2>1. Rows(p) \in SUBSET Pairs
    BY RowsArePairs
  <2>2. job[p].pins \in Vectors /\ job[p].at \in Nat
    BY <1>2, InMemory DEF Job
  <2>3. e \in Entry /\ e \in Leaves
    <3>1. e \in Entry
      BY <2>1, <2>2 DEF Entry, Build
    <3>. QED  BY <3>1, Zenon DEF Leaves
  <2>4. Book' /\ Grown
    <3>1. Manifest \in Tables /\ Manifest \notin Outputs
      BY TableNames
    <3>. HIDE DEF e
    <3>. QED  BY <1>2, <2>3, <3>1, CommitGrows DEF Shape
  <2>5. /\ job' \in [Publishers -> Job] /\ job'[p].pins = job[p].pins
        /\ \A q \in Publishers : q # p => job'[q] = job[q]
    <3>1. PICK R \in SUBSET Pairs : job' = [job EXCEPT ![p].rows = R, ![p].todo = R]
      BY <1>2, <2>1
    <3>. QED  BY <3>1 DEF Shape, Working, Job
  <2>6. DOMAIN job'[p].pins = Inputs
    BY <1>2, <2>5 DEF Shape, Working
  <2>7. now' \in Nat /\ pc' = [pc EXCEPT ![p] = "tag"] /\ "tag" \in Labels
    BY <1>2 DEF Shape, Working, Goto, Labels
  <2>. QED  BY <2>4, <2>5, <2>6, <2>7, MoveKeepsShape
<1>. QED  BY <1>1, <1>2, Zenon DEF AppendManifest

LEMMA TagNextShape ==
  ASSUME Shape, NEW p \in Publishers, TagNext(p)
  PROVE  Shape' /\ Grown
<1>1. CASE Fail(p)
  BY <1>1, FailKeepsShape
<1>2. CASE \E r \in job[p].todo : /\ job' = [job EXCEPT ![p].todo = @ \ {r}]
                                  /\ UNCHANGED <<hist, expired, now, pc, history, bounds>>
  <2>1. PICK T \in SUBSET Pairs : job' = [job EXCEPT ![p].todo = T]
    <3>1. PICK r \in job[p].todo : job' = [job EXCEPT ![p].todo = job[p].todo \ {r}]
      BY <1>2
    <3>2. job[p].todo \in SUBSET Pairs
      BY InMemory DEF Job
    <3>. QED  BY <3>1, <3>2
  <2>2. hist' = hist /\ now' = now /\ pc' = pc /\ pc[p] \in {"tag", "complete"}
    BY <1>2 DEF TagNext
  <2>3. Book' /\ Grown /\ now' \in Nat
    BY <2>2, UnchangedGrows DEF Shape, Working
  <2>4. /\ job' \in [Publishers -> Job] /\ job'[p].pins = job[p].pins
        /\ \A q \in Publishers : q # p => job'[q] = job[q]
    BY <2>1 DEF Shape, Working, Job
  <2>5. pc[p] \in Labels /\ pc' = [pc EXCEPT ![p] = pc[p]]
    BY <2>2 DEF Shape, Working
  <2>6. DOMAIN job'[p].pins = Inputs
    BY <2>2, <2>4 DEF Shape, Working
  <2>. QED  BY <2>2, <2>3, <2>4, <2>5, <2>6, MoveKeepsShape
<1>. QED  BY <1>1, <1>2, Zenon DEF TagNext

LEMMA TagManifestShape ==
  ASSUME Shape, NEW p \in Publishers, TagManifest(p)
  PROVE  Shape' /\ Grown
<1>1. CASE Fail(p)
  BY <1>1, FailKeepsShape
<1>2. CASE Leave(p) /\ hist' = hist /\ now' = now
  BY <1>2, LeaveKeepsShape, UnchangedGrows DEF Shape
<1>3. Fail(p) \/ (Leave(p) /\ hist' = hist /\ now' = now)
  BY Zenon DEF TagManifest, Succeed, catalog
<1>. QED  BY <1>1, <1>2, <1>3

\* What is around the publishers moves none of them, but for a crash.
LEMMA SurroundingsShape ==
  ASSUME Shape, Surroundings
  PROVE  Shape' /\ Grown
<1>1. CASE \E p \in Publishers : Crash(p)
  <2>1. PICK p \in Publishers : Leave(p) /\ hist' = hist /\ now' = now
    BY <1>1 DEF Crash, catalog
  <2>. QED  BY <2>1, LeaveKeepsShape, UnchangedGrows DEF Shape
<1>2. ASSUME now' = now, pc' = pc, job' = job, Book', Grown
      PROVE  Shape'
  <2>1. \A t \in Tables : Main(t) # 0 => Main(t)' # 0
    <3>1. \A t \in Tables : Main(t) \in Nat /\ Main(t)' \in Nat /\ Main(t) <= Main(t)'
      BY <1>2 DEF Shape, Book, Main, Grown
    <3>. QED  BY <3>1
  <2>2. Scaler \in Tables /\ Nodes \in Tables /\ Edges \in Tables
    BY TableNames
  <2>3. ASSUME NEW q \in Publishers
        PROVE  /\ pc[q] = "pin" => DOMAIN job[q].pins # Inputs
               /\ pc[q] \notin {"idle", "pin"} => DOMAIN job[q].pins = Inputs
               /\ pc[q] = "read_scaler" => Main(Scaler)' # 0
               /\ pc[q] \in {"edges", "read_nodes"} => Main(Nodes)' # 0
               /\ pc[q] \in {"read_nodes", "read_edges"} => Main(Edges)' # 0
    BY <2>1, <2>2, Zenon DEF Shape, Working
  <2>. QED  BY <1>2, <2>3, Zenon DEF Shape, Working
<1>3. ASSUME NEW t \in Inputs, Upstream(t)
      PROVE  Shape' /\ Grown
  <2>1. t \in Tables /\ t \notin Outputs /\ t # Manifest
    BY TableNames
  <2>2. None \in Leaves
    BY DEF Leaves
  <2>3. Book' /\ Grown
    BY <1>3, <2>1, <2>2, CommitGrows DEF Upstream, Shape
  <2>. QED  BY <1>2, <1>3, <2>3 DEF Upstream
<1>4. CASE \E t \in Inputs \cup Outputs : \E s \in 1..Main(t) : Expire(t, s)
  <2>1. hist' = hist /\ now' = now /\ pc' = pc /\ job' = job
    BY <1>4 DEF Expire
  <2>2. Book' /\ Grown
    BY <2>1, UnchangedGrows DEF Shape
  <2>. QED  BY <1>2, <2>1, <2>2
<1>. QED  BY <1>1, <1>3, <1>4 DEF Surroundings

\* Every step keeps the shape, and no step takes a snapshot back.
LEMMA NextKeepsShape ==
  ASSUME Shape, [Next]_vars
  PROVE  Shape' /\ Grown
<1>1. ASSUME NEW p \in Publishers, Publish(p)
      PROVE  Shape' /\ Grown
  <2>1. CASE WriteScaler(p)
    <3>1. Write(p, Scaler, "fit", "read_scaler") /\ "fit" \in Labels /\ "read_scaler" \in Labels
      BY <2>1 DEF WriteScaler, Labels
    <3>. QED  BY <3>1, WriteShape, TableNames
  <2>2. CASE WriteNodes(p)
    <3>1. Write(p, Nodes, "nodes", "edges") /\ "nodes" \in Labels /\ "edges" \in Labels
      BY <2>2 DEF WriteNodes, Labels
    <3>. QED  BY <3>1, WriteShape, TableNames
  <2>3. CASE WriteEdges(p)
    <3>1. Write(p, Edges, "edges", "read_nodes") /\ "edges" \in Labels /\ "read_nodes" \in Labels
      BY <2>3 DEF WriteEdges, Labels
    <3>. QED  BY <3>1, WriteShape, TableNames
  <2>4. CASE ReadNodes(p)
    <3>1. ReadOut(p, Nodes, "read_nodes", "read_edges") /\ "read_nodes" \in Labels \ {"idle", "pin"}
      BY <2>4 DEF ReadNodes, Labels
    <3>2. Main(Nodes) # 0 /\ Main(Edges) # 0
      BY <3>1 DEF ReadOut, Shape, Working
    <3>. QED  BY <3>1, <3>2, ReadOutShape, TableNames
  <2>5. CASE ReadEdges(p)
    <3>1. ReadOut(p, Edges, "read_edges", "append") /\ "read_edges" \in Labels \ {"idle", "pin"}
      BY <2>5 DEF ReadEdges, Labels
    <3>2. Main(Edges) # 0
      BY <3>1 DEF ReadOut, Shape, Working
    <3>. QED  BY <3>1, <3>2, ReadOutShape, TableNames
  <2>. QED  BY <1>1, <2>1, <2>2, <2>3, <2>4, <2>5, StartShape, PinInputShape, LookManifestShape,
               ReadScalerShape, AppendManifestShape, TagNextShape, TagManifestShape DEF Publish
<1>2. CASE Surroundings
  BY <1>2, SurroundingsShape
<1>3. CASE UNCHANGED vars
  <2>1. hist' = hist /\ now' = now /\ pc' = pc /\ job' = job
    BY <1>3 DEF vars
  <2>2. Book' /\ Grown
    BY <2>1, UnchangedGrows DEF Shape
  <2>. QED  BY <2>1, <2>2, Zenon DEF Shape, Working, Main
<1>. QED  BY <1>1, <1>2, <1>3 DEF Next

LEMMA InitHasShape ==
  ASSUME Init
  PROVE  Shape
<1>1. NoJob \in Job
  <2>1. <<>> \in Partial(Inputs) /\ <<>> \in Partial(Outputs)
    <3>1. <<>> \in [{} -> Snaps]
      OBVIOUS
    <3>. QED  BY <3>1, Zenon DEF Partial
  <2>. QED  BY <2>1 DEF NoJob, Job
<1>2. <<None>> \in Seq(Leaves) /\ <<>> \in Seq(Leaves) /\ <<>> \in Seq(Data) /\ <<>> \in Seq(Entry)
  BY DEF Leaves
<1>3. hist \in [Tables -> Seq(Leaves)]
  BY <1>2 DEF Init
<1>4. \A t \in Tables \ Inputs : hist[t] = <<>>
  BY DEF Init
<1>5. Book
  BY <1>2, <1>3, <1>4, TableNames, Zenon DEF Book
<1>6. "idle" \in Labels /\ pc \in [Publishers -> Labels] /\ job \in [Publishers -> Job] /\ now \in Nat
  BY <1>1 DEF Init, Labels
<1>7. \A p \in Publishers : pc[p] = "idle"
  BY DEF Init
<1>. QED  BY <1>5, <1>6, <1>7, Zenon DEF Shape, Working

-----------------------------------------------------------------------------
(* The tags and the ledger. *)

ListedIn(b, r) == \E i \in 1..Main(Manifest) : hist[Manifest][i].build = b /\ r \in hist[Manifest][i].rows
Holds(b)       == \E i \in 1..Main(Manifest) : hist[Manifest][i].build = b
Carries(b, r)  == <<r[1], b, r[2]>> \in tags

\* What the catalog names was committed.
Named ==
  /\ \A x \in tags : x = <<x[1], x[2], x[3]>> /\ Committed(<<x[1], x[3]>>)
  /\ \A r \in expired : Committed(r)
  /\ \A i \in 1..Main(Manifest) : \A r \in hist[Manifest][i].rows : Committed(r)

\* A build has one tag per table.
OneTarget == \A x, y \in tags : x[1] = y[1] /\ x[2] = y[2] => x[3] = y[3]

Done == \A f \in finished : /\ \A r \in f.rows : Carries(f.build, r)
                            /\ \E s : <<Manifest, f.build, s>> \in tags

\* What a publisher names was committed; one that tags has its rows in the ledger, and those that are
\* no longer to do are tagged.
Honest(p) ==
  /\ \A r \in job[p].todo \cup Rows(p) : Committed(r)
  /\ pc[p] \in {"tag", "complete"} =>
       /\ Holds(Build(p))
       /\ job[p].todo \subseteq job[p].rows
       /\ \A r \in job[p].rows : ListedIn(Build(p), r)
       /\ \A r \in job[p].rows \ job[p].todo : Carries(Build(p), r)

IInv == Shape /\ Named /\ OneTarget /\ Done /\ \A p \in Publishers : Honest(p)

LEMMA CommittedStays ==
  ASSUME Shape, Shape', Grown
  PROVE  /\ \A r : Committed(r) => Committed(r)'
         /\ \A b : Holds(b) => Holds(b)'
         /\ \A b, r : ListedIn(b, r) => ListedIn(b, r)'
<1>1. \A t \in Tables : Main(t) \in Nat /\ Main(t)' \in Nat /\ Main(t) <= Main(t)'
  BY DEF Shape, Book, Main, Grown
<1>2. \A t \in Tables : 1..Main(t) \subseteq 1..Main(t)'
  BY <1>1
<1>3. Manifest \in Tables
  BY TableNames
<1>. QED  BY <1>2, <1>3, Zenon DEF Grown, Committed, Holds, ListedIn

LEMMA HonestStays ==
  ASSUME Shape, Shape', Grown, tags \subseteq tags', NEW p \in Publishers, Honest(p),
         job'[p] = job[p], pc'[p] = pc[p] \/ pc'[p] \notin {"tag", "complete"}
  PROVE  Honest(p)'
<1>1. Rows(p)' = Rows(p) /\ Build(p)' = Build(p)
  BY DEF Rows, Build
<1>. QED  BY <1>1, CommittedStays, Zenon DEF Honest, Carries

LEMMA HonestLeaves ==
  ASSUME Shape, NEW p \in Publishers, Leave(p)
  PROVE  Honest(p)'
<1>1. job'[p] = NoJob /\ pc'[p] = "idle"
  BY DEF Leave, Goto, Shape, Working
<1>2. job'[p].todo = {} /\ job'[p].pins = <<>> /\ job'[p].out = <<>>
  BY <1>1 DEF NoJob
<1>3. Rows(p)' = {}
  BY <1>2 DEF Rows, PairsOf
<1>. QED  BY <1>1, <1>2, <1>3 DEF Honest

\* A step that neither appends to the ledger, nor tags, nor expires.
LEMMA CatalogStays ==
  ASSUME Shape, Shape', Grown, Named, OneTarget, Done,
         hist'[Manifest] = hist[Manifest], tags' = tags, expired' = expired, finished' = finished
  PROVE  Named' /\ OneTarget' /\ Done'
<1>1. Main(Manifest)' = Main(Manifest)
  BY DEF Main
<1>2. \A r : Committed(r) => Committed(r)'
  BY CommittedStays
<1>3. Named'
  BY <1>1, <1>2, Zenon DEF Named
<1>4. OneTarget'
  BY Zenon DEF OneTarget
<1>5. Done'
  BY Zenon DEF Done, Carries
<1>. QED  BY <1>3, <1>4, <1>5

LEMMA WithPairs ==
  ASSUME NEW f, NEW t, NEW v
  PROVE  PairsOf(With(f, t, v)) \subseteq PairsOf(f) \cup {<<t, v>>}
BY DEF PairsOf, With

\* What a publisher adds to its vectors is main, which was committed.
LEMMA MainIsCommitted ==
  ASSUME Shape, NEW t \in Tables, Main(t) # 0
  PROVE  Committed(<<t, Main(t)>>)
<1>1. Main(t) \in Nat
  BY DEF Shape, Book, Main
<1>. QED  BY <1>1 DEF Committed

LEMMA PublishedIsListed ==
  ASSUME NEW b, NEW r \in Published(b)
  PROVE  ListedIn(b, r) /\ Holds(b)
BY Zenon DEF Published, ListedIn, Holds

\* Steps of one publisher leave the others alone.
LEMMA OthersStay ==
  ASSUME Shape, NEW p \in Publishers, Publish(p) \/ Crash(p), NEW q \in Publishers, q # p
  PROVE  job'[q] = job[q] /\ pc'[q] = pc[q]
<1>1. job \in [Publishers -> Job] /\ pc \in [Publishers -> Labels]
  BY DEF Shape, Working
<1>2. ASSUME Leave(p) PROVE job'[q] = job[q] /\ pc'[q] = pc[q]
  BY <1>1, <1>2 DEF Leave, Goto
<1>3. ASSUME Fail(p) PROVE job'[q] = job[q] /\ pc'[q] = pc[q]
  BY <1>2, <1>3 DEF Fail
<1>4. ASSUME NEW t, NEW from, NEW to, Write(p, t, from, to) PROVE job'[q] = job[q] /\ pc'[q] = pc[q]
  BY <1>1, <1>3, <1>4 DEF Write, Goto
<1>5. ASSUME NEW t, NEW from, NEW to, ReadOut(p, t, from, to) PROVE job'[q] = job[q] /\ pc'[q] = pc[q]
  BY <1>1, <1>5 DEF ReadOut, Goto
<1>6. CASE Start(p)
  BY <1>1, <1>6 DEF Start, Goto
<1>7. CASE PinInput(p)
  BY <1>1, <1>3, <1>7 DEF PinInput, Goto
<1>8. CASE LookManifest(p)
  BY <1>1, <1>8 DEF LookManifest, Goto
<1>9. CASE ReadScaler(p)
  BY <1>1, <1>9 DEF ReadScaler, Goto
<1>10. CASE AppendManifest(p)
  BY <1>1, <1>3, <1>10 DEF AppendManifest, Goto
<1>11. CASE TagNext(p)
  BY <1>1, <1>3, <1>11 DEF TagNext
<1>12. CASE TagManifest(p)
  BY <1>1, <1>2, <1>3, <1>12 DEF TagManifest, Succeed
<1>13. CASE Crash(p)
  BY <1>2, <1>13 DEF Crash
<1>. QED  BY <1>4, <1>5, <1>6, <1>7, <1>8, <1>9, <1>10, <1>11, <1>12, <1>13
          DEF Publish, WriteScaler, WriteNodes, WriteEdges, ReadNodes, ReadEdges

\* What each step of a publisher is shown to do, given the shape after it.
Kept(p) == Named' /\ OneTarget' /\ Done' /\ Honest(p)' /\ tags \subseteq tags' /\ [L!Next]_(L!vars)

\* A step that touches neither ledger, nor tags, nor what is finished.
LEMMA QuietKeeps ==
  ASSUME IInv, Shape', Grown, NEW p \in Publishers, Honest(p)',
         hist'[Manifest] = hist[Manifest], tags' = tags, expired' = expired, finished' = finished
  PROVE  Kept(p)
<1>1. UNCHANGED L!vars
  BY DEF L!vars
<1>. QED  BY <1>1, CatalogStays DEF IInv, Kept

LEMMA FailKeeps ==
  ASSUME IInv, Shape', Grown, NEW p \in Publishers, Fail(p)
  PROVE  Kept(p)
<1>1. Leave(p) /\ hist' = hist /\ tags' = tags /\ expired' = expired /\ finished' = finished
  BY DEF Fail, catalog, history
<1>. QED  BY <1>1, HonestLeaves, QuietKeeps DEF IInv

LEMMA StartKeeps ==
  ASSUME IInv, Shape', Grown, NEW p \in Publishers, Start(p)
  PROVE  Kept(p)
<1>1. hist' = hist /\ tags' = tags /\ expired' = expired /\ finished' = finished
  BY DEF Start, catalog
<1>2. job'[p] = [NoJob EXCEPT !.at = now] /\ pc'[p] = "pin"
  BY DEF Start, Goto, IInv, Shape, Working
<1>3. job'[p].todo = {} /\ job'[p].pins = <<>> /\ job'[p].out = <<>>
  BY <1>2 DEF NoJob
<1>4. Rows(p)' = {}
  BY <1>3 DEF Rows, PairsOf
<1>5. Honest(p)'
  BY <1>2, <1>3, <1>4 DEF Honest
<1>. QED  BY <1>1, <1>5, QuietKeeps

LEMMA PinInputKeeps ==
  ASSUME IInv, Shape', Grown, NEW p \in Publishers, PinInput(p)
  PROVE  Kept(p)
<1>. DEFINE t == InputOrder[Cardinality(DOMAIN job[p].pins) + 1]
            w == With(job[p].pins, t, Main(t))
<1>1. CASE Fail(p)
  BY <1>1, FailKeeps
<1>2. CASE /\ pc[p] = "pin" /\ Main(t) # 0
           /\ job' = [job EXCEPT ![p].pins = w]
           /\ IF DOMAIN job[p].pins \cup {t} = Inputs THEN Goto(p, "look") ELSE UNCHANGED pc
           /\ UNCHANGED <<catalog, now, history, bounds>>
  <2>1. t \in Tables
    <3>1. job[p].pins \in Partial(Inputs)
      BY InMemory DEF Job, IInv
    <3>2. DOMAIN job[p].pins \subseteq Inputs /\ DOMAIN job[p].pins # Inputs
      BY <1>2, <3>1 DEF Partial, IInv, Shape, Working
    <3>. QED  BY <3>2, InputLeft, TableNames
  <2>2. Committed(<<t, Main(t)>>)
    BY <1>2, <2>1, MainIsCommitted DEF IInv
  <2>3. PairsOf(w) \subseteq PairsOf(job[p].pins) \cup {<<t, Main(t)>>}
    <3>. HIDE DEF t
    <3>. QED  BY WithPairs
  <2>4. job'[p].pins = w /\ job'[p].out = job[p].out /\ job'[p].todo = job[p].todo
    <3>1. job[p] \in Job /\ job \in [Publishers -> Job]
      BY DEF IInv, Shape, Working
    <3>2. PICK f : f = w /\ job' = [job EXCEPT ![p].pins = f]
      BY <1>2
    <3>3. job'[p].pins = f /\ job'[p].out = job[p].out /\ job'[p].todo = job[p].todo
      BY <3>1, <3>2 DEF Job
    <3>. QED  BY <3>2, <3>3
  <2>5. Rows(p)' \subseteq Rows(p) \cup {<<t, Main(t)>>}
    <3>. HIDE DEF w, t
    <3>. QED  BY <2>3, <2>4 DEF Rows
  <2>6. pc'[p] \notin {"tag", "complete"}
    BY <1>2 DEF Goto, IInv, Shape, Working
  <2>7. \A r \in job'[p].todo \cup Rows(p)' : Committed(r)'
    <3>1. \A r \in job[p].todo \cup Rows(p) : Committed(r)
      BY DEF IInv, Honest
    <3>2. \A r : Committed(r) => Committed(r)'
      BY CommittedStays DEF IInv
    <3>. HIDE DEF w, t
    <3>. QED  BY <2>2, <2>4, <2>5, <3>1, <3>2
  <2>8. Honest(p)'
    BY <2>6, <2>7, Zenon DEF Honest
  <2>. QED  BY <1>2, <2>8, QuietKeeps DEF catalog, history
<1>. QED  BY <1>1, <1>2, Zenon DEF PinInput

LEMMA LookManifestKeeps ==
  ASSUME IInv, Shape', Grown, NEW p \in Publishers, LookManifest(p)
  PROVE  Kept(p)
<1>. DEFINE rows == Published(Build(p))
<1>1. /\ pc[p] = "look"
      /\ hist' = hist /\ tags' = tags /\ expired' = expired /\ finished' = finished
      /\ \/ Goto(p, "fit") /\ job' = job
         \/ /\ rows # {} /\ Goto(p, "complete")
            /\ job' = [job EXCEPT ![p].rows = rows, ![p].todo = rows]
  BY DEF LookManifest, catalog, history
<1>2. CASE Goto(p, "fit") /\ job' = job
  <2>1. pc'[p] = "fit" /\ job'[p] = job[p]
    BY <1>2 DEF Goto, IInv, Shape, Working
  <2>2. Honest(p)'
    BY <1>1, <2>1, HonestStays DEF IInv
  <2>. QED  BY <1>1, <2>2, QuietKeeps
<1>3. CASE rows # {} /\ Goto(p, "complete") /\ job' = [job EXCEPT ![p].rows = rows, ![p].todo = rows]
  <2>1. \A r \in rows : ListedIn(Build(p), r) /\ Holds(Build(p))
    BY PublishedIsListed
  <2>2. \A r \in rows : Committed(r)
    BY <2>1, Zenon DEF IInv, Named, ListedIn
  <2>3. /\ job'[p].rows = rows /\ job'[p].todo = rows
        /\ job'[p].pins = job[p].pins /\ job'[p].out = job[p].out
    <3>1. job[p] \in Job /\ job \in [Publishers -> Job]
      BY DEF IInv, Shape, Working
    <3>2. PICK R : R = rows /\ job' = [job EXCEPT ![p].rows = R, ![p].todo = R]
      BY <1>3
    <3>3. /\ job'[p].rows = R /\ job'[p].todo = R
          /\ job'[p].pins = job[p].pins /\ job'[p].out = job[p].out
      BY <3>1, <3>2 DEF Job
    <3>. QED  BY <3>2, <3>3
  <2>4. Rows(p)' = Rows(p) /\ Build(p)' = Build(p)
    BY <2>3 DEF Rows, Build
  <2>5. \A r \in Rows(p) : Committed(r)
    BY DEF IInv, Honest
  <2>6. PICK b : b = Build(p)
    OBVIOUS
  <2>7. /\ \A r \in rows : ListedIn(b, r)' /\ Committed(r)'
        /\ \A r \in Rows(p) : Committed(r)'
        /\ Holds(b)'
    <3>1. /\ \A r : Committed(r) => Committed(r)'
          /\ \A c : Holds(c) => Holds(c)'
          /\ \A c, r : ListedIn(c, r) => ListedIn(c, r)'
      BY CommittedStays DEF IInv
    <3>2. \E r : r \in rows
      BY <1>3
    <3>. HIDE DEF rows
    <3>. QED  BY <2>1, <2>2, <2>5, <2>6, <3>1, <3>2, Zenon
  <2>8. Build(p)' = b
    BY <2>4, <2>6
  <2>9. Honest(p)'
    <3>. HIDE DEF rows
    <3>. QED  BY <2>3, <2>4, <2>7, <2>8 DEF Honest, ListedIn, Holds
  <2>. QED  BY <1>1, <2>9, QuietKeeps
<1>. QED  BY <1>1, <1>2, <1>3

LEMMA WriteKeeps ==
  ASSUME IInv, Shape', Grown, NEW p \in Publishers, NEW t \in Outputs, NEW from,
         NEW to \in Labels \ {"tag", "complete"}, Write(p, t, from, to)
  PROVE  Kept(p)
<1>1. CASE Fail(p)
  BY <1>1, FailKeeps
<1>2. CASE /\ Commit(t, [pins |-> job[p].pins, scaler |-> IF t = Edges THEN job[p].scaler ELSE None])
           /\ Goto(p, to)
           /\ UNCHANGED <<expired, tags, now, job, history, bounds>>
  <2>1. hist'[Manifest] = hist[Manifest]
    BY <1>2, TableNames DEF Commit, IInv, Shape, Book
  <2>2. pc'[p] = to /\ job'[p] = job[p]
    BY <1>2 DEF Goto, IInv, Shape, Working
  <2>3. Honest(p)'
    BY <1>2, <2>2, HonestStays DEF IInv
  <2>. QED  BY <1>2, <2>1, <2>3, QuietKeeps DEF history
<1>. QED  BY <1>1, <1>2, Zenon DEF Write

\* A look at an output: its main joins the outputs of the job.
LEMMA LookKeeps ==
  ASSUME IInv, Shape', Grown, NEW p \in Publishers, NEW t \in Outputs, Main(t) # 0,
         job'[p].out = With(job[p].out, t, Main(t)),
         job'[p].pins = job[p].pins, job'[p].todo = job[p].todo,
         pc'[p] \notin {"tag", "complete"}, UNCHANGED <<catalog, history>>
  PROVE  Kept(p)
<1>1. Committed(<<t, Main(t)>>)
  BY TableNames, MainIsCommitted DEF IInv
<1>2. Rows(p)' \subseteq Rows(p) \cup {<<t, Main(t)>>}
  BY WithPairs DEF Rows
<1>3. \A r \in job[p].todo \cup Rows(p) : Committed(r)
  BY DEF IInv, Honest
<1>4. \A r : Committed(r) => Committed(r)'
  BY CommittedStays DEF IInv
<1>5. Honest(p)'
  BY <1>1, <1>2, <1>3, <1>4 DEF Honest
<1>. QED  BY <1>5, QuietKeeps DEF catalog, history

LEMMA ReadScalerKeeps ==
  ASSUME IInv, Shape', Grown, NEW p \in Publishers, ReadScaler(p)
  PROVE  Kept(p)
<1>1. pc[p] = "read_scaler" /\ UNCHANGED <<catalog, history>> /\ pc'[p] = "nodes"
  BY DEF ReadScaler, Goto, IInv, Shape, Working
<1>2. Main(Scaler) # 0
  BY <1>1 DEF IInv, Shape, Working
<1>3. /\ job'[p].out = With(job[p].out, Scaler, Main(Scaler))
      /\ job'[p].pins = job[p].pins /\ job'[p].todo = job[p].todo
  <2>1. job[p] \in Job /\ job \in [Publishers -> Job]
    BY DEF IInv, Shape, Working
  <2>2. PICK w, v : w = With(job[p].out, Scaler, Main(Scaler)) /\ job' = [job EXCEPT ![p].out = w, ![p].scaler = v]
    BY DEF ReadScaler
  <2>3. job'[p].out = w /\ job'[p].pins = job[p].pins /\ job'[p].todo = job[p].todo
    BY <2>1, <2>2 DEF Job
  <2>. QED  BY <2>2, <2>3
<1>. QED  BY <1>1, <1>2, <1>3, TableNames, LookKeeps

LEMMA ReadOutKeeps ==
  ASSUME IInv, Shape', Grown, NEW p \in Publishers, NEW t \in Outputs, Main(t) # 0, NEW from,
         NEW to \in Labels \ {"tag", "complete"}, ReadOut(p, t, from, to)
  PROVE  Kept(p)
<1>1. UNCHANGED <<catalog, history>> /\ pc'[p] = to
  BY DEF ReadOut, Goto, IInv, Shape, Working
<1>2. /\ job'[p].out = With(job[p].out, t, Main(t))
      /\ job'[p].pins = job[p].pins /\ job'[p].todo = job[p].todo
  <2>1. job[p] \in Job /\ job \in [Publishers -> Job]
    BY DEF IInv, Shape, Working
  <2>2. PICK w : w = With(job[p].out, t, Main(t)) /\ job' = [job EXCEPT ![p].out = w]
    BY DEF ReadOut
  <2>3. job'[p].out = w /\ job'[p].pins = job[p].pins /\ job'[p].todo = job[p].todo
    BY <2>1, <2>2 DEF Job
  <2>. QED  BY <2>2, <2>3
<1>. QED  BY <1>1, <1>2, LookKeeps

LEMMA AppendManifestKeeps ==
  ASSUME IInv, Shape', Grown, NEW p \in Publishers, AppendManifest(p)
  PROVE  Kept(p)
<1>1. CASE Fail(p)
  BY <1>1, FailKeeps
<1>. DEFINE e == [build |-> Build(p), rows |-> Rows(p), at |-> job[p].at]
            m == Main(Manifest)
<1>2. CASE /\ pc[p] = "append" /\ \A r \in Rows(p) : Alive(r[1], r[2])
           /\ Commit(Manifest, e)
           /\ job' = [job EXCEPT ![p].rows = Rows(p), ![p].todo = Rows(p)]
           /\ Goto(p, "tag")
           /\ UNCHANGED <<expired, tags, now, history, bounds>>
  <2>1. m \in Nat /\ Main(Manifest)' = m + 1 /\ hist'[Manifest][m + 1] = e
        /\ \A i \in 1..m : hist'[Manifest][i] = hist[Manifest][i]
    <3>1. job[p].pins \in Vectors /\ job[p].at \in Nat /\ Rows(p) \in SUBSET Pairs
      BY <1>2, InMemory, RowsArePairs DEF IInv, Job
    <3>2. e \in Entry
      BY <3>1 DEF Entry, Build
    <3>3. Manifest \in Tables /\ Manifest \notin Outputs /\ e \in Leaves
      BY <3>2, TableNames, Zenon DEF Leaves
    <3>. HIDE DEF e
    <3>. QED  BY <1>2, <3>2, <3>3, CommitGrows, InMemory DEF IInv, Shape, Grown
  <2>2. 1..(m + 1) = 1..m \cup {m + 1}
    BY <2>1
  <2>3. \A r \in Rows(p) : Committed(r)
    BY DEF IInv, Honest
  <2>4. Rows(p)' = Rows(p) /\ Build(p)' = Build(p) /\ job'[p].rows = Rows(p) /\ job'[p].todo = Rows(p)
        /\ pc'[p] = "tag"
    <3>1. job[p] \in Job /\ job \in [Publishers -> Job]
      BY DEF IInv, Shape, Working
    <3>2. PICK R : R = Rows(p) /\ job' = [job EXCEPT ![p].rows = R, ![p].todo = R]
      BY <1>2
    <3>3. /\ job'[p].rows = R /\ job'[p].todo = R
          /\ job'[p].pins = job[p].pins /\ job'[p].out = job[p].out
      BY <3>1, <3>2 DEF Job
    <3>. QED  BY <1>2, <3>2, <3>3 DEF Rows, Build, Goto, IInv, Shape, Working
  <2>5. \A r : Committed(r) => Committed(r)'
    BY CommittedStays DEF IInv
  <2>6. Named'
    <3>1. \A i \in 1..m : \A r \in hist[Manifest][i].rows : Committed(r)
      BY DEF IInv, Named
    <3>2. \A r \in hist'[Manifest][m + 1].rows : Committed(r)'
      BY <2>1, <2>3, <2>5
    <3>3. \A i \in 1..m : \A r \in hist'[Manifest][i].rows : Committed(r)'
      BY <2>1, <2>5, <3>1
    <3>4. \A i \in 1..Main(Manifest)' : \A r \in hist'[Manifest][i].rows : Committed(r)'
      <4>. HIDE DEF m
      <4>. QED  BY <2>1, <2>2, <3>2, <3>3
    <3>. QED  BY <1>2, <2>5, <3>4, Zenon DEF Named, IInv
  <2>7. OneTarget' /\ Done'
    <3>1. tags' = tags /\ finished' = finished
      BY <1>2 DEF history
    <3>. QED  BY <3>1, Zenon DEF OneTarget, Done, Carries, IInv
  <2>8. Honest(p)'
    <3>1. m + 1 \in 1..Main(Manifest)'
      BY <2>1
    <3>2. hist'[Manifest][m + 1].build = Build(p)' /\ hist'[Manifest][m + 1].rows = Rows(p)
      BY <2>1, <2>4
    <3>3. Holds(Build(p))' /\ \A r \in Rows(p) : ListedIn(Build(p), r)'
      <4>. HIDE DEF m
      <4>. QED  BY <3>1, <3>2 DEF Holds, ListedIn
    <3>4. \A r \in Rows(p) : Committed(r)'
      BY <2>3, <2>5
    <3>. QED  BY <2>4, <3>3, <3>4 DEF Honest
  <2>9. L!Next
    <3>1. L!Append1
      BY <1>2, <2>1 DEF L!Append1, Main
    <3>. QED  BY <3>1 DEF L!Next
  <2>. QED  BY <1>2, <2>6, <2>7, <2>8, <2>9 DEF Kept
<1>. QED  BY <1>1, <1>2, Zenon DEF AppendManifest

\* A tag is put where the ledger lists the build, once.
LEMMA EnsureTagKeeps ==
  ASSUME IInv, Shape', Grown, hist' = hist, expired' = expired, NEW t \in Tables, NEW b, NEW s,
         EnsureTag(t, b, s), Committed(<<t, s>>),
         t = Manifest => s = Main(Manifest) /\ Holds(b),
         t # Manifest => ListedIn(b, <<t, s>>)
  PROVE  /\ Named' /\ OneTarget' /\ tags \subseteq tags' /\ <<t, b, s>> \in tags'
         /\ [L!Next]_(L!vars)
<1>1. <<t, b, s>> \in tags'
  BY EnsureTagFacts
<1>2. CASE tags' = tags
  <2>1. Named' /\ OneTarget'
    BY <1>2, CommittedStays, Zenon DEF IInv, Named, OneTarget, Main
  <2>2. UNCHANGED L!vars
    BY <1>2 DEF L!vars
  <2>. QED  BY <1>1, <1>2, <2>1, <2>2
<1>3. CASE tags' = tags \cup {<<t, b, s>>} /\ Target(t, b) = {}
  <2>1. \A y \in tags : y[1] # t \/ y[2] # b
    BY <1>3 DEF Target
  <2>2. OneTarget'
    BY <1>3, <2>1 DEF IInv, OneTarget
  <2>3. Named'
    <3>1. \A r : Committed(r) => Committed(r)'
      BY CommittedStays DEF IInv
    <3>2. Main(Manifest)' = Main(Manifest)
      BY DEF Main
    <3>3. \A x \in tags' : x = <<x[1], x[2], x[3]>> /\ Committed(<<x[1], x[3]>>)'
      <4>1. \A x \in tags : x = <<x[1], x[2], x[3]>> /\ Committed(<<x[1], x[3]>>)'
        BY <3>1, Zenon DEF IInv, Named
      <4>2. Committed(<<t, s>>)'
        BY <3>1
      <4>3. ASSUME NEW x, x = <<t, b, s>>
            PROVE  x = <<x[1], x[2], x[3]>> /\ x[1] = t /\ x[3] = s
        BY <4>3
      <4>4. \A x : x = <<t, b, s>> => x = <<x[1], x[2], x[3]>> /\ Committed(<<x[1], x[3]>>)'
        BY <4>2, <4>3, Zenon
      <4>. QED  BY <1>3, <4>1, <4>4, Zenon
    <3>. QED  BY <3>1, <3>2, <3>3, Zenon DEF IInv, Named
  <2>4. <<t, b, s>> \notin tags
    BY <2>1
  <2>5. L!Listed(hist[Manifest], t, b, s)
    <3>1. CASE t = Manifest
      <4>1. s \in 1..Len(hist[Manifest]) /\ s = Len(hist[Manifest])
        BY <3>1 DEF Committed, Main
      <4>. QED  BY <3>1, <4>1 DEF L!Listed, Holds, Main
    <3>2. CASE t # Manifest
      BY <3>2, Zenon DEF L!Listed, ListedIn, Main
    <3>. QED  BY <3>1, <3>2
  <2>6. L!Tag
    <3>1. \E x \in tags' \ tags :
            /\ tags' = tags \cup {x}
            /\ \A y \in tags : y[1] = x[1] => y[2] # x[2]
            /\ L!Listed(hist[Manifest], x[1], x[2], x[3])
            /\ hist'[Manifest] = hist[Manifest]
      <4>. WITNESS <<t, b, s>> \in tags' \ tags
      <4>. QED  BY <1>3, <2>1, <2>5
    <3>. QED  BY <3>1 DEF L!Tag
  <2>. QED  BY <1>1, <1>3, <2>2, <2>3, <2>6 DEF L!Next
<1>. QED  BY <1>2, <1>3, EnsureTagFacts

LEMMA TagNextKeeps ==
  ASSUME IInv, Shape', Grown, NEW p \in Publishers, TagNext(p)
  PROVE  Kept(p)
<1>1. CASE Fail(p)
  BY <1>1, FailKeeps
<1>2. ASSUME NEW r \in job[p].todo, pc[p] \in {"tag", "complete"},
             EnsureTag(r[1], Build(p), r[2]), job' = [job EXCEPT ![p].todo = @ \ {r}],
             UNCHANGED <<hist, expired, now, pc, history, bounds>>
      PROVE  Kept(p)
  <2>1. job[p] \in Job /\ job \in [Publishers -> Job]
    BY DEF IInv, Shape, Working
  <2>2. r \in Pairs /\ r[1] \in Tables /\ r[1] # Manifest /\ r = <<r[1], r[2]>>
    BY <2>1 DEF Job, Pairs
  <2>3. Committed(r) /\ ListedIn(Build(p), r)
    BY <1>2, Zenon DEF IInv, Honest
  <2>4. /\ Named' /\ OneTarget' /\ tags \subseteq tags' /\ <<r[1], Build(p), r[2]>> \in tags'
        /\ [L!Next]_(L!vars)
    BY <1>2, <2>2, <2>3, EnsureTagKeeps
  <2>5. finished' = finished
    BY <1>2 DEF history
  <2>6. Done'
    BY <2>4, <2>5, Zenon DEF IInv, Done, Carries
  <2>7. /\ job'[p].todo = job[p].todo \ {r} /\ job'[p].rows = job[p].rows
        /\ job'[p].pins = job[p].pins /\ job'[p].out = job[p].out /\ pc'[p] = pc[p]
    BY <1>2, <2>1 DEF Job
  <2>8. Rows(p)' = Rows(p) /\ Build(p)' = Build(p)
    BY <2>7 DEF Rows, Build
  <2>9. Honest(p)'
    <3>1. /\ \A x : Committed(x) => Committed(x)'
          /\ \A b : Holds(b) => Holds(b)'
          /\ \A b, x : ListedIn(b, x) => ListedIn(b, x)'
      BY CommittedStays DEF IInv
    <3>2. PICK b : b = Build(p)
      OBVIOUS
    <3>3. /\ \A x \in job'[p].todo \cup Rows(p)' : Committed(x)'
          /\ Holds(b)' /\ job'[p].todo \subseteq job'[p].rows
          /\ \A x \in job'[p].rows : ListedIn(b, x)'
      BY <1>2, <2>7, <2>8, <3>1, <3>2 DEF IInv, Honest
    <3>4. \A x \in job'[p].rows \ job'[p].todo : <<x[1], b, x[2]>> \in tags'
      <4>1. \A x \in job[p].rows \ job[p].todo : <<x[1], b, x[2]>> \in tags
        BY <1>2, <3>2 DEF IInv, Honest, Carries
      <4>. QED  BY <2>4, <2>7, <3>2, <4>1
    <3>. QED  BY <2>8, <3>2, <3>3, <3>4 DEF Honest, Carries, Holds, ListedIn
  <2>. QED  BY <2>4, <2>6, <2>9 DEF Kept
<1>. QED  BY <1>1, <1>2, Zenon DEF TagNext

LEMMA TagManifestKeeps ==
  ASSUME IInv, Shape', Grown, NEW p \in Publishers, TagManifest(p)
  PROVE  Kept(p)
<1>1. CASE Fail(p)
  BY <1>1, FailKeeps
<1>2. Honest(p) /\ pc[p] \in {"tag", "complete"} /\ job[p].todo = {}
  BY Zenon DEF IInv, TagManifest
<1>3. Holds(Build(p)) /\ \A r \in job[p].rows : Carries(Build(p), r)
  BY <1>2 DEF Honest
<1>4. ASSUME Succeed(p), tags \subseteq tags', NEW s, <<Manifest, Build(p), s>> \in tags'
      PROVE  Done' /\ Honest(p)'
  <2>. DEFINE f == [build |-> Build(p), rows |-> job[p].rows]
  <2>1. Leave(p) /\ finished' = finished \cup {f}
    BY <1>4 DEF Succeed
  <2>2. /\ \A r \in f.rows : <<r[1], f.build, r[2]>> \in tags'
        /\ <<Manifest, f.build, s>> \in tags'
    BY <1>3, <1>4 DEF Carries
  <2>3. \A g \in finished : /\ \A r \in g.rows : <<r[1], g.build, r[2]>> \in tags'
                            /\ \E u : <<Manifest, g.build, u>> \in tags'
    BY <1>4, Zenon DEF IInv, Done, Carries
  <2>4. Done'
    <3>. HIDE DEF f
    <3>. QED  BY <2>1, <2>2, <2>3, Zenon DEF Done, Carries
  <2>. QED  BY <2>1, <2>4, HonestLeaves DEF IInv
<1>5. CASE Target(Manifest, Build(p)) # {} /\ Succeed(p) /\ UNCHANGED <<catalog, now, overlap, bounds>>
  <2>1. hist' = hist /\ expired' = expired /\ tags' = tags
    BY <1>5 DEF catalog
  <2>2. PICK x \in tags : x[1] = Manifest /\ x[2] = Build(p)
    BY <1>5 DEF Target
  <2>3. PICK s : <<Manifest, Build(p), s>> \in tags
    <3>1. x = <<Manifest, Build(p), x[3]>>
      BY <2>2, Zenon DEF IInv, Named
    <3>. QED  BY <2>2, <3>1, Zenon
  <2>4. Done' /\ Honest(p)'
    BY <1>4, <1>5, <2>1, <2>3
  <2>5. Named' /\ OneTarget'
    BY <2>1, CommittedStays, Zenon DEF IInv, Named, OneTarget, Main
  <2>6. UNCHANGED L!vars
    BY <2>1 DEF L!vars
  <2>. QED  BY <2>1, <2>4, <2>5, <2>6 DEF Kept
<1>6. CASE /\ EnsureTag(Manifest, Build(p), Main(Manifest)) /\ Succeed(p)
           /\ UNCHANGED <<hist, expired, now, overlap, bounds>>
  <2>1. Manifest \in Tables /\ Committed(<<Manifest, Main(Manifest)>>)
    <3>1. Main(Manifest) # 0
      <4>1. Main(Manifest) \in Nat /\ \E i \in 1..Main(Manifest) : TRUE
        BY <1>3, InMemory, TableNames DEF Holds, IInv
      <4>. QED  BY <4>1
    <3>. QED  BY <3>1, TableNames, MainIsCommitted DEF IInv
  <2>2. /\ Named' /\ OneTarget' /\ tags \subseteq tags' /\ <<Manifest, Build(p), Main(Manifest)>> \in tags'
        /\ [L!Next]_(L!vars)
    BY <1>3, <1>6, <2>1, EnsureTagKeeps
  <2>3. Done' /\ Honest(p)'
    BY <1>4, <1>6, <2>2
  <2>. QED  BY <2>2, <2>3 DEF Kept
<1>7. \/ Fail(p)
      \/ Target(Manifest, Build(p)) # {} /\ Succeed(p) /\ UNCHANGED <<catalog, now, overlap, bounds>>
      \/ /\ EnsureTag(Manifest, Build(p), Main(Manifest)) /\ Succeed(p)
         /\ UNCHANGED <<hist, expired, now, overlap, bounds>>
  BY Zenon DEF TagManifest
<1>. QED  BY <1>1, <1>5, <1>6, <1>7

LEMMA PublishKeeps ==
  ASSUME IInv, Shape', Grown, NEW p \in Publishers, Publish(p)
  PROVE  Kept(p)
<1>1. CASE WriteScaler(p)
  <2>1. Write(p, Scaler, "fit", "read_scaler") /\ "read_scaler" \in Labels \ {"tag", "complete"}
    BY <1>1 DEF WriteScaler, Labels
  <2>. QED  BY <2>1, WriteKeeps, TableNames
<1>2. CASE WriteNodes(p)
  <2>1. Write(p, Nodes, "nodes", "edges") /\ "edges" \in Labels \ {"tag", "complete"}
    BY <1>2 DEF WriteNodes, Labels
  <2>. QED  BY <2>1, WriteKeeps, TableNames
<1>3. CASE WriteEdges(p)
  <2>1. Write(p, Edges, "edges", "read_nodes") /\ "read_nodes" \in Labels \ {"tag", "complete"}
    BY <1>3 DEF WriteEdges, Labels
  <2>. QED  BY <2>1, WriteKeeps, TableNames
<1>4. CASE ReadNodes(p)
  <2>1. ReadOut(p, Nodes, "read_nodes", "read_edges") /\ "read_edges" \in Labels \ {"tag", "complete"}
    BY <1>4 DEF ReadNodes, Labels
  <2>2. Main(Nodes) # 0
    BY <2>1 DEF ReadOut, IInv, Shape, Working
  <2>. QED  BY <2>1, <2>2, ReadOutKeeps, TableNames
<1>5. CASE ReadEdges(p)
  <2>1. ReadOut(p, Edges, "read_edges", "append") /\ "append" \in Labels \ {"tag", "complete"}
    BY <1>5 DEF ReadEdges, Labels
  <2>2. Main(Edges) # 0
    BY <2>1 DEF ReadOut, IInv, Shape, Working
  <2>. QED  BY <2>1, <2>2, ReadOutKeeps, TableNames
<1>. QED  BY <1>1, <1>2, <1>3, <1>4, <1>5, StartKeeps, PinInputKeeps, LookManifestKeeps,
             ReadScalerKeeps, AppendManifestKeeps, TagNextKeeps, TagManifestKeeps DEF Publish

\* Upstream commits, expiry and crashes: no tag is put, and the ledger stays.
LEMMA SurroundingsKeep ==
  ASSUME IInv, Shape', Grown, Surroundings
  PROVE  /\ Named' /\ OneTarget' /\ Done' /\ \A p \in Publishers : Honest(p)'
         /\ [L!Next]_(L!vars)
<1>1. CASE \E p \in Publishers : Crash(p)
  <2>1. PICK p \in Publishers : Crash(p)
    BY <1>1
  <2>2. /\ Leave(p) /\ hist' = hist /\ expired' = expired /\ tags' = tags /\ finished' = finished
    BY <2>1 DEF Crash, catalog, history
  <2>3. Kept(p)
    BY <2>2, HonestLeaves, QuietKeeps DEF IInv
  <2>4. ASSUME NEW q \in Publishers, q # p PROVE Honest(q)'
    <3>1. job'[q] = job[q] /\ pc'[q] = pc[q]
      BY <2>1, <2>4, OthersStay DEF IInv
    <3>. QED  BY <2>2, <3>1, HonestStays DEF IInv
  <2>. QED  BY <2>3, <2>4 DEF Kept
<1>2. CASE \E t \in Inputs : Upstream(t)
  <2>1. PICK t \in Inputs : Upstream(t)
    BY <1>2
  <2>2. /\ hist'[Manifest] = hist[Manifest] /\ expired' = expired /\ tags' = tags
        /\ finished' = finished /\ job' = job /\ pc' = pc
    BY <2>1, TableNames DEF Upstream, Commit, history, IInv, Shape, Book
  <2>3. \A p \in Publishers : Honest(p)'
    BY <2>2, HonestStays DEF IInv
  <2>. QED  BY <2>2, <2>3, CatalogStays DEF IInv, L!vars
<1>3. CASE \E t \in Inputs \cup Outputs : \E s \in 1..Main(t) : Expire(t, s)
  <2>1. PICK t \in Inputs \cup Outputs : \E s \in 1..Main(t) : Expire(t, s)
    BY <1>3
  <2>2. PICK s \in 1..Main(t) : Expire(t, s)
    BY <2>1
  <2>3. /\ hist' = hist /\ expired' = expired \cup {<<t, s>>} /\ tags' = tags
        /\ finished' = finished /\ job' = job /\ pc' = pc
    BY <2>2 DEF Expire, history
  <2>4. Main(Manifest)' = Main(Manifest) /\ Committed(<<t, s>>)
    BY <2>3, TableNames DEF Main, Committed
  <2>5. \A r : Committed(r) => Committed(r)'
    BY CommittedStays DEF IInv
  <2>6. Named'
    <3>1. \A r \in expired' : Committed(r)'
      BY <2>3, <2>4, <2>5 DEF IInv, Named
    <3>. QED  BY <2>3, <2>4, <2>5, <3>1, Zenon DEF IInv, Named
  <2>7. OneTarget' /\ Done'
    BY <2>3, Zenon DEF IInv, OneTarget, Done, Carries
  <2>8. \A p \in Publishers : Honest(p)'
    BY <2>3, HonestStays DEF IInv
  <2>. QED  BY <2>3, <2>6, <2>7, <2>8 DEF L!vars
<1>. QED  BY <1>1, <1>2, <1>3 DEF Surroundings

LEMMA NextKeepsIInv ==
  ASSUME IInv, [Next]_vars
  PROVE  IInv' /\ [L!Next]_(L!vars)
<1>1. Shape' /\ Grown
  BY NextKeepsShape DEF IInv
<1>2. ASSUME NEW p \in Publishers, Publish(p)
      PROVE  IInv' /\ [L!Next]_(L!vars)
  <2>1. Kept(p)
    BY <1>1, <1>2, PublishKeeps
  <2>2. ASSUME NEW q \in Publishers, q # p PROVE Honest(q)'
    <3>1. job'[q] = job[q] /\ pc'[q] = pc[q]
      BY <1>2, <2>2, OthersStay DEF IInv
    <3>. QED  BY <1>1, <2>1, <3>1, HonestStays DEF IInv, Kept
  <2>. QED  BY <1>1, <2>1, <2>2 DEF IInv, Kept
<1>3. CASE Surroundings
  BY <1>1, <1>3, SurroundingsKeep DEF IInv
<1>4. CASE UNCHANGED vars
  <2>1. /\ hist' = hist /\ expired' = expired /\ tags' = tags /\ finished' = finished
        /\ job' = job /\ pc' = pc
    BY <1>4 DEF vars
  <2>2. \A p \in Publishers : Honest(p)'
    BY <1>1, <2>1, HonestStays DEF IInv
  <2>. QED  BY <1>1, <2>1, <2>2, CatalogStays DEF IInv, L!vars
<1>. QED  BY <1>2, <1>3, <1>4 DEF Next

LEMMA InitIInv ==
  ASSUME Init
  PROVE  IInv /\ L!Init
<1>1. Shape
  BY InitHasShape
<1>2. hist[Manifest] = <<>> /\ Main(Manifest) = 0 /\ tags = {} /\ expired = {} /\ finished = {}
  BY TableNames DEF Init, Main
<1>3. Named /\ OneTarget /\ Done
  BY <1>2 DEF Named, OneTarget, Done
<1>4. ASSUME NEW p \in Publishers PROVE Honest(p)
  <2>1. pc[p] = "idle" /\ job[p] = NoJob
    BY DEF Init
  <2>2. job[p].todo = {} /\ job[p].pins = <<>> /\ job[p].out = <<>>
    BY <2>1 DEF NoJob
  <2>3. Rows(p) = {}
    BY <2>2 DEF Rows, PairsOf
  <2>. QED  BY <2>1, <2>2, <2>3 DEF Honest
<1>. QED  BY <1>1, <1>2, <1>3, <1>4 DEF IInv, L!Init

\* The invariant holds of every number of publishers, tables, commits, expiries and crashes.
THEOREM PublishInvariant == Spec => []IInv
<1>1. Init => IInv
  BY InitIInv
<1>2. IInv /\ [Next]_vars => IInv'
  BY NextKeepsIInv
<1>. QED  BY <1>1, <1>2, PTL DEF Spec

\* Every snapshot that a tag, a row of the manifest, an expiry or a publisher names was committed.
THEOREM PublishTypeCorrect == Spec => []TypeOK
<1>1. ASSUME IInv PROVE TypeOK
  <2>1. ASSUME NEW t \in Tables PROVE hist[t] \in Seq(Range(hist[t]))
    <3>1. hist[t] \in Seq(Leaves)
      BY <1>1 DEF IInv, Shape, Book
    <3>2. PICK n \in Nat : hist[t] \in [1..n -> Leaves]
      BY <3>1
    <3>3. hist[t] \in [1..n -> Range(hist[t])]
      BY <3>2 DEF Range
    <3>. QED  BY <3>3
  <2>2. \A p \in Publishers : pc[p] \in Labels
    BY <1>1 DEF IInv, Shape, Working
  <2>. QED  BY <1>1, <2>1, <2>2, Zenon DEF TypeOK, IInv, Named, Honest
<1>. QED  BY <1>1, PublishInvariant, PTL

\* The publishers implement the ledger: whoever crashes, overlaps or loses snapshots to expiry, a publish
\* is in the ledger before its first tag, the ledger only grows, and a tag is put once and never moves.
THEOREM PublishImplementsLedger == Spec => ImplementsLedger
<1>1. Init => L!Init
  BY InitIInv
<1>2. IInv /\ [Next]_vars => [L!Next]_(L!vars)
  BY NextKeepsIInv
<1>. QED  BY <1>1, <1>2, PublishInvariant, PTL DEF Spec, ImplementsLedger, L!Spec

\* A run that exits 0 leaves every table it listed, or found listed, tagged with its build at the snapshot
\* listed and nowhere else, and the manifest tagged too, for good.
THEOREM FinishedStaysTagged == Spec => []FinishedIsTagged
<1>1. ASSUME IInv PROVE FinishedIsTagged
  <2>1. ASSUME NEW f \in finished, NEW r \in f.rows PROVE Target(r[1], f.build) = {r[2]}
    <3>1. <<r[1], f.build, r[2]>> \in tags
      BY <1>1, Zenon DEF IInv, Done, Carries
    <3>2. \A y \in tags : y[1] = r[1] /\ y[2] = f.build => y[3] = r[2]
      BY <1>1, <3>1 DEF IInv, OneTarget
    <3>. QED  BY <3>1, <3>2 DEF Target
  <2>2. ASSUME NEW f \in finished PROVE Target(Manifest, f.build) # {}
    <3>1. PICK s : <<Manifest, f.build, s>> \in tags
      BY <1>1, Zenon DEF IInv, Done
    <3>. QED  BY <3>1 DEF Target
  <2>. QED  BY <2>1, <2>2 DEF FinishedIsTagged
<1>. QED  BY <1>1, PublishInvariant, PTL

-----------------------------------------------------------------------------
(***************************************************************************)
(* Where no two runs overlap, what a run that exits 0 has published can be *)
(* read, now and ever after.  The data of the tables are followed from the *)
(* pins to the tags.                                                       *)
(***************************************************************************)

\* Snapshot s of an output was computed from the inputs of build b.
OutputIs(t, s, b) == /\ s \in 1..Main(t) /\ hist[t][s].pins = b
                     /\ t = Edges => hist[t][s].scaler = b

\* What a publisher has looked up where, and what it has written and not looked up yet.
Fresh == {"fit", "read_scaler", "nodes", "edges", "read_nodes", "read_edges", "append"}
Known(l) == CASE l \in {"nodes", "edges", "read_nodes"} -> {Scaler}
              [] l = "read_edges" -> {Scaler, Nodes}
              [] l = "append" -> Outputs
              [] OTHER -> {}
Written(l) == CASE l = "read_scaler" -> {Scaler}
                [] l = "edges" -> {Nodes}
                [] l = "read_nodes" -> {Nodes, Edges}
                [] l = "read_edges" -> {Edges}
                [] OTHER -> {}

\* An entry of the manifest lists every table once, at snapshots that belong together.
Whole(e) == \E f \in [Tables \ {Manifest} -> Snaps] :
              /\ e.rows = PairsOf(f)
              /\ \A t \in Inputs : f[t] = e.build[t]
              /\ \A t \in Outputs : OutputIs(t, f[t], e.build)

Once     == \A i, j \in 1..Main(Manifest) : hist[Manifest][i].build = hist[Manifest][j].build => i = j
AllWhole == \A i \in 1..Main(Manifest) : Whole(hist[Manifest][i])
Alone    == \A p, q \in Publishers : pc[p] # "idle" /\ pc[q] # "idle" => p = q
Listed   == \A f \in finished : f.rows = Published(f.build) /\ Holds(f.build)

Fits(p) ==
  /\ pc[p] \in Fresh \cup {"pin", "look"} => DOMAIN job[p].out = Known(pc[p])
  /\ pc[p] \in Fresh =>
       /\ ~Holds(Build(p))
       /\ \A t \in Known(pc[p]) : OutputIs(t, job[p].out[t], Build(p))
       /\ \A t \in Written(pc[p]) : OutputIs(t, Main(t), Build(p))
  /\ pc[p] \in {"nodes", "edges"} => job[p].scaler = Build(p)
  /\ pc[p] \in {"tag", "complete"} => job[p].rows = Published(Build(p))

\* What is tagged is never expired, and neither is the manifest.
Standing == /\ \A x \in tags : <<x[1], x[3]>> \notin expired
            /\ \A r \in expired : r[1] # Manifest

QInv == Once /\ AllWhole /\ Alone /\ Listed /\ \A p \in Publishers : Fits(p)
JInv == IInv /\ Standing /\ (~overlap => QInv)

-----------------------------------------------------------------------------
LEMMA OutputIsStays ==
  ASSUME Shape, Shape', Grown, NEW t \in Outputs, NEW s, NEW b, OutputIs(t, s, b)
  PROVE  OutputIs(t, s, b)'
<1>1. t \in Tables /\ Main(t) \in Nat /\ Main(t)' \in Nat
  BY TableNames DEF Shape, Book, Main
<1>2. Main(t) <= Main(t)' /\ \A i \in 1..Main(t) : hist'[t][i] = hist[t][i]
  BY <1>1 DEF Grown
<1>3. 1..Main(t) \subseteq 1..Main(t)'
  BY <1>1, <1>2
<1>. QED  BY <1>2, <1>3 DEF OutputIs

LEMMA WholeStays ==
  ASSUME Shape, Shape', Grown, NEW e, Whole(e)
  PROVE  Whole(e)'
BY OutputIsStays, Zenon DEF Whole

\* The manifest as it was: nothing of it changes.
LEMMA ManifestSame ==
  ASSUME hist'[Manifest] = hist[Manifest]
  PROVE  /\ \A b : Published(b)' = Published(b) /\ (Holds(b)' <=> Holds(b))
         /\ Once => Once'
<1>1. Main(Manifest)' = Main(Manifest)
  BY DEF Main
<1>. QED  BY <1>1, Zenon DEF Published, Holds, Once

LEMMA BookSame ==
  ASSUME Shape, Shape', Grown, hist'[Manifest] = hist[Manifest], finished' = finished,
         Once, AllWhole, Listed
  PROVE  Once' /\ AllWhole' /\ Listed'
<1>1. Main(Manifest)' = Main(Manifest)
  BY DEF Main
<1>2. AllWhole'
  <2>1. \A i \in 1..Main(Manifest) : Whole(hist[Manifest][i])'
    BY WholeStays DEF AllWhole
  <2>. QED  BY <1>1, <2>1 DEF AllWhole, Whole
<1>3. Listed'
  BY ManifestSame DEF Listed
<1>. QED  BY <1>2, <1>3, ManifestSame

\* A publisher whose memory, label and outputs stay as they are still fits.
LEMMA FitsStays ==
  ASSUME Shape, Shape', Grown, hist'[Manifest] = hist[Manifest],
         \A t \in Outputs : hist'[t] = hist[t],
         NEW p \in Publishers, Fits(p), job'[p] = job[p], pc'[p] = pc[p]
  PROVE  Fits(p)'
<1>1. Build(p)' = Build(p) /\ \A t \in Outputs : Main(t)' = Main(t)
  BY DEF Build, Main
<1>2. Known(pc[p]) \subseteq Outputs /\ Written(pc[p]) \subseteq Outputs
  BY DEF Known, Written, Outputs
<1>3. \A s, b : \A t \in Outputs : OutputIs(t, s, b) => OutputIs(t, s, b)'
  BY OutputIsStays
<1>4. PICK b : b = Build(p)
  OBVIOUS
<1>5. (Holds(b)' <=> Holds(b)) /\ Published(b)' = Published(b)
  BY ManifestSame
<1>6. Known(pc[p])' = Known(pc[p]) /\ Written(pc[p])' = Written(pc[p])
  BY DEF Known, Written
<1>7. /\ \A t \in Known(pc[p]) : OutputIs(t, job[p].out[t], b) => OutputIs(t, job[p].out[t], b)'
      /\ \A t \in Written(pc[p]) : OutputIs(t, Main(t), b) => OutputIs(t, Main(t), b)'
  BY <1>2, <1>3, <1>1 DEF OutputIs
<1>. QED  BY <1>1, <1>4, <1>5, <1>6, <1>7 DEF Fits, Holds, Published, OutputIs

LEMMA IdleFits ==
  ASSUME NEW p \in Publishers, pc'[p] = "idle"
  PROVE  Fits(p)'
BY DEF Fits, Fresh

-----------------------------------------------------------------------------
(* The steps of the one publisher under way. *)

\* A step that leaves the tables: what fits depends on the memory and the label only.
LEMMA LeavesFits ==
  ASSUME Shape, NEW p \in Publishers, Leave(p)
  PROVE  Fits(p)'
<1>1. pc'[p] = "idle"
  BY DEF Leave, Goto, Shape, Working
<1>. QED  BY <1>1, IdleFits

LEMMA StartFits ==
  ASSUME Shape, NEW p \in Publishers, Start(p)
  PROVE  Fits(p)'
<1>1. job'[p] = [NoJob EXCEPT !.at = now] /\ pc'[p] = "pin"
  BY DEF Start, Goto, Shape, Working
<1>2. job'[p].out = <<>>
  BY <1>1 DEF NoJob
<1>. QED  BY <1>1, <1>2 DEF Fits, Fresh, Known

LEMMA PinInputFits ==
  ASSUME Shape, NEW p \in Publishers, Fits(p), PinInput(p)
  PROVE  Fits(p)'
<1>1. CASE Fail(p)
  BY <1>1, LeavesFits DEF Fail
<1>2. CASE ~Fail(p)
  <2>1. PICK t : /\ pc[p] = "pin" /\ job' = [job EXCEPT ![p].pins = With(@, t, Main(t))]
                 /\ IF DOMAIN job[p].pins \cup {t} = Inputs THEN Goto(p, "look") ELSE UNCHANGED pc
    BY <1>2, Zenon DEF PinInput
  <2>2. PICK w : job' = [job EXCEPT ![p].pins = w]
    BY <2>1
  <2>3. job'[p].out = job[p].out
    <3>1. job \in [Publishers -> Job]
      BY DEF Shape, Working
    <3>. QED  BY <2>2, <3>1 DEF Job
  <2>4. pc'[p] \in {"pin", "look"}
    BY <2>1 DEF Goto, Shape, Working
  <2>5. DOMAIN job'[p].out = Known(pc[p]) /\ Known(pc[p]) = {}
    BY <2>1, <2>3 DEF Fits, Known
  <2>. QED  BY <2>4, <2>5 DEF Fits, Fresh, Known
<1>. QED  BY <1>1, <1>2

\* A whole entry has rows, so a build without published rows is not in the manifest.
LEMMA EmptyIsAbsent ==
  ASSUME AllWhole, NEW b, Published(b) = {}
  PROVE  ~Holds(b)
<1>. SUFFICES ASSUME Holds(b) PROVE FALSE
  OBVIOUS
<1>1. PICK i \in 1..Main(Manifest) : hist[Manifest][i].build = b
  BY DEF Holds
<1>2. PICK f \in [Tables \ {Manifest} -> Snaps] : hist[Manifest][i].rows = PairsOf(f)
  BY DEF AllWhole, Whole
<1>3. <<Nodes, f[Nodes]>> \in PairsOf(f)
  BY TableNames DEF PairsOf
<1>4. <<Nodes, f[Nodes]>> \in Published(b)
  BY <1>1, <1>2, <1>3, Zenon DEF Published
<1>. QED  BY <1>4

LEMMA LookManifestFits ==
  ASSUME Shape, AllWhole, NEW p \in Publishers, Fits(p), LookManifest(p)
  PROVE  Fits(p)'
<1>. DEFINE rows == Published(Build(p))
<1>1. /\ pc[p] = "look" /\ hist' = hist
      /\ \/ rows = {} /\ Goto(p, "fit") /\ job' = job
         \/ Goto(p, "complete") /\ job' = [job EXCEPT ![p].rows = rows, ![p].todo = rows]
  BY DEF LookManifest, catalog
<1>2. CASE rows = {} /\ Goto(p, "fit") /\ job' = job
  <2>1. pc'[p] = "fit" /\ job'[p] = job[p] /\ Build(p)' = Build(p)
    BY <1>2 DEF Goto, Shape, Working, Build
  <2>2. DOMAIN job'[p].out = {} /\ Known("fit") = {} /\ Written("fit") = {}
    BY <1>1, <2>1 DEF Fits, Known, Written
  <2>3. ~Holds(Build(p))'
    <3>1. ~Holds(Build(p))
      BY <1>2, EmptyIsAbsent
    <3>. QED  BY <1>1, <2>1, <3>1 DEF Holds, Main
  <2>. QED  BY <2>1, <2>2, <2>3 DEF Fits, Fresh, Known, Written
<1>3. CASE Goto(p, "complete") /\ job' = [job EXCEPT ![p].rows = rows, ![p].todo = rows]
  <2>1. PICK R : R = rows /\ job' = [job EXCEPT ![p].rows = R, ![p].todo = R]
    BY <1>3
  <2>2. pc'[p] = "complete" /\ job'[p].rows = R /\ job'[p].pins = job[p].pins
    <3>1. job \in [Publishers -> Job] /\ pc \in [Publishers -> Labels]
      BY DEF Shape, Working
    <3>. QED  BY <1>3, <2>1, <3>1 DEF Job, Goto
  <2>3. Build(p)' = Build(p)
    BY <2>2 DEF Build
  <2>4. Published(Build(p))' = R
    BY <1>1, <2>1, <2>3 DEF Published, Main
  <2>. QED  BY <2>2, <2>4 DEF Fits, Fresh
<1>. QED  BY <1>1, <1>2, <1>3

\* The data that are written are those of the pins.
LEMMA WriteFits ==
  ASSUME Shape, Shape', Grown, NEW p \in Publishers, Fits(p), NEW t \in Outputs,
         NEW from \in Fresh, NEW to \in Fresh, Write(p, t, from, to),
         Known(to) = Known(from), Written(to) \subseteq Written(from) \cup {t}, t \notin Known(from),
         t = Edges => from = "edges", to \in {"nodes", "edges"} => from \in {"nodes", "edges"}
  PROVE  Fits(p)'
<1>1. CASE Fail(p)
  BY <1>1, LeavesFits DEF Fail
<1>. DEFINE d == [pins |-> job[p].pins, scaler |-> IF t = Edges THEN job[p].scaler ELSE None]
<1>2. CASE pc[p] = from /\ Commit(t, d) /\ Goto(p, to) /\ job' = job
  <2>1. pc'[p] = to /\ job'[p] = job[p] /\ Build(p)' = Build(p)
    BY <1>2 DEF Goto, Shape, Working, Build
  <2>2. t \in Tables /\ t # Manifest /\ \A u \in Outputs : u \in Tables
    BY TableNames
  <2>3. /\ Main(t)' = Main(t) + 1 /\ hist'[t][Main(t) + 1] = d /\ Main(t) \in Nat
        /\ \A u \in Tables : u # t => hist'[u] = hist[u]
    <3>1. hist'[t] = Append(hist[t], d) /\ \A u \in Tables : u # t => hist'[u] = hist[u]
      BY <1>2, <2>2 DEF Commit, Shape, Book
    <3>2. hist[t] \in Seq(Leaves \cup {d})
      <4>1. hist[t] \in Seq(Leaves)
        BY <2>2 DEF Shape, Book
      <4>. HIDE DEF d
      <4>. QED  BY <4>1
    <3>3. Len(Append(hist[t], d)) = Len(hist[t]) + 1 /\ Append(hist[t], d)[Len(hist[t]) + 1] = d
          /\ Len(hist[t]) \in Nat
      <4>. HIDE DEF d
      <4>. QED  BY <3>2, AppendFacts
    <3>. HIDE DEF d
    <3>. QED  BY <3>1, <3>3 DEF Main
  <2>4. PICK b : b = Build(p)
    OBVIOUS
  <2>5. OutputIs(t, Main(t), b)'
    <3>1. Main(t)' \in 1..Main(t)'
      BY <2>3
    <3>2. hist'[t][Main(t)'].pins = b
      BY <2>3, <2>4 DEF Build
    <3>3. t = Edges => hist'[t][Main(t)'].scaler = b
      BY <1>2, <2>3, <2>4 DEF Fits
    <3>. QED  BY <3>1, <3>2, <3>3 DEF OutputIs
  <2>6. ~Holds(b)'
    <3>1. ~Holds(b)
      BY <1>2, <2>4 DEF Fits
    <3>2. hist'[Manifest] = hist[Manifest]
      BY <2>2, <2>3, TableNames
    <3>. QED  BY <3>1, <3>2, ManifestSame
  <2>7. \A u \in Known(to) : OutputIs(u, job[p].out[u], b)'
    <3>1. PICK o : o = job[p].out
      OBVIOUS
    <3>2. \A u \in Known(to) : u \in Outputs /\ OutputIs(u, o[u], b)
      BY <1>2, <2>4, <3>1 DEF Fits, Known, Outputs
    <3>3. \A u \in Known(to) : OutputIs(u, o[u], b)'
      BY <3>2, OutputIsStays
    <3>. QED  BY <2>1, <3>1, <3>3
  <2>8. \A u \in Written(to) : OutputIs(u, Main(u), b)'
    <3>1. ASSUME NEW u \in Written(to), u # t PROVE OutputIs(u, Main(u), b)'
      <4>1. u \in Outputs /\ OutputIs(u, Main(u), b)
        BY <1>2, <2>4, <3>1 DEF Fits, Written, Outputs
      <4>2. OutputIs(u, Main(u), b)' <=> OutputIs(u, Main(u), b)
        BY <2>2, <2>3, <3>1, <4>1 DEF OutputIs, Main
      <4>. QED  BY <4>1, <4>2
    <3>. QED  BY <2>5, <3>1
  <2>9. DOMAIN job[p].out = Known(to)
    BY <1>2 DEF Fits
  <2>10. to \in {"nodes", "edges"} => job[p].scaler = b
    BY <1>2, <2>4 DEF Fits
  <2>. QED  BY <2>1, <2>4, <2>6, <2>7, <2>8, <2>9, <2>10 DEF Fits, Fresh, Known, Written, OutputIs, Holds
<1>. QED  BY <1>1, <1>2, Zenon DEF Write

\* What is looked up is what was written: nobody else wrote in between.
LEMMA LookFits ==
  ASSUME Shape, Shape', Grown, NEW p \in Publishers, Fits(p), NEW from \in Fresh, NEW to \in Fresh,
         pc[p] = from, pc'[p] = to, hist' = hist, NEW t \in Written(from),
         Known(to) = Known(from) \cup {t}, Written(to) \subseteq Written(from),
         job'[p].pins = job[p].pins, job'[p].out = With(job[p].out, t, Main(t)),
         to \in {"nodes", "edges"} => job'[p].scaler = Build(p)
  PROVE  Fits(p)'
<1>1. PICK b : b = Build(p)
  OBVIOUS
<1>2. Build(p)' = b
  BY <1>1 DEF Build
<1>3. PICK o : o = With(job[p].out, t, Main(t))
  OBVIOUS
<1>4. /\ DOMAIN o = Known(to) /\ o[t] = Main(t)
      /\ \A u \in Known(from) : u # t => o[u] = job[p].out[u]
  BY <1>3 DEF With, Fits
<1>5. \A u, s : OutputIs(u, s, b) => OutputIs(u, s, b)'
  BY DEF OutputIs, Main
<1>6. \A u \in Written(from) : OutputIs(u, Main(u), b) /\ Main(u)' = Main(u)
  BY <1>1 DEF Fits, Main
<1>7. \A u \in Known(to) : OutputIs(u, o[u], b)'
  <2>1. \A u \in Known(to) : OutputIs(u, o[u], b)
    BY <1>1, <1>4, <1>6 DEF Fits
  <2>. QED  BY <1>5, <2>1
<1>8. \A u \in Written(to) : OutputIs(u, Main(u), b)'
  BY <1>6 DEF OutputIs, Main
<1>9. ~Holds(b)'
  <2>1. ~Holds(b)
    BY <1>1 DEF Fits
  <2>. QED  BY <2>1, ManifestSame
<1>10. job'[p].out = o
  BY <1>3
<1>11. pc'[p] \in Fresh /\ pc'[p] \notin {"tag", "complete"}
  BY DEF Fresh
<1>12. Known(pc[p])' = Known(to) /\ Written(pc[p])' = Written(to)
  BY DEF Known, Written
<1>. QED  BY <1>1, <1>2, <1>4, <1>7, <1>8, <1>9, <1>10, <1>11, <1>12 DEF Fits, Holds, OutputIs

LEMMA ReadScalerFits ==
  ASSUME Shape, Shape', Grown, NEW p \in Publishers, Fits(p), ReadScaler(p)
  PROVE  Fits(p)'
<1>1. pc[p] = "read_scaler" /\ hist' = hist /\ pc'[p] = "nodes"
  BY DEF ReadScaler, Goto, catalog, Shape, Working
<1>2. OutputIs(Scaler, Main(Scaler), Build(p))
  BY <1>1 DEF Fits, Fresh, Written
<1>3. /\ job'[p].out = With(job[p].out, Scaler, Main(Scaler))
      /\ job'[p].pins = job[p].pins /\ job'[p].scaler = Build(p)
  <2>1. job[p] \in Job /\ job \in [Publishers -> Job]
    BY DEF Shape, Working
  <2>2. PICK w, v : w = With(job[p].out, Scaler, Main(Scaler)) /\ v = hist[Scaler][Main(Scaler)].pins
                    /\ job' = [job EXCEPT ![p].out = w, ![p].scaler = v]
    BY DEF ReadScaler
  <2>3. job'[p].out = w /\ job'[p].pins = job[p].pins /\ job'[p].scaler = v
    BY <2>1, <2>2 DEF Job
  <2>. QED  BY <1>2, <2>2, <2>3 DEF OutputIs
<1>4. /\ "read_scaler" \in Fresh /\ "nodes" \in Fresh /\ Scaler \in Written("read_scaler")
      /\ Known("nodes") = Known("read_scaler") \cup {Scaler}
      /\ Written("nodes") \subseteq Written("read_scaler")
  BY DEF Fresh, Known, Written
<1>. QED  BY <1>1, <1>3, <1>4, LookFits

LEMMA ReadOutFits ==
  ASSUME Shape, Shape', Grown, NEW p \in Publishers, Fits(p), NEW from \in Fresh,
         NEW to \in Fresh \ {"nodes", "edges"}, NEW t \in Written(from), ReadOut(p, t, from, to),
         Known(to) = Known(from) \cup {t}, Written(to) \subseteq Written(from)
  PROVE  Fits(p)'
<1>1. pc[p] = from /\ hist' = hist /\ pc'[p] = to
  BY DEF ReadOut, Goto, catalog, Shape, Working
<1>2. job'[p].out = With(job[p].out, t, Main(t)) /\ job'[p].pins = job[p].pins
  <2>1. job[p] \in Job /\ job \in [Publishers -> Job]
    BY DEF Shape, Working
  <2>2. PICK w : w = With(job[p].out, t, Main(t)) /\ job' = [job EXCEPT ![p].out = w]
    BY DEF ReadOut
  <2>3. job'[p].out = w /\ job'[p].pins = job[p].pins
    BY <2>1, <2>2 DEF Job
  <2>. QED  BY <2>2, <2>3
<1>. QED  BY <1>1, <1>2, LookFits

\* The append lists the build once, with tables that belong together.
LEMMA AppendManifestFits ==
  ASSUME Shape, Shape', Grown, NEW p \in Publishers, Fits(p), AppendManifest(p),
         Once, AllWhole, Listed, finished' = finished
  PROVE  Fits(p)' /\ Once' /\ AllWhole' /\ Listed'
<1>. DEFINE e == [build |-> Build(p), rows |-> Rows(p), at |-> job[p].at]
            m == Main(Manifest)
<1>1. CASE Fail(p)
  BY <1>1, LeavesFits, BookSame DEF Fail, catalog
<1>2. CASE /\ pc[p] = "append" /\ Commit(Manifest, e)
           /\ job' = [job EXCEPT ![p].rows = Rows(p), ![p].todo = Rows(p)]
           /\ Goto(p, "tag")
  <2>1. job[p].pins \in Vectors /\ job[p].at \in Nat /\ Rows(p) \in SUBSET Pairs
        /\ job[p].out \in Partial(Outputs)
    BY <1>2, InMemory, RowsArePairs DEF Job
  <2>2. m \in Nat /\ Main(Manifest)' = m + 1 /\ hist'[Manifest][m + 1] = e
        /\ \A i \in 1..m : hist'[Manifest][i] = hist[Manifest][i]
    <3>1. e \in Entry
      BY <2>1 DEF Entry, Build
    <3>2. Manifest \in Tables /\ Manifest \notin Outputs /\ e \in Leaves
      BY <3>1, TableNames, Zenon DEF Leaves
    <3>. HIDE DEF e
    <3>. QED  BY <1>2, <3>1, <3>2, CommitGrows, InMemory DEF Shape, Grown
  <2>3. \A i \in 1..(m + 1) : i = m + 1 \/ i \in 1..m
    BY <2>2
  <2>4. PICK b : b = Build(p)
    OBVIOUS
  <2>5. ~Holds(b)
    BY <1>2, <2>4 DEF Fits, Fresh
  <2>6. e.build = b /\ e.rows = Rows(p)
    BY <2>4
  <2>. HIDE DEF e, m
  <2>7. \A i \in 1..m : hist[Manifest][i].build # b
    BY <2>5 DEF Holds, m
  <2>8. Once'
    <3>1. \A i, j \in 1..m : hist[Manifest][i].build = hist[Manifest][j].build => i = j
      BY DEF Once, m
    <3>2. \A i, j \in 1..(m + 1) : hist'[Manifest][i].build = hist'[Manifest][j].build => i = j
      BY <2>2, <2>3, <2>6, <2>7, <3>1
    <3>. QED  BY <2>2, <3>2 DEF Once
  <2>9. Whole(e)
    <3>. DEFINE f == [t \in Tables \ {Manifest} |-> IF t \in Inputs THEN job[p].pins[t] ELSE job[p].out[t]]
    <3>1. DOMAIN job[p].out = Outputs /\ \A t \in Outputs : OutputIs(t, job[p].out[t], b) /\ job[p].out[t] \in Snaps
      <4>1. DOMAIN job[p].out = Outputs /\ \A t \in Outputs : OutputIs(t, job[p].out[t], b)
        BY <1>2, <2>4 DEF Fits, Fresh, Known
      <4>. QED  BY <2>1, <4>1 DEF Partial
    <3>2. DOMAIN job[p].pins = Inputs /\ \A t \in Inputs : job[p].pins[t] \in Snaps
      BY <2>1 DEF Vectors
    <3>3. \A t \in Tables \ {Manifest} : (t \in Inputs /\ t \notin Outputs) \/ (t \in Outputs /\ t \notin Inputs)
      BY TableNames
    <3>4. f \in [Tables \ {Manifest} -> Snaps]
      BY <3>1, <3>2, <3>3
    <3>5. /\ \A t \in Inputs : f[t] = job[p].pins[t] /\ t \in Tables \ {Manifest}
          /\ \A t \in Outputs : f[t] = job[p].out[t] /\ t \in Tables \ {Manifest}
      BY <3>3, TableNames
    <3>. HIDE DEF f
    <3>6. DOMAIN f = Inputs \cup Outputs
      BY <3>3, <3>4, <3>5
    <3>7. Rows(p) = PairsOf(f)
      BY <3>1, <3>2, <3>5, <3>6 DEF Rows, PairsOf
    <3>8. \A t \in Inputs : f[t] = b[t]
      BY <2>4, <3>5 DEF Build
    <3>. QED  BY <2>6, <3>1, <3>4, <3>5, <3>7, <3>8, Zenon DEF Whole
  <2>10. AllWhole'
    <3>1. ASSUME NEW i \in 1..m PROVE \E x : x = hist'[Manifest][i] /\ Whole(x)'
      <4>1. PICK x : x = hist[Manifest][i]
        OBVIOUS
      <4>2. Whole(x)
        BY <4>1 DEF AllWhole, m
      <4>3. Whole(x)'
        BY <4>2, WholeStays
      <4>. QED  BY <2>2, <4>1, <4>3
    <3>2. \E x : x = hist'[Manifest][m + 1] /\ Whole(x)'
      <4>1. PICK x : x = e
        OBVIOUS
      <4>2. Whole(x)
        BY <2>9, <4>1
      <4>3. Whole(x)'
        BY <4>2, WholeStays
      <4>. QED  BY <2>2, <4>1, <4>3
    <3>3. \A i \in 1..(m + 1) : \E x : x = hist'[Manifest][i] /\ Whole(x)'
      BY <2>3, <3>1, <3>2
    <3>4. ASSUME NEW i \in 1..(m + 1)
          PROVE  \E f \in [Tables \ {Manifest} -> Snaps] :
                   /\ hist'[Manifest][i].rows = PairsOf(f)
                   /\ \A t \in Inputs : f[t] = hist'[Manifest][i].build[t]
                   /\ \A t \in Outputs : OutputIs(t, f[t], hist[Manifest][i].build)'
      <4>1. PICK x : x = hist'[Manifest][i] /\ Whole(x)'
        BY <3>3
      <4>2. PICK f \in [Tables \ {Manifest} -> Snaps] :
              /\ x.rows = PairsOf(f)
              /\ \A t \in Inputs : f[t] = x.build[t]
              /\ \A t \in Outputs : OutputIs(t, f[t], x.build)'
        BY <4>1, Zenon DEF Whole
      <4>3. \A t \in Outputs : OutputIs(t, f[t], hist[Manifest][i].build)'
        BY <4>1, <4>2 DEF OutputIs
      <4>. QED  BY <4>1, <4>2, <4>3
    <3>. QED  BY <2>2, <3>4, Zenon DEF AllWhole, Whole
  <2>11. PICK R : R = Rows(p)
    OBVIOUS
  <2>12. /\ Published(b)' = R
         /\ \A d : d # b /\ Holds(d) => Published(d)' = Published(d) /\ Holds(d)'
    <3>1. \A d : \A i \in 1..m : hist'[Manifest][i].build = d <=> hist[Manifest][i].build = d
      BY <2>2
    <3>2. {i \in 1..(m + 1) : hist'[Manifest][i].build = b} = {m + 1}
      BY <2>2, <2>3, <2>6, <2>7, <3>1
    <3>3. Published(b)' = R
      BY <2>2, <2>6, <2>11, <3>2 DEF Published
    <3>4. ASSUME NEW d, d # b, Holds(d) PROVE Published(d)' = Published(d) /\ Holds(d)'
      <4>1. {i \in 1..(m + 1) : hist'[Manifest][i].build = d} = {i \in 1..m : hist[Manifest][i].build = d}
        BY <2>2, <2>3, <2>6, <3>1, <3>4
      <4>. QED  BY <2>2, <3>4, <4>1 DEF Published, Holds, m
    <3>. QED  BY <3>3, <3>4
  <2>13. Fits(p)'
    <3>1. job'[p].rows = R /\ job'[p].pins = job[p].pins /\ pc'[p] = "tag"
      <4>1. job \in [Publishers -> Job] /\ pc \in [Publishers -> Labels]
        BY DEF Shape, Working
      <4>2. job' = [job EXCEPT ![p].rows = R, ![p].todo = R]
        BY <1>2, <2>11
      <4>. QED  BY <1>2, <4>1, <4>2 DEF Goto, Job
    <3>2. Build(p)' = b
      BY <2>4, <3>1 DEF Build
    <3>3. Published(Build(p))' = R
      BY <2>12, <3>2 DEF Published
    <3>. QED  BY <3>1, <3>3 DEF Fits, Fresh
  <2>14. Listed'
    <3>1. ASSUME NEW f \in finished PROVE f.rows = Published(f.build)' /\ Holds(f.build)'
      <4>1. PICK d : d = f.build
        OBVIOUS
      <4>2. f.rows = Published(d) /\ Holds(d) /\ d # b
        BY <2>5, <4>1 DEF Listed
      <4>. QED  BY <2>12, <4>1, <4>2
    <3>. QED  BY <3>1 DEF Listed
  <2>. QED  BY <2>8, <2>10, <2>13, <2>14
<1>. QED  BY <1>1, <1>2, Zenon DEF AppendManifest

LEMMA TagNextFits ==
  ASSUME IInv, Shape', Grown, NEW p \in Publishers, Fits(p), TagNext(p), Once, AllWhole, Listed
  PROVE  Fits(p)' /\ Once' /\ AllWhole' /\ Listed'
<1>1. hist' = hist /\ finished' = finished
  BY Zenon DEF TagNext, Fail, catalog, history
<1>2. Once' /\ AllWhole' /\ Listed'
  BY <1>1, BookSame DEF IInv
<1>3. CASE Fail(p)
  BY <1>2, <1>3, LeavesFits DEF Fail, IInv
<1>4. ASSUME NEW r, job' = [job EXCEPT ![p].todo = @ \ {r}], pc' = pc, pc[p] \in {"tag", "complete"}
      PROVE  Fits(p)'
  <2>1. job'[p].rows = job[p].rows /\ job'[p].pins = job[p].pins
    <3>1. job \in [Publishers -> Job]
      BY DEF IInv, Shape, Working
    <3>. QED  BY <1>4, <3>1 DEF Job
  <2>2. PICK b : b = Build(p)
    OBVIOUS
  <2>3. Build(p)' = b
    BY <2>1, <2>2 DEF Build
  <2>4. Published(b)' = Published(b) /\ job[p].rows = Published(b)
    BY <1>1, <1>4, <2>2, ManifestSame DEF Fits
  <2>5. Published(Build(p))' = job[p].rows
    BY <2>3, <2>4 DEF Published
  <2>. QED  BY <1>4, <2>1, <2>5 DEF Fits, Fresh
<1>. QED  BY <1>2, <1>3, <1>4, Zenon DEF TagNext

\* A run that exits 0 has what the manifest lists for its build.
LEMMA TagManifestFits ==
  ASSUME IInv, Shape', Grown, NEW p \in Publishers, Fits(p), TagManifest(p), Once, AllWhole, Listed
  PROVE  Fits(p)' /\ Once' /\ AllWhole' /\ Listed'
<1>1. hist' = hist /\ pc[p] \in {"tag", "complete"}
  BY Zenon DEF TagManifest, Fail, catalog
<1>2. CASE Fail(p)
  BY <1>2, LeavesFits, BookSame DEF Fail, IInv, catalog, history
<1>3. CASE Succeed(p)
  <2>1. Fits(p)'
    BY <1>3, LeavesFits DEF Succeed, IInv
  <2>2. Once' /\ AllWhole'
    <3>1. Main(Manifest)' = Main(Manifest)
      BY <1>1 DEF Main
    <3>2. AllWhole'
      BY <1>1, <3>1 DEF AllWhole, Whole, OutputIs, Main
    <3>. QED  BY <1>1, <3>2, ManifestSame
  <2>3. PICK b : b = Build(p)
    OBVIOUS
  <2>4. job[p].rows = Published(b) /\ Holds(b)
    BY <1>1, <2>3 DEF Fits, IInv, Honest
  <2>5. finished' = finished \cup {[build |-> b, rows |-> job[p].rows]}
    BY <1>3, <2>3 DEF Succeed
  <2>6. ASSUME NEW f \in finished' PROVE f.rows = Published(f.build)' /\ Holds(f.build)'
    <3>1. PICK d : d = f.build
      OBVIOUS
    <3>2. f.rows = Published(d) /\ Holds(d)
      BY <2>4, <2>5, <3>1 DEF Listed
    <3>. QED  BY <1>1, <3>1, <3>2, ManifestSame
  <2>. QED  BY <2>1, <2>2, <2>6 DEF Listed
<1>. QED  BY <1>2, <1>3, Zenon DEF TagManifest

\* What a step of the publisher under way does to the books.
Fitted(p) == Fits(p)' /\ Once' /\ AllWhole' /\ Listed'

LEMMA WriteFitted ==
  ASSUME Shape, Shape', Grown, Once, AllWhole, Listed, NEW p \in Publishers, Fits(p), NEW t \in Outputs,
         NEW from \in Fresh, NEW to \in Fresh, Write(p, t, from, to),
         Known(to) = Known(from), Written(to) \subseteq Written(from) \cup {t}, t \notin Known(from),
         t = Edges => from = "edges", to \in {"nodes", "edges"} => from \in {"nodes", "edges"}
  PROVE  Fitted(p)
<1>1. finished' = finished
  BY Zenon DEF Write, Fail, history
<1>2. hist'[Manifest] = hist[Manifest]
  <2>1. t # Manifest /\ Manifest \in Tables
    BY TableNames
  <2>. QED  BY <2>1 DEF Write, Fail, Commit, catalog, Shape, Book
<1>. QED  BY <1>1, <1>2, WriteFits, BookSame DEF Fitted

LEMMA PublishFits ==
  ASSUME IInv, Shape', Grown, Once, AllWhole, Listed, NEW p \in Publishers, Fits(p), Publish(p)
  PROVE  Fitted(p)
<1>1. ASSUME hist' = hist, finished' = finished, Fits(p)'
      PROVE  Fitted(p)
  BY <1>1, BookSame DEF Fitted, IInv
<1>2. CASE Start(p)
  BY <1>1, <1>2, StartFits DEF Start, catalog, IInv
<1>3. CASE PinInput(p)
  <2>1. hist' = hist /\ finished' = finished
    BY <1>3, Zenon DEF PinInput, Fail, catalog, history
  <2>. QED  BY <1>1, <1>3, <2>1, PinInputFits DEF IInv
<1>4. CASE LookManifest(p)
  BY <1>1, <1>4, LookManifestFits DEF LookManifest, catalog, history, IInv
<1>5. CASE WriteScaler(p)
  <2>1. Write(p, Scaler, "fit", "read_scaler") /\ {"fit", "read_scaler"} \subseteq Fresh
    BY <1>5 DEF WriteScaler, Fresh
  <2>2. /\ Known("fit") = {} /\ Known("read_scaler") = {}
        /\ Written("read_scaler") = {Scaler}
    BY DEF Known, Written
  <2>. QED  BY <2>1, <2>2, TableNames, WriteFitted DEF IInv
<1>6. CASE ReadScaler(p)
  BY <1>1, <1>6, ReadScalerFits DEF ReadScaler, catalog, history, IInv
<1>7. CASE WriteNodes(p)
  <2>1. Write(p, Nodes, "nodes", "edges") /\ {"nodes", "edges"} \subseteq Fresh
    BY <1>7 DEF WriteNodes, Fresh
  <2>2. /\ Known("nodes") = {Scaler} /\ Known("edges") = {Scaler}
        /\ Written("edges") = {Nodes}
    BY DEF Known, Written
  <2>. QED  BY <2>1, <2>2, TableNames, WriteFitted DEF IInv
<1>8. CASE WriteEdges(p)
  <2>1. Write(p, Edges, "edges", "read_nodes") /\ {"edges", "read_nodes"} \subseteq Fresh
    BY <1>8 DEF WriteEdges, Fresh
  <2>2. /\ Known("edges") = {Scaler} /\ Known("read_nodes") = {Scaler}
        /\ Written("edges") = {Nodes} /\ Written("read_nodes") = {Nodes, Edges}
    BY DEF Known, Written
  <2>. QED  BY <2>1, <2>2, TableNames, WriteFitted DEF IInv
<1>9. CASE ReadNodes(p)
  <2>1. ReadOut(p, Nodes, "read_nodes", "read_edges") /\ {"read_nodes", "read_edges"} \subseteq Fresh
    BY <1>9 DEF ReadNodes, Fresh
  <2>2. /\ Known("read_nodes") = {Scaler} /\ Known("read_edges") = {Scaler, Nodes}
        /\ Written("read_nodes") = {Nodes, Edges} /\ Written("read_edges") = {Edges}
    BY DEF Known, Written
  <2>3. Fits(p)'
    BY <2>1, <2>2, ReadOutFits DEF IInv
  <2>. QED  BY <1>1, <2>1, <2>3 DEF ReadOut, catalog, history
<1>10. CASE ReadEdges(p)
  <2>1. ReadOut(p, Edges, "read_edges", "append") /\ {"read_edges", "append"} \subseteq Fresh
    BY <1>10 DEF ReadEdges, Fresh
  <2>2. /\ Known("read_edges") = {Scaler, Nodes} /\ Known("append") = {Scaler, Nodes} \cup {Edges}
        /\ Written("read_edges") = {Edges} /\ Written("append") = {}
    BY DEF Known, Written, Outputs
  <2>3. Fits(p)'
    BY <2>1, <2>2, ReadOutFits DEF IInv
  <2>. QED  BY <1>1, <2>1, <2>3 DEF ReadOut, catalog, history
<1>11. CASE AppendManifest(p)
  <2>1. finished' = finished
    BY <1>11, Zenon DEF AppendManifest, Fail, history
  <2>. QED  BY <1>11, <2>1, AppendManifestFits DEF IInv, Fitted
<1>12. CASE TagNext(p)
  BY <1>12, TagNextFits DEF Fitted
<1>13. CASE TagManifest(p)
  BY <1>13, TagManifestFits DEF Fitted
<1>. QED  BY <1>2, <1>3, <1>4, <1>5, <1>6, <1>7, <1>8, <1>9, <1>10, <1>11, <1>12, <1>13 DEF Publish

\* A publisher that starts beside another one is an overlap, and only a start is.
LEMMA OverlapGrows ==
  ASSUME NEW p \in Publishers, Publish(p)
  PROVE  \/ overlap' = overlap /\ ~Start(p) /\ pc[p] # "idle"
         \/ Start(p) /\ pc[p] = "idle" /\ overlap' = (overlap \/ \E q \in Publishers : pc[q] # "idle")
<1>1. CASE Start(p)
  BY <1>1 DEF Start
<1>2. ASSUME ~Start(p) PROVE overlap' = overlap /\ pc[p] # "idle"
  <2>1. ASSUME NEW t, NEW from, NEW to, from # "idle", Write(p, t, from, to)
        PROVE  overlap' = overlap /\ pc[p] # "idle"
    BY <2>1, Zenon DEF Write, Fail, history
  <2>2. ASSUME NEW t, NEW from, NEW to, from # "idle", ReadOut(p, t, from, to)
        PROVE  overlap' = overlap /\ pc[p] # "idle"
    BY <2>2, Zenon DEF ReadOut, history
  <2>3. CASE PinInput(p)
    BY <2>3, Zenon DEF PinInput, Fail, history
  <2>4. CASE LookManifest(p)
    BY <2>4, Zenon DEF LookManifest, history
  <2>5. CASE ReadScaler(p)
    BY <2>5, Zenon DEF ReadScaler, history
  <2>6. CASE AppendManifest(p)
    BY <2>6, Zenon DEF AppendManifest, Fail, history
  <2>7. CASE TagNext(p) \/ TagManifest(p)
    <3>1. pc[p] \in {"tag", "complete"} /\ overlap' = overlap
      BY <2>7, Zenon DEF TagNext, TagManifest, Fail, history
    <3>. QED  BY <3>1
  <2>8. CASE WriteScaler(p) \/ WriteNodes(p) \/ WriteEdges(p)
    <3>. QED  BY <2>1, <2>8, "fit" # "idle", "nodes" # "idle", "edges" # "idle", Zenon
              DEF WriteScaler, WriteNodes, WriteEdges
  <2>9. CASE ReadNodes(p) \/ ReadEdges(p)
    BY <2>2, <2>9, "read_nodes" # "idle", "read_edges" # "idle", Zenon DEF ReadNodes, ReadEdges
  <2>. QED  BY <1>2, <2>3, <2>4, <2>5, <2>6, <2>7, <2>8, <2>9, Zenon DEF Publish
<1>. QED  BY <1>1, <1>2, Zenon

-----------------------------------------------------------------------------
(* Expiry, and the invariant as a whole. *)

\* What is tagged was there when the tag was put, and expiry spares it from then on.
LEMMA StandingStays ==
  ASSUME IInv, Standing, [Next]_vars
  PROVE  Standing'
<1>1. ASSUME NEW p \in Publishers, Publish(p)
      PROVE  expired' = expired /\ \A x \in tags' \ tags : <<x[1], x[3]>> \notin expired
  <2>1. ASSUME NEW t, NEW b, NEW s, EnsureTag(t, b, s)
        PROVE  \A x \in tags' \ tags : <<x[1], x[3]>> \notin expired
    <3>1. tags' = tags \/ (tags' = tags \cup {<<t, b, s>>} /\ <<t, s>> \notin expired)
      BY <2>1, EnsureTagFacts, Zenon DEF Alive
    <3>. QED  BY <3>1
  <2>2. CASE TagNext(p)
    BY <2>1, <2>2, Zenon DEF TagNext, Fail, catalog
  <2>3. CASE TagManifest(p)
    BY <2>1, <2>3, Zenon DEF TagManifest, Fail, catalog
  <2>4. CASE Start(p) \/ PinInput(p) \/ LookManifest(p) \/ ReadScaler(p)
    BY <2>4, Zenon DEF Start, PinInput, LookManifest, ReadScaler, Fail, catalog
  <2>5. CASE WriteScaler(p) \/ WriteNodes(p) \/ WriteEdges(p) \/ ReadNodes(p) \/ ReadEdges(p)
    BY <2>5, Zenon DEF WriteScaler, WriteNodes, WriteEdges, ReadNodes, ReadEdges, Write, ReadOut, Fail, catalog
  <2>6. CASE AppendManifest(p)
    BY <2>6, Zenon DEF AppendManifest, Fail, catalog
  <2>. QED  BY <1>1, <2>2, <2>3, <2>4, <2>5, <2>6, Zenon DEF Publish
<1>2. CASE \E t \in Inputs \cup Outputs : \E s \in 1..Main(t) : Expire(t, s)
  <2>0. PICK t \in Inputs \cup Outputs : \E s \in 1..Main(t) : Expire(t, s)
    BY <1>2
  <2>1. PICK s \in 1..Main(t) : Expire(t, s)
    BY <2>0
  <2>2. expired' = expired \cup {<<t, s>>} /\ tags' = tags /\ ~Tagged(t, s) /\ t # Manifest
    BY <2>1, TableNames DEF Expire
  <2>3. \A x \in tags : <<x[1], x[3]>> # <<t, s>>
    BY <2>2 DEF Tagged
  <2>. QED  BY <2>2, <2>3 DEF Standing
<1>3. CASE (\E p \in Publishers : Crash(p)) \/ (\E t \in Inputs : Upstream(t)) \/ UNCHANGED vars
  BY <1>3, Zenon DEF Crash, Upstream, vars, catalog, Standing
<1>4. ASSUME NEW p \in Publishers, Publish(p) PROVE Standing'
  BY <1>1, <1>4, Zenon DEF Standing
<1>. QED  BY <1>2, <1>3, <1>4, Zenon DEF Next, Surroundings

LEMMA AloneFits ==
  ASSUME IInv, Shape', Grown, QInv, ~overlap', NEW p \in Publishers, Publish(p), ~overlap
  PROVE  QInv'
<1>1. Fitted(p)
  BY PublishFits DEF QInv
<1>2. \A q \in Publishers : q # p => pc[q] = "idle"
  BY OverlapGrows DEF QInv, Alone
<1>3. \A q \in Publishers : q # p => pc'[q] = "idle"
  BY <1>2, OthersStay DEF IInv
<1>4. \A q \in Publishers : Fits(q)'
  BY <1>1, <1>3, IdleFits DEF Fitted
<1>5. Alone'
  BY <1>3 DEF Alone
<1>. QED  BY <1>1, <1>4, <1>5 DEF QInv, Fitted

LEMMA SurroundingsFit ==
  ASSUME IInv, Shape', Grown, QInv, Surroundings
  PROVE  QInv'
<1>1. CASE \E p \in Publishers : Crash(p)
  <2>1. PICK p \in Publishers : Crash(p)
    BY <1>1
  <2>2. Leave(p) /\ hist' = hist /\ finished' = finished
    BY <2>1 DEF Crash, catalog, history
  <2>3. pc'[p] = "idle" /\ \A q \in Publishers : q # p => job'[q] = job[q] /\ pc'[q] = pc[q]
    BY <2>1, <2>2, OthersStay DEF IInv, Shape, Working, Leave, Goto
  <2>4. \A q \in Publishers : Fits(q)'
    BY <2>2, <2>3, IdleFits, FitsStays DEF IInv, QInv
  <2>5. Alone'
    BY <2>3 DEF QInv, Alone
  <2>. QED  BY <2>2, <2>4, <2>5, BookSame DEF IInv, QInv
<1>2. CASE ~(\E p \in Publishers : Crash(p))
  <2>1. /\ pc' = pc /\ job' = job /\ finished' = finished
        /\ hist' = hist \/ \E t \in Inputs : Commit(t, None)
    BY <1>2, Zenon DEF Surroundings, Upstream, Expire, history
  <2>2. hist'[Manifest] = hist[Manifest] /\ \A t \in Outputs : hist'[t] = hist[t]
    BY <2>1, TableNames DEF Commit, IInv, Shape, Book
  <2>3. \A q \in Publishers : Fits(q)'
    BY <2>1, <2>2, FitsStays DEF IInv, QInv
  <2>4. Alone'
    BY <2>1 DEF QInv, Alone
  <2>. QED  BY <2>1, <2>2, <2>3, <2>4, BookSame DEF IInv, QInv
<1>. QED  BY <1>1, <1>2

LEMMA NextKeepsJInv ==
  ASSUME JInv, [Next]_vars
  PROVE  JInv'
<1>1. IInv' /\ Shape' /\ Grown /\ Standing'
  BY NextKeepsIInv, NextKeepsShape, StandingStays DEF JInv, IInv
<1>2. ASSUME NEW p \in Publishers, Publish(p), ~overlap' PROVE QInv'
  <2>1. ~overlap
    BY <1>2, OverlapGrows
  <2>. QED  BY <1>1, <1>2, <2>1, AloneFits DEF JInv
<1>3. ASSUME Surroundings, ~overlap' PROVE QInv'
  <2>1. overlap' = overlap
    BY <1>3, Zenon DEF Surroundings, Crash, Upstream, Expire, history
  <2>. QED  BY <1>1, <1>3, <2>1, SurroundingsFit DEF JInv
<1>4. ASSUME UNCHANGED vars, ~overlap' PROVE QInv'
  <2>1. /\ hist' = hist /\ finished' = finished /\ job' = job /\ pc' = pc /\ overlap' = overlap
    BY <1>4 DEF vars
  <2>2. QInv
    BY <1>4, <2>1 DEF JInv
  <2>3. \A q \in Publishers : Fits(q)'
    BY <1>1, <2>1, <2>2, FitsStays DEF JInv, IInv, QInv
  <2>4. Alone'
    BY <2>1, <2>2 DEF QInv, Alone
  <2>. QED  BY <1>1, <2>1, <2>2, <2>3, <2>4, BookSame DEF JInv, IInv, QInv
<1>. QED  BY <1>1, <1>2, <1>3, <1>4 DEF JInv, Next

LEMMA InitJInv ==
  ASSUME Init
  PROVE  JInv
<1>1. Main(Manifest) = 0 /\ hist[Manifest] = <<>>
  BY TableNames DEF Init, Main
<1>2. \A p \in Publishers : pc[p] = "idle"
  BY DEF Init
<1>3. \A p \in Publishers : Fits(p)
  BY <1>2 DEF Fits, Fresh
<1>4. Once /\ AllWhole /\ Alone /\ Listed
  BY <1>1, <1>2 DEF Once, AllWhole, Alone, Listed, Init
<1>5. Standing
  BY DEF Standing, Init
<1>. QED  BY <1>3, <1>4, <1>5, InitIInv DEF JInv, QInv

\* The invariant gives what a reader asks for.
LEMMA JInvIsReadable ==
  ASSUME JInv, FinishedIsTagged, ~overlap, NEW f \in finished
  PROVE  Readable(f.build)
<1>. DEFINE b == f.build
            Data1 == Tables \ {Manifest}
            Named3 == UNION {{x[3]} : x \in tags}
<1>1. IInv /\ Standing /\ Once /\ AllWhole /\ Listed
  BY DEF JInv, QInv
<1>2. PICK i \in 1..Main(Manifest) : hist[Manifest][i].build = b
  BY <1>1 DEF Listed, Holds
<1>3. {j \in 1..Main(Manifest) : hist[Manifest][j].build = b} = {i}
  BY <1>1, <1>2 DEF Once
<1>4. PICK g \in [Data1 -> Snaps] : /\ hist[Manifest][i].rows = PairsOf(g)
                                    /\ \A t \in Outputs : OutputIs(t, g[t], b)
  BY <1>1, <1>2, Zenon DEF AllWhole, Whole
<1>5. Published(b) = PairsOf(g)
  BY <1>3, <1>4 DEF Published
<1>6. \A t \in Data1 : <<t, g[t]>> \in f.rows
  BY <1>1, <1>5 DEF Listed, PairsOf
<1>7. \A t \in Data1 : Target(t, b) = {g[t]}
  <2>1. \A r \in f.rows : Target(r[1], b) = {r[2]}
    BY DEF FinishedIsTagged
  <2>. QED  BY <1>6, <2>1
<1>8. \A t \in Data1 : <<t, b, g[t]>> \in tags
  <2>1. \A t : \A s \in Target(t, b) : \E y \in tags : y[1] = t /\ y[2] = b /\ y[3] = s
    BY DEF Target
  <2>2. \A y \in tags : y = <<y[1], y[2], y[3]>>
    BY <1>1 DEF IInv, Named
  <2>. QED  BY <1>7, <2>1, <2>2
<1>. HIDE DEF b, Data1, Named3
<1>9. g \in [Data1 -> Named3] /\ \A t \in Data1 : g[t] \in Target(t, b)
  <2>1. \A t \in Data1 : g[t] \in Named3
    <3>1. \A x \in tags : x[3] \in {x[3]} /\ {x[3]} \in {{y[3]} : y \in tags}
      OBVIOUS
    <3>2. ASSUME NEW t \in Data1 PROVE \E x \in tags : x[3] = g[t]
      BY <1>8
    <3>. QED  BY <3>1, <3>2, Zenon DEF Named3
  <2>. QED  BY <1>4, <1>7, <2>1
<1>. DEFINE at == CHOOSE h \in [Data1 -> Named3] : \A t \in Data1 : h[t] \in Target(t, b)
<1>10. at = g
  <2>1. at \in [Data1 -> Named3] /\ \A t \in Data1 : at[t] \in Target(t, b)
    BY <1>9
  <2>. HIDE DEF at
  <2>. QED  BY <1>7, <1>9, <2>1
<1>11. \A x \in tags : Committed(<<x[1], x[3]>>) /\ <<x[1], x[3]>> \notin expired
  BY <1>1, Zenon DEF IInv, Named, Standing
<1>12. ASSUME NEW t \in Data1 PROVE \E s \in Target(t, b) : Target(t, b) = {s} /\ Alive(t, s)
  <2>1. Committed(<<t, g[t]>>) /\ <<t, g[t]>> \notin expired
    BY <1>8, <1>11
  <2>2. Alive(t, g[t])
    BY <2>1 DEF Committed, Alive
  <2>. QED  BY <1>7, <2>2
<1>13. \E s \in Target(Manifest, b) : Target(Manifest, b) = {s} /\ Alive(Manifest, s)
  <2>1. PICK x \in tags : x[1] = Manifest /\ x[2] = b
    BY DEF FinishedIsTagged, Target, b
  <2>2. Target(Manifest, b) = {x[3]}
    BY <1>1, <2>1 DEF Target, IInv, OneTarget
  <2>3. Committed(<<Manifest, x[3]>>) /\ <<Manifest, x[3]>> \notin expired
    BY <1>11, <2>1
  <2>4. Alive(Manifest, x[3])
    BY <2>3 DEF Committed, Alive
  <2>. QED  BY <2>2, <2>4
<1>14. \A t \in Tables : \E s \in Target(t, b) : Target(t, b) = {s} /\ Alive(t, s)
  BY <1>12, <1>13 DEF Data1
<1>15. Cardinality({j \in 1..Main(Manifest) : hist[Manifest][j].build = b}) = 1
  BY <1>3, FS_Singleton
<1>16. (\A t \in Outputs : hist[t][g[t]].pins = b) /\ hist[Edges][g[Edges]].scaler = b
  BY <1>4, TableNames DEF OutputIs
<1>. HIDE DEF at
<1>17. /\ \A t \in Tables : \E s \in Target(t, b) : Target(t, b) = {s} /\ Alive(t, s)
       /\ Published(b) = PairsOf(at)
       /\ Cardinality({j \in 1..Main(Manifest) : hist[Manifest][j].build = b}) = 1
       /\ \A t \in Outputs : hist[t][at[t]].pins = b
       /\ hist[Edges][at[Edges]].scaler = b
  BY <1>5, <1>10, <1>14, <1>15, <1>16, Zenon
<1>. QED  BY <1>17, Zenon DEF Readable, at, Data1, Named3, b

\* Where no two runs overlap, what a run that exits 0 has published is listed once, tagged everywhere as
\* listed, spared by expiry and computed from its own inputs, now and ever after, for every number of
\* publishers, of input tables, of crashes, upstream commits and expired snapshots.
THEOREM FinishedStaysReadable == Spec => []FinishedIsReadable
<1>1. Init => JInv
  BY InitJInv
<1>2. JInv /\ [Next]_vars => JInv'
  BY NextKeepsJInv
<1>3. JInv /\ FinishedIsTagged => FinishedIsReadable
  BY JInvIsReadable DEF FinishedIsReadable
<1>. QED  BY <1>1, <1>2, <1>3, FinishedStaysTagged, PTL DEF Spec

=============================================================================

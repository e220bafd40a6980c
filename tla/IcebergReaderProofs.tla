-------------------------- MODULE IcebergReaderProofs --------------------------
(***************************************************************************)
(* What a reader may rely on for every number of readers, publishers and   *)
(* tables, whatever is done to the tags by hand.  Nothing here rests on    *)
(* where a tag points: a tag that was moved is refused or harmless.        *)
(***************************************************************************)
EXTENDS IcebergReader, GraphPublishProofs

\* The rows name each input at the snapshot the build was computed from.
Faithful(rows, b) == \A x \in rows : x[1] \in Inputs => x[2] = b[x[1]]
\* What was read of the inputs is what the build was computed from.
Agrees(data, b) == \A t \in DOMAIN data \cap Inputs : data[t] = b[t]

EntriesFaithful ==
  \A i \in 1..Main(Manifest) : Faithful(hist[Manifest][i].rows, hist[Manifest][i].build)

BuiltAgree ==
  \A b \in built : /\ b.tag \in Vectors /\ InputsRead(b.data) = b.tag
                   /\ \A t \in {Nodes, Edges} : b.data[t].pins = b.tag

Reading(r) ==
  rd[r].at # "idle" =>
    /\ rd[r].tag \in Vectors
    /\ Faithful(rd[r].rows, rd[r].tag) /\ Agrees(rd[r].data, rd[r].tag)
    /\ rd[r].of # None => rd[r].of \in built /\ rd[r].of.tag = rd[r].tag

Reads   == UNION {[D -> Leaves \cup Snaps] : D \in SUBSET Tables}
ReadJob == [at : {"idle", "resolve", "read"}, tag : Vectors \cup {None}, rows : SUBSET Pairs,
            data : Reads, of : built \cup {None}]
RdShape == rd \in [Readers -> ReadJob]

RInv == /\ Shape /\ EntriesFaithful /\ BuiltAgree /\ VerifiedIsTheSame
        /\ RdShape /\ \A r \in Readers : Reading(r)

-----------------------------------------------------------------------------
(* The publishers' side. *)

LEMMA RowsFaithful ==
  ASSUME Shape, NEW p \in Publishers
  PROVE  Faithful(Rows(p), Build(p))
<1>1. job[p].pins \in Partial(Inputs) /\ job[p].out \in Partial(Outputs)
  BY InMemory DEF Job
<1>2. DOMAIN job[p].out \subseteq Outputs
  BY <1>1 DEF Partial
<1>3. ASSUME NEW x \in PairsOf(job[p].pins) PROVE x[2] = job[p].pins[x[1]]
  BY <1>3 DEF PairsOf
<1>4. ASSUME NEW x \in PairsOf(job[p].out) PROVE x[1] \notin Inputs
  <2>1. x[1] \in Outputs
    BY <1>2, <1>4 DEF PairsOf
  <2>. QED  BY <2>1, TableNames
<1>. QED  BY <1>3, <1>4, Zenon DEF Faithful, Rows, Build

LEMMA SameEntries ==
  ASSUME EntriesFaithful, hist'[Manifest] = hist[Manifest]
  PROVE  EntriesFaithful'
<1>1. Main(Manifest)' = Main(Manifest)
  BY DEF Main
<1>. QED  BY <1>1, Zenon DEF EntriesFaithful

LEMMA AppendedFaithful ==
  ASSUME Shape, EntriesFaithful, NEW p \in Publishers, AppendManifest(p)
  PROVE  EntriesFaithful'
<1>1. CASE Fail(p)
  BY <1>1, SameEntries DEF Fail, catalog
<1>. DEFINE e == [build |-> Build(p), rows |-> Rows(p), at |-> job[p].at]
            m == Main(Manifest)
<1>2. CASE pc[p] = "append" /\ Commit(Manifest, e)
  <2>1. /\ m \in Nat /\ Main(Manifest)' = m + 1 /\ hist'[Manifest][m + 1] = e
        /\ \A i \in 1..m : hist'[Manifest][i] = hist[Manifest][i]
    <3>1. job[p].pins \in Vectors /\ job[p].at \in Nat /\ Rows(p) \in SUBSET Pairs
      BY <1>2, InMemory, RowsArePairs DEF Job
    <3>2. e \in Entry
      BY <3>1 DEF Entry, Build
    <3>3. Manifest \in Tables /\ Manifest \notin Outputs /\ e \in Leaves
      BY <3>2, TableNames, Zenon DEF Leaves
    <3>. HIDE DEF e
    <3>. QED  BY <1>2, <3>2, <3>3, CommitGrows, InMemory DEF Shape, Grown
  <2>2. Faithful(hist'[Manifest][m + 1].rows, hist'[Manifest][m + 1].build)
    BY <2>1, RowsFaithful
  <2>3. 1..(m + 1) = 1..m \cup {m + 1}
    BY <2>1
  <2>4. \A i \in 1..m : Faithful(hist'[Manifest][i].rows, hist'[Manifest][i].build)
    BY <2>1 DEF EntriesFaithful
  <2>5. \A i \in 1..Main(Manifest)' : Faithful(hist'[Manifest][i].rows, hist'[Manifest][i].build)
    <3>. HIDE DEF m
    <3>. QED  BY <2>1, <2>2, <2>3, <2>4
  <2>. QED  BY <2>5, Zenon DEF EntriesFaithful, Faithful
<1>. QED  BY <1>1, <1>2, Zenon DEF AppendManifest

\* Only an append touches the manifest.
LEMMA ManifestStays ==
  ASSUME Shape, [Next]_vars, \A p \in Publishers : ~AppendManifest(p)
  PROVE  hist'[Manifest] = hist[Manifest]
<1>1. ASSUME NEW t \in Tables \ {Manifest}, NEW d, Commit(t, d) PROVE hist'[Manifest] = hist[Manifest]
  BY <1>1, TableNames DEF Commit, Shape, Book
<1>2. ASSUME NEW p \in Publishers, NEW t \in Outputs, NEW from, NEW to, Write(p, t, from, to)
      PROVE  hist'[Manifest] = hist[Manifest]
  <2>1. t \in Tables \ {Manifest}
    BY TableNames
  <2>. QED  BY <1>1, <1>2, <2>1 DEF Write, Fail, catalog
<1>3. ASSUME NEW p \in Publishers, Publish(p) PROVE hist'[Manifest] = hist[Manifest]
  BY <1>2, <1>3, TableNames
     DEF Publish, Start, PinInput, LookManifest, WriteScaler, ReadScaler, WriteNodes, WriteEdges,
         ReadNodes, ReadEdges, ReadOut, TagNext, TagManifest, Fail, catalog
<1>4. ASSUME NEW t \in Inputs, Upstream(t) PROVE hist'[Manifest] = hist[Manifest]
  BY <1>1, <1>4, TableNames DEF Upstream
<1>5. CASE Surroundings
  BY <1>4, <1>5 DEF Surroundings, Crash, Expire, catalog
<1>6. CASE UNCHANGED vars
  BY <1>6 DEF vars
<1>. QED  BY <1>3, <1>5, <1>6 DEF Next

LEMMA EntriesStayFaithful ==
  ASSUME Shape, EntriesFaithful, [Next]_vars
  PROVE  EntriesFaithful'
BY AppendedFaithful, ManifestStays, SameEntries

-----------------------------------------------------------------------------
(* The reader's side: a reader that goes on holds what its tag is about. *)

\* One reader's record changes, the builds and the publishers stay.
LEMMA ReaderMoves ==
  ASSUME RInv, UNCHANGED vars, NEW r \in Readers, built' = built, verified' = verified,
         NEW v \in ReadJob, rd' = [rd EXCEPT ![r] = v],
         v.at # "idle" => /\ v.tag \in Vectors /\ Faithful(v.rows, v.tag) /\ Agrees(v.data, v.tag)
                          /\ v.of # None => v.of \in built /\ v.of.tag = v.tag
  PROVE  RInv'
<1>1. hist' = hist /\ now' = now /\ pc' = pc /\ job' = job
  BY DEF vars
<1>2. Shape' /\ EntriesFaithful'
  BY <1>1, SameEntries, Zenon DEF RInv, Shape, Book, Working, Main
<1>3. BuiltAgree' /\ VerifiedIsTheSame'
  BY Zenon DEF RInv, BuiltAgree, VerifiedIsTheSame, InputsRead
<1>4. rd'[r] = v /\ (\A q \in Readers : q # r => rd'[q] = rd[q]) /\ rd' \in [Readers -> ReadJob]
  BY DEF RInv, RdShape
<1>5. RdShape'
  <2>1. ReadJob' = ReadJob
    BY DEF ReadJob
  <2>. QED  BY <1>4, <2>1 DEF RdShape
<1>6. ASSUME NEW q \in Readers PROVE Reading(q)'
  <2>1. CASE q = r
    BY <1>4, <2>1 DEF Reading, Faithful, Agrees
  <2>2. CASE q # r
    <3>1. Reading(q) /\ rd'[q] = rd[q]
      BY <1>4, <2>2 DEF RInv
    <3>. QED  BY <3>1 DEF Reading, Faithful, Agrees
  <2>. QED  BY <2>1, <2>2
<1>. QED  BY <1>2, <1>3, <1>5, <1>6 DEF RInv

LEMMA NoReadIsRead == NoRead \in ReadJob /\ NoRead.at = "idle"
<1>1. <<>> \in Reads
  <2>1. <<>> \in [{} -> Leaves \cup Snaps]
    OBVIOUS
  <2>. QED  BY <2>1, Zenon DEF Reads
<1>. QED  BY <1>1 DEF NoRead, ReadJob

LEMMA StopKeeps ==
  ASSUME RInv, UNCHANGED vars, NEW r \in Readers, Unavailable(r)
  PROVE  RInv'
<1>1. rd' = [rd EXCEPT ![r] = NoRead] /\ built' = built /\ verified' = verified
  BY DEF Unavailable, Stop
<1>. QED  BY <1>1, NoReadIsRead, ReaderMoves

LEMMA BeginKeeps ==
  ASSUME RInv, UNCHANGED vars, NEW r \in Readers, NEW tag \in Vectors, NEW of \in built \cup {None},
         of # None => of.tag = tag, Begin(r, tag, of)
  PROVE  RInv'
<1>1. PICK v : v = [NoRead EXCEPT !.at = "resolve", !.tag = tag, !.of = of]
  OBVIOUS
<1>2. /\ v \in ReadJob /\ v.tag = tag /\ v.of = of /\ v.rows = {} /\ v.data = <<>>
  BY <1>1, NoReadIsRead DEF ReadJob, NoRead
<1>3. Faithful({}, tag) /\ Agrees(<<>>, tag)
  BY DEF Faithful, Agrees
<1>4. rd' = [rd EXCEPT ![r] = v] /\ built' = built /\ verified' = verified
  BY <1>1 DEF Begin
<1>. QED  BY <1>2, <1>3, <1>4, ReaderMoves

LEMMA BuildsOfEntries ==
  ASSUME Shape, NEW i \in 1..Main(Manifest)
  PROVE  hist[Manifest][i].build \in Vectors /\ hist[Manifest][i].rows \in SUBSET Pairs
<1>1. hist[Manifest][i] \in Entry
  BY DEF Shape, Book, Main
<1>. QED  BY <1>1 DEF Entry

LEMMA ResolveKeeps ==
  ASSUME RInv, UNCHANGED vars, NEW r \in Readers, Resolve(r)
  PROVE  RInv'
<1>1. CASE Unavailable(r)
  BY <1>1, StopKeeps
<1>2. ASSUME NEW s \in Target(Manifest, rd[r].tag), Alive(Manifest, s), rd[r].at = "resolve",
             NEW mine, mine = {i \in 1..s : hist[Manifest][i].build = rd[r].tag},
             NEW rows, rows = UNION {hist[Manifest][i].rows : i \in mine},
             rd' = [rd EXCEPT ![r].at = "read", ![r].rows = rows],
             UNCHANGED <<built, verified, tries>>
      PROVE  RInv'
  <2>1. \A i \in mine : i \in 1..Main(Manifest)
    <3>1. s \in 1..Main(Manifest) /\ Main(Manifest) \in Nat
      BY <1>2, TableNames DEF Alive, RInv, Shape, Book, Main
    <3>. QED  BY <1>2, <3>1
  <2>2. Faithful(rows, rd[r].tag) /\ rows \in SUBSET Pairs
    <3>1. \A i \in mine : Faithful(hist[Manifest][i].rows, rd[r].tag)
      BY <1>2, <2>1, Zenon DEF RInv, EntriesFaithful
    <3>2. \A i \in mine : hist[Manifest][i].rows \in SUBSET Pairs
      BY <2>1, BuildsOfEntries DEF RInv
    <3>3. \A x \in rows : \E i \in mine : x \in hist[Manifest][i].rows
      BY <1>2
    <3>4. Faithful(rows, rd[r].tag)
      BY <3>1, <3>3, Zenon DEF Faithful
    <3>5. rows \in SUBSET Pairs
      BY <3>2, <3>3
    <3>. QED  BY <3>4, <3>5
  <2>3. /\ rd[r].tag \in Vectors /\ Agrees(rd[r].data, rd[r].tag)
        /\ rd[r].of # None => rd[r].of \in built /\ rd[r].of.tag = rd[r].tag
    BY <1>2 DEF RInv, Reading
  <2>4. rd[r] \in ReadJob /\ DOMAIN rd = Readers
    BY DEF RInv, RdShape
  <2>5. PICK v : v = [rd[r] EXCEPT !.at = "read", !.rows = rows]
    OBVIOUS
  <2>6. v \in ReadJob /\ v.tag = rd[r].tag /\ v.rows = rows /\ v.data = rd[r].data /\ v.of = rd[r].of
    BY <2>2, <2>4, <2>5 DEF ReadJob
  <2>7. rd' = [rd EXCEPT ![r] = v]
    BY <1>2, <2>5
  <2>. QED  BY <1>2, <2>2, <2>3, <2>6, <2>7, ReaderMoves
<1>. QED  BY <1>1, <1>2, Zenon DEF Resolve

\* Of a pinned table the snapshot the manifest recorded is read, which for an input is the one of the build.
LEMMA ReadTableKeeps ==
  ASSUME RInv, UNCHANGED vars, NEW r \in Readers, ReadTable(r)
  PROVE  RInv'
<1>1. CASE Unavailable(r)
  BY <1>1, StopKeeps
<1>2. ASSUME NEW t, NEW row \in rd[r].rows, row[1] = t, rd[r].at = "read",
             Pinned(t, rd[r].tag, row[2]), NEW s \in Target(t, rd[r].tag),
             rd' = [rd EXCEPT ![r].data = With(@, t, Leaf(t, s))],
             UNCHANGED <<built, verified, tries>>
      PROVE  RInv'
  <2>1. rd[r] \in ReadJob /\ DOMAIN rd = Readers
    BY DEF RInv, RdShape
  <2>2. /\ rd[r].tag \in Vectors /\ Agrees(rd[r].data, rd[r].tag) /\ Faithful(rd[r].rows, rd[r].tag)
        /\ rd[r].of # None => rd[r].of \in built /\ rd[r].of.tag = rd[r].tag
    BY <1>2 DEF RInv, Reading
  <2>3. PICK w : w = With(rd[r].data, t, Leaf(t, s))
    OBVIOUS
  <2>4. s = row[2] /\ s \in 1..Main(t)
    BY <1>2 DEF Pinned, Alive
  <2>5. t \in Tables /\ s \in Snaps /\ Leaf(t, s) \in Leaves \cup Snaps
    <3>1. row \in Pairs
      BY <1>2, <2>1 DEF ReadJob
    <3>2. t \in Tables /\ s \in Snaps
      BY <1>2, <2>4, <3>1 DEF Pairs
    <3>3. hist[t][s] \in Leaves
      BY <2>4, <3>2 DEF RInv, Shape, Book, Main
    <3>. QED  BY <3>2, <3>3 DEF Leaf
  <2>6. /\ w \in Reads /\ DOMAIN w = DOMAIN rd[r].data \cup {t} /\ w[t] = Leaf(t, s)
        /\ \A x \in DOMAIN rd[r].data : x # t => w[x] = rd[r].data[x]
    <3>1. PICK D \in SUBSET Tables : rd[r].data \in [D -> Leaves \cup Snaps]
      BY <2>1 DEF ReadJob, Reads
    <3>2. PICK l \in Leaves \cup Snaps : l = Leaf(t, s)
      BY <2>5
    <3>3. w \in [D \cup {t} -> Leaves \cup Snaps]
      BY <2>3, <3>1, <3>2 DEF With
    <3>4. D \cup {t} \in SUBSET Tables
      BY <2>5
    <3>5. w \in Reads
      BY <3>3, <3>4, Zenon DEF Reads
    <3>. QED  BY <2>3, <3>1, <3>2, <3>5 DEF With
  <2>7. Agrees(w, rd[r].tag)
    <3>1. t \in Inputs => Leaf(t, s) = rd[r].tag[t]
      BY <1>2, <2>2, <2>4 DEF Faithful, Leaf
    <3>. QED  BY <2>2, <2>6, <3>1 DEF Agrees
  <2>8. PICK v : v = [rd[r] EXCEPT !.data = w]
    OBVIOUS
  <2>9. v \in ReadJob /\ v.tag = rd[r].tag /\ v.rows = rd[r].rows /\ v.data = w /\ v.of = rd[r].of
    BY <2>1, <2>6, <2>8 DEF ReadJob
  <2>10. rd' = [rd EXCEPT ![r] = v]
    BY <1>2, <2>3, <2>8
  <2>. QED  BY <1>2, <2>2, <2>7, <2>9, <2>10, ReaderMoves
<1>. QED  BY <1>1, <1>2, Zenon DEF ReadTable

\* What was read of all inputs is the vector the build was computed from.
LEMMA ReadIsTag ==
  ASSUME RInv, NEW r \in Readers, rd[r].at = "read", AllRead(r)
  PROVE  rd[r].tag \in Vectors /\ InputsRead(rd[r].data) = rd[r].tag
<1>1. rd[r].tag \in Vectors /\ Agrees(rd[r].data, rd[r].tag)
  BY DEF RInv, Reading
<1>2. Inputs \subseteq DOMAIN rd[r].data
  <2>1. InputOrder \in Seq(Inputs) /\ ReadOrder = InputOrder \o <<Nodes, Edges, Scaler>>
    BY PublishAssumption DEF ReadOrder
  <2>2. Len(InputOrder) \in Nat /\ Len(ReadOrder) = Len(InputOrder) + 3
        /\ \A i \in 1..Len(InputOrder) : ReadOrder[i] = InputOrder[i]
    <3>1. <<Nodes, Edges, Scaler>> \in Seq(Outputs) /\ Len(<<Nodes, Edges, Scaler>>) = 3
      BY TableNames
    <3>. QED  BY <2>1, <3>1
  <2>3. ASSUME NEW t \in Inputs PROVE t \in {Wanted(r)[i] : i \in 1..Len(Wanted(r))}
    <3>1. PICK i \in 1..Len(InputOrder) : t = InputOrder[i]
      BY Zenon DEF Inputs
    <3>2. CASE Wanted(r) = InputOrder
      BY <3>1, <3>2
    <3>3. CASE Wanted(r) = ReadOrder
      <4>1. i \in 1..Len(ReadOrder) /\ t = ReadOrder[i]
        BY <2>2, <3>1
      <4>. QED  BY <3>3, <4>1
    <3>. QED  BY <3>2, <3>3 DEF Wanted
  <2>. QED  BY <2>3 DEF AllRead
<1>3. \A t \in Inputs : rd[r].data[t] = rd[r].tag[t]
  BY <1>1, <1>2 DEF Agrees
<1>. QED  BY <1>1, <1>3 DEF InputsRead, Vectors

\* The invariant when the builds or the verifications grow and a reader stops.
LEMMA StopAndKeep ==
  ASSUME RInv, UNCHANGED vars, NEW r \in Readers, Stop(r), built \subseteq built', BuiltAgree', VerifiedIsTheSame'
  PROVE  RInv'
<1>1. hist' = hist /\ now' = now /\ pc' = pc /\ job' = job
  BY DEF vars
<1>2. Shape' /\ EntriesFaithful'
  BY <1>1, SameEntries, Zenon DEF RInv, Shape, Book, Working, Main
<1>3. /\ rd'[r] = NoRead /\ (\A q \in Readers : q # r => rd'[q] = rd[q])
      /\ rd' \in [Readers -> ReadJob]
  BY NoReadIsRead DEF RInv, RdShape, Stop
<1>4. RdShape'
  <2>1. ReadJob \subseteq ReadJob'
    BY DEF ReadJob
  <2>. QED  BY <1>3, <2>1 DEF RdShape
<1>5. ASSUME NEW q \in Readers PROVE Reading(q)'
  <2>1. CASE q = r
    BY <1>3, <2>1, NoReadIsRead DEF Reading
  <2>2. CASE q # r
    <3>1. Reading(q) /\ rd'[q] = rd[q]
      BY <1>3, <2>2 DEF RInv
    <3>. QED  BY <3>1 DEF Reading, Faithful, Agrees
  <2>. QED  BY <2>1, <2>2
<1>. QED  BY <1>2, <1>4, <1>5 DEF RInv

LEMMA InstallKeeps ==
  ASSUME RInv, UNCHANGED vars, NEW r \in Readers, Install(r)
  PROVE  RInv'
<1>. DEFINE b == [tag |-> rd[r].tag, rows |-> rd[r].rows, data |-> rd[r].data]
<1>1. InputsRead(rd[r].data) = rd[r].tag /\ rd[r].tag \in Vectors
  BY ReadIsTag DEF Install
<1>2. verified' = verified /\ Stop(r)
  BY DEF Install
<1>3. built' = built \/ (built' = built \cup {b} /\ SameTwin(rd[r].data))
  BY DEF Install
<1>4. SameTwin(rd[r].data) => /\ b.tag \in Vectors /\ InputsRead(b.data) = b.tag
                              /\ \A t \in {Nodes, Edges} : b.data[t].pins = b.tag
  BY <1>1 DEF SameTwin
<1>5. BuiltAgree'
  <2>1. \A c \in built : /\ c.tag \in Vectors /\ InputsRead(c.data) = c.tag
                         /\ \A t \in {Nodes, Edges} : c.data[t].pins = c.tag
    BY DEF RInv, BuiltAgree
  <2>. HIDE DEF b
  <2>2. \A c \in built' : /\ c.tag \in Vectors /\ InputsRead(c.data) = c.tag
                          /\ \A t \in {Nodes, Edges} : c.data[t].pins = c.tag
    BY <1>3, <1>4, <2>1, Zenon
  <2>. QED  BY <2>2, Zenon DEF BuiltAgree, InputsRead
<1>6. VerifiedIsTheSame'
  BY <1>2, Zenon DEF RInv, VerifiedIsTheSame, InputsRead
<1>7. built \subseteq built'
  BY <1>3
<1>. QED  BY <1>2, <1>5, <1>6, <1>7, StopAndKeep

LEMMA FinishVerifyKeeps ==
  ASSUME RInv, UNCHANGED vars, NEW r \in Readers, FinishVerify(r)
  PROVE  RInv'
<1>1. InputsRead(rd[r].data) = rd[r].tag
  BY ReadIsTag DEF FinishVerify
<1>2. rd[r].of \in built /\ rd[r].of.tag = rd[r].tag
  BY DEF FinishVerify, RInv, Reading
<1>3. InputsRead(rd[r].of.data) = InputsRead(rd[r].data)
  BY <1>1, <1>2 DEF RInv, BuiltAgree
<1>4. built' = built /\ Stop(r) /\ verified' = verified \cup {<<rd[r].of, InputsRead(rd[r].data)>>}
  BY DEF FinishVerify
<1>5. BuiltAgree'
  BY <1>4, Zenon DEF RInv, BuiltAgree, InputsRead
<1>6. VerifiedIsTheSame'
  <2>1. \A v \in verified : v[2] = InputsRead(v[1].data)
    BY DEF RInv, VerifiedIsTheSame
  <2>2. ASSUME NEW v, v = <<rd[r].of, InputsRead(rd[r].data)>> PROVE v[2] = InputsRead(v[1].data)
    BY <1>3, <2>2
  <2>3. \A v \in verified' : v[2] = InputsRead(v[1].data)
    BY <1>4, <2>1, <2>2, Zenon
  <2>. QED  BY <2>3, Zenon DEF VerifiedIsTheSame, InputsRead
<1>. QED  BY <1>4, <1>5, <1>6, StopAndKeep

LEMMA ReadKeeps ==
  ASSUME RInv, UNCHANGED vars, NEW r \in Readers, Read(r)
  PROVE  RInv'
<1>1. CASE BuildNewest(r)
  <2>1. PICK i \in 1..Main(Manifest) : Begin(r, hist[Manifest][i].build, None)
    BY <1>1 DEF BuildNewest
  <2>2. hist[Manifest][i].build \in Vectors
    BY BuildsOfEntries DEF RInv
  <2>. QED  BY <2>1, <2>2, BeginKeeps
<1>2. CASE BuildAtTag(r)
  <2>1. PICK i \in 1..Main(Manifest) : Begin(r, hist[Manifest][i].build, None)
    BY <1>2 DEF BuildAtTag
  <2>2. hist[Manifest][i].build \in Vectors
    BY BuildsOfEntries DEF RInv
  <2>. QED  BY <2>1, <2>2, BeginKeeps
<1>3. CASE Verify(r)
  <2>1. PICK b \in built : Begin(r, b.tag, b)
    BY <1>3 DEF Verify
  <2>2. b.tag \in Vectors
    BY DEF RInv, BuiltAgree
  <2>. QED  BY <2>1, <2>2, BeginKeeps
<1>. QED  BY <1>1, <1>2, <1>3, ResolveKeeps, ReadTableKeeps, InstallKeeps, FinishVerifyKeeps DEF Read

\* The publishers' steps and the operator's leave the readers alone.
LEMMA OthersKeepReaders ==
  ASSUME RInv, Shape', EntriesFaithful', rd' = rd, built' = built, verified' = verified
  PROVE  RInv'
<1>1. BuiltAgree' /\ VerifiedIsTheSame'
  BY Zenon DEF RInv, BuiltAgree, VerifiedIsTheSame, InputsRead
<1>2. RdShape'
  BY DEF RInv, RdShape, ReadJob
<1>3. ASSUME NEW r \in Readers PROVE Reading(r)'
  <2>1. Reading(r)
    BY DEF RInv
  <2>. QED  BY <2>1 DEF Reading, Faithful, Agrees
<1>. QED  BY <1>1, <1>2, <1>3 DEF RInv

LEMMA RNextKeeps ==
  ASSUME RInv, [RNext]_<<vars, rvars>>
  PROVE  RInv'
<1>1. CASE Next /\ UNCHANGED rvars
  <2>1. Shape' /\ EntriesFaithful'
    BY <1>1, NextKeepsShape, EntriesStayFaithful DEF RInv
  <2>. QED  BY <1>1, <2>1, OthersKeepReaders DEF rvars
<1>2. ASSUME NEW r \in Readers, Read(r), UNCHANGED vars PROVE RInv'
  BY <1>2, ReadKeeps
<1>3. CASE Meddle \/ UNCHANGED <<vars, rvars>>
  <2>1. /\ hist' = hist /\ now' = now /\ pc' = pc /\ job' = job
        /\ rd' = rd /\ built' = built /\ verified' = verified
    BY <1>3 DEF Meddle, vars, rvars
  <2>2. Shape' /\ EntriesFaithful'
    BY <2>1, SameEntries, Zenon DEF RInv, Shape, Book, Working, Main
  <2>. QED  BY <2>1, <2>2, OthersKeepReaders
<1>. QED  BY <1>1, <1>2, <1>3 DEF RNext

LEMMA RInitInv ==
  ASSUME RInit
  PROVE  RInv
<1>1. Shape
  BY InitHasShape DEF RInit
<1>2. Main(Manifest) = 0
  BY TableNames DEF RInit, Init, Main
<1>3. EntriesFaithful /\ BuiltAgree /\ VerifiedIsTheSame
  BY <1>2 DEF RInit, EntriesFaithful, BuiltAgree, VerifiedIsTheSame
<1>4. \A r \in Readers : rd[r] = NoRead
  BY DEF RInit
<1>5. RdShape /\ \A r \in Readers : Reading(r)
  BY <1>4, NoReadIsRead DEF RInit, RdShape, Reading
<1>. QED  BY <1>1, <1>3, <1>5 DEF RInv

THEOREM ReaderInvariant == RSpec => []RInv
<1>1. RInit => RInv
  BY RInitInv
<1>2. RInv /\ [RNext]_<<vars, rvars>> => RInv'
  BY RNextKeeps
<1>. QED  BY <1>1, <1>2, PTL DEF RSpec

\* A build is made of one publish: the inputs it read, and the graph it was compared with, are the ones its
\* tag's id was computed from, whatever publishers overlapped, expired or crashed and whichever tag was moved.
THEOREM BuiltFromOne == RSpec => []BuiltFromOnePublish
<1>1. ASSUME RInv PROVE BuiltFromOnePublish
  BY <1>1 DEF RInv, BuiltAgree, BuiltFromOnePublish
<1>. QED  BY <1>1, ReaderInvariant, PTL

\* A verification that succeeds read the very inputs the build was made of.
THEOREM VerifiedSame == RSpec => []VerifiedIsTheSame
<1>1. ASSUME RInv PROVE VerifiedIsTheSame
  BY <1>1 DEF RInv
<1>. QED  BY <1>1, ReaderInvariant, PTL

=============================================================================

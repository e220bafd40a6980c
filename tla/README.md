# A verification project for the renewal-graph lakehouse

This directory holds TLA+ models of the parts of the repository that keep state and are worked on by more
than one actor, the TLC configurations that check them, and proofs for TLAPS. Paths below are relative to the
repository.

## 1. What the system is

| part | state it keeps | operations | interacts with |
|---|---|---|---|
| **build store** `src/lakehouse_graph/store.py`, `build.py` | `$GRAPH_ROOT/.lock`, `<profile>/builds/<id>`, `.tmp-*`, `.trash-*`, `latest`, `current`, pidfiles | build, rebuild, keep (`repin`), carry over, replace, restore, promote, gc | every other part below reads or writes its directories |
| **manifest** `manifest.py` | `manifest.json` of a build | identity, pins, freshness | build, check, promote, serving |
| **contract check** `scripts/check_graph_contract.py` | `contract.json` of a build | examine, record | takes the build lock only to record |
| **launcher** `scripts/graph_mcp.sh` | `<build>/.pids/<pid>.pid` | resolve, sweep, write the pidfile, exec | never takes the build lock |
| **serving context** `context.py` | one build, pinned; lazy frames and connections | verify, read, interrupt, close | launcher, MCP server |
| **MCP server** `mcp_server.py`, `tools.py` | the gate (lock, current call), deadlines, audit log | request, deadline, cancel, answer | client, worker threads, context |
| **guarded Cypher** `cypher_guard.py` | one connection, one watchdog per query | guard, query, watch, kill | MCP server |
| **publisher** `src/jobs/graph/01_publish_gold_graph.py` | four Iceberg tables, manifest rows, tags | pin, write, append, tag | `iceberg_source.py` reads by tag |
| **Iceberg reader** `iceberg_source.py` | pins of one publish | resolve, read, build | publisher, build store |
| **agent** `agent.py` | conversation, step and token budgets | model turn, tool call, answer | MCP server or tools in process |
| **evidence graph, cohorts, lineage** `pruned.py`, `cohorts.py`, `lineage/` | files inside a build, summary keys in its manifest | build, verify | carried over on a rebuild |
| **envelope, search, queries, metrics, oracle, charts, viz** | none, or one immutable build | pure functions | tools |
| **bronze/silver/gold jobs, DAGs, generators** | CSV and Iceberg tables | sequential Spark jobs | publisher |

What is hard, and what makes each part correct:

* *Build store.* Five kinds of commands run at the same time on one directory tree; a lock file serialises some
  of their steps and the launcher takes no lock at all. A replacement is one exchange, or two renames with an
  undo; every process may die between any two steps and the next command repairs what it finds. Correct means:
  no build is lost, links resolve, `current` points at a build that has earned its strict pass, a build in use
  is left alone.
* *Contract record.* It is written by a process that examined the build long before. It must describe the bytes,
  id and exports that are there, and it outlives rebuilds only with its bytes.
* *MCP server.* The event loop gives up on a worker thread, which runs on; the connection has one user at a time
  and its interrupt has no addressee. Correct means: one body at a time, an interrupt that reaches the right
  query, a gate that is always given back, an audit line that says what the client was told.
* *Publisher.* Separate commits to several tables, then tags that never move; a second publisher may run.
  Correct means: a tag names one consistent set of snapshots.

## 2. Plan

Done, in this order:

1. `BuildStore` (the core), its abstract promise `Registry`, proofs of type correctness, lock exclusion and the
   strict-pass invariants; then that links resolve, that gc spares the newest, that held builds stay, that no build
   is lost, and that the store implements `Registry`.
2. `ToolGate`: one server process, proofs of its safety.
3. `GraphPublish`, its abstract promise `PublishLedger`, and proofs of all four properties that are checked of it.
4. `IcebergReader`, composed with `GraphPublish`, and proofs of both its properties.
5. `RenewalGraph`, then `EvidenceGraph` on top of it: what the pipeline computes day by day, and what may be
   served of it, with proofs of all their properties. `CellProtect`: disclosure control, with proofs of all its
   safety properties.

Left, the most important first:

6. The installation of the evidence graph and of cohorts into a build, next to a rebuild that carries them over.
7. `CellProtect` for several tables published jointly, with the search budget.
8. Server shutdown (`lifespan`, `stop`, `serve_stdio`) composed with `ToolGate`; the agent's bounded loop.
9. Pure algorithms on bounded inputs: envelope truncation, reachability in the lineage tables, the hop and limit
    rules of the Cypher guard.

## 3. Modules

| module | content |
|---|---|
| `BuildStore` | the store and the five kinds of processes on it, one action per step between two system calls that another process can see |
| `Registry` | what the store promises: entries by id and two links, each operation one atomic step |
| `MCBuildStore` | symmetry, and `StandingInit`: a store in use, reached by build, check, promote, edit, build |
| `BuildStoreProofs` | the inductive invariant `Store`; `TypeCorrect`, `LockIsExclusive`; on top of it `StrictPassIsEarned`, `PromotesOnlyPassing` |
| `StoreLinksProofs` | `LinksAlwaysResolve`, `GcSparesLinks` and `StoreImplementsRegistry` (with an exchange call); `GcSparesNewest`, `HeldBuildsStay` and `NothingIsLost` (with and without) |
| `ToolGate`, `MCToolGate` | one MCP server: event loop, worker threads, watchdogs |
| `ToolGateProofs` | the inductive invariant `Gate` and five theorems |
| `PublishLedger` | what a publisher promises its readers: a ledger that only grows, tags put once, where it says |
| `GraphPublish`, `MCGraphPublish` | the publishing Spark jobs, the upstream pipeline and snapshot expiry, one action per commit or look |
| `GraphPublishProofs` | the inductive invariant `IInv`; types, refinement of the ledger, tags of finished runs; on top of it `JInv`: a finished run's publish can be read |
| `IcebergReader`, `MCIcebergReader` | builds and verifications that read a publish at its tag, next to the publishers |
| `IcebergReaderProofs` | the inductive invariant `RInv`; a build comes from one publish, a verification read its inputs |
| `RenewalGraph`, `MCRenewalGraph` | bronze by the day, gold, the tables of a build, the queries and the oracle |
| `EvidenceGraph` | the copy of a build that free queries may read, and the builder's proof of it |
| `OrderLemmas` | finite sets of numbers, permutations that sort, prefixes of an order: the facts the next two rest on |
| `RenewalGraphProofs` | what holds of every build, for all lives subscriptions may lead: all nine properties of the two modules above |
| `CellProtect`, `MCCellProtect` | disclosure control of one exposure table, round by round |
| `CellProtectProofs` | its inductive invariant, for tables of any size and counts, and all five safety properties |

Operators called `...KeepsJob`, `...Anyones`, `...Unlocked` and the like, each under a comment that begins
"Mutant:", are faulty variants of the definition that follows them. No action uses them; each is there to show
that a property notices the fault.

### BuildStore and the code

State. `builds`, `tmp`, `trash` are the directories under `<profile>/builds`; a `Tree` is what the code reads in
one: the Parquet hashes its manifest recorded (`bytes`, `None` when there is no readable manifest), the exports
it pins, `built_at` in seconds, whether `graph.lbdb` is there, whether every Parquet file is (`whole`),
`contract.json`, and the pidfiles. `current` and `latest` are the links. `lock` is the flock, which the kernel
takes from a dead process. `pc` and the five `bld`, `chk`, `prm`, `col`, `srv` are where a process is and what
it holds in memory. `earned` is a history variable: what a strict check really found good.

Identity. `business_build_id` is a hash of the bronze and the code. `Ids` therefore stands for the states of the
sources as well as for the names of builds. A builder remembers the code it *imported*, and hashes the identity
from disk after it got the lock (`BuildLocked`), so a tree can be named after other code than made it; bronze and the
gold script are read a step later (`BuildRead`), and may have changed again.

Age. `built_at` has seconds. `clock` may stand still between two builds, and gc then takes builds of one second in any
order (`Newest`), which is what sorting by the directories' mtime comes to; it removes all beyond the first `Keep`.

Steps. A builder that found an existing build with the same bytes takes `BuildKeep`; otherwise `BuildFinish`,
then `BuildInstall` for a new id or `BuildCarryOver` and a swap. `BuildExchange` is `replace_dir` where the
filesystem has an exchange call (`HasExchange`), `BuildMoveOld`, `BuildMoveNew`, `BuildUndo` are its fallback.
`shutil.rmtree` under a build's own name is two steps with a nondeterministic remainder in between (`Damaged`);
of a `.trash` directory, which only `restore_orphans` can bring back, it is `Erode` and then the removal.
A build that is only being made is seen by nobody, so its loading and its manifest are one step.
A launcher's `mkdir -p` with its sweep of dead pidfiles (`ServeSweep`) and the pidfile (`ServePidfile`), which it goes
on without where it cannot be written, are two steps.
`CheckExamine` reads the build and the exports in one step: any failure, including what
`check_interference` finds, is the choice `flaw`, so the model allows every verdict the code can give and
perhaps a pass more. The `Iceberg` twin of the builder follows the same steps on the store.

Crashes. `Crash` kills any process at any step. A `PermissionError` in gc's `rmtree` ends gc the same way.

Bounds. `MaxRuns` commands per pid, `MaxEdits` changes of bronze, code, exports or database, `MaxCrashes`
killed processes. They sit in the guards and bound the model only; the theorems hold for all of them.

Left out: several profiles (they share the lock and `current`, and only the default one may be promoted), lineage,
cohorts and evidence files in a build, the contents of the tables.

### ToolGate and the code

One process, one gate, one connection. `task` is the event-loop side of a call, `worker` the thread that runs
`_call_locked`. `Cancel` is the deadline of `move_on_after` or the client's cancellation; `Wake` is the task
that finds itself cancelled and looks at `gate.current`; `Interrupt` is `ctx.interrupt()`, a step later, since a
worker thread may run between the two lines. The loop runs one task at a time: no other task moves between
`Wake` and `Interrupt` (`loop`). The time `wait_s` is the nondeterminism between `Acquire` and `GiveUp`.
`Query`, `QueryEnd` and `Join` are an engine statement, in the Cypher server under its own `Watchdog` thread
(`dog`), which may have decided to interrupt when the statement ends; `__exit__` joins it (with a limit of 5 s,
which a thread that waits at most one second more does not reach). A statement may be `stubborn`:
`Watchdog`'s comment reports ones that ignore both the engine's timeout and its interrupt.

Left out: the transport, the arguments and results, shutdown.

### GraphPublish and the code

State. `hist` is the history of every table, one entry per commit, so that a snapshot id is a position: of an
input a commit is nothing but a commit, of an output it is the pins it was computed from (and for the edges the
pins behind the scaler that was read back), of the manifest it is the rows appended. `tags` are the refs
`graph_<build>`; `expired` what `expire_snapshots` removed. `pc` and `job` are a publisher's position in `publish()`
and its locals. `finished` and `overlap` are history variables. `now` orders the `published_at` of runs.

Steps. `PinInput` is one turn of the loop in `pin_inputs`; `LookManifest` is `published()` and the branch on it;
`WriteScaler`, `ReadScaler`, `WriteNodes`, `WriteEdges`, `ReadNodes`, `ReadEdges` are `publish()` up to the rows,
with `main_snapshot` as a look of its own *after* the writes, as in the code; `AppendManifest` is one commit of all
rows; `TagNext` is `ensure_tag` of one row, `TagManifest` the last tag and exit 0. Every exception is `Fail`.
`ensure_tag`'s statement and its look at the ref are one step: its tag does not move afterwards, so the look sees
what the statement left. The build id is the pins: what else goes into the hash acts like one more input.

Surroundings. `Upstream` rewrites an input at any moment, `Expire` removes any snapshot that is neither main nor
tagged (of inputs and outputs; nothing in the repository expires the manifest), `Crash` kills a publisher anywhere.

Left out: what Spark SQL computes (that is `RenewalGraph`), and the retries of Iceberg's own commit protocol.

### IcebergReader and the code

A reader resolves a publish (`BuildNewest`, `BuildAtTag`), reads its rows at the tag (`Resolve`), then each table at
the tag with a comparison to the recorded snapshot (`ReadTable`), compares the published twin with what the builder
makes of the inputs, and installs. `Verify` does it again for a build that is there, inputs only. A publisher or an
operator who drops or moves a tag (`Meddle`) acts between any two reads. Left out: opening the catalog, the
comparison with a build from local files, and the steps on the build store, which are `BuildStore`'s.

### RenewalGraph, EvidenceGraph and the code

State. `life` says what every subscription will do (its plan, renewal, how the renewal ends, cap hits, a switch of
overage on and off); `today` is the last day in bronze; `graph` are the tables of the latest build. `DayLands` adds
a day, `Build` builds, where no subscription has come to a second snapshot (`OneSnapshotEach`) and none has events
but no snapshot yet (`Loadable`: the database's `COPY` finds no node for them). The `today` of the gold job is the
last snapshot's day (`LastSnapshot`), which may be earlier than the last event's. Pricing changes are in bronze
`Notice` days before they take effect, and gold and graph read all that are there. That makes the hard thing in this code expressible: a renewal is looked at from `as_of`,
`Lead` days before it, while gold and graph also hold what happened afterwards, so that every query has to cut.

Gold. `Window`, `ToggledOff`, `FirstAfter`, `Outcome` and `Route` are the rules of `build_churn_gold_local.py` in the
order of its code. The graph: `RenewalNodes`, `EventEdges`, `FirstRenewalAfter`, `SimilarTo`, `CutRows` are
`build_tables` and `knn`. The queries: evidence, point-in-time features in Cypher, the hit-then-off motif, neighbours
and their visibility, lapses on a path. The oracle's second computation of features and neighbours is written as it
is there. Scaling of distances only matters through whether there is a spread, and one feature stands for all.

`EvidenceGraph` is `pruned.py`: `Prune` with its refusals, and `Holds`, the proof the builder makes of what it
wrote: each feature with and without its upper bound, by the rules of pandas and of Cypher, and `check_record`.

Left out: amounts and texts, other relations than the four kinds of events, the columns no property is about; of
`build_evidence_graph.py` the files, the record and their installation under the lock.

### CellProtect and the code

`truth` is one exposure table; `hidden` are its nulls, `withheld` says that its whole breakdown is, `pins` is the
answer to the last question. `Known`, `Primary`, `Ask`, `Complement`, `Withhold`, `PrintPins`, `Finish` are the
branches of `metrics.protect` in their order, with `close`, `candidates`, `complements` and `uncovered_zeros` as
operators. A `for` loop is `Steps`, the state after so many steps; the `while` of `close` is as many rounds as there
are keys, since a round that changes nothing is its last. A sum counts `Units`, the renewals of its parts. The question, whether a null has two possible values, is an integer search in the code;
here it is the enumeration of every table within `Window` of the truth.
The definitions were compared with the program: `metrics.protect` and the model agree, null for null, on all 896
tables of the run.

Left out: several tables published jointly (the pricing table and the cubes follow the same rules on larger
instances) and the search budget, which tables of this size do not exhaust.

## 4. Runs

| run | instance | shows |
|---|---|---|
| `store_exchange` | 2 ids, 2 exports, 2 builders, promoter, gc, checker, exchange, 1 edit, 1 crash: 1.27M states | the lock, earned passes, links, promotion, refinement of `Registry` |
| `store_registry` | 2 ids, 2 exports, builder, promoter and checker, each run twice, exchange, 1 edit, 1 crash: 3.38M states | refinement of `Registry` when a build is checked, re-pinned and promoted again |
| `store_rename` | 2 ids, 3 builders, gc, two renames, 2 edits, 1 crash: 2.32M states | no build is lost while no launcher runs (section 4), gc spares the newest |
| `store_servers` | 2 ids, 2 builders, gc, checker, server, two renames, 1 edit, 1 crash: 1.28M states | a build whose pidfile is there when a rebuild or gc looks stays |
| `gate_watched` | 2 calls, 2 queries each, watchdogs | safety of the gate, and that it is always freed |
| `publish_ledger` | 2 publishers, 2 inputs, 1 run each, 1 upstream commit, 1 expiry, 1 crash: 1.13M states | refinement of the ledger, tags of finished runs, and readability without overlap |
| `publish_read` | 2 publishers past their look at the manifest with the same or other pins, 1 reader with 2 reads, 1 tag moved or dropped: 2.28M states | builds from one publish only, verifications of the same inputs |
| `renewal_days` | 3 subscriptions, every end of a renewal, 2 pricing changes, in bronze a day before, 202,032 states | nothing from the future in features, evidence, answers or the evidence graph; parity of gold, Cypher and oracle; outcomes settle and stay |
| `cell_protect` | 896 tables of 2 plans and 3 routes, `MinCell` 3, `Window` 2 | small counts and everything that gives them away stay null |
| violations | see below | |

Two ids are the fewest with an old and a new build and with stale sources; two builders the fewest with a
rebuild over a build, three with one more that replaces a build that was an orphan; one crash and one edit the fewest that meet every
repair and every stale value, two edits that let the ids be built in turn, and the theorems cover more of each. `Keep` = 1, so that with two ids gc removes.
Two calls are the fewest where one interrupts another; with two queries a body goes on after an interrupted
deadline. Two publishers are the fewest that overlap; one upstream commit is the fewest that gives them other pins
and lets one run pin two states, and for the publishers and the reader the theorems cover every number.
`publish_read` begins with two runs that overlap because the way there is `publish_ledger`'s; with one input.
Three subscriptions are a source, a neighbour and a candidate that is cut; period 7, lead 2, a window of 2 days,
retries on 3 days and days up to 10 put events on either side of every boundary the rules have. `MinCell` 3 is the
least with two different small counts; counts go up to it, so that every cell is 0, small or large.

Deadlock is not checked: a store with every command run, a server nobody asks, a catalog nobody publishes to any
more, a calendar at its last day and a table that is protected rightly stop.

Each property of a passing run has a faulty variant of the code (PROJECT.json, `mutants`) that breaks it.

### What the code does other than its comments say

| run | property | in short |
|---|---|---|
| `orphaned_current` | `GcSparesLinked` | gc follows `current` (store.py:492) before it restores orphans (store.py:497). If the promoted build is the orphan, the link leads nowhere at that moment, and gc restores the build and then removes it. Running `store.gc` on such a tree does exactly that. With an exchange call there are no orphans and it cannot (`GcSparesLinks`). |
| `renewal_cancel_flow` | `CancelFlowIff` | docs/graph/data-model.md:341 wants `cancel_flow` wherever a cancellation was scheduled by `as_of`; gold gives that route only once the renewal is decided. The sample never schedules one for a current renewal. |
| `cell_rounds` | `Ends` | `protect` can null a complement, find it pinned but harmless, print it again, and so on until it raises after 400 rounds (metrics.py:844). The program does so on the table of the run with `MIN_CELL = 3`, and with the real 5 from 17 renewals on. |

Further disagreements, stated in the modules but not among the runs. To see one, give a configuration of the
module's MC module the property: the one named if there is one, with the roles it needs.

| property | module | in short |
|---|---|---|
| `FailedSwapRestores` | `BuildStore` | a launcher's `mkdir -p` between the renames makes the second rename fail and its undo too. The old build stays in `.trash`, hidden by the new empty directory, and the next gc sweeps it away: with a server among the roles `NoBuildLost` is violated too |
| `PromotesWhole` | `BuildStore` | gc killed inside `rmtree` leaves a build that promote accepts and no server does |
| `ServedBuildStays` | `BuildStore` | a launcher between its look at the build and its pidfile is invisible to a builder |
| `RestoresOnlyCopy` | `BuildStore` | an orphan may be a superseded tree, and win over the newer one by the order of names. With two deaths (`MaxCrashes` = 2) `NoBuildLost` is violated for it: one builder dies while it removes the tree it superseded, the next dies between its renames, `restore_orphans` puts back what is left of the first tree and the sweep of gc removes the only copy |
| `OwnQueryOnly` | `ToolGate` | the look at `gate.current` and the interrupt are two steps |
| `NoBodyForNobody` | `ToolGate` | the look at the cancellation and the start of the body are two steps |
| `TagsItsOwn` | `GraphPublish` | `main_snapshot` is read after the writes (01_publish_gold_graph.py:316): of two runs that overlap, one may list and tag the other's snapshot as its own. The DAG has `max_active_runs=1`, so only a run by hand overlaps; a reader then refuses the publish, which is what `BuiltFromOnePublish` shows |

## 5. Fairness

`BuildStore` has none: its commands are started by people and may die. `ToolGate` assumes what the operating
system and the loop give: worker and watchdog threads are scheduled, the loop runs the callbacks that are ready,
the deadline timer fires, and a statement that heeds the engine ends within its timeout. Nothing is assumed of a
stubborn statement, of the client's requests or of its cancellations. Under that, `GateIsFreed` holds because
of the watchdog, and fails when it gives up instead of ending the process.

`CellProtect` is one sequential loop: weak fairness of its next step says that it runs. The publishers, the reader
and the calendar have no fairness and no liveness property: a person or a scheduler starts each run.

## 6. Proofs

Assumptions: the roles are disjoint, `None` is none of the values it stands for the lack of, the bounds are
naturals. Nothing bounds the number of processes, builds, calls or queries; one theorem, `NothingIsLost`, bounds the deaths.

`BuildStoreProofs`. `Store` is `TypeOK`, `MutualExclusion` and `Placed`. Types alone are not inductive: a step
reads `builds[id]` of a job's id and needs to know there is a build. `Placed` says what is where at each label,
which holds only because the lock keeps the others out: at `swap` the build to be replaced is there, in the gap the old one is in
`trash`, at `remove` the victim is still there. The proof has one lemma per kind of process and conjunct.

On top of it, `PassIsEarned` speaks of the contract in a build's place, but contracts also travel: in a
finished tree, in trash, in a checker's memory and from any of these back into place. `ContractsEarned` says that
each of them was earned. A checker's record is one step under the lock that compares the bytes first, so an old
verdict never lands on other bytes.
`PromotesPassing` is an action property: `Chosen` says that between choice and swap the target has its pass, and
`PassStays` that no other process can take it while the promoter holds the lock.

`StoreLinksProofs`. With an exchange call nothing is ever in `.trash`, so no restore changes a build and nobody is
in the gap. `Linked` adds to `LinksResolve` what each process has in hand: a finished tree has its manifest, what a
builder is about to link is in place, and a gc still holds the links as they are, its victim behind neither; a
promote is covered by `Chosen`. `CalmStep` leaves only the process that moves to be looked at. `Aged` says of a gc
that `Keep` builds outlast its list (`Outlast`): they are not on it, are still there, and none on it is newer. What gc
kept when it scanned is such a set, and nobody else removes or replaces builds while it has the lock. `Ids` is taken to be finite there. That theorem, like `HeldBuildsStay`, needs no exchange
call: `StepKinds` says what a process without the lock can do to the store, which is to restore an orphan as it takes the
lock, to write a record while nobody has it, or nothing that counts.
`HeldBuildsStay` needs no more than `Store`: whoever is about to pass its look at the pidfiles sees the server's.

`NothingIsLost`. With an exchange call a build never leaves its place, and `Linked` is all that is needed. With two
renames it is put aside, where two things look alike: the only copy of a build, left by a death between the renames, and
a tree that was superseded, left by a death after them. What tells them apart is the replacement in `.tmp`
(`OnlyCopy`), as it would a person who looks. `Apart` says whose each trash directory is (`BuilderApart`: of a builder
between or after its renames, or of a dead one), that there is one orphan (`OneLeft`), and that until it is put back its
place is empty and nobody has the lock (`LeftAlone`); whoever takes the lock next restores it. The hypotheses are where
the code stops keeping the promise: after a second death the names decide which of two orphans comes back, and a
launcher makes the empty place again (section 4); and a process under the pid of a dead one is taken for it, so that it
hides its orphan and takes over its `.tmp`. That several builders, gcs, promotes and checks run is not restricted.

The refinement of `Registry`, in the same module, needs to know what a builder installs: `Carried` says that at the swap its
tree brings no contract, or the one of the build still in place, of the same bytes. The lock keeps it so between
the two steps. Every other step is `Put`, `Record`, `Discard`, a link, or, as `QuietSteps` shows, nothing. One more
assumption says that `None` is not an entry.

`ToolGateProofs`. `Gate` adds to the properties `Spans` (while the gate names a call its worker is in the body,
and a watchdog that runs has its worker at its query), `LooksFirst` (a task about to interrupt was cancelled and
its worker had entered the body) and `Settled` (an outcome is written once, with its audit line, before the gate
is left).

`GraphPublishProofs`. `IInv` is `Shape` (types, and that what a label reads was written), `Named` (whatever a tag,
row or expiry names was committed), `OneTarget`, `Done` and `Honest`. `ImplementsLedger` is not inductive by itself:
that a tag goes where the ledger lists it rests on `Honest`, which follows the rows from the append, or from the
look at the manifest, to the last tag; that it never moves rests on `OneTarget` and on `CREATE TAG IF NOT EXISTS`.
Every step is shown to be a step of the ledger or none. `Done` turns `Honest` into `FinishedIsTagged`.

`JInv` adds to it, as long as no two runs overlapped, `Once` (a build is listed once), `AllWhole` (an
entry lists every table, at snapshots computed from its pins), `Fits` (what a publisher has looked up, and what it
has written and not looked up yet, comes from its own pins, and its build is not listed before it appends) and
`Listed`; and always, `Standing`: expiry spares what is tagged. `Fits` is where overlap would break it: between a
write and the look at it nobody else writes. It needs no assumption on crashes, which leave a publish unlisted, or
listed and whole.

`IcebergReaderProofs`. `RInv` follows a reader's data from the manifest to the build, and needs nothing of the tags,
which is why the theorems hold with an operator who moves them: the rows are those of one append, each table read
is at the recorded snapshot, and `SameTwin` compares the published graph with the inputs.

`RenewalGraphProofs`. `IInv` says that the graph is `Tables(data_end)` for a day on which bronze had no second
snapshot of a subscription; the tables have a row for each subscription seen by then. That is inductive as it stands; the work is in what `Tables` holds. `Decided` and `Observed` read the
outcome off a life in one line, and the lemmas show gold's rules over events equal to them, for any set of retries,
any day and both kinds of renewals; everything about time (`OutcomesSettle`, `AsOfViewIsPast`, `ShownWasKnown`,
`OutcomeIsFinal`) then compares two days of one closed form. `ShownWasKnown` is about paths of neighbours of any
length. For `SimilarIsTopK` the code sorts a block with the source masked to its end and takes a prefix, the oracle
counts who is closer: a sequence that sorts a finite set by a total order has at place `i` the element with `i - 1`
others before it (`OrderLemmas`, by the least counterexample, since no induction theorem can be instantiated).
`EvidenceHolds` shows that a pruned graph loses nothing a feature counts, by pandas' rules and by Cypher's.
Assumed of a life (`DaysAssumption`, `WorldsAssumption`): overage is switched off later than the period began, as the
generator has it; hits are finitely many; retries include the renewal day and have a last one; the period is longer
than the lead.

`CellProtectProofs`. `IInv` is `Shape` (nulls are hideable), `Fresh`, `Divided` (after the look at the public numbers
either nothing may be null or something is left to split), `Asked` (the pins answer the question for the nulls of now),
`ZerosAreCovered`, `SmallIsNull`, `NumeratorsFollow`, `AllOrNothing` (a withheld breakdown is null everywhere) and
`Settled`. `StepsReach` is the loop rule all of `close` and `complements` is reasoned with. `CloseCloses`: as many
rounds as there are keys reach a set that a round does not change, which is where the ties hold. `ComplementsArePositive`:
only printed positive entries are nulled, so no zero loses its cover. `PrintingIsHarmless` is the heart of
`TruthIsFeasible` and `NothingSmallShown`: when no pin needs a complement, the pins printed together uncover no zero, show no
small count and part no numerator from its model count, although `sensitive` was asked of each with all of the pins gone.
`NeverRaises` says that the code's last resort is one: with everything null and something left to split, each null has
a second value. `EverythingIsOpen` gives one for each kind of key, by moving one renewal to another plan or another
route, with the numerators capped so that they still fit. `NullsAreOpen` asks in a wider window than the algorithm, and
a wider search pins less. `TableAssumption` asks for two plans and a route besides `model` and `current`; the code has
three and four. `OrderLemmas` gives the least element of a finite set by a pair of keys, for `Cheapest` and the smallest relation.

Model-checked only: `GateIsFreed` and `Ends`, which are liveness under fairness and out of
the prover's reach (the second is violated); the other violations of section 4, which are counterexamples.

## 7. Not modelled

* *Agent loop, search, charts, client library, demo and evaluation scripts*: one thread each over an immutable build
  or a session, no state that outlives a call. The agent's step and token budgets are planned.
* *Cohorts*: clustering and its statistics are floating-point arithmetic; its small cells follow rules like those in
  `CellProtect`.
* *Lineage*: the extraction is a parser of SQL and Python. Reachability over its tables is planned.
* *The Cypher guard's tokenizer and rules, envelope truncation, argument validation*: character-level functions.
* *Spark jobs of the bronze, silver and retail layers*: sequential overwrites, started one after the other by a DAG.
  They appear as `Upstream` and, for the rules that decide a renewal, in `RenewalGraph`.

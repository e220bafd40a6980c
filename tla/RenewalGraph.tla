---------------------------- MODULE RenewalGraph ----------------------------
(***************************************************************************)
(* renewal-graph/v1: what a build makes of the bronze events of one day,   *)
(* and what the queries serve from it.  Days go by and every complete day  *)
(* of events lands in bronze; at any moment a build may run over what has  *)
(* landed.  A renewal is looked at from its as_of, Lead days before it:    *)
(* the gold job counts events up to as_of, reads the outcome from billing  *)
(* events after it, and the graph keeps both, so that every query must cut *)
(* the future off again.                                                   *)
(*                                                                         *)
(* Days are integers.  One relation stands for the four that feed a        *)
(* counting window (HIT_LIMIT, OPENED, CHARGED_OVERAGE, EXPOSED_TO), and   *)
(* its count for the features that SIMILAR_TO measures distance in.        *)
(***************************************************************************)
EXTENDS Integers, FiniteSets, Sequences

CONSTANTS
  Subs,           \* subscriptions, numbered in the order of their ids
  Worlds,         \* what the subscriptions may do: functions from Subs to lives (see LifeType)
  Changes,        \* the days a pricing change takes effect
  Notice,         \* days before that its row is in bronze
  Lead,           \* as_of lies Lead days before the renewal (T-7)
  HitWindow,      \* days a hit counts, up to as_of
  ChangeWindow,   \* FIRST_RENEWAL_WINDOW_DAYS
  Retries,        \* days after the renewal a failed payment is tried again, 0 the first
  Period,         \* days between two renewals
  K,              \* neighbours kept per renewal
  MaxDay,         \* bound: the last day that lands
  None            \* a null

ASSUME DaysAssumption == /\ Subs \subseteq Nat /\ Subs # {} /\ IsFiniteSet(Subs)
                         /\ Changes \subseteq Int /\ IsFiniteSet(Changes) /\ None \notin Int
                         /\ Lead \in Nat \ {0} /\ K \in Nat \ {0}
                         /\ HitWindow \in Nat /\ Notice \in Nat /\ ChangeWindow \in Nat
                         /\ 0 \in Retries /\ Retries \subseteq Nat /\ \E last \in Retries : \A r \in Retries : r <= last
                         /\ Period \in Nat /\ Period > Lead /\ MaxDay \in Nat

\* Overage is enabled at the start of the period and only later switched off.
LifeType == [plan : {"pro", "ultra"}, renewal : Int, ends : {"renew", "cancel", "fail"},
             back : Nat, hits : SUBSET Int, off : Int \cup {None}]

ASSUME WorldsAssumption ==
  \A w \in Worlds :
    /\ w \in [Subs -> LifeType]
    /\ \A s \in Subs : IsFiniteSet(w[s].hits) /\ (w[s].off # None => w[s].renewal - Period < w[s].off)

VARIABLES
  life,     \* what each subscription does; bronze tells it day by day
  today,    \* the last day in bronze
  graph     \* the tables of the latest build, or None

vars == <<life, today, graph>>

LastRetry == CHOOSE d \in Retries : \A e \in Retries : e <= d

-----------------------------------------------------------------------------
(* Bronze. *)

\* The T-Lead snapshots a subscription leaves; only a renewed one comes to a second renewal.
Renewals(s) == {life[s].renewal} \cup IF life[s].ends = "renew" THEN {life[s].renewal + Period} ELSE {}
Snapshots(d) == {x \in UNION {{s} \X Renewals(s) : s \in Subs} : x[2] - Lead <= d}

\* The events dated up to d: the billing story of the life, cap hits, and overage switched on and off again.
Told(s) ==
  LET l == life[s]  t == l.renewal IN
    [hit       |-> l.hits,
     enabled   |-> IF l.off = None THEN {} ELSE {l.renewal - Period},
     disabled  |-> IF l.off = None THEN {} ELSE {l.off},
     scheduled |-> IF l.ends = "cancel" THEN {t - l.back} ELSE {},
     canceled  |-> CASE l.ends = "cancel" -> {t} [] l.ends = "fail" -> {t + LastRetry} [] OTHER -> {},
     paid      |-> {t - Period} \cup IF l.ends = "renew" THEN {t, t + Period} ELSE {},
     failed    |-> IF l.ends = "fail" THEN {t + r : r \in Retries} ELSE {}]

\* The pricing rows in bronze: all of them are read, those of changes to come too.
Announced(d) == {c \in Changes : c - Notice <= d}

On(s, kind, d) == {e \in Told(s)[kind] : e <= d}
Latest(S) == CHOOSE x \in S : \A y \in S : y <= x
Earliest(S) == CHOOSE x \in S : \A y \in S : x <= y

\* What gold() is given as today: snapshot_date.max(), which may lie before the last day of bronze.
LastSnapshot(d) == Latest({x[2] - Lead : x \in Snapshots(d)})

-----------------------------------------------------------------------------
(* Gold: one row per renewal. *)

\* Mutant: the window without its upper bound.
WindowNaive(S, asof, days) == {e \in S : asof - days < e}

\* _window(): as_of - days < event <= as_of.
Window(S, asof, days) == {e \in S : asof - days < e /\ e <= asof}

ToggledOff(s, asof, d) ==
  LET on == {e \in On(s, "enabled", d) : e <= asof}
      off == {e \in On(s, "disabled", d) : e <= asof}
  IN  on # {} /\ off # {} /\ Latest(on \cup off) \in off

FirstAfter(s, t, c) == t - ChangeWindow <= c /\ c < t /\ t - 2 * Period < c

\* Mutant: the last failed attempt is looked at, not the first.
OutcomeLastFailed(s, t, d) ==
  LET paid == On(s, "paid", d)          canceled == On(s, "canceled", d)
      sched == On(s, "scheduled", d)    failed == On(s, "failed", d)
  IN  CASE paid # {} /\ Latest(paid) = t -> "renewed"
        [] canceled # {} /\ Latest(canceled) = t /\ sched # {} /\ Latest(sched) <= t -> "voluntary_lapse"
        [] failed # {} /\ Latest(failed) = t /\ canceled # {} -> "involuntary_lapse"
        [] OTHER -> "pending"

\* outcome(): paid at T, cancelled at T as scheduled, or retries exhausted; the first rule that fits.
Outcome(s, t, d) ==
  LET paid == On(s, "paid", d)          canceled == On(s, "canceled", d)
      sched == On(s, "scheduled", d)    failed == On(s, "failed", d)
  IN  CASE paid # {} /\ Latest(paid) = t -> "renewed"
        [] canceled # {} /\ Latest(canceled) = t /\ sched # {} /\ Latest(sched) <= t -> "voluntary_lapse"
        [] failed # {} /\ Earliest(failed) = t /\ canceled # {} -> "involuntary_lapse"
        [] OTHER -> "pending"

Route(s, t, d) ==
  LET o == Outcome(s, t, d) IN
    CASE o = "renewed" -> "model"
      [] o = "voluntary_lapse" -> IF Latest(On(s, "scheduled", d)) <= t - Lead THEN "cancel_flow" ELSE "model"
      [] o = "involuntary_lapse" -> "dunning"
      [] OTHER -> IF t - Lead = LastSnapshot(d) THEN "score_today" ELSE "pending"

GoldRow(s, t, d) ==
  [plan |-> life[s].plan, renewal_date |-> t, as_of |-> t - Lead,
   hits |-> Cardinality(Window(On(s, "hit", d), t - Lead, HitWindow)),
   toggled |-> ToggledOff(s, t - Lead, d),
   first_after |-> \E c \in Announced(d) : FirstAfter(s, t, c),
   outcome |-> Outcome(s, t, d), route |-> Route(s, t, d)]

-----------------------------------------------------------------------------
(* build_tables(): the nodes and edges. *)

\* Mutant: observed on the renewal date unless lapsed.
ObservedUnlessLapsed(s, row, d) ==
  IF row.outcome \in {"voluntary_lapse", "involuntary_lapse"} THEN Latest(On(s, "canceled", d)) ELSE row.renewal_date

ObservedOn(s, row, d) ==
  CASE row.outcome = "renewed" -> row.renewal_date
    [] row.outcome \in {"voluntary_lapse", "involuntary_lapse"} -> Latest(On(s, "canceled", d))
    [] OTHER -> None

RenewalNode(s, row, d) ==
  [plan |-> row.plan, renewal_date |-> row.renewal_date, as_of |-> row.as_of, hits |-> row.hits,
   toggled |-> row.toggled, first_after |-> row.first_after, outcome |-> row.outcome, route |-> row.route,
   outcome_observed_on |-> ObservedOn(s, row, d)]

RenewalNodes(d) ==
  [s \in {x[1] : x \in Snapshots(d)} |->
     RenewalNode(s, GoldRow(s, CHOOSE t \in Renewals(s) : <<s, t>> \in Snapshots(d), d), d)]

\* Subscription->event edges <<subscription, event type, day>>; invoices before the renewal stay out of BILLED.
BilledTypes == {"scheduled", "canceled", "paid", "failed"}
EventTypes == {"hit", "enabled", "disabled"} \cup BilledTypes
EventEdges(ren, d) ==
  {e \in UNION {UNION {{<<s, k, day>> : day \in On(s, k, d)} : k \in EventTypes} : s \in DOMAIN ren} :
     e[2] \in {"paid", "failed"} => e[3] >= ren[e[1]].renewal_date}

OutcomeEvidence(ren, e) == e[2] \in BilledTypes /\ ~(e[2] = "scheduled" /\ e[3] <= ren[e[1]].as_of)

\* FIRST_RENEWAL_AFTER edges <<subscription, day of the change, known_by_as_of>>, by the gold rule.
FirstRenewalAfter(ren, d) ==
  {<<x[1], x[2], x[2] <= ren[x[1]].as_of>> : x \in {x \in (DOMAIN ren) \X Announced(d) :
     FirstAfter(x[1], ren[x[1]].renewal_date, x[2])}}

\* knn(): the plan's model rows by squared distance then id, the source itself last and cut off.  With every
\* reference row alike the scaler has no spread and all distances are 0.
References(ren) == {s \in DOMAIN ren : ren[s].route = "model"}
Spread(ren) == Cardinality({ren[s].hits : s \in References(ren)}) > 1
D2(ren, a, b) == IF Spread(ren) THEN (ren[a].hits - ren[b].hits) * (ren[a].hits - ren[b].hits) ELSE 0

\* Ties in distance go to the smaller id.
Closer(ren, a, b, c) == D2(ren, a, b) < D2(ren, a, c) \/ (D2(ren, a, b) = D2(ren, a, c) /\ b < c)

Block(ren, a) == {b \in References(ren) : ren[b].plan = ren[a].plan}
Before(ren, a, b, c) == \/ c = a /\ b # a
                        \/ a \notin {b, c} /\ Closer(ren, a, b, c)
Ordered(ren, a) ==
  CHOOSE seq \in [1..Cardinality(Block(ren, a)) -> Block(ren, a)] :
    \A i, j \in DOMAIN seq : i < j => Before(ren, a, seq[i], seq[j])

\* Mutant: a source that is itself a reference is not taken off the room of its block.
KEffWithSelf(ren, a) == IF K < Cardinality(Block(ren, a)) THEN K ELSE Cardinality(Block(ren, a))

KEff(ren, a) ==
  LET room == Cardinality(Block(ren, a)) - (IF a \in References(ren) THEN 1 ELSE 0)
  IN  IF K < room THEN K ELSE room

SimilarTo(ren) ==
  {<<x[1], x[2], Ordered(ren, x[1])[x[2]]>> : x \in {x \in (DOMAIN ren) \X (1..K) : x[2] <= KEff(ren, x[1])}}

\* The rank k+1 row of a source, where there is one.
CutRows(ren) == {<<a, Ordered(ren, a)[KEff(ren, a) + 1]>> : a \in
                   {a \in DOMAIN ren : Cardinality(Block(ren, a)) - (IF a \in References(ren) THEN 1 ELSE 0) > KEff(ren, a)}}

Tables(d) ==
  LET ren == RenewalNodes(d) IN
    [data_end |-> d, ren |-> ren, events |-> EventEdges(ren, d), after |-> FirstRenewalAfter(ren, d),
     cuts |-> Announced(d), similar |-> SimilarTo(ren), cut |-> CutRows(ren)]

\* Mutant: a subscription may come to its next renewal within one graph.
SomeSnapshot(d) == Snapshots(d) # {}

\* renewal-graph/v1 wants at most one T-7 snapshot of a subscription.
OneSnapshotEach(d) == \A s \in Subs : Cardinality({x \in Snapshots(d) : x[1] = s}) <= 1

\* The loader's COPY finds no node for an event of a subscription without a snapshot; only its invoices fell out
\* before, for want of a renewal date.
Loadable(d) ==
  \A s \in Subs \ {x[1] : x \in Snapshots(d)} : \A k \in EventTypes \ {"paid", "failed"} : On(s, k, d) = {}

-----------------------------------------------------------------------------
(* Days and builds. *)

Init ==
  /\ life \in Worlds
  /\ today = Earliest({life[s].renewal - Lead : s \in Subs})    \* the day of the first snapshot
  /\ graph = None

DayLands == today < MaxDay /\ today' = today + 1 /\ UNCHANGED <<life, graph>>

Build == OneSnapshotEach(today) /\ Loadable(today) /\ graph' = Tables(today) /\ UNCHANGED <<life, today>>

Next == DayLands \/ Build

Spec == Init /\ [][Next]_vars

-----------------------------------------------------------------------------
(* What is served and what is checked: the queries over the tables of one build. *)

\* evidence(): <<row type, day, known_by_as_of>>; only FIRST_RENEWAL_AFTER reaches past as_of, flagged.
Evidence(g, s) ==
  {<<e[2], e[3], TRUE>> : e \in {e \in g.events : /\ e[1] = s /\ e[3] <= g.ren[s].as_of
                                                  /\ ~OutcomeEvidence(g.ren, e)}}
  \cup {<<"cut_cap", c, TRUE>> : c \in {c \in g.cuts : c <= g.ren[s].as_of}}
  \cup {<<"first_renewal_after", f[2], f[3]>> : f \in {f \in g.after : f[1] = s}}

\* The contract's Cypher: each feature again, from the edges of the graph alone.
EdgeDays(g, s, k) == {e[3] : e \in {e \in g.events : e[1] = s /\ e[2] = k}}
\* Mutant: the window in Cypher is closed at its lower end.
PitHitsClosed(g, s) == Cardinality({e \in EdgeDays(g, s, "hit") : e <= g.ren[s].as_of /\ e >= g.ren[s].as_of - HitWindow})
PitHits(g, s) == Cardinality({e \in EdgeDays(g, s, "hit") : e <= g.ren[s].as_of /\ e > g.ren[s].as_of - HitWindow})
PitToggled(g, s) ==
  LET on == {e \in EdgeDays(g, s, "enabled") : e <= g.ren[s].as_of}
      off == {e \in EdgeDays(g, s, "disabled") : e <= g.ren[s].as_of}
  IN  on # {} /\ off # {} /\ Latest(off) > Latest(on)
PitFirstAfter(g, s) == \E f \in g.after : f[1] = s

\* The motif of the cohort goldens, in Cypher and in the oracle.
HitThenOff(g, s) == \E h \in EdgeDays(g, s, "hit"), o \in EdgeDays(g, s, "disabled") : h <= o /\ o <= g.ren[s].as_of
OracleHitThenOff(g, s) ==
  LET hit == {e \in EdgeDays(g, s, "hit") : e <= g.ren[s].as_of}
      off == {e \in EdgeDays(g, s, "disabled") : e <= g.ren[s].as_of}
  IN  hit # {} /\ off # {} /\ Earliest(hit) <= Latest(off)

\* _independent_top_k(): a candidate's rank is the number of candidates before it.
OracleSimilar(ren) ==
  {x \in (DOMAIN ren) \X (1..K) \X (DOMAIN ren) :
     LET cand == {c \in DOMAIN ren \ {x[1]} : ren[c].route = "model" /\ ren[c].plan = ren[x[1]].plan}
     IN  x[3] \in cand /\ x[2] - 1 = Cardinality({c \in cand : Closer(ren, x[1], c, x[3])})}

\* visible_or_current(): the neighbour's outcome was observed by the source's as_of, or the source is current
\* and today's view was asked for.
CurrentRoutes == {"score_today", "pending"}
ObservedBy(node, day) == node.outcome_observed_on # None /\ node.outcome_observed_on <= day
\* Mutant: the neighbour's outcome against the source's renewal date.
VisibleByRenewal(g, a, b, visibility) ==
  \/ ObservedBy(g.ren[b], g.ren[a].renewal_date)
  \/ visibility = "today" /\ g.ren[a].route \in CurrentRoutes

Visible(g, a, b, visibility) ==
  \/ ObservedBy(g.ren[b], g.ren[a].as_of)
  \/ visibility = "today" /\ g.ren[a].route \in CurrentRoutes

\* graph_similar_renewals: "today" is refused for a historical source; the outcomes an answer shows.
Resolved(g, a, asked) == CASE asked # "auto" -> asked
                           [] g.ren[a].route \in CurrentRoutes -> "today"
                           [] OTHER -> "source_as_of"
Served(g, a, asked) == asked = "today" => g.ren[a].route \in CurrentRoutes
ShownOutcomes(g, a, asked) ==
  {<<n[3], g.ren[n[3]].outcome>> : n \in {n \in g.similar : /\ Served(g, a, asked) /\ n[1] = a
                                                           /\ Visible(g, a, n[3], Resolved(g, a, asked))}}

\* similar_nearest_lapses_known_by_as_of: lapses on a SIMILAR_TO path from the source, already observed.
Reach(g, a) ==
  LET step[n \in 0..Cardinality(Subs)] ==
        IF n = 0 THEN {a} ELSE step[n - 1] \cup {e[3] : e \in {e \in g.similar : e[1] \in step[n - 1]}}
  IN  step[Cardinality(Subs)]
KnownLapses(g, a) ==
  {b \in Reach(g, a) \ {a} : g.ren[b].outcome = "voluntary_lapse" /\ ObservedBy(g.ren[b], g.ren[a].as_of)}

-----------------------------------------------------------------------------
(* Properties. *)

\* Type correctness, and what the schema of the graph demands of its tables: keys, endpoints and nulls.
TypeOK ==
  /\ today \in Int
  /\ graph # None =>
       /\ graph.data_end <= today /\ DOMAIN graph.ren \subseteq Subs
       /\ \A s \in DOMAIN graph.ren : LET seen == graph.ren[s].outcome_observed_on IN
            (seen = None <=> graph.ren[s].outcome = "pending") /\ (seen # None => seen <= graph.data_end)
       /\ \A e \in graph.events : e[1] \in DOMAIN graph.ren /\ e[3] <= graph.data_end

\* Non-interference in time: whatever happened after a renewal's as_of, its features and its evidence are those
\* a build of the as_of day itself would have made.  The one exception is declared: a pricing change between
\* as_of and the renewal counts, and its row says it was not known.
AsOfViewIsPast ==
  graph # None => \A s \in DOMAIN graph.ren :
    LET d == graph.ren[s].as_of  then == GoldRow(s, graph.ren[s].renewal_date, d)
        only == [x \in {s} |-> then]
        past == [ren |-> only, cuts |-> Announced(d), events |-> EventEdges(only, d),
                 after |-> FirstRenewalAfter(only, d)]
        known == {x \in Evidence(graph, s) : x[3]}
    IN  /\ known = {x \in Evidence(past, s) : x[3]}
        /\ graph.ren[s].hits = then.hits /\ graph.ren[s].toggled = then.toggled
        /\ graph.ren[s].first_after # then.first_after => known # Evidence(graph, s)

\* Point-in-time parity: the features of gold, counted in bronze, are those the graph's edges give back, in
\* Cypher and in the oracle, and the hit-then-overage-off motif has the same members in both.
PitParity ==
  graph # None => \A s \in DOMAIN graph.ren :
    /\ graph.ren[s].hits = PitHits(graph, s)
    /\ graph.ren[s].toggled = PitToggled(graph, s)
    /\ graph.ren[s].first_after = PitFirstAfter(graph, s)
    /\ HitThenOff(graph, s) = OracleHitThenOff(graph, s)

\* A historical source is shown no neighbour outcome from its own future: every outcome shown, and every lapse a
\* path leads to, is one a build of the source's as_of already knew, whatever visibility is asked for.
ShownWasKnown ==
  graph # None => \A a \in DOMAIN graph.ren :
    LET asof == graph.ren[a].as_of  Was(b) == Outcome(b, graph.ren[b].renewal_date, asof) IN
      /\ graph.ren[a].route \notin CurrentRoutes =>
           \A asked \in {"auto", "today", "source_as_of"} : \A x \in ShownOutcomes(graph, a, asked) : Was(x[1]) = x[2]
      /\ \A b \in KnownLapses(graph, a) : Was(b) = "voluntary_lapse"

\* SIMILAR_TO by the blocked, masked sort of the builder is the oracle's top k, ties and short blocks included,
\* and the cut row of a source is the next candidate after its neighbours.
SimilarIsTopK ==
  graph # None =>
    /\ graph.similar = OracleSimilar(graph.ren)
    /\ \A c \in graph.cut : c[1] # c[2] /\ \A n \in graph.similar : n[1] = c[1] => Closer(graph.ren, c[1], n[3], c[2])

\* Once the retries are over, the outcome rules have decided every renewal the way the subscription went.
OutcomesSettle ==
  graph # None => \A s \in DOMAIN graph.ren :
    graph.data_end >= graph.ren[s].renewal_date + LastRetry =>
      graph.ren[s].outcome = (CASE life[s].ends = "renew" -> "renewed"
                                [] life[s].ends = "cancel" -> "voluntary_lapse"
                                [] life[s].ends = "fail" -> "involuntary_lapse")

\* No later build takes an outcome back, moves the day it was observed or routes the renewal anew: the labelled
\* population only grows.
OutcomeIsFinal ==
  [][graph # None /\ graph' # None => \A s \in DOMAIN graph.ren :
       graph.ren[s].outcome # "pending" =>
         /\ s \in DOMAIN graph'.ren /\ graph'.ren[s].outcome = graph.ren[s].outcome
         /\ graph'.ren[s].outcome_observed_on = graph.ren[s].outcome_observed_on
         /\ graph'.ren[s].route = graph.ren[s].route]_vars

\* docs/graph/data-model.md, invariant 4: BILLED on or before as_of is cancel_scheduled, and the route is
\* cancel_flow if and only if there is such an edge.
CancelFlowIff ==
  graph # None => \A s \in DOMAIN graph.ren :
    LET billed == {e \in graph.events : e[1] = s /\ e[2] \in BilledTypes /\ e[3] <= graph.ren[s].as_of} IN
      /\ \A e \in billed : e[2] = "scheduled"
      /\ graph.ren[s].route = "cancel_flow" <=> billed # {}

=============================================================================

------------------------- MODULE RenewalGraphProofs -------------------------
(***************************************************************************)
(* What holds of every build, for all lives that subscriptions may lead:   *)
(* any number of them, any days, windows, retries and pricing changes.     *)
(***************************************************************************)
EXTENDS EvidenceGraph, OrderLemmas

\* The subscriptions with a snapshot by day d.
Seen(d) == {s \in Subs : life[s].renewal - Lead <= d}

\* A graph is what some complete day d of bronze gives, a day with no second snapshot of a subscription.
Living(d) == life \in Worlds /\ d \in Int /\ OneSnapshotEach(d)

IInv ==
  /\ life \in Worlds /\ today \in Int
  /\ graph # None => /\ graph.data_end <= today /\ Living(graph.data_end)
                     /\ graph = Tables(graph.data_end)

\* What the outcome rules come to, read off the life.
Decided(s, d) ==
  LET t == life[s].renewal IN
    CASE life[s].ends = "renew" /\ t <= d -> "renewed"
      [] life[s].ends = "cancel" /\ t <= d -> "voluntary_lapse"
      [] life[s].ends = "fail" /\ t + LastRetry <= d -> "involuntary_lapse"
      [] OTHER -> "pending"

\* The day an outcome counts as observed.
Observed(s, d) ==
  CASE Decided(s, d) \in {"renewed", "voluntary_lapse"} -> life[s].renewal
    [] Decided(s, d) = "involuntary_lapse" -> life[s].renewal + LastRetry
    [] OTHER -> None

-----------------------------------------------------------------------------
(* Days. *)

LEMMA LatestIs ==
  ASSUME NEW S \in SUBSET Int, NEW x \in S, \A y \in S : y <= x
  PROVE  Latest(S) = x
<1>1. \A z \in S : (\A y \in S : y <= z) => z = x
  OBVIOUS
<1> QED BY <1>1 DEF Latest

LEMMA EarliestIs ==
  ASSUME NEW S \in SUBSET Int, NEW x \in S, \A y \in S : x <= y
  PROVE  Earliest(S) = x
<1>1. \A z \in S : (\A y \in S : z <= y) => z = x
  OBVIOUS
<1> QED BY <1>1 DEF Earliest

LEMMA OnlyDay ==
  ASSUME NEW x \in Int
  PROVE  Latest({x}) = x /\ Earliest({x}) = x
<1>1. {x} \in SUBSET Int /\ x \in {x} /\ \A y \in {x} : y <= x /\ x <= y
  OBVIOUS
<1>2. Latest({x}) = x
  BY <1>1, LatestIs
<1>3. Earliest({x}) = x
  BY <1>1, EarliestIs
<1> QED BY <1>2, <1>3

LEMMA LastRetryIs == LastRetry \in Retries /\ LastRetry \in Nat /\ \A r \in Retries : r \in Nat /\ r <= LastRetry
<1>1. PICK last \in Retries : \A r \in Retries : r <= last
  BY DaysAssumption
<1>2. LastRetry \in Retries /\ \A r \in Retries : r <= LastRetry
  BY <1>1 DEF LastRetry
<1> QED BY <1>2, DaysAssumption

LEMMA Lives ==
  ASSUME life \in Worlds, NEW s \in Subs
  PROVE  /\ life[s].renewal \in Int /\ life[s].back \in Nat /\ life[s].ends \in {"renew", "cancel", "fail"}
         /\ life[s].hits \in SUBSET Int /\ IsFiniteSet(life[s].hits)
         /\ life[s].plan \in {"pro", "ultra"} /\ life[s].off \in Int \cup {None}
         /\ life[s].off # None => life[s].renewal - Period < life[s].off
<1>1. life \in [Subs -> LifeType] /\ IsFiniteSet(life[s].hits)
  BY WorldsAssumption
<1>2. life[s].off # None => life[s].renewal - Period < life[s].off
  BY WorldsAssumption
<1> QED BY <1>1, <1>2 DEF LifeType

\* What bronze tells of a life up to a day, kind by kind.
LEMMA OnIs ==
  ASSUME NEW s, NEW d
  PROVE  LET l == life[s]  t == l.renewal IN
    /\ On(s, "hit", d) = {e \in l.hits : e <= d}
    /\ On(s, "enabled", d) = {e \in IF l.off = None THEN {} ELSE {t - Period} : e <= d}
    /\ On(s, "disabled", d) = {e \in IF l.off = None THEN {} ELSE {l.off} : e <= d}
    /\ On(s, "scheduled", d) = {e \in IF l.ends = "cancel" THEN {t - l.back} ELSE {} : e <= d}
    /\ On(s, "canceled", d) = {e \in CASE l.ends = "cancel" -> {t} [] l.ends = "fail" -> {t + LastRetry}
                                       [] OTHER -> {} : e <= d}
    /\ On(s, "paid", d) = {e \in {t - Period} \cup IF l.ends = "renew" THEN {t, t + Period} ELSE {} : e <= d}
    /\ On(s, "failed", d) = {e \in IF l.ends = "fail" THEN {t + r : r \in Retries} ELSE {} : e <= d}
BY DEF On, Told

LEMMA OutcomeIs ==
  ASSUME life \in Worlds, NEW s \in Subs, NEW d \in Int,
         life[s].ends = "renew" => d < life[s].renewal + Period
  PROVE  Outcome(s, life[s].renewal, d) = Decided(s, d)
<1> DEFINE t == life[s].renewal
           paid == On(s, "paid", d)          canceled == On(s, "canceled", d)
           sched == On(s, "scheduled", d)    failed == On(s, "failed", d)
<1>1. t \in Int /\ life[s].back \in Nat /\ life[s].ends \in {"renew", "cancel", "fail"}
  BY Lives
<1>2. Lead \in Nat /\ Period \in Nat /\ Period > 0 /\ LastRetry \in Nat
  BY DaysAssumption, LastRetryIs
<1>3. CASE life[s].ends = "renew"
  <2>1. canceled = {} /\ failed = {} /\ sched = {}
    BY <1>3, OnIs
  <2>2. paid = {e \in {t - Period, t} : e <= d}
    BY <1>1, <1>2, <1>3, OnIs
  <2>3. t <= d => Latest(paid) = t
    <3>1. t <= d => paid \in SUBSET Int /\ t \in paid /\ \A y \in paid : y <= t
      BY <1>1, <1>2, <2>2
    <3> QED BY <3>1, LatestIs
  <2>4. ~(t <= d) => paid \subseteq {t - Period}
    BY <1>1, <1>2, <2>2
  <2>5. ~(t <= d) /\ paid # {} => Latest(paid) = t - Period
    <3>1. ~(t <= d) /\ paid # {} => paid \in SUBSET Int /\ t - Period \in paid /\ \A y \in paid : y <= t - Period
      BY <1>1, <1>2, <2>4
    <3> QED BY <3>1, LatestIs
  <2>6. paid # {} /\ Latest(paid) = t <=> t <= d
    BY <1>1, <1>2, <2>2, <2>3, <2>5
  <2> QED BY <1>3, <2>1, <2>6 DEF Outcome, Decided
<1>4. ASSUME life[s].ends # "renew" PROVE ~(paid # {} /\ Latest(paid) = t)
  <2>1. paid = {e \in {t - Period} : e <= d}
    BY <1>4, OnIs
  <2>2. paid # {} => paid \in SUBSET Int /\ t - Period \in paid /\ \A y \in paid : y <= t - Period
    BY <1>1, <1>2, <2>1
  <2>3. paid # {} => Latest(paid) = t - Period
    BY <2>2, LatestIs
  <2> QED BY <1>1, <1>2, <2>3
<1>5. CASE life[s].ends = "cancel"
  <2>1. failed = {} /\ canceled = {e \in {t} : e <= d} /\ sched = {e \in {t - life[s].back} : e <= d}
    BY <1>5, OnIs
  <2>2. t <= d => canceled = {t} /\ sched = {t - life[s].back}
    BY <1>1, <2>1
  <2>3. t <= d => Latest(canceled) = t /\ Latest(sched) = t - life[s].back
    BY <1>1, <2>2, OnlyDay
  <2>4. canceled # {} => t <= d
    BY <2>1
  <2>5. canceled # {} /\ Latest(canceled) = t /\ sched # {} /\ Latest(sched) <= t <=> t <= d
    BY <1>1, <2>2, <2>3, <2>4
  <2> HIDE DEF t, paid, canceled, sched, failed
  <2>6. failed = {}
    BY <2>1
  <2> QED BY <1>4, <1>5, <2>5, <2>6 DEF Outcome, Decided, t, paid, canceled, sched, failed
<1>6. CASE life[s].ends = "fail"
  <2>1. sched = {} /\ canceled = {e \in {t + LastRetry} : e <= d} /\ failed = {e \in {t + r : r \in Retries} : e <= d}
    BY <1>6, OnIs
  <2>2. canceled # {} <=> t + LastRetry <= d
    BY <2>1
  <2>3. t + LastRetry <= d => failed \in SUBSET Int /\ t \in failed /\ \A y \in failed : t <= y
    BY <1>1, <1>2, <2>1, LastRetryIs, DaysAssumption
  <2>4. t + LastRetry <= d => Earliest(failed) = t
    BY <2>3, EarliestIs
  <2>5. failed # {} /\ Earliest(failed) = t /\ canceled # {} <=> t + LastRetry <= d
    BY <2>2, <2>3, <2>4
  <2> QED BY <1>4, <1>6, <2>1, <2>5 DEF Outcome, Decided
<1> QED BY <1>1, <1>3, <1>5, <1>6

-----------------------------------------------------------------------------
(* The rows of a build. *)

LEMMA SnapshotIs ==
  ASSUME NEW s \in Subs, NEW t, NEW d
  PROVE  <<s, t>> \in Snapshots(d) <=> t \in Renewals(s) /\ t - Lead <= d
<1>1. <<s, t>> \in UNION {{r} \X Renewals(r) : r \in Subs} <=> t \in Renewals(s)
  OBVIOUS
<1> QED BY <1>1 DEF Snapshots

\* A graph has one renewal of each subscription seen: the first, and its second is not looked at yet.
LEMMA OneEach ==
  ASSUME NEW d, Living(d), NEW s \in Subs, s \in Seen(d)
  PROVE  /\ life[s].renewal - Lead <= d
         /\ life[s].ends = "renew" => d < life[s].renewal + Period - Lead
         /\ (CHOOSE t \in Renewals(s) : <<s, t>> \in Snapshots(d)) = life[s].renewal
         /\ \E x \in Snapshots(d) : x[1] = s
<1> DEFINE t == life[s].renewal  mine == {x \in Snapshots(d) : x[1] = s}
<1>1. t \in Int /\ d \in Int /\ Lead \in Nat /\ Period \in Nat /\ Period > 0
  BY Lives, DaysAssumption DEF Living
<1>2. Renewals(s) = {t} \cup IF life[s].ends = "renew" THEN {t + Period} ELSE {}
  BY DEF Renewals
<1>3. \A x \in mine : x = <<s, x[2]>> /\ x[2] \in Renewals(s)
  BY DEF Snapshots
<1>4. mine \subseteq {<<s, t>>, <<s, t + Period>>}
  BY <1>2, <1>3
<1>5. IsFiniteSet({<<s, t>>} \cup {<<s, t + Period>>})
  BY FS_Singleton, FS_Union
<1>6. IsFiniteSet(mine)
  <2>1. mine \in SUBSET ({<<s, t>>} \cup {<<s, t + Period>>})
    BY <1>4
  <2> QED BY <1>5, <2>1, FS_Subset
<1>7. Cardinality(mine) <= 1
  BY DEF Living, OneSnapshotEach
<1>8. t - Lead <= d
  BY DEF Seen
<1>9. <<s, t>> \in mine
  BY <1>2, <1>8, SnapshotIs
<1>10. Cardinality(mine) = 1
  <2>1. mine # {}
    BY <1>9, Zenon
  <2> HIDE DEF mine
  <2>2. Cardinality(mine) \in Nat /\ Cardinality(mine) # 0
    BY <1>6, <2>1, FS_CardinalityType, FS_EmptySet
  <2> QED BY <1>7, <2>2
<1>11. PICK only : mine = {only}
  BY <1>6, <1>10, FS_Singleton
<1>12. t + Period \in Renewals(s) => ~(t + Period - Lead <= d)
  <2> SUFFICES ASSUME t + Period \in Renewals(s), t + Period - Lead <= d PROVE FALSE
    OBVIOUS
  <2>1. \A u : u = t + Period => <<s, u>> \in Snapshots(d)
    BY <1>1, SnapshotIs
  <2>2. <<s, t + Period>> \in mine
    BY <2>1
  <2>3. <<s, t>> = <<s, t + Period>>
    BY <1>9, <1>11, <2>2
  <2> QED BY <1>1, <2>3
<1>13. \A u \in Renewals(s) : <<s, u>> \in Snapshots(d) <=> u = t
  BY <1>1, <1>2, <1>8, <1>12, SnapshotIs
<1>14. t \in Renewals(s)
  BY <1>2
<1>15. (CHOOSE u \in Renewals(s) : <<s, u>> \in Snapshots(d)) = t
  BY <1>13, <1>14
<1>16. life[s].ends = "renew" => t + Period \in Renewals(s)
  BY <1>2
<1>17. \E x \in Snapshots(d) : x[1] = s
  BY <1>9
<1> QED BY <1>1, <1>8, <1>12, <1>15, <1>16, <1>17

\* The row of a subscription in the graph of day d.
Row(s, d) == RenewalNode(s, GoldRow(s, life[s].renewal, d), d)

LEMMA RowsAre ==
  ASSUME NEW d, Living(d)
  PROVE  RenewalNodes(d) = [s \in Seen(d) |-> Row(s, d)]
<1>1. {x[1] : x \in Snapshots(d)} = Seen(d)
  <2>1. ASSUME NEW x \in Snapshots(d) PROVE x[1] \in Seen(d)
    <3>1. x[1] \in Subs /\ x[2] \in Renewals(x[1]) /\ x[2] - Lead <= d
      BY DEF Snapshots
    <3>2. x[2] = life[x[1]].renewal \/ x[2] = life[x[1]].renewal + Period
      BY <3>1 DEF Renewals
    <3>3. life[x[1]].renewal \in Int /\ d \in Int /\ Lead \in Nat /\ Period \in Nat
      BY <3>1, Lives, DaysAssumption DEF Living
    <3> QED BY <3>1, <3>2, <3>3 DEF Seen
  <2>2. \A s \in Seen(d) : \E x \in Snapshots(d) : x[1] = s
    BY OneEach DEF Seen
  <2> QED BY <2>1, <2>2
<1>2. \A s \in Seen(d) : (CHOOSE t \in Renewals(s) : <<s, t>> \in Snapshots(d)) = life[s].renewal
  BY OneEach DEF Seen
<1> DEFINE node(s, t) == RenewalNode(s, GoldRow(s, t, d), d)
           first(s) == CHOOSE t \in Renewals(s) : <<s, t>> \in Snapshots(d)
<1>3. RenewalNodes(d) = [s \in Seen(d) |-> node(s, first(s))]
  BY <1>1 DEF RenewalNodes
<1>4. \A s \in Seen(d) : first(s) = life[s].renewal
  BY <1>2
<1> HIDE DEF node, first
<1>5. \A s \in Seen(d) : node(s, first(s)) = node(s, life[s].renewal)
  BY <1>4
<1>6. [s \in Seen(d) |-> node(s, first(s))] = [s \in Seen(d) |-> node(s, life[s].renewal)]
  BY <1>5
<1>7. \A s \in Seen(d) : node(s, life[s].renewal) = Row(s, d)
  BY DEF node, Row
<1> QED BY <1>3, <1>6, <1>7

\* What the properties ask of a row.
LEMMA RowIs ==
  ASSUME NEW d, Living(d), NEW s \in Subs, s \in Seen(d), NEW row, row = Row(s, d), NEW t, t = life[s].renewal
  PROVE  /\ row.plan = life[s].plan /\ row.renewal_date = t /\ row.as_of = t - Lead
         /\ row.hits = Cardinality(Window(On(s, "hit", d), t - Lead, HitWindow))
         /\ row.outcome = Decided(s, d) /\ row.route = Route(s, t, d)
         /\ row.outcome_observed_on = Observed(s, d)
<1> DEFINE gold == GoldRow(s, t, d)
<1>1. t \in Int /\ d \in Int /\ Lead \in Nat /\ life[s].ends \in {"renew", "cancel", "fail"} /\ LastRetry \in Nat
  BY Lives, DaysAssumption, LastRetryIs DEF Living
<1>2. life[s].ends = "renew" => d < t + Period
  <2>1. life[s].ends = "renew" => d < t + Period - Lead
    BY OneEach
  <2> QED BY <1>1, <2>1, DaysAssumption
<1>3. Outcome(s, t, d) = Decided(s, d)
  BY <1>1, <1>2, OutcomeIs DEF Living
<1>4. gold.outcome = Decided(s, d) /\ gold.renewal_date = t
  BY <1>3 DEF GoldRow
<1>5. ASSUME Decided(s, d) = "voluntary_lapse" PROVE Latest(On(s, "canceled", d)) = t
  <2>1. life[s].ends = "cancel" /\ t <= d
    BY <1>1, <1>5 DEF Decided
  <2>2. On(s, "canceled", d) = {t}
    BY <1>1, <2>1, OnIs
  <2> QED BY <1>1, <2>2, OnlyDay
<1>6. ASSUME Decided(s, d) = "involuntary_lapse" PROVE Latest(On(s, "canceled", d)) = t + LastRetry
  <2>1. life[s].ends = "fail" /\ t + LastRetry <= d
    BY <1>1, <1>6 DEF Decided
  <2>2. On(s, "canceled", d) = {t + LastRetry}
    BY <1>1, <2>1, OnIs
  <2> QED BY <1>1, <2>2, OnlyDay
<1>7. ObservedOn(s, gold, d) = Observed(s, d)
  BY <1>4, <1>5, <1>6 DEF ObservedOn, Observed
<1>8. /\ Row(s, d).outcome = gold.outcome /\ Row(s, d).outcome_observed_on = ObservedOn(s, gold, d)
      /\ Row(s, d).plan = gold.plan /\ Row(s, d).renewal_date = gold.renewal_date /\ Row(s, d).as_of = gold.as_of
      /\ Row(s, d).hits = gold.hits /\ Row(s, d).route = gold.route
  BY DEF Row, RenewalNode
<1>9. /\ gold.plan = life[s].plan /\ gold.as_of = t - Lead /\ gold.route = Route(s, t, d)
      /\ gold.hits = Cardinality(Window(On(s, "hit", d), t - Lead, HitWindow))
  BY DEF GoldRow
<1> QED BY <1>4, <1>7, <1>8, <1>9

LEMMA FlagsAre ==
  ASSUME NEW d, NEW s \in Subs
  PROVE  /\ Row(s, d).toggled \in BOOLEAN /\ Row(s, d).first_after \in BOOLEAN
         /\ Row(s, d).toggled <=> ToggledOff(s, life[s].renewal - Lead, d)
         /\ Row(s, d).first_after <=> \E c \in Announced(d) : FirstAfter(s, life[s].renewal, c)
<1> DEFINE t == life[s].renewal  gold == GoldRow(s, t, d)  after == \E c \in Announced(d) : FirstAfter(s, t, c)
<1>1. Row(s, d).toggled = gold.toggled /\ Row(s, d).first_after = gold.first_after
  BY DEF Row, RenewalNode
<1>2. gold.toggled = ToggledOff(s, t - Lead, d) /\ gold.first_after = after
  BY Zenon DEF GoldRow
<1>3. ToggledOff(s, t - Lead, d) \in BOOLEAN /\ after \in BOOLEAN
  BY Zenon DEF ToggledOff
<1> HIDE DEF gold, after
<1>4. /\ Row(s, d).toggled \in BOOLEAN /\ Row(s, d).first_after \in BOOLEAN
      /\ Row(s, d).toggled <=> ToggledOff(s, t - Lead, d)
      /\ Row(s, d).first_after <=> after
  BY <1>1, <1>2, <1>3, Zenon
<1> QED BY <1>4 DEF after

-----------------------------------------------------------------------------
(* The tables of a build. *)

LEMMA TablesAre ==
  ASSUME NEW d, Living(d), NEW g, g = Tables(d)
  PROVE  /\ g.data_end = d /\ g.ren = [s \in Seen(d) |-> Row(s, d)] /\ DOMAIN g.ren = Seen(d)
         /\ g.events = EventEdges(g.ren, d) /\ g.after = FirstRenewalAfter(g.ren, d)
         /\ g.cuts = Announced(d) /\ g.similar = SimilarTo(g.ren) /\ g.cut = CutRows(g.ren)
<1>1. RenewalNodes(d) = [s \in Seen(d) |-> Row(s, d)]
  BY RowsAre
<1>2. g.ren = RenewalNodes(d)
  BY DEF Tables
<1>3. /\ g.data_end = d /\ g.events = EventEdges(g.ren, d) /\ g.after = FirstRenewalAfter(g.ren, d)
      /\ g.cuts = Announced(d) /\ g.similar = SimilarTo(g.ren) /\ g.cut = CutRows(g.ren)
  BY DEF Tables
<1> QED BY <1>1, <1>2, <1>3

LEMMA EdgeIs ==
  ASSUME NEW ren, NEW d, NEW e
  PROVE  e \in EventEdges(ren, d) <=>
           \E s \in DOMAIN ren, k \in EventTypes : \E day \in On(s, k, d) :
             e = <<s, k, day>> /\ (k \in {"paid", "failed"} => day >= ren[s].renewal_date)
<1> DEFINE all == UNION {UNION {{<<s, k, day>> : day \in On(s, k, d)} : k \in EventTypes} : s \in DOMAIN ren}
<1>1. e \in EventEdges(ren, d) <=> e \in all /\ (e[2] \in {"paid", "failed"} => e[3] >= ren[e[1]].renewal_date)
  BY Zenon DEF EventEdges
<1>2. e \in all <=> \E s \in DOMAIN ren, k \in EventTypes : \E day \in On(s, k, d) : e = <<s, k, day>>
  OBVIOUS
<1> HIDE DEF all
<1>3. \A s, k, day : e = <<s, k, day>> => e[1] = s /\ e[2] = k /\ e[3] = day
  OBVIOUS
<1>4. ASSUME e \in EventEdges(ren, d)
      PROVE  \E s \in DOMAIN ren, k \in EventTypes : \E day \in On(s, k, d) :
               e = <<s, k, day>> /\ (k \in {"paid", "failed"} => day >= ren[s].renewal_date)
  <2>1. PICK s \in DOMAIN ren, k \in EventTypes : \E day \in On(s, k, d) : e = <<s, k, day>>
    BY <1>1, <1>2, <1>4
  <2>2. PICK day \in On(s, k, d) : e = <<s, k, day>>
    BY <2>1
  <2>3. e[1] = s /\ e[2] = k /\ e[3] = day
    BY <2>2
  <2>4. k \in {"paid", "failed"} => day >= ren[s].renewal_date
    BY <1>1, <1>4, <2>3
  <2> QED BY <2>2, <2>4
<1>5. ASSUME NEW s \in DOMAIN ren, NEW k \in EventTypes, NEW day \in On(s, k, d),
             e = <<s, k, day>>, k \in {"paid", "failed"} => day >= ren[s].renewal_date
      PROVE  e \in EventEdges(ren, d)
  <2>1. e[1] = s /\ e[2] = k /\ e[3] = day
    BY <1>5
  <2> QED BY <1>1, <1>2, <1>5, <2>1
<1> QED BY <1>4, <1>5

\* The edges of a feature give back what bronze told.
LEMMA FeatureDays ==
  ASSUME NEW g, NEW d, g.events = EventEdges(g.ren, d), NEW s \in DOMAIN g.ren, NEW k \in {"hit", "enabled", "disabled"}
  PROVE  EdgeDays(g, s, k) = On(s, k, d)
<1>1. k \in EventTypes /\ k \notin {"paid", "failed"}
  BY DEF EventTypes
<1>2. \A day : <<s, k, day>> \in g.events <=> day \in On(s, k, d)
  BY <1>1, EdgeIs
<1>3. \A e \in g.events : e[1] = s /\ e[2] = k => e = <<s, k, e[3]>>
  BY EdgeIs
<1>4. \A day : day \in EdgeDays(g, s, k) <=> <<s, k, day>> \in g.events
  BY <1>3 DEF EdgeDays
<1> QED BY <1>2, <1>4

LEMMA AfterIs ==
  ASSUME NEW ren, NEW d, NEW f
  PROVE  f \in FirstRenewalAfter(ren, d) <=>
           \E s \in DOMAIN ren, c \in Announced(d) :
             f = <<s, c, c <= ren[s].as_of>> /\ FirstAfter(s, ren[s].renewal_date, c)
<1> DEFINE flag(x) == x[2] <= ren[x[1]].as_of
           takes(x) == FirstAfter(x[1], ren[x[1]].renewal_date, x[2])
<1>1. FirstRenewalAfter(ren, d) = {<<x[1], x[2], flag(x)>> : x \in {x \in (DOMAIN ren) \X Announced(d) : takes(x)}}
  BY Zenon DEF FirstRenewalAfter
<1>2. f \in FirstRenewalAfter(ren, d) <=> \E x \in (DOMAIN ren) \X Announced(d) : takes(x) /\ f = <<x[1], x[2], flag(x)>>
  <2> HIDE DEF flag, takes
  <2> QED BY <1>1
<1>3. \A x \in (DOMAIN ren) \X Announced(d) : x[1] \in DOMAIN ren /\ x[2] \in Announced(d)
  OBVIOUS
<1>4. \A s \in DOMAIN ren, c \in Announced(d) :
         /\ flag(<<s, c>>) = (c <= ren[s].as_of)
         /\ takes(<<s, c>>) = (FirstAfter(s, ren[s].renewal_date, c))
         /\ <<s, c>> \in (DOMAIN ren) \X Announced(d) /\ <<s, c>>[1] = s /\ <<s, c>>[2] = c
  OBVIOUS
<1>5. \A x : /\ flag(x) = (x[2] <= ren[x[1]].as_of)
             /\ takes(x) = (FirstAfter(x[1], ren[x[1]].renewal_date, x[2]))
  BY Zenon
<1> HIDE DEF flag, takes
<1>6. ASSUME f \in FirstRenewalAfter(ren, d)
      PROVE  \E s \in DOMAIN ren, c \in Announced(d) :
               f = <<s, c, c <= ren[s].as_of>> /\ FirstAfter(s, ren[s].renewal_date, c)
  <2>1. PICK x \in (DOMAIN ren) \X Announced(d) : takes(x) /\ f = <<x[1], x[2], flag(x)>>
    BY <1>2, <1>6
  <2>2. flag(x) = (x[2] <= ren[x[1]].as_of) /\ FirstAfter(x[1], ren[x[1]].renewal_date, x[2])
    BY <1>5, <2>1, Zenon
  <2>3. f = <<x[1], x[2], x[2] <= ren[x[1]].as_of>>
    BY <2>1, <2>2, Zenon
  <2> QED BY <1>3, <2>2, <2>3, Zenon
<1>7. ASSUME NEW s \in DOMAIN ren, NEW c \in Announced(d), f = <<s, c, c <= ren[s].as_of>>,
             FirstAfter(s, ren[s].renewal_date, c)
      PROVE  f \in FirstRenewalAfter(ren, d)
  <2> DEFINE x == <<s, c>>
  <2>1. flag(x) = (c <= ren[s].as_of) /\ takes(x) /\ x \in (DOMAIN ren) \X Announced(d) /\ x[1] = s /\ x[2] = c
    BY <1>4, <1>7, Zenon
  <2>2. <<s, c, c <= ren[s].as_of>> = <<x[1], x[2], flag(x)>>
    BY <2>1, Zenon
  <2> HIDE DEF x
  <2> QED BY <1>2, <1>7, <2>1, <2>2, Zenon
<1> QED BY <1>6, <1>7, Zenon

LEMMA SameLives ==
  ASSUME life' = life, NEW d
  PROVE  Tables(d)' = Tables(d) /\ OneSnapshotEach(d)' = OneSnapshotEach(d)
<1>1. \A s, k, e : On(s, k, e)' = On(s, k, e)
  BY DEF On, Told
<1>2. \A s : Renewals(s)' = Renewals(s)
  BY DEF Renewals
<1>3. Snapshots(d)' = Snapshots(d)
  BY <1>2 DEF Snapshots
<1>4. \A s, t : Outcome(s, t, d)' = Outcome(s, t, d)
  BY <1>1, Zenon DEF Outcome
<1>5. \A s, t : Route(s, t, d)' = Route(s, t, d)
  BY <1>1, <1>3, <1>4, Zenon DEF Route, LastSnapshot
<1>6. \A s, t : ToggledOff(s, t, d)' = ToggledOff(s, t, d)
  BY <1>1, Zenon DEF ToggledOff
<1>7. \A s, t : GoldRow(s, t, d)' = GoldRow(s, t, d)
  BY <1>1, <1>4, <1>5, <1>6, Zenon DEF GoldRow
<1>8. \A s, row : ObservedOn(s, row, d)' = ObservedOn(s, row, d)
  BY <1>1, Zenon DEF ObservedOn
<1>9. \A s, row : RenewalNode(s, row, d)' = RenewalNode(s, row, d)
  BY <1>8, Zenon DEF RenewalNode
<1>10. RenewalNodes(d)' = RenewalNodes(d)
  BY <1>2, <1>3, <1>7, <1>9, Zenon DEF RenewalNodes
<1>11. \A ren : EventEdges(ren, d)' = EventEdges(ren, d)
  <2> TAKE ren
  <2>1. \A e : e \in EventEdges(ren, d)' <=> e \in EventEdges(ren, d)
    BY <1>1, SMT DEF EventEdges
  <2>2. EventEdges(ren, d)' \subseteq EventEdges(ren, d) /\ EventEdges(ren, d) \subseteq EventEdges(ren, d)'
    BY <2>1
  <2> QED BY <2>2
<1>12. Tables(d)' = Tables(d)
  BY <1>10, <1>11, Zenon DEF Tables
<1>13. OneSnapshotEach(d)' = OneSnapshotEach(d)
  BY <1>3, Zenon DEF OneSnapshotEach
<1> QED BY <1>12, <1>13

-----------------------------------------------------------------------------
(* The invariant. *)

LEMMA InitIInv == Init => IInv
<1> SUFFICES ASSUME Init PROVE IInv
  OBVIOUS
<1> DEFINE first == [s \in Subs |-> life[s].renewal - Lead]  days == {life[s].renewal - Lead : s \in Subs}
<1>1. life \in Worlds /\ today = Earliest(days) /\ graph = None
  BY DEF Init
<1>2. \A s \in Subs : life[s].renewal - Lead \in Int
  BY <1>1, Lives, DaysAssumption
<1>3. days \in SUBSET Int /\ days # {}
  BY <1>2, DaysAssumption
<1>4. first \in Surjection(Subs, days)
  BY DEF Surjection
<1>5. IsFiniteSet(days)
  BY <1>4, DaysAssumption, FS_Surjection
<1> HIDE DEF first, days
<1>6. PICK one \in days : \A day \in days : one <= day
  BY <1>3, <1>5, LeastInteger
<1>7. Earliest(days) = one
  BY <1>3, <1>6, EarliestIs
<1> QED BY <1>1, <1>3, <1>6, <1>7 DEF IInv

LEMMA NextIInv == IInv /\ [Next]_vars => IInv'
<1> SUFFICES ASSUME IInv, [Next]_vars PROVE IInv'
  OBVIOUS
<1>1. life' = life /\ life \in Worlds /\ today \in Int
  BY DEF IInv, Next, DayLands, Build, vars
<1>2. today' \in Int /\ today <= today'
  BY <1>1 DEF Next, DayLands, Build, vars
<1>3. \A d : Living(d)' <=> Living(d)
  BY <1>1, SameLives DEF Living
<1>4. \A d : Tables(d)' = Tables(d)
  BY <1>1, SameLives
<1>5. ASSUME graph' # None
      PROVE  \E d \in Int : graph' = Tables(d) /\ d <= today' /\ Living(d)
  <2>1. CASE Build
    <3>1. Living(today)
      BY <1>1, <2>1 DEF Living, Build
    <3> QED BY <1>1, <1>2, <2>1, <3>1 DEF Build
  <2>2. CASE UNCHANGED graph
    <3> DEFINE d == graph.data_end
    <3>1. d <= today /\ Living(d) /\ graph = Tables(d)
      BY <1>5, <2>2 DEF IInv
    <3>2. d \in Int
      BY <3>1 DEF Living
    <3>3. d <= today'
      BY <1>1, <1>2, <3>1, <3>2
    <3> QED BY <2>2, <3>1, <3>2, <3>3
  <2> QED BY <2>1, <2>2 DEF Next, DayLands, vars
<1>6. ASSUME graph' # None
      PROVE  (graph.data_end <= today /\ Living(graph.data_end) /\ graph = Tables(graph.data_end))'
  <2>1. PICK d \in Int : graph' = Tables(d) /\ d <= today' /\ Living(d)
    BY <1>5, <1>6
  <2>2. graph'.data_end = d
    BY <2>1, TablesAre
  <2>3. Living(d)' /\ Tables(d)' = Tables(d)
    BY <1>3, <1>4, <2>1
  <2> QED BY <2>1, <2>2, <2>3
<1> QED BY <1>1, <1>2, <1>6 DEF IInv

\* Every graph that is served is one that bronze gives.
THEOREM GraphIsBuilt == Spec => []IInv
<1>1. IInv /\ [Next]_vars => IInv'
  BY NextIInv
<1> QED BY InitIInv, <1>1, PTL DEF Spec

\* What the properties know of a served graph.
LEMMA ServedIs ==
  ASSUME IInv, graph # None, NEW d, d = graph.data_end
  PROVE  /\ d \in Int /\ Living(d) /\ life \in Worlds /\ graph = Tables(d) /\ d <= today /\ today \in Int
         /\ DOMAIN graph.ren = Seen(d) /\ graph.events = EventEdges(graph.ren, d)
         /\ graph.after = FirstRenewalAfter(graph.ren, d) /\ graph.cuts = Announced(d)
         /\ graph.similar = SimilarTo(graph.ren) /\ graph.cut = CutRows(graph.ren)
         /\ graph.ren = [s \in Seen(d) |-> Row(s, d)]
         /\ \A s \in Seen(d) : graph.ren[s] = Row(s, d)
<1>1. d \in Int /\ Living(d) /\ life \in Worlds /\ graph = Tables(d) /\ d <= today /\ today \in Int
  BY DEF IInv, Living
<1>2. /\ DOMAIN graph.ren = Seen(d) /\ graph.events = EventEdges(graph.ren, d)
      /\ graph.after = FirstRenewalAfter(graph.ren, d) /\ graph.cuts = Announced(d)
      /\ graph.similar = SimilarTo(graph.ren) /\ graph.cut = CutRows(graph.ren)
      /\ graph.ren = [s \in Seen(d) |-> Row(s, d)]
  BY <1>1, TablesAre
<1> QED BY <1>1, <1>2

\* Whose renewals are in it.
LEMMA InGraph ==
  ASSUME IInv, graph # None, NEW s \in DOMAIN graph.ren
  PROVE  s \in Subs /\ s \in Seen(graph.data_end)
<1>1. DOMAIN graph.ren = Seen(graph.data_end)
  BY ServedIs
<1> QED BY <1>1 DEF Seen

-----------------------------------------------------------------------------
(* Outcomes. *)

LEMMA TypeOKHolds == IInv => TypeOK
<1> SUFFICES ASSUME IInv PROVE TypeOK
  OBVIOUS
<1>1. ASSUME graph # None
      PROVE  /\ graph.data_end <= today /\ DOMAIN graph.ren \subseteq Subs
             /\ \A s \in DOMAIN graph.ren : LET seen == graph.ren[s].outcome_observed_on IN
                  (seen = None <=> graph.ren[s].outcome = "pending") /\ (seen # None => seen <= graph.data_end)
             /\ \A e \in graph.events : e[1] \in DOMAIN graph.ren /\ e[3] <= graph.data_end
  <2> DEFINE d == graph.data_end
  <2>1. /\ d \in Int /\ Living(d) /\ life \in Worlds /\ d <= today /\ DOMAIN graph.ren = Seen(d)
        /\ graph.events = EventEdges(graph.ren, d) /\ \A s \in Seen(d) : graph.ren[s] = Row(s, d)
    BY <1>1, ServedIs
  <2>2. ASSUME NEW s \in Subs, s \in Seen(d)
        PROVE  LET seen == graph.ren[s].outcome_observed_on IN
                 (seen = None <=> graph.ren[s].outcome = "pending") /\ (seen # None => seen <= d)
    <3> DEFINE t == life[s].renewal  row == graph.ren[s]
    <3>1. row.outcome = Decided(s, d) /\ row.outcome_observed_on = Observed(s, d)
      BY <2>1, <2>2, RowIs
    <3>2. t \in Int /\ LastRetry \in Nat /\ None \notin Int
      BY <2>1, Lives, LastRetryIs, DaysAssumption
    <3>3. \/ Decided(s, d) = "renewed" /\ t <= d
          \/ Decided(s, d) = "voluntary_lapse" /\ t <= d
          \/ Decided(s, d) = "involuntary_lapse" /\ t + LastRetry <= d
          \/ Decided(s, d) = "pending"
      BY DEF Decided
    <3>4. \/ Decided(s, d) # "pending" /\ Observed(s, d) \in Int /\ Observed(s, d) <= d
          \/ Decided(s, d) = "pending" /\ Observed(s, d) = None
      BY <3>2, <3>3 DEF Observed
    <3>5. Observed(s, d) = None <=> Decided(s, d) = "pending"
      BY <3>2, <3>4
    <3>6. Observed(s, d) # None => Observed(s, d) <= d
      BY <3>4
    <3> HIDE DEF row, d
    <3> QED BY <3>1, <3>5, <3>6, Zenon DEF row
  <2>3. ASSUME NEW e \in graph.events PROVE e[1] \in DOMAIN graph.ren /\ e[3] <= d
    <3>1. PICK s \in DOMAIN graph.ren, k \in EventTypes : \E day \in On(s, k, d) : e = <<s, k, day>>
      BY <2>1, EdgeIs
    <3> QED BY <3>1 DEF On
  <2>4. DOMAIN graph.ren \subseteq Subs
    BY <2>1 DEF Seen
  <2> QED BY <2>1, <2>2, <2>3, <2>4
<1> QED BY <1>1 DEF IInv, TypeOK

LEMMA RouteIs ==
  ASSUME NEW d, Living(d), NEW s \in Subs, s \in Seen(d), NEW t, t = life[s].renewal
  PROVE  Route(s, t, d) =
           CASE Decided(s, d) = "renewed" -> "model"
             [] Decided(s, d) = "voluntary_lapse" ->
                  (IF t - life[s].back <= t - Lead THEN "cancel_flow" ELSE "model")
             [] Decided(s, d) = "involuntary_lapse" -> "dunning"
             [] OTHER -> IF t - Lead = LastSnapshot(d) THEN "score_today" ELSE "pending"
<1>1. /\ t \in Int /\ d \in Int /\ Lead \in Nat /\ Period \in Nat /\ life[s].back \in Nat
      /\ life[s].ends \in {"renew", "cancel", "fail"}
  BY Lives, DaysAssumption DEF Living
<1>2. life[s].ends = "renew" => d < t + Period
  <2>1. life[s].ends = "renew" => d < t + Period - Lead
    BY OneEach
  <2> QED BY <1>1, <2>1
<1>3. Outcome(s, t, d) = Decided(s, d)
  BY <1>1, <1>2, OutcomeIs DEF Living
<1>4. ASSUME Decided(s, d) = "voluntary_lapse" PROVE Latest(On(s, "scheduled", d)) = t - life[s].back
  <2>1. life[s].ends = "cancel" /\ t <= d
    BY <1>1, <1>4 DEF Decided
  <2>2. On(s, "scheduled", d) = {t - life[s].back}
    BY <1>1, <2>1, OnIs
  <2> QED BY <1>1, <2>2, OnlyDay
<1> QED BY <1>3, <1>4, Zenon DEF Route

LEMMA OutcomesSettleHolds == IInv => OutcomesSettle
<1> SUFFICES ASSUME IInv, graph # None, NEW s \in Subs, s \in Seen(graph.data_end),
                    graph.data_end >= graph.ren[s].renewal_date + LastRetry
             PROVE  graph.ren[s].outcome = (CASE life[s].ends = "renew" -> "renewed"
                                              [] life[s].ends = "cancel" -> "voluntary_lapse"
                                              [] life[s].ends = "fail" -> "involuntary_lapse")
  BY InGraph DEF OutcomesSettle
<1> DEFINE d == graph.data_end  t == life[s].renewal
<1>1. d \in Int /\ Living(d) /\ life \in Worlds /\ graph.ren[s] = Row(s, d)
  BY ServedIs
<1>2. graph.ren[s].outcome = Decided(s, d) /\ graph.ren[s].renewal_date = t
  BY <1>1, RowIs
<1>3. t \in Int /\ LastRetry \in Nat /\ life[s].ends \in {"renew", "cancel", "fail"}
  BY <1>1, Lives, LastRetryIs
<1>4. t <= d /\ t + LastRetry <= d
  BY <1>1, <1>2, <1>3
<1> QED BY <1>2, <1>3, <1>4 DEF Decided

\* An outcome, once decided, stays.
LEMMA DecidedStays ==
  ASSUME life \in Worlds, NEW s \in Subs, NEW d \in Int, NEW later \in Int, d <= later, Decided(s, d) # "pending"
  PROVE  Decided(s, later) = Decided(s, d)
<1>1. life[s].renewal \in Int /\ LastRetry \in Nat /\ life[s].ends \in {"renew", "cancel", "fail"}
  BY Lives, LastRetryIs
<1> QED BY <1>1 DEF Decided

LEMMA OutcomeStepHolds ==
  ASSUME IInv, [Next]_vars, graph # None, graph' # None, NEW s \in DOMAIN graph.ren, graph.ren[s].outcome # "pending"
  PROVE  /\ s \in DOMAIN graph'.ren /\ graph'.ren[s].outcome = graph.ren[s].outcome
         /\ graph'.ren[s].outcome_observed_on = graph.ren[s].outcome_observed_on
         /\ graph'.ren[s].route = graph.ren[s].route
<1> DEFINE d == graph.data_end
<1>1. CASE UNCHANGED graph
  BY <1>1
<1>2. CASE Build
  <2>1. /\ d \in Int /\ Living(d) /\ life \in Worlds /\ d <= today /\ today \in Int
        /\ s \in Subs /\ s \in Seen(d) /\ graph.ren[s] = Row(s, d)
    BY ServedIs, InGraph
  <2>2. Living(today) /\ graph' = Tables(today)
    BY <1>2, <2>1 DEF Build, Living
  <2> DEFINE t == life[s].renewal
  <2>3. s \in Seen(today) /\ s \in DOMAIN graph'.ren /\ graph'.ren[s] = Row(s, today)
    <3>1. t - Lead \in Int /\ t - Lead <= d
      BY <2>1, Lives, DaysAssumption DEF Seen
    <3>2. s \in Seen(today)
      BY <2>1, <3>1 DEF Seen
    <3>3. graph'.ren = [r \in Seen(today) |-> Row(r, today)]
      BY <2>2, TablesAre
    <3> QED BY <3>2, <3>3
  <2>4. \A e : e \in {d, today} =>
          /\ Row(s, e).outcome = Decided(s, e) /\ Row(s, e).route = Route(s, t, e)
          /\ Row(s, e).outcome_observed_on = Observed(s, e)
    BY <2>1, <2>2, <2>3, RowIs
  <2>5. Decided(s, d) # "pending" /\ Decided(s, today) = Decided(s, d)
    BY <2>1, <2>4, DecidedStays
  <2>6. Route(s, t, d) = Route(s, t, today)
    <3>1. \A e : e \in {d, today} => Route(s, t, e) =
             CASE Decided(s, e) = "renewed" -> "model"
               [] Decided(s, e) = "voluntary_lapse" ->
                    (IF t - life[s].back <= t - Lead THEN "cancel_flow" ELSE "model")
               [] Decided(s, e) = "involuntary_lapse" -> "dunning"
               [] OTHER -> IF t - Lead = LastSnapshot(e) THEN "score_today" ELSE "pending"
      BY <2>1, <2>2, <2>3, RouteIs
    <3>2. Decided(s, d) \in {"renewed", "voluntary_lapse", "involuntary_lapse"}
      BY <2>5 DEF Decided
    <3> QED BY <2>5, <3>1, <3>2
  <2>7. Observed(s, d) = Observed(s, today)
    BY <2>5 DEF Observed
  <2> QED BY <2>1, <2>3, <2>4, <2>5, <2>6, <2>7
<1> QED BY <1>1, <1>2 DEF Next, DayLands, vars

-----------------------------------------------------------------------------
(* Point in time. *)

\* Cutting the days of a feature or of billing at as_of leaves what bronze told by then.
LEMMA CutDays ==
  ASSUME life \in Worlds, NEW s \in Subs, NEW k \in EventTypes, NEW d \in Int, NEW asof \in Int, asof <= d
  PROVE  {e \in On(s, k, d) : e <= asof} = On(s, k, asof)
<1>1. Told(s)[k] \subseteq Int
  <2>1. /\ life[s].renewal \in Int /\ Period \in Nat /\ life[s].off \in Int \cup {None} /\ LastRetry \in Nat
        /\ life[s].hits \in SUBSET Int /\ life[s].back \in Nat /\ life[s].ends \in {"renew", "cancel", "fail"}
        /\ Retries \subseteq Nat
    BY Lives, LastRetryIs, DaysAssumption
  <2>2. k \in {"hit", "enabled", "disabled", "scheduled", "canceled", "paid", "failed"}
    BY DEF EventTypes, BilledTypes
  <2>3. CASE k \in {"hit", "enabled", "disabled", "scheduled"}
    BY <2>1, <2>3 DEF Told
  <2>4. CASE k \in {"canceled", "paid", "failed"}
    BY <2>1, <2>4 DEF Told
  <2> QED BY <2>2, <2>3, <2>4
<1>2. \A e \in Told(s)[k] : e <= asof => e <= d
  BY <1>1
<1> QED BY <1>2 DEF On

\* Overage: switched on at the start of the period, off later if at all.
LEMMA OverageDays ==
  ASSUME life \in Worlds, NEW s \in Subs, NEW asof \in Int
  PROVE  /\ On(s, "enabled", asof) # {} /\ On(s, "disabled", asof) # {} =>
              /\ Latest(On(s, "disabled", asof)) > Latest(On(s, "enabled", asof))
              /\ Latest(On(s, "enabled", asof) \cup On(s, "disabled", asof)) \in On(s, "disabled", asof)
         /\ On(s, "disabled", asof) = {e \in IF life[s].off = None THEN {} ELSE {life[s].off} : e <= asof}
<1> DEFINE l == life[s]  start == l.renewal - Period
           on == On(s, "enabled", asof)
           off == On(s, "disabled", asof)
<1>1. /\ l.renewal \in Int /\ Period \in Nat /\ l.off \in Int \cup {None}
      /\ l.off # None => start < l.off
  BY Lives, DaysAssumption
<1>2. /\ on = {e \in IF l.off = None THEN {} ELSE {start} : e <= asof}
      /\ off = {e \in IF l.off = None THEN {} ELSE {l.off} : e <= asof}
  BY OnIs
<1>3. ASSUME on # {}, off # {}
      PROVE  Latest(off) > Latest(on) /\ Latest(on \cup off) \in off
  <2>1. l.off # None /\ on = {start} /\ off = {l.off}
    BY <1>2, <1>3
  <2>2. start \in Int /\ l.off \in Int /\ start < l.off
    BY <1>1, <2>1
  <2>3. Latest(on) = start /\ Latest(off) = l.off
    BY <2>1, <2>2, OnlyDay
  <2>4. \A y \in on \cup off : y <= l.off
    BY <2>1, <2>2
  <2>5. on \cup off \in SUBSET Int /\ l.off \in on \cup off
    BY <2>1, <2>2
  <2>6. Latest(on \cup off) = l.off
    BY <2>4, <2>5, LatestIs
  <2> HIDE DEF on, off
  <2> QED BY <2>1, <2>2, <2>3, <2>6
<1> QED BY <1>2, <1>3

LEMMA ToggledIs ==
  ASSUME life \in Worlds, NEW s \in Subs, NEW d \in Int, NEW asof \in Int, asof <= d
  PROVE  ToggledOff(s, asof, d) <=>
              /\ On(s, "enabled", asof) # {} /\ On(s, "disabled", asof) # {}
              /\ Latest(On(s, "disabled", asof)) > Latest(On(s, "enabled", asof))
<1> DEFINE on == On(s, "enabled", asof)  off == On(s, "disabled", asof)
<1>1. on # {} /\ off # {} => Latest(off) > Latest(on) /\ Latest(on \cup off) \in off
  BY OverageDays
<1>2. {e \in On(s, "enabled", d) : e <= asof} = on /\ {e \in On(s, "disabled", d) : e <= asof} = off
  BY CutDays DEF EventTypes
<1> HIDE DEF on, off
<1>3. ToggledOff(s, asof, d) <=> on # {} /\ off # {} /\ Latest(on \cup off) \in off
  BY <1>2, Zenon DEF ToggledOff
<1>4. ToggledOff(s, asof, d) <=> on # {} /\ off # {} /\ Latest(off) > Latest(on)
  BY <1>1, <1>3
<1> QED BY <1>4 DEF on, off

\* Whatever day the graph is of, its snapshots have been taken.
LEMMA AsOfPast ==
  ASSUME NEW d, Living(d), NEW s \in Subs, s \in Seen(d)
  PROVE  life[s].renewal - Lead \in Int /\ life[s].renewal - Lead <= d /\ life[s].renewal - Lead < life[s].renewal
<1>1. life[s].renewal \in Int /\ Lead \in Nat \ {0} /\ life[s].renewal - Lead <= d
  BY Lives, OneEach, DaysAssumption DEF Living
<1> QED BY <1>1

LEMMA PitParityHolds == IInv => PitParity
<1> SUFFICES ASSUME IInv, graph # None, NEW s \in Subs, s \in Seen(graph.data_end)
             PROVE  /\ graph.ren[s].hits = PitHits(graph, s)
                    /\ graph.ren[s].toggled = PitToggled(graph, s)
                    /\ graph.ren[s].first_after = PitFirstAfter(graph, s)
                    /\ HitThenOff(graph, s) = OracleHitThenOff(graph, s)
  BY InGraph DEF PitParity
<1> DEFINE d == graph.data_end  t == life[s].renewal  asof == t - Lead  row == graph.ren[s]
<1>1. /\ d \in Int /\ Living(d) /\ life \in Worlds /\ s \in Seen(d) /\ s \in DOMAIN graph.ren
      /\ graph.events = EventEdges(graph.ren, d) /\ graph.after = FirstRenewalAfter(graph.ren, d)
      /\ row = Row(s, d)
  BY ServedIs
<1>2. /\ row.as_of = asof /\ row.renewal_date = t
      /\ row.hits = Cardinality(Window(On(s, "hit", d), asof, HitWindow))
  BY <1>1, RowIs
<1>3. asof \in Int /\ asof <= d
  BY <1>1, AsOfPast
<1>4. /\ EdgeDays(graph, s, "hit") = On(s, "hit", d) /\ EdgeDays(graph, s, "enabled") = On(s, "enabled", d)
      /\ EdgeDays(graph, s, "disabled") = On(s, "disabled", d)
  BY <1>1, FeatureDays
<1>5. On(s, "hit", d) = {e \in life[s].hits : e <= d} /\ life[s].hits \in SUBSET Int /\ IsFiniteSet(life[s].hits)
  BY <1>1, OnIs, Lives
<1>6. row.hits = PitHits(graph, s)
  <2>1. Window(On(s, "hit", d), asof, HitWindow) = {e \in On(s, "hit", d) : e <= asof /\ e > asof - HitWindow}
    BY <1>3, <1>5, DaysAssumption DEF Window
  <2> HIDE DEF asof
  <2> QED BY <1>2, <1>4, <2>1 DEF PitHits
<1>7. row.toggled = PitToggled(graph, s)
  <2> DEFINE on == On(s, "enabled", asof)  off == On(s, "disabled", asof)
  <2>1. ToggledOff(s, asof, d) <=> on # {} /\ off # {} /\ Latest(off) > Latest(on)
    BY <1>1, <1>3, ToggledIs
  <2>2. {e \in On(s, "enabled", d) : e <= asof} = on /\ {e \in On(s, "disabled", d) : e <= asof} = off
    BY <1>1, <1>3, CutDays DEF EventTypes
  <2>3. row.toggled \in BOOLEAN /\ (row.toggled <=> ToggledOff(s, asof, d))
    BY <1>1, FlagsAre
  <2> HIDE DEF asof, on, off
  <2>4. PitToggled(graph, s) = (on # {} /\ off # {} /\ Latest(off) > Latest(on))
    BY <1>2, <1>4, <2>2, Zenon DEF PitToggled
  <2>5. PitToggled(graph, s) \in BOOLEAN /\ (PitToggled(graph, s) <=> ToggledOff(s, asof, d))
    BY <2>1, <2>4, Zenon
  <2> HIDE DEF row, d
  <2> QED BY <2>3, <2>5
<1>8. row.first_after = PitFirstAfter(graph, s)
  <2> DEFINE after == \E c \in Announced(d) : FirstAfter(s, t, c)
  <2>1. ASSUME PitFirstAfter(graph, s) PROVE after
    <3>1. PICK f \in graph.after : f[1] = s
      BY <2>1 DEF PitFirstAfter
    <3>2. PICK r \in DOMAIN graph.ren, c \in Announced(d) :
            f = <<r, c, c <= graph.ren[r].as_of>> /\ FirstAfter(r, graph.ren[r].renewal_date, c)
      <4>1. f \in FirstRenewalAfter(graph.ren, d)
        BY <1>1, <3>1
      <4> HIDE DEF d
      <4>2. \E r \in DOMAIN graph.ren, c \in Announced(d) :
              f = <<r, c, c <= graph.ren[r].as_of>> /\ FirstAfter(r, graph.ren[r].renewal_date, c)
        BY <4>1, AfterIs, Zenon
      <4> QED BY <1>1, <4>2, Zenon
    <3>3. r = s
      BY <3>1, <3>2
    <3> QED BY <1>2, <3>2, <3>3
  <2>2. ASSUME NEW c \in Announced(d), FirstAfter(s, t, c) PROVE PitFirstAfter(graph, s)
    <3> DEFINE f == <<s, c, c <= graph.ren[s].as_of>>
    <3>1. f \in graph.after
      <4>1. s \in DOMAIN graph.ren /\ FirstAfter(s, graph.ren[s].renewal_date, c)
        BY <1>1, <1>2, <2>2
      <4> HIDE DEF d
      <4>2. f \in FirstRenewalAfter(graph.ren, d)
        BY <2>2, <4>1, AfterIs, Zenon
      <4> QED BY <1>1, <4>2, Zenon
    <3>2. f[1] = s
      OBVIOUS
    <3> QED BY <3>1, <3>2, Zenon DEF PitFirstAfter
  <2>3. row.first_after \in BOOLEAN /\ (row.first_after <=> after)
    BY <1>1, FlagsAre
  <2>4. PitFirstAfter(graph, s) \in BOOLEAN
    BY Zenon DEF PitFirstAfter
  <2> HIDE DEF row, after
  <2>5. PitFirstAfter(graph, s) <=> after
    BY <2>1, <2>2 DEF after
  <2> QED BY <2>3, <2>4, <2>5
<1>9. HitThenOff(graph, s) = OracleHitThenOff(graph, s)
  <2> DEFINE hit == {e \in On(s, "hit", d) : e <= asof}  off == {e \in On(s, "disabled", d) : e <= asof}
  <2>1. HitThenOff(graph, s) <=> \E h \in On(s, "hit", d), o \in On(s, "disabled", d) : h <= o /\ o <= asof
    BY <1>2, <1>4 DEF HitThenOff
  <2>2. OracleHitThenOff(graph, s) <=> hit # {} /\ off # {} /\ Earliest(hit) <= Latest(off)
    BY <1>2, <1>4 DEF OracleHitThenOff
  <2>3. hit \in SUBSET Int /\ IsFiniteSet(hit)
    <3>1. hit \in SUBSET life[s].hits
      BY <1>5
    <3> QED BY <1>5, <3>1, FS_Subset
  <2>4. hit # {} => Earliest(hit) \in hit /\ \A h \in hit : Earliest(hit) <= h
    <3> SUFFICES ASSUME hit # {} PROVE Earliest(hit) \in hit /\ \A h \in hit : Earliest(hit) <= h
      OBVIOUS
    <3> HIDE DEF hit
    <3>1. PICK h \in hit : \A y \in hit : h <= y
      BY <2>3, LeastInteger
    <3> QED BY <2>3, <3>1, EarliestIs
  <2>5. off \in SUBSET Int /\ \A o \in off : Latest(off) = o
    <3>1. off = {e \in IF life[s].off = None THEN {} ELSE {life[s].off} : e <= asof}
      <4>1. off = On(s, "disabled", asof)
        BY <1>1, <1>3, CutDays DEF EventTypes
      <4> QED BY <1>1, <1>3, <4>1, OverageDays
    <3>2. life[s].off \in Int \cup {None}
      BY <1>1, Lives
    <3>3. \A o \in off : o \in Int /\ off = {o}
      BY <3>1, <3>2
    <3> QED BY <3>3, OnlyDay
  <2>6. (\E h \in On(s, "hit", d), o \in On(s, "disabled", d) : h <= o /\ o <= asof)
          <=> \E h \in hit, o \in off : h <= o
    <3>1. On(s, "hit", d) \subseteq Int
      BY <1>5
    <3>2. \A o \in On(s, "disabled", d) : o <= asof => o \in off /\ o \in Int
      BY <2>5
    <3> QED BY <1>3, <3>1, <3>2
  <2> HIDE DEF hit, off
  <2>7. (\E h \in hit, o \in off : h <= o) <=> hit # {} /\ off # {} /\ Earliest(hit) <= Latest(off)
    <3>1. ASSUME NEW h \in hit, NEW o \in off, h <= o PROVE Earliest(hit) <= Latest(off)
      <4>1. Earliest(hit) <= h /\ Latest(off) = o /\ Earliest(hit) \in hit
        BY <2>4, <2>5
      <4>2. Earliest(hit) \in Int /\ h \in Int /\ o \in Int
        BY <2>3, <2>5, <4>1
      <4> QED BY <3>1, <4>1, <4>2
    <3>2. ASSUME hit # {}, off # {}, Earliest(hit) <= Latest(off) PROVE \E h \in hit, o \in off : h <= o
      <4>1. PICK o \in off : Latest(off) = o
        BY <2>5, <3>2
      <4> QED BY <2>4, <3>2, <4>1
    <3> QED BY <3>1, <3>2
  <2>8. HitThenOff(graph, s) <=> OracleHitThenOff(graph, s)
    BY <2>1, <2>2, <2>6, <2>7
  <2>9. HitThenOff(graph, s) \in BOOLEAN /\ OracleHitThenOff(graph, s) \in BOOLEAN
    BY DEF HitThenOff, OracleHitThenOff
  <2> QED BY <2>8, <2>9
<1> QED BY <1>6, <1>7, <1>8, <1>9

-----------------------------------------------------------------------------
(* The view from as_of. *)

\* The events of a renewal that may be seen from as_of.
SeenTypes == {"hit", "enabled", "disabled", "scheduled"}
PastEvents(s, asof) == UNION {{<<s, k, day>> : day \in On(s, k, asof)} : k \in SeenTypes}

LEMMA PastEventsAre ==
  ASSUME life \in Worlds, NEW g, NEW d \in Int, g.events = EventEdges(g.ren, d),
         NEW s \in Subs, s \in DOMAIN g.ren, NEW asof \in Int, asof <= d, asof = g.ren[s].as_of
  PROVE  {e \in g.events : e[1] = s /\ e[3] <= asof /\ ~OutcomeEvidence(g.ren, e)} = PastEvents(s, asof)
<1>1. \A k \in EventTypes : \A day : day \in On(s, k, asof) <=> day \in On(s, k, d) /\ day <= asof
  BY CutDays
<1>2. \A k, day : OutcomeEvidence(g.ren, <<s, k, day>>) <=> k \in BilledTypes /\ ~(k = "scheduled" /\ day <= asof)
  <2> TAKE k, day
  <2> DEFINE e == <<s, k, day>>
  <2>1. e[1] = s /\ e[2] = k /\ e[3] = day
    OBVIOUS
  <2> HIDE DEF e
  <2>2. OutcomeEvidence(g.ren, e) <=> k \in BilledTypes /\ ~(k = "scheduled" /\ day <= asof)
    BY <2>1, Zenon DEF OutcomeEvidence
  <2> QED BY <2>2 DEF e
<1>3. ASSUME NEW e \in g.events, e[1] = s, e[3] <= asof, ~OutcomeEvidence(g.ren, e) PROVE e \in PastEvents(s, asof)
  <2>1. PICK r \in DOMAIN g.ren, k \in EventTypes : \E day \in On(r, k, d) : e = <<r, k, day>>
    BY EdgeIs
  <2>2. PICK day \in On(r, k, d) : e = <<r, k, day>>
    BY <2>1
  <2>3. e[1] = r /\ e[3] = day
    BY <2>2
  <2>4. day \in On(s, k, asof) /\ e = <<s, k, day>>
    BY <1>1, <1>3, <2>2, <2>3
  <2>5. k \in SeenTypes
    BY <1>2, <1>3, <2>3, <2>4 DEF SeenTypes, EventTypes, BilledTypes
  <2> QED BY <2>4, <2>5 DEF PastEvents
<1>4. ASSUME NEW e \in PastEvents(s, asof) PROVE e \in g.events /\ e[1] = s /\ e[3] <= asof /\ ~OutcomeEvidence(g.ren, e)
  <2>1. PICK k \in SeenTypes : \E day \in On(s, k, asof) : e = <<s, k, day>>
    BY DEF PastEvents
  <2>2. PICK day \in On(s, k, asof) : e = <<s, k, day>>
    BY <2>1
  <2>3. k \in EventTypes /\ k \notin {"paid", "failed"} /\ (k \in BilledTypes => k = "scheduled")
    BY DEF SeenTypes, EventTypes, BilledTypes
  <2>4. day \in On(s, k, d) /\ day <= asof
    BY <1>1, <2>3
  <2>5. e \in g.events
    BY <2>2, <2>3, <2>4, EdgeIs
  <2>6. ~OutcomeEvidence(g.ren, e)
    BY <1>2, <2>2, <2>3, <2>4
  <2>7. e[1] = s /\ e[3] = day
    BY <2>2
  <2> QED BY <2>4, <2>5, <2>6, <2>7
<1> QED BY <1>3, <1>4

\* The pricing changes a renewal is the first after, each with whether it was known at as_of.
FirstChanges(s, t, d) == {c \in Announced(d) : FirstAfter(s, t, c)}

\* A change known by a day was announced by then, and what was announced stays so.
LEMMA AnnouncedIs ==
  ASSUME NEW asof \in Int, NEW d \in Int, asof <= d
  PROVE  /\ Announced(asof) \subseteq Announced(d) /\ Announced(d) \subseteq Changes
         /\ \A c \in Changes : c \in Int /\ (c <= asof => c \in Announced(asof) /\ c \in Announced(d))
<1>1. \A c \in Changes : c \in Int /\ Notice \in Nat
  BY DaysAssumption
<1>2. \A c \in Changes : (c - Notice <= asof => c - Notice <= d) /\ (c <= asof => c - Notice <= asof)
  BY <1>1
<1> QED BY <1>1, <1>2 DEF Announced

LEMMA AfterRowsAre ==
  ASSUME NEW g, NEW d, g.after = FirstRenewalAfter(g.ren, d), NEW s \in DOMAIN g.ren,
         NEW asof, asof = g.ren[s].as_of, NEW t, t = g.ren[s].renewal_date, NEW f
  PROVE  f \in g.after /\ f[1] = s <=> \E c \in FirstChanges(s, t, d) : f = <<s, c, c <= asof>>
<1>1. ASSUME f \in g.after, f[1] = s PROVE \E c \in FirstChanges(s, t, d) : f = <<s, c, c <= asof>>
  <2>1. PICK r \in DOMAIN g.ren, c \in Announced(d) :
          f = <<r, c, c <= g.ren[r].as_of>> /\ FirstAfter(r, g.ren[r].renewal_date, c)
    <3>1. f \in FirstRenewalAfter(g.ren, d)
      BY <1>1
    <3> QED BY <3>1, AfterIs, Zenon
  <2>2. f[1] = r
    BY <2>1
  <2>3. r = s
    BY <1>1, <2>2
  <2> QED BY <2>1, <2>3, Zenon DEF FirstChanges
<1>2. ASSUME NEW c \in FirstChanges(s, t, d), f = <<s, c, c <= asof>> PROVE f \in g.after /\ f[1] = s
  <2>1. c \in Announced(d) /\ FirstAfter(s, t, c)
    BY Zenon DEF FirstChanges
  <2>2. f[1] = s
    BY <1>2
  <2>3. f \in FirstRenewalAfter(g.ren, d)
    BY <1>2, <2>1, AfterIs, Zenon
  <2> QED BY <2>2, <2>3
<1> QED BY <1>1, <1>2, Zenon

\* The features of a row are those a build of its as_of day gives it, but for the pricing changes since.
LEMMA FeaturesThen ==
  ASSUME NEW d, Living(d), NEW s \in Subs, s \in Seen(d), NEW row, row = Row(s, d), NEW t, t = life[s].renewal,
         NEW asof, asof = t - Lead, NEW then, then = GoldRow(s, t, asof)
  PROVE  /\ row.hits = then.hits /\ row.toggled = then.toggled /\ row.plan = then.plan
         /\ then.renewal_date = t /\ then.as_of = asof
         /\ row.toggled \in BOOLEAN /\ row.first_after \in BOOLEAN /\ then.first_after \in BOOLEAN
         /\ row.first_after # then.first_after => \E c \in Announced(d) : FirstAfter(s, t, c) /\ ~(c <= asof)
<1>1. d \in Int /\ life \in Worlds /\ asof \in Int /\ asof <= d
  BY AsOfPast DEF Living
<1>2. then.renewal_date = t /\ then.as_of = asof /\ then.plan = life[s].plan
  BY DEF GoldRow
<1>3. row.hits = then.hits /\ row.plan = then.plan
  <2>1. /\ row.hits = Cardinality(Window(On(s, "hit", d), asof, HitWindow)) /\ row.plan = life[s].plan
        /\ then.hits = Cardinality(Window(On(s, "hit", asof), asof, HitWindow))
    BY RowIs DEF GoldRow
  <2>2. {e \in On(s, "hit", d) : e <= asof} = On(s, "hit", asof)
    BY <1>1, CutDays DEF EventTypes
  <2>3. {e \in On(s, "hit", asof) : e <= asof} = On(s, "hit", asof)
    BY <1>1, CutDays DEF EventTypes
  <2>4. \A e : e \in On(s, "hit", d) /\ e <= asof <=> e \in On(s, "hit", asof) /\ e <= asof
    BY <2>2, <2>3
  <2>5. Window(On(s, "hit", d), asof, HitWindow) = Window(On(s, "hit", asof), asof, HitWindow)
    BY <2>4 DEF Window
  <2> QED BY <1>2, <2>1, <2>5
<1>4. row.toggled = then.toggled /\ row.toggled \in BOOLEAN
  <2>1. row.toggled \in BOOLEAN /\ (row.toggled <=> ToggledOff(s, asof, d))
    BY FlagsAre
  <2>2. then.toggled = ToggledOff(s, asof, asof)
    BY Zenon DEF GoldRow
  <2>3. then.toggled \in BOOLEAN
    BY <2>2, Zenon DEF ToggledOff
  <2>4. ToggledOff(s, asof, d) <=> ToggledOff(s, asof, asof)
    BY <1>1, ToggledIs
  <2>5. row.toggled <=> then.toggled
    BY <2>1, <2>2, <2>4, Zenon
  <2> QED BY <2>1, <2>3, <2>5
<1>5. /\ row.first_after \in BOOLEAN /\ then.first_after \in BOOLEAN
      /\ row.first_after # then.first_after => \E c \in Announced(d) : FirstAfter(s, t, c) /\ ~(c <= asof)
  <2>1. row.first_after \in BOOLEAN /\ (row.first_after <=> \E c \in Announced(d) : FirstAfter(s, t, c))
    BY FlagsAre
  <2>2. then.first_after \in BOOLEAN /\ (then.first_after <=> \E c \in Announced(asof) : FirstAfter(s, t, c))
    BY DEF GoldRow
  <2>3. Announced(asof) \subseteq Announced(d) /\ \A c \in Announced(d) : c <= asof => c \in Announced(asof)
    BY <1>1, AnnouncedIs
  <2> QED BY <2>1, <2>2, <2>3
<1> QED BY <1>2, <1>3, <1>4, <1>5

\* What evidence() gives of one renewal.
SeenRows(s, asof) ==
  {<<e[2], e[3], TRUE>> : e \in PastEvents(s, asof)} \cup {<<"cut_cap", c, TRUE>> : c \in {c \in Changes : c <= asof}}
ChangeRows(s, t, asof, d) == {<<"first_renewal_after", c, c <= asof>> : c \in FirstChanges(s, t, d)}

LEMMA EvidenceIs ==
  ASSUME life \in Worlds, NEW g, NEW d \in Int, g.events = EventEdges(g.ren, d), g.after = FirstRenewalAfter(g.ren, d),
         g.cuts = Announced(d), NEW s \in Subs, s \in DOMAIN g.ren,
         NEW asof \in Int, asof <= d, asof = g.ren[s].as_of, NEW t, t = g.ren[s].renewal_date
  PROVE  Evidence(g, s) = SeenRows(s, asof) \cup ChangeRows(s, t, asof, d)
<1> DEFINE mine == {e \in g.events : e[1] = s /\ e[3] <= g.ren[s].as_of /\ ~OutcomeEvidence(g.ren, e)}
           cuts == {c \in g.cuts : c <= g.ren[s].as_of}
           after == {f \in g.after : f[1] = s}
           rows == {<<"first_renewal_after", f[2], f[3]>> : f \in after}
<1>1. mine = PastEvents(s, asof)
  BY PastEventsAre
<1>2. cuts = {c \in Changes : c <= asof}
  <2>1. \A c : c \in Announced(d) /\ c <= asof <=> c \in Changes /\ c <= asof
    BY AnnouncedIs
  <2> QED BY <2>1
<1>3. rows = ChangeRows(s, t, asof, d)
  <2>1. \A f : f \in after <=> \E c \in FirstChanges(s, t, d) : f = <<s, c, c <= asof>>
    BY AfterRowsAre
  <2>2. \A c : <<s, c, c <= asof>>[2] = c /\ <<s, c, c <= asof>>[3] = (c <= asof)
    BY Zenon
  <2> HIDE DEF after
  <2>3. \A x \in rows : x \in ChangeRows(s, t, asof, d)
    <3> TAKE x \in rows
    <3>1. PICK f \in after : x = <<"first_renewal_after", f[2], f[3]>>
      BY Zenon
    <3>2. PICK c \in FirstChanges(s, t, d) : f = <<s, c, c <= asof>>
      BY <2>1, Zenon
    <3>3. x = <<"first_renewal_after", c, c <= asof>>
      BY <2>2, <3>1, <3>2, Zenon
    <3> QED BY <3>3, Zenon DEF ChangeRows
  <2>4. \A x \in ChangeRows(s, t, asof, d) : x \in rows
    <3> TAKE x \in ChangeRows(s, t, asof, d)
    <3>1. PICK c \in FirstChanges(s, t, d) : x = <<"first_renewal_after", c, c <= asof>>
      BY Zenon DEF ChangeRows
    <3> DEFINE f == <<s, c, c <= asof>>
    <3>2. f \in after /\ x = <<"first_renewal_after", f[2], f[3]>>
      BY <2>1, <2>2, <3>1, Zenon
    <3> QED BY <3>2, Zenon
  <2> HIDE DEF rows
  <2> QED BY <2>3, <2>4
<1>4. Evidence(g, s) = {<<e[2], e[3], TRUE>> : e \in mine} \cup {<<"cut_cap", c, TRUE>> : c \in cuts} \cup rows
  BY Zenon DEF Evidence
<1> HIDE DEF mine, cuts, rows
<1> QED BY <1>1, <1>2, <1>3, <1>4, Zenon DEF SeenRows

LEMMA AsOfViewHolds == IInv => AsOfViewIsPast
<1> SUFFICES ASSUME IInv, graph # None, NEW s \in Subs, s \in Seen(graph.data_end)
             PROVE  LET d == graph.ren[s].as_of  then == GoldRow(s, graph.ren[s].renewal_date, d)
                        only == [x \in {s} |-> then]
                        past == [ren |-> only, cuts |-> Announced(d), events |-> EventEdges(only, d),
                                 after |-> FirstRenewalAfter(only, d)]
                        known == {x \in Evidence(graph, s) : x[3]}
                    IN  /\ known = {x \in Evidence(past, s) : x[3]}
                        /\ graph.ren[s].hits = then.hits /\ graph.ren[s].toggled = then.toggled
                        /\ graph.ren[s].first_after # then.first_after => known # Evidence(graph, s)
  BY InGraph, Zenon DEF AsOfViewIsPast
<1> DEFINE row == graph.ren[s]  asof == row.as_of  t == row.renewal_date  then == GoldRow(s, t, asof)
           only == [x \in {s} |-> then]
           past == [ren |-> only, cuts |-> Announced(asof), events |-> EventEdges(only, asof),
                    after |-> FirstRenewalAfter(only, asof)]
           known == {x \in Evidence(graph, s) : x[3]}
           d == graph.data_end
           rows == ChangeRows(s, t, asof, d)
           told == ChangeRows(s, t, asof, asof)
<1>1. /\ d \in Int /\ Living(d) /\ life \in Worlds /\ s \in Seen(d) /\ s \in DOMAIN graph.ren
      /\ graph.events = EventEdges(graph.ren, d) /\ graph.after = FirstRenewalAfter(graph.ren, d)
      /\ graph.cuts = Announced(d) /\ row = Row(s, d)
  BY ServedIs
<1>2. t = life[s].renewal /\ asof = life[s].renewal - Lead
  BY <1>1, RowIs
<1>3. asof \in Int /\ asof <= d
  BY <1>1, <1>2, AsOfPast
<1>4. then.renewal_date = t /\ then.as_of = asof
  BY <1>2 DEF GoldRow
<1>5. Evidence(graph, s) = SeenRows(s, asof) \cup rows
  <2> HIDE DEF d
  <2> QED BY <1>1, <1>3, EvidenceIs
<1>6. Evidence(past, s) = SeenRows(s, asof) \cup told
  <2> HIDE DEF then
  <2>1. /\ past.ren = only /\ past.events = EventEdges(past.ren, asof) /\ past.after = FirstRenewalAfter(past.ren, asof)
        /\ past.cuts = Announced(asof) /\ s \in DOMAIN past.ren /\ past.ren[s] = then
    OBVIOUS
  <2> HIDE DEF past, asof, t
  <2>2. past.ren[s].as_of = asof /\ past.ren[s].renewal_date = t
    BY <1>4, <2>1
  <2>3. asof <= asof
    BY <1>3
  <2> QED BY <1>1, <1>3, <2>1, <2>2, <2>3, EvidenceIs
<1>7. \A x : x \in rows /\ x[3] <=> x \in told /\ x[3]
  <2>1. \A c : <<"first_renewal_after", c, c <= asof>>[3] = (c <= asof)
    BY Zenon
  <2>2. \A c : c \in FirstChanges(s, t, asof) /\ c <= asof <=> c \in FirstChanges(s, t, d) /\ c <= asof
    <3>1. \A c : c <= asof => (c \in Announced(asof) <=> c \in Announced(d))
      <4> HIDE DEF asof, d
      <4> QED BY <1>1, <1>3, AnnouncedIs
    <3> HIDE DEF asof, t, d
    <3> QED BY <3>1, Zenon DEF FirstChanges
  <2> HIDE DEF asof, t, d
  <2> TAKE x
  <2>3. ASSUME x \in rows, x[3] PROVE x \in told
    <3>1. PICK c \in FirstChanges(s, t, d) : x = <<"first_renewal_after", c, c <= asof>>
      BY <2>3, Zenon DEF ChangeRows
    <3>2. c <= asof
      BY <2>1, <2>3, <3>1, Zenon
    <3> QED BY <2>2, <3>1, <3>2, Zenon DEF ChangeRows
  <2>4. ASSUME x \in told, x[3] PROVE x \in rows
    <3>1. PICK c \in FirstChanges(s, t, asof) : x = <<"first_renewal_after", c, c <= asof>>
      BY <2>4, Zenon DEF ChangeRows
    <3>2. c <= asof
      BY <2>1, <2>4, <3>1, Zenon
    <3> QED BY <2>2, <3>1, <3>2, Zenon DEF ChangeRows
  <2> QED BY <2>3, <2>4, Zenon
<1>8. known = {x \in Evidence(past, s) : x[3]}
  <2> DEFINE all == Evidence(graph, s)  seen == SeenRows(s, asof)  before == Evidence(past, s)
  <2> HIDE DEF seen, all, before, rows, told
  <2>1. \A x : x \in all /\ x[3] <=> x \in before /\ x[3]
    BY <1>5, <1>6, <1>7, Zenon DEF all, before, seen
  <2>2. {y \in all : y[3]} = {y \in before : y[3]}
    BY <2>1, Zenon
  <2> QED BY <2>2 DEF all, before
<1>9. /\ row.hits = then.hits /\ row.toggled = then.toggled
      /\ row.first_after # then.first_after => \E c \in Announced(d) : FirstAfter(s, t, c) /\ ~(c <= asof)
  BY <1>1, <1>2, FeaturesThen
<1>10. ASSUME row.first_after # then.first_after PROVE known # Evidence(graph, s)
  <2>1. PICK c \in Announced(d) : FirstAfter(s, t, c) /\ ~(c <= asof)
    BY <1>9, <1>10
  <2> DEFINE x == <<"first_renewal_after", c, c <= asof>>
  <2>2. x \in rows /\ ~x[3]
    BY <2>1, Zenon DEF ChangeRows, FirstChanges
  <2>3. x \in Evidence(graph, s) /\ x \notin known
    BY <1>5, <2>2, Zenon
  <2> QED BY <2>3, Zenon
<1> HIDE DEF row, known, past, then
<1>11. known = {x \in Evidence(past, s) : x[3]} /\ row.hits = then.hits /\ row.toggled = then.toggled
         /\ (row.first_after # then.first_after => known # Evidence(graph, s))
  BY <1>8, <1>9, <1>10
<1> QED BY <1>11 DEF row, known, past, then

-----------------------------------------------------------------------------
(* The evidence graph. *)

LEMMA PruneIs ==
  ASSUME NEW g, NEW v, v = Prune(g)
  PROVE  /\ DOMAIN v.ren = DOMAIN g.ren /\ v.cuts = g.cuts
         /\ v.events = {e \in g.events : Kept(g, e)} /\ v.after = {<<f[1], f[2], f[3], ~f[3]>> : f \in g.after}
         /\ \A s \in DOMAIN g.ren :
              /\ v.ren[s] = Unlabelled(g.ren[s])
              /\ v.ren[s].as_of = g.ren[s].as_of /\ v.ren[s].hits = g.ren[s].hits
              /\ v.ren[s].toggled = g.ren[s].toggled /\ v.ren[s].first_after = g.ren[s].first_after
<1>1. /\ v.ren = [s \in DOMAIN g.ren |-> Unlabelled(g.ren[s])]
      /\ v.events = {e \in g.events : Kept(g, e)} /\ v.cuts = g.cuts
  BY DEF Prune
<1>2. v.after = {<<f[1], f[2], f[3], ~f[3]>> : f \in g.after}
  BY Zenon DEF Prune
<1>3. \A row : /\ Unlabelled(row).as_of = row.as_of /\ Unlabelled(row).hits = row.hits
               /\ Unlabelled(row).toggled = row.toggled /\ Unlabelled(row).first_after = row.first_after
  BY DEF Unlabelled
<1> QED BY <1>1, <1>2, <1>3

\* The edges that stay are those of the past.
LEMMA KeptEvents ==
  ASSUME life \in Worlds, NEW g, NEW d \in Int, g.events = EventEdges(g.ren, d),
         NEW s \in Subs, s \in DOMAIN g.ren, NEW asof \in Int, asof <= d, asof = g.ren[s].as_of,
         NEW v, v = Prune(g)
  PROVE  {e \in v.events : e[1] = s} = PastEvents(s, asof)
<1>1. {e \in g.events : e[1] = s /\ e[3] <= asof /\ ~OutcomeEvidence(g.ren, e)} = PastEvents(s, asof)
  BY PastEventsAre
<1>2. \A e : e[1] = s => (Kept(g, e) <=> e[3] <= asof /\ ~OutcomeEvidence(g.ren, e))
  BY DEF Kept
<1>3. v.events = {e \in g.events : Kept(g, e)}
  BY PruneIs
<1> QED BY <1>1, <1>2, <1>3

\* FIRST_RENEWAL_AFTER stays whole, and the rows of later changes are declared.
LEMMA KeptAfter ==
  ASSUME NEW g, NEW d, g.after = FirstRenewalAfter(g.ren, d), NEW s \in DOMAIN g.ren,
         NEW asof, asof = g.ren[s].as_of, NEW t, t = g.ren[s].renewal_date, NEW v, v = Prune(g), NEW f
  PROVE  f \in v.after /\ f[1] = s <=> \E c \in FirstChanges(s, t, d) : f = <<s, c, c <= asof, ~(c <= asof)>>
<1>1. v.after = {<<h[1], h[2], h[3], ~h[3]>> : h \in g.after}
  BY PruneIs
<1>2. \A h : h \in g.after /\ h[1] = s <=> \E c \in FirstChanges(s, t, d) : h = <<s, c, c <= asof>>
  BY AfterRowsAre
<1>3. ASSUME f \in v.after, f[1] = s PROVE \E c \in FirstChanges(s, t, d) : f = <<s, c, c <= asof, ~(c <= asof)>>
  <2>1. PICK h \in g.after : f = <<h[1], h[2], h[3], ~h[3]>>
    BY <1>1, <1>3, Zenon
  <2>2. h[1] = s
    BY <1>3, <2>1
  <2>3. PICK c \in FirstChanges(s, t, d) : h = <<s, c, c <= asof>>
    BY <1>2, <2>2, Zenon
  <2>4. h[1] = s /\ h[2] = c /\ h[3] = (c <= asof)
    BY <2>3, Zenon
  <2> QED BY <2>1, <2>4, Zenon
<1>4. ASSUME NEW c \in FirstChanges(s, t, d), f = <<s, c, c <= asof, ~(c <= asof)>> PROVE f \in v.after /\ f[1] = s
  <2> DEFINE h == <<s, c, c <= asof>>
  <2>1. h \in g.after /\ h[1] = s /\ h[2] = c /\ h[3] = (c <= asof)
    BY <1>2, Zenon
  <2> HIDE DEF h
  <2>2. f = <<h[1], h[2], h[3], ~h[3]>>
    BY <1>4, <2>1, Zenon
  <2>3. f \in v.after
    BY <1>1, <2>1, <2>2, Zenon
  <2>4. f[1] = s
    BY <1>4
  <2> QED BY <2>3, <2>4
<1> QED BY <1>3, <1>4, Zenon

LEMMA Blanked ==
  ASSUME NEW row
  PROVE  [Unlabelled(row) EXCEPT !.first_after = None]
         = [plan |-> row.plan, renewal_date |-> row.renewal_date, as_of |-> row.as_of, hits |-> row.hits,
            toggled |-> row.toggled, first_after |-> None]
<1>1. ASSUME NEW p, NEW t, NEW a, NEW h, NEW o, NEW x
      PROVE  [[plan |-> p, renewal_date |-> t, as_of |-> a, hits |-> h, toggled |-> o, first_after |-> x]
                 EXCEPT !.first_after = None]
             = [plan |-> p, renewal_date |-> t, as_of |-> a, hits |-> h, toggled |-> o, first_after |-> None]
  OBVIOUS
<1>2. PICK p, t, a, h, o, x : /\ p = row.plan /\ t = row.renewal_date /\ a = row.as_of
                              /\ h = row.hits /\ o = row.toggled /\ x = row.first_after
  BY Zenon
<1> DEFINE r == [plan |-> p, renewal_date |-> t, as_of |-> a, hits |-> h, toggled |-> o, first_after |-> x]
           b == [plan |-> p, renewal_date |-> t, as_of |-> a, hits |-> h, toggled |-> o, first_after |-> None]
<1>3. Unlabelled(row) = r
  BY <1>2, Zenon DEF Unlabelled
<1>4. [r EXCEPT !.first_after = None] = b
  BY <1>1
<1>5. b = [plan |-> row.plan, renewal_date |-> row.renewal_date, as_of |-> row.as_of, hits |-> row.hits,
            toggled |-> row.toggled, first_after |-> None]
  BY <1>2, Zenon
<1> HIDE DEF r, b
<1> QED BY <1>3, <1>4, <1>5, Zenon

LEMMA EvidenceIsPastHolds == IInv => EvidenceIsPast
<1> SUFFICES ASSUME IInv, graph # None, NEW s \in Subs, s \in Seen(graph.data_end)
             PROVE  LET v == Prune(graph)  past == Prune(AsBuiltThen(s))
                        exceptions == {f \in v.after : f[1] = s /\ f[4]}
                        known(after) == {f \in after : ~f[4]}
                    IN  /\ {e \in v.events : e[1] = s} = past.events
                        /\ known({f \in v.after : f[1] = s}) = known(past.after)
                        /\ [v.ren[s] EXCEPT !.first_after = None] = [past.ren[s] EXCEPT !.first_after = None]
                        /\ v.ren[s].first_after # past.ren[s].first_after => exceptions # {}
  BY InGraph, Zenon DEF EvidenceIsPast
<1> DEFINE v == Prune(graph)  built == AsBuiltThen(s)  past == Prune(built)
           exceptions == {f \in v.after : f[1] = s /\ f[4]}
           known(after) == {f \in after : ~f[4]}
           d == graph.data_end  row == graph.ren[s]  t == row.renewal_date  asof == row.as_of
           then == GoldRow(s, t, asof)
<1>1. /\ d \in Int /\ Living(d) /\ life \in Worlds /\ s \in Seen(d) /\ s \in DOMAIN graph.ren
      /\ graph.events = EventEdges(graph.ren, d) /\ graph.after = FirstRenewalAfter(graph.ren, d)
      /\ row = Row(s, d)
  BY ServedIs
<1>2. t = life[s].renewal /\ asof = life[s].renewal - Lead /\ asof = t - Lead
  BY <1>1, RowIs
<1>3. asof \in Int /\ asof <= d /\ asof <= asof
  BY <1>1, <1>2, AsOfPast
<1>4. /\ row.hits = then.hits /\ row.toggled = then.toggled /\ row.plan = then.plan
      /\ then.renewal_date = t /\ then.as_of = asof
      /\ row.first_after # then.first_after => \E c \in Announced(d) : FirstAfter(s, t, c) /\ ~(c <= asof)
  BY <1>1, <1>2, FeaturesThen
<1>5. /\ DOMAIN built.ren = {s} /\ built.ren[s] = then
      /\ built.events = EventEdges(built.ren, asof) /\ built.after = FirstRenewalAfter(built.ren, asof)
  <2>1. built = [ren |-> [x \in {s} |-> then], events |-> EventEdges([x \in {s} |-> then], asof),
                 after |-> FirstRenewalAfter([x \in {s} |-> then], asof), cuts |-> {}]
    BY <1>2 DEF AsBuiltThen
  <2> HIDE DEF built, then, asof
  <2> QED BY <2>1
<1> HIDE DEF built, then, asof, t
<1>6. built.ren[s].as_of = asof /\ built.ren[s].renewal_date = t
  BY <1>4, <1>5
<1>7. {e \in v.events : e[1] = s} = past.events
  <2>1. {e \in v.events : e[1] = s} = PastEvents(s, asof)
    <3>1. asof = graph.ren[s].as_of
      BY DEF asof
    <3> QED BY <1>1, <1>3, <3>1, KeptEvents
  <2>2. {e \in past.events : e[1] = s} = PastEvents(s, asof)
    BY <1>1, <1>3, <1>5, <1>6, KeptEvents
  <2>3. \A e \in past.events : e[1] = s
    <3> TAKE e \in past.events
    <3>1. e \in EventEdges(built.ren, asof)
      BY <1>5, PruneIs
    <3>2. PICK r \in DOMAIN built.ren, k \in EventTypes : \E day \in On(r, k, asof) : e = <<r, k, day>>
      BY <3>1, EdgeIs
    <3> QED BY <1>5, <3>2
  <2> QED BY <2>1, <2>2, <2>3
<1>8. \A f : f \in v.after /\ f[1] = s <=> \E c \in FirstChanges(s, t, d) : f = <<s, c, c <= asof, ~(c <= asof)>>
  <2>1. asof = graph.ren[s].as_of /\ t = graph.ren[s].renewal_date
    BY DEF asof, t
  <2> QED BY <1>1, <2>1, KeptAfter
<1>9. \A f : f \in past.after <=> \E c \in FirstChanges(s, t, asof) : f = <<s, c, c <= asof, ~(c <= asof)>>
  <2>1. \A f : f \in past.after /\ f[1] = s <=> \E c \in FirstChanges(s, t, asof) : f = <<s, c, c <= asof, ~(c <= asof)>>
    BY <1>5, <1>6, KeptAfter
  <2>2. \A f \in past.after : f[1] = s
    <3> TAKE f \in past.after
    <3>1. PICK h \in FirstRenewalAfter(built.ren, asof) : f = <<h[1], h[2], h[3], ~h[3]>>
      <4>1. past.after = {<<h[1], h[2], h[3], ~h[3]>> : h \in built.after}
        BY PruneIs
      <4> QED BY <1>5, <4>1, Zenon
    <3>2. PICK r \in DOMAIN built.ren, c \in Announced(asof) :
            h = <<r, c, c <= built.ren[r].as_of>> /\ FirstAfter(r, built.ren[r].renewal_date, c)
      <4>1. h \in FirstRenewalAfter(built.ren, asof)
        OBVIOUS
      <4> QED BY <4>1, AfterIs, Zenon
    <3>3. f[1] = h[1] /\ h[1] = r
      BY <3>1, <3>2
    <3> QED BY <1>5, <3>3
  <2> QED BY <2>1, <2>2, Zenon
<1>10. \A c : c <= asof => (c \in FirstChanges(s, t, asof) <=> c \in FirstChanges(s, t, d))
  <2> HIDE DEF d
  <2>1. \A c : c <= asof => (c \in Announced(asof) <=> c \in Announced(d))
    BY <1>1, <1>3, AnnouncedIs
  <2> QED BY <2>1, Zenon DEF FirstChanges
<1> DEFINE flagged(c) == <<s, c, c <= asof, ~(c <= asof)>>
<1>11. \A c : flagged(c)[4] = ~(c <= asof)
  BY Zenon
<1>12. known({f \in v.after : f[1] = s}) = known(past.after)
  <2>1. \A f : f \in v.after /\ f[1] = s /\ ~f[4] <=> f \in past.after /\ ~f[4]
    <3> TAKE f
    <3>1. ASSUME f \in v.after, f[1] = s, ~f[4] PROVE f \in past.after
      <4>1. PICK c \in FirstChanges(s, t, d) : f = flagged(c)
        BY <1>8, <3>1, Zenon
      <4>2. c <= asof
        BY <1>11, <3>1, <4>1, Zenon
      <4> QED BY <1>9, <1>10, <4>1, <4>2, Zenon
    <3>2. ASSUME f \in past.after, ~f[4] PROVE f \in v.after /\ f[1] = s
      <4>1. PICK c \in FirstChanges(s, t, asof) : f = flagged(c)
        BY <1>9, <3>2, Zenon
      <4>2. c <= asof
        BY <1>11, <3>2, <4>1, Zenon
      <4> QED BY <1>8, <1>10, <4>1, <4>2, Zenon
    <3> QED BY <3>1, <3>2, Zenon
  <2> DEFINE a == v.after  b == past.after
  <2> HIDE DEF a, b
  <2>2. {f \in {f \in a : f[1] = s} : ~f[4]} = {f \in b : ~f[4]}
    BY <2>1, Zenon DEF a, b
  <2> QED BY <2>2 DEF a, b
<1>13. v.ren[s] = Unlabelled(row) /\ past.ren[s] = Unlabelled(then)
  BY <1>1, <1>5, PruneIs
<1>14. [v.ren[s] EXCEPT !.first_after = None] = [past.ren[s] EXCEPT !.first_after = None]
  <2>1. row.as_of = asof /\ row.renewal_date = t
    BY DEF asof, t
  <2> HIDE DEF row
  <2>2. [Unlabelled(row) EXCEPT !.first_after = None] = [Unlabelled(then) EXCEPT !.first_after = None]
    BY <1>4, <2>1, Blanked
  <2> QED BY <1>13, <2>2, Zenon
<1>15. ASSUME v.ren[s].first_after # past.ren[s].first_after PROVE exceptions # {}
  <2>1. row.first_after # then.first_after
    <3>1. Unlabelled(row).first_after = row.first_after /\ Unlabelled(then).first_after = then.first_after
      BY DEF Unlabelled
    <3> QED BY <1>13, <1>15, <3>1
  <2>2. PICK c \in Announced(d) : FirstAfter(s, t, c) /\ ~(c <= asof)
    BY <1>4, <2>1
  <2>3. c \in FirstChanges(s, t, d)
    BY <2>2 DEF FirstChanges
  <2>4. flagged(c) \in v.after /\ flagged(c)[1] = s /\ flagged(c)[4]
    BY <1>8, <1>11, <2>2, <2>3, Zenon
  <2> QED BY <2>4, Zenon
<1> HIDE DEF v, past, exceptions, known
<1>16. /\ {e \in v.events : e[1] = s} = past.events
       /\ known({f \in v.after : f[1] = s}) = known(past.after)
       /\ [v.ren[s] EXCEPT !.first_after = None] = [past.ren[s] EXCEPT !.first_after = None]
       /\ v.ren[s].first_after # past.ren[s].first_after => exceptions # {}
  BY <1>7, <1>12, <1>14, <1>15
<1> QED BY <1>16, Zenon DEF v, past, exceptions, known, built

\* The features a traversal of the kept edges counts, with or without an upper bound.
LEMMA KeptDays ==
  ASSUME life \in Worlds, NEW g, NEW d \in Int, g.events = EventEdges(g.ren, d),
         NEW s \in Subs, s \in DOMAIN g.ren, NEW asof \in Int, asof <= d, asof = g.ren[s].as_of,
         NEW v, v = Prune(g), NEW k \in {"hit", "enabled", "disabled"}, NEW bound
  PROVE  Upper(v, s, bound, EdgeDays(v, s, k)) = On(s, k, asof)
<1>1. {e \in v.events : e[1] = s} = PastEvents(s, asof)
  BY KeptEvents
<1>2. \A day : day \in On(s, k, asof) => <<s, k, day>> \in PastEvents(s, asof)
  BY DEF PastEvents, SeenTypes
<1>3. \A e \in PastEvents(s, asof) : e[2] = k => e[3] \in On(s, k, asof)
  BY DEF PastEvents
<1>4. EdgeDays(v, s, k) = On(s, k, asof)
  <2>1. \A day : day \in EdgeDays(v, s, k) <=> \E e \in v.events : e[1] = s /\ e[2] = k /\ e[3] = day
    BY DEF EdgeDays
  <2>2. \A day \in EdgeDays(v, s, k) : day \in On(s, k, asof)
    BY <1>1, <1>3, <2>1
  <2>3. ASSUME NEW day \in On(s, k, asof) PROVE day \in EdgeDays(v, s, k)
    <3> DEFINE e == <<s, k, day>>
    <3>1. e \in PastEvents(s, asof)
      BY <1>2
    <3>2. e \in v.events
      BY <1>1, <3>1
    <3>3. e[1] = s /\ e[2] = k /\ e[3] = day
      OBVIOUS
    <3> QED BY <2>1, <3>2, <3>3
  <2> QED BY <2>2, <2>3
<1>5. \A e \in On(s, k, asof) : e <= asof
  BY DEF On
<1>6. v.ren[s].as_of = asof
  BY PruneIs
<1>7. Upper(v, s, bound, On(s, k, asof)) = On(s, k, asof)
  BY <1>5, <1>6 DEF Upper
<1> QED BY <1>4, <1>7

LEMMA ParityOfKept ==
  ASSUME IInv, graph # None, NEW v, v = Prune(graph)
  PROVE  ParityHolds(v)
<1> DEFINE d == graph.data_end
<1>1. /\ d \in Int /\ Living(d) /\ life \in Worlds /\ DOMAIN graph.ren = Seen(d)
      /\ graph.events = EventEdges(graph.ren, d) /\ graph.after = FirstRenewalAfter(graph.ren, d)
      /\ \A s \in Seen(d) : graph.ren[s] = Row(s, d)
  BY ServedIs
<1>2. DOMAIN v.ren = Seen(d)
  BY <1>1, PruneIs
<1>3. ASSUME NEW s \in Subs, s \in Seen(d), NEW bound \in BOOLEAN
      PROVE  /\ v.ren[s].hits = EvidenceHits(v, s, bound)
             /\ v.ren[s].toggled = PandasToggled(v, s, bound) /\ v.ren[s].toggled = CypherToggled(v, s, bound)
             /\ v.ren[s].first_after = \E f \in v.after : f[1] = s
  <2> DEFINE row == graph.ren[s]  t == life[s].renewal  asof == t - Lead
             on == On(s, "enabled", asof)  off == On(s, "disabled", asof)  hit == On(s, "hit", asof)
  <2>1. /\ row = Row(s, d) /\ row.as_of = asof /\ row.renewal_date = t
        /\ row.hits = Cardinality(Window(On(s, "hit", d), asof, HitWindow))
    BY <1>1, <1>3, RowIs
  <2>2. asof \in Int /\ asof <= d
    BY <1>1, <1>3, AsOfPast
  <2>3. /\ v.ren[s].as_of = asof /\ v.ren[s].hits = row.hits
        /\ v.ren[s].toggled = row.toggled /\ v.ren[s].first_after = row.first_after
    BY <1>1, <1>3, <2>1, PruneIs
  <2>4. /\ Upper(v, s, bound, EdgeDays(v, s, "hit")) = hit
        /\ Upper(v, s, bound, EdgeDays(v, s, "enabled")) = on
        /\ Upper(v, s, bound, EdgeDays(v, s, "disabled")) = off
    <3>1. asof = graph.ren[s].as_of /\ s \in DOMAIN graph.ren
      BY <1>1, <1>3, <2>1
    <3>2. \A k \in {"hit", "enabled", "disabled"} : Upper(v, s, bound, EdgeDays(v, s, k)) = On(s, k, asof)
      <4> HIDE DEF d, asof
      <4> QED BY <1>1, <2>2, <3>1, KeptDays
    <3> QED BY <3>2
  <2>5. row.hits = EvidenceHits(v, s, bound)
    <3>1. EvidenceHits(v, s, bound) = Cardinality({e \in hit : e > asof - HitWindow})
      BY <2>3, <2>4 DEF EvidenceHits
    <3>2. {e \in On(s, "hit", d) : e <= asof} = hit
      <4> HIDE DEF d, asof
      <4> QED BY <1>1, <2>2, CutDays DEF EventTypes
    <3>3. \A e : e \in hit <=> e \in On(s, "hit", d) /\ e <= asof
      BY <3>2
    <3>4. \A e \in hit : e > asof - HitWindow <=> asof - HitWindow < e
      OBVIOUS
    <3>5. Window(On(s, "hit", d), asof, HitWindow) = {e \in hit : e > asof - HitWindow}
      <4> HIDE DEF hit, asof, d
      <4> QED BY <3>3, <3>4 DEF Window
    <3> QED BY <2>1, <3>1, <3>5
  <2>6. row.toggled \in BOOLEAN /\ (row.toggled <=> on # {} /\ off # {} /\ Latest(off) > Latest(on))
    <3>1. row.toggled \in BOOLEAN /\ (row.toggled <=> ToggledOff(s, asof, d))
      BY <2>1, FlagsAre
    <3>2. ToggledOff(s, asof, d) <=> on # {} /\ off # {} /\ Latest(off) > Latest(on)
      <4> HIDE DEF d, asof
      <4> QED BY <1>1, <2>2, ToggledIs
    <3> HIDE DEF row, on, off
    <3> QED BY <3>1, <3>2
  <2>7. on # {} /\ off # {} => Latest(off) > Latest(on) /\ Latest(on \cup off) \in off
    <3> HIDE DEF asof
    <3> QED BY <1>1, <2>2, OverageDays
  <2> HIDE DEF row, on, off, hit, asof, d
  <2>8. row.toggled = PandasToggled(v, s, bound)
    <3>1. PandasToggled(v, s, bound) = (on # {} /\ off # {} /\ Latest(on \cup off) \in off)
      BY <2>4, Zenon DEF PandasToggled
    <3>2. PandasToggled(v, s, bound) \in BOOLEAN
      BY <3>1, Zenon
    <3>3. PandasToggled(v, s, bound) <=> row.toggled
      BY <2>6, <2>7, <3>1
    <3> QED BY <2>6, <3>2, <3>3
  <2>9. row.toggled = CypherToggled(v, s, bound)
    <3>1. CypherToggled(v, s, bound) = (on # {} /\ off # {} /\ Latest(off) > Latest(on))
      BY <2>4, Zenon DEF CypherToggled
    <3>2. CypherToggled(v, s, bound) \in BOOLEAN
      BY <3>1, Zenon
    <3>3. CypherToggled(v, s, bound) <=> row.toggled
      BY <2>6, <3>1
    <3> QED BY <2>6, <3>2, <3>3
  <2>10. row.first_after = \E f \in v.after : f[1] = s
    <3>1. row.first_after \in BOOLEAN /\ (row.first_after <=> \E c \in Announced(d) : FirstAfter(s, t, c))
      BY <2>1, FlagsAre
    <3>2. \A f : f \in v.after /\ f[1] = s <=> \E c \in FirstChanges(s, t, d) : f = <<s, c, c <= asof, ~(c <= asof)>>
      <4>1. s \in DOMAIN graph.ren /\ asof = graph.ren[s].as_of /\ t = graph.ren[s].renewal_date
        BY <1>1, <1>3, <2>1 DEF row
      <4> HIDE DEF t
      <4> QED BY <1>1, <4>1, KeptAfter
    <3>3. (\E f \in v.after : f[1] = s) <=> \E c \in Announced(d) : FirstAfter(s, t, c)
      BY <3>2, Zenon DEF FirstChanges
    <3> QED BY <3>1, <3>3
  <2> QED BY <2>3, <2>5, <2>8, <2>9, <2>10
<1> QED BY <1>2, <1>3 DEF ParityHolds, Seen

\* What prune() checks before it copies: among the billing edges, only a scheduled cancellation lies before as_of.
LEMMA BilledLater ==
  ASSUME NEW d, Living(d), NEW s \in Subs, s \in Seen(d), NEW k \in BilledTypes \ {"scheduled"}, NEW day \in On(s, k, d),
         k \in {"paid", "failed"} => day >= life[s].renewal
  PROVE  ~(day <= life[s].renewal - Lead)
<1>1. /\ life[s].renewal \in Int /\ LastRetry \in Nat /\ Lead \in Nat \ {0} /\ Period \in Nat /\ Retries \subseteq Nat
      /\ life[s].renewal - Lead \in Int
  BY Lives, LastRetryIs, DaysAssumption DEF Living
<1>2. CASE k = "canceled"
  <2>1. day = life[s].renewal \/ day = life[s].renewal + LastRetry
    BY <1>2 DEF On, Told
  <2> QED BY <1>1, <2>1
<1>3. CASE k \in {"paid", "failed"}
  <2>1. day \in Int
    <3>1. On(s, "paid", d) \subseteq Int
      BY <1>1 DEF On, Told
    <3>2. On(s, "failed", d) \subseteq Int
      BY <1>1 DEF On, Told
    <3> QED BY <1>3, <3>1, <3>2
  <2> QED BY <1>1, <1>3, <2>1
<1> QED BY <1>2, <1>3 DEF BilledTypes

LEMMA NothingRefused == IInv /\ graph # None => ~Refuses(graph)
<1> SUFFICES ASSUME IInv, graph # None PROVE ~Refuses(graph)
  OBVIOUS
<1> DEFINE d == graph.data_end
<1>1. /\ d \in Int /\ Living(d) /\ life \in Worlds /\ DOMAIN graph.ren = Seen(d)
      /\ graph.events = EventEdges(graph.ren, d) /\ graph.after = FirstRenewalAfter(graph.ren, d)
      /\ \A s \in Seen(d) : graph.ren[s] = Row(s, d)
  BY ServedIs
<1>2. ASSUME NEW e \in graph.events, e[3] <= graph.ren[e[1]].as_of, OutcomeEvidence(graph.ren, e) PROVE FALSE
  <2>1. PICK s \in DOMAIN graph.ren, k \in EventTypes : \E day \in On(s, k, d) :
          e = <<s, k, day>> /\ (k \in {"paid", "failed"} => day >= graph.ren[s].renewal_date)
    BY <1>1, EdgeIs
  <2>2. PICK day \in On(s, k, d) : e = <<s, k, day>> /\ (k \in {"paid", "failed"} => day >= graph.ren[s].renewal_date)
    BY <2>1
  <2>3. e[1] = s /\ e[2] = k /\ e[3] = day
    BY <2>2
  <2>4. s \in Subs /\ s \in Seen(d) /\ graph.ren[s].as_of = life[s].renewal - Lead /\ graph.ren[s].renewal_date = life[s].renewal
    BY <1>1, InGraph, RowIs
  <2>5. k \in BilledTypes \ {"scheduled"}
    BY <1>2, <2>3 DEF OutcomeEvidence
  <2>6. ~(day <= life[s].renewal - Lead)
    BY <1>1, <2>2, <2>4, <2>5, BilledLater
  <2> QED BY <1>2, <2>3, <2>4, <2>6
<1>3. ASSUME NEW f \in graph.after, f[3] # (f[2] <= graph.ren[f[1]].as_of) PROVE FALSE
  <2>1. f \in FirstRenewalAfter(graph.ren, d)
    BY <1>1
  <2>2. PICK s \in DOMAIN graph.ren, c \in Announced(d) :
          f = <<s, c, c <= graph.ren[s].as_of>> /\ FirstAfter(s, graph.ren[s].renewal_date, c)
    <3> HIDE DEF d
    <3> QED BY <2>1, AfterIs, Zenon
  <2>3. f[1] = s /\ f[2] = c /\ f[3] = (c <= graph.ren[s].as_of)
    BY <2>2, Zenon
  <2> QED BY <1>3, <2>3, Zenon
<1> QED BY <1>2, <1>3, Zenon DEF Refuses

\* Every change after an as_of has its row, declared.
LEMMA AllDeclared ==
  ASSUME IInv, graph # None, NEW v, v = Prune(graph),
         NEW due, due = {f \in graph.after : ~f[3]}, NEW late, late = {f \in v.after : f[2] > v.ren[f[1]].as_of}
  PROVE  Cardinality(late) = Cardinality(due) /\ {f \in late : f[4] /\ ~f[3]} = late
<1> DEFINE d == graph.data_end  copy(f) == <<f[1], f[2], f[3], ~f[3]>>
           row(a, c) == <<a, c, c <= graph.ren[a].as_of>>
<1>1. /\ d \in Int /\ Living(d) /\ life \in Worlds /\ DOMAIN graph.ren = Seen(d)
      /\ graph.after = FirstRenewalAfter(graph.ren, d) /\ \A s \in Seen(d) : graph.ren[s] = Row(s, d)
  BY ServedIs
<1>2. v.after = {copy(f) : f \in graph.after} /\ \A s \in DOMAIN graph.ren : v.ren[s].as_of = graph.ren[s].as_of
  BY <1>1, PruneIs
<1>3. \A f : /\ copy(f)[1] = f[1] /\ copy(f)[2] = f[2] /\ copy(f)[3] = f[3] /\ copy(f)[4] = ~f[3]
  BY Zenon
<1>4. ASSUME NEW f \in graph.after
      PROVE  /\ f[1] \in Subs /\ f[2] \in Changes /\ f = row(f[1], f[2])
             /\ f[3] = (f[2] <= graph.ren[f[1]].as_of) /\ (~f[3] <=> f[2] > v.ren[f[1]].as_of)
  <2>1. f \in FirstRenewalAfter(graph.ren, d)
    BY <1>1
  <2>2. PICK s \in DOMAIN graph.ren, c \in Announced(d) :
          f = <<s, c, c <= graph.ren[s].as_of>> /\ FirstAfter(s, graph.ren[s].renewal_date, c)
    <3> HIDE DEF d
    <3> QED BY <2>1, AfterIs, Zenon
  <2>3. f[1] = s /\ f[2] = c /\ f[3] = (c <= graph.ren[s].as_of) /\ f = row(f[1], f[2])
    BY <2>2, Zenon
  <2>4. c \in Int /\ graph.ren[s].as_of \in Int /\ v.ren[s].as_of = graph.ren[s].as_of
    <3>1. graph.ren[s].as_of = life[s].renewal - Lead
      BY <1>1, InGraph, RowIs
    <3> QED BY <1>1, <1>2, <3>1, InGraph, AsOfPast, AnnouncedIs
  <2>5. ~(c <= graph.ren[s].as_of) <=> c > v.ren[s].as_of
    BY <2>4
  <2>6. ~f[3] <=> f[2] > v.ren[f[1]].as_of
    BY <2>3, <2>5, Zenon
  <2>7. s \in Subs /\ c \in Changes
    BY InGraph DEF Announced
  <2> QED BY <2>3, <2>6, <2>7, Zenon
<1> HIDE DEF copy, row
<1>5. \A x : x \in late <=> \E f \in due : x = copy(f)
  <2>1. ASSUME NEW x \in late PROVE \E f \in due : x = copy(f)
    <3>1. x \in v.after /\ x[2] > v.ren[x[1]].as_of
      BY Zenon
    <3>2. PICK f \in graph.after : x = copy(f)
      BY <1>2, <3>1, Zenon
    <3>3. ~f[3]
      BY <1>3, <1>4, <3>1, <3>2, Zenon
    <3> QED BY <3>2, <3>3, Zenon
  <2>2. ASSUME NEW f \in due PROVE copy(f) \in late
    <3>1. f \in graph.after /\ ~f[3]
      BY Zenon
    <3>2. copy(f) \in v.after
      BY <1>2, <3>1, Zenon
    <3>3. copy(f)[1] = f[1] /\ copy(f)[2] = f[2] /\ f[2] > v.ren[f[1]].as_of
      BY <1>3, <1>4, <3>1, Zenon
    <3>4. copy(f)[2] > v.ren[copy(f)[1]].as_of
      BY <3>3
    <3> QED BY <3>2, <3>4, Zenon
  <2> QED BY <2>1, <2>2, Zenon
<1>6. {f \in late : f[4] /\ ~f[3]} = late
  <2>1. \A x \in late : x[4] /\ ~x[3]
    <3> TAKE x \in late
    <3>1. PICK f \in due : x = copy(f)
      BY <1>5, Zenon
    <3>2. ~f[3]
      BY Zenon
    <3> QED BY <1>3, <3>1, <3>2, Zenon
  <2> QED BY <2>1, Zenon
<1>7. IsFiniteSet(due)
  <2> DEFINE key == [f \in due |-> <<f[1], f[2]>>]
  <2>1. \A f \in due : f \in graph.after
    BY Zenon
  <2>2. key \in [due -> Subs \X Changes]
    BY <1>4, <2>1
  <2>3. \A f, h \in due : key[f] = key[h] => f = h
    <3> SUFFICES ASSUME NEW f \in due, NEW h \in due, key[f] = key[h] PROVE f = h
      OBVIOUS
    <3>1. f[1] = h[1] /\ f[2] = h[2]
      BY <2>1
    <3> QED BY <1>4, <2>1, <3>1, Zenon
  <2>4. key \in Injection(due, Subs \X Changes)
    BY <2>2, <2>3, Fun_IsInj
  <2> QED BY <2>4, FS_Product, FS_Injection, DaysAssumption
<1>8. Cardinality(late) = Cardinality(due)
  <2> DEFINE h == [f \in due |-> copy(f)]
  <2>1. h \in [due -> late]
    BY <1>5
  <2>2. \A x \in late : \E f \in due : h[f] = x
    BY <1>5
  <2>3. \A f, g \in due : h[f] = h[g] => f = g
    <3> SUFFICES ASSUME NEW f \in due, NEW g \in due, h[f] = h[g] PROVE f = g
      OBVIOUS
    <3>1. copy(f) = copy(g)
      OBVIOUS
    <3>2. f[1] = g[1] /\ f[2] = g[2]
      <4>1. copy(f)[1] = f[1] /\ copy(g)[1] = g[1] /\ copy(f)[2] = f[2] /\ copy(g)[2] = g[2]
        BY <1>3, Zenon
      <4> QED BY <3>1, <4>1
    <3>3. f \in graph.after /\ g \in graph.after
      BY Zenon
    <3> QED BY <1>4, <3>2, <3>3, Zenon
  <2>4. h \in Bijection(due, late)
    BY <2>1, <2>2, <2>3, Fun_IsBij
  <2> QED BY <1>7, <2>4, FS_Bijection DEF ExistsBijection
<1> QED BY <1>6, <1>8

LEMMA EvidenceHoldsAlways == IInv => EvidenceHolds
<1> SUFFICES ASSUME IInv, graph # None PROVE ~Refuses(graph) /\ Holds(Prune(graph), graph)
  BY DEF EvidenceHolds
<1> DEFINE v == Prune(graph)  d == graph.data_end
           declared == Cardinality({f \in graph.after : ~f[3]})
           late == {f \in v.after : f[2] > v.ren[f[1]].as_of}
<1>1. /\ graph.events = EventEdges(graph.ren, d)
  BY ServedIs
<1>2. /\ v.events = {e \in graph.events : Kept(graph, e)} /\ v.after = {<<f[1], f[2], f[3], ~f[3]>> : f \in graph.after}
      /\ \A s \in DOMAIN graph.ren : v.ren[s].as_of = graph.ren[s].as_of
  BY <1>1, PruneIs
<1>3. ASSUME NEW e \in v.events PROVE e[3] <= v.ren[e[1]].as_of /\ (e[2] \in BilledTypes => e[2] = "scheduled")
  <2>1. e \in graph.events /\ Kept(graph, e)
    BY <1>2
  <2>2. e[1] \in DOMAIN graph.ren
    <3>1. e \in EventEdges(graph.ren, d)
      BY <1>1, <2>1
    <3>2. PICK s \in DOMAIN graph.ren, k \in EventTypes : \E day \in On(s, k, d) : e = <<s, k, day>>
      BY <3>1, EdgeIs
    <3> QED BY <1>1, <3>2
  <2> QED BY <1>2, <2>1, <2>2 DEF Kept, OutcomeEvidence
<1>4. \A f \in v.after : f[4] # f[3]
  <2> TAKE f \in v.after
  <2>1. PICK h \in graph.after : f = <<h[1], h[2], h[3], ~h[3]>>
    BY <1>2, Zenon
  <2>2. f[3] = h[3] /\ f[4] = ~h[3]
    BY <2>1, Zenon
  <2> QED BY <2>2, Zenon
<1>5. ParityHolds(v)
  BY ParityOfKept
<1>6. Cardinality(late) = declared /\ Cardinality({f \in late : f[4] /\ ~f[3]}) = declared
  <2>1. Cardinality(late) = declared /\ {f \in late : f[4] /\ ~f[3]} = late
    BY AllDeclared
  <2> QED BY <2>1, Zenon
<1>7. Holds(v, graph)
  <2> HIDE DEF v
  <2> QED BY <1>3, <1>4, <1>5, <1>6, Zenon DEF Holds
<1> QED BY <1>7, NothingRefused

-----------------------------------------------------------------------------
(* Neighbours. *)

\* What the order of neighbours asks of the rows.
Countable(ren) == DOMAIN ren \subseteq Subs /\ \A s \in DOMAIN ren : ren[s].hits \in Int

LEMMA RowsCountable ==
  ASSUME IInv, graph # None
  PROVE  Countable(graph.ren)
<1> DEFINE d == graph.data_end
<1>1. /\ d \in Int /\ Living(d) /\ life \in Worlds /\ DOMAIN graph.ren = Seen(d)
      /\ \A s \in Seen(d) : graph.ren[s] = Row(s, d)
  BY ServedIs
<1>2. ASSUME NEW s \in Subs, s \in Seen(d) PROVE graph.ren[s].hits \in Int
  <2> DEFINE window == Window(On(s, "hit", d), life[s].renewal - Lead, HitWindow)
  <2>1. graph.ren[s].hits = Cardinality(window)
    BY <1>1, <1>2, RowIs
  <2>2. window \in SUBSET life[s].hits /\ IsFiniteSet(life[s].hits)
    BY <1>1, Lives, OnIs DEF Window
  <2>3. IsFiniteSet(window)
    BY <2>2, FS_Subset
  <2>4. Cardinality(window) \in Nat
    BY <2>3, FS_CardinalityType
  <2> QED BY <2>1, <2>4
<1> QED BY <1>1, <1>2 DEF Countable, Seen

LEMMA CloserOrders ==
  ASSUME NEW ren, Countable(ren), NEW a \in DOMAIN ren
  PROVE  /\ \A x \in DOMAIN ren : ~Closer(ren, a, x, x)
         /\ \A x, y, z \in DOMAIN ren : Closer(ren, a, x, y) /\ Closer(ren, a, y, z) => Closer(ren, a, x, z)
         /\ \A x, y \in DOMAIN ren : x # y => Closer(ren, a, x, y) \/ Closer(ren, a, y, x)
<1>1. \A x \in DOMAIN ren : D2(ren, a, x) \in Int /\ x \in Int
  <2> TAKE x \in DOMAIN ren
  <2>1. ren[a].hits - ren[x].hits \in Int
    BY DEF Countable
  <2>2. (ren[a].hits - ren[x].hits) * (ren[a].hits - ren[x].hits) \in Int
    BY <2>1
  <2>3. x \in Int
    <3>1. Subs \subseteq Nat
      BY DaysAssumption, Zenon
    <3>2. x \in Nat
      BY <3>1, Zenon DEF Countable
    <3> QED BY <3>2
  <2> QED BY <2>2, <2>3 DEF D2
<1> QED BY <1>1 DEF Closer

LEMMA BeforeOrders ==
  ASSUME NEW ren, Countable(ren), NEW a \in DOMAIN ren,
         NEW R, \A b, c \in Block(ren, a) : <<b, c>> \in R <=> Before(ren, a, b, c)
  PROVE  StrictlyOrders(R, Block(ren, a)) /\ IsFiniteSet(Block(ren, a)) /\ Block(ren, a) \subseteq DOMAIN ren
<1>1. Block(ren, a) \in SUBSET (DOMAIN ren)
  BY DEF Block, References, Countable
<1>2. IsFiniteSet(Block(ren, a))
  BY <1>1, FS_Subset, DaysAssumption DEF Countable
<1> DEFINE B == Block(ren, a)
<1>3. \A x \in B : ~Before(ren, a, x, x)
  BY <1>1, CloserOrders DEF Before
<1>4. \A x, y, z \in B : Before(ren, a, x, y) /\ Before(ren, a, y, z) => Before(ren, a, x, z)
  BY <1>1, CloserOrders DEF Before
<1>5. \A x, y \in B : x # y => Before(ren, a, x, y) \/ Before(ren, a, y, x)
  BY <1>1, CloserOrders DEF Before
<1> HIDE DEF B
<1>6. StrictlyOrders(R, B)
  BY <1>3, <1>4, <1>5 DEF StrictlyOrders, B
<1> QED BY <1>1, <1>2, <1>6 DEF B

\* How many neighbours a source can have.
Room(ren, a) == Cardinality(Block(ren, a)) - (IF a \in References(ren) THEN 1 ELSE 0)

\* What the sort of a block gives: the candidates by rank, then the source itself if it is one of them.
LEMMA OrderedIs ==
  ASSUME NEW ren, Countable(ren), NEW a \in DOMAIN ren, NEW seq, seq = Ordered(ren, a)
  PROVE  /\ Room(ren, a) \in Nat
         /\ \A i \in 1..Room(ren, a) :
              /\ seq[i] \in Block(ren, a) \ {a}
              /\ Cardinality({c \in Block(ren, a) \ {a} : Closer(ren, a, c, seq[i])}) = i - 1
         /\ \A b \in Block(ren, a) \ {a} : \E i \in 1..Room(ren, a) : seq[i] = b
         /\ \A i, j \in 1..Room(ren, a) : i < j => Closer(ren, a, seq[i], seq[j])
<1> DEFINE B == Block(ren, a)  n == Cardinality(B)  R == {p \in B \X B : Before(ren, a, p[1], p[2])}
           room == Room(ren, a)
<1>1. \A b, c \in B : <<b, c>> \in R <=> Before(ren, a, b, c)
  OBVIOUS
<1> HIDE DEF R
<1>2. StrictlyOrders(R, B) /\ IsFiniteSet(B) /\ B \subseteq DOMAIN ren
  BY <1>1, BeforeOrders
<1>3. n \in Nat
  BY <1>2, FS_CardinalityType
<1>4. \E f : Sorted(R, B, f)
  BY <1>2, SortedExists
<1>5. Sorted(R, B, seq)
  <2>1. PICK f : Sorted(R, B, f)
    BY <1>4
  <2>2. f \in [1..n -> B] /\ \A i, j \in 1..n : i < j => Before(ren, a, f[i], f[j])
    BY <1>1, <2>1 DEF Sorted
  <2>3. \A g \in [1..n -> B] : DOMAIN g = 1..n
    OBVIOUS
  <2> HIDE DEF B, n
  <2>4. \E g \in [1..n -> B] : \A i, j \in DOMAIN g : i < j => Before(ren, a, g[i], g[j])
    BY <2>2, <2>3
  <2>5. seq = CHOOSE g \in [1..n -> B] : \A i, j \in DOMAIN g : i < j => Before(ren, a, g[i], g[j])
    BY Zenon DEF Ordered, B, n
  <2>6. seq \in [1..n -> B] /\ \A i, j \in DOMAIN seq : i < j => Before(ren, a, seq[i], seq[j])
    BY <2>4, <2>5, Zenon
  <2>7. \A i \in 1..n : seq[i] \in B
    BY <2>6
  <2>8. \A i, j \in 1..n : i < j => <<seq[i], seq[j]>> \in R
    BY <1>1, <2>3, <2>6, <2>7
  <2> QED BY <2>6, <2>8 DEF Sorted, n
<1>6. /\ \A x \in B : \E i \in 1..n : seq[i] = x
      /\ \A i \in 1..n : Cardinality(Below(R, B, seq[i])) = i - 1
      /\ \A i, j \in 1..n : <<seq[i], seq[j]>> \in R <=> i < j
  BY <1>2, <1>5, SortedPlaces
<1>7. seq \in [1..n -> B]
  BY <1>5 DEF Sorted
<1>8. a \in References(ren) <=> a \in B
  BY DEF Block
<1>9. ASSUME a \in B PROVE n > 0 /\ seq[n] = a
  <2>1. PICK i \in 1..n : seq[i] = a
    BY <1>6, <1>9
  <2>2. \A j \in 1..n : ~(i < j)
    <3> TAKE j \in 1..n
    <3>1. ~Before(ren, a, a, seq[j])
      BY DEF Before
    <3> QED BY <1>1, <1>6, <1>7, <1>9, <2>1, <3>1
  <2> QED BY <1>3, <2>1, <2>2
<1>10. room \in Nat /\ room <= n /\ \A i \in 1..n : i \in 1..room <=> seq[i] # a
  <2>1. CASE a \in B
    <3>1. room = n - 1 /\ n > 0 /\ seq[n] = a
      BY <1>8, <1>9, <2>1 DEF Room
    <3>2. \A i, j \in 1..n : seq[i] = seq[j] => i = j
      <4> TAKE i, j \in 1..n
      <4>1. seq[i] = seq[j] => ~(i < j) /\ ~(j < i)
        <5>1. \A k \in 1..n : <<seq[k], seq[k]>> \notin R
          BY <1>2, <1>7 DEF StrictlyOrders
        <5> QED BY <1>6, <5>1
      <4> QED BY <1>3, <4>1
    <3>3. n \in 1..n
      BY <1>3, <3>1
    <3>4. \A i \in 1..n : seq[i] = a <=> i = n
      BY <3>1, <3>2, <3>3
    <3> HIDE DEF room
    <3> QED BY <1>3, <3>1, <3>4
  <2>2. CASE a \notin B
    <3>1. room = n
      BY <1>3, <1>8, <2>2 DEF Room
    <3> HIDE DEF room
    <3> QED BY <1>3, <1>7, <2>2, <3>1
  <2> QED BY <2>1, <2>2
<1> HIDE DEF room
<1>11. \A i \in 1..room : i \in 1..n /\ seq[i] \in B \ {a}
  BY <1>3, <1>7, <1>10
<1>12. \A i \in 1..room : Cardinality({c \in B \ {a} : Closer(ren, a, c, seq[i])}) = i - 1
  <2> TAKE i \in 1..room
  <2>1. i \in 1..n /\ seq[i] \in B /\ seq[i] # a
    BY <1>11
  <2>2. \A c \in B : <<c, seq[i]>> \in R <=> c # a /\ Closer(ren, a, c, seq[i])
    BY <1>1, <2>1 DEF Before
  <2>3. Below(R, B, seq[i]) = {c \in B \ {a} : Closer(ren, a, c, seq[i])}
    BY <2>2 DEF Below
  <2> QED BY <1>6, <2>1, <2>3
<1>13. \A b \in B \ {a} : \E i \in 1..room : seq[i] = b
  BY <1>6, <1>10
<1>14. \A i, j \in 1..room : i < j => Closer(ren, a, seq[i], seq[j])
  <2> TAKE i, j \in 1..room
  <2>1. seq[i] \in B \ {a} /\ seq[j] \in B \ {a} /\ i \in 1..n /\ j \in 1..n
    BY <1>11
  <2>2. i < j => Before(ren, a, seq[i], seq[j])
    BY <1>1, <1>6, <2>1
  <2> QED BY <2>1, <2>2 DEF Before
<1> QED BY <1>10, <1>11, <1>12, <1>13, <1>14 DEF room

LEMMA KEffIs ==
  ASSUME NEW ren, Countable(ren), NEW a \in DOMAIN ren
  PROVE  /\ Room(ren, a) \in Nat /\ KEff(ren, a) \in Nat
         /\ KEff(ren, a) = (IF K < Room(ren, a) THEN K ELSE Room(ren, a))
         /\ \A r : r \in 1..KEff(ren, a) <=> r \in 1..K /\ r <= Room(ren, a)
<1>1. Room(ren, a) \in Nat
  BY OrderedIs
<1>2. KEff(ren, a) = (IF K < Room(ren, a) THEN K ELSE Room(ren, a))
  BY DEF KEff, Room
<1> QED BY <1>1, <1>2, DaysAssumption

LEMMA SimilarIs ==
  ASSUME NEW ren, Countable(ren), NEW x
  PROVE  x \in SimilarTo(ren) <=> \E a \in DOMAIN ren : \E r \in 1..KEff(ren, a) : x = <<a, r, Ordered(ren, a)[r]>>
<1> DEFINE pairs == {y \in (DOMAIN ren) \X (1..K) : y[2] <= KEff(ren, y[1])}
<1>1. x \in SimilarTo(ren) <=> \E y \in pairs : x = <<y[1], y[2], Ordered(ren, y[1])[y[2]]>>
  BY DEF SimilarTo, Countable
<1>2. \A y \in pairs : y[1] \in DOMAIN ren /\ y[2] \in 1..KEff(ren, y[1])
  <2> TAKE y \in pairs
  <2>1. y[1] \in DOMAIN ren /\ y[2] \in 1..K /\ y[2] <= KEff(ren, y[1])
    OBVIOUS
  <2>2. KEff(ren, y[1]) \in Nat
    BY <2>1, KEffIs
  <2> QED BY <2>1, <2>2, DaysAssumption
<1>3. \A a \in DOMAIN ren : \A r \in 1..KEff(ren, a) : <<a, r>> \in pairs /\ <<a, r>>[1] = a /\ <<a, r>>[2] = r
  <2> TAKE a \in DOMAIN ren
  <2> TAKE r \in 1..KEff(ren, a)
  <2>1. r \in 1..K /\ r <= KEff(ren, a)
    BY KEffIs
  <2> QED BY <2>1
<1> HIDE DEF pairs
<1>4. ASSUME NEW y \in pairs, x = <<y[1], y[2], Ordered(ren, y[1])[y[2]]>>
      PROVE  \E a \in DOMAIN ren : \E r \in 1..KEff(ren, a) : x = <<a, r, Ordered(ren, a)[r]>>
  BY <1>2, <1>4, Zenon
<1>5. ASSUME NEW a \in DOMAIN ren, NEW r \in 1..KEff(ren, a), x = <<a, r, Ordered(ren, a)[r]>>
      PROVE  \E y \in pairs : x = <<y[1], y[2], Ordered(ren, y[1])[y[2]]>>
  <2> DEFINE y == <<a, r>>
  <2>1. y \in pairs /\ y[1] = a /\ y[2] = r
    BY <1>3
  <2> HIDE DEF y
  <2>2. x = <<y[1], y[2], Ordered(ren, y[1])[y[2]]>>
    BY <1>5, <2>1
  <2> QED BY <2>1, <2>2
<1> QED BY <1>1, <1>4, <1>5, Zenon

LEMMA NeighboursAre ==
  ASSUME NEW ren, Countable(ren), NEW x \in SimilarTo(ren)
  PROVE  x[1] \in DOMAIN ren /\ x[3] \in Block(ren, x[1]) \ {x[1]} /\ x[3] \in DOMAIN ren
<1>1. PICK a \in DOMAIN ren : \E r \in 1..KEff(ren, a) : x = <<a, r, Ordered(ren, a)[r]>>
  BY SimilarIs
<1>2. PICK r \in 1..KEff(ren, a) : x = <<a, r, Ordered(ren, a)[r]>>
  BY <1>1
<1>3. r \in 1..Room(ren, a)
  BY KEffIs, DaysAssumption
<1>4. Ordered(ren, a)[r] \in Block(ren, a) \ {a}
  BY <1>3, OrderedIs
<1>5. Block(ren, a) \subseteq DOMAIN ren
  BY DEF Block, References, Countable
<1> QED BY <1>2, <1>4, <1>5

LEMMA OracleIs ==
  ASSUME NEW ren, Countable(ren), NEW x
  PROVE  x \in OracleSimilar(ren) <=>
           \E a \in DOMAIN ren, r \in 1..K : \E b \in Block(ren, a) \ {a} :
             x = <<a, r, b>> /\ r - 1 = Cardinality({c \in Block(ren, a) \ {a} : Closer(ren, a, c, b)})
<1> DEFINE cand(a) == {c \in DOMAIN ren \ {a} : ren[c].route = "model" /\ ren[c].plan = ren[a].plan}
<1>1. \A a : cand(a) = Block(ren, a) \ {a}
  BY DEF Block, References
<1>2. x \in OracleSimilar(ren) <=>
        /\ x \in (DOMAIN ren) \X (1..K) \X (DOMAIN ren) /\ x[3] \in cand(x[1])
        /\ x[2] - 1 = Cardinality({c \in cand(x[1]) : Closer(ren, x[1], c, x[3])})
  BY Zenon DEF OracleSimilar, Countable
<1>3. \A a : Block(ren, a) \subseteq DOMAIN ren
  BY DEF Block, References, Countable
<1> HIDE DEF cand
<1>4. x \in OracleSimilar(ren) <=>
        /\ x \in (DOMAIN ren) \X (1..K) \X (DOMAIN ren) /\ x[3] \in Block(ren, x[1]) \ {x[1]}
        /\ x[2] - 1 = Cardinality({c \in Block(ren, x[1]) \ {x[1]} : Closer(ren, x[1], c, x[3])})
  BY <1>1, <1>2, Zenon
<1>5. ASSUME x \in OracleSimilar(ren)
      PROVE  \E a \in DOMAIN ren, r \in 1..K : \E b \in Block(ren, a) \ {a} :
               x = <<a, r, b>> /\ r - 1 = Cardinality({c \in Block(ren, a) \ {a} : Closer(ren, a, c, b)})
  <2>1. x[1] \in DOMAIN ren /\ x[2] \in 1..K /\ x = <<x[1], x[2], x[3]>>
    BY <1>4, <1>5
  <2> QED BY <1>4, <1>5, <2>1, Zenon
<1>6. ASSUME NEW a \in DOMAIN ren, NEW r \in 1..K, NEW b \in Block(ren, a) \ {a}, x = <<a, r, b>>,
             r - 1 = Cardinality({c \in Block(ren, a) \ {a} : Closer(ren, a, c, b)})
      PROVE  x \in OracleSimilar(ren)
  <2>1. x[1] = a /\ x[2] = r /\ x[3] = b /\ x \in (DOMAIN ren) \X (1..K) \X (DOMAIN ren)
    BY <1>3, <1>6
  <2> QED BY <1>4, <1>6, <2>1, Zenon
<1> QED BY <1>5, <1>6, Zenon

LEMMA OracleHas ==
  ASSUME NEW ren, Countable(ren), NEW a \in DOMAIN ren, NEW r \in 1..K, NEW b \in Block(ren, a) \ {a},
         r - 1 = Cardinality({c \in Block(ren, a) \ {a} : Closer(ren, a, c, b)})
  PROVE  <<a, r, b>> \in OracleSimilar(ren)
<1> DEFINE x == <<a, r, b>>
<1>1. \E e \in DOMAIN ren, i \in 1..K : \E h \in Block(ren, e) \ {e} :
        x = <<e, i, h>> /\ i - 1 = Cardinality({c \in Block(ren, e) \ {e} : Closer(ren, e, c, h)})
  BY Zenon
<1> HIDE DEF x
<1>2. x \in OracleSimilar(ren)
  BY <1>1, OracleIs, Zenon
<1> QED BY <1>2 DEF x

LEMMA TopK ==
  ASSUME NEW ren, Countable(ren)
  PROVE  SimilarTo(ren) = OracleSimilar(ren)
<1>1. ASSUME NEW x \in SimilarTo(ren) PROVE x \in OracleSimilar(ren)
  <2>1. PICK a \in DOMAIN ren : \E r \in 1..KEff(ren, a) : x = <<a, r, Ordered(ren, a)[r]>>
    BY SimilarIs
  <2>2. PICK r \in 1..KEff(ren, a) : x = <<a, r, Ordered(ren, a)[r]>>
    BY <2>1
  <2>3. r \in 1..K /\ r \in 1..Room(ren, a)
    BY KEffIs, DaysAssumption
  <2> DEFINE b == Ordered(ren, a)[r]
  <2>4. b \in Block(ren, a) \ {a} /\ r - 1 = Cardinality({c \in Block(ren, a) \ {a} : Closer(ren, a, c, b)})
    BY <2>3, OrderedIs
  <2>5. x = <<a, r, b>>
    BY <2>2
  <2> HIDE DEF b
  <2> QED BY <2>3, <2>4, <2>5, OracleHas
<1>2. ASSUME NEW x \in OracleSimilar(ren) PROVE x \in SimilarTo(ren)
  <2>1. PICK a \in DOMAIN ren, r \in 1..K : \E b \in Block(ren, a) \ {a} :
             x = <<a, r, b>> /\ r - 1 = Cardinality({c \in Block(ren, a) \ {a} : Closer(ren, a, c, b)})
    BY OracleIs
  <2>2. PICK b \in Block(ren, a) \ {a} :
             x = <<a, r, b>> /\ r - 1 = Cardinality({c \in Block(ren, a) \ {a} : Closer(ren, a, c, b)})
    BY <2>1
  <2> DEFINE seq == Ordered(ren, a)
  <2>3. PICK i \in 1..Room(ren, a) : seq[i] = b
    BY OrderedIs
  <2>4. Cardinality({c \in Block(ren, a) \ {a} : Closer(ren, a, c, b)}) = i - 1
    BY <2>3, OrderedIs
  <2>5. Room(ren, a) \in Nat
    BY OrderedIs
  <2>6. r = i
    BY <2>2, <2>4, <2>5, DaysAssumption
  <2>7. r \in 1..KEff(ren, a)
    BY <2>5, <2>6, KEffIs
  <2> QED BY <2>2, <2>3, <2>6, <2>7, SimilarIs
<1> QED BY <1>1, <1>2

LEMMA SimilarIsTopKHolds == IInv => SimilarIsTopK
<1> SUFFICES ASSUME IInv, graph # None
             PROVE  /\ graph.similar = OracleSimilar(graph.ren)
                    /\ \A c \in graph.cut : c[1] # c[2] /\ \A n \in graph.similar : n[1] = c[1] => Closer(graph.ren, c[1], n[3], c[2])
  BY DEF SimilarIsTopK
<1> DEFINE ren == graph.ren
<1>1. Countable(ren) /\ graph.similar = SimilarTo(ren) /\ graph.cut = CutRows(ren)
  BY RowsCountable, ServedIs
<1> HIDE DEF ren
<1>2. SimilarTo(ren) = OracleSimilar(ren)
  BY <1>1, TopK
<1>3. ASSUME NEW c \in CutRows(ren)
      PROVE  c[1] # c[2] /\ \A n \in SimilarTo(ren) : n[1] = c[1] => Closer(ren, c[1], n[3], c[2])
  <2>1. PICK a \in DOMAIN ren : c = <<a, Ordered(ren, a)[KEff(ren, a) + 1]>> /\ Room(ren, a) > KEff(ren, a)
    BY <1>1 DEF CutRows, Room
  <2> DEFINE seq == Ordered(ren, a)  k == KEff(ren, a)
  <2>2. k \in Nat /\ Room(ren, a) \in Nat /\ k + 1 \in 1..Room(ren, a)
    BY <1>1, <2>1, KEffIs
  <2>3. seq[k + 1] # a
    <3>1. \A i \in 1..Room(ren, a) : seq[i] \in Block(ren, a) \ {a}
      BY <1>1, OrderedIs
    <3> HIDE DEF seq, k
    <3> QED BY <2>2, <3>1
  <2>4. ASSUME NEW n \in SimilarTo(ren), n[1] = a PROVE Closer(ren, a, n[3], seq[k + 1])
    <3>1. PICK b \in DOMAIN ren : \E r \in 1..KEff(ren, b) : n = <<b, r, Ordered(ren, b)[r]>>
      BY <1>1, SimilarIs
    <3>2. PICK r \in 1..KEff(ren, b) : n = <<b, r, Ordered(ren, b)[r]>>
      BY <3>1
    <3>3. b = a /\ n[3] = seq[r] /\ r \in 1..k
      BY <2>4, <3>2
    <3>4. r \in 1..Room(ren, a) /\ r < k + 1
      BY <2>2, <3>3
    <3> QED BY <1>1, <2>2, <3>3, <3>4, OrderedIs
  <2>5. c[1] = a /\ c[2] = seq[k + 1]
    BY <2>1
  <2> QED BY <2>3, <2>4, <2>5
<1> QED BY <1>1, <1>2, <1>3 DEF ren

-----------------------------------------------------------------------------
(* What is shown of a neighbour. *)

\* A path along SIMILAR_TO stays among the subscriptions of the graph.
LEMMA ReachStays ==
  ASSUME NEW g, NEW D, NEW a \in D, \A e \in g.similar : e[3] \in D
  PROVE  Reach(g, a) \subseteq D
<1> DEFINE n == Cardinality(Subs)
           next(S) == S \cup {e[3] : e \in {e \in g.similar : e[1] \in S}}
           walk(m) == {f \in [0..m -> SUBSET D] : /\ f[0] = {a}
                                                     /\ \A i \in 1..m : f[i] = next(f[i - 1])}
<1>1. n \in Nat
  BY DaysAssumption, FS_CardinalityType
<1>2. \A S \in SUBSET D : next(S) \in SUBSET D
  OBVIOUS
<1> HIDE DEF next
<1>3. \A m \in Nat : walk(m) # {}
  <2> DEFINE T == {m \in Nat : walk(m) = {}}
  <2> SUFFICES ASSUME T # {} PROVE FALSE
    OBVIOUS
  <2>1. PICK m \in T : \A k \in T : m <= k
    BY LeastNatural
  <2>2. CASE m = 0
    <3> DEFINE f == [i \in 0..0 |-> {a}]
    <3>1. f \in walk(0)
      OBVIOUS
    <3> QED BY <2>2, <3>1
  <2>3. CASE m # 0
    <3>1. m - 1 \in Nat /\ m \in Nat /\ ~(m <= m - 1)
      BY <2>3
    <3>2. PICK f \in walk(m - 1) : TRUE
      BY <2>1, <3>1
    <3>3. /\ f \in [0..(m - 1) -> SUBSET D] /\ f[0] = {a} /\ \A i \in 1..(m - 1) : f[i] = next(f[i - 1])
      OBVIOUS
    <3> DEFINE h == [i \in 0..m |-> IF i = m THEN next(f[m - 1]) ELSE f[i]]
    <3>4. h \in [0..m -> SUBSET D]
      BY <1>2, <3>1, <3>3
    <3>5. h[0] = {a}
      BY <3>1, <3>3
    <3>6. \A i \in 1..m : h[i] = next(h[i - 1])
      <4> TAKE i \in 1..m
      <4>1. h[i - 1] = f[i - 1]
        BY <3>1
      <4>2. CASE i = m
        BY <3>1, <4>1, <4>2
      <4>3. CASE i # m
        BY <3>1, <3>3, <4>1, <4>3
      <4> QED BY <4>2, <4>3
    <3> HIDE DEF h
    <3>7. h \in walk(m)
      BY <3>4, <3>5, <3>6
    <3> QED BY <2>1, <3>7
  <2> QED BY <2>2, <2>3
<1>4. PICK f \in walk(n) : TRUE
  BY <1>1, <1>3
<1>5. f \in [0..n -> SUBSET D] /\ f[0] = {a} /\ \A i \in 1..n : f[i] = next(f[i - 1])
  OBVIOUS
<1> DEFINE body(s) == [i \in 0..n |-> IF i = 0 THEN {a} ELSE s[i - 1] \cup {e[3] : e \in {e \in g.similar : e[1] \in s[i - 1]}}]
           step == CHOOSE s : s = body(s)
<1>6. f = body(f)
  <2>1. \A i \in 0..n : f[i] = IF i = 0 THEN {a} ELSE next(f[i - 1])
    BY <1>1, <1>5
  <2>2. \A i \in 0..n : body(f)[i] = IF i = 0 THEN {a} ELSE next(f[i - 1])
    BY DEF next
  <2>3. body(f) = [i \in 0..n |-> body(f)[i]] /\ f = [i \in 0..n |-> f[i]]
    BY <1>5
  <2> QED BY <2>1, <2>2, <2>3
<1>7. step = body(step)
  <2> HIDE DEF body
  <2>1. \E s : s = body(s)
    BY <1>6
  <2> QED BY <2>1
<1>8. Reach(g, a) = step[n]
  BY DEF Reach
<1> HIDE DEF step
<1>9. \A i \in 0..n : step[i] = IF i = 0 THEN {a} ELSE next(step[i - 1])
  <2>1. \A i \in 0..n : body(step)[i] = IF i = 0 THEN {a} ELSE next(step[i - 1])
    BY DEF next
  <2> HIDE DEF body
  <2> QED BY <1>7, <2>1
<1>10. \A i \in 0..n : step[i] \in SUBSET D
  <2> DEFINE T == {i \in 0..n : step[i] \notin SUBSET D}
  <2> SUFFICES ASSUME T # {} PROVE FALSE
    OBVIOUS
  <2>1. T \in SUBSET Nat
    BY <1>1
  <2>2. PICK i \in T : \A k \in T : i <= k
    BY <2>1, LeastNatural
  <2>3. i \in 0..n /\ step[i] \notin SUBSET D
    OBVIOUS
  <2>4. i # 0
    BY <1>9, <2>3
  <2>5. i - 1 \in 0..n /\ ~(i <= i - 1)
    BY <1>1, <2>3, <2>4
  <2>6. step[i - 1] \in SUBSET D
    BY <2>2, <2>5
  <2> QED BY <1>2, <1>9, <2>3, <2>4, <2>6
<1> QED BY <1>1, <1>8, <1>10

\* An outcome observed by a day is the outcome a build of that day gives.
LEMMA ObservedThen ==
  ASSUME IInv, graph # None, NEW a \in DOMAIN graph.ren, NEW b \in DOMAIN graph.ren, ObservedBy(graph.ren[b], graph.ren[a].as_of)
  PROVE  Outcome(b, graph.ren[b].renewal_date, graph.ren[a].as_of) = graph.ren[b].outcome
<1> DEFINE d == graph.data_end  asof == life[a].renewal - Lead
<1>1. /\ d \in Int /\ Living(d) /\ life \in Worlds /\ \A s \in Seen(d) : graph.ren[s] = Row(s, d)
      /\ a \in Subs /\ a \in Seen(d) /\ b \in Subs /\ b \in Seen(d)
  BY ServedIs, InGraph
<1>2. graph.ren[a].as_of = asof /\ asof \in Int /\ asof <= d
  BY <1>1, RowIs, AsOfPast
<1>3. /\ graph.ren[b].renewal_date = life[b].renewal /\ graph.ren[b].outcome = Decided(b, d)
      /\ graph.ren[b].outcome_observed_on = Observed(b, d)
  BY <1>1, RowIs
<1>4. Observed(b, d) # None /\ Observed(b, d) <= asof
  BY <1>2, <1>3 DEF ObservedBy
<1>5. /\ life[b].renewal \in Int /\ LastRetry \in Nat /\ life[b].ends \in {"renew", "cancel", "fail"} /\ None \notin Int
      /\ Lead \in Nat /\ Period \in Nat
  BY <1>1, Lives, LastRetryIs, DaysAssumption
<1>6. Decided(b, asof) = Decided(b, d)
  <2> HIDE DEF asof
  <2>1. \/ Decided(b, d) = "renewed" /\ life[b].ends = "renew" /\ Observed(b, d) = life[b].renewal
        \/ Decided(b, d) = "voluntary_lapse" /\ life[b].ends = "cancel" /\ Observed(b, d) = life[b].renewal
        \/ Decided(b, d) = "involuntary_lapse" /\ life[b].ends = "fail" /\ Observed(b, d) = life[b].renewal + LastRetry
    BY <1>4, <1>5 DEF Decided, Observed
  <2> QED BY <1>4, <1>5, <2>1 DEF Decided
<1>7. life[b].ends = "renew" => asof < life[b].renewal + Period
  <2>1. life[b].ends = "renew" => d < life[b].renewal + Period - Lead
    BY <1>1, OneEach
  <2> HIDE DEF asof
  <2> QED BY <1>1, <1>2, <1>5, <2>1
<1>8. Outcome(b, life[b].renewal, asof) = Decided(b, asof)
  <2> HIDE DEF asof
  <2> QED BY <1>1, <1>2, <1>7, OutcomeIs
<1> QED BY <1>2, <1>3, <1>6, <1>8

LEMMA ShownWasKnownHolds == IInv => ShownWasKnown
<1> SUFFICES ASSUME IInv, graph # None, NEW a \in DOMAIN graph.ren
             PROVE  LET asof == graph.ren[a].as_of  Was(b) == Outcome(b, graph.ren[b].renewal_date, asof) IN
                      /\ graph.ren[a].route \notin CurrentRoutes =>
                           \A asked \in {"auto", "today", "source_as_of"} :
                             \A x \in ShownOutcomes(graph, a, asked) : Was(x[1]) = x[2]
                      /\ \A b \in KnownLapses(graph, a) : Was(b) = "voluntary_lapse"
  BY Zenon DEF ShownWasKnown
<1> DEFINE asof == graph.ren[a].as_of  Was(b) == Outcome(b, graph.ren[b].renewal_date, asof)
<1>1. \A e \in graph.similar : e[3] \in DOMAIN graph.ren
  <2>1. graph.similar = SimilarTo(graph.ren) /\ Countable(graph.ren)
    BY ServedIs, RowsCountable
  <2> QED BY <2>1, NeighboursAre
<1>2. \A b \in DOMAIN graph.ren : ObservedBy(graph.ren[b], asof) => Was(b) = graph.ren[b].outcome
  BY ObservedThen
<1> HIDE DEF Was
<1>3. ASSUME graph.ren[a].route \notin CurrentRoutes, NEW asked \in {"auto", "today", "source_as_of"},
             NEW x \in ShownOutcomes(graph, a, asked)
      PROVE  Was(x[1]) = x[2]
  <2>1. PICK n \in graph.similar : /\ x = <<n[3], graph.ren[n[3]].outcome>> /\ Served(graph, a, asked)
                                   /\ Visible(graph, a, n[3], Resolved(graph, a, asked))
    BY DEF ShownOutcomes
  <2>2. asked # "today"
    BY <1>3, <2>1 DEF Served
  <2>3. Resolved(graph, a, asked) = "source_as_of"
    BY <1>3, <2>2 DEF Resolved
  <2>4. ObservedBy(graph.ren[n[3]], asof)
    BY <2>1, <2>3 DEF Visible
  <2>5. n[3] \in DOMAIN graph.ren /\ x[1] = n[3] /\ x[2] = graph.ren[n[3]].outcome
    BY <1>1, <2>1
  <2> QED BY <1>2, <2>4, <2>5
<1>4. ASSUME NEW b \in KnownLapses(graph, a) PROVE Was(b) = "voluntary_lapse"
  <2>1. b \in Reach(graph, a) /\ graph.ren[b].outcome = "voluntary_lapse" /\ ObservedBy(graph.ren[b], asof)
    BY DEF KnownLapses
  <2>2. b \in DOMAIN graph.ren
    BY <1>1, <2>1, ReachStays
  <2> QED BY <1>2, <2>1, <2>2
<1> QED BY <1>3, <1>4, Zenon DEF Was

-----------------------------------------------------------------------------
(* The theorems. *)

\* Every build, of whatever lives: renewals of known subscriptions only, an observation day exactly where
\* there is an outcome, and no date after the build's own day.
THEOREM TablesTyped == Spec => []TypeOK
<1> QED BY GraphIsBuilt, TypeOKHolds, PTL

\* Whatever the retry schedule, the outcome rules say of a renewal what became of the subscription.
THEOREM OutcomesAreSettled == Spec => []OutcomesSettle
<1> QED BY GraphIsBuilt, OutcomesSettleHolds, PTL

\* The features counted in bronze are those the edges give back, for all windows and all days.
THEOREM FeaturesAreParity == Spec => []PitParity
<1> QED BY GraphIsBuilt, PitParityHolds, PTL

\* Nothing dated after as_of reaches the features or the evidence of a renewal, but for the declared change.
THEOREM AsOfViewIsOfThePast == Spec => []AsOfViewIsPast
<1> QED BY GraphIsBuilt, AsOfViewHolds, PTL

\* An outcome a historical source is shown, or reaches along any path, was known on its as_of day.
THEOREM NothingShownEarly == Spec => []ShownWasKnown
<1> QED BY GraphIsBuilt, ShownWasKnownHolds, PTL

\* The blocked and masked sort gives the oracle's ranking, for every K, every block and every tie.
THEOREM NeighboursAreTopK == Spec => []SimilarIsTopK
<1> QED BY GraphIsBuilt, SimilarIsTopKHolds, PTL

\* The evidence graph of every build can be made and passes the proof the builder asks of it.
THEOREM EvidenceGraphHolds == Spec => []EvidenceHolds
<1> QED BY GraphIsBuilt, EvidenceHoldsAlways, PTL

\* What a free query can read of a renewal is what the evidence graph of its as_of day would hold.
THEOREM EvidenceGraphIsPast == Spec => []EvidenceIsPast
<1> QED BY GraphIsBuilt, EvidenceIsPastHolds, PTL

\* No build takes an outcome back, moves the day it was observed or routes the renewal anew.
THEOREM OutcomesAreFinal == Spec => OutcomeIsFinal
<1>1. IInv /\ [Next]_vars =>
        [graph # None /\ graph' # None => \A s \in DOMAIN graph.ren :
           graph.ren[s].outcome # "pending" =>
             /\ s \in DOMAIN graph'.ren /\ graph'.ren[s].outcome = graph.ren[s].outcome
             /\ graph'.ren[s].outcome_observed_on = graph.ren[s].outcome_observed_on
             /\ graph'.ren[s].route = graph.ren[s].route]_vars
  BY OutcomeStepHolds
<1> QED BY <1>1, GraphIsBuilt, PTL DEF Spec, OutcomeIsFinal

=============================================================================

------------------------- MODULE CellProtectProofs -------------------------
(***************************************************************************)
(* What the rounds of protect() keep, for every table.                     *)
(***************************************************************************)
EXTENDS CellProtect, OrderLemmas

-----------------------------------------------------------------------------
(* Loops. *)

IsRun(g, a, step, n) == g = [i \in 0..n |-> IF i = 0 THEN a ELSE step[i][g[i - 1]]]

\* A loop of n steps has a run.
LEMMA RunExists ==
  ASSUME NEW a, NEW step, NEW n \in Nat
  PROVE  \E g : IsRun(g, a, step, n)
<1> DEFINE None == {m \in Nat : ~\E g : IsRun(g, a, step, m)}
<1>1. CASE None = {}
  BY <1>1
<1>2. CASE None # {}
  <2>1. PICK m \in None : \A k \in None : m <= k
    BY <1>2, LeastNatural, Zenon
  <2>2. m \in Nat /\ ~\E g : IsRun(g, a, step, m)
    BY <2>1
  <2>3. CASE m = 0
    <3> DEFINE g == [i \in 0..0 |-> a]
    <3>1. IsRun(g, a, step, 0)
      BY DEF IsRun
    <3> QED BY <2>2, <2>3, <3>1, Zenon
  <2>4. CASE m # 0
    <3>1. m - 1 \in Nat /\ ~(m <= m - 1)
      BY <2>2, <2>4
    <3>2. PICK g : IsRun(g, a, step, m - 1)
      BY <2>1, <3>1
    <3> DEFINE h == [i \in 0..m |-> IF i = m THEN step[m][g[m - 1]] ELSE g[i]]
    <3> HIDE DEF None
    <3>3. \A i \in 0..(m - 1) : g[i] = IF i = 0 THEN a ELSE step[i][g[i - 1]]
      BY <3>2, Zenon DEF IsRun
    <3>4. \A i \in 0..m : /\ i # m => i \in 0..(m - 1)
                          /\ i # 0 => i - 1 \in 0..(m - 1) /\ i - 1 # m
      BY <2>2
    <3>5. \A i \in 0..(m - 1) : h[i] = g[i]
      BY <2>2
    <3>6. \A i \in 0..m : h[i] = IF i = 0 THEN a ELSE step[i][h[i - 1]]
      <4> SUFFICES ASSUME NEW i \in 0..m PROVE h[i] = IF i = 0 THEN a ELSE step[i][h[i - 1]]
        OBVIOUS
      <4>1. CASE i = m
        <5>1. h[i] = step[m][g[m - 1]] /\ h[m - 1] = g[m - 1] /\ i # 0
          BY <2>4, <3>4, <3>5, <4>1
        <5> QED BY <4>1, <5>1
      <4>2. CASE i # m
        <5>1. h[i] = g[i] /\ g[i] = IF i = 0 THEN a ELSE step[i][g[i - 1]]
          BY <3>3, <3>4, <4>2
        <5>2. i # 0 => h[i - 1] = g[i - 1]
          BY <3>4, <3>5
        <5> QED BY <5>1, <5>2
      <4> QED BY <4>1, <4>2
    <3>7. IsRun(h, a, step, m)
      <4> DEFINE r == [i \in 0..m |-> IF i = 0 THEN a ELSE step[i][h[i - 1]]]
      <4>1. DOMAIN h = 0..m /\ h = [i \in 0..m |-> h[i]]
        OBVIOUS
      <4> HIDE DEF h
      <4>2. [i \in 0..m |-> h[i]] = r
        BY <3>6
      <4> QED BY <4>1, <4>2 DEF IsRun
    <3> QED BY <2>2, <3>7, Zenon
  <2> QED BY <2>3, <2>4
<1> QED BY <1>1, <1>2

\* What each step of a loop hands on to the next, the loop ends with: Q[i] is what holds after i steps.
LEMMA StepsReach ==
  ASSUME NEW a, NEW step, NEW n \in Nat, NEW Q, a \in Q[0],
         \A i \in 1..n : \A s \in Q[i - 1] : step[i][s] \in Q[i]
  PROVE  Steps(a, step, n) \in Q[n]
<1> DEFINE at == CHOOSE g : g = [i \in 0..n |-> IF i = 0 THEN a ELSE step[i][g[i - 1]]]
<1>1. Steps(a, step, n) = at[n]
  BY DEF Steps
<1>2. at = [i \in 0..n |-> IF i = 0 THEN a ELSE step[i][at[i - 1]]]
  <2>1. \E g : IsRun(g, a, step, n)
    BY RunExists, Zenon
  <2>2. at = CHOOSE g : IsRun(g, a, step, n)
    BY Zenon DEF IsRun
  <2> HIDE DEF at
  <2>3. IsRun(at, a, step, n)
    BY <2>1, <2>2, Zenon
  <2> QED BY <2>3 DEF IsRun
<1> HIDE DEF at
<1>3. \A i \in 0..n : at[i] = IF i = 0 THEN a ELSE step[i][at[i - 1]]
  BY <1>2, Zenon
<1> DEFINE Off == {i \in 0..n : at[i] \notin Q[i]}
<1>4. CASE Off = {}
  BY <1>1, <1>4
<1>5. CASE Off # {}
  <2>1. Off \in SUBSET Nat
    OBVIOUS
  <2>2. PICK m \in Off : \A k \in Off : m <= k
    BY <1>5, <2>1, LeastNatural, Zenon
  <2>3. m \in 0..n /\ at[m] \notin Q[m]
    BY <2>2
  <2>4. m # 0
    BY <1>3, <2>3
  <2>5. m - 1 \in 0..n /\ m \in 1..n /\ ~(m <= m - 1)
    BY <2>3, <2>4
  <2>6. at[m - 1] \in Q[m - 1]
    BY <2>2, <2>5
  <2>7. at[m] = step[m][at[m - 1]]
    BY <1>3, <2>3, <2>4
  <2> QED BY <2>3, <2>5, <2>6, <2>7
<1> QED BY <1>4, <1>5
-----------------------------------------------------------------------------
(* The keys. *)

\* A key's first part says what it is; a cell and a numerator also say where they stand.
LEMMA KeyKinds ==
  /\ \A k \in Cells : k[1] = "cell" /\ k[2] \in Plans /\ k[3] \in Routes /\ k = Cell(k[2], k[3])
  /\ \A k \in PlanLapses : k[1] = "lapses" /\ k[2] \in Plans /\ k = <<"lapses", k[2]>>
  /\ \A k \in Heads : \/ k[1] = "plan" /\ k[2] \in Plans /\ k = <<"plan", k[2]>>
                      \/ k[1] = "route" /\ k[2] \in Routes /\ k = <<"route", k[2]>>
  /\ LapsesTotal[1] = "lapses_total" /\ Total[1] = "total"
  /\ \A p \in Plans, r \in Routes : Cell(p, r) \in Cells /\ Cell(p, r)[1] = "cell" /\ Cell(p, r)[2] = p /\ Cell(p, r)[3] = r
  /\ \A p \in Plans : <<"lapses", p>> \in PlanLapses /\ <<"plan", p>> \in Heads
  /\ \A r \in Routes : <<"route", r>> \in Heads
BY DEF Cells, Row, Cell, PlanLapses, Heads, LapsesTotal, Total

\* What a key is made of, by its kind.
LEMMA PartsAre ==
  /\ \A k \in BaseKeys : Parts[k] = {k}
  /\ \A p \in Plans : Parts[<<"plan", p>>] = Row(p)
  /\ \A r \in Routes : Parts[<<"route", r>>] = Column(r)
  /\ Parts[LapsesTotal] = PlanLapses /\ Parts[Total] = Cells
<1> USE DEF Parts
<1>1. \A k \in BaseKeys : k[1] \in {"cell", "lapses"} /\ k \in Keys
  BY KeyKinds DEF BaseKeys, Keys
<1>2. ASSUME NEW k \in BaseKeys PROVE Parts[k] = {k}
  BY <1>1
<1>3. ASSUME NEW p \in Plans PROVE Parts[<<"plan", p>>] = Row(p)
  BY KeyKinds DEF Keys, Forms
<1>4. ASSUME NEW r \in Routes PROVE Parts[<<"route", r>>] = Column(r)
  BY KeyKinds DEF Keys, Forms
<1>5. LapsesTotal \in Keys /\ Total \in Keys
  BY DEF Keys, Forms
<1>6. Parts[LapsesTotal] = PlanLapses
  BY <1>5, KeyKinds
<1>7. Parts[Total] = Cells
  BY <1>5, KeyKinds
<1> QED BY <1>2, <1>3, <1>4, <1>6, <1>7

\* Parts and lines hold keys; a numerator has a model count, which is no numerator.
LEMMA KeysAreClosed ==
  /\ \A k \in Keys : Parts[k] \subseteq BaseKeys
  /\ \A h \in Heads : Line[h] \subseteq Keys
  /\ Heads \subseteq Keys /\ Lapses \subseteq Keys /\ Cells \subseteq Keys /\ Total \in Keys
  /\ \A k \in Lapses : ModelOf(k) \in Keys \ Lapses /\ ModelOf(k) # Total /\ k # Total /\ k \notin Public
  /\ Heads \cap Lapses = {} /\ Total \notin Heads
<1>1. ASSUME NEW k \in Keys PROVE Parts[k] \subseteq BaseKeys
  <2>1. CASE k \in BaseKeys
    BY <2>1, PartsAre
  <2>2. CASE k \in Heads
    <3>1. PICK q : \/ q \in Plans /\ k = <<"plan", q>>
                   \/ q \in Routes /\ k = <<"route", q>>
      BY <2>2, KeyKinds
    <3>2. \/ q \in Plans /\ Parts[k] = Row(q)
          \/ q \in Routes /\ Parts[k] = Column(q)
      BY <3>1, PartsAre
    <3> QED BY <3>2 DEF BaseKeys, Cells, Row, Column
  <2>3. CASE k \in {LapsesTotal, Total}
    BY <2>3, PartsAre DEF BaseKeys
  <2> QED BY <2>1, <2>2, <2>3 DEF Keys, Forms
<1>2. Heads \subseteq Keys /\ Lapses \subseteq Keys /\ Cells \subseteq Keys /\ Total \in Keys
  BY DEF Keys, Forms, Lapses, BaseKeys
<1>3. ASSUME NEW h \in Heads PROVE Line[h] \subseteq Keys
  <2>1. \A p \in Plans : <<"lapses", p>> \in Keys
    BY KeyKinds, <1>2 DEF Lapses
  <2>2. Parts[h] \subseteq Keys /\ PlanLapses \subseteq Keys /\ LapsesTotal \in Keys
    BY <1>1, <1>2 DEF Keys, Lapses
  <2>3. h[1] = "plan" => h[2] \in Plans
    BY KeyKinds
  <2> QED BY <2>1, <2>2, <2>3 DEF Line
<1>4. "model" \in Routes
  BY TableAssumption
<1>5. \A k \in Lapses : k[1] \in {"lapses", "lapses_total"}
  BY KeyKinds DEF Lapses
<1>6. \A k \in Cells \cup Heads : k[1] \notin {"lapses", "lapses_total"} /\ k[1] # "total"
  BY KeyKinds
<1>7. \A k \in Lapses : ModelOf(k) \in Cells \cup Heads
  <2> TAKE k \in Lapses
  <2>1. CASE k = LapsesTotal
    BY <1>4, <2>1, KeyKinds DEF ModelOf
  <2>2. CASE k # LapsesTotal
    <3>1. k[2] \in Plans
      BY <2>2, KeyKinds DEF Lapses
    <3>2. Cell(k[2], "model") \in Cells
      BY <1>4, <3>1, KeyKinds
    <3> QED BY <2>2, <3>2 DEF ModelOf
  <2> QED BY <2>1, <2>2
<1>8. Total[1] = "total"
  BY KeyKinds
<1>9. \A k \in Public : k[1] \in {"cell", "route"}
  <2>1. "current" \in Routes
    BY TableAssumption
  <2>2. \A k \in Column("current") : k[1] = "cell"
    BY <2>1, KeyKinds DEF Column
  <2>3. <<"route", "current">>[1] = "route"
    OBVIOUS
  <2> QED BY <2>2, <2>3 DEF Public
<1>10. \A k \in Lapses : ModelOf(k) \notin Lapses /\ ModelOf(k) # Total /\ k # Total /\ k \notin Public
  BY <1>5, <1>6, <1>7, <1>8, <1>9
<1>11. Heads \cap Lapses = {} /\ Total \notin Heads
  BY <1>5, <1>6, <1>8
<1>12. \A k \in Lapses : ModelOf(k) \in Keys
  BY <1>2, <1>7
<1> QED BY <1>1, <1>2, <1>3, <1>10, <1>11, <1>12

LEMMA KeysAreFinite == IsFiniteSet(Plans) /\ IsFiniteSet(Routes) /\ IsFiniteSet(Keys)
<1>1. ASSUME NEW S, NEW s \in Seq(S), Range(s) = S PROVE IsFiniteSet(S)
  <2>1. IsFiniteSet(1..Len(s))
    BY FS_Interval
  <2>2. IsFiniteSet({s[i] : i \in 1..Len(s)})
    BY <2>1, ImageIsFinite
  <2>3. {s[i] : i \in 1..Len(s)} = S
    BY <1>1 DEF Range
  <2> QED BY <2>2, <2>3
<1>2. IsFiniteSet(Plans) /\ IsFiniteSet(Routes)
  BY <1>1, TableAssumption DEF Plans, Routes
<1>3. ASSUME NEW p \in Plans PROVE IsFiniteSet(Row(p))
  <2> DEFINE f == [r \in Routes |-> Cell(p, r)]
  <2>1. {f[r] : r \in Routes} = Row(p)
    BY DEF Row
  <2> HIDE DEF f
  <2> QED BY <1>2, <2>1, ImageIsFinite
<1>4. IsFiniteSet(Cells)
  <2> DEFINE f == [p \in Plans |-> Row(p)]
             R == {f[p] : p \in Plans}
  <2>1. R = {Row(p) : p \in Plans}
    OBVIOUS
  <2>2. IsFiniteSet(R)
    <3> HIDE DEF f
    <3> QED BY <1>2, ImageIsFinite
  <2>3. \A T \in R : IsFiniteSet(T)
    BY <1>3
  <2> HIDE DEF R
  <2>4. IsFiniteSet(UNION R)
    BY <2>2, <2>3, FS_UNION
  <2> QED BY <2>1, <2>4 DEF Cells
<1>5. IsFiniteSet(PlanLapses)
  <2> DEFINE f == [p \in Plans |-> <<"lapses", p>>]
  <2>1. {f[p] : p \in Plans} = PlanLapses
    BY DEF PlanLapses
  <2> HIDE DEF f
  <2> QED BY <1>2, <2>1, ImageIsFinite
<1>6. IsFiniteSet(Heads)
  <2> DEFINE f == [p \in Plans |-> <<"plan", p>>]
             g == [r \in Routes |-> <<"route", r>>]
  <2>1. Heads = {f[p] : p \in Plans} \cup {g[r] : r \in Routes}
    BY DEF Heads
  <2> HIDE DEF f, g
  <2>2. IsFiniteSet({f[p] : p \in Plans}) /\ IsFiniteSet({g[r] : r \in Routes})
    BY <1>2, ImageIsFinite
  <2> QED BY <2>1, <2>2, FS_Union
<1>7. IsFiniteSet({LapsesTotal, Total})
  <2>1. {LapsesTotal, Total} = {LapsesTotal} \cup {Total}
    OBVIOUS
  <2>2. IsFiniteSet({LapsesTotal}) /\ IsFiniteSet({Total})
    BY FS_Singleton, Zenon
  <2>3. IsFiniteSet({LapsesTotal} \cup {Total})
    BY <2>2, FS_Union
  <2> QED BY <2>1, <2>3
<1>8. IsFiniteSet(BaseKeys)
  BY <1>4, <1>5, FS_Union DEF BaseKeys
<1>9. IsFiniteSet(Forms)
  BY <1>6, <1>7, FS_Union DEF Forms
<1> QED BY <1>2, <1>8, <1>9, FS_Union DEF Keys

\* An entry of a table of naturals is one.
LEMMA ValIsNatural ==
  ASSUME NEW x \in [BaseKeys -> Nat], NEW k \in Keys
  PROVE  IsFiniteSet(Units(x, k)) /\ Val(x, k) \in Nat
<1>1. Parts[k] \subseteq BaseKeys /\ IsFiniteSet(Parts[k])
  BY KeysAreClosed, KeysAreFinite, FS_Subset DEF Keys
<1>2. ASSUME NEW j \in BaseKeys PROVE IsFiniteSet({j} \X (1..x[j]))
  <2>1. x[j] \in Int
    OBVIOUS
  <2>2. IsFiniteSet({j})
    BY FS_Singleton, Zenon
  <2>3. IsFiniteSet(1..x[j])
    BY <2>1, FS_Interval
  <2> QED BY <2>2, <2>3, FS_Product
<1> DEFINE f == [j \in BaseKeys |-> {j} \X (1..x[j])]
           U == {f[j] : j \in Parts[k]}
<1>3. \A T \in U : IsFiniteSet(T)
  BY <1>1, <1>2
<1>4. UNION U = Units(x, k)
  BY <1>1 DEF Units
<1> HIDE DEF f
<1>5. IsFiniteSet(U)
  BY <1>1, ImageIsFinite
<1> HIDE DEF U
<1>6. IsFiniteSet(UNION U)
  BY <1>3, <1>5, FS_UNION
<1>7. Cardinality(Units(x, k)) \in Nat
  BY <1>4, <1>6, FS_CardinalityType
<1> QED BY <1>4, <1>6, <1>7 DEF Val

LEMMA PlaceInNames ==
  ASSUME NEW S, NEW s \in Seq(S), NEW x, \E i \in DOMAIN s : s[i] = x
  PROVE  PlaceIn(s, x) \in Nat
<1>1. PlaceIn(s, x) \in DOMAIN s
  BY DEF PlaceIn
<1> QED BY <1>1

\* Every key has a place in the order of the names.
LEMMA PlaceIsNatural == \A k \in Keys : Place[k] \in Nat
<1> SUFFICES ASSUME NEW k \in Keys PROVE Place[k] \in Nat
  OBVIOUS
<1> DEFINE wide == Len(PlanOrder) + Len(RouteNames) + 1
           line == CASE k[1] \in {"cell", "lapses", "plan"} -> PlaceIn(PlanOrder, k[2])
                     [] k[1] = "route"                      -> PlaceIn(RouteNames, k[2])
                     [] OTHER                               -> 0
           last == IF k[1] = "cell" THEN PlaceIn(RouteNames, k[3]) ELSE 0
<1>1. Place[k] = wide * (wide * PlaceIn(KindOrder, k[1]) + line) + last
  BY DEF Place
<1>2. wide \in Nat
  BY TableAssumption
<1>3. \A p \in Plans : PlaceIn(PlanOrder, p) \in Nat
  <2> TAKE p \in Plans
  <2>1. \E i \in DOMAIN PlanOrder : PlanOrder[i] = p
    BY DEF Plans, Range
  <2> QED BY <2>1, TableAssumption, PlaceInNames
<1>4. \A r \in Routes : PlaceIn(RouteNames, r) \in Nat
  <2> TAKE r \in Routes
  <2>1. \E i \in DOMAIN RouteNames : RouteNames[i] = r
    BY TableAssumption DEF Range
  <2> QED BY <2>1, TableAssumption, PlaceInNames
<1>5. /\ k[1] \in {"cell", "lapses", "lapses_total", "plan", "route", "total"}
      /\ k[1] \in {"cell", "lapses", "plan"} => k[2] \in Plans
      /\ k[1] = "route" => k[2] \in Routes
      /\ k[1] = "cell" => k[3] \in Routes
  BY KeyKinds DEF Keys, BaseKeys, Forms
<1>6. PlaceIn(KindOrder, k[1]) \in Nat
  <2>1. /\ \E i \in DOMAIN KindOrder : KindOrder[i] = k[1]
        /\ DOMAIN KindOrder \in SUBSET Nat
    <3>1. DOMAIN KindOrder = 1..6 /\ KindOrder[1] = "cell" /\ KindOrder[2] = "lapses" /\ KindOrder[3] = "lapses_total"
          /\ KindOrder[4] = "plan" /\ KindOrder[5] = "route" /\ KindOrder[6] = "total"
      BY DEF KindOrder
    <3> QED BY <1>5, <3>1
  <2> QED BY <2>1 DEF PlaceIn
<1>7. line \in Nat /\ last \in Nat
  BY <1>3, <1>4, <1>5
<1> HIDE DEF wide, line, last
<1>8. \A a, b \in Nat : a * b \in Nat
  OBVIOUS
<1>9. wide * PlaceIn(KindOrder, k[1]) \in Nat
  BY <1>2, <1>6, <1>8
<1>10. wide * PlaceIn(KindOrder, k[1]) + line \in Nat
  BY <1>7, <1>9
<1>11. wide * (wide * PlaceIn(KindOrder, k[1]) + line) \in Nat
  BY <1>2, <1>8, <1>10
<1> QED BY <1>1, <1>7, <1>11

\* The relations hold keys.
LEMMA RelationsAreKeys ==
  /\ Len(FormOrder) \in Nat /\ DOMAIN FormOrder = 1..Len(FormOrder)
  /\ \A i \in DOMAIN FormOrder : FormOrder[i] \in Forms /\ Relation[i] \subseteq Keys /\ Cardinality(Relation[i]) \in Nat
<1> DEFINE a == [i \in 1..Len(PlanOrder) |-> <<"plan", PlanOrder[i]>>]
           b == [i \in 1..Len(RouteOrder) |-> <<"route", RouteOrder[i]>>]
           c == <<LapsesTotal, Total>>
<1>1. a \in Seq(Forms)
  <2>1. \A i \in 1..Len(PlanOrder) : PlanOrder[i] \in Plans
    BY TableAssumption
  <2>2. \A i \in 1..Len(PlanOrder) : <<"plan", PlanOrder[i]>> \in Forms
    BY <2>1, KeyKinds DEF Forms
  <2>3. Len(PlanOrder) \in Nat
    BY TableAssumption
  <2> QED BY <2>2, <2>3
<1>2. b \in Seq(Forms)
  <2>1. \A i \in 1..Len(RouteOrder) : RouteOrder[i] \in Routes
    BY TableAssumption
  <2>2. \A i \in 1..Len(RouteOrder) : <<"route", RouteOrder[i]>> \in Forms
    BY <2>1, KeyKinds DEF Forms
  <2>3. Len(RouteOrder) \in Nat
    BY TableAssumption
  <2> QED BY <2>2, <2>3
<1>3. c \in Seq(Forms)
  BY DEF Forms
<1> HIDE DEF a, b, c
<1>4. (a \o b) \o c \in Seq(Forms)
  BY <1>1, <1>2, <1>3
<1>5. FormOrder \in Seq(Forms)
  BY <1>4 DEF FormOrder, a, b, c
<1>6. ASSUME NEW i \in DOMAIN FormOrder
      PROVE  FormOrder[i] \in Forms /\ Relation[i] \subseteq Keys /\ Cardinality(Relation[i]) \in Nat
  <2>1. FormOrder[i] \in Forms
    BY <1>5
  <2>2. FormOrder[i] \in Keys /\ Parts[FormOrder[i]] \subseteq Keys
    BY <2>1, KeysAreClosed DEF Keys
  <2>3. Relation[i] \subseteq Keys
    BY <2>2 DEF Relation
  <2>4. Cardinality(Relation[i]) \in Nat
    BY <2>3, KeysAreFinite, FS_Subset, FS_CardinalityType
  <2> QED BY <2>1, <2>3, <2>4
<1> QED BY <1>5, <1>6

-----------------------------------------------------------------------------
(* Complements. *)

Counted == truth \in [BaseKeys -> Nat]
HideableKeys == {k \in Keys : Hideable(k)}
Positive == {k \in HideableKeys : Val(truth, k) > 0}

LEMMA CheapestIsOne ==
  ASSUME Counted, NEW C \in SUBSET Keys, C # {}
  PROVE  Cheapest(C) \in C
<1> DEFINE f == [k \in C |-> Val(truth, k)]
           g == [k \in C |-> Place[k]]
<1>1. f \in [C -> Nat]
  BY ValIsNatural DEF Counted
<1>2. g \in [C -> Nat]
  BY PlaceIsNatural
<1>3. PICK a \in C : \A b \in C : f[a] < f[b] \/ (f[a] = f[b] /\ g[a] <= g[b])
  <2> HIDE DEF f, g
  <2> QED BY <1>1, <1>2, LeastByTwo
<1>4. \E x \in C : \A b \in C : \/ Val(truth, x) < Val(truth, b)
                                \/ Val(truth, x) = Val(truth, b) /\ Place[x] <= Place[b]
  BY <1>3
<1> QED BY <1>4 DEF Cheapest

LEMMA SmallestIsOne ==
  ASSUME NEW R \in SUBSET (DOMAIN FormOrder), R # {}
  PROVE  Smallest(R) \in R
<1> DEFINE f == [i \in R |-> Cardinality(Relation[i])]
           g == [i \in R |-> i]
<1>1. f \in [R -> Nat] /\ g \in [R -> Nat]
  BY RelationsAreKeys
<1>2. PICK a \in R : \A b \in R : f[a] < f[b] \/ (f[a] = f[b] /\ g[a] <= g[b])
  <2> HIDE DEF f, g
  <2> QED BY <1>1, LeastByTwo
<1>3. \E x \in R : \A b \in R : \/ Cardinality(Relation[x]) < Cardinality(Relation[b])
                                \/ Cardinality(Relation[x]) = Cardinality(Relation[b]) /\ x <= b
  BY <1>2
<1> QED BY <1>3 DEF Smallest

\* A candidate is a printed entry above 0 that may be null, and no numerator.
LEMMA CandidatesAreOpen ==
  ASSUME NEW S \in SUBSET Keys, NEW H
  PROVE  Candidates(S, H) \in SUBSET (Positive \ (H \cup Lapses))
BY KeysAreClosed DEF Candidates, Open, Positive, HideableKeys

LEMMA OfSmallestIsPositive ==
  ASSUME Counted, NEW R \in SUBSET (DOMAIN FormOrder), NEW H
  PROVE  OfSmallest(R, H) \in SUBSET (Positive \ (H \cup Lapses))
<1> DEFINE open == {i \in R : Candidates(Relation[i], H) # {}}
           i == Smallest(open)
<1>1. CASE open = {}
  BY <1>1 DEF OfSmallest
<1>2. CASE open # {}
  <2>1. i \in open
    BY <1>2, SmallestIsOne
  <2> HIDE DEF i
  <2>2. Relation[i] \in SUBSET Keys /\ Candidates(Relation[i], H) # {}
    BY <2>1, RelationsAreKeys
  <2>3. Candidates(Relation[i], H) \in SUBSET (Positive \ (H \cup Lapses))
    BY <2>2, CandidatesAreOpen
  <2>4. Candidates(Relation[i], H) \in SUBSET Keys
    BY <2>3 DEF Positive, HideableKeys
  <2>5. Cheapest(Candidates(Relation[i], H)) \in Candidates(Relation[i], H)
    BY <2>2, <2>4, CheapestIsOne
  <2>6. OfSmallest(R, H) = {Cheapest(Candidates(Relation[i], H))}
    BY <1>2 DEF OfSmallest, i
  <2> QED BY <2>3, <2>5, <2>6
<1> QED BY <1>1, <1>2

LEMMA ComplementsArePositive ==
  ASSUME Counted, NEW bad \in SUBSET Keys, NEW H \in SUBSET Keys
  PROVE  Complements(bad, H) \in SUBSET Positive
<1>1. \A S : Holding(S) \in SUBSET (DOMAIN FormOrder)
  BY DEF Holding
<1>2. \A b, C : ComplementOf(b, H, C) \in SUBSET Positive
  <2> TAKE b, C
  <2> DEFINE one == Neighbours(b)
             two == Holding(Around(one)) \ one
  <2>1. one \in SUBSET (DOMAIN FormOrder) /\ two \in SUBSET (DOMAIN FormOrder)
    BY <1>1 DEF Neighbours
  <2> HIDE DEF one, two
  <2>2. OfSmallest(one, H \cup C) \in SUBSET Positive /\ OfSmallest(two, H \cup C) \in SUBSET Positive
    BY <2>1, OfSmallestIsPositive
  <2> QED BY <2>2 DEF ComplementOf, one, two
<1>3. Local(bad, H) \in SUBSET Positive
  <2> DEFINE n == Cardinality(bad)
             step == [i \in 1..n |-> [s \in Chosen |-> Choose(s, H)]]
             a == [left |-> bad, chosen |-> {}]
             Good == [left : SUBSET Keys, chosen : SUBSET Positive]
             Q == [i \in 0..n |-> Good]
  <2>1. n \in Nat
    BY KeysAreFinite, FS_Subset, FS_CardinalityType
  <2>2. a \in Good
    OBVIOUS
  <2>3. \A s \in Good : s \in Chosen /\ Choose(s, H) \in Good
    <3> TAKE s \in Good
    <3>1. s \in Chosen
      BY DEF Chosen, Positive, HideableKeys
    <3>2. ComplementOf(FirstByName(s.left), H, s.chosen) \in SUBSET Positive
      BY <1>2
    <3>3. Choose(s, H) \in Good
      BY <3>2 DEF Choose
    <3> QED BY <3>1, <3>3
  <2>4. a \in Q[0]
    BY <2>1, <2>2
  <2>5. \A i \in 1..n : \A s \in Q[i - 1] : step[i][s] \in Q[i]
    <3> HIDE DEF Good
    <3> TAKE i \in 1..n
    <3>1. i \in 0..n /\ i - 1 \in 0..n
      BY <2>1
    <3> TAKE s \in Q[i - 1]
    <3>2. s \in Good
      BY <3>1
    <3>3. step[i][s] = Choose(s, H)
      BY <2>3, <3>2
    <3> QED BY <2>3, <3>1, <3>2, <3>3
  <2>6. Steps(a, step, n) \in Q[n]
    <3> HIDE DEF a, step, n, Q
    <3> QED BY <2>1, <2>4, <2>5, StepsReach
  <2>7. Q[n] = Good
    <3> HIDE DEF n, Good
    <3> QED BY <2>1
  <2>8. Local(bad, H) = Steps(a, step, n).chosen
    BY DEF Local
  <2> HIDE DEF a, step, n, Q
  <2> QED BY <2>6, <2>7, <2>8
<1>4. OfSmallest(Holding(H), H) \in SUBSET Positive
  <2>1. Holding(H) \in SUBSET (DOMAIN FormOrder)
    BY <1>1
  <2> QED BY <2>1, OfSmallestIsPositive
<1> QED BY <1>3, <1>4 DEF Complements

-----------------------------------------------------------------------------
(* Closing a set of nulls. *)

\* Is every null 0 in the line of a null head?
Covered(H) == \A c \in H \ Lapses : Val(truth, c) = 0 => \E h \in Heads \cap H : c \in Line[h]

\* The ties: what they add may be null, and a null 0 they add is covered.
LEMMA TieGrows ==
  ASSUME Counted, NEW H \in SUBSET HideableKeys
  PROVE  Tie(H) \in SUBSET HideableKeys /\ H \subseteq Tie(H) /\ (Covered(H) => Covered(Tie(H)))
<1>1. Zeros(H) \in SUBSET (HideableKeys \ Lapses) /\ \A c \in Zeros(H) : \E h \in Heads \cap H : c \in Line[h]
  BY KeysAreClosed DEF Zeros, HideableKeys
<1>2. \A K : Numerators(K) \in SUBSET (HideableKeys \cap Lapses)
  BY KeysAreClosed DEF Numerators, HideableKeys
<1>3. Tie(H) = (H \cup Zeros(H)) \cup Numerators(H \cup Zeros(H))
  BY DEF Tie
<1>4. ASSUME Covered(H) PROVE Covered(Tie(H))
  <2> SUFFICES ASSUME NEW c \in Tie(H) \ Lapses, Val(truth, c) = 0 PROVE \E h \in Heads \cap Tie(H) : c \in Line[h]
    BY DEF Covered
  <2>1. c \in H \cup Zeros(H)
    BY <1>2, <1>3
  <2>2. \E h \in Heads \cap H : c \in Line[h]
    BY <1>1, <1>4, <2>1 DEF Covered
  <2> QED BY <1>3, <2>2
<1> QED BY <1>1, <1>2, <1>3, <1>4

LEMMA LonelyIsPositive ==
  ASSUME Counted, NEW H \in SUBSET Keys, NEW i \in DOMAIN FormOrder
  PROVE  Lonely(H, i) \in SUBSET Positive
<1> DEFINE cands == Candidates(Relation[i], H)
<1>1. cands \in SUBSET Positive
  BY RelationsAreKeys, CandidatesAreOpen
<1>2. cands \in SUBSET Keys
  BY <1>1 DEF Positive, HideableKeys
<1>3. cands # {} => Cheapest(cands) \in cands
  BY <1>2, CheapestIsOne
<1> QED BY <1>1, <1>3 DEF Lonely

\* A round of close() only adds: the ties, then entries above 0.
LEMMA BalanceGrows ==
  ASSUME Counted, NEW H \in SUBSET HideableKeys
  PROVE  Balance(H) \in SUBSET HideableKeys /\ Tie(H) \subseteq Balance(H) /\ (Covered(H) => Covered(Balance(H)))
<1> DEFINE n == Len(FormOrder)
           step == [i \in 1..n |-> [K \in SUBSET Keys |-> K \cup Lonely(K, i)]]
           Good == {K \in SUBSET HideableKeys : Tie(H) \subseteq K /\ (Covered(H) => Covered(K))}
           Q == [i \in 0..n |-> Good]
<1>1. n \in Nat /\ 1..n = DOMAIN FormOrder
  BY RelationsAreKeys
<1>2. Tie(H) \in Good
  BY TieGrows
<1>3. ASSUME NEW i \in 1..n, NEW K \in Good PROVE K \in SUBSET Keys /\ K \cup Lonely(K, i) \in Good
  <2>1. K \in SUBSET Keys
    BY DEF HideableKeys
  <2>2. Lonely(K, i) \in SUBSET Positive
    BY <1>1, <2>1, LonelyIsPositive
  <2>3. K \cup Lonely(K, i) \in SUBSET HideableKeys
    BY <2>2 DEF Positive
  <2>4. Covered(K) => Covered(K \cup Lonely(K, i))
    <3> SUFFICES ASSUME Covered(K), NEW c \in (K \cup Lonely(K, i)) \ Lapses, Val(truth, c) = 0
                 PROVE  \E h \in Heads \cap (K \cup Lonely(K, i)) : c \in Line[h]
      BY DEF Covered
    <3>1. c \in K
      BY <2>2 DEF Positive
    <3> QED BY <3>1 DEF Covered
  <2> QED BY <2>1, <2>3, <2>4
<1> HIDE DEF Good
<1>4. Tie(H) \in Q[0] /\ Q[n] = Good
  <2> HIDE DEF n
  <2> QED BY <1>1, <1>2
<1>5. \A i \in 1..n : \A K \in Q[i - 1] : step[i][K] \in Q[i]
  <2> HIDE DEF n
  <2> TAKE i \in 1..n
  <2>1. i \in 0..n /\ i - 1 \in 0..n
    BY <1>1
  <2> TAKE K \in Q[i - 1]
  <2>2. K \in Good
    BY <2>1
  <2>3. step[i][K] = K \cup Lonely(K, i)
    BY <1>3, <2>2
  <2> QED BY <1>3, <2>1, <2>2, <2>3
<1>6. Steps(Tie(H), step, n) \in Q[n]
  <2> HIDE DEF step, n, Q
  <2> QED BY <1>1, <1>4, <1>5, StepsReach
<1>7. Balance(H) \in Good
  BY <1>4, <1>6 DEF Balance
<1> QED BY <1>7 DEF Good

\* close() adds entries that may be null, nulls the numerator of every null model count, and leaves no null 0
\* uncovered that it did not find so.
LEMMA CloseCloses ==
  ASSUME Counted, NEW H \in SUBSET HideableKeys
  PROVE  /\ Close(H) \in SUBSET HideableKeys /\ H \subseteq Close(H)
         /\ Numerators(Close(H)) \subseteq Close(H)
         /\ Covered(H) => Covered(Close(H))
<1> DEFINE n == Cardinality(Keys)
           step == [i \in 1..n |-> [K \in SUBSET Keys |-> Balance(K)]]
           Good(i) == {K \in SUBSET HideableKeys : /\ H \subseteq K /\ (Covered(H) => Covered(K))
                                                   /\ Balance(K) = K \/ Cardinality(K) >= i}
           Q == [i \in 0..n |-> Good(i)]
<1>1. n \in Nat /\ \A K \in SUBSET HideableKeys : K \in SUBSET Keys /\ IsFiniteSet(K) /\ Cardinality(K) \in Nat
  BY KeysAreFinite, FS_Subset, FS_CardinalityType DEF HideableKeys
<1>2. H \in Good(0)
  BY <1>1
<1>3. \A K \in SUBSET HideableKeys : K \subseteq Balance(K) /\ Balance(K) \in SUBSET HideableKeys /\ Tie(K) \subseteq Balance(K)
                                     /\ (Covered(K) => Covered(Balance(K)))
  BY BalanceGrows, TieGrows
<1>4. ASSUME NEW i \in 1..n, NEW K \in Good(i - 1) PROVE K \in SUBSET Keys /\ Balance(K) \in Good(i)
  <2>1. K \in SUBSET HideableKeys /\ H \subseteq K /\ (Covered(H) => Covered(K))
        /\ (Balance(K) = K \/ Cardinality(K) >= i - 1)
    OBVIOUS
  <2>2. K \in SUBSET Keys /\ Balance(K) \in SUBSET HideableKeys /\ H \subseteq Balance(K)
        /\ (Covered(H) => Covered(Balance(K)))
    BY <1>1, <1>3, <2>1
  <2>3. CASE Balance(K) = K
    BY <2>2, <2>3
  <2>4. CASE Balance(K) # K /\ Cardinality(K) >= i - 1
    <3>1. Cardinality(Balance(K)) \in Nat /\ Cardinality(K) \in Nat /\ IsFiniteSet(Balance(K)) /\ K \in SUBSET Balance(K)
      BY <1>1, <1>3, <2>1, <2>2
    <3>2. Cardinality(K) <= Cardinality(Balance(K)) /\ Cardinality(K) # Cardinality(Balance(K))
      BY <2>4, <3>1, FS_Subset
    <3>3. Cardinality(Balance(K)) >= i
      BY <1>1, <2>4, <3>1, <3>2
    <3> QED BY <2>2, <3>3
  <2> QED BY <2>1, <2>3, <2>4
<1> HIDE DEF Good
<1>5. H \in Q[0] /\ Q[n] = Good(n)
  <2> HIDE DEF n
  <2> QED BY <1>1, <1>2
<1>6. \A i \in 1..n : \A K \in Q[i - 1] : step[i][K] \in Q[i]
  <2> HIDE DEF n
  <2> TAKE i \in 1..n
  <2>1. i \in 0..n /\ i - 1 \in 0..n
    BY <1>1
  <2> TAKE K \in Q[i - 1]
  <2>2. K \in Good(i - 1)
    BY <2>1
  <2>3. step[i][K] = Balance(K)
    BY <1>4, <2>2
  <2> QED BY <1>4, <2>1, <2>2, <2>3
<1>7. Steps(H, step, n) \in Q[n]
  <2> HIDE DEF step, n, Q
  <2> QED BY <1>1, <1>5, <1>6, StepsReach
<1> DEFINE C == Close(H)
<1>8. C \in Good(n)
  BY <1>5, <1>7 DEF Close
<1> HIDE DEF C
<1>9. C \in SUBSET HideableKeys /\ H \subseteq C /\ (Covered(H) => Covered(C)) /\ (Balance(C) = C \/ Cardinality(C) >= n)
  BY <1>8 DEF Good
<1>10. Balance(C) = C
  <2>1. CASE Cardinality(C) >= n
    <3>1. Cardinality(C) <= n /\ (Cardinality(C) = n => C = Keys)
      BY <1>1, <1>9, KeysAreFinite, FS_Subset
    <3>2. C = Keys
      BY <1>1, <1>9, <2>1, <3>1
    <3>3. C \subseteq Balance(C) /\ Balance(C) \in SUBSET Keys
      BY <1>1, <1>3, <1>9
    <3> QED BY <3>2, <3>3
  <2> QED BY <1>9, <2>1
<1>11. Numerators(C) \subseteq C
  <2>1. Tie(C) \subseteq C
    BY <1>3, <1>9, <1>10
  <2>2. C \cup Zeros(C) = C
    BY <2>1 DEF Tie
  <2> QED BY <2>1, <2>2 DEF Tie
<1> QED BY <1>9, <1>11 DEF C

-----------------------------------------------------------------------------
(* The reader's question, asked again. *)

\* A wider search finds every table that a narrower one finds.
LEMMA WiderPinsLess ==
  ASSUME Counted, NEW H, NEW w, NEW far \in Nat
  PROVE  Pinned(H, w, far + 1) \subseteq Pinned(H, w, far)
<1>1. ASSUME NEW U \in SUBSET BaseKeys PROVE Near(U, far) \subseteq Near(U, far + 1)
  <2>1. \A k \in U : Nearby(k, far) \subseteq Nearby(k, far + 1)
    <3> TAKE k \in U
    <3>1. truth[k] \in Nat
      BY DEF Counted
    <3> QED BY <3>1 DEF Nearby
  <2>2. UNION {Nearby(k, far) : k \in U} \subseteq UNION {Nearby(k, far + 1) : k \in U}
    BY <2>1
  <2> QED BY <2>1, <2>2 DEF Near
<1>2. ASSUME NEW U \in SUBSET BaseKeys, NEW sums, NEW ones
      PROVE  Agreeing(U, far, sums, ones) \subseteq Agreeing(U, far + 1, sums, ones)
  BY <1>1 DEF Agreeing
<1>3. Grids(H, w, far) \subseteq Grids(H, w, far + 1) /\ Rates(H, far) \subseteq Rates(H, far + 1)
  BY <1>2 DEF Grids, Rates, BaseKeys
<1>4. \A k : Fixed(k, Grids(H, w, far + 1), Rates(H, far + 1)) => Fixed(k, Grids(H, w, far), Rates(H, far))
  BY <1>3 DEF Fixed
<1> QED BY <1>4 DEF Pinned

\* The question depends on the table and the nulls alone.
LEMMA SameTable ==
  ASSUME UNCHANGED truth
  PROVE  /\ \A k : Small(k)' <=> Small(k)
         /\ \A H : Covered(H)' <=> Covered(H)
         /\ \A H, w, d : Pinned(H, w, d)' = Pinned(H, w, d)
         /\ Counted' <=> Counted
         /\ Left' = Left
<1>1. truth' = truth
  OBVIOUS
<1>2. \A k, d : Nearby(k, d)' = Nearby(k, d)
  BY <1>1, Zenon DEF Nearby
<1>3. \A U, d : Near(U, d)' = Near(U, d)
  BY <1>2, Zenon DEF Near
<1>4. \A u, U : Filled(u, U)' = Filled(u, U)
  BY <1>1, Zenon DEF Filled
<1>5. \A U, d, s, o : Agreeing(U, d, s, o)' = Agreeing(U, d, s, o)
  BY <1>1, <1>3, <1>4, Zenon DEF Agreeing
<1>6. \A H, w, d : Pinned(H, w, d)' = Pinned(H, w, d)
  <2>1. \A H, w, d : Grids(H, w, d)' = Grids(H, w, d)
    BY <1>5, Zenon DEF Grids
  <2>2. \A H, d : Rates(H, d)' = Rates(H, d)
    BY <1>5, Zenon DEF Rates
  <2>3. \A k, g, r : Fixed(k, g, r)' <=> Fixed(k, g, r)
    BY <1>1, Zenon DEF Fixed
  <2> QED BY <2>1, <2>2, <2>3, Zenon DEF Pinned
<1>7. \A k : Small(k)' <=> Small(k)
  BY <1>1, Zenon DEF Small
<1>8. \A H : Covered(H)' <=> Covered(H)
  BY <1>1, Zenon DEF Covered
<1>9. Left' = Left
  BY <1>1, Zenon DEF Left
<1> QED BY <1>1, <1>6, <1>7, <1>8, <1>9, Zenon DEF Counted

LEMMA SameKeys ==
  ASSUME UNCHANGED known
  PROVE  HideableKeys' = HideableKeys /\ \A H : Numerators(H)' = Numerators(H)
<1>1. \A k : Hideable(k)' <=> Hideable(k)
  BY DEF Hideable
<1> QED BY <1>1, Zenon DEF HideableKeys, Numerators

-----------------------------------------------------------------------------
(* The inductive invariant. *)

Shape ==
  /\ truth \in Truths /\ known \in SUBSET Keys /\ hidden \in SUBSET HideableKeys /\ pins \in SUBSET Keys
  /\ withheld \in BOOLEAN /\ pc \in {"start", "primary", "ask", "act", "done", "raised"}
Fresh ==
  /\ pc = "start" => known = {}
  /\ pc \in {"start", "primary"} => hidden = {} /\ withheld = FALSE /\ pins = {}
\* Nothing may be null, or something is left to split.
Divided == pc # "start" => HideableKeys = {} \/ (known = {} /\ Left # 0)
Asked == pc \in {"act", "done"} => pins = Pinned(hidden, withheld, Window)
ZerosAreCovered == ~withheld => Covered(hidden)
SmallIsNull == pc \notin {"start", "primary"} /\ ~withheld => \A k \in HideableKeys \ Lapses : Small(k) => k \in hidden
NumeratorsFollow == Numerators(hidden) \subseteq hidden
AllOrNothing == withheld => hidden = HideableKeys
Settled == pc = "done" /\ ~withheld => pins = {}

IInv ==
  /\ Shape /\ Fresh /\ Divided /\ Asked /\ ZerosAreCovered /\ SmallIsNull /\ NumeratorsFollow /\ AllOrNothing
  /\ Settled /\ NeverRaises

LEMMA TablesAreCounted ==
  ASSUME Shape
  PROVE  Counted /\ \A p \in Plans : truth[<<"lapses", p>>] <= truth[Cell(p, "model")]
BY TableAssumption DEF Shape, Counted

LEMMA PinsAreNulls == \A H, w, d : Pinned(H, w, d) \subseteq H
BY DEF Pinned

\* With nothing to complement, no pin that may be printed is a small count, the last cover of a null 0, or apart
\* from its numerator.
LEMMA PrintingIsHarmless ==
  ASSUME Counted, hidden \in SUBSET HideableKeys, pins \subseteq hidden, ~withheld, Bad = {},
         Covered(hidden), Numerators(hidden) \subseteq hidden,
         NEW gone, Printable \subseteq gone, gone \subseteq Printable \cup Back
  PROVE  /\ \A k \in gone \ Lapses : ~Small(k)
         /\ Covered(hidden \ gone)
         /\ Numerators(hidden \ gone) \subseteq hidden \ gone
<1>1. First \subseteq pins /\ \A k \in pins : k \in First <=> MaybeSensitive(k)
  BY DEF First
<1>2. \A k \in First : ~Sensitive(k, hidden \ First)
  BY DEF Bad
<1>3. \A k \in gone \ Lapses : k \in Printable /\ k \in pins
  BY DEF Back, Printable
<1>4. ASSUME NEW k \in gone \ Lapses, Small(k) PROVE FALSE
  <2>1. MaybeSensitive(k) /\ Sensitive(k, hidden \ First)
    BY <1>4 DEF MaybeSensitive, Sensitive
  <2> QED BY <1>1, <1>2, <1>3, <2>1
<1>5. ASSUME NEW c \in (hidden \ gone) \ Lapses, Val(truth, c) = 0
      PROVE  \E h \in Heads \cap (hidden \ gone) : c \in Line[h]
  <2>1. PICK h \in Heads \cap hidden : c \in Line[h]
    BY <1>5 DEF Covered
  <2>2. CASE h \notin gone
    BY <2>1, <2>2
  <2>3. CASE h \in gone
    <3>1. h \notin Lapses /\ h \in Printable /\ h \in pins
      BY <1>3, <2>1, <2>3, KeysAreClosed
    <3>2. \A g \in Heads \cap hidden : g \in Margins
      BY DEF Margins, HideableKeys, Hideable, Public
    <3>3. MaybeSensitive(h) /\ h \in First
      BY <1>1, <1>5, <2>1, <3>1, <3>2 DEF MaybeSensitive
    <3>4. ~UncoveredZeros(h, hidden \ First)
      BY <1>2, <3>3 DEF Sensitive
    <3>5. c \notin pins
      <4> SUFFICES ASSUME c \in pins PROVE FALSE
        OBVIOUS
      <4>1. c \in Printable
        BY DEF Printable, Tied
      <4> QED BY <4>1
    <3>6. c \in hidden \ First
      BY <1>1, <3>5
    <3>7. PICK g \in (Heads \cap (hidden \ First)) \ {h} : c \in Line[g]
      BY <1>5, <2>1, <3>2, <3>4, <3>6 DEF UncoveredZeros
    <3>8. MaybeSensitive(g)
      BY <1>5, <3>2, <3>7 DEF MaybeSensitive
    <3>9. g \notin pins /\ g \notin Lapses
      BY <1>1, <3>7, <3>8, KeysAreClosed
    <3>10. g \notin gone
      BY <1>3, <3>9
    <3> QED BY <3>7, <3>10
  <2> QED BY <2>2, <2>3
<1>6. ASSUME NEW k \in Numerators(hidden \ gone) PROVE k \in hidden \ gone
  <2>1. k \in Lapses /\ ModelOf(k) \in hidden \ gone /\ k \in hidden
    BY DEF Numerators
  <2>2. ModelOf(k) \notin Lapses
    BY <2>1, KeysAreClosed
  <2>3. ModelOf(k) \notin pins
    <3> SUFFICES ASSUME ModelOf(k) \in pins PROVE FALSE
      OBVIOUS
    <3>1. ModelOf(k) \in Printable
      BY <2>2 DEF Printable, Tied
    <3> QED BY <2>1, <3>1
  <2>4. k \notin Printable
    BY <2>1, <2>3 DEF Printable, Tied
  <2>5. k \notin Back
    BY <2>1 DEF Back
  <2> QED BY <2>1, <2>4, <2>5
<1> QED BY <1>4, <1>5, <1>6 DEF Covered

\* When nothing needs a complement and nothing can be printed, nothing is pinned.
LEMMA NothingLeftIsOpen ==
  ASSUME Bad = {}, Printable = {}, ~withheld, pins \subseteq hidden
  PROVE  pins = {}
<1> SUFFICES ASSUME NEW k \in pins PROVE FALSE
  OBVIOUS
<1>1. Tied(k, hidden \ pins)
  BY DEF Printable
<1>2. k \in Lapses /\ ModelOf(k) \in hidden \ pins
  BY <1>1 DEF Tied
<1>3. First \subseteq pins /\ (k \in First <=> MaybeSensitive(k))
  BY DEF First
<1>4. \A j \in First : ~Sensitive(j, hidden \ First)
  BY DEF Bad
<1>5. \A j \in pins \ First : ~Tied(j, hidden \ pins)
  BY <1>4 DEF Bad
<1>6. k \in First
  BY <1>1, <1>5
<1>7. k \notin Margins
  BY <1>2, KeysAreClosed DEF Margins
<1>8. Small(ModelOf(k))
  BY <1>2, <1>3, <1>6, <1>7 DEF MaybeSensitive
<1>9. Sensitive(k, hidden \ First)
  BY <1>2, <1>3, <1>8 DEF Sensitive
<1> QED BY <1>4, <1>6, <1>9

-----------------------------------------------------------------------------
(* With everything null that may be, a renewal can always have stood elsewhere. *)

\* One renewal more, or less, in a part; and moved from a part to another.
More(x, a) == [x EXCEPT ![a] = x[a] + 1]
Less(x, a) == [x EXCEPT ![a] = x[a] - 1]
Moved(x, a, b) == More(Less(x, a), b)

LEMMA OneMore ==
  ASSUME NEW x \in [BaseKeys -> Nat], NEW a \in BaseKeys, NEW k \in Keys
  PROVE  Val(More(x, a), k) = Val(x, k) + (IF a \in Parts[k] THEN 1 ELSE 0)
<1> DEFINE new == <<a, x[a] + 1>>
           y == More(x, a)
<1>1. Parts[k] \subseteq BaseKeys
  BY KeysAreClosed
<1>2. x[a] \in Nat /\ \A j \in BaseKeys : y[j] = IF j = a THEN x[a] + 1 ELSE x[j]
  BY DEF More
<1> HIDE DEF y
<1>3. \A j, n : <<j, n>> \in Units(y, k) <=> j \in Parts[k] /\ n \in 1..y[j]
  BY DEF Units
<1>4. \A j, n : <<j, n>> \in Units(x, k) <=> j \in Parts[k] /\ n \in 1..x[j]
  BY DEF Units
<1>5. \A z : \A f : z \in Units(f, k) => z = <<z[1], z[2]>>
  BY DEF Units
<1>6. IsFiniteSet(Units(x, k)) /\ Val(x, k) \in Nat
  BY ValIsNatural
<1>7. CASE a \in Parts[k]
  <2>1. \A j, n : <<j, n>> \in Units(y, k) <=> <<j, n>> \in Units(x, k) \/ (j = a /\ n = x[a] + 1)
    <3> TAKE j, n
    <3>1. CASE j \notin Parts[k]
      BY <1>3, <1>4, <1>7, <3>1
    <3>2. CASE j \in Parts[k] /\ j # a
      <4>1. y[j] = x[j]
        BY <1>1, <1>2, <3>2
      <4> QED BY <1>3, <1>4, <3>2, <4>1
    <3>3. CASE j \in Parts[k] /\ j = a
      <4>1. y[j] = x[a] + 1
        BY <1>1, <1>2, <3>3
      <4>2. n \in 1..(x[a] + 1) <=> n \in 1..x[a] \/ n = x[a] + 1
        BY <1>2
      <4> QED BY <1>3, <1>4, <3>3, <4>1, <4>2
    <3> QED BY <3>1, <3>2, <3>3
  <2>2. new \notin Units(x, k)
    BY <1>2, <1>4
  <2>3. Units(y, k) = Units(x, k) \cup {new}
    <3>1. \A z : z \in Units(y, k) => z \in Units(x, k) \cup {new}
      <4> TAKE z
      <4> HAVE z \in Units(y, k)
      <4>1. z = <<z[1], z[2]>>
        BY <1>5
      <4>2. z \in Units(x, k) \/ (z[1] = a /\ z[2] = x[a] + 1)
        BY <2>1, <4>1
      <4> QED BY <4>1, <4>2
    <3>2. new \in Units(y, k)
      BY <2>1
    <3>3. \A z : z \in Units(x, k) => z \in Units(y, k)
      <4> TAKE z
      <4> HAVE z \in Units(x, k)
      <4>1. z = <<z[1], z[2]>>
        BY <1>5
      <4> QED BY <2>1, <4>1
    <3> QED BY <3>1, <3>2, <3>3
  <2> HIDE DEF new
  <2>4. Cardinality(Units(x, k) \cup {new}) = Cardinality(Units(x, k)) + 1
    BY <1>6, <2>2, FS_AddElement
  <2> QED BY <1>7, <2>3, <2>4 DEF Val, y
<1>8. CASE a \notin Parts[k]
  <2>1. \A j \in Parts[k] : y[j] = x[j]
    BY <1>1, <1>2, <1>8
  <2>2. Units(y, k) = Units(x, k)
    BY <2>1 DEF Units
  <2> QED BY <1>6, <1>8, <2>2 DEF Val, y
<1> QED BY <1>7, <1>8

LEMMA OneLess ==
  ASSUME NEW x \in [BaseKeys -> Nat], NEW a \in BaseKeys, x[a] > 0, NEW k \in Keys
  PROVE  Val(Less(x, a), k) = Val(x, k) - (IF a \in Parts[k] THEN 1 ELSE 0)
<1> DEFINE y == Less(x, a)
           z == More(y, a)
<1>1. y \in [BaseKeys -> Nat] /\ y[a] = x[a] - 1 /\ x[a] \in Nat
  BY DEF Less
<1>2. x = z
  <2>1. z \in [BaseKeys -> Nat]
    BY <1>1 DEF More
  <2>2. \A j \in BaseKeys : z[j] = x[j]
    BY <1>1 DEF More, Less
  <2> HIDE DEF z
  <2>3. z = [j \in BaseKeys |-> z[j]] /\ x = [j \in BaseKeys |-> x[j]]
    BY <2>1
  <2>4. [j \in BaseKeys |-> z[j]] = [j \in BaseKeys |-> x[j]]
    BY <2>2
  <2> QED BY <2>3, <2>4
<1> HIDE DEF y
<1>3. Val(z, k) = Val(y, k) + (IF a \in Parts[k] THEN 1 ELSE 0)
  BY <1>1, OneMore
<1>4. Val(x, k) \in Nat /\ Val(y, k) \in Nat
  BY <1>1, ValIsNatural
<1> HIDE DEF z
<1> QED BY <1>2, <1>3, <1>4 DEF y

LEMMA MovedCounts ==
  ASSUME NEW x \in [BaseKeys -> Nat], NEW a \in BaseKeys, NEW b \in BaseKeys, a # b, x[a] > 0
  PROVE  /\ Moved(x, a, b) \in [BaseKeys -> Nat]
         /\ \A j \in BaseKeys : Moved(x, a, b)[j] = IF j = a THEN x[a] - 1 ELSE IF j = b THEN x[b] + 1 ELSE x[j]
         /\ \A k \in Keys : Val(Moved(x, a, b), k) = Val(x, k) + (IF b \in Parts[k] THEN 1 ELSE 0)
                                                              - (IF a \in Parts[k] THEN 1 ELSE 0)
<1> DEFINE y == Less(x, a)
           z == More(y, b)
<1>1. y \in [BaseKeys -> Nat]
  BY DEF Less
<1>2. /\ z \in [BaseKeys -> Nat]
      /\ \A j \in BaseKeys : z[j] = IF j = a THEN x[a] - 1 ELSE IF j = b THEN x[b] + 1 ELSE x[j]
  BY <1>1 DEF More, Less
<1>3. ASSUME NEW k \in Keys
      PROVE  Val(z, k) = Val(x, k) + (IF b \in Parts[k] THEN 1 ELSE 0) - (IF a \in Parts[k] THEN 1 ELSE 0)
  <2>1. Val(y, k) = Val(x, k) - (IF a \in Parts[k] THEN 1 ELSE 0)
    BY OneLess
  <2> HIDE DEF y
  <2>2. Val(z, k) = Val(y, k) + (IF b \in Parts[k] THEN 1 ELSE 0)
    BY <1>1, OneMore
  <2>3. Val(x, k) \in Nat /\ Val(y, k) \in Nat
    BY <1>1, ValIsNatural
  <2> QED BY <2>1, <2>2, <2>3
<1> HIDE DEF z
<1>4. z = Moved(x, a, b)
  BY DEF Moved, z
<1> QED BY <1>2, <1>3, <1>4

LEMMA AgreeingHolds ==
  ASSUME Counted, NEW U \in SUBSET BaseKeys, NEW far \in Nat, NEW sums, NEW ones, NEW c \in [BaseKeys -> Nat],
         \A k \in BaseKeys \ U : c[k] = truth[k],
         \A k \in U : truth[k] - far <= c[k] /\ c[k] <= truth[k] + far,
         \A k \in sums : Val(c, k) = Val(truth, k), \A k \in ones : Val(c, k) > 0
  PROVE  c \in Agreeing(U, far, sums, ones)
<1> DEFINE u == [k \in U |-> c[k]]
<1>1. \A k \in U : u[k] \in Nearby(k, far)
  <2> TAKE k \in U
  <2>1. c[k] \in Nat /\ truth[k] \in Nat /\ u[k] = c[k]
    BY DEF Counted
  <2>2. c[k] \in 0..(truth[k] + far) /\ truth[k] - far <= c[k]
    BY <2>1
  <2> QED BY <2>1, <2>2 DEF Nearby
<1>2. u \in [U -> UNION {Nearby(k, far) : k \in U}]
  <2>1. \A k \in U : u[k] \in UNION {Nearby(j, far) : j \in U}
    BY <1>1
  <2> QED BY <2>1
<1>3. u \in Near(U, far)
  BY <1>1, <1>2 DEF Near
<1>4. c = Filled(u, U)
  <2>1. c = [k \in BaseKeys |-> c[k]]
    OBVIOUS
  <2>2. [k \in BaseKeys |-> c[k]] = [k \in BaseKeys |-> IF k \in U THEN u[k] ELSE truth[k]]
    OBVIOUS
  <2> QED BY <2>1, <2>2 DEF Filled
<1> HIDE DEF u
<1> QED BY <1>3, <1>4 DEF Agreeing

\* Numerators that keep within their model counts plan by plan do so in total.
LEMMA FitsByPlan ==
  ASSUME NEW c \in [BaseKeys -> Nat], NEW l \in [BaseKeys -> Nat],
         \A p \in Plans : l[<<"lapses", p>>] <= c[Cell(p, "model")]
  PROVE  Fits(c, l)
<1> SUFFICES ASSUME NEW k \in Lapses PROVE Val(l, k) <= Val(c, ModelOf(k))
  BY DEF Fits
<1> DEFINE m == ModelOf(k)
<1>1. "model" \in Routes
  BY TableAssumption
<1>2. k \in Keys /\ m \in Keys
  BY KeysAreClosed
<1>3. \A j \in Parts[k] : j \in PlanLapses /\ Cell(j[2], "model") \in Parts[m]
  <2>1. CASE k = LapsesTotal
    <3>1. Parts[k] = PlanLapses /\ m = <<"route", "model">> /\ Parts[m] = Column("model")
      BY <1>1, <2>1, PartsAre DEF ModelOf
    <3> QED BY <3>1, KeyKinds DEF Column
  <2>2. CASE k # LapsesTotal
    <3>1. k \in PlanLapses /\ k[2] \in Plans /\ m = Cell(k[2], "model")
      BY <2>2, KeyKinds DEF Lapses, ModelOf
    <3>2. m \in Cells /\ Parts[k] = {k}
      BY <1>1, <3>1, KeyKinds, PartsAre DEF BaseKeys
    <3>3. Parts[m] = {m}
      BY <3>2, PartsAre DEF BaseKeys
    <3> QED BY <3>1, <3>2, <3>3
  <2> QED BY <2>1, <2>2
<1> HIDE DEF m
<1> DEFINE S == Units(l, k)
           T == Units(c, m)
           f == [z \in S |-> <<Cell(z[1][2], "model"), z[2]>>]
<1>4. ASSUME NEW z \in S
      PROVE  /\ z = <<z[1], z[2]>> /\ z[1] = <<"lapses", z[1][2]>>
             /\ <<Cell(z[1][2], "model"), z[2]>> \in T
  <2>1. PICK j \in Parts[k] : z \in {j} \X (1..l[j])
    BY DEF Units
  <2>2. z = <<j, z[2]>> /\ z[1] = j /\ z[2] \in 1..l[j]
    BY <2>1
  <2>3. j \in PlanLapses /\ j[2] \in Plans /\ j = <<"lapses", j[2]>> /\ Cell(j[2], "model") \in Parts[m]
    BY <1>3, KeyKinds
  <2>4. l[j] <= c[Cell(j[2], "model")] /\ l[j] \in Nat /\ c[Cell(j[2], "model")] \in Nat
    <3>1. j \in BaseKeys /\ Cell(j[2], "model") \in BaseKeys
      BY <1>1, <2>3, KeyKinds DEF BaseKeys
    <3>2. l[<<"lapses", j[2]>>] <= c[Cell(j[2], "model")]
      BY <2>3
    <3> QED BY <2>3, <3>1, <3>2
  <2>5. z[2] \in 1..c[Cell(j[2], "model")]
    BY <2>2, <2>4
  <2>6. <<Cell(j[2], "model"), z[2]>> \in T
    BY <2>3, <2>5 DEF Units
  <2> QED BY <2>2, <2>3, <2>6
<1>5. f \in [S -> T]
  BY <1>4
<1>6. ASSUME NEW y \in S, NEW z \in S, f[y] = f[z] PROVE y = z
  <2>1. Cell(y[1][2], "model") = Cell(z[1][2], "model") /\ y[2] = z[2]
    BY <1>6
  <2>2. y[1][2] = z[1][2]
    BY <2>1 DEF Cell
  <2>3. y[1] = <<"lapses", y[1][2]>> /\ z[1] = <<"lapses", z[1][2]>>
    BY <1>4
  <2>4. y[1] = z[1]
    BY <2>2, <2>3, Zenon
  <2>5. y = <<y[1], y[2]>> /\ z = <<z[1], z[2]>>
    BY <1>4
  <2> QED BY <2>1, <2>4, <2>5
<1> HIDE DEF f
<1>7. f \in Injection(S, T)
  BY <1>5, <1>6, Fun_IsInj
<1>8. IsFiniteSet(T)
  BY <1>2, ValIsNatural
<1> HIDE DEF S, T
<1>9. Cardinality(S) <= Cardinality(T)
  BY <1>7, <1>8, FS_Injection
<1> QED BY <1>9 DEF S, T, m, Val

-----------------------------------------------------------------------------
\* The cells that are not public.
Free == Cells \ Column("current")

LEMMA FreeCells ==
  /\ \A c \in Free : c \in BaseKeys /\ c \in Cells /\ c[2] \in Plans /\ c[3] \in Routes /\ c[3] # "current"
                     /\ c = Cell(c[2], c[3])
  /\ \A p \in Plans, r \in Routes : r # "current" => Cell(p, r) \in Free
  /\ \A p \in Plans : \E q \in Plans : q # p
  /\ \A r \in Routes : \E s \in Routes : s # r /\ s # "current"
  /\ "model" \in Routes /\ "current" \in Routes
<1>1. "model" \in Routes /\ "current" \in Routes /\ "model" # "current"
  BY TableAssumption
<1>2. \A c \in Free : c \in BaseKeys /\ c \in Cells /\ c[2] \in Plans /\ c[3] \in Routes /\ c[3] # "current"
                      /\ c = Cell(c[2], c[3])
  <2> TAKE c \in Free
  <2>1. c \in Cells /\ c \notin Column("current")
    BY DEF Free
  <2>2. c[2] \in Plans /\ c[3] \in Routes /\ c = Cell(c[2], c[3])
    BY <2>1, KeyKinds
  <2>3. c[3] # "current"
    BY <2>1, <2>2 DEF Column
  <2> QED BY <2>1, <2>2, <2>3 DEF BaseKeys
<1>3. \A p \in Plans, r \in Routes : r # "current" => Cell(p, r) \in Free
  <2> TAKE p \in Plans, r \in Routes
  <2> HAVE r # "current"
  <2>1. Cell(p, r) \in Cells /\ Cell(p, r)[3] = r
    BY KeyKinds
  <2>2. \A c \in Column("current") : c[3] = "current"
    BY <1>1, KeyKinds DEF Column
  <2> QED BY <2>1, <2>2 DEF Free
<1>4. \A p \in Plans : \E q \in Plans : q # p
  <2> SUFFICES ASSUME NEW p \in Plans, \A q \in Plans : q = p PROVE FALSE
    OBVIOUS
  <2>1. Plans = {p}
    OBVIOUS
  <2>2. Cardinality({p}) = 1
    BY FS_Singleton, Zenon
  <2>3. Cardinality(Plans) = 1
    BY <2>1, <2>2, Zenon
  <2> QED BY <2>3, TableAssumption
<1>5. \A r \in Routes : \E s \in Routes : s # r /\ s # "current"
  <2> TAKE r \in Routes
  <2>1. PICK s \in Routes : s \notin {"model", "current"}
    BY TableAssumption
  <2>2. CASE r = "model"
    BY <2>1, <2>2
  <2>3. CASE r # "model"
    BY <1>1, <2>3
  <2> QED BY <2>2, <2>3
<1> QED BY <1>1, <1>2, <1>3, <1>4, <1>5

\* What may be null but a numerator has a cell in it and a cell outside.
LEMMA EveryEntrySplits ==
  ASSUME known = {}, NEW k \in HideableKeys \ Lapses
  PROVE  (\E b \in Free : b \in Parts[k]) /\ (\E b \in Free : b \notin Parts[k])
<1>1. k \in Free \/ k \in Heads \ {<<"route", "current">>}
  <2>1. k \in Cells \/ k \in Heads
    BY DEF HideableKeys, Hideable, Lapses, Keys, Forms, BaseKeys
  <2>2. k \notin Column("current") /\ k # <<"route", "current">>
    BY DEF HideableKeys, Hideable, Public
  <2> QED BY <2>1, <2>2 DEF Free
<1>2. CASE k \in Free
  <2>1. Parts[k] = {k} /\ k[2] \in Plans
    BY <1>2, FreeCells, PartsAre
  <2>2. PICK q \in Plans : q # k[2]
    BY <2>1, FreeCells
  <2>3. Cell(q, "model") \in Free /\ Cell(q, "model")[2] = q
    BY FreeCells, KeyKinds
  <2> QED BY <1>2, <2>1, <2>2, <2>3
<1>3. CASE k \in Heads \ {<<"route", "current">>}
  <2>1. CASE \E p \in Plans : k = <<"plan", p>>
    <3>1. PICK p \in Plans : k = <<"plan", p>>
      BY <2>1
    <3>2. Parts[k] = Row(p)
      BY <3>1, PartsAre
    <3>3. Cell(p, "model") \in Free /\ Cell(p, "model") \in Row(p)
      BY FreeCells DEF Row
    <3>4. PICK q \in Plans : q # p
      BY FreeCells
    <3>5. Cell(q, "model") \in Free /\ Cell(q, "model")[2] = q
      BY FreeCells, KeyKinds
    <3>6. \A c \in Row(p) : c[2] = p
      BY KeyKinds DEF Row
    <3> QED BY <3>2, <3>3, <3>4, <3>5, <3>6
  <2>2. CASE \E r \in Routes : k = <<"route", r>>
    <3>1. PICK r \in Routes : k = <<"route", r>>
      BY <2>2
    <3>2. Parts[k] = Column(r) /\ r # "current"
      BY <1>3, <3>1, PartsAre
    <3>3. PICK p \in Plans : TRUE
      <4>1. Plans # {}
        <5> SUFFICES ASSUME Plans = {} PROVE FALSE
          OBVIOUS
        <5>1. Cardinality(Plans) = 0
          BY FS_EmptySet, Zenon
        <5> QED BY <5>1, TableAssumption
      <4> QED BY <4>1
    <3>4. Cell(p, r) \in Free /\ Cell(p, r) \in Column(r)
      BY <3>2, FreeCells DEF Column
    <3>5. PICK s \in Routes : s # r /\ s # "current"
      BY FreeCells
    <3>6. Cell(p, s) \in Free /\ Cell(p, s)[3] = s
      BY <3>5, FreeCells, KeyKinds
    <3>7. \A c \in Column(r) : c[3] = r
      BY KeyKinds DEF Column
    <3> QED BY <3>2, <3>4, <3>5, <3>6, <3>7
  <2> QED BY <1>3, <2>1, <2>2, KeyKinds
<1> QED BY <1>1, <1>2, <1>3

\* Something left to split stands in a cell that is not public.
LEMMA SomethingStandsFree ==
  ASSUME Counted, Left # 0
  PROVE  \E a \in Free : truth[a] > 0
<1> SUFFICES ASSUME \A a \in Free : ~(truth[a] > 0) PROVE FALSE
  OBVIOUS
<1> DEFINE cur == <<"route", "current">>
<1>1. \A a \in Free : 1..truth[a] = {}
  <2> TAKE a \in Free
  <2>1. truth[a] \in Nat /\ ~(truth[a] > 0)
    BY FreeCells DEF Counted
  <2> QED BY <2>1
<1>2. Parts[Total] = Cells /\ Parts[cur] = Column("current") /\ Column("current") \subseteq Cells
  <2>1. Parts[Total] = Cells /\ Parts[cur] = Column("current")
    BY FreeCells, PartsAre
  <2>2. Column("current") \subseteq Cells
    BY FreeCells, KeyKinds DEF Column
  <2> QED BY <2>1, <2>2
<1>3. Units(truth, Total) = Units(truth, cur)
  <2>1. \A z : z \in Units(truth, Total) => z \in Units(truth, cur)
    <3> TAKE z
    <3> HAVE z \in Units(truth, Total)
    <3>1. PICK j \in Cells : z \in {j} \X (1..truth[j])
      BY <1>2 DEF Units
    <3>2. j \notin Free
      <4> SUFFICES ASSUME j \in Free PROVE FALSE
        OBVIOUS
      <4>1. 1..truth[j] = {}
        BY <1>1
      <4> QED BY <3>1, <4>1
    <3>3. j \in Parts[cur]
      BY <1>2, <3>2 DEF Free
    <3> QED BY <3>1, <3>3 DEF Units
  <2>2. Units(truth, cur) \subseteq Units(truth, Total)
    BY <1>2 DEF Units
  <2> QED BY <2>1, <2>2
<1>4. Val(truth, Total) = Val(truth, cur)
  BY <1>3 DEF Val
<1>5. Val(truth, Total) \in Nat
  BY KeysAreClosed, ValIsNatural DEF Counted
<1> HIDE DEF cur
<1>6. Val(truth, Total) - Val(truth, cur) = 0
  BY <1>4, <1>5
<1> QED BY <1>6 DEF Left, cur

LEMMA ValOfBase ==
  ASSUME NEW x \in [BaseKeys -> Nat], NEW k \in BaseKeys
  PROVE  Val(x, k) = x[k]
<1> DEFINE n == x[k]
           f == [i \in 1..n |-> <<k, i>>]
           U == {k} \X (1..n)
<1>1. n \in Nat
  OBVIOUS
<1>2. Units(x, k) = U
  <2>1. Parts[k] = {k}
    BY PartsAre
  <2> QED BY <2>1 DEF Units
<1> HIDE DEF n
<1>3. f \in [1..n -> U] /\ \A i, j \in 1..n : f[i] = f[j] => i = j
  OBVIOUS
<1>4. \A u \in U : \E i \in 1..n : f[i] = u
  OBVIOUS
<1> HIDE DEF f
<1>5. f \in Bijection(1..n, U)
  BY <1>3, <1>4, Fun_IsBij
<1>6. ExistsBijection(1..n, U)
  BY <1>5 DEF ExistsBijection
<1> HIDE DEF U
<1>7. Cardinality(U) = n
  BY <1>1, <1>6, FS_CountingElements
<1> QED BY <1>2, <1>7 DEF Val, n

\* Numerators brought down to the model counts of another table.
Capped(c) == [j \in BaseKeys |-> IF j \in PlanLapses /\ c[Cell(j[2], "model")] < truth[j] THEN c[Cell(j[2], "model")]
                                                                                  ELSE truth[j]]

LEMMA CappedIsNear ==
  ASSUME Shape, NEW c \in [BaseKeys -> Nat], \A p \in Plans : truth[Cell(p, "model")] <= c[Cell(p, "model")] + 1
  PROVE  /\ Capped(c) \in [BaseKeys -> Nat]
         /\ \A j \in BaseKeys \ PlanLapses : Capped(c)[j] = truth[j]
         /\ \A j \in PlanLapses : truth[j] - 1 <= Capped(c)[j] /\ Capped(c)[j] <= truth[j]
         /\ \A p \in Plans : Capped(c)[<<"lapses", p>>] <= c[Cell(p, "model")]
<1>1. truth \in [BaseKeys -> Nat] /\ \A p \in Plans : truth[<<"lapses", p>>] <= truth[Cell(p, "model")]
  BY TablesAreCounted DEF Counted
<1>2. \A p \in Plans : Cell(p, "model") \in BaseKeys /\ <<"lapses", p>> \in PlanLapses /\ <<"lapses", p>> \in BaseKeys
                       /\ <<"lapses", p>>[2] = p
  BY FreeCells, KeyKinds DEF BaseKeys
<1>3. \A j \in PlanLapses : j[2] \in Plans /\ j = <<"lapses", j[2]>> /\ j \in BaseKeys
  BY KeyKinds DEF BaseKeys
<1>4. \A j \in BaseKeys : Capped(c)[j] = IF j \in PlanLapses /\ c[Cell(j[2], "model")] < truth[j]
                                         THEN c[Cell(j[2], "model")] ELSE truth[j]
  BY DEF Capped
<1>5. \A j \in BaseKeys : Capped(c)[j] \in Nat
  <2> TAKE j \in BaseKeys
  <2>1. j \in PlanLapses => c[Cell(j[2], "model")] \in Nat
    BY <1>2, <1>3
  <2> QED BY <1>1, <1>4, <2>1
<1>6. ASSUME NEW j \in PlanLapses PROVE truth[j] - 1 <= Capped(c)[j] /\ Capped(c)[j] <= truth[j]
  <2> DEFINE m == Cell(j[2], "model")
  <2>1. j[2] \in Plans /\ j \in BaseKeys
    BY <1>3
  <2>2. c[m] \in Nat /\ truth[m] \in Nat /\ truth[j] \in Nat
    BY <1>1, <1>2, <2>1
  <2>3. truth[j] <= truth[m]
    <3>1. truth[<<"lapses", j[2]>>] <= truth[m]
      BY <1>1, <2>1
    <3> QED BY <1>3, <3>1
  <2>4. truth[m] <= c[m] + 1
    BY <2>1
  <2>5. Capped(c)[j] = IF c[m] < truth[j] THEN c[m] ELSE truth[j]
    BY <1>4, <2>1
  <2> HIDE DEF m
  <2> QED BY <2>2, <2>3, <2>4, <2>5
<1>7. ASSUME NEW p \in Plans PROVE Capped(c)[<<"lapses", p>>] <= c[Cell(p, "model")]
  <2> DEFINE j == <<"lapses", p>>
             m == Cell(p, "model")
  <2>1. Capped(c)[j] = IF c[m] < truth[j] THEN c[m] ELSE truth[j]
    BY <1>2, <1>4
  <2>2. c[m] \in Nat /\ truth[j] \in Nat
    BY <1>1, <1>2
  <2> HIDE DEF j, m
  <2>3. Capped(c)[j] <= c[m]
    BY <2>1, <2>2
  <2> QED BY <2>3 DEF j, m
<1>8. Capped(c) \in [BaseKeys -> Nat]
  BY <1>5 DEF Capped
<1> QED BY <1>4, <1>6, <1>7, <1>8

\* The tables that agree with the total and the current column, and the numerators that agree with nothing printed.
LEMMA EverythingNull ==
  ASSUME Shape, known = {}
  PROVE  /\ \A c \in [BaseKeys -> Nat] :
              /\ \A k \in BaseKeys \ Free : c[k] = truth[k]
              /\ \A k \in Free : truth[k] - 1 <= c[k] /\ c[k] <= truth[k] + 1
              /\ Val(c, Total) = Val(truth, Total) /\ Val(c, <<"route", "current">>) = Val(truth, <<"route", "current">>)
              => c \in Grids(HideableKeys, TRUE, Window)
         /\ \A l \in [BaseKeys -> Nat] :
              /\ \A k \in BaseKeys \ PlanLapses : l[k] = truth[k]
              /\ \A k \in PlanLapses : truth[k] - 1 <= l[k] /\ l[k] <= truth[k] + 1
              => l \in Rates(HideableKeys, Window)
<1> DEFINE H == HideableKeys
           sums == Forms \ (H \cup {LapsesTotal})
           cur == <<"route", "current">>
<1>1. Counted
  BY TablesAreCounted
<1>2. \A k \in Keys : k \in H <=> k # Total /\ k \notin Public
  BY DEF HideableKeys, Hideable
<1>3. /\ \A k \in Public : k \in Cells \/ k \in Heads
      /\ Total[1] = "total" /\ cur[1] = "route" /\ LapsesTotal[1] = "lapses_total"
      /\ \A k \in Cells : k[1] = "cell"
      /\ \A k \in PlanLapses : k[1] = "lapses"
      /\ \A k \in Column("current") : k[1] = "cell"
      /\ \A k \in Heads : k[1] \in {"plan", "route"}
  <2>1. \A k \in Column("current") : k \in Cells /\ k[1] = "cell"
    BY FreeCells, KeyKinds DEF Column
  <2>2. cur \in Heads
    BY FreeCells, KeyKinds
  <2> QED BY <2>1, <2>2, KeyKinds DEF Public
<1>4. (H \cap BaseKeys) \ Lapses = Free
  <2>1. \A k \in Cells : k \in H <=> k \in Free
    BY <1>2, <1>3 DEF Free, Public, Keys, BaseKeys
  <2>2. \A k \in Cells : k \notin Lapses
    BY <1>3 DEF Lapses
  <2> QED BY <2>1, <2>2 DEF BaseKeys, Lapses, Free
<1>5. H \cap PlanLapses = PlanLapses /\ {LapsesTotal} \ H = {}
  <2>1. \A k \in Lapses : k \in H
    BY <1>2, KeysAreClosed
  <2> QED BY <2>1 DEF Lapses
<1>6. sums \in SUBSET {Total, cur}
  <2>1. \A k \in Heads : k # cur => k \in H
    BY <1>2, <1>3, KeysAreClosed DEF Public
  <2> QED BY <2>1 DEF Forms
<1>7. Ones(H, TRUE) = {}
  BY DEF Ones
<1>8. Window \in Nat /\ Window >= 1
  BY TableAssumption
<1>9. Free \in SUBSET BaseKeys /\ PlanLapses \in SUBSET BaseKeys
  BY FreeCells DEF BaseKeys
<1>10. \A k \in BaseKeys : truth[k] \in Nat
  BY <1>1 DEF Counted
<1>11. Grids(H, TRUE, Window) = Agreeing(Free, Window, sums, {})
  BY <1>4, <1>7 DEF Grids
<1>12. Rates(H, Window) = Agreeing(PlanLapses, Window, {}, {})
  BY <1>5 DEF Rates
<1> HIDE DEF H, sums, cur
<1>13. ASSUME NEW c \in [BaseKeys -> Nat], \A k \in BaseKeys \ Free : c[k] = truth[k],
              \A k \in Free : truth[k] - 1 <= c[k] /\ c[k] <= truth[k] + 1,
              Val(c, Total) = Val(truth, Total), Val(c, cur) = Val(truth, cur)
       PROVE  c \in Grids(H, TRUE, Window)
  <2>1. \A k \in Free : truth[k] - Window <= c[k] /\ c[k] <= truth[k] + Window
    <3> TAKE k \in Free
    <3>1. truth[k] \in Nat /\ c[k] \in Nat /\ truth[k] - 1 <= c[k] /\ c[k] <= truth[k] + 1
      BY <1>9, <1>10, <1>13
    <3> QED BY <1>8, <3>1
  <2>2. \A k \in sums : Val(c, k) = Val(truth, k)
    BY <1>6, <1>13
  <2>3. c \in Agreeing(Free, Window, sums, {})
    BY <1>1, <1>8, <1>9, <1>13, <2>1, <2>2, AgreeingHolds
  <2> QED BY <1>11, <2>3
<1>14. ASSUME NEW l \in [BaseKeys -> Nat], \A k \in BaseKeys \ PlanLapses : l[k] = truth[k],
              \A k \in PlanLapses : truth[k] - 1 <= l[k] /\ l[k] <= truth[k] + 1
       PROVE  l \in Rates(H, Window)
  <2>1. \A k \in PlanLapses : truth[k] - Window <= l[k] /\ l[k] <= truth[k] + Window
    <3> TAKE k \in PlanLapses
    <3>1. truth[k] \in Nat /\ l[k] \in Nat /\ truth[k] - 1 <= l[k] /\ l[k] <= truth[k] + 1
      BY <1>9, <1>10, <1>14
    <3> QED BY <1>8, <3>1
  <2>2. l \in Agreeing(PlanLapses, Window, {}, {})
    BY <1>1, <1>8, <1>9, <1>14, <2>1, AgreeingHolds
  <2> QED BY <1>12, <2>2
<1> QED BY <1>13, <1>14 DEF H, cur

\* A renewal moved from a free cell to another: a table no reader can tell apart, with numerators to fit it.
LEMMA MovesAreOpen ==
  ASSUME Shape, known = {}, NEW a \in Free, NEW b \in Free, a # b, truth[a] > 0
  PROVE  /\ Moved(truth, a, b) \in [BaseKeys -> Nat]
         /\ Moved(truth, a, b) \in Grids(HideableKeys, TRUE, Window)
         /\ \A p \in Plans : truth[Cell(p, "model")] <= Moved(truth, a, b)[Cell(p, "model")] + 1
<1> DEFINE c == Moved(truth, a, b)
           cur == <<"route", "current">>
<1>1. truth \in [BaseKeys -> Nat] /\ a \in BaseKeys /\ b \in BaseKeys
  BY TablesAreCounted, FreeCells DEF Counted
<1>2. /\ c \in [BaseKeys -> Nat]
      /\ \A j \in BaseKeys : c[j] = IF j = a THEN truth[a] - 1 ELSE IF j = b THEN truth[b] + 1 ELSE truth[j]
      /\ \A k \in Keys : Val(c, k) = Val(truth, k) + (IF b \in Parts[k] THEN 1 ELSE 0) - (IF a \in Parts[k] THEN 1 ELSE 0)
  BY <1>1, MovedCounts
<1> HIDE DEF c
<1>3. \A k \in Keys : Val(truth, k) \in Nat
  BY <1>1, ValIsNatural
<1>4. Val(c, Total) = Val(truth, Total)
  <2>1. Total \in Keys /\ a \in Parts[Total] /\ b \in Parts[Total]
    BY FreeCells, PartsAre, KeysAreClosed
  <2> QED BY <1>2, <1>3, <2>1
<1>5. Val(c, cur) = Val(truth, cur)
  <2>1. cur \in Keys /\ a \notin Parts[cur] /\ b \notin Parts[cur]
    BY FreeCells, PartsAre, KeyKinds, KeysAreClosed DEF Free
  <2> HIDE DEF cur
  <2> QED BY <1>2, <1>3, <2>1
<1>6. \A k \in BaseKeys : truth[k] - 1 <= c[k] /\ c[k] <= truth[k] + 1
  <2> TAKE k \in BaseKeys
  <2>1. truth[k] \in Nat /\ truth[a] \in Nat /\ truth[b] \in Nat
    BY <1>1
  <2> QED BY <1>2, <2>1
<1>7. \A k \in BaseKeys \ Free : c[k] = truth[k]
  BY <1>2
<1>8. c \in Grids(HideableKeys, TRUE, Window)
  BY <1>2, <1>4, <1>5, <1>6, <1>7, EverythingNull, FreeCells
<1>9. \A p \in Plans : truth[Cell(p, "model")] <= c[Cell(p, "model")] + 1
  <2> TAKE p \in Plans
  <2>1. Cell(p, "model") \in BaseKeys
    BY FreeCells, KeyKinds DEF BaseKeys
  <2>2. truth[Cell(p, "model")] \in Nat /\ c[Cell(p, "model")] \in Nat
    BY <1>1, <1>2, <2>1
  <2> QED BY <1>6, <2>1, <2>2
<1> QED BY <1>2, <1>8, <1>9 DEF c

LEMMA TruthIsOpen ==
  ASSUME Shape, known = {}
  PROVE  truth \in Grids(HideableKeys, TRUE, Window)
<1>1. truth \in [BaseKeys -> Nat]
  BY TablesAreCounted DEF Counted
<1>2. \A k \in Free : truth[k] - 1 <= truth[k] /\ truth[k] <= truth[k] + 1
  <2> TAKE k \in Free
  <2>1. truth[k] \in Nat
    BY <1>1, FreeCells
  <2> QED BY <2>1
<1> QED BY <1>1, <1>2, EverythingNull

\* A fitting pair of tables in which a numerator that is 0 is 1.
LEMMA ZeroIsOpen ==
  ASSUME Shape, known = {}, Left # 0, NEW p \in Plans, truth[<<"lapses", p>>] = 0
  PROVE  \E c \in Grids(HideableKeys, TRUE, Window) :
           /\ c \in [BaseKeys -> Nat] /\ c[Cell(p, "model")] >= 1
           /\ \A q \in Plans : truth[Cell(q, "model")] <= c[Cell(q, "model")] + 1
<1> DEFINE b == Cell(p, "model")
<1>1. truth \in [BaseKeys -> Nat] /\ Counted
  BY TablesAreCounted DEF Counted
<1>2. b \in Free /\ b \in BaseKeys
  <2>1. "model" # "current"
    OBVIOUS
  <2> QED BY <2>1, FreeCells
<1>3. \A q \in Plans : truth[Cell(q, "model")] \in Nat
  BY <1>1, FreeCells, KeyKinds DEF BaseKeys
<1>4. CASE truth[b] >= 1
  <2>1. \A q \in Plans : truth[Cell(q, "model")] <= truth[Cell(q, "model")] + 1
    BY <1>3
  <2> QED BY <1>1, <1>4, <2>1, TruthIsOpen
<1>5. CASE ~(truth[b] >= 1)
  <2>1. truth[b] \in Nat /\ truth[b] = 0
    BY <1>1, <1>2, <1>5
  <2>2. PICK a \in Free : truth[a] > 0
    BY <1>1, SomethingStandsFree
  <2>3. a # b
    BY <2>1, <2>2
  <2> DEFINE c == Moved(truth, a, b)
  <2>4. /\ c \in [BaseKeys -> Nat] /\ c \in Grids(HideableKeys, TRUE, Window)
        /\ \A q \in Plans : truth[Cell(q, "model")] <= c[Cell(q, "model")] + 1
    <3> HIDE DEF b
    <3> QED BY <1>2, <2>2, <2>3, MovesAreOpen
  <2>5. c[b] = truth[b] + 1
    <3>1. \A j \in BaseKeys : c[j] = IF j = a THEN truth[a] - 1 ELSE IF j = b THEN truth[b] + 1 ELSE truth[j]
      <4> HIDE DEF b
      <4>1. a \in BaseKeys
        BY FreeCells
      <4> QED BY <1>1, <1>2, <2>2, <2>3, <4>1, MovedCounts
    <3> QED BY <1>2, <2>3, <3>1
  <2> HIDE DEF c
  <2>6. c[b] >= 1
    BY <2>1, <2>5
  <2> QED BY <2>4, <2>6
<1> QED BY <1>4, <1>5

\* With something left to split and everything null that may be, every null has two possible values.
LEMMA EverythingIsOpen ==
  ASSUME Shape, known = {}, Left # 0
  PROVE  Pinned(HideableKeys, TRUE, Window) = {}
<1> DEFINE grids == Grids(HideableKeys, TRUE, Window)
           rates == Rates(HideableKeys, Window)
<1>1. truth \in [BaseKeys -> Nat] /\ Counted /\ \A p \in Plans : truth[<<"lapses", p>>] <= truth[Cell(p, "model")]
  BY TablesAreCounted DEF Counted
<1>2. \A k \in Keys : Val(truth, k) \in Nat
  BY <1>1, ValIsNatural
<1>3. truth \in grids
  BY TruthIsOpen
<1>4. \A l \in [BaseKeys -> Nat] : /\ \A k \in BaseKeys \ PlanLapses : l[k] = truth[k]
                                   /\ \A k \in PlanLapses : truth[k] - 1 <= l[k] /\ l[k] <= truth[k] + 1
                                   => l \in rates
  BY EverythingNull
<1>5. \A p \in Plans : <<"lapses", p>> \in PlanLapses /\ <<"lapses", p>> \in BaseKeys /\ Cell(p, "model") \in BaseKeys
  BY FreeCells, KeyKinds DEF BaseKeys
<1>6. \A j \in PlanLapses : j[2] \in Plans /\ j = <<"lapses", j[2]>> /\ j \in BaseKeys
  BY KeyKinds DEF BaseKeys
<1>7. PlanLapses \in SUBSET BaseKeys /\ LapsesTotal \in Keys /\ Parts[LapsesTotal] = PlanLapses
      /\ \A j \in PlanLapses : Parts[j] = {j} /\ j \in Keys
  BY PartsAre DEF BaseKeys, Keys, Forms
<1> HIDE DEF grids, rates
<1>8. ASSUME NEW k \in HideableKeys \ Lapses PROVE ~Fixed(k, grids, rates)
  <2>1. PICK a0 \in Free : truth[a0] > 0
    BY <1>1, SomethingStandsFree
  <2>2. PICK b \in Free : (b \in Parts[k]) # (a0 \in Parts[k])
    BY EveryEntrySplits
  <2> DEFINE c == Moved(truth, a0, b)
  <2>3. a0 # b /\ k \in Keys
    BY <2>2 DEF HideableKeys
  <2>4. /\ c \in [BaseKeys -> Nat] /\ c \in grids
        /\ \A p \in Plans : truth[Cell(p, "model")] <= c[Cell(p, "model")] + 1
    BY <2>1, <2>3, MovesAreOpen DEF grids
  <2>5. Val(c, k) = Val(truth, k) + (IF b \in Parts[k] THEN 1 ELSE 0) - (IF a0 \in Parts[k] THEN 1 ELSE 0)
    <3>1. a0 \in BaseKeys /\ b \in BaseKeys
      BY FreeCells
    <3>2. \A i \in Keys : Val(Moved(truth, a0, b), i) = Val(truth, i) + (IF b \in Parts[i] THEN 1 ELSE 0)
                                                                    - (IF a0 \in Parts[i] THEN 1 ELSE 0)
      BY <1>1, <2>1, <2>3, <3>1, MovedCounts
    <3> QED BY <2>3, <3>2
  <2> HIDE DEF c
  <2>6. Val(c, k) # Val(truth, k)
    BY <1>2, <2>2, <2>3, <2>5
  <2>7. /\ Capped(c) \in [BaseKeys -> Nat]
        /\ \A j \in BaseKeys \ PlanLapses : Capped(c)[j] = truth[j]
        /\ \A j \in PlanLapses : truth[j] - 1 <= Capped(c)[j] /\ Capped(c)[j] <= truth[j]
        /\ \A p \in Plans : Capped(c)[<<"lapses", p>>] <= c[Cell(p, "model")]
    BY <2>4, CappedIsNear
  <2>8. Capped(c) \in rates
    <3>1. \A j \in PlanLapses : truth[j] - 1 <= Capped(c)[j] /\ Capped(c)[j] <= truth[j] + 1
      <4> TAKE j \in PlanLapses
      <4>1. truth[j] \in Nat /\ Capped(c)[j] \in Nat
        BY <1>1, <1>7, <2>7
      <4> QED BY <2>7, <4>1
    <3> QED BY <1>4, <2>7, <3>1
  <2>9. Fits(c, Capped(c))
    BY <2>4, <2>7, FitsByPlan
  <2> QED BY <2>4, <2>6, <2>8, <2>9 DEF Fixed
<1>9. ASSUME NEW j \in PlanLapses, truth[j] > 0
      PROVE  ~Fixed(j, grids, rates) /\ ~Fixed(LapsesTotal, grids, rates)
  <2> DEFINE l == Less(truth, j)
  <2>1. /\ l \in [BaseKeys -> Nat]
        /\ \A k \in BaseKeys : l[k] = IF k = j THEN truth[j] - 1 ELSE truth[k]
    BY <1>1, <1>6, <1>9 DEF Less
  <2>2. Val(l, j) = Val(truth, j) - 1 /\ Val(l, LapsesTotal) = Val(truth, LapsesTotal) - 1
    <3>1. \A k \in Keys : Val(l, k) = Val(truth, k) - (IF j \in Parts[k] THEN 1 ELSE 0)
      BY <1>1, <1>6, <1>9, OneLess
    <3> HIDE DEF l
    <3>2. j \in Parts[j] /\ j \in Parts[LapsesTotal] /\ j \in Keys /\ LapsesTotal \in Keys
      BY <1>7
    <3> QED BY <3>1, <3>2
  <2> HIDE DEF l
  <2>3. Val(l, j) # Val(truth, j) /\ Val(l, LapsesTotal) # Val(truth, LapsesTotal)
    BY <1>2, <1>7, <2>2
  <2>4. l \in rates
    <3>1. \A k \in PlanLapses : truth[k] - 1 <= l[k] /\ l[k] <= truth[k] + 1
      <4> TAKE k \in PlanLapses
      <4>1. truth[k] \in Nat /\ l[k] = IF k = j THEN truth[k] - 1 ELSE truth[k]
        BY <1>1, <1>7, <2>1
      <4> QED BY <4>1
    <3>2. \A k \in BaseKeys \ PlanLapses : l[k] = truth[k]
      BY <2>1
    <3> QED BY <1>4, <2>1, <3>1, <3>2
  <2>5. \A p \in Plans : l[<<"lapses", p>>] <= truth[Cell(p, "model")]
    <3> TAKE p \in Plans
    <3> DEFINE q == <<"lapses", p>>
               m == Cell(p, "model")
    <3>1. truth[q] \in Nat /\ truth[m] \in Nat /\ truth[q] <= truth[m]
      BY <1>1, <1>5
    <3>2. l[q] = truth[q] \/ l[q] = truth[q] - 1
      BY <1>5, <2>1
    <3> HIDE DEF q, m
    <3>3. l[q] <= truth[m]
      BY <3>1, <3>2
    <3> QED BY <3>3 DEF q, m
  <2>6. Fits(truth, l)
    BY <1>1, <2>1, <2>5, FitsByPlan
  <2>7. j \in Lapses /\ LapsesTotal \in Lapses
    BY DEF Lapses
  <2> QED BY <1>3, <2>3, <2>4, <2>6, <2>7 DEF Fixed
<1>10. ASSUME NEW j \in PlanLapses, ~(truth[j] > 0)
       PROVE  /\ ~Fixed(j, grids, rates)
              /\ (\A i \in PlanLapses : ~(truth[i] > 0)) => ~Fixed(LapsesTotal, grids, rates)
  <2> DEFINE p == j[2]
  <2>1. p \in Plans /\ j = <<"lapses", p>> /\ truth[j] \in Nat /\ truth[j] = 0
    BY <1>1, <1>6, <1>10
  <2>2. PICK c \in grids : /\ c \in [BaseKeys -> Nat] /\ c[Cell(p, "model")] >= 1
                           /\ \A q \in Plans : truth[Cell(q, "model")] <= c[Cell(q, "model")] + 1
    BY <2>1, ZeroIsOpen DEF grids
  <2> DEFINE r == Capped(c)
             l == More(r, j)
  <2>3. /\ r \in [BaseKeys -> Nat]
        /\ \A i \in BaseKeys \ PlanLapses : r[i] = truth[i]
        /\ \A i \in PlanLapses : truth[i] - 1 <= r[i] /\ r[i] <= truth[i]
        /\ \A q \in Plans : r[<<"lapses", q>>] <= c[Cell(q, "model")]
    BY <2>2, CappedIsNear
  <2> HIDE DEF r, p
  <2>4. r[j] = 0
    <3>1. r[j] \in Nat /\ r[j] <= truth[j]
      BY <1>7, <2>3
    <3> QED BY <2>1, <3>1
  <2>5. /\ l \in [BaseKeys -> Nat]
        /\ \A k \in BaseKeys : l[k] = IF k = j THEN 1 ELSE r[k]
    BY <1>6, <2>3, <2>4 DEF More
  <2>6. l \in rates
    <3>1. \A k \in PlanLapses : truth[k] - 1 <= l[k] /\ l[k] <= truth[k] + 1
      <4> TAKE k \in PlanLapses
      <4>1. truth[k] \in Nat /\ r[k] \in Nat /\ truth[k] - 1 <= r[k] /\ r[k] <= truth[k] /\ l[k] = IF k = j THEN 1 ELSE r[k]
        BY <1>1, <1>7, <2>3, <2>5
      <4> HIDE DEF l
      <4>2. CASE k = j
        BY <2>1, <4>1, <4>2
      <4>3. CASE k # j
        BY <4>1, <4>3
      <4> QED BY <4>2, <4>3
    <3>2. \A k \in BaseKeys \ PlanLapses : l[k] = truth[k]
      BY <2>3, <2>5
    <3> HIDE DEF l
    <3> QED BY <1>4, <2>5, <3>1, <3>2
  <2>7. \A q \in Plans : l[<<"lapses", q>>] <= c[Cell(q, "model")]
    <3> TAKE q \in Plans
    <3>1. l[<<"lapses", q>>] = IF <<"lapses", q>> = j THEN 1 ELSE r[<<"lapses", q>>]
      BY <1>5, <2>5
    <3> HIDE DEF l
    <3>2. CASE <<"lapses", q>> = j
      <4>1. q = p
        BY <2>1, <3>2
      <4>2. c[Cell(q, "model")] >= 1 /\ c[Cell(q, "model")] \in Nat
        BY <1>5, <2>2, <4>1
      <4> QED BY <3>1, <3>2, <4>2
    <3>3. CASE <<"lapses", q>> # j
      BY <2>3, <3>1, <3>3
    <3> QED BY <3>2, <3>3
  <2>8. Fits(c, l)
    <3> HIDE DEF l
    <3> QED BY <2>2, <2>5, <2>7, FitsByPlan
  <2>9. j \in Lapses /\ LapsesTotal \in Lapses /\ j \in BaseKeys
    BY <1>6 DEF Lapses
  <2>10. Val(l, j) # Val(truth, j)
    <3>1. Val(l, j) = l[j] /\ Val(truth, j) = truth[j] /\ l[j] = 1
      <4> HIDE DEF l
      <4> QED BY <1>1, <2>5, <2>9, ValOfBase
    <3> QED BY <2>1, <3>1
  <2>11. ASSUME \A i \in PlanLapses : ~(truth[i] > 0) PROVE Val(l, LapsesTotal) # Val(truth, LapsesTotal)
    <3>1. \A i \in BaseKeys : r[i] = truth[i]
      <4> TAKE i \in BaseKeys
      <4>1. CASE i \in PlanLapses
        <5>1. r[i] \in Nat /\ truth[i] \in Nat /\ r[i] <= truth[i] /\ ~(truth[i] > 0)
          BY <1>1, <2>3, <2>11, <4>1
        <5> QED BY <5>1
      <4>2. CASE i \notin PlanLapses
        BY <2>3, <4>2
      <4> QED BY <4>1, <4>2
    <3>2. r = [i \in BaseKeys |-> r[i]] /\ truth = [i \in BaseKeys |-> truth[i]]
      BY <1>1, <2>3
    <3>3. [i \in BaseKeys |-> r[i]] = [i \in BaseKeys |-> truth[i]]
      BY <3>1
    <3>4. r = truth
      BY <3>2, <3>3
    <3>5. Val(l, LapsesTotal) = Val(r, LapsesTotal) + (IF j \in Parts[LapsesTotal] THEN 1 ELSE 0)
      BY <1>7, <2>3, <2>9, OneMore
    <3> HIDE DEF l
    <3> QED BY <1>2, <1>7, <3>4, <3>5
  <2> HIDE DEF l
  <2> QED BY <2>2, <2>6, <2>8, <2>9, <2>10, <2>11 DEF Fixed
<1>11. ~Fixed(LapsesTotal, grids, rates)
  <2>1. CASE \E j \in PlanLapses : truth[j] > 0
    BY <1>9, <2>1
  <2>2. CASE \A j \in PlanLapses : ~(truth[j] > 0)
    <3>1. PICK j \in PlanLapses : TRUE
      <4>1. PICK p \in Plans : TRUE
        <5>1. PICK a \in Free : truth[a] > 0
          BY <1>1, SomethingStandsFree
        <5> QED BY <5>1, FreeCells
      <4> QED BY <1>5, <4>1
    <3> QED BY <1>10, <2>2, <3>1
  <2> QED BY <2>1, <2>2
<1>12. \A k \in HideableKeys : ~Fixed(k, grids, rates)
  BY <1>8, <1>9, <1>10, <1>11 DEF Lapses
<1> QED BY <1>12 DEF Pinned, grids, rates

-----------------------------------------------------------------------------
(* The steps keep the invariant. *)

LEMMA StartsSo == Init => IInv
<1> SUFFICES ASSUME Init PROVE IInv
  OBVIOUS
<1> USE DEF Init
<1>1. Shape /\ Fresh /\ Divided /\ Asked
  BY DEF Shape, Fresh, Divided, Asked
<1>2. ZerosAreCovered /\ SmallIsNull /\ NumeratorsFollow /\ AllOrNothing /\ Settled /\ NeverRaises
  BY DEF ZerosAreCovered, Covered, SmallIsNull, NumeratorsFollow, Numerators, AllOrNothing, Settled, NeverRaises
<1> QED BY <1>1, <1>2 DEF IInv

LEMMA KnownKeeps ==
  ASSUME IInv, Known
  PROVE  IInv'
<1> USE DEF Known
<1>1. known = {} /\ hidden = {} /\ withheld = FALSE /\ pins = {} /\ truth' = truth /\ hidden' = {} /\ pins' = {}
      /\ withheld' = FALSE /\ pc' = "primary"
  BY DEF IInv, Fresh
<1>2. known' \in SUBSET Keys /\ known' = IF Left = 0 THEN HideableKeys ELSE {}
  BY DEF HideableKeys
<1>3. Shape'
  BY <1>1, <1>2 DEF IInv, Shape
<1>4. Divided'
  <2>1. Left' = Left
    BY <1>1, SameTable
  <2>2. CASE Left # 0
    BY <1>2, <2>1, <2>2 DEF Divided
  <2>3. CASE Left = 0
    <3>1. known' = HideableKeys
      BY <1>2, <2>3
    <3>2. HideableKeys' = {}
      BY <1>1, <3>1 DEF HideableKeys, Hideable
    <3> QED BY <3>2 DEF Divided
  <2> QED BY <2>2, <2>3
<1>5. (Fresh /\ Asked /\ ZerosAreCovered /\ SmallIsNull /\ AllOrNothing /\ Settled /\ NeverRaises)'
  BY <1>1 DEF Fresh, Asked, ZerosAreCovered, Covered, SmallIsNull, AllOrNothing, Settled, NeverRaises
<1>6. NumeratorsFollow'
  BY <1>1 DEF NumeratorsFollow, Numerators
<1> QED BY <1>3, <1>4, <1>5, <1>6 DEF IInv

\* What a step of the rounds has to show, which leaves the table alone.
LEMMA RoundKeeps ==
  ASSUME IInv, UNCHANGED <<truth, known>>, pc \notin {"start"}, pc' \in {"ask", "act", "done"},
         hidden' \in SUBSET HideableKeys, withheld' \in BOOLEAN, pins' \in SUBSET Keys,
         pc' \in {"act", "done"} => pins' = Pinned(hidden', withheld', Window),
         ~withheld' => Covered(hidden') /\ \A k \in HideableKeys \ Lapses : Small(k) => k \in hidden',
         Numerators(hidden') \subseteq hidden',
         withheld' => hidden' = HideableKeys,
         pc' = "done" /\ ~withheld' => pins' = {}
  PROVE  IInv'
<1>1. truth' = truth /\ known' = known
  OBVIOUS
<1>2. /\ \A k : Small(k)' <=> Small(k)
      /\ Covered(hidden)' <=> Covered(hidden')
      /\ Pinned(hidden, withheld, Window)' = Pinned(hidden', withheld', Window)
      /\ Left' = Left
  <2>1. Covered(hidden)' <=> Covered(hidden')
    BY <1>1, Zenon DEF Covered
  <2>2. Pinned(hidden, withheld, Window)' = Pinned(hidden', withheld', Window)
    <3>1. \A H, w, d : Pinned(H, w, d)' = Pinned(H, w, d)
      BY <1>1, SameTable
    <3>2. \A k, d : Nearby(k, d)' = Nearby(k, d)
      BY <1>1, Zenon DEF Nearby
    <3>3. \A U, d : Near(U, d)' = Near(U, d)
      BY <3>2, Zenon DEF Near
    <3>4. \A u, U : Filled(u, U)' = Filled(u, U)
      BY <1>1, Zenon DEF Filled
    <3>5. \A U, d, s, o : Agreeing(U, d, s, o)' = Agreeing(U, d, s, o)
      BY <1>1, <3>3, <3>4, Zenon DEF Agreeing
    <3>6. Grids(hidden, withheld, Window)' = Grids(hidden', withheld', Window)
      BY <3>5, Zenon DEF Grids
    <3>7. Rates(hidden, Window)' = Rates(hidden', Window)
      BY <3>5, Zenon DEF Rates
    <3>8. \A k, g, r : Fixed(k, g, r)' <=> Fixed(k, g, r)
      BY <1>1, Zenon DEF Fixed
    <3> QED BY <3>6, <3>7, <3>8, Zenon DEF Pinned
  <2> QED BY <1>1, <2>1, <2>2, SameTable
<1>3. HideableKeys' = HideableKeys /\ Numerators(hidden)' = Numerators(hidden')
  <2>1. \A k : Hideable(k)' <=> Hideable(k)
    BY <1>1 DEF Hideable
  <2>2. Numerators(hidden)' = Numerators(hidden')
    BY <2>1, Zenon DEF Numerators
  <2> QED BY <1>1, <2>2, SameKeys
<1>4. Shape'
  BY <1>1, <1>3 DEF IInv, Shape
<1>5. Fresh' /\ Divided'
  BY <1>1, <1>2, <1>3 DEF IInv, Fresh, Divided
<1>6. Asked' /\ ZerosAreCovered'
  BY <1>2 DEF Asked, ZerosAreCovered
<1>7. SmallIsNull'
  BY <1>2, <1>3 DEF SmallIsNull
<1>8. NumeratorsFollow' /\ AllOrNothing' /\ Settled' /\ NeverRaises'
  BY <1>3 DEF NumeratorsFollow, AllOrNothing, Settled, NeverRaises
<1> QED BY <1>4, <1>5, <1>6, <1>7, <1>8 DEF IInv

LEMMA IInvCounts ==
  ASSUME IInv
  PROVE  Counted /\ hidden \in SUBSET HideableKeys /\ pins \in SUBSET Keys /\ withheld \in BOOLEAN
BY TablesAreCounted DEF IInv, Shape

LEMMA PrimaryKeeps ==
  ASSUME IInv, Primary
  PROVE  IInv'
<1> DEFINE first == {k \in Keys : Hideable(k) /\ (withheld' \/ (Small(k) /\ k \notin Lapses))}
<1>1. /\ UNCHANGED <<truth, known, pins>> /\ pc' = "ask" /\ pc # "start"
      /\ withheld' \in BOOLEAN /\ hidden' = Close(first)
  BY DEF Primary
<1>2. first \in SUBSET HideableKeys
  BY DEF HideableKeys
<1>3. withheld' => first = HideableKeys
  BY DEF HideableKeys
<1>4. ~withheld' => Covered(first) /\ \A k \in HideableKeys \ Lapses : Small(k) => k \in first
  BY DEF Covered, Small, HideableKeys
<1> HIDE DEF first
<1>5. /\ hidden' \in SUBSET HideableKeys /\ first \subseteq hidden' /\ Numerators(hidden') \subseteq hidden'
      /\ Covered(first) => Covered(hidden')
  BY <1>1, <1>2, CloseCloses, IInvCounts
<1>6. ~withheld' => Covered(hidden') /\ \A k \in HideableKeys \ Lapses : Small(k) => k \in hidden'
  BY <1>4, <1>5
<1>7. withheld' => hidden' = HideableKeys
  BY <1>3, <1>5
<1>8. pins' \in SUBSET Keys
  BY <1>1, IInvCounts
<1> QED BY <1>1, <1>5, <1>6, <1>7, <1>8, RoundKeeps

\* What the invariant says of the rounds.
LEMMA InRound ==
  ASSUME IInv, pc \in {"ask", "act"}
  PROVE  /\ ~withheld => Covered(hidden) /\ \A k \in HideableKeys \ Lapses : Small(k) => k \in hidden
         /\ Numerators(hidden) \subseteq hidden
         /\ withheld => hidden = HideableKeys
         /\ pc = "act" => pins = Pinned(hidden, withheld, Window) /\ pins \subseteq hidden
         /\ HideableKeys = {} \/ (known = {} /\ Left # 0)
<1>1. pc = "act" => pins = Pinned(hidden, withheld, Window)
  BY DEF IInv, Asked
<1>2. pc = "act" => pins \subseteq hidden
  BY <1>1, PinsAreNulls
<1> QED BY <1>1, <1>2 DEF IInv, ZerosAreCovered, SmallIsNull, NumeratorsFollow, AllOrNothing, Divided

LEMMA AskKeeps ==
  ASSUME IInv, Ask
  PROVE  IInv'
<1>1. /\ UNCHANGED <<truth, known, hidden, withheld>> /\ pc = "ask" /\ pc' = "act"
      /\ pins' = Pinned(hidden, withheld, Window)
  BY DEF Ask
<1>2. pins' \in SUBSET Keys
  BY <1>1, PinsAreNulls, IInvCounts DEF HideableKeys
<1>3. pins' = Pinned(hidden', withheld', Window)
  BY <1>1, Zenon
<1>4. /\ ~withheld' => Covered(hidden') /\ \A k \in HideableKeys \ Lapses : Small(k) => k \in hidden'
      /\ Numerators(hidden') \subseteq hidden'
      /\ withheld' => hidden' = HideableKeys
  <2>1. hidden' = hidden /\ withheld' = withheld
    BY <1>1
  <2> QED BY <1>1, <2>1, InRound
<1>5. hidden' \in SUBSET HideableKeys /\ withheld' \in BOOLEAN /\ pc # "start" /\ pc' # "done"
  BY <1>1, IInvCounts
<1> QED BY <1>1, <1>2, <1>3, <1>4, <1>5, RoundKeeps

LEMMA BadArePins == Bad \subseteq pins
BY DEF Bad, First

LEMMA ComplementKeeps ==
  ASSUME IInv, Complement
  PROVE  IInv'
<1> DEFINE more == Complements(Bad, hidden)
           wider == hidden \cup more
<1>1. /\ UNCHANGED <<truth, known, withheld, pins>> /\ pc = "act" /\ pc' = "ask" /\ hidden' = Close(wider)
  BY DEF Complement
<1>2. Counted /\ hidden \in SUBSET HideableKeys /\ pins \in SUBSET Keys /\ withheld \in BOOLEAN
  BY IInvCounts
<1>3. more \in SUBSET Positive
  <2>1. Bad \in SUBSET Keys /\ hidden \in SUBSET Keys
    BY <1>2, BadArePins DEF HideableKeys
  <2> QED BY <1>2, <2>1, ComplementsArePositive
<1> HIDE DEF more
<1>4. wider \in SUBSET HideableKeys
  BY <1>2, <1>3 DEF Positive
<1>5. Covered(hidden) => Covered(wider)
  <2> SUFFICES ASSUME Covered(hidden), NEW c \in wider \ Lapses, Val(truth, c) = 0
               PROVE  \E h \in Heads \cap wider : c \in Line[h]
    BY DEF Covered
  <2>1. c \in hidden
    BY <1>3 DEF Positive
  <2> QED BY <2>1 DEF Covered
<1> HIDE DEF wider
<1>6. hidden \subseteq wider
  BY DEF wider
<1>7. /\ hidden' \in SUBSET HideableKeys /\ wider \subseteq hidden' /\ Numerators(hidden') \subseteq hidden'
      /\ Covered(wider) => Covered(hidden')
  BY <1>1, <1>2, <1>4, CloseCloses
<1>8. /\ ~withheld' => Covered(hidden') /\ \A k \in HideableKeys \ Lapses : Small(k) => k \in hidden'
      /\ withheld' => hidden' = HideableKeys
  BY <1>1, <1>5, <1>6, <1>7, InRound
<1>9. withheld' \in BOOLEAN /\ pins' \in SUBSET Keys
  BY <1>1, <1>2
<1> QED BY <1>1, <1>7, <1>8, <1>9, RoundKeeps

\* A withheld breakdown has no pins to complement.
LEMMA WithheldIsOpen ==
  ASSUME IInv, pc = "act", withheld
  PROVE  pins = {}
<1>1. pins = Pinned(hidden, TRUE, Window) /\ pins \subseteq hidden /\ hidden = HideableKeys
  <2>1. withheld = TRUE
    BY IInvCounts
  <2> QED BY <2>1, InRound
<1>2. CASE HideableKeys = {}
  BY <1>1, <1>2
<1>3. CASE known = {} /\ Left # 0
  BY <1>1, <1>3, EverythingIsOpen DEF IInv
<1> QED BY <1>2, <1>3, InRound

LEMMA WithholdKeeps ==
  ASSUME IInv, Withhold
  PROVE  IInv'
<1> DEFINE all == hidden \cup {k \in Keys : Hideable(k)}
<1>1. pc = "act" /\ UNCHANGED <<truth, known, pins>> /\ Bad # {}
  BY DEF Withhold
<1>2. ~withheld
  <2> SUFFICES ASSUME withheld PROVE FALSE
    OBVIOUS
  <2>1. pins = {}
    BY <1>1, WithheldIsOpen
  <2> QED BY <1>1, <2>1, BadArePins
<1>3. withheld' = TRUE /\ pc' = "ask" /\ hidden' = Close(all)
  BY <1>2 DEF Withhold
<1>4. all = HideableKeys
  BY IInvCounts DEF HideableKeys
<1>5. HideableKeys \in SUBSET HideableKeys
  OBVIOUS
<1> HIDE DEF all
<1>6. hidden' \in SUBSET HideableKeys /\ HideableKeys \subseteq hidden' /\ Numerators(hidden') \subseteq hidden'
  BY <1>3, <1>4, <1>5, CloseCloses, IInvCounts
<1>7. hidden' = HideableKeys /\ pins' \in SUBSET Keys
  BY <1>1, <1>6, IInvCounts
<1> QED BY <1>1, <1>3, <1>6, <1>7, RoundKeeps

LEMMA PrintPinsKeeps ==
  ASSUME IInv, PrintPins
  PROVE  IInv'
<1> DEFINE gone == Printable \cup IF Back # {} /\ BackIsSafe THEN Back ELSE {}
<1>1. /\ pc = "act" /\ UNCHANGED <<truth, known, withheld, pins>> /\ Bad = {} /\ Printable # {} /\ pc' = "ask"
      /\ hidden' = hidden \ gone
  BY DEF PrintPins
<1>2. ~withheld
  BY <1>1 DEF Printable
<1>3. Printable \subseteq gone /\ gone \subseteq Printable \cup Back
  OBVIOUS
<1> HIDE DEF gone
<1>4. /\ Counted /\ hidden \in SUBSET HideableKeys /\ pins \subseteq hidden /\ Covered(hidden)
      /\ Numerators(hidden) \subseteq hidden /\ pins \in SUBSET Keys /\ withheld \in BOOLEAN
      /\ \A k \in HideableKeys \ Lapses : Small(k) => k \in hidden
  BY <1>1, <1>2, InRound, IInvCounts
<1>5. /\ \A k \in gone \ Lapses : ~Small(k)
      /\ Covered(hidden \ gone)
      /\ Numerators(hidden \ gone) \subseteq hidden \ gone
  BY <1>1, <1>2, <1>3, <1>4, PrintingIsHarmless
<1>6. /\ ~withheld' => Covered(hidden') /\ \A k \in HideableKeys \ Lapses : Small(k) => k \in hidden'
      /\ Numerators(hidden') \subseteq hidden'
  BY <1>1, <1>4, <1>5
<1>7. ~withheld' /\ hidden' \in SUBSET HideableKeys /\ withheld' \in BOOLEAN /\ pins' \in SUBSET Keys
  BY <1>1, <1>2, <1>4
<1> QED BY <1>1, <1>6, <1>7, RoundKeeps

LEMMA FinishKeeps ==
  ASSUME IInv, Finish
  PROVE  IInv'
<1>1. pc = "act" /\ pc' = "done" /\ Bad = {} /\ Printable = {} /\ UNCHANGED <<truth, known, hidden, withheld, pins>>
  BY DEF Finish
<1>2. hidden' = hidden /\ withheld' = withheld /\ pins' = pins
  BY <1>1
<1>3. pins = Pinned(hidden, withheld, Window) /\ pins \subseteq hidden
  BY <1>1, InRound
<1>4. pins' = Pinned(hidden', withheld', Window)
  BY <1>2, <1>3, Zenon
<1>5. ~withheld' => pins' = {}
  BY <1>1, <1>2, <1>3, NothingLeftIsOpen
<1>6. /\ ~withheld' => Covered(hidden') /\ \A k \in HideableKeys \ Lapses : Small(k) => k \in hidden'
      /\ Numerators(hidden') \subseteq hidden'
      /\ withheld' => hidden' = HideableKeys
  BY <1>1, <1>2, InRound
<1>7. hidden' \in SUBSET HideableKeys /\ withheld' \in BOOLEAN /\ pins' \in SUBSET Keys
  BY <1>2, IInvCounts
<1> QED BY <1>1, <1>4, <1>5, <1>6, <1>7, RoundKeeps

LEMMA StutterKeeps ==
  ASSUME IInv, UNCHANGED vars
  PROVE  IInv'
<1>1. /\ truth' = truth /\ known' = known /\ hidden' = hidden /\ withheld' = withheld /\ pins' = pins /\ pc' = pc
  BY DEF vars
<1>2. /\ \A k : Small(k)' <=> Small(k)
      /\ \A H : Covered(H)' <=> Covered(H)
      /\ \A H, w, d : Pinned(H, w, d)' = Pinned(H, w, d)
      /\ Left' = Left
  BY <1>1, SameTable
<1>3. HideableKeys' = HideableKeys /\ \A H : Numerators(H)' = Numerators(H)
  BY <1>1, SameKeys
<1>4. Pinned(hidden, withheld, Window)' = Pinned(hidden, withheld, Window)
  <2>1. \A k, d : Nearby(k, d)' = Nearby(k, d)
    BY <1>1, Zenon DEF Nearby
  <2>2. \A U, d : Near(U, d)' = Near(U, d)
    BY <2>1, Zenon DEF Near
  <2>3. \A u, U : Filled(u, U)' = Filled(u, U)
    BY <1>1, Zenon DEF Filled
  <2>4. \A U, d, s, o : Agreeing(U, d, s, o)' = Agreeing(U, d, s, o)
    BY <1>1, <2>2, <2>3, Zenon DEF Agreeing
  <2>5. Grids(hidden, withheld, Window)' = Grids(hidden, withheld, Window)
    BY <1>1, <2>4, Zenon DEF Grids
  <2>6. Rates(hidden, Window)' = Rates(hidden, Window)
    BY <1>1, <2>4, Zenon DEF Rates
  <2>7. \A k, g, r : Fixed(k, g, r)' <=> Fixed(k, g, r)
    BY <1>1, Zenon DEF Fixed
  <2> QED BY <1>1, <2>5, <2>6, <2>7, Zenon DEF Pinned
<1>5. Covered(hidden)' <=> Covered(hidden)
  BY <1>1, Zenon DEF Covered
<1>6. Numerators(hidden)' = Numerators(hidden)
  <2>1. \A k : Hideable(k)' <=> Hideable(k)
    BY <1>1 DEF Hideable
  <2> QED BY <1>1, <2>1, Zenon DEF Numerators
<1>7. Shape' /\ Fresh' /\ Divided'
  BY <1>1, <1>2, <1>3 DEF IInv, Shape, Fresh, Divided
<1>8. Asked' /\ ZerosAreCovered'
  BY <1>1, <1>4, <1>5 DEF IInv, Asked, ZerosAreCovered
<1>9. SmallIsNull' /\ NumeratorsFollow' /\ AllOrNothing' /\ Settled' /\ NeverRaises'
  BY <1>1, <1>2, <1>3, <1>6 DEF IInv, SmallIsNull, NumeratorsFollow, AllOrNothing, Settled, NeverRaises
<1> QED BY <1>7, <1>8, <1>9 DEF IInv
-----------------------------------------------------------------------------
(* The theorems. *)

LEMMA StepKeeps ==
  ASSUME IInv, [Next]_vars
  PROVE  IInv'
<1>1. CASE Known
  BY <1>1, KnownKeeps
<1>2. CASE Primary
  BY <1>2, PrimaryKeeps
<1>3. CASE Ask
  BY <1>3, AskKeeps
<1>4. CASE Complement
  BY <1>4, ComplementKeeps
<1>5. CASE Withhold
  BY <1>5, WithholdKeeps
<1>6. CASE PrintPins
  BY <1>6, PrintPinsKeeps
<1>7. CASE Finish
  BY <1>7, FinishKeeps
<1>8. CASE UNCHANGED vars
  BY <1>8, StutterKeeps
<1> QED BY <1>1, <1>2, <1>3, <1>4, <1>5, <1>6, <1>7, <1>8 DEF Next

\* In every round of protect(), on every table: what must be null is, what is null may be, a null 0 has a null head
\* over it, a numerator goes with its model count, and what was asked is the answer for the nulls of now.
THEOREM RoundsKeepTheRule == Spec => []IInv
<1>1. Init => IInv
  BY StartsSo
<1>2. IInv /\ [Next]_vars => IInv'
  BY StepKeeps
<1> QED BY <1>1, <1>2, PTL DEF Spec

\* Only entries of the table that may be null are: never the total, the current column, or what they give away.
THEOREM OnlyHideableIsNull == Spec => []TypeOK
<1>1. IInv => TypeOK
  BY DEF IInv, Shape, HideableKeys, TypeOK
<1> QED BY <1>1, RoundsKeepTheRule, PTL

\* protect() never reaches its raise: a withheld breakdown has no pinned null.  Two renewals of two plans can always
\* be moved, or there was nothing to split and everything is printed.
THEOREM ProtectNeverRaises == Spec => []NeverRaises
<1>1. IInv => NeverRaises
  BY DEF IInv
<1> QED BY <1>1, RoundsKeepTheRule, PTL

\* The bounds the publication rule gives a reader (a null under no null head is at least 1) are true of the table in
\* every round, after every complement and every printed pin.
THEOREM BoundsAreTrue == Spec => []TruthIsFeasible
<1>1. ASSUME IInv, NEW k \in Ones(hidden, withheld) PROVE Val(truth, k) > 0
  <2>1. /\ k \in hidden \ Lapses /\ ~withheld
        /\ ~\E h \in Heads \cap hidden : k \in Line[h]
    BY <1>1 DEF Ones
  <2>2. Covered(hidden)
    BY <1>1, <2>1 DEF IInv, ZerosAreCovered
  <2>3. Val(truth, k) # 0
    BY <2>1, <2>2 DEF Covered
  <2>4. Val(truth, k) \in Nat
    <3>1. k \in Keys /\ truth \in [BaseKeys -> Nat]
      BY <1>1, <2>1, IInvCounts DEF HideableKeys, Counted
    <3> QED BY <3>1, ValIsNatural
  <2> QED BY <2>3, <2>4
<1>2. IInv => TruthIsFeasible
  BY <1>1 DEF TruthIsFeasible
<1> QED BY <1>2, RoundsKeepTheRule, PTL

\* What is published shows no count of 1..MinCell-1 that the public numbers do not give away by themselves, and no
\* numerator beside a null model count.
THEOREM SmallCountsAreNull == Spec => []NothingSmallShown
<1>1. ASSUME IInv, pc = "done", NEW k \in Keys \ (Lapses \cup Public \cup known \cup {Total}), Small(k)
      PROVE  ~Printed(k)
  <2>1. k \in HideableKeys \ Lapses /\ k # Total
    BY <1>1 DEF HideableKeys, Hideable
  <2>2. ~withheld => k \in hidden
    BY <1>1, <2>1 DEF IInv, SmallIsNull
  <2> QED BY <2>1, <2>2 DEF Printed
<1>2. ASSUME IInv, NEW k \in Lapses \ known, Printed(k)
      PROVE  Printed(ModelOf(k))
  <2>1. k # Total /\ k \notin Public
    BY KeysAreClosed
  <2>2. k \notin hidden /\ ~withheld
    BY <1>2, <2>1 DEF Printed
  <2>3. Hideable(k)
    BY <1>2, <2>1 DEF Hideable
  <2>4. Numerators(hidden) \subseteq hidden
    BY <1>2 DEF IInv, NumeratorsFollow
  <2>5. ModelOf(k) \notin hidden
    BY <2>2, <2>3, <2>4 DEF Numerators
  <2> QED BY <2>2, <2>5 DEF Printed
<1>3. IInv => NothingSmallShown
  BY <1>1, <1>2 DEF NothingSmallShown
<1> QED BY <1>3, RoundsKeepTheRule, PTL

\* No null of a published breakdown can be worked out: each has two values among the tables a reader cannot tell
\* from the truth, searched as far as the algorithm does or one renewal further.
THEOREM NullsCannotBeWorkedOut == Spec => []NullsAreOpen
<1>1. ASSUME IInv, pc = "done", ~withheld
      PROVE  Pinned(hidden, FALSE, Window + 1) = {}
  <2>1. withheld = FALSE
    BY <1>1, IInvCounts
  <2>2. Pinned(hidden, FALSE, Window) = {}
    BY <1>1, <2>1 DEF IInv, Asked, Settled
  <2>3. Pinned(hidden, FALSE, Window + 1) \subseteq Pinned(hidden, FALSE, Window)
    BY <1>1, IInvCounts, TableAssumption, WiderPinsLess
  <2> QED BY <2>2, <2>3
<1>2. IInv => NullsAreOpen
  BY <1>1 DEF NullsAreOpen
<1> QED BY <1>2, RoundsKeepTheRule, PTL

=============================================================================

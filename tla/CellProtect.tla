---------------------------- MODULE CellProtect ----------------------------
(***************************************************************************)
(* Disclosure control of one exposure table (metrics.protect over          *)
(* metrics.add_incident): plans x routes, row and column sums, the model   *)
(* lapses of every plan, and a total that is always shown.  Counts under   *)
(* MinCell are nulled, then enough of the rest that no null can be worked  *)
(* out; each round asks which nulls the printed numbers still pin and      *)
(* nulls a complement, prints a harmless pin, or withholds the breakdown.  *)
(*                                                                         *)
(* The question is answered by enumeration: every integer table within     *)
(* Window of the truth that agrees with what is printed and with the       *)
(* bounds the publication rule gives away.  The search budget is left out  *)
(* (tables of this size never run out of it).                              *)
(***************************************************************************)
EXTENDS Integers, FiniteSets, Sequences, Functions

CONSTANTS
  PlanOrder,    \* the plans, in the order of their names (and of the table)
  RouteOrder,   \* the routes in the order of EXPOSURE_ROUTES, "model" and "current" among them
  RouteNames,   \* the same in the order of their names
  MinCell,      \* counts of 1..MinCell-1 identify
  Window,       \* WITNESS_WINDOW
  Truths        \* the tables to protect: functions from BaseKeys to counts

Plans == Range(PlanOrder)
Routes == Range(RouteOrder)

Cell(p, r) == <<"cell", p, r>>
Row(p) == {Cell(p, r) : r \in Routes}
Column(r) == {Cell(p, r) : p \in Plans}
Cells == UNION {Row(p) : p \in Plans}
PlanLapses == {<<"lapses", p>> : p \in Plans}
BaseKeys == Cells \cup PlanLapses

\* There is always something to split: two plans, and a route between the model's and the current renewals.
ASSUME TableAssumption == /\ PlanOrder \in Seq(Plans) /\ Cardinality(Plans) > 1
                          /\ RouteOrder \in Seq(Routes) /\ RouteNames \in Seq(Routes) /\ Range(RouteNames) = Routes
                          /\ {"model", "current"} \subseteq Routes /\ Routes # {"model", "current"}
                          /\ MinCell \in Nat /\ Window \in Nat \ {0}
                          /\ \A t \in Truths : t \in [BaseKeys -> Nat]
                          /\ \A t \in Truths, p \in Plans : t[<<"lapses", p>>] <= t[Cell(p, "model")]

VARIABLES
  truth,      \* the counts
  known,      \* entries the always-shown and public numbers fix by themselves
  hidden,     \* the nulls
  withheld,   \* is the whole breakdown withheld?
  pins,       \* the answer to the last question: nulls with one possible value
  pc          \* "start", "primary", "ask", "act", "done", or "raised"

vars == <<truth, known, hidden, withheld, pins, pc>>

-----------------------------------------------------------------------------
(* The table of one incident. *)

\* A derived entry is the sum of its parts.
Total == <<"total">>
LapsesTotal == <<"lapses_total">>
Heads == {<<"plan", p>> : p \in Plans} \cup {<<"route", r>> : r \in Routes}
Forms == Heads \cup {LapsesTotal, Total}
Keys == BaseKeys \cup Forms
Parts == [k \in Keys |->
  CASE k[1] = "plan"         -> Row(k[2])
    [] k[1] = "route"        -> Column(k[2])
    [] k[1] = "lapses_total" -> PlanLapses
    [] k[1] = "total"        -> Cells
    [] OTHER                 -> {k}]

\* An entry counts the renewals of its parts: x[j] of each.
Units(x, k) == UNION {{j} \X (1..x[j]) : j \in Parts[k]}
Val(x, k) == Cardinality(Units(x, k))

\* The published relations, one per form.
FormOrder == [i \in 1..Len(PlanOrder) |-> <<"plan", PlanOrder[i]>>]
             \o [i \in 1..Len(RouteOrder) |-> <<"route", RouteOrder[i]>>] \o <<LapsesTotal, Total>>
Relation == [i \in DOMAIN FormOrder |-> {FormOrder[i]} \cup Parts[FormOrder[i]]]

\* The place of a key in the order of the names, which breaks ties: by kind, then plan or route.
KindOrder == <<"cell", "lapses", "lapses_total", "plan", "route", "total">>
PlaceIn(order, name) == CHOOSE i \in DOMAIN order : order[i] = name
Place == [k \in Keys |->
  LET wide == Len(PlanOrder) + Len(RouteNames) + 1
      line == CASE k[1] \in {"cell", "lapses", "plan"} -> PlaceIn(PlanOrder, k[2])
                [] k[1] = "route"                      -> PlaceIn(RouteNames, k[2])
                [] OTHER                               -> 0
  IN  wide * (wide * PlaceIn(KindOrder, k[1]) + line) + (IF k[1] = "cell" THEN PlaceIn(RouteNames, k[3]) ELSE 0)]
FirstByName(S) == CHOOSE k \in S : \A l \in S : Place[k] <= Place[l]

\* lines: the entries inside a row or a column; a null head nulls its zeros.
Line == [h \in Heads |->
  CASE h[1] = "plan"            -> Parts[h] \cup {<<"lapses", h[2]>>}
    [] h = <<"route", "model">> -> Parts[h] \cup PlanLapses \cup {LapsesTotal}
    [] OTHER                    -> Parts[h]]
Margins == Heads \ {<<"route", "current">>}

\* A lapses count is the numerator of a rate: shown with its model count or not at all.
Lapses == PlanLapses \cup {LapsesTotal}
ModelOf(k) == IF k = LapsesTotal THEN <<"route", "model">> ELSE Cell(k[2], "model")

Public == Column("current") \cup {<<"route", "current">>}
Hideable(k) == k # Total /\ k \notin Public \cup known
Small(k) == 0 < Val(truth, k) /\ Val(truth, k) < MinCell

-----------------------------------------------------------------------------
(* The reader's question. *)

\* The nulls the publication rule lets a reader take for at least 1 (the others may be 0).
Ones(H, w) == {k \in H \ Lapses : ~w /\ ~\E h \in Heads \cap H : k \in Line[h]}

\* Assignments to a set of unknowns, each within a distance of the truth.
Nearby(k, far) == {n \in 0..(truth[k] + far) : truth[k] - far <= n}
Near(U, far) == {u \in [U -> UNION {Nearby(k, far) : k \in U}] : \A k \in U : u[k] \in Nearby(k, far)}

\* Those that keep a set of printed sums and a set of lower bounds.
Filled(u, U) == [k \in BaseKeys |-> IF k \in U THEN u[k] ELSE truth[k]]
Agreeing(U, far, sums, ones) ==
  {x \in {Filled(u, U) : u \in Near(U, far)} : /\ \A k \in sums : Val(x, k) = Val(truth, k)
                                              /\ \A k \in ones : Val(x, k) > 0}

\* Can one of the tables a reader cannot tell apart give k another value?  The cells, then the numerators, each at
\* most its model count.
Grids(H, w, far) == Agreeing((H \cap BaseKeys) \ Lapses, far, Forms \ (H \cup {LapsesTotal}), Ones(H, w))
Rates(H, far) == Agreeing(H \cap PlanLapses, far, {LapsesTotal} \ H, {})
Fits(c, l) == \A k \in Lapses : Val(l, k) <= Val(c, ModelOf(k))
Fixed(k, grids, rates) ==
  IF k \in Lapses THEN \A l \in rates : Val(l, k) = Val(truth, k) \/ ~\E c \in grids : Fits(c, l)
                  ELSE \A c \in grids : Val(c, k) = Val(truth, k) \/ ~\E l \in rates : Fits(c, l)
Pinned(H, w, far) == LET grids == Grids(H, w, far)  rates == Rates(H, far) IN {k \in H : Fixed(k, grids, rates)}

-----------------------------------------------------------------------------
(* What must stay null. *)

\* Mutant: a margin may be printed over a null 0.
UncoveredNever(k, H) == FALSE

\* uncovered_zeros(): a margin over a null 0 that no other null head covers; printing it would claim the 0 is not one.
UncoveredZeros(k, H) ==
  k \in Margins /\ \E c \in Line[k] \ Lapses : c \in H /\ Val(truth, c) = 0 /\ ~\E h \in (Heads \cap H) \ {k} : c \in Line[h]

\* Mutant: a small count that is pinned is printed like any other.
SensitiveHeads(k, H) == UncoveredZeros(k, H)

Sensitive(k, H) ==
  \/ UncoveredZeros(k, H)
  \/ k \in Lapses /\ ModelOf(k) \in H /\ Small(ModelOf(k))
  \/ k \notin Lapses /\ Small(k)

MaybeSensitive(k) ==
  \/ k \in Margins /\ \E c \in Line[k] \ Lapses : Val(truth, c) = 0
  \/ k \in Lapses /\ Small(ModelOf(k))
  \/ k \notin Lapses /\ Small(k)

Tied(k, H) == k \in Lapses /\ ModelOf(k) \in H

-----------------------------------------------------------------------------
(* Complements. *)

\* n steps of a loop, from a: the i-th takes the state s to step[i][s].
Steps(a, step, n) == LET at[i \in 0..n] == IF i = 0 THEN a ELSE step[i][at[i - 1]] IN at[n]

\* Mutant: the public entries are complements too.
CandidatesAny(S, H) == {k \in S \ Lapses : k \notin H /\ Val(truth, k) > 0}

\* candidates(): printed non-zero entries; a numerator stands for its model count.
Open(k, H) == k \notin H /\ Hideable(k) /\ Val(truth, k) > 0
Candidates(S, H) == {k \in S \ Lapses : Open(k, H)}
                    \cup {m \in {ModelOf(k) : k \in {l \in S \cap Lapses : Open(l, H)}} : Open(m, H)}
Cheapest(C) == CHOOSE a \in C : \A b \in C : \/ Val(truth, a) < Val(truth, b)
                                             \/ Val(truth, a) = Val(truth, b) /\ Place[a] <= Place[b]

\* close(): a null head nulls the zeros of its line, a null model count its numerator, and no relation keeps
\* exactly one null.  A round that changes nothing is the last; there are no more of the others than keys.
Zeros(H) == {c \in UNION {Line[h] : h \in H \cap Heads} : Hideable(c) /\ Val(truth, c) = 0 /\ c \notin Lapses}
Numerators(H) == {k \in Lapses : ModelOf(k) \in H /\ Hideable(k)}
Lonely(H, i) ==
  LET inside == Relation[i] \cap H  cands == Candidates(Relation[i], H) IN
    IF Cardinality(inside) = 1 /\ inside \cap Lapses = {} /\ cands # {} THEN {Cheapest(cands)} ELSE {}
Tie(H) == LET K == H \cup Zeros(H) IN K \cup Numerators(K)
Balance(H) == Steps(Tie(H), [i \in 1..Len(FormOrder) |-> [K \in SUBSET Keys |-> K \cup Lonely(K, i)]], Len(FormOrder))
Close(H) == Steps(H, [i \in 1..Cardinality(Keys) |-> [K \in SUBSET Keys |-> Balance(K)]], Cardinality(Keys))

\* complements(): per pinned null, the cheapest candidate of the smallest relation near it.
Smallest(R) == CHOOSE i \in R : \A j \in R : \/ Cardinality(Relation[i]) < Cardinality(Relation[j])
                                             \/ Cardinality(Relation[i]) = Cardinality(Relation[j]) /\ i <= j
OfSmallest(R, H) == LET open == {i \in R : Candidates(Relation[i], H) # {}}
                    IN  IF open = {} THEN {} ELSE {Cheapest(Candidates(Relation[Smallest(open)], H))}
Holding(S) == {i \in DOMAIN FormOrder : Relation[i] \cap S # {}}
Around(R) == UNION {Relation[i] : i \in R}
Neighbours(b) == Holding({b} \cup Parts[b] \cup IF b \in Lapses THEN {ModelOf(b)} ELSE {})
ComplementOf(b, H, chosen) ==
  LET one == Neighbours(b)  two == Holding(Around(one)) \ one  first == OfSmallest(one, H \cup chosen)
  IN  IF chosen \cap Around(one \cup two) # {} THEN {} ELSE IF first # {} THEN first ELSE OfSmallest(two, H \cup chosen)

\* One pinned null after the other, in the order of their names.
Chosen == [left : SUBSET Keys, chosen : SUBSET Keys]
Choose(s, H) == LET b == FirstByName(s.left)
                IN  [left |-> s.left \ {b}, chosen |-> s.chosen \cup ComplementOf(b, H, s.chosen)]
Local(bad, H) == Steps([left |-> bad, chosen |-> {}], [i \in 1..Cardinality(bad) |-> [s \in Chosen |-> Choose(s, H)]],
                       Cardinality(bad)).chosen
Complements(bad, H) == IF Local(bad, H) # {} THEN Local(bad, H) ELSE OfSmallest(Holding(H), H)

-----------------------------------------------------------------------------
(* protect(). *)

Init ==
  /\ truth \in Truths
  /\ known = {} /\ hidden = {} /\ withheld = FALSE /\ pins = {} /\ pc = "start"

\* Mutant: what the public numbers fix is nulled as well.
KnownNothing == pc = "start" /\ pc' = "primary" /\ UNCHANGED <<truth, known, hidden, withheld, pins>>

\* _known(): with the total and the current column alone, something is fixed only when nothing is left to split.
Left == Val(truth, Total) - Val(truth, <<"route", "current">>)
Known ==
  /\ pc = "start" /\ pc' = "primary"
  /\ known' = IF Left = 0 THEN {k \in Keys : Hideable(k)} ELSE {}
  /\ UNCHANGED <<truth, hidden, withheld, pins>>

\* Primary suppression: the small counts; an event under MinCell renewals has its breakdown withheld by rule.
Primary ==
  /\ pc = "primary" /\ pc' = "ask"
  /\ withheld' = (Val(truth, Total) < MinCell)
  /\ hidden' = Close({k \in Keys : Hideable(k) /\ (withheld' \/ (Small(k) /\ k \notin Lapses))})
  /\ UNCHANGED <<truth, known, pins>>

\* The exact check.
Ask ==
  /\ pc = "ask" /\ pc' = "act"
  /\ pins' = Pinned(hidden, withheld, Window)
  /\ UNCHANGED <<truth, known, hidden, withheld>>

First == pins \cap {k \in hidden : MaybeSensitive(k)}
\* Mutant: a tied numerator is not looked after.
BadUntied == {k \in First : Sensitive(k, hidden \ First)}

\* The pins that need a complement: the sensitive ones, else the proven pins of tied numerators.
Bad == LET tender == {k \in First : Sensitive(k, hidden \ First)}
       IN  IF tender # {} THEN tender ELSE {k \in pins \ First : Tied(k, hidden \ pins)}

Complement ==
  /\ pc = "act" /\ Bad # {} /\ Complements(Bad, hidden) # {}
  /\ hidden' = Close(hidden \cup Complements(Bad, hidden)) /\ pc' = "ask"
  /\ UNCHANGED <<truth, known, withheld, pins>>

Withhold ==
  /\ pc = "act" /\ Bad # {} /\ Complements(Bad, hidden) = {}
  /\ IF withheld THEN pc' = "raised" /\ UNCHANGED <<hidden, withheld>>
                 ELSE /\ withheld' = TRUE /\ pc' = "ask"
                      /\ hidden' = Close(hidden \cup {k \in Keys : Hideable(k)})
  /\ UNCHANGED <<truth, known, pins>>

\* Harmless pins are printed, and with a model count its numerator when the exact check allows: it is asked again,
\* now of the nulls that matter only.
Printable == {k \in pins : ~withheld /\ ~Tied(k, hidden \ pins)}
Back == {k \in Lapses \cap hidden : ModelOf(k) \in Printable}
BackIsSafe == LET trial == hidden \ (Printable \cup Back)
                  again == Pinned(trial, withheld, Window) \cap {k \in trial : MaybeSensitive(k) \/ Tied(k, trial)}
              IN  \A k \in again : ~Sensitive(k, trial \ again) /\ ~Tied(k, trial \ again)
PrintPins ==
  /\ pc = "act" /\ Bad = {} /\ Printable # {}
  /\ hidden' = hidden \ (Printable \cup IF Back # {} /\ BackIsSafe THEN Back ELSE {})
  /\ pc' = "ask"
  /\ UNCHANGED <<truth, known, withheld, pins>>

Finish == pc = "act" /\ Bad = {} /\ Printable = {} /\ pc' = "done" /\ UNCHANGED <<truth, known, hidden, withheld, pins>>

Next == Known \/ Primary \/ Ask \/ Complement \/ Withhold \/ PrintPins \/ Finish

Spec == Init /\ [][Next]_vars /\ WF_vars(Next)

-----------------------------------------------------------------------------
(* Properties. *)

\* Types, and that only what may be null is.
TypeOK ==
  /\ truth \in Truths /\ known \subseteq Keys /\ hidden \subseteq Keys /\ pins \subseteq Keys
  /\ withheld \in BOOLEAN /\ pc \in {"start", "primary", "ask", "act", "done", "raised"}
  /\ \A k \in hidden : Hideable(k)

\* protect() never runs out of complements with its breakdown already withheld.
NeverRaises == pc # "raised"

\* "The truth is always feasible": in every round the bounds a reader may assume of the nulls are true of the table.
\* A false one pins its neighbours, and the search answers about a table that is not there.
TruthIsFeasible == \A k \in Ones(hidden, withheld) : Val(truth, k) > 0

\* What is published: an entry is printed or null.
Printed(k) == k = Total \/ ~(k \in hidden \/ withheld)

\* No identifying count is printed, unless the public numbers give it away by themselves; and a rate's numerator is
\* never printed beside a null model count.
NothingSmallShown ==
  pc = "done" =>
    /\ \A k \in Keys \ (Lapses \cup Public \cup known \cup {Total}) : Small(k) => ~Printed(k)
    /\ \A k \in Lapses \ known : Printed(k) => Printed(ModelOf(k))

\* The rule the tools state: every null of a published breakdown has two possible values, over all the tables a
\* reader cannot tell apart (searched wider than the algorithm's own window).
NullsAreOpen == pc = "done" /\ ~withheld => Pinned(hidden, FALSE, Window + 1) = {}

\* The rounds end, on every table.
Ends == <>(pc = "done")

=============================================================================

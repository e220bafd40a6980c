---------------------------- MODULE EvidenceGraph ----------------------------
(***************************************************************************)
(* src/lakehouse_graph/pruned.py: the copy of a build that free queries    *)
(* may read.  Every edge after its renewal's as_of is taken out of it, and *)
(* so are the labels, so that a traversal that forgets to cut at as_of     *)
(* still sees the past only.  The builder re-proves that on what it wrote. *)
(***************************************************************************)
EXTENDS RenewalGraph

\* Mutant: rows that carry a label go, rows of the future stay.
KeptUnlessLabel(g, e) == ~OutcomeEvidence(g.ren, e)

\* prune(): an event edge stays up to as_of, unless it is outcome evidence.
Kept(g, e) == e[3] <= g.ren[e[1]].as_of /\ ~OutcomeEvidence(g.ren, e)

\* prune() raises where the flags of the build disagree with the dates.
Refuses(g) ==
  \/ \E e \in g.events : e[3] <= g.ren[e[1]].as_of /\ OutcomeEvidence(g.ren, e)
  \/ \E f \in g.after : f[3] # (f[2] <= g.ren[f[1]].as_of)

\* Mutant: the renewal keeps its route.
UnlabelledButRoute(row) == [plan |-> row.plan, renewal_date |-> row.renewal_date, as_of |-> row.as_of,
                            hits |-> row.hits, toggled |-> row.toggled, first_after |-> row.first_after,
                            route |-> row.route]

\* node_schema(): a renewal without its labels.
Unlabelled(row) == [plan |-> row.plan, renewal_date |-> row.renewal_date, as_of |-> row.as_of,
                    hits |-> row.hits, toggled |-> row.toggled, first_after |-> row.first_after]

\* The evidence tables: SIMILAR_TO goes, FIRST_RENEWAL_AFTER stays with a fourth column, declared_exception.
Prune(g) ==
  [ren    |-> [s \in DOMAIN g.ren |-> Unlabelled(g.ren[s])],
   events |-> {e \in g.events : Kept(g, e)},
   after  |-> {<<f[1], f[2], f[3], ~f[3]>> : f \in g.after},
   cuts   |-> g.cuts]

-----------------------------------------------------------------------------
(* The builder's proof of what it wrote, again from the evidence tables alone. *)

\* A feature window with and without its upper bound, from the edges.
Upper(v, s, bound, days) == {e \in days : bound => e <= v.ren[s].as_of}
EvidenceHits(v, s, bound) ==
  Cardinality({e \in Upper(v, s, bound, EdgeDays(v, s, "hit")) : e > v.ren[s].as_of - HitWindow})

\* overage_toggled_off: in pandas the last change by (day, id) is an off after some on, in Cypher the last off
\* is later than the last on.
PandasToggled(v, s, bound) ==
  LET on == Upper(v, s, bound, EdgeDays(v, s, "enabled"))
      off == Upper(v, s, bound, EdgeDays(v, s, "disabled"))
  IN  on # {} /\ off # {} /\ Latest(on \cup off) \in off
CypherToggled(v, s, bound) ==
  LET on == Upper(v, s, bound, EdgeDays(v, s, "enabled"))
      off == Upper(v, s, bound, EdgeDays(v, s, "disabled"))
  IN  on # {} /\ off # {} /\ Latest(off) > Latest(on)

ParityHolds(v) ==
  \A s \in DOMAIN v.ren : \A bound \in BOOLEAN :
    /\ v.ren[s].hits = EvidenceHits(v, s, bound)
    /\ v.ren[s].toggled = PandasToggled(v, s, bound) /\ v.ren[s].toggled = CypherToggled(v, s, bound)
    /\ v.ren[s].first_after = \E f \in v.after : f[1] = s

\* check_record(): nothing after as_of, every declared exception kept and flagged, no outcome among BILLED.
Holds(v, g) ==
  /\ \A e \in v.events : e[3] <= v.ren[e[1]].as_of
  /\ ParityHolds(v)
  /\ LET declared == Cardinality({f \in g.after : ~f[3]})
         late == {f \in v.after : f[2] > v.ren[f[1]].as_of}
     IN  Cardinality(late) = declared /\ Cardinality({f \in late : f[4] /\ ~f[3]}) = declared
  /\ \A f \in v.after : f[4] # f[3]
  /\ \A e \in v.events : e[2] \in BilledTypes => e[2] = "scheduled"

-----------------------------------------------------------------------------
(* Properties. *)

\* The evidence graph can be built from every build and passes its own proof: in it, a traversal that forgets the
\* upper bound gives the features of gold, by both engines' rules, however the renewals went on.
EvidenceHolds == graph # None => ~Refuses(graph) /\ Holds(Prune(graph), graph)

\* The tables of s as a build of its own as_of day makes them.
AsBuiltThen(s) ==
  LET t == graph.ren[s].renewal_date  then == [x \in {s} |-> GoldRow(s, t, t - Lead)] IN
    [ren |-> then, events |-> EventEdges(then, t - Lead), after |-> FirstRenewalAfter(then, t - Lead), cuts |-> {}]

\* What is left of a renewal is what the evidence graph of its as_of day would hold, so no query over it, however
\* written, can tell two futures apart.  The exception is declared: a pricing change between as_of and the renewal,
\* and the feature that counts it, on a row that says so.
EvidenceIsPast ==
  graph # None => \A s \in DOMAIN graph.ren :
    LET v == Prune(graph)  past == Prune(AsBuiltThen(s))
        exceptions == {f \in v.after : f[1] = s /\ f[4]}
        known(after) == {f \in after : ~f[4]}
    IN  /\ {e \in v.events : e[1] = s} = past.events
        /\ known({f \in v.after : f[1] = s}) = known(past.after)
        /\ [v.ren[s] EXCEPT !.first_after = None] = [past.ren[s] EXCEPT !.first_after = None]
        /\ v.ren[s].first_after # past.ren[s].first_after => exceptions # {}
=============================================================================

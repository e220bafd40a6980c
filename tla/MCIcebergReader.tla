-------------------------- MODULE MCIcebergReader --------------------------
EXTENDS IcebergReader, TLC
Order == <<"gold">>
Symmetry == Permutations(Publishers)

\* Two runs that overlap, both past their look at the manifest: they pinned the same snapshot of the
\* input, or a commit of the upstream pipeline came between them.
Looked(at, s) == [NoJob EXCEPT !.at = at, !.pins = ("gold" :> s)]
StandingInit ==
  /\ hist = [t \in Tables |-> IF t \in Inputs THEN <<None, None>> ELSE <<>>]
  /\ expired = {} /\ tags = {} /\ now = 3 /\ finished = {} /\ overlap = TRUE
  /\ pc = [p \in Publishers |-> "fit"]
  /\ \E s \in [Publishers -> 1..2], a \in [Publishers -> 1..2] :
       /\ \A p, q \in Publishers : p # q => a[p] # a[q] /\ (a[p] < a[q] => s[p] <= s[q])
       /\ job = [p \in Publishers |-> Looked(a[p], s[p])]
  /\ bounds = [runs |-> [p \in Publishers |-> MaxRuns], moves |-> MaxMoves, expiries |-> 0, crashes |-> 0]
  /\ rd = [r \in Readers |-> NoRead]
  /\ built = {} /\ verified = {}
  /\ tries = [reads |-> [r \in Readers |-> 0], meddles |-> 0]

StandingSpec == StandingInit /\ [][RNext]_<<vars, rvars>>
=============================================================================

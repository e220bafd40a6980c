---------------------------- MODULE MCBuildStore ----------------------------
EXTENDS BuildStore, TLC

\* Pids of one role and states of the sources are interchangeable.
Symmetry == Permutations(Ids) \cup Permutations(Builders) \cup Permutations(Checkers)

\* A store in use: an older build that was checked and promoted, a newer one that is the latest, and
\* the sources back at what the older was made of.
Standing(made, contract) ==
  [bytes |-> made.id, exports |-> exports, built |-> made.at, db |-> TRUE, whole |-> TRUE,
   contract |-> contract, pids |-> {}]

StandingInit ==
  \E old, new \in Ids :
    /\ old # new
    /\ sources = old /\ exports \in Exports
    /\ clock = 2
    /\ builds = [id \in Ids |->
         IF id = old THEN Standing([id |-> old, at |-> 1],
                                   [status |-> "pass", strict |-> TRUE, bytes |-> old, exports |-> exports])
         ELSE IF id = new THEN Standing([id |-> new, at |-> 2], None)
         ELSE None]
    /\ current = old /\ latest = new
    /\ earned = {<<old, old, exports>>}
    /\ tmp = {} /\ trash = [d \in Ids \X Builders |-> None]
    /\ lock = None
    /\ pc = [p \in Procs |-> "idle"]
    /\ bld = [b \in Builders |-> None] /\ chk = [c \in Checkers |-> None]
    /\ prm = [p \in Promoters |-> None] /\ col = [g \in Collectors |-> None]
    /\ srv = [s \in Servers |-> None]
    /\ runs = [p \in Procs |-> 0] /\ edits = 0 /\ crashes = 0

StandingSpec == StandingInit /\ [][Next]_vars
=============================================================================

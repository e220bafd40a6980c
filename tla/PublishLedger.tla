--------------------------- MODULE PublishLedger ---------------------------
(***************************************************************************)
(* What the publisher promises its readers: a ledger that only grows and   *)
(* tags that are put once, where the ledger says, and never move.          *)
(***************************************************************************)
EXTENDS Integers, Sequences

CONSTANTS Manifest    \* the table that is the ledger itself

VARIABLES
  ledger,     \* sequence of publishes [build, rows]: rows are the pairs <<table, snapshot>> of one publish
  tags        \* the Iceberg refs graph_<build>: a set of <<table, build, snapshot>>

vars == <<ledger, tags>>

\* A tag names a snapshot the ledger lists for that build; on the ledger's own table, one that holds the build.
Listed(book, t, b, s) ==
  IF t = Manifest THEN s \in 1..Len(book) /\ \E i \in 1..s : book[i].build = b
                  ELSE \E i \in 1..Len(book) : book[i].build = b /\ <<t, s>> \in book[i].rows

Init == ledger = <<>> /\ tags = {}

Append1 == /\ Len(ledger') = Len(ledger) + 1
           /\ \A i \in 1..Len(ledger) : ledger'[i] = ledger[i]
           /\ tags' = tags

Tag == \E x \in tags' \ tags :
         /\ tags' = tags \cup {x}
         /\ \A y \in tags : y[1] = x[1] => y[2] # x[2]
         /\ Listed(ledger, x[1], x[2], x[3])
         /\ ledger' = ledger

Next == Append1 \/ Tag

Spec == Init /\ [][Next]_vars
=============================================================================

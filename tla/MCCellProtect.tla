--------------------------- MODULE MCCellProtect ---------------------------
EXTENDS CellProtect, TLC

TwoPlans == <<"pro", "ultra">>
ThreeRoutes == <<"model", "dunning", "current">>
ThreeNames == <<"current", "dunning", "model">>
Count(a, b, c, d, e, f, l, m) ==
  [k \in BaseKeys |->
     CASE k = Cell("pro", "model") -> a [] k = Cell("pro", "dunning") -> b [] k = Cell("pro", "current") -> e
       [] k = Cell("ultra", "model") -> c [] k = Cell("ultra", "dunning") -> d [] k = Cell("ultra", "current") -> f
       [] k = <<"lapses", "pro">> -> l [] OTHER -> m]
SmallTables == {Count(t[1], t[2], t[3], t[4], t[5], 0, t[6], t[7]) :
                  t \in {t \in (0..3) \X (0..3) \X (0..3) \X (0..3) \X {0, 1} \X {0, 1} \X {0} : t[6] <= t[1] /\ t[7] <= t[3]}}

\* The smallest tables whose rounds go back and forth.
EndlessTables == {Count(1, 1, 2, 2, 1, 0, 1, 0)}
=============================================================================

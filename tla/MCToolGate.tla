----------------------------- MODULE MCToolGate -----------------------------
EXTENDS ToolGate, TLC

\* Calls are interchangeable (used where no liveness is checked).
Symmetry == Permutations(Calls)
=============================================================================

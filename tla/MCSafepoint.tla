----------------------------- MODULE MCSafepoint -----------------------------
EXTENDS Safepoint, TLC

CONSTANTS t1, t2, t3, o1, o2

\* Main is singled out by Init, so only the other threads are interchangeable.
Symmetry == Permutations(Threads \ {Main}) \cup Permutations(Objects)

=============================================================================

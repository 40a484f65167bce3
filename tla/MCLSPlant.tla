----------------------------- MODULE MCLSPlant -----------------------------
(***************************************************************************)
(* LSPlant for TLC: a static and an instance method of one class.          *)
(***************************************************************************)
EXTENDS LSPlant, FiniteSets, TLC

CONSTANTS m1, m2, c1, b1, b2, t1, t2

OneClass == [m \in {m1, m2} |-> c1]

\* Two hooks, or one and a method that operations overlap on or races lose
\* records of, or two such methods.
Within == Cardinality({b \in Backups : origin[b] # None}) + Cardinality(overlap \cup lost) <= 2

MCSpec == Init /\ [][Next /\ Within']_vars

\* Safety only: threads are interchangeable, and so are backups.
Symmetry == Permutations({t1, t2}) \cup Permutations(Backups)
=============================================================================

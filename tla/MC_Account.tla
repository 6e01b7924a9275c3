----------------------------- MODULE MC_Account -----------------------------
\* Instances of Account for TLC; the constants are in the .cfg files.
EXTENDS Account, TLC

\* Requests are interchangeable, and no property is a temporal one.
Symmetry == Permutations(Req)
=============================================================================

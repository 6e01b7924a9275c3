--------------------------- MODULE MC_ChatEvents ---------------------------
\* An instance of ChatEvents for TLC; the constants are in the .cfg file.
EXTENDS ChatEvents

CONSTANTS FirstKey, FirstClient

\* Runs are interchangeable, and so are clients: whichever is the first is given the same
\* name in every behaviour.  (Liveness rules out TLC's own symmetry reduction.)
FirstComesFirst ==
    /\ \A k \in Key : run[k] # "absent" => run[FirstKey] # "absent"
    /\ \A c \in Client : pc[c] # "new" => pc[FirstClient] # "new"

MCSpec == Init /\ [][Next /\ FirstComesFirst']_vars /\ Fairness
=============================================================================

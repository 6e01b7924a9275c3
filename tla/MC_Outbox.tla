----------------------------- MODULE MC_Outbox -----------------------------
\* Instances of Outbox for TLC; the other constants are in the .cfg files.
EXTENDS Outbox

\* Two steps of the real schedule 60, 300, 1800, 7200: one shorter and one
\* longer than the lease.
MC_BACKOFF == <<1, 2>>
=============================================================================

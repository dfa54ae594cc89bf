------------------------------- MODULE MCOutbox -------------------------------
\* Values of Outbox's constants for TLC: one feed of a workspace and one of the
\* whole organization.
EXTENDS Outbox

CONSTANTS s1, s2, one, all

OneAndAll == [f \in {one, all} |-> IF f = one THEN {s1} ELSE {s1, s2}]
=============================================================================

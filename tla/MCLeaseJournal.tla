--------------------------- MODULE MCLeaseJournal ---------------------------
(* Small values for the constants of LeaseJournal. *)
EXTENDS LeaseJournal

CONSTANTS none, held, full, unreadable

MCStates == {none, held, full}
MCOverfull == {full}
=============================================================================

--------------------------- MODULE MCCalendarSync ---------------------------
(* Small instances of CalendarSync for TLC. *)
EXTENDS CalendarSync, TLC

Symm == Permutations(Devices) \cup Permutations(Uids)
=============================================================================

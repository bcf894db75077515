----------------------------- MODULE MCCalendar -----------------------------
(* Small instances of Calendar for TLC.                                    *)
EXTENDS Calendar, TLC

\* One site, and visits without an address, to which the fallback applies.
NoDrive == [leg \in Address \X Address |-> {0}]

Asking(ops, times, sites) == [ops |-> ops, times |-> times, sites |-> sites]

\* Visits that are moved; given another site; cancelled and booked again; handed over.
Scenarios == {Asking({"create", "move"}, {0, 1, 3}, {"none"}),
              Asking({"create", "move", "readdress"}, {0, 1}, Site),
              Asking({"create", "move", "cancel"}, {0, 1}, {"none"}),
              Asking({"create", "hand_over"}, {0, 1, 3}, {"none"})}

OnlyBookings == {Asking({"create"}, {0, 1}, {"none"})}

Symmetry == Permutations(Handler) \cup Permutations(Event) \cup Permutations(Equipment)
                \cup Permutations(Appraiser)
=============================================================================

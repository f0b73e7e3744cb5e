--------------------------- MODULE MCRegistrations ---------------------------
(***************************************************************************)
(* Registrations, and the transactions that implement it, in one run: they *)
(* are about the same rows, and `part` says which of the two moves.  Where *)
(* the operations move, nobody holds the lock; the transactions book each  *)
(* child once.                                                             *)
(***************************************************************************)
EXTENDS BookingTransactions, TLC

CONSTANT MaxBookings \* bound: how many children are booked in all

VARIABLE part

MCInit == TransactionsInit /\ part \in {"operations", "transactions"}

Bookings == FoldFunction(LAMBDA m, n : m + n, 0, bookingMails)

\* Nobody who was booked before is ticked.
TicksNewChildren ==
    \A f \in Families :
        work'[f].step = "check"
            => \A c \in work'[f].todo : c \in Registered \/ bookingMails[c] = 0

MCNext ==
    \/ /\ part = "operations" /\ Next /\ Bookings' <= MaxBookings
       /\ UNCHANGED <<holder, work, part>>
    \/ /\ part = "transactions" /\ TransactionsNext /\ TicksNewChildren
       /\ UNCHANGED part

MCvars == <<transactionVars, part>>

MCSpec == MCInit /\ [][MCNext]_MCvars

\* Children are interchangeable: no property names one of them.
Symmetry == Permutations(Children)
=============================================================================

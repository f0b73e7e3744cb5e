------------------------- MODULE BookingTransactions -------------------------
(***************************************************************************)
(* The transactions of events.registrations, statement by statement, and   *)
(* the lock on the session's row they run under.  Registrations takes each *)
(* of them for one step; here they read, write and commit in steps of      *)
(* their own, among team requests and other families, and are shown to     *)
(* implement Registrations.                                                *)
(*                                                                         *)
(* Transactions run at READ COMMITTED: a statement sees what is committed  *)
(* when it runs, and what its own transaction wrote.  A write of the       *)
(* session's row (the status card, the event form) waits for the lock; a   *)
(* plain read of it does not.  A request that dies rolls back.             *)
(*                                                                         *)
(* services.cancel and a row of the sync stay one step, taken while nobody *)
(* holds the lock: the one writes one row, the other promotes as           *)
(* fill_free_places does.                                                  *)
(***************************************************************************)
EXTENDS Registrations

CONSTANTS
    Families, \* web requests of families
    NoOne

ASSUME RequestsAssumption ==
    Families \cap Editors = {} /\ NoOne \notin Families \cup Editors

\* The variables of Registrations are what is committed; and:
VARIABLES
    holder, \* who holds the lock on the session's row
    work    \* what each transaction has read and written

Requests == Families \cup Editors

Unbooked == [reg |-> "none", position |-> 0]

\* What a transaction knows when it begins: the step it is at, the children it
\* is about, the places of the row it locked.
Work(step, todo, seats) ==
    [step |-> step, todo |-> todo, places |-> seats, confirmed |-> 0, position |-> 0,
     rows |-> [c \in Children |-> Unbooked], deleted |-> {}, promoted |-> {}]

NoWork == Work("idle", {}, 0)

\* A fill that found the session not started goes on when the start time
\* passes meanwhile: to Registrations the time passes after it.
FillUnderWay == \E e \in Editors : work[e].step \in {"promote", "write", "done"}
StartedSeen == started /\ ~FillUnderWay

\* The session whose operations the transactions are.
R == INSTANCE Registrations WITH started <- StartedSeen

committed == <<status, places, reg, position, bookingMails, promotedMails, cancellations, request>>
transactionVars == <<committed, started, holder, work>>

TransactionsInit ==
    /\ started = FALSE
    /\ work = [r \in Requests |-> NoWork]
    /\ R!Init
    /\ holder = NoOne

-----------------------------------------------------------------------------
\* Mutant: the row is read without FOR UPDATE.
NoLock == TRUE

\* SELECT ... FOR UPDATE, and any write of the row, wait for the lock.
LockFree == holder = NoOne

\* A transaction takes the lock and reads the session's row under it.
Begin(r, step, todo) ==
    /\ work[r].step = "idle"
    /\ LockFree
    /\ holder' = r
    /\ work' = [work EXCEPT ![r] = Work(step, todo, places)]
    /\ UNCHANGED started

\* It goes on, with what it read or wrote.
Continue(r, now) ==
    /\ work' = [work EXCEPT ![r] = now]
    /\ UNCHANGED <<committed, started, holder>>

\* It ends, committed or rolled back.
End(r) ==
    /\ work' = [work EXCEPT ![r] = NoWork]
    /\ holder' = NoOne
    /\ UNCHANGED started

-----------------------------------------------------------------------------
(* sign_up *)

\* The children a family ticked.
BeginSignUp(f, ticked) ==
    /\ \A c \in ticked : c \in R!Registered \/ bookingMails[c] < MaxSignUps
    /\ status = "open"
    /\ Begin(f, "check", ticked)
    /\ UNCHANGED committed

\* Who is signed up already, the highest position and the confirmed places
\* are read once, before the loop.
CheckChildren(f) ==
    LET new == work[f].todo \ R!Registered
    IN  /\ work[f].step = "check"
        /\ IF new = {}
           THEN End(f) /\ UNCHANGED committed
           ELSE Continue(f, [work[f] EXCEPT !.step = "book", !.todo = new,
                                            !.confirmed = Cardinality(R!Confirmed),
                                            !.position = R!LastPosition])

\* A confirmed child takes one of the places that are left for the next.
CountConfirmed(now, row) == IF row = "confirmed" THEN now + 1 ELSE now

\* The loop takes the children in the order they were ticked, which may be any.
BookChild(f, c) ==
    LET w == work[f]
        row == IF w.confirmed >= w.places THEN "waiting" ELSE "confirmed"
    IN  /\ w.step = "book" /\ c \in w.todo
        /\ Continue(f, [w EXCEPT
              !.todo = @ \ {c},
              !.position = @ + 1,
              !.confirmed = CountConfirmed(@, row),
              !.rows = [@ EXCEPT ![c] = [reg |-> row, position |-> w.position + 1]]])

CommitSignUp(f) ==
    LET booked == {c \in Children : work[f].rows[c] # Unbooked}
    IN  /\ work[f].step = "book" /\ work[f].todo = {}
        /\ reg' = [c \in Children |-> IF c \in booked THEN work[f].rows[c].reg ELSE reg[c]]
        /\ position' = [c \in Children |->
                          IF c \in booked THEN work[f].rows[c].position ELSE position[c]]
        /\ bookingMails' = [c \in Children |-> bookingMails[c] + (IF c \in booked THEN 1 ELSE 0)]
        /\ End(f)
        /\ UNCHANGED <<status, places, promotedMails, cancellations, request>>

-----------------------------------------------------------------------------
(* cancel and fill_free_places *)

BeginCancel(f, c) ==
    /\ bookingMails[c] > 0
    /\ Begin(f, "find", {c})
    /\ UNCHANGED committed

\* The registration as it is under the lock is logged and deleted; one that
\* is gone ends the transaction.
FindRegistration(f) ==
    /\ work[f].step = "find"
    /\ \E c \in work[f].todo :
          IF c \notin R!Registered
          THEN End(f) /\ UNCHANGED committed
          ELSE Continue(f, [work[f] EXCEPT
                              !.deleted = {c},
                              !.step = IF c \in R!Confirmed THEN "promote" ELSE "write"])

\* fill_free_places returns at once for a session that started or is cancelled.
BeginFill(e) ==
    /\ request[e].todo = "fill"
    /\ IF R!Fills
       THEN Begin(e, "promote", {}) /\ UNCHANGED committed
       ELSE /\ work[e].step = "idle" /\ LockFree
            /\ request' = [request EXCEPT ![e].todo = "nothing"]
            /\ UNCHANGED <<status, places, reg, position, bookingMails, promotedMails,
                           cancellations, started, holder, work>>

\* _promote, after the deletion a cancellation has made.
Promote(r) ==
    /\ work[r].step = "promote"
    /\ Continue(r, [work[r] EXCEPT
          !.step = "write",
          !.promoted = R!Promoted(work[r].places, R!Confirmed \ work[r].deleted,
                                  IF r \in Families THEN 1 ELSE R!NoCap)])

WriteRegistrations(r) ==
    /\ reg' = [c \in Children |-> IF c \in work[r].deleted THEN "none"
                                  ELSE IF c \in work[r].promoted THEN "confirmed" ELSE reg[c]]
    /\ position' = [c \in Children |-> IF c \in work[r].deleted THEN 0 ELSE position[c]]
    /\ R!MailPromoted(work[r].promoted)
    /\ cancellations' = [c \in Children |->
                           cancellations[c] + (IF c \in work[r].deleted THEN 1 ELSE 0)]

CommitCancel(f) ==
    /\ f \in Families
    /\ work[f].step = "write"
    /\ WriteRegistrations(f)
    /\ End(f)
    /\ UNCHANGED <<status, places, bookingMails, request>>

\* A fill commits or rolls back, and then its lock is released.
CommitFill(e) ==
    /\ e \in Editors
    /\ work[e].step = "write"
    /\ work' = [work EXCEPT ![e].step = "done"]
    /\ UNCHANGED started
    /\ WriteRegistrations(e)
    /\ request' = [request EXCEPT ![e].todo = "nothing"]
    /\ UNCHANGED <<status, places, bookingMails, holder>>

EndFill(e) ==
    /\ work[e].step = "done"
    /\ End(e)
    /\ UNCHANGED committed

\* The request dies: nothing it wrote is kept, the mail it queued included.
RollBack(f) ==
    /\ f \in Families
    /\ work[f].step # "idle"
    /\ End(f)
    /\ UNCHANGED committed

RollBackFill(e) ==
    /\ e \in Editors
    /\ work[e].step \in {"promote", "write"}
    /\ work' = [work EXCEPT ![e] = Work("done", {}, 0)]
    /\ request' = [request EXCEPT ![e].todo = "nothing"]
    /\ UNCHANGED <<status, places, reg, position, bookingMails, promotedMails,
                   cancellations, started, holder>>

-----------------------------------------------------------------------------
ClockPassesStart ==
    /\ ~started
    /\ started' = TRUE
    /\ UNCHANGED <<committed, holder, work>>

\* What is a step of Registrations here too: it writes the session's row.
WriteSession ==
    /\ LockFree
    /\ UNCHANGED <<holder, work>>
    /\ \/ UNCHANGED started /\ R!CancelSession
       \/ \E e \in Editors, p \in R!PostedPlaces, past \in BOOLEAN :
             started' = past /\ R!SaveForm(e, p, past)
       \/ \E e \in Editors, s \in R!Settable : UNCHANGED started /\ R!SaveStatus(e, s)
       \/ \E p \in R!PostedPlaces, s \in R!Settable : UNCHANGED started /\ R!SyncSession(p, s)

\* Or it only reads it, or gives up before its next statement.
ReadSession(e) ==
    /\ work[e].step = "idle"
    /\ UNCHANGED <<started, holder, work>>
    /\ \/ R!LoadSession(e, "save_form")
       \/ R!LoadSession(e, "save_status")
       \/ R!DropRequest(e)

TransactionsNext ==
    \/ \E f \in Families :
         \/ \E ticked \in (SUBSET Children) \ {{}} : BeginSignUp(f, ticked)
         \/ \E c \in Children : BeginCancel(f, c) \/ BookChild(f, c)
         \/ CheckChildren(f) \/ CommitSignUp(f)
         \/ FindRegistration(f) \/ CommitCancel(f) \/ RollBack(f)
    \/ \E r \in Requests : Promote(r)
    \/ \E e \in Editors : BeginFill(e) \/ CommitFill(e) \/ RollBackFill(e) \/ EndFill(e) \/ ReadSession(e)
    \/ ClockPassesStart
    \/ WriteSession

TransactionsSpec == TransactionsInit /\ [][TransactionsNext]_transactionVars

-----------------------------------------------------------------------------
(* Properties *)

\* The transactions, with their lock, do nothing but the steps Registrations
\* takes them for: no family or team request ever sees, or is overtaken by,
\* half of one ("sign-ups and cancellations for one session happen one at a
\* time", registrations.py:4-11).
ImplementsRegistrations == R!Spec
=============================================================================

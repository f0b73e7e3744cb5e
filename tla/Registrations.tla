---------------------------- MODULE Registrations ----------------------------
(***************************************************************************)
(* One session (an Event row) and its registrations: events.registrations  *)
(* (sign_up, cancel, fill_free_places, _promote) together with everything  *)
(* that changes the session under them: the status card, the event form,   *)
(* calling it off, and the API's planning sync.                            *)
(*                                                                         *)
(* The operations of events.registrations, services.cancel and a sync row  *)
(* lock the session's row for their whole transaction, so each is one      *)
(* step (BookingTransactions shows the transactions with their lock        *)
(* implement these steps).  The status card and the event form lock        *)
(* nothing: they load the row, and write it back in a later step, from     *)
(* what they loaded.                                                       *)
(*                                                                         *)
(* Left out, since no property here tells them apart: the answers to the   *)
(* session's questions, the pathways and the home dojo a sign-up records,  *)
(* and the notice a called-off session's families may get.                 *)
(***************************************************************************)
EXTENDS Integers, FiniteSets, FiniteSetsExt, Functions

CONSTANTS
    Children,    \* the ninjas families sign up
    Editors,     \* web requests of the dojo's team that lock nothing
    MaxPlaces,   \* bound: the places a team gives the session
    MaxSignUps   \* bound: how often one child is signed up for it

ASSUME ConstantsAssumption ==
    /\ IsFiniteSet(Children)
    /\ MaxPlaces \in Nat \ {0}
    /\ MaxSignUps \in Nat

VARIABLES
    status,         \* Event.status
    places,         \* Event.places
    started,        \* whether Event.start_time has passed
    reg,            \* the child's registration: none, waiting or confirmed
    position,       \* Registration.position, 0 without a registration
    bookingMails,   \* bookings mailed for the child, one per sign-up
    promotedMails,  \* waitlist_promoted mails queued for the child
    cancellations,  \* RegistrationCancellation rows of the child
    request         \* what each team request has loaded, and what it does next

vars == <<status, places, started, reg, position, bookingMails, promotedMails,
          cancellations, request>>

session == <<status, places, started>>
bookings == <<reg, position, bookingMails, promotedMails, cancellations>>

Status == {"draft", "open", "closed", "cancelled"}
Settable == {"draft", "open", "closed"}
Places == 1..MaxPlaces

\* What a form or a planning row may ask for.
PostedPlaces == 0..MaxPlaces

Request == [todo : {"nothing", "save_form", "fill", "save_status"},
            status : Status, places : Places]

TypeOK ==
    /\ status \in Status
    /\ places \in Places
    /\ started \in BOOLEAN
    /\ reg \in [Children -> {"none", "waiting", "confirmed"}]
    /\ position \in [Children -> Nat]
    /\ bookingMails \in [Children -> Nat]
    /\ promotedMails \in [Children -> Nat]
    /\ cancellations \in [Children -> Nat]
    /\ request \in [Editors -> Request]

-----------------------------------------------------------------------------
Waiting == {c \in Children : reg[c] = "waiting"}
Confirmed == {c \in Children : reg[c] = "confirmed"}
Registered == Waiting \cup Confirmed

\* Mutant: the highest position is taken from the waiting list alone.
LastWaitingPosition == Max({0} \cup {position[c] : c \in Waiting})

\* aggregate(Max("position")) over the session's registrations, or 0.
LastPosition == Max({0} \cup {position[c] : c \in Registered})

\* Mutant: the newest sign-ups instead of the oldest.
LastWaiting(n) ==
    {c \in Waiting : Cardinality({d \in Waiting : position[d] > position[c]}) < n}

\* The first n of the waiting list: filter(waiting_list=True)
\* .order_by("position")[:n], where no two positions are equal.
FirstWaiting(n) ==
    {c \in Waiting : Cardinality({d \in Waiting : position[d] < position[c]}) < n}

\* Mutant: a freed place is not handed on.
PromotedNone(capacity, confirmed, atMost) == {}

\* _promote: the waiting children that move into the places that are really
\* free, of the capacity, next to the confirmed ones, at most atMost of them.
Promoted(capacity, confirmed, atMost) ==
    LET free == capacity - Cardinality(confirmed)
    IN  FirstWaiting(IF atMost < free THEN atMost ELSE free)

\* at_most=None: no cap but the free places.
NoCap == Cardinality(Children)

\* Mutant: the whole waiting list is told about the free place.
MailWaiting(promoted) ==
    promotedMails' =
        [c \in Children |->
            promotedMails[c] + (IF promoted # {} /\ c \in Waiting THEN 1 ELSE 0)]

\* Promoting a set of children, and mailing each one's family.
MailPromoted(promoted) ==
    promotedMails' =
        [c \in Children |-> promotedMails[c] + (IF c \in promoted THEN 1 ELSE 0)]

-----------------------------------------------------------------------------
Init ==
    /\ status \in Settable
    /\ places \in Places
    /\ started = FALSE
    /\ reg = [c \in Children |-> "none"]
    /\ position = [c \in Children |-> 0]
    /\ bookingMails = [c \in Children |-> 0]
    /\ promotedMails = [c \in Children |-> 0]
    /\ cancellations = [c \in Children |-> 0]
    /\ request = [e \in Editors |->
                    [todo |-> "nothing", status |-> "draft", places |-> 1]]

\* Mutant: confirmed >= places written as confirmed > places.
GetsPlaceOffByOne(rank) == Cardinality(Confirmed) + rank - 1 <= places

\* Whether the rank-th new child of a sign-up gets a place: the loop counts
\* every child it confirms, and once the places are taken every later child
\* waits, so rank - 1 children were confirmed before it exactly when all of
\* them got a place.
GetsPlace(rank) == Cardinality(Confirmed) + rank <= places

\* sign_up: the selected children not signed up yet, in the order they were
\* ticked.  Open registrations are checked under the lock.
SignUp(selected) ==
    LET new == selected \ Registered
    IN  /\ status = "open"
        /\ new # {}
        /\ \A c \in new : bookingMails[c] < MaxSignUps
        /\ \E rank \in Bijection(new, 1..Cardinality(new)) :
              /\ reg' = [c \in Children |->
                           IF c \notin new THEN reg[c]
                           ELSE IF GetsPlace(rank[c]) THEN "confirmed" ELSE "waiting"]
              /\ position' = [c \in Children |->
                                IF c \in new THEN LastPosition + rank[c] ELSE position[c]]
        /\ bookingMails' = [c \in Children |->
                              bookingMails[c] + (IF c \in new THEN 1 ELSE 0)]
        /\ UNCHANGED <<session, promotedMails, cancellations, request>>

\* Mutant: a second click on a cancelled registration is logged again.
RegistrationExistsOrLogged(c) == c \in Registered \/ cancellations[c] > 0

\* cancel: the registration as it is under the lock; None when it is gone.
RegistrationExists(c) == c \in Registered

\* cancel: log it, delete it, and give a freed confirmed place to the child
\* waiting longest.
Cancel(c) ==
    LET promoted == IF c \in Confirmed
                    THEN Promoted(places, Confirmed \ {c}, 1)
                    ELSE {}
    IN  /\ RegistrationExists(c)
        /\ cancellations' = [cancellations EXCEPT ![c] = @ + 1]
        /\ reg' = [d \in Children |-> IF d = c THEN "none"
                                      ELSE IF d \in promoted THEN "confirmed"
                                      ELSE reg[d]]
        /\ position' = [position EXCEPT ![c] = 0]
        /\ MailPromoted(promoted)
        /\ UNCHANGED <<session, bookingMails, request>>

-----------------------------------------------------------------------------
\* services.cancel: the session becomes cancelled, under its lock; once.
CancelSession ==
    /\ status # "cancelled"
    /\ status' = "cancelled"
    /\ UNCHANGED <<places, started, bookings, request>>

\* Its start time passes.
StartTimePasses ==
    /\ ~started
    /\ started' = TRUE
    /\ UNCHANGED <<status, places, bookings, request>>

\* dojo_event_detail and dojo_event_set_status load the session without a lock.
LoadSession(e, todo) ==
    /\ request[e].todo = "nothing"
    /\ request' = [request EXCEPT
                     ![e] = [todo |-> todo, status |-> status, places |-> places]]
    /\ UNCHANGED <<session, bookings>>

\* Mutant: the check on the number of places is gone.
NoPlacesProblem(p) == FALSE

\* session_problems: "A session needs at least one place."
PlacesProblem(p) == p < 1

\* EventForm.save: a full save() of the loaded row with the posted places and
\* times.  The status it writes is the loaded one.
SaveForm(e, newPlaces, inThePast) ==
    /\ request[e].todo = "save_form"
    /\ ~PlacesProblem(newPlaces)
    /\ status' = request[e].status
    /\ places' = newPlaces
    /\ started' = inThePast
    /\ request' = [request EXCEPT
                     ![e].todo = IF newPlaces > request[e].places
                                 THEN "fill" ELSE "nothing"]
    /\ UNCHANGED bookings

\* Mutant: a session that is called off is filled too.
FillsRegardless == TRUE

\* fill_free_places does nothing for a session that has started or is cancelled.
Fills == ~started /\ status # "cancelled"

\* The form's fill_free_places(event), a transaction of its own after the save.
FillFreePlaces(e) ==
    LET promoted == IF Fills THEN Promoted(places, Confirmed, NoCap) ELSE {}
    IN  /\ request[e].todo = "fill"
        /\ reg' = [c \in Children |-> IF c \in promoted THEN "confirmed" ELSE reg[c]]
        /\ MailPromoted(promoted)
        /\ request' = [request EXCEPT ![e].todo = "nothing"]
        /\ UNCHANGED <<session, position, bookingMails, cancellations>>

\* set_status: save(update_fields=["status"]), compared with the loaded status.
SaveStatus(e, newStatus) ==
    /\ request[e].todo = "save_status"
    /\ status' = IF newStatus # request[e].status THEN newStatus ELSE status
    /\ request' = [request EXCEPT ![e].todo = "nothing"]
    /\ UNCHANGED <<places, started, bookings>>

\* An invalid form, or a request that dies between its two transactions.
DropRequest(e) ==
    /\ request[e].todo # "nothing"
    /\ request' = [request EXCEPT ![e].todo = "nothing"]
    /\ UNCHANGED <<session, bookings>>

\* A row of the planning sync for this session (_sync_one, under its lock):
\* skipped once it has started or is cancelled, an error when the row's start
\* has passed.  More places are filled in the same transaction.  A row
\* without a status keeps the session's.
SyncSession(newPlaces, newStatus) ==
    LET promoted == IF newPlaces > places
                    THEN Promoted(newPlaces, Confirmed, NoCap) ELSE {}
    IN  /\ ~PlacesProblem(newPlaces)
        /\ ~started
        /\ status # "cancelled"
        /\ newPlaces # places \/ newStatus # status
        /\ places' = newPlaces
        /\ status' = newStatus
        /\ reg' = [c \in Children |-> IF c \in promoted THEN "confirmed" ELSE reg[c]]
        /\ MailPromoted(promoted)
        /\ UNCHANGED <<started, position, bookingMails, cancellations, request>>

Next ==
    \/ \E selected \in SUBSET Children : SignUp(selected)
    \/ \E c \in Children : Cancel(c)
    \/ CancelSession
    \/ StartTimePasses
    \/ \E e \in Editors :
         \/ LoadSession(e, "save_form")
         \/ LoadSession(e, "save_status")
         \/ \E p \in PostedPlaces, past \in BOOLEAN : SaveForm(e, p, past)
         \/ FillFreePlaces(e)
         \/ \E s \in Settable : SaveStatus(e, s)
         \/ DropRequest(e)
    \/ \E p \in PostedPlaces, s \in Settable : SyncSession(p, s)

Spec == Init /\ [][Next]_vars

-----------------------------------------------------------------------------
(* Properties *)

\* No two children of a session hold the same position: the queue has one
\* order (CAPACITY.md finding 1, registrations.py:74).
PositionsDistinct ==
    \A c, d \in Registered : position[c] = position[d] => c = d

\* Every sign-up of a child is still a registration or was logged as
\* cancelled exactly once: a second click on Cancel, or a sign-up of a child
\* who already has a place, changes nothing (registrations.py:66, 107).
EverySignUpAccountedFor ==
    \A c \in Children :
        bookingMails[c] = cancellations[c] + (IF c \in Registered THEN 1 ELSE 0)

\* A family on the waiting list was never told about a place in this
\* registration's life: at most one promotion mail per registration that
\* left the waiting list (registrations.py:148-151).
NobodyWaitingWasPromoted ==
    \A c \in Children :
        promotedMails[c] <= bookingMails[c] - (IF c \in Waiting THEN 1 ELSE 0)

\* The four together: none of the others is inductive without the types, and
\* the last rests on the third.
Inv ==
    /\ TypeOK
    /\ PositionsDistinct
    /\ EverySignUpAccountedFor
    /\ NobodyWaitingWasPromoted

\* A step that gives a child a place never leaves the session with more
\* confirmed children than places, whatever the team did to the places
\* before (registrations.py:80, 138-141).
NoOverbooking ==
    [][~(Confirmed' \subseteq Confirmed) => Cardinality(Confirmed') <= places']_vars

\* A child promoted from the waiting list had waited longer than every child
\* who still waits (registrations.py:147).
LongestWaitingFirst ==
    [][\A c \in Waiting \cap Confirmed', d \in Waiting \cap Waiting' :
          position[c] < position[d]]_vars

NoIdlePlace == Waiting # {} => Cardinality(Confirmed) >= places

\* Signing up, cancelling and filling never leave a place free beside a
\* waiting child: only a change of the number of places can
\* (registrations.py:80, 121).
OnlyPlacesChangesLeaveIdlePlaces ==
    [][NoIdlePlace /\ places' = places => NoIdlePlace']_vars

QueueOrder == \A c \in Confirmed, d \in Waiting : position[c] < position[d]

\* As long as no place was left free beside a waiting child, nobody who
\* signed up later is ahead of one who waits (models.py:214).
NobodyOvertakesAFullSession ==
    [][NoIdlePlace /\ QueueOrder => QueueOrder']_vars

\* A session that was called off gives no place away by the form's raise of
\* places: only a family that cancels makes room (registrations.py:133).
CalledOffSessionsAreNotFilled ==
    [][status = "cancelled" /\ ~(Confirmed' \subseteq Confirmed)
          => ~(Registered \subseteq Registered')]_vars

-----------------------------------------------------------------------------
(* What the repository says, and a run refutes *)

\* "saving the form never touches status" (event_pages.py:82): a session that
\* was called off is not opened again by a form that is saved.
SavingTheFormKeepsTheStatus ==
    [][(\E e \in Editors :
          request[e].todo = "save_form" /\ request'[e].todo # "save_form")
       /\ status = "cancelled"
          => status' = "cancelled"]_vars
=============================================================================

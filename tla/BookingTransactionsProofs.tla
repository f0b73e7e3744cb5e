--------------------- MODULE BookingTransactionsProofs ---------------------
(***************************************************************************)
(* For any number of families, team requests, children and places: the     *)
(* transactions of BookingTransactions, under their row lock, implement    *)
(* Registrations.  What a transaction has read stays true while it holds   *)
(* the lock, so what it writes is what one step of Registrations writes.   *)
(***************************************************************************)
EXTENDS BookingTransactions, FiniteSetTheorems, TLAPS

Row == [reg : {"none", "waiting", "confirmed"}, position : Nat]

WorkRecord ==
    [step : {"idle", "check", "book", "find", "promote", "write", "done"},
     todo : SUBSET Children, places : Nat, confirmed : Nat, position : Nat,
     rows : [Children -> Row], deleted : SUBSET Children, promoted : SUBSET Children]

Booked(w) == {c \in Children : w.rows[c] # Unbooked}

\* How many places are taken once the first n children of a sign-up are in.
Taken(n) == Cardinality(R!Confirmed) + n

MayBook(c) == c \notin R!Registered /\ bookingMails[c] < MaxSignUps

\* The children booked so far have the next positions, one each, and the
\* places that were left in that order.
BookedInOrder(w) ==
    LET last == R!LastPosition
        n == w.position - last
    IN  /\ w.position >= last
        /\ \A c \in Booked(w) :
             /\ w.rows[c].position \in (last + 1)..w.position
             /\ w.rows[c].reg = IF Taken(w.rows[c].position - last) <= places
                                THEN "confirmed" ELSE "waiting"
        /\ \A c, d \in Booked(w) : w.rows[c].position = w.rows[d].position => c = d
        /\ \A i \in (last + 1)..w.position : \E c \in Booked(w) : w.rows[c].position = i
        /\ IF Taken(n) <= places THEN w.confirmed = Taken(n) ELSE w.confirmed >= places

CheckReady(w) ==
    /\ status = "open"
    /\ \A c \in w.todo : c \in R!Registered \/ bookingMails[c] < MaxSignUps
    /\ \A c \in Children : w.rows[c] = Unbooked

BookReady(w) ==
    /\ status = "open"
    /\ w.todo \cap Booked(w) = {} /\ w.todo \cup Booked(w) # {}
    /\ \A c \in w.todo \cup Booked(w) : MayBook(c)
    /\ BookedInOrder(w)

FindReady(w) == (\E c \in Children : w.todo = {c}) /\ w.deleted = {} /\ w.promoted = {}

CancelReady(w) ==
    \E c \in R!Registered :
        /\ w.deleted = {c}
        /\ w.step = "promote" => c \in R!Confirmed
        /\ w.step = "write" =>
              w.promoted = IF c \in R!Confirmed THEN R!Promoted(places, R!Confirmed \ {c}, 1) ELSE {}

FillReady(e, w) ==
    /\ request[e].todo = "fill" /\ status # "cancelled" /\ w.deleted = {}
    /\ w.step = "write" => w.promoted = R!Promoted(places, R!Confirmed, R!NoCap)

ReadyAs(r, w, h) ==
    /\ r \in Families => w.step \in {"idle", "check", "book", "find", "promote", "write"}
    /\ r \in Editors => w.step \in {"idle", "promote", "write", "done"}
    /\ w.step # "idle" => h = r
    /\ w.step \notin {"idle", "done"} => w.places = places
    /\ w.step = "check" => CheckReady(w)
    /\ w.step = "book" => BookReady(w)
    /\ w.step = "find" => FindReady(w)
    /\ r \in Families /\ w.step \in {"promote", "write"} => CancelReady(w)
    /\ r \in Families /\ w.step = "promote" => w.promoted = {}
    /\ r \in Editors /\ w.step \in {"promote", "write"} => FillReady(r, w)

\* What a request has read is so, and only the one with the lock has read.
Ready(r) == ReadyAs(r, work[r], holder)

BookInv ==
    /\ R!TypeOK
    /\ work \in [Requests -> WorkRecord]
    /\ \A r \in Requests : Ready(r)

-----------------------------------------------------------------------------
(* Registrations' counting, here *)

P == INSTANCE RegistrationsProofs WITH started <- StartedSeen

LEMMA SameCounting ==
    ASSUME NEW S
    PROVE  /\ R!IsFiniteSet(S) <=> IsFiniteSet(S)
           /\ P!IsFiniteSet(S) <=> IsFiniteSet(S)
           /\ R!Cardinality(S) = Cardinality(S)
BY DEF R!IsFiniteSet, P!IsFiniteSet, IsFiniteSet, R!Cardinality, Cardinality

LEMMA LastPositionIsANumber == R!TypeOK => R!LastPosition \in Nat
<1> SUFFICES ASSUME R!TypeOK PROVE R!LastPosition \in Nat
  OBVIOUS
<1>1. P!TypeOK
  BY DEF R!TypeOK, P!TypeOK, R!Status, P!Status, R!Places, P!Places, R!Request, P!Request
<1>2. P!IsFiniteSet(Children) /\ MaxPlaces \in Nat \ {0} /\ MaxSignUps \in Nat
  BY ConstantsAssumption, SameCounting
<1>3. P!LastPosition \in Nat
  BY <1>1, <1>2, P!LastPositionBounds
<1>4. P!LastPosition = R!LastPosition
  BY DEF P!LastPosition, R!LastPosition, P!Max, R!Max, P!Registered, R!Registered, P!Waiting,
         R!Waiting, P!Confirmed, R!Confirmed
<1> QED BY <1>3, <1>4

LEMMA ConfirmedIsANumber == Cardinality(R!Confirmed) \in Nat
<1>1. R!Confirmed \in SUBSET Children
  BY DEF R!Confirmed
<1> QED BY <1>1, ConstantsAssumption, FS_Subset, FS_CardinalityType

-----------------------------------------------------------------------------
(* One request works at a time *)

LEMMA NoWorkRecord == NoWork \in WorkRecord /\ NoWork.step = "idle"
<1>1. [c \in Children |-> Unbooked] \in [Children -> Row]
  BY DEF Unbooked, Row
<1> QED BY <1>1 DEF NoWork, Work, WorkRecord

LEMMA NewWorkRecord ==
    ASSUME BookInv, NEW step \in {"check", "find", "promote"}, NEW todo \in SUBSET Children
    PROVE  LET w == Work(step, todo, places) IN
           /\ w \in WorkRecord /\ w.step = step /\ w.todo = todo /\ w.places = places
           /\ w.deleted = {} /\ w.promoted = {} /\ \A c \in Children : w.rows[c] = Unbooked
<1>1. [c \in Children |-> Unbooked] \in [Children -> Row]
  BY DEF Unbooked, Row
<1>2. places \in Nat
  BY ConstantsAssumption DEF BookInv, R!TypeOK, R!Places
<1> QED BY <1>1, <1>2 DEF Work, WorkRecord

LEMMA OthersAreIdle ==
    ASSUME BookInv, NEW r \in Requests, holder \in {r, NoOne}
    PROVE  \A q \in Requests : q # r => work[q].step = "idle"
BY RequestsAssumption DEF BookInv, Ready, ReadyAs, Requests

LEMMA NobodyWorks ==
    ASSUME BookInv, LockFree
    PROVE  (\A q \in Requests : work[q].step = "idle") /\ ~FillUnderWay
<1>1. \A q \in Requests : work[q].step = "idle"
  BY RequestsAssumption DEF BookInv, Ready, ReadyAs, Requests, LockFree
<1> QED BY <1>1 DEF FillUnderWay, Requests

LEMMA WhoeverWorksHolds ==
    ASSUME BookInv, NEW r \in Requests, work[r].step # "idle"
    PROVE  holder = r
BY DEF BookInv, Ready, ReadyAs

\* What a step of one request does to the others' work, and to whether a fill
\* is under way.
LEMMA OneWorks ==
    ASSUME BookInv, NEW r \in Requests, holder \in {r, NoOne}, NEW w \in WorkRecord,
           work' = [work EXCEPT ![r] = w]
    PROVE  /\ work' \in [Requests -> WorkRecord] /\ work'[r] = w
           /\ \A q \in Requests : q # r => work'[q] = work[q] /\ work'[q].step = "idle"
           /\ FillUnderWay <=> r \in Editors /\ work[r].step \in {"promote", "write", "done"}
           /\ FillUnderWay' <=> r \in Editors /\ w.step \in {"promote", "write", "done"}
<1>1. work' \in [Requests -> WorkRecord] /\ work'[r] = w /\ \A q \in Requests : q # r => work'[q] = work[q]
  BY DEF BookInv
<1>2. \A q \in Requests : q # r => work[q].step = "idle"
  BY OthersAreIdle
<1>3. \A q \in Requests : q # r => work'[q].step = "idle"
  BY <1>1, <1>2
<1> QED BY <1>1, <1>2, <1>3 DEF FillUnderWay, Requests

LEMMA IdleIsReady ==
    ASSUME NEW q \in Requests, work'[q].step = "idle"
    PROVE  Ready(q)'
<1>1. Ready(q)' <=> ReadyAs(q, work[q], holder)'
  BY DEF Ready
<1> QED BY <1>1 DEF ReadyAs

\* What a request has read stays so as long as nothing of it is committed.
LEMMA ReadyStays ==
    ASSUME NEW r, NEW w, NEW h, ReadyAs(r, w, h), work'[r] = w, holder' = h,
           UNCHANGED <<status, places, reg, position, bookingMails>>,
           r \in Editors => request'[r] = request[r]
    PROVE  Ready(r)'
<1>1. R!Confirmed' = R!Confirmed /\ R!Registered' = R!Registered
  BY DEF R!Registered, R!Waiting, R!Confirmed
<1>2. CheckReady(w) => CheckReady(w)'
  BY DEF CheckReady, R!Registered, R!Waiting, R!Confirmed
<1>3. BookReady(w) => BookReady(w)'
  BY DEF BookReady, MayBook, BookedInOrder, Taken, Booked, R!Registered, R!Waiting, R!Confirmed,
     R!LastPosition
<1>4. CancelReady(w) => CancelReady(w)'
  <2>1. \A c : R!Promoted(places, R!Confirmed \ {c}, 1)' = R!Promoted(places, R!Confirmed \ {c}, 1)
    BY DEF R!Promoted, R!FirstWaiting, R!Waiting, R!Confirmed
  <2> QED BY <1>1, <2>1 DEF CancelReady
<1>5. r \in Editors => (FillReady(r, w) => FillReady(r, w)')
  BY DEF FillReady, R!Waiting, R!Confirmed, R!Promoted, R!FirstWaiting, R!NoCap
<1>6. ReadyAs(r, w, h)'
  BY <1>2, <1>3, <1>4, <1>5 DEF ReadyAs, FindReady
<1> QED BY <1>6 DEF Ready

\* Nothing is committed: the request goes on.
LEMMA GoesOn ==
    ASSUME BookInv, NEW r \in Requests, holder \in {r, NoOne}, NEW w \in WorkRecord,
           work' = [work EXCEPT ![r] = w], UNCHANGED <<committed, started>>,
           NEW h, holder' = h, ReadyAs(r, w, h)
    PROVE  BookInv'
<1>1. /\ work' \in [Requests -> WorkRecord] /\ work'[r] = w
      /\ \A q \in Requests : q # r => work'[q] = work[q] /\ work'[q].step = "idle"
  BY OneWorks
<1>2. R!TypeOK'
  BY DEF BookInv, R!TypeOK, StartedSeen, committed, R!Status, R!Places, R!Request
<1>3. Ready(r)'
  BY <1>1, ReadyStays DEF committed
<1>4. \A q \in Requests : q # r => Ready(q)'
  BY <1>1, IdleIsReady
<1> QED BY <1>1, <1>2, <1>3, <1>4 DEF BookInv

\* Something is committed, and the request is done.
LEMMA Commits ==
    ASSUME BookInv, NEW r \in Requests, holder \in {r, NoOne}, NEW w \in WorkRecord,
           work' = [work EXCEPT ![r] = w],
           w.step = "idle" \/ (w.step = "done" /\ r \in Editors /\ holder' = r), R!TypeOK'
    PROVE  BookInv'
<1>1. /\ work' \in [Requests -> WorkRecord] /\ work'[r] = w
      /\ \A q \in Requests : q # r => work'[q] = work[q] /\ work'[q].step = "idle"
  BY OneWorks
<1>2. Ready(r)'
  <2>1. CASE w.step = "idle"
    BY <1>1, <2>1, IdleIsReady
  <2>2. CASE w.step = "done" /\ r \in Editors /\ holder' = r
    <3>1. Ready(r)' <=> ReadyAs(r, work[r], holder)'
      BY DEF Ready
    <3> QED BY <1>1, <2>2, <3>1, RequestsAssumption DEF ReadyAs
  <2> QED BY <2>1, <2>2
<1>3. \A q \in Requests : q # r => Ready(q)'
  BY <1>1, IdleIsReady
<1> QED BY <1>1, <1>2, <1>3 DEF BookInv

-----------------------------------------------------------------------------
(* The steps that commit nothing: to Registrations nothing happens *)

Implements == [R!Next]_(R!vars)

LEMMA NothingHappens ==
    ASSUME UNCHANGED committed, StartedSeen' = StartedSeen
    PROVE  Implements
BY DEF Implements, R!vars, committed

LEMMA Begins ==
    ASSUME BookInv, NEW r \in Requests, NEW step, NEW todo \in SUBSET Children,
           Begin(r, step, todo), UNCHANGED committed,
           \/ r \in Families /\ step = "check" /\ status = "open"
              /\ \A c \in todo : c \in R!Registered \/ bookingMails[c] < MaxSignUps
           \/ r \in Families /\ step = "find" /\ \E c \in Children : todo = {c}
           \/ r \in Editors /\ step = "promote" /\ request[r].todo = "fill" /\ R!Fills
    PROVE  BookInv' /\ Implements
<1>1. PICK w : w = Work(step, todo, places)
  OBVIOUS
<1>2. step \in {"check", "find", "promote"}
  OBVIOUS
<1>3. /\ w \in WorkRecord /\ w.step = step /\ w.todo = todo /\ w.places = places
      /\ w.deleted = {} /\ w.promoted = {} /\ \A c \in Children : w.rows[c] = Unbooked
  BY <1>1, <1>2, NewWorkRecord
<1>4. /\ work' = [work EXCEPT ![r] = w] /\ holder = NoOne /\ holder' = r
      /\ UNCHANGED <<committed, started>> /\ work[r].step = "idle"
  BY <1>1 DEF Begin, LockFree
<1>5. ReadyAs(r, w, r)
  BY <1>3, RequestsAssumption DEF ReadyAs, CheckReady, FindReady, FillReady, R!Fills
<1>6. BookInv'
  BY <1>3, <1>4, <1>5, GoesOn
<1>7. StartedSeen' = StartedSeen
  <2>1. /\ FillUnderWay <=> r \in Editors /\ work[r].step \in {"promote", "write", "done"}
        /\ FillUnderWay' <=> r \in Editors /\ w.step \in {"promote", "write", "done"}
    BY <1>3, <1>4, OneWorks
  <2>2. CASE r \in Families
    <3>1. r \notin Editors
      BY <2>2, RequestsAssumption
    <3> QED BY <1>4, <2>1, <3>1 DEF StartedSeen
  <2>3. CASE r \in Editors /\ R!Fills
    BY <1>4, <2>1, <2>3 DEF StartedSeen, R!Fills
  <2> QED BY <2>2, <2>3
<1> QED BY <1>4, <1>6, <1>7, NothingHappens

\* Its transaction ends and nothing is kept.
LEMMA EndsWithout ==
    ASSUME BookInv, NEW f \in Families, work[f].step # "idle", End(f), UNCHANGED committed
    PROVE  BookInv' /\ Implements
<1>1. PICK w : w = NoWork
  OBVIOUS
<1>2. f \in Requests /\ f \notin Editors
  BY RequestsAssumption DEF Requests
<1>3. holder = f /\ w \in WorkRecord /\ w.step = "idle"
  BY <1>1, <1>2, NoWorkRecord, WhoeverWorksHolds
<1>4. /\ work' = [work EXCEPT ![f] = w] /\ holder' = NoOne /\ UNCHANGED <<committed, started>>
  BY <1>1 DEF End
<1>5. ReadyAs(f, w, NoOne)
  BY <1>3 DEF ReadyAs
<1>6. BookInv'
  BY <1>2, <1>3, <1>4, <1>5, GoesOn
<1>7. StartedSeen' = StartedSeen
  <2>1. ~FillUnderWay /\ ~FillUnderWay'
    BY <1>2, <1>3, <1>4, OneWorks
  <2> QED BY <1>4, <2>1 DEF StartedSeen
<1> QED BY <1>4, <1>6, <1>7, NothingHappens

\* It goes on, with what it read.
LEMMA ReadsOn ==
    ASSUME BookInv, NEW r \in Requests, work[r].step # "idle", NEW w \in WorkRecord,
           Continue(r, w), ReadyAs(r, w, r),
           r \in Editors => (work[r].step \in {"promote", "write", "done"}
                               <=> w.step \in {"promote", "write", "done"})
    PROVE  BookInv' /\ Implements
<1>1. holder = r
  BY WhoeverWorksHolds
<1>2. work' = [work EXCEPT ![r] = w] /\ holder' = r /\ UNCHANGED <<committed, started>>
  BY <1>1 DEF Continue
<1>3. BookInv'
  BY <1>1, <1>2, GoesOn
<1>4. StartedSeen' = StartedSeen
  <2>1. FillUnderWay <=> FillUnderWay'
    BY <1>1, <1>2, OneWorks
  <2> QED BY <1>2, <2>1 DEF StartedSeen
<1> QED BY <1>2, <1>3, <1>4, NothingHappens

LEMMA ChecksChildren ==
    ASSUME BookInv, NEW f \in Families, CheckChildren(f)
    PROVE  BookInv' /\ Implements
<1> DEFINE new == work[f].todo \ R!Registered
<1>1. f \in Requests /\ work[f].step = "check" /\ work[f] \in WorkRecord
  BY DEF CheckChildren, Requests, BookInv
<1>2. CASE new = {}
  BY <1>1, <1>2, EndsWithout DEF CheckChildren
<1>3. CASE new # {}
  <2>1. PICK w : w = [work[f] EXCEPT !.step = "book", !.todo = new,
                                     !.confirmed = Cardinality(R!Confirmed),
                                     !.position = R!LastPosition]
    OBVIOUS
  <2>2. R!LastPosition \in Nat /\ Cardinality(R!Confirmed) \in Nat
    BY LastPositionIsANumber, ConfirmedIsANumber DEF BookInv
  <2>3. new \in SUBSET Children
    BY <1>1 DEF WorkRecord
  <2>4. /\ w \in WorkRecord /\ w.step = "book" /\ w.todo = new /\ w.places = work[f].places
        /\ w.confirmed = Cardinality(R!Confirmed) /\ w.position = R!LastPosition
        /\ w.rows = work[f].rows
    <3> HIDE DEF new
    <3> QED BY <1>1, <2>1, <2>2, <2>3 DEF WorkRecord
  <2>5. CheckReady(work[f]) /\ work[f].places = places
    BY <1>1 DEF BookInv, Ready, ReadyAs
  <2>6. Booked(w) = {}
    BY <2>4, <2>5 DEF CheckReady, Booked
  <2>7. BookReady(w)
    <3>1. status = "open" /\ w.todo \cap Booked(w) = {} /\ w.todo \cup Booked(w) # {}
      BY <1>3, <2>4, <2>5, <2>6 DEF CheckReady
    <3>2. \A c \in w.todo \cup Booked(w) : MayBook(c)
      BY <2>4, <2>5, <2>6 DEF CheckReady, MayBook
    <3>3. BookedInOrder(w)
      <4>1. R!LastPosition - R!LastPosition = 0 /\ (R!LastPosition + 1)..R!LastPosition = {}
        BY <2>2
      <4>2. Taken(0) = Cardinality(R!Confirmed)
        BY <2>2 DEF Taken
      <4>3. places \in Nat
        BY ConstantsAssumption DEF BookInv, R!TypeOK, R!Places
      <4> QED BY <2>2, <2>4, <2>6, <4>1, <4>2, <4>3 DEF BookedInOrder
    <3> QED BY <3>1, <3>2, <3>3 DEF BookReady
  <2>8. ReadyAs(f, w, f)
    BY <2>4, <2>5, <2>7, RequestsAssumption DEF ReadyAs
  <2>9. Continue(f, w)
    BY <1>3, <2>1 DEF CheckChildren
  <2> QED BY <1>1, <2>4, <2>8, <2>9, ReadsOn, RequestsAssumption
<1> QED BY <1>2, <1>3

LEMMA Finds ==
    ASSUME BookInv, NEW f \in Families, FindRegistration(f)
    PROVE  BookInv' /\ Implements
<1>1. f \in Requests /\ work[f].step = "find" /\ work[f] \in WorkRecord /\ f \notin Editors
  BY RequestsAssumption DEF FindRegistration, Requests, BookInv
<1>2. FindReady(work[f]) /\ work[f].places = places
  BY <1>1 DEF BookInv, Ready, ReadyAs
<1>3. PICK c \in work[f].todo :
        IF c \notin R!Registered
        THEN End(f) /\ UNCHANGED committed
        ELSE Continue(f, [work[f] EXCEPT
                            !.deleted = {c},
                            !.step = IF c \in R!Confirmed THEN "promote" ELSE "write"])
  BY DEF FindRegistration
<1>4. c \in Children
  BY <1>1 DEF WorkRecord
<1>5. CASE c \notin R!Registered
  BY <1>1, <1>3, <1>5, EndsWithout
<1>6. CASE c \in R!Registered
  <2>1. PICK step : step = IF c \in R!Confirmed THEN "promote" ELSE "write"
    OBVIOUS
  <2>2. PICK w : w = [work[f] EXCEPT !.deleted = {c}, !.step = step]
    OBVIOUS
  <2>3. /\ w \in WorkRecord /\ w.step = step /\ w.deleted = {c} /\ w.places = places
        /\ w.promoted = {}
    BY <1>1, <1>2, <1>4, <2>1, <2>2 DEF WorkRecord, FindReady
  <2>4. CancelReady(w)
    BY <1>6, <2>1, <2>3 DEF CancelReady
  <2>5. ReadyAs(f, w, f)
    BY <1>1, <2>1, <2>3, <2>4 DEF ReadyAs
  <2>6. Continue(f, w)
    BY <1>3, <1>6, <2>1, <2>2
  <2> QED BY <1>1, <2>3, <2>5, <2>6, ReadsOn
<1> QED BY <1>5, <1>6

LEMMA Promotes ==
    ASSUME BookInv, NEW r \in Requests, Promote(r)
    PROVE  BookInv' /\ Implements
<1> DEFINE cap == IF r \in Families THEN 1 ELSE R!NoCap
           promoted == R!Promoted(work[r].places, R!Confirmed \ work[r].deleted, cap)
<1>1. work[r].step = "promote" /\ work[r] \in WorkRecord /\ work[r].places = places
  BY DEF Promote, BookInv, Ready, ReadyAs
<1>2. promoted \in SUBSET Children
  BY DEF R!Promoted, R!FirstWaiting, R!Waiting
<1>3. PICK w : w = [work[r] EXCEPT !.step = "write", !.promoted = promoted]
  OBVIOUS
<1>4. /\ w \in WorkRecord /\ w.step = "write" /\ w.deleted = work[r].deleted /\ w.places = places
      /\ w.promoted = promoted
  <2> HIDE DEF promoted
  <2> QED BY <1>1, <1>2, <1>3 DEF WorkRecord
<1>5. ReadyAs(r, w, r)
  <2>1. CASE r \in Families
    <3>1. PICK c \in R!Registered : work[r].deleted = {c} /\ c \in R!Confirmed
      BY <1>1, <2>1 DEF BookInv, Ready, ReadyAs, CancelReady
    <3>2. promoted = R!Promoted(places, R!Confirmed \ {c}, 1)
      BY <1>1, <2>1, <3>1
    <3>3. CancelReady(w)
      BY <1>4, <3>1, <3>2 DEF CancelReady
    <3> QED BY <1>4, <2>1, <3>3, RequestsAssumption DEF ReadyAs
  <2>2. CASE r \in Editors
    <3>1. r \notin Families
      BY <2>2, RequestsAssumption
    <3>2. FillReady(r, work[r])
      BY <1>1, <2>2 DEF BookInv, Ready, ReadyAs
    <3>3. R!Confirmed \ work[r].deleted = R!Confirmed
      BY <3>2 DEF FillReady
    <3>4. promoted = R!Promoted(places, R!Confirmed, R!NoCap)
      BY <1>1, <3>1, <3>3
    <3>5. FillReady(r, w)
      BY <1>4, <3>2, <3>4 DEF FillReady
    <3> QED BY <1>4, <3>1, <3>5 DEF ReadyAs
  <2> QED BY <2>1, <2>2 DEF Requests
<1>6. Continue(r, w)
  BY <1>3 DEF Promote
<1> QED BY <1>1, <1>4, <1>5, <1>6, ReadsOn

-----------------------------------------------------------------------------
(* The loop of a sign-up, and its commit *)

\* What the sign-up has done once it booked one child more.
LEMMA OneMoreBooked ==
    ASSUME BookInv, NEW w \in WorkRecord, BookReady(w), w.places = places, NEW c \in w.todo,
           NEW now \in WorkRecord, NEW row,
           row = IF w.confirmed >= w.places THEN "waiting" ELSE "confirmed",
           now.todo = w.todo \ {c}, now.position = w.position + 1,
           now.confirmed = CountConfirmed(w.confirmed, row),
           now.rows = [w.rows EXCEPT ![c] = [reg |-> row, position |-> w.position + 1]]
    PROVE  BookReady(now)
<1> DEFINE last == R!LastPosition
           k == Cardinality(R!Confirmed)
<1>1. last \in Nat /\ k \in Nat /\ places \in Nat
  BY LastPositionIsANumber, ConfirmedIsANumber, ConstantsAssumption DEF BookInv, R!TypeOK, R!Places
<1>2. w.position \in Nat /\ w.confirmed \in Nat /\ w.position >= last /\ c \in Children
      /\ w.rows \in [Children -> Row]
  BY DEF WorkRecord, BookReady, BookedInOrder
<1>3. \A d \in Children : now.rows[d] = IF d = c THEN [reg |-> row, position |-> w.position + 1]
                                         ELSE w.rows[d]
  BY <1>2
<1>4. now.rows[c] # Unbooked /\ now.rows[c].reg = row /\ now.rows[c].position = w.position + 1
  BY <1>2, <1>3 DEF Unbooked
<1>5. Booked(now) = Booked(w) \cup {c} /\ c \notin Booked(w)
  <2>1. c \notin Booked(w)
    BY DEF BookReady
  <2> QED BY <1>2, <1>3, <1>4, <2>1 DEF Booked
<1>6. \A d \in Booked(w) : now.rows[d] = w.rows[d] /\ d # c
  BY <1>3, <1>5 DEF Booked
<1>7. /\ \A d \in Booked(w) :
           /\ w.rows[d].position \in (last + 1)..w.position
           /\ w.rows[d].reg = IF k + (w.rows[d].position - last) <= places
                              THEN "confirmed" ELSE "waiting"
      /\ \A d, e \in Booked(w) : w.rows[d].position = w.rows[e].position => d = e
      /\ \A i \in (last + 1)..w.position : \E d \in Booked(w) : w.rows[d].position = i
      /\ IF k + (w.position - last) <= places
         THEN w.confirmed = k + (w.position - last) ELSE w.confirmed >= places
  BY DEF BookReady, BookedInOrder, Taken
<1> HIDE DEF last, k
<1>8. row = IF k + (w.position + 1 - last) <= places THEN "confirmed" ELSE "waiting"
  <2>1. CASE k + (w.position - last) <= places
    BY <1>1, <1>2, <1>7, <2>1
  <2>2. CASE ~(k + (w.position - last) <= places)
    BY <1>1, <1>2, <1>7, <2>2
  <2> QED BY <2>1, <2>2
<1>9. IF k + (w.position + 1 - last) <= places
      THEN now.confirmed = k + (w.position + 1 - last) ELSE now.confirmed >= places
  <2>1. now.confirmed = IF row = "confirmed" THEN w.confirmed + 1 ELSE w.confirmed
    BY DEF CountConfirmed
  <2>2. CASE k + (w.position + 1 - last) <= places
    <3>1. k + (w.position - last) <= places /\ row = "confirmed"
      BY <1>1, <1>2, <1>8, <2>2
    <3>2. w.confirmed = k + (w.position - last)
      BY <1>7, <3>1
    <3> QED BY <1>1, <1>2, <2>1, <2>2, <3>1, <3>2
  <2>3. CASE ~(k + (w.position + 1 - last) <= places)
    <3>1. row = "waiting" /\ w.confirmed >= places
      BY <1>1, <1>2, <1>7, <1>8, <2>3
    <3> QED BY <2>1, <2>3, <3>1
  <2> QED BY <2>2, <2>3
<1>10. \A d \in Booked(now) :
          /\ now.rows[d].position \in (last + 1)..now.position
          /\ now.rows[d].reg = IF k + (now.rows[d].position - last) <= places
                               THEN "confirmed" ELSE "waiting"
  <2>1. ASSUME NEW d \in Booked(w)
        PROVE  /\ now.rows[d].position \in (last + 1)..now.position
               /\ now.rows[d].reg = IF k + (now.rows[d].position - last) <= places
                                    THEN "confirmed" ELSE "waiting"
    <3>1. now.rows[d] = w.rows[d]
      BY <1>6
    <3>2. w.rows[d].position \in (last + 1)..w.position
      BY <1>7
    <3>3. w.rows[d].position \in (last + 1)..(w.position + 1)
      BY <1>1, <1>2, <3>2
    <3> QED BY <1>7, <3>1, <3>3
  <2>2. w.position + 1 \in (last + 1)..now.position
    BY <1>1, <1>2
  <2>3. /\ now.rows[c].position \in (last + 1)..now.position
        /\ now.rows[c].reg = IF k + (now.rows[c].position - last) <= places
                             THEN "confirmed" ELSE "waiting"
    <3>1. now.rows[c].position - last = w.position + 1 - last
      BY <1>1, <1>2, <1>4
    <3> QED BY <1>4, <1>8, <2>2, <3>1
  <2> QED BY <1>5, <2>1, <2>3
<1>11. \A d, e \in Booked(now) : now.rows[d].position = now.rows[e].position => d = e
  <2>1. \A d \in Booked(w) : w.rows[d].position # w.position + 1
    BY <1>1, <1>2, <1>7
  <2> QED BY <1>4, <1>5, <1>6, <1>7, <2>1
<1>12. \A i \in (last + 1)..now.position : \E d \in Booked(now) : now.rows[d].position = i
  <2> SUFFICES ASSUME NEW i \in (last + 1)..now.position
               PROVE  \E d \in Booked(now) : now.rows[d].position = i
    OBVIOUS
  <2>1. CASE i = w.position + 1
    BY <1>4, <1>5, <2>1
  <2>2. CASE i # w.position + 1
    <3>1. i \in (last + 1)..w.position
      BY <1>1, <1>2, <2>2
    <3>2. PICK d \in Booked(w) : w.rows[d].position = i
      BY <1>7, <3>1
    <3> QED BY <1>5, <1>6, <3>2
  <2> QED BY <2>1, <2>2
<1>13. now.position >= last
  BY <1>1, <1>2
<1>14. BookedInOrder(now)
  <2>1. IF k + (now.position - last) <= places
        THEN now.confirmed = k + (now.position - last) ELSE now.confirmed >= places
    <3>1. now.position - last = w.position + 1 - last
      BY <1>1, <1>2
    <3> QED BY <1>9, <3>1
  <2> QED BY <1>10, <1>11, <1>12, <1>13, <2>1 DEF BookedInOrder, Taken, last, k
<1>15. /\ status = "open" /\ now.todo \cap Booked(now) = {} /\ now.todo \cup Booked(now) # {}
       /\ \A d \in now.todo \cup Booked(now) : MayBook(d)
  BY <1>5 DEF BookReady
<1> QED BY <1>14, <1>15 DEF BookReady

LEMMA BooksChild ==
    ASSUME BookInv, NEW f \in Families, NEW c \in Children, BookChild(f, c)
    PROVE  BookInv' /\ Implements
<1> DEFINE row == IF work[f].confirmed >= work[f].places THEN "waiting" ELSE "confirmed"
           rows == [work[f].rows EXCEPT ![c] = [reg |-> row, position |-> work[f].position + 1]]
<1>1. /\ f \in Requests /\ f \notin Editors /\ work[f].step = "book" /\ work[f] \in WorkRecord
      /\ c \in work[f].todo
  BY RequestsAssumption DEF BookChild, Requests, BookInv
<1>2. BookReady(work[f]) /\ work[f].places = places
  BY <1>1 DEF BookInv, Ready, ReadyAs
<1>3. /\ work[f].position \in Nat /\ work[f].confirmed \in Nat /\ work[f].rows \in [Children -> Row]
      /\ work[f].todo \in SUBSET Children
  BY <1>1 DEF WorkRecord
<1>4. rows \in [Children -> Row] /\ CountConfirmed(work[f].confirmed, row) \in Nat
  BY <1>3 DEF Row, CountConfirmed
<1>5. PICK w : w = [work[f] EXCEPT
                      !.todo = @ \ {c}, !.position = @ + 1,
                      !.confirmed = CountConfirmed(@, row), !.rows = rows]
  OBVIOUS
<1>6. /\ w \in WorkRecord /\ w.step = "book" /\ w.todo = work[f].todo \ {c}
      /\ w.position = work[f].position + 1 /\ w.rows = rows /\ w.places = places
      /\ w.confirmed = CountConfirmed(work[f].confirmed, row)
  <2>1. PICK old \in WorkRecord : old = work[f]
    BY <1>1
  <2>2. PICK todo \in SUBSET Children : todo = work[f].todo \ {c}
    BY <1>3
  <2>3. PICK last \in Nat : last = work[f].position + 1
    BY <1>3
  <2>4. PICK confirmed \in Nat : confirmed = CountConfirmed(work[f].confirmed, row)
    BY <1>4
  <2>5. PICK booked \in [Children -> Row] : booked = rows
    BY <1>4
  <2>6. w = [old EXCEPT !.todo = todo, !.position = last, !.confirmed = confirmed, !.rows = booked]
    BY <1>5, <2>1, <2>2, <2>3, <2>4, <2>5
  <2>7. /\ w \in WorkRecord /\ w.step = old.step /\ w.places = old.places /\ w.todo = todo
        /\ w.position = last /\ w.confirmed = confirmed /\ w.rows = booked
    BY <2>6 DEF WorkRecord
  <2> QED BY <1>1, <1>2, <2>1, <2>2, <2>3, <2>4, <2>5, <2>7
<1>7. BookReady(w)
  <2>1. PICK now \in WorkRecord : now = work[f]
    BY <1>1
  <2> QED BY <1>1, <1>2, <1>6, <2>1, OneMoreBooked
<1>8. ReadyAs(f, w, f)
  BY <1>1, <1>6, <1>7 DEF ReadyAs
<1>9. Continue(f, w)
  BY <1>5 DEF BookChild
<1> QED BY <1>1, <1>6, <1>8, <1>9, ReadsOn

LEMMA CommitsSignUp ==
    ASSUME BookInv, NEW f \in Families, CommitSignUp(f)
    PROVE  BookInv' /\ Implements
<1> DEFINE w == work[f]
           booked == Booked(w)
           last == R!LastPosition
           rank == [c \in booked |-> w.rows[c].position - last]
<1>1. f \in Requests /\ f \notin Editors /\ w.step = "book" /\ w \in WorkRecord /\ w.todo = {}
  BY RequestsAssumption DEF CommitSignUp, Requests, BookInv
<1>2. /\ reg' = [c \in Children |-> IF c \in booked THEN w.rows[c].reg ELSE reg[c]]
      /\ position' = [c \in Children |-> IF c \in booked THEN w.rows[c].position ELSE position[c]]
      /\ bookingMails' = [c \in Children |-> bookingMails[c] + (IF c \in booked THEN 1 ELSE 0)]
      /\ UNCHANGED <<status, places, started, promotedMails, cancellations, request>>
      /\ work' = [work EXCEPT ![f] = NoWork]
  BY DEF CommitSignUp, End, Booked
<1>3. BookReady(w) /\ holder = f
  BY <1>1, WhoeverWorksHolds DEF BookInv, Ready, ReadyAs
<1>4. booked \subseteq Children /\ booked # {} /\ booked \cap R!Registered = {}
      /\ \A c \in booked : bookingMails[c] < MaxSignUps
  BY <1>1, <1>3 DEF BookReady, MayBook, Booked
<1>5. last \in Nat /\ w.position \in Nat /\ w.position >= last /\ w.rows \in [Children -> Row]
  BY <1>1, <1>3, LastPositionIsANumber DEF BookInv, WorkRecord, BookReady, BookedInOrder
<1>6. PICK n \in Nat : n = w.position - last
  BY <1>5
<1>7. /\ \A c \in booked : rank[c] \in 1..n /\ w.rows[c].position = last + rank[c]
      /\ \A c, d \in booked : rank[c] = rank[d] => c = d
      /\ \A i \in 1..n : \E c \in booked : rank[c] = i
  <2>1. /\ \A c \in booked : w.rows[c].position \in (last + 1)..w.position
        /\ \A c, d \in booked : w.rows[c].position = w.rows[d].position => c = d
        /\ \A i \in (last + 1)..w.position : \E c \in booked : w.rows[c].position = i
    BY <1>3 DEF BookReady, BookedInOrder
  <2> HIDE DEF w, booked, last
  <2>2. \A c \in booked : rank[c] \in 1..n /\ w.rows[c].position = last + rank[c]
    BY <1>5, <1>6, <2>1
  <2>3. \A c, d \in booked : rank[c] = rank[d] => c = d
    BY <2>1, <2>2
  <2>4. ASSUME NEW i \in 1..n PROVE \E c \in booked : rank[c] = i
    <3>1. last + i \in (last + 1)..w.position
      BY <1>5, <1>6
    <3>2. PICK c \in booked : w.rows[c].position = last + i
      BY <2>1, <3>1
    <3> QED BY <1>5, <3>2
  <2> QED BY <2>2, <2>3, <2>4
<1>8. rank \in Bijection(booked, 1..n)
  <2> HIDE DEF w, booked, last
  <2>1. rank \in [booked -> 1..n]
    BY <1>7
  <2> QED BY <1>7, <2>1 DEF Bijection, Injection, Surjection, IsInjective
<1>9. R!Cardinality(booked) = n
  <2>1. IsFiniteSet(booked)
    BY <1>4, ConstantsAssumption, FS_Subset
  <2>2. ExistsBijection(booked, 1..n)
    BY <1>8 DEF ExistsBijection
  <2>3. Cardinality(1..n) = Cardinality(booked)
    BY <2>1, <2>2, FS_Bijection
  <2>4. Cardinality(1..n) = n
    BY FS_Interval
  <2> QED BY <2>3, <2>4, SameCounting
<1>10. rank \in R!Bijection(booked, 1..R!Cardinality(booked))
  BY <1>8, <1>9 DEF Bijection, Injection, Surjection, IsInjective,
     R!Bijection, R!Injection, R!Surjection, R!IsInjective
<1>11. /\ reg' = [c \in Children |->
                    IF c \notin booked THEN reg[c]
                    ELSE IF R!GetsPlace(rank[c]) THEN "confirmed" ELSE "waiting"]
       /\ position' = [c \in Children |->
                         IF c \in booked THEN R!LastPosition + rank[c] ELSE position[c]]
  <2>1. \A c \in booked : w.rows[c].reg = IF R!GetsPlace(rank[c]) THEN "confirmed" ELSE "waiting"
    <3>1. \A c \in booked : w.rows[c].reg = IF Taken(w.rows[c].position - last) <= places
                                           THEN "confirmed" ELSE "waiting"
      BY <1>3 DEF BookReady, BookedInOrder
    <3>2. R!Cardinality(R!Confirmed) = Cardinality(R!Confirmed)
      BY SameCounting
    <3> QED BY <3>1, <3>2 DEF Taken, R!GetsPlace
  <2> HIDE DEF w, booked, rank
  <2>2. \A c \in booked : w.rows[c].position = R!LastPosition + rank[c]
    BY <1>7
  <2> QED BY <1>2, <2>1, <2>2
<1>12. StartedSeen' = StartedSeen
  <2>1. ~FillUnderWay /\ ~FillUnderWay'
    <3>1. PICK none \in WorkRecord : none = NoWork
      BY NoWorkRecord
    <3> QED BY <1>1, <1>2, <1>3, <3>1, OneWorks
  <2> QED BY <1>2, <2>1 DEF StartedSeen
<1>13. R!SignUp(booked)
  <2>1. booked \ R!Registered = booked
    BY <1>4
  <2>2. status = "open"
    BY <1>3 DEF BookReady
  <2> HIDE DEF booked, rank, w
  <2>3. rank \in R!Bijection(booked \ R!Registered, 1..R!Cardinality(booked \ R!Registered))
    BY <1>10, <2>1
  <2>4. /\ reg' = [c \in Children |->
                     IF c \notin booked \ R!Registered THEN reg[c]
                     ELSE IF R!GetsPlace(rank[c]) THEN "confirmed" ELSE "waiting"]
        /\ position' = [c \in Children |->
                          IF c \in booked \ R!Registered THEN R!LastPosition + rank[c]
                          ELSE position[c]]
    BY <1>11, <2>1
  <2>5. bookingMails' = [c \in Children |->
                           bookingMails[c] + (IF c \in booked \ R!Registered THEN 1 ELSE 0)]
    BY <1>2, <2>1
  <2>6. booked \ R!Registered # {} /\ \A c \in booked \ R!Registered : bookingMails[c] < MaxSignUps
    BY <1>4, <2>1
  <2>7. UNCHANGED <<R!session, promotedMails, cancellations, request>>
    BY <1>2, <1>12 DEF R!session
  <2> QED BY <2>2, <2>3, <2>4, <2>5, <2>6, <2>7 DEF R!SignUp
<1>14. Implements
  BY <1>4, <1>13 DEF Implements, R!Next
<1>15. R!TypeOK'
  <2>1. \A c \in booked : w.rows[c].reg \in {"none", "waiting", "confirmed"} /\ w.rows[c].position \in Nat
    BY <1>4, <1>5 DEF Row
  <2> HIDE DEF booked, w
  <2>2. /\ reg' \in [Children -> {"none", "waiting", "confirmed"}] /\ position' \in [Children -> Nat]
        /\ bookingMails' \in [Children -> Nat]
    BY <1>2, <2>1 DEF BookInv, R!TypeOK
  <2> QED BY <1>2, <1>12, <2>2 DEF BookInv, R!TypeOK, R!Status, R!Places, R!Request
<1>16. BookInv'
  <2>1. PICK none \in WorkRecord : none = NoWork /\ none.step = "idle"
    BY NoWorkRecord
  <2> QED BY <1>1, <1>2, <1>3, <1>15, <2>1, Commits
<1> QED BY <1>14, <1>16

-----------------------------------------------------------------------------
(* Cancelling and filling *)

\* What a cancellation or a fill writes.
LEMMA WritesTypes ==
    ASSUME BookInv, NEW r \in Requests, WriteRegistrations(r)
    PROVE  /\ reg' \in [Children -> {"none", "waiting", "confirmed"}]
           /\ position' \in [Children -> Nat] /\ promotedMails' \in [Children -> Nat]
           /\ cancellations' \in [Children -> Nat]
BY DEF WriteRegistrations, R!MailPromoted, BookInv, R!TypeOK

LEMMA CommitsCancel ==
    ASSUME BookInv, NEW f \in Families, CommitCancel(f)
    PROVE  BookInv' /\ Implements
<1>1. f \in Requests /\ f \notin Editors /\ work[f].step = "write"
  BY RequestsAssumption DEF CommitCancel, Requests
<1>2. /\ WriteRegistrations(f) /\ UNCHANGED <<status, places, started, bookingMails, request>>
      /\ work' = [work EXCEPT ![f] = NoWork]
  BY DEF CommitCancel, End
<1>3. CancelReady(work[f]) /\ holder = f
  BY <1>1, WhoeverWorksHolds DEF BookInv, Ready, ReadyAs
<1>4. PICK none \in WorkRecord : none = NoWork /\ none.step = "idle"
  BY NoWorkRecord
<1>5. StartedSeen' = StartedSeen
  <2>1. ~FillUnderWay /\ ~FillUnderWay'
    BY <1>1, <1>2, <1>3, <1>4, OneWorks
  <2> QED BY <1>2, <2>1 DEF StartedSeen
<1>6. PICK c \in R!Registered :
        /\ work[f].deleted = {c}
        /\ work[f].promoted = IF c \in R!Confirmed THEN R!Promoted(places, R!Confirmed \ {c}, 1) ELSE {}
  BY <1>1, <1>3 DEF CancelReady
<1>7. c \in Children
  BY DEF R!Registered, R!Waiting, R!Confirmed
<1> DEFINE promoted == IF c \in R!Confirmed THEN R!Promoted(places, R!Confirmed \ {c}, 1) ELSE {}
<1>8. work[f].promoted = promoted
  BY <1>6
<1> HIDE DEF promoted
<1>9. /\ reg' = [d \in Children |-> IF d = c THEN "none" ELSE IF d \in promoted THEN "confirmed" ELSE reg[d]]
      /\ R!MailPromoted(promoted)
  BY <1>2, <1>6, <1>8 DEF WriteRegistrations, R!MailPromoted
<1>10. position' = [position EXCEPT ![c] = 0] /\ cancellations' = [cancellations EXCEPT ![c] = @ + 1]
  <2>1. position \in [Children -> Nat] /\ cancellations \in [Children -> Nat]
    BY DEF BookInv, R!TypeOK
  <2>2. /\ position' = [d \in Children |-> IF d = c THEN 0 ELSE position[d]]
        /\ cancellations' = [d \in Children |-> cancellations[d] + (IF d = c THEN 1 ELSE 0)]
    BY <1>2, <1>6 DEF WriteRegistrations
  <2>3. position' = [position EXCEPT ![c] = 0]
    BY <1>7, <2>1, <2>2
  <2>4. \A d \in Children : cancellations[d] \in Nat /\ cancellations[d] + 0 = cancellations[d]
    BY <2>1
  <2>5. cancellations' = [d \in Children |-> IF d = c THEN cancellations[c] + 1 ELSE cancellations[d]]
    BY <2>2, <2>4
  <2>6. cancellations' = [cancellations EXCEPT ![c] = @ + 1]
    BY <1>7, <2>1, <2>5
  <2> QED BY <2>3, <2>6
<1>11. R!Cancel(c)
  <2>1. UNCHANGED <<R!session, bookingMails, request>> /\ R!RegistrationExists(c)
    BY <1>2, <1>5 DEF R!RegistrationExists, R!session
  <2> QED BY <1>9, <1>10, <2>1 DEF R!Cancel, promoted
<1>12. Implements
  BY <1>7, <1>11 DEF Implements, R!Next
<1>13. R!TypeOK'
  <2>1. /\ reg' \in [Children -> {"none", "waiting", "confirmed"}]
        /\ position' \in [Children -> Nat] /\ promotedMails' \in [Children -> Nat]
        /\ cancellations' \in [Children -> Nat]
    BY <1>1, <1>2, WritesTypes
  <2> QED BY <1>2, <1>5, <2>1 DEF BookInv, R!TypeOK, R!Status, R!Places, R!Request
<1> QED BY <1>1, <1>2, <1>3, <1>4, <1>12, <1>13, Commits

LEMMA RequestDone ==
    ASSUME BookInv, NEW e \in Editors, request' = [request EXCEPT ![e].todo = "nothing"]
    PROVE  request' \in [Editors -> R!Request]
<1>1. request[e] \in R!Request /\ request \in [Editors -> R!Request]
  BY DEF BookInv, R!TypeOK
<1>2. PICK s : s = [request[e] EXCEPT !.todo = "nothing"]
  OBVIOUS
<1>3. s \in R!Request
  BY <1>1, <1>2 DEF R!Request
<1>4. request' = [request EXCEPT ![e] = s]
  BY <1>2
<1> QED BY <1>1, <1>3, <1>4

LEMMA CommitsFill ==
    ASSUME BookInv, NEW e \in Editors, CommitFill(e)
    PROVE  BookInv' /\ Implements
<1>1. e \in Requests /\ work[e].step = "write" /\ work[e] \in WorkRecord
  BY DEF CommitFill, Requests, BookInv
<1>2. /\ WriteRegistrations(e) /\ UNCHANGED <<status, places, started, bookingMails, holder>>
      /\ request' = [request EXCEPT ![e].todo = "nothing"]
  BY DEF CommitFill
<1>3. FillReady(e, work[e]) /\ holder = e
  BY <1>1, WhoeverWorksHolds DEF BookInv, Ready, ReadyAs
<1>4. PICK w : w = [work[e] EXCEPT !.step = "done"]
  OBVIOUS
<1>5. w \in WorkRecord /\ w.step = "done"
  BY <1>1, <1>4 DEF WorkRecord
<1>6. work' = [work EXCEPT ![e] = w]
  BY <1>4 DEF CommitFill
<1>7. StartedSeen = FALSE /\ StartedSeen' = FALSE
  <2>1. FillUnderWay /\ FillUnderWay'
    BY <1>1, <1>3, <1>5, <1>6, OneWorks
  <2> QED BY <2>1 DEF StartedSeen
<1>8. /\ work[e].promoted = R!Promoted(places, R!Confirmed, R!NoCap) /\ work[e].deleted = {}
      /\ R!Fills /\ request[e].todo = "fill"
  BY <1>1, <1>3, <1>7 DEF FillReady, R!Fills
<1> DEFINE promoted == IF R!Fills THEN R!Promoted(places, R!Confirmed, R!NoCap) ELSE {}
<1>9. work[e].promoted = promoted
  BY <1>8
<1> HIDE DEF promoted
<1>10. /\ reg' = [c \in Children |-> IF c \in promoted THEN "confirmed" ELSE reg[c]]
       /\ R!MailPromoted(promoted)
  BY <1>2, <1>8, <1>9 DEF WriteRegistrations, R!MailPromoted
<1>11. position' = position /\ cancellations' = cancellations
  <2>1. position \in [Children -> Nat] /\ cancellations \in [Children -> Nat]
    BY DEF BookInv, R!TypeOK
  <2>2. /\ position' = [c \in Children |-> position[c]]
        /\ cancellations' = [c \in Children |-> cancellations[c] + 0]
    BY <1>2, <1>8 DEF WriteRegistrations
  <2>3. \A c \in Children : cancellations[c] \in Nat /\ cancellations[c] + 0 = cancellations[c]
    BY <2>1
  <2> QED BY <2>1, <2>2, <2>3
<1>12. R!FillFreePlaces(e)
  <2>1. UNCHANGED <<R!session, position, bookingMails, cancellations>>
    BY <1>2, <1>7, <1>11 DEF R!session
  <2> QED BY <1>2, <1>8, <1>10, <2>1 DEF R!FillFreePlaces, promoted
<1>13. Implements
  BY <1>12 DEF Implements, R!Next
<1>14. R!TypeOK'
  <2>1. request' \in [Editors -> R!Request]
    BY <1>2, RequestDone
  <2>2. /\ reg' \in [Children -> {"none", "waiting", "confirmed"}]
        /\ position' \in [Children -> Nat] /\ promotedMails' \in [Children -> Nat]
        /\ cancellations' \in [Children -> Nat]
    BY <1>1, <1>2, WritesTypes
  <2>3. StartedSeen' \in BOOLEAN
    BY <1>7
  <2> QED BY <1>2, <2>1, <2>2, <2>3 DEF BookInv, R!TypeOK, R!Status, R!Places, R!Request
<1> QED BY <1>1, <1>2, <1>3, <1>5, <1>6, <1>13, <1>14, Commits

\* A fill that has nothing to do, or dies: to Registrations the request is
\* dropped.
LEMMA FillDropped ==
    ASSUME BookInv, NEW e \in Editors, request[e].todo = "fill",
           request' = [request EXCEPT ![e].todo = "nothing"], StartedSeen' = StartedSeen,
           UNCHANGED <<status, places, reg, position, bookingMails, promotedMails, cancellations>>
    PROVE  R!TypeOK' /\ Implements
<1>1. request' \in [Editors -> R!Request]
  BY RequestDone
<1>2. R!TypeOK'
  BY <1>1 DEF BookInv, R!TypeOK, R!Status, R!Places
<1>3. R!DropRequest(e)
  BY DEF R!DropRequest, R!session, R!bookings
<1> QED BY <1>2, <1>3 DEF Implements, R!Next

LEMMA BeginsFill ==
    ASSUME BookInv, NEW e \in Editors, BeginFill(e)
    PROVE  BookInv' /\ Implements
<1>1. e \in Requests
  BY DEF Requests
<1>2. CASE R!Fills
  <2>1. Begin(e, "promote", {}) /\ UNCHANGED committed /\ request[e].todo = "fill"
    BY <1>2 DEF BeginFill
  <2> QED BY <1>1, <1>2, <2>1, Begins
<1>3. CASE ~R!Fills
  <2>1. /\ request[e].todo = "fill" /\ work[e].step = "idle" /\ LockFree
        /\ request' = [request EXCEPT ![e].todo = "nothing"]
        /\ UNCHANGED <<status, places, reg, position, bookingMails, promotedMails,
                       cancellations, started, holder, work>>
    BY <1>3 DEF BeginFill
  <2>2. StartedSeen' = StartedSeen
    BY <2>1 DEF StartedSeen, FillUnderWay
  <2>3. R!TypeOK' /\ Implements
    BY <2>1, <2>2, FillDropped
  <2>4. ASSUME NEW q \in Requests PROVE Ready(q)'
    <3>1. work'[q].step = "idle"
      BY <2>1, NobodyWorks
    <3> QED BY <3>1, IdleIsReady
  <2>5. BookInv'
    BY <2>1, <2>3, <2>4 DEF BookInv
  <2> QED BY <2>3, <2>5
<1> QED BY <1>2, <1>3

LEMMA RollsBackFill ==
    ASSUME BookInv, NEW e \in Editors, RollBackFill(e)
    PROVE  BookInv' /\ Implements
<1>1. e \in Requests /\ work[e].step \in {"promote", "write"}
  BY DEF RollBackFill, Requests
<1>2. FillReady(e, work[e]) /\ holder = e
  BY <1>1, WhoeverWorksHolds DEF BookInv, Ready, ReadyAs
<1>3. PICK w : w = Work("done", {}, 0)
  OBVIOUS
<1>4. w \in WorkRecord /\ w.step = "done"
  <2>1. [c \in Children |-> Unbooked] \in [Children -> Row]
    BY DEF Unbooked, Row
  <2> QED BY <1>3, <2>1 DEF Work, WorkRecord
<1>5. /\ work' = [work EXCEPT ![e] = w] /\ request' = [request EXCEPT ![e].todo = "nothing"]
      /\ UNCHANGED <<status, places, reg, position, bookingMails, promotedMails, cancellations,
                     started, holder>>
  BY <1>3 DEF RollBackFill
<1>6. StartedSeen' = StartedSeen
  <2>1. FillUnderWay /\ FillUnderWay'
    BY <1>1, <1>2, <1>4, <1>5, OneWorks
  <2> QED BY <2>1 DEF StartedSeen
<1>7. R!TypeOK' /\ Implements
  BY <1>2, <1>5, <1>6, FillDropped DEF FillReady
<1> QED BY <1>1, <1>2, <1>4, <1>5, <1>7, Commits

LEMMA TimePasses ==
    ASSUME UNCHANGED <<status, places, reg, position, bookingMails, promotedMails, cancellations, request>>,
           StartedSeen' = StartedSeen \/ (StartedSeen = FALSE /\ StartedSeen' = TRUE)
    PROVE  Implements
<1>1. CASE StartedSeen' = StartedSeen
  BY <1>1, NothingHappens DEF committed
<1>2. CASE StartedSeen = FALSE /\ StartedSeen' = TRUE
  <2>1. R!StartTimePasses
    BY <1>2 DEF R!StartTimePasses, R!bookings
  <2> QED BY <2>1 DEF Implements, R!Next
<1> QED BY <1>1, <1>2

\* The start time that passed during the fill is seen when its lock is released.
LEMMA EndsFill ==
    ASSUME BookInv, NEW e \in Editors, EndFill(e)
    PROVE  BookInv' /\ Implements
<1>1. e \in Requests /\ work[e].step = "done"
  BY DEF EndFill, Requests
<1>2. holder = e
  BY <1>1, WhoeverWorksHolds
<1>3. PICK w \in WorkRecord : w = NoWork /\ w.step = "idle"
  BY NoWorkRecord
<1>4. work' = [work EXCEPT ![e] = w] /\ holder' = NoOne /\ UNCHANGED <<committed, started>>
  BY <1>3 DEF EndFill, End
<1>5. FillUnderWay /\ ~FillUnderWay'
  BY <1>1, <1>2, <1>3, <1>4, OneWorks
<1>6. StartedSeen = FALSE /\ (StartedSeen' = FALSE \/ StartedSeen' = TRUE)
  BY <1>5 DEF StartedSeen
<1>7. Implements
  BY <1>4, <1>6, TimePasses DEF committed
<1>8. R!TypeOK'
  BY <1>4, <1>6 DEF BookInv, R!TypeOK, committed, R!Status, R!Places, R!Request
<1> QED BY <1>1, <1>2, <1>3, <1>4, <1>7, <1>8, Commits

-----------------------------------------------------------------------------
(* What is a step of Registrations as it is *)

LEMMA ClockStep ==
    ASSUME BookInv, ClockPassesStart
    PROVE  BookInv' /\ Implements
<1>1. /\ UNCHANGED <<status, places, reg, position, bookingMails, promotedMails, cancellations, request>>
      /\ UNCHANGED <<holder, work>> /\ ~started /\ started' = TRUE
  BY DEF ClockPassesStart, committed
<1>2. FillUnderWay' <=> FillUnderWay
  BY <1>1 DEF FillUnderWay
<1>3. StartedSeen = FALSE /\ (StartedSeen' = FALSE \/ StartedSeen' = TRUE)
  BY <1>1 DEF StartedSeen
<1>4. Implements
  BY <1>1, <1>3, TimePasses
<1>5. R!TypeOK'
  BY <1>1, <1>3 DEF BookInv, R!TypeOK, R!Status, R!Places, R!Request
<1>6. ASSUME NEW q \in Requests PROVE Ready(q)'
  <2>1. PICK w : w = work[q]
    OBVIOUS
  <2>2. PICK h : h = holder
    OBVIOUS
  <2>3. ReadyAs(q, w, h)
    BY <2>1, <2>2 DEF BookInv, Ready
  <2>4. work'[q] = w /\ holder' = h
    BY <1>1, <2>1, <2>2
  <2> QED BY <1>1, <2>3, <2>4, ReadyStays
<1> QED BY <1>1, <1>4, <1>5, <1>6 DEF BookInv

LEMMA SessionRead ==
    ASSUME BookInv, NEW e \in Editors, ReadSession(e)
    PROVE  BookInv' /\ Implements
<1>1. e \in Requests /\ work[e].step = "idle" /\ UNCHANGED <<started, holder, work>>
  BY DEF ReadSession, Requests
<1>2. R!LoadSession(e, "save_form") \/ R!LoadSession(e, "save_status") \/ R!DropRequest(e)
  BY DEF ReadSession
<1>3. Implements
  BY <1>2 DEF Implements, R!Next
<1>4. UNCHANGED <<status, places, reg, position, bookingMails, promotedMails, cancellations>>
  BY <1>2 DEF R!LoadSession, R!DropRequest, R!session, R!bookings
<1>5. /\ request' \in [Editors -> R!Request]
      /\ \A g \in Editors : g # e => request'[g] = request[g]
  <2>1. ASSUME NEW todo \in {"save_form", "save_status"}, R!LoadSession(e, todo)
        PROVE  /\ request' \in [Editors -> R!Request]
               /\ \A g \in Editors : g # e => request'[g] = request[g]
    <3>1. [todo |-> todo, status |-> status, places |-> places] \in R!Request
      BY DEF BookInv, R!TypeOK, R!Request
    <3>2. request' = [request EXCEPT ![e] = [todo |-> todo, status |-> status, places |-> places]]
      BY <2>1 DEF R!LoadSession
    <3>3. request \in [Editors -> R!Request]
      BY DEF BookInv, R!TypeOK
    <3> QED BY <3>1, <3>2, <3>3
  <2>2. CASE R!DropRequest(e)
    <3>1. request' = [request EXCEPT ![e].todo = "nothing"]
      BY <2>2 DEF R!DropRequest
    <3>2. request' \in [Editors -> R!Request]
      BY <3>1, RequestDone
    <3>3. request \in [Editors -> R!Request]
      BY DEF BookInv, R!TypeOK
    <3> QED BY <3>1, <3>2, <3>3
  <2> QED BY <1>2, <2>1, <2>2
<1>6. StartedSeen' = StartedSeen
  BY <1>1 DEF StartedSeen, FillUnderWay
<1>7. R!TypeOK'
  BY <1>4, <1>5, <1>6 DEF BookInv, R!TypeOK, R!Status, R!Places
<1>8. ASSUME NEW q \in Requests PROVE Ready(q)'
  <2>1. CASE q = e
    BY <1>1, <2>1, IdleIsReady
  <2>2. CASE q # e
    <3>1. PICK w : w = work[q]
      OBVIOUS
    <3>2. PICK h : h = holder
      OBVIOUS
    <3>3. ReadyAs(q, w, h)
      BY <3>1, <3>2 DEF BookInv, Ready
    <3>4. work'[q] = w /\ holder' = h
      BY <1>1, <3>1, <3>2
    <3>5. q \in Editors => request'[q] = request[q]
      BY <1>5, <2>2
    <3> QED BY <1>4, <3>3, <3>4, <3>5, ReadyStays
  <2> QED BY <2>1, <2>2
<1> QED BY <1>1, <1>3, <1>7, <1>8 DEF BookInv

LEMMA SessionWritten ==
    ASSUME BookInv, WriteSession
    PROVE  BookInv' /\ Implements
<1>1. LockFree /\ UNCHANGED <<holder, work>>
  BY DEF WriteSession
<1>2. ~FillUnderWay /\ ~FillUnderWay'
  BY <1>1, NobodyWorks DEF FillUnderWay
<1>3. Implements
  BY DEF WriteSession, Implements, R!Next
<1>4. R!TypeOK'
  <2>1. CASE UNCHANGED started /\ R!CancelSession
    <3>1. StartedSeen' \in BOOLEAN
      BY DEF StartedSeen
    <3>2. status' = "cancelled" /\ UNCHANGED <<places, reg, position, bookingMails, promotedMails,
                                               cancellations, request>>
      BY <2>1 DEF R!CancelSession, R!bookings
    <3> QED BY <3>1, <3>2 DEF BookInv, R!TypeOK, R!Status, R!Places, R!Request
  <2>2. ASSUME NEW e \in Editors, NEW p \in R!PostedPlaces, NEW past \in BOOLEAN, R!SaveForm(e, p, past)
        PROVE  R!TypeOK'
    <3>1. StartedSeen' \in BOOLEAN
      BY DEF StartedSeen
    <3>2. p \in R!Places
      BY <2>2, ConstantsAssumption DEF R!SaveForm, R!PlacesProblem, R!PostedPlaces, R!Places
    <3>3. request[e] \in R!Request /\ request \in [Editors -> R!Request]
      BY DEF BookInv, R!TypeOK
    <3>4. PICK todo \in {"fill", "nothing"} : request' = [request EXCEPT ![e].todo = todo]
      BY <2>2 DEF R!SaveForm
    <3>5. PICK s : s = [request[e] EXCEPT !.todo = todo]
      OBVIOUS
    <3>6. s \in R!Request /\ request[e].status \in R!Status
      BY <3>3, <3>5 DEF R!Request
    <3>7. request' \in [Editors -> R!Request]
      BY <3>3, <3>4, <3>5, <3>6
    <3>8. /\ status' = request[e].status /\ places' = p
          /\ UNCHANGED <<reg, position, bookingMails, promotedMails, cancellations>>
      BY <2>2 DEF R!SaveForm, R!bookings
    <3> QED BY <3>1, <3>2, <3>6, <3>7, <3>8 DEF BookInv, R!TypeOK, R!Status, R!Places
  <2>3. ASSUME NEW e \in Editors, NEW s \in R!Settable, R!SaveStatus(e, s)
        PROVE  R!TypeOK'
    <3>1. StartedSeen' \in BOOLEAN
      BY DEF StartedSeen
    <3>2. request' \in [Editors -> R!Request]
      BY <2>3, RequestDone DEF R!SaveStatus
    <3>3. status' \in R!Status
      BY <2>3 DEF R!SaveStatus, R!Settable, R!Status, BookInv, R!TypeOK
    <3>4. UNCHANGED <<places, reg, position, bookingMails, promotedMails, cancellations>>
      BY <2>3 DEF R!SaveStatus, R!bookings
    <3> QED BY <3>1, <3>2, <3>3, <3>4 DEF BookInv, R!TypeOK, R!Places
  <2>4. ASSUME NEW p \in R!PostedPlaces, NEW s \in R!Settable, R!SyncSession(p, s)
        PROVE  R!TypeOK'
    <3>1. StartedSeen' \in BOOLEAN
      BY DEF StartedSeen
    <3>2. p \in R!Places /\ s \in R!Status
      BY <2>4, RequestsAssumption
         DEF R!SyncSession, R!PlacesProblem, R!PostedPlaces, R!Places, R!Settable, R!Status
    <3>3. PICK promoted :
            /\ reg' = [c \in Children |-> IF c \in promoted THEN "confirmed" ELSE reg[c]]
            /\ promotedMails' = [c \in Children |-> promotedMails[c] + (IF c \in promoted THEN 1 ELSE 0)]
      BY <2>4 DEF R!SyncSession, R!MailPromoted
    <3>4. /\ reg' \in [Children -> {"none", "waiting", "confirmed"}]
          /\ promotedMails' \in [Children -> Nat]
      BY <3>3 DEF BookInv, R!TypeOK
    <3>5. places' = p /\ status' = s /\ UNCHANGED <<position, bookingMails, cancellations, request>>
      BY <2>4 DEF R!SyncSession
    <3> QED BY <3>1, <3>2, <3>4, <3>5 DEF BookInv, R!TypeOK, R!Request
  <2> QED BY <2>1, <2>2, <2>3, <2>4 DEF WriteSession
<1>5. ASSUME NEW q \in Requests PROVE Ready(q)'
  <2>1. work'[q].step = "idle"
    BY <1>1, NobodyWorks
  <2> QED BY <2>1, IdleIsReady
<1> QED BY <1>1, <1>3, <1>4, <1>5 DEF BookInv

-----------------------------------------------------------------------------
(* The refinement *)

LEMMA InitBook == TransactionsInit => BookInv /\ R!Init
<1> SUFFICES ASSUME TransactionsInit PROVE BookInv /\ R!Init
  OBVIOUS
<1>1. R!Init /\ work = [r \in Requests |-> NoWork]
  BY DEF TransactionsInit
<1>2. R!TypeOK
  <2>1. 1 \in R!Places /\ \A p \in R!Places : p \in R!Places
    BY ConstantsAssumption DEF R!Places
  <2>2. [todo |-> "nothing", status |-> "draft", places |-> 1] \in R!Request
    BY <2>1 DEF R!Request, R!Status
  <2>3. StartedSeen \in BOOLEAN
    BY DEF StartedSeen
  <2> QED BY <1>1, <2>2, <2>3 DEF R!Init, R!TypeOK, R!Settable, R!Status
<1>3. work \in [Requests -> WorkRecord] /\ \A r \in Requests : work[r].step = "idle"
  BY <1>1, NoWorkRecord
<1>4. \A r \in Requests : Ready(r)
  BY <1>3 DEF Ready, ReadyAs
<1> QED BY <1>1, <1>2, <1>3, <1>4 DEF BookInv

LEMMA NextBook == BookInv /\ [TransactionsNext]_transactionVars => BookInv' /\ Implements
<1> SUFFICES ASSUME BookInv, [TransactionsNext]_transactionVars PROVE BookInv' /\ Implements
  OBVIOUS
<1>1. CASE UNCHANGED transactionVars
  <2>1. UNCHANGED <<committed, started, holder, work>>
    BY <1>1 DEF transactionVars
  <2>2. StartedSeen' = StartedSeen
    BY <2>1 DEF StartedSeen, FillUnderWay
  <2>3. R!TypeOK'
    BY <2>1, <2>2 DEF BookInv, R!TypeOK, committed, R!Status, R!Places, R!Request
  <2>4. ASSUME NEW q \in Requests PROVE Ready(q)'
    <3>1. PICK w : w = work[q]
      OBVIOUS
    <3>2. PICK h : h = holder
      OBVIOUS
    <3>3. ReadyAs(q, w, h)
      BY <3>1, <3>2 DEF BookInv, Ready
    <3>4. work'[q] = w /\ holder' = h
      BY <2>1, <3>1, <3>2
    <3> QED BY <2>1, <3>3, <3>4, ReadyStays DEF committed
  <2>5. BookInv'
    BY <2>1, <2>3, <2>4 DEF BookInv
  <2> QED BY <2>1, <2>2, <2>5, NothingHappens
<1>2. ASSUME NEW f \in Families, NEW ticked \in SUBSET Children, BeginSignUp(f, ticked)
      PROVE  BookInv' /\ Implements
  <2>1. f \in Requests
    BY DEF Requests
  <2> QED BY <1>2, <2>1, Begins DEF BeginSignUp
<1>3. ASSUME NEW f \in Families, NEW c \in Children, BeginCancel(f, c)
      PROVE  BookInv' /\ Implements
  <2>1. f \in Requests /\ {c} \in SUBSET Children /\ \E d \in Children : {c} = {d}
    BY DEF Requests
  <2>2. Begin(f, "find", {c}) /\ UNCHANGED committed
    BY <1>3 DEF BeginCancel
  <2> QED BY <2>1, <2>2, Begins
<1>4. ASSUME NEW f \in Families, RollBack(f)
      PROVE  BookInv' /\ Implements
  BY <1>4, EndsWithout DEF RollBack
<1>5. ASSUME NEW f \in Families,
             \/ CheckChildren(f) \/ CommitSignUp(f) \/ FindRegistration(f) \/ CommitCancel(f)
             \/ \E c \in Children : BookChild(f, c)
      PROVE  BookInv' /\ Implements
  BY <1>5, ChecksChildren, CommitsSignUp, Finds, CommitsCancel, BooksChild
<1>6. ASSUME NEW r \in Requests, Promote(r)
      PROVE  BookInv' /\ Implements
  BY <1>6, Promotes
<1>7. ASSUME NEW e \in Editors,
             BeginFill(e) \/ CommitFill(e) \/ RollBackFill(e) \/ EndFill(e) \/ ReadSession(e)
      PROVE  BookInv' /\ Implements
  BY <1>7, BeginsFill, CommitsFill, RollsBackFill, EndsFill, SessionRead
<1>8. CASE ClockPassesStart
  BY <1>8, ClockStep
<1>9. CASE WriteSession
  BY <1>9, SessionWritten
<1> QED BY <1>1, <1>2, <1>3, <1>4, <1>5, <1>6, <1>7, <1>8, <1>9 DEF TransactionsNext

\* The transactions of events.registrations, statement by statement under
\* their row lock, do nothing but the steps Registrations takes them for:
\* whatever families and team requests come in, and whichever of them die.
\* ("sign-ups and cancellations for one session happen one at a time",
\* registrations.py:4-11)
THEOREM TransactionsImplementRegistrations == TransactionsSpec => ImplementsRegistrations
<1>1. BookInv /\ [TransactionsNext]_transactionVars => BookInv' /\ [R!Next]_(R!vars)
  BY NextBook DEF Implements
<1> QED BY <1>1, InitBook, PTL DEF TransactionsSpec, ImplementsRegistrations, R!Spec

-----------------------------------------------------------------------------
(* What is proved of Registrations holds of the transactions *)

LEMMA SameRegistrations ==
    /\ R!Init => P!Init
    /\ R!Next => P!Next
BY DEF R!Init, P!Init, R!Places, P!Places, R!Next, P!Next, R!SignUp, P!SignUp,
   R!Cancel, P!Cancel, R!CancelSession, P!CancelSession, R!StartTimePasses, P!StartTimePasses,
   R!LoadSession, P!LoadSession, R!SaveForm, P!SaveForm, R!FillFreePlaces, P!FillFreePlaces,
   R!SaveStatus, P!SaveStatus, R!DropRequest, P!DropRequest, R!SyncSession, P!SyncSession,
   R!Fills, P!Fills, R!Promoted, P!Promoted, R!FirstWaiting, P!FirstWaiting, R!Waiting, P!Waiting,
   R!Confirmed, P!Confirmed, R!Registered, P!Registered, R!LastPosition, P!LastPosition,
   R!Max, P!Max, R!Cardinality, P!Cardinality, R!IsFiniteSet, P!IsFiniteSet,
   R!MailPromoted, P!MailPromoted, R!GetsPlace, P!GetsPlace, R!Bijection, P!Bijection,
   R!Injection, P!Injection, R!Surjection, P!Surjection, R!IsInjective, P!IsInjective,
   R!session, P!session, R!bookings, P!bookings, R!PostedPlaces, P!PostedPlaces,
   R!Settable, P!Settable, R!PlacesProblem, P!PlacesProblem, R!NoCap, P!NoCap,
   R!RegistrationExists, P!RegistrationExists

LEMMA TransactionsAreRegistrations == TransactionsSpec => P!Spec
<1>1. BookInv /\ [TransactionsNext]_transactionVars => BookInv' /\ [P!Next]_(P!vars)
  BY NextBook, SameRegistrations DEF Implements, R!vars, P!vars
<1>2. TransactionsInit => BookInv /\ P!Init
  BY InitBook, SameRegistrations
<1> QED BY <1>1, <1>2, PTL DEF TransactionsSpec, P!Spec

\* However the transactions cross: every child has a position of its own,
\* every sign-up is accounted for, no place is given that is not free, and
\* the child that waits longest gets it.  (registrations.py:59-152)
THEOREM TransactionsKeepTheQueue ==
    TransactionsSpec => []P!Inv /\ P!NoOverbooking /\ P!LongestWaitingFirst
<1>1. P!IsFiniteSet(Children) /\ MaxPlaces \in Nat \ {0} /\ MaxSignUps \in Nat
  BY ConstantsAssumption, SameCounting
<1>2. P!Spec => []P!Inv /\ P!NoOverbooking /\ P!LongestWaitingFirst
  BY <1>1, P!SpecInv, P!PlacesAreNeverOverbooked, P!TheLongestWaitingGoFirst
<1> QED BY <1>2, TransactionsAreRegistrations
=============================================================================

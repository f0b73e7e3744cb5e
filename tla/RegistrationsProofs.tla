------------------------- MODULE RegistrationsProofs -------------------------
(***************************************************************************)
(* For every set of children, every number of team requests and every      *)
(* number of places: Registrations keeps its types, gives every child of a *)
(* session a position of its own, accounts for every sign-up, and never    *)
(* gives a place away that is not free.                                    *)
(***************************************************************************)
EXTENDS Registrations, FiniteSetTheorems, TLAPS

-----------------------------------------------------------------------------
(* Finite sets *)

\* A finite, non-empty set of naturals has a largest element, so Max of it
\* is one of its elements and bounds them all (the aggregate of sign_up).
LEMMA MaxOfNaturals ==
    ASSUME NEW S \in SUBSET Nat, IsFiniteSet(S), S # {}
    PROVE  Max(S) \in S /\ \A y \in S : Max(S) >= y
<1> DEFINE Above(x) == {y \in S : y > x}
           T == {Above(x) : x \in S}
<1>1. T \subseteq FiniteSubsetsOf(S) /\ T # {}
  <2>1. ASSUME NEW x \in S PROVE Above(x) \in FiniteSubsetsOf(S)
    <3>1. Above(x) \in SUBSET S
      OBVIOUS
    <3>2. IsFiniteSet(Above(x))
      <4> HIDE DEF Above
      <4> QED BY <3>1, FS_Subset
    <3> QED BY <3>1, <3>2 DEF FiniteSubsetsOf
  <2>2. PICK w \in S : TRUE
    OBVIOUS
  <2>3. Above(w) \in T
    BY <2>2
  <2> QED BY <2>1, <2>3
<1>2. PICK A \in T : \A B \in T : ~(<<B, A>> \in StrictSubsetOrdering(S))
  <2> HIDE DEF T
  <2> QED BY <1>1, FS_StrictSubsetOrderingWellFounded, WFMin
<1>3. PICK x \in S : A = Above(x)
  BY <1>2
<1>4. \A y \in S : x >= y
  <2> SUFFICES ASSUME NEW y \in S, y > x
               PROVE  FALSE
    OBVIOUS
  <2>1. Above(y) \subseteq Above(x) /\ y \in Above(x) /\ y \notin Above(y)
    <3>1. \A z \in S : z \in Nat
      OBVIOUS
    <3>2. \A z \in S : z > y => z > x
      BY <3>1
    <3>3. Above(y) \subseteq Above(x)
      BY <3>2
    <3>4. y \in Above(x)
      OBVIOUS
    <3>5. ~(y > y)
      BY <3>1
    <3> QED BY <3>3, <3>4, <3>5
  <2>2. Above(y) \in T /\ Above(y) \in SUBSET S /\ Above(x) \in SUBSET S
    OBVIOUS
  <2>3. <<Above(y), Above(x)>> \in StrictSubsetOrdering(S)
    <3> HIDE DEF Above
    <3> QED BY <2>1, <2>2 DEF StrictSubsetOrdering
  <2> QED BY <1>2, <1>3, <2>2, <2>3
<1> QED BY <1>4 DEF Max

\* A set with an injection into the first k naturals has at most k elements.
LEMMA RanksBoundCardinality ==
    ASSUME NEW S, NEW k \in Nat, NEW rank \in [S -> Nat],
           \A c \in S : rank[c] \in 1..k,
           \A c, d \in S : rank[c] = rank[d] => c = d
    PROVE  IsFiniteSet(S) /\ Cardinality(S) <= k
<1>1. rank \in Injection(S, 1..k)
  BY DEF Injection, IsInjective
<1>2. IsFiniteSet(1..k) /\ Cardinality(1..k) = k
  BY FS_Interval
<1> QED BY <1>1, <1>2, FS_Injection

-----------------------------------------------------------------------------
(* The queue *)

LEMMA SetsAreFinite ==
    ASSUME NEW S \in SUBSET Children
    PROVE  IsFiniteSet(S) /\ Cardinality(S) \in Nat
BY FS_Subset, FS_CardinalityType, ConstantsAssumption

\* Every registration's position is at most LastPosition.
LEMMA LastPositionBounds ==
    ASSUME TypeOK
    PROVE  LastPosition \in Nat /\ \A c \in Registered : position[c] <= LastPosition
<1> DEFINE P == {position[c] : c \in Registered}
<1>1. IsFiniteSet(Registered)
  BY SetsAreFinite DEF Registered, Waiting, Confirmed
<1>2. IsFiniteSet(P)
  <2> DEFINE f == [c \in Registered |-> position[c]]
  <2>1. f \in Surjection(Registered, P)
    BY DEF Surjection
  <2> HIDE DEF f, P
  <2> QED BY <1>1, <2>1, FS_Surjection
<1>3. IsFiniteSet({0} \cup P) /\ {0} \cup P \in SUBSET Nat
  <2>1. {0} \cup P = P \cup {0}
    OBVIOUS
  <2>2. P \in SUBSET Nat
    BY DEF TypeOK, Registered, Waiting, Confirmed
  <2> QED BY <1>2, <2>1, <2>2, FS_AddElement
<1> HIDE DEF P
<1>4. Max({0} \cup P) \in {0} \cup P /\ \A y \in {0} \cup P : Max({0} \cup P) >= y
  BY <1>3, MaxOfNaturals
<1> USE DEF P
<1>5. LastPosition = Max({0} \cup P)
  BY DEF LastPosition
<1>6. \A c \in Registered : position[c] \in P
  OBVIOUS
<1> QED BY <1>3, <1>4, <1>5, <1>6

\* _promote's slice: at most n children, all of them waiting.
LEMMA FirstWaitingBound ==
    ASSUME TypeOK, PositionsDistinct, NEW n \in Int
    PROVE  /\ FirstWaiting(n) \subseteq Waiting
           /\ FirstWaiting(n) # {} => n >= 1 /\ Cardinality(FirstWaiting(n)) <= n
<1> DEFINE F == FirstWaiting(n)
           Ahead(c) == {d \in Waiting : position[d] < position[c]}
           rank == [c \in F |-> Cardinality(Ahead(c)) + 1]
<1>1. F \subseteq Waiting /\ F \subseteq Children
  BY DEF FirstWaiting, Waiting
<1>2. \A c : Ahead(c) \in SUBSET Children
  BY DEF Waiting
<1>3. \A c : IsFiniteSet(Ahead(c)) /\ Cardinality(Ahead(c)) \in Nat
  BY <1>2, SetsAreFinite
<1>4. \A c \in F : rank[c] \in Nat /\ rank[c] \in 1..n
  BY <1>3 DEF FirstWaiting
<1>5. ASSUME NEW c \in F, NEW d \in F, position[c] < position[d]
      PROVE  rank[c] < rank[d]
  <2>1. position[c] \in Nat /\ position[d] \in Nat
    BY <1>1 DEF TypeOK
  <2>2. Ahead(c) \in SUBSET Ahead(d)
    <3> SUFFICES ASSUME NEW b \in Ahead(c) PROVE b \in Ahead(d)
      OBVIOUS
    <3>1. position[b] \in Nat
      BY DEF TypeOK, Waiting
    <3> QED BY <3>1, <2>1, <1>5
  <2>3. c \in Ahead(d) /\ c \notin Ahead(c)
    BY <1>1, <1>5, <2>1
  <2>4. Cardinality(Ahead(c)) <= Cardinality(Ahead(d))
        /\ Cardinality(Ahead(c)) # Cardinality(Ahead(d))
    <3> HIDE DEF Ahead
    <3> QED BY <1>3, <2>2, <2>3, FS_Subset
  <2>5. rank[c] = Cardinality(Ahead(c)) + 1 /\ rank[d] = Cardinality(Ahead(d)) + 1
    <3> HIDE DEF Ahead
    <3> QED OBVIOUS
  <2> HIDE DEF rank, Ahead
  <2> QED BY <1>3, <2>4, <2>5
<1>6. ASSUME NEW c \in F, NEW d \in F, rank[c] = rank[d]
      PROVE  c = d
  <2>1. position[c] \in Nat /\ position[d] \in Nat
    BY <1>1 DEF TypeOK
  <2>2. rank[c] \in Nat /\ rank[d] \in Nat /\ rank[c] = rank[d]
    BY <1>4, <1>6
  <2> HIDE DEF F, rank, Ahead
  <2>3. ~(rank[c] < rank[d]) /\ ~(rank[d] < rank[c])
    BY <2>2
  <2>4. ~(position[c] < position[d]) /\ ~(position[d] < position[c])
    BY <1>5, <1>6, <2>3
  <2> USE DEF F, rank, Ahead
  <2>5. position[c] = position[d]
    BY <2>1, <2>4
  <2> QED BY <1>1, <2>5 DEF PositionsDistinct, Registered
<1>7. ASSUME F # {} PROVE n >= 1
  <2>1. PICK c \in F : TRUE
    BY <1>7
  <2>2. rank[c] \in 1..n
    BY <1>4
  <2> HIDE DEF F, rank
  <2> QED BY <2>2
<1>8. ASSUME n >= 1 PROVE Cardinality(F) <= n
  <2>1. rank \in [F -> Nat]
    BY <1>3
  <2>2. n \in Nat
    BY <1>8
  <2> HIDE DEF F, rank
  <2> QED BY <1>4, <1>6, <2>1, <2>2, RanksBoundCardinality
<1> QED BY <1>1, <1>7, <1>8

\* _promote never fills more places than there are.
LEMMA PromotedFits ==
    ASSUME TypeOK, PositionsDistinct, NEW capacity \in Int, NEW atMost \in Int,
           NEW S \in SUBSET Confirmed
    PROVE  /\ Promoted(capacity, S, atMost) \subseteq Waiting
           /\ Promoted(capacity, S, atMost) # {}
                => Cardinality(S \cup Promoted(capacity, S, atMost)) <= capacity
<1> DEFINE free == capacity - Cardinality(S)
           n == IF atMost < free THEN atMost ELSE free
           F == FirstWaiting(n)
<1>1. S \in SUBSET Children
  BY DEF Confirmed
<1>2. IsFiniteSet(S) /\ Cardinality(S) \in Nat
  BY <1>1, SetsAreFinite
<1>3. n \in Int /\ n <= free
  BY <1>2
<1>4. Promoted(capacity, S, atMost) = F
  BY DEF Promoted
<1>5. F \subseteq Waiting /\ (F # {} => Cardinality(F) <= n)
  <2> HIDE DEF n
  <2> QED BY <1>3, FirstWaitingBound
<1>6. IsFiniteSet(F) /\ Cardinality(F) \in Nat
  <2>1. F \in SUBSET Children
    BY <1>5 DEF Waiting
  <2> HIDE DEF F
  <2> QED BY <2>1, SetsAreFinite
<1>7. S \cap F = {}
  BY <1>5 DEF Waiting, Confirmed
<1>8. Cardinality(S \cup F) = Cardinality(S) + Cardinality(F)
  <2> HIDE DEF F
  <2>1. Cardinality(S \cup F) = Cardinality(S) + Cardinality(F) - Cardinality(S \cap F)
    BY <1>2, <1>6, FS_Union
  <2>2. Cardinality(S \cap F) = 0
    BY <1>7, FS_EmptySet
  <2> QED BY <1>2, <1>6, <2>1, <2>2
<1>9. ASSUME F # {} PROVE Cardinality(S \cup F) <= capacity
  <2> HIDE DEF F, n
  <2> QED BY <1>2, <1>3, <1>5, <1>6, <1>8, <1>9
<1> HIDE DEF F
<1> QED BY <1>4, <1>5, <1>9

-----------------------------------------------------------------------------
(* The invariant *)

\* A step that only turns waiting children into confirmed ones, each with a
\* mail, keeps the invariant: the part fill_free_places and the sync share.
LEMMA FillKeepsInv ==
    ASSUME Inv, NEW promoted \in SUBSET Waiting,
           reg' = [c \in Children |-> IF c \in promoted THEN "confirmed" ELSE reg[c]],
           MailPromoted(promoted),
           UNCHANGED <<position, bookingMails, cancellations>>,
           status' \in Status, places' \in Places, started' \in BOOLEAN,
           request' \in [Editors -> Request]
    PROVE  Inv'
<1>1. TypeOK'
  <2>1. promotedMails' \in [Children -> Nat]
    BY DEF Inv, TypeOK, MailPromoted
  <2> QED BY <2>1 DEF Inv, TypeOK
<1>2. Registered' = Registered
  BY DEF Inv, TypeOK, Registered, Waiting, Confirmed
<1>3. PositionsDistinct'
  BY <1>2 DEF Inv, PositionsDistinct
<1>4. EverySignUpAccountedFor'
  BY <1>2 DEF Inv, EverySignUpAccountedFor
<1>5. NobodyWaitingWasPromoted'
  <2> SUFFICES ASSUME NEW c \in Children
               PROVE  promotedMails'[c] <= bookingMails'[c] - (IF c \in Waiting' THEN 1 ELSE 0)
    BY DEF NobodyWaitingWasPromoted
  <2>1. promotedMails'[c] = promotedMails[c] + (IF c \in promoted THEN 1 ELSE 0)
    BY DEF MailPromoted
  <2>2. promotedMails[c] <= bookingMails[c] - (IF c \in Waiting THEN 1 ELSE 0)
    BY DEF Inv, NobodyWaitingWasPromoted
  <2>3. /\ c \in promoted => c \in Waiting /\ c \notin Waiting'
        /\ c \notin promoted => (c \in Waiting' <=> c \in Waiting)
    BY DEF Waiting, Inv, TypeOK
  <2>4. promotedMails[c] \in Nat /\ bookingMails[c] \in Nat /\ bookingMails'[c] = bookingMails[c]
    BY DEF Inv, TypeOK
  <2> QED BY <2>1, <2>2, <2>3, <2>4
<1> QED BY <1>1, <1>3, <1>4, <1>5 DEF Inv

LEMMA SignUpKeepsInv ==
    ASSUME Inv, NEW selected \in SUBSET Children, SignUp(selected)
    PROVE  Inv'
<1> DEFINE new == selected \ Registered
<1>1. PICK rank \in Bijection(new, 1..Cardinality(new)) :
        /\ reg' = [c \in Children |->
                     IF c \notin new THEN reg[c]
                     ELSE IF GetsPlace(rank[c]) THEN "confirmed" ELSE "waiting"]
        /\ position' = [c \in Children |->
                          IF c \in new THEN LastPosition + rank[c] ELSE position[c]]
  BY DEF SignUp
<1>2. /\ bookingMails' = [c \in Children |-> bookingMails[c] + (IF c \in new THEN 1 ELSE 0)]
      /\ UNCHANGED <<session, promotedMails, cancellations, request>>
  BY DEF SignUp
<1>3. new \in SUBSET Children /\ IsFiniteSet(new) /\ Cardinality(new) \in Nat
  BY SetsAreFinite
<1> HIDE DEF new
<1>4. /\ \A c \in new : rank[c] \in Nat /\ rank[c] >= 1
      /\ \A c, d \in new : rank[c] = rank[d] => c = d
  BY <1>3 DEF Bijection, Injection, IsInjective
<1>5. LastPosition \in Nat /\ \A c \in Registered : position[c] <= LastPosition
  BY LastPositionBounds DEF Inv
<1>6. TypeOK'
  <2>1. reg' \in [Children -> {"none", "waiting", "confirmed"}]
    BY <1>1 DEF Inv, TypeOK
  <2>2. position' \in [Children -> Nat]
    BY <1>1, <1>4, <1>5 DEF Inv, TypeOK
  <2>3. bookingMails' \in [Children -> Nat]
    BY <1>2 DEF Inv, TypeOK
  <2> QED BY <1>2, <2>1, <2>2, <2>3 DEF Inv, TypeOK, session
<1>7. Registered' = Registered \cup new
  BY <1>1, <1>3 DEF Registered, Waiting, Confirmed
<1>8. PositionsDistinct'
  <2> SUFFICES ASSUME NEW c \in Registered', NEW d \in Registered', position'[c] = position'[d]
               PROVE  c = d
    BY DEF PositionsDistinct
  <2>1. c \in Children /\ d \in Children
    BY DEF Registered, Waiting, Confirmed
  <2>2. new \cap Registered = {}
    BY DEF new
  <2>3. \A b \in Registered : position'[b] = position[b] /\ position[b] \in Nat
                              /\ position[b] <= LastPosition
    BY <1>1, <1>5, <2>2 DEF Inv, TypeOK, Registered, Waiting, Confirmed
  <2>4. \A b \in new : position'[b] = LastPosition + rank[b] /\ position'[b] > LastPosition
    BY <1>1, <1>3, <1>4, <1>5
  <2>5. CASE c \in new /\ d \in new
    BY <1>4, <1>5, <2>4, <2>5
  <2>6. CASE c \in Registered /\ d \in Registered
    BY <2>3, <2>6 DEF Inv, PositionsDistinct
  <2>7. CASE c \in Registered /\ d \in new
    BY <1>4, <1>5, <2>3, <2>4, <2>7
  <2>8. CASE c \in new /\ d \in Registered
    BY <1>4, <1>5, <2>3, <2>4, <2>8
  <2> QED BY <1>7, <2>5, <2>6, <2>7, <2>8
<1>9. EverySignUpAccountedFor'
  <2> SUFFICES ASSUME NEW c \in Children
               PROVE  bookingMails'[c] = cancellations'[c] + (IF c \in Registered' THEN 1 ELSE 0)
    BY DEF EverySignUpAccountedFor
  <2>1. bookingMails[c] \in Nat /\ cancellations[c] \in Nat /\ cancellations'[c] = cancellations[c]
    BY <1>2 DEF Inv, TypeOK
  <2>2. bookingMails[c] = cancellations[c] + (IF c \in Registered THEN 1 ELSE 0)
    BY DEF Inv, EverySignUpAccountedFor
  <2>3. c \in new => c \notin Registered
    BY DEF new
  <2>4. bookingMails'[c] = bookingMails[c] + (IF c \in new THEN 1 ELSE 0)
    BY <1>2
  <2> QED BY <1>7, <2>1, <2>2, <2>3, <2>4
<1>10. NobodyWaitingWasPromoted'
  <2> SUFFICES ASSUME NEW c \in Children
               PROVE  promotedMails'[c] <= bookingMails'[c] - (IF c \in Waiting' THEN 1 ELSE 0)
    BY DEF NobodyWaitingWasPromoted
  <2>1. /\ promotedMails[c] \in Nat /\ bookingMails[c] \in Nat
        /\ promotedMails'[c] = promotedMails[c]
    BY <1>2 DEF Inv, TypeOK
  <2>2. promotedMails[c] <= bookingMails[c] - (IF c \in Waiting THEN 1 ELSE 0)
    BY DEF Inv, NobodyWaitingWasPromoted
  <2>3. c \notin new => (c \in Waiting' <=> c \in Waiting)
    BY <1>1 DEF Waiting
  <2>4. bookingMails'[c] = bookingMails[c] + (IF c \in new THEN 1 ELSE 0)
    BY <1>2
  <2> QED BY <2>1, <2>2, <2>3, <2>4
<1> QED BY <1>6, <1>8, <1>9, <1>10 DEF Inv

\* The children a cancellation promotes: waiting ones, and only into room.
LEMMA CancelPromotes ==
    ASSUME Inv, NEW c \in Children
    PROVE  LET promoted == IF c \in Confirmed
                           THEN Promoted(places, Confirmed \ {c}, 1) ELSE {}
           IN  /\ promoted \subseteq Waiting
               /\ promoted # {}
                    => Cardinality((Confirmed \ {c}) \cup promoted) <= places
<1> DEFINE P == Promoted(places, Confirmed \ {c}, 1)
<1>1. places \in Int /\ 1 \in Int /\ Confirmed \ {c} \in SUBSET Confirmed
  BY DEF Inv, TypeOK, Places
<1>2. P \subseteq Waiting /\ (P # {} => Cardinality((Confirmed \ {c}) \cup P) <= places)
  BY <1>1, PromotedFits DEF Inv
<1> HIDE DEF P
<1> QED BY <1>2 DEF P

LEMMA CancelKeepsInv ==
    ASSUME Inv, NEW c \in Children, Cancel(c)
    PROVE  Inv'
<1> DEFINE promoted == IF c \in Confirmed
                       THEN Promoted(places, Confirmed \ {c}, 1) ELSE {}
<1>1. promoted \subseteq Waiting
  BY CancelPromotes
<1>2. /\ c \in Registered
      /\ cancellations' = [cancellations EXCEPT ![c] = @ + 1]
      /\ reg' = [d \in Children |-> IF d = c THEN "none"
                                    ELSE IF d \in promoted THEN "confirmed"
                                    ELSE reg[d]]
      /\ position' = [position EXCEPT ![c] = 0]
      /\ promotedMails' = [d \in Children |-> promotedMails[d] + (IF d \in promoted THEN 1 ELSE 0)]
      /\ UNCHANGED <<session, bookingMails, request>>
  BY DEF Cancel, RegistrationExists, MailPromoted
<1>3. c \notin promoted
  BY <1>1, <1>2 DEF Waiting, Confirmed
<1> HIDE DEF promoted
<1>4. TypeOK'
  <2>1. cancellations' \in [Children -> Nat] /\ position' \in [Children -> Nat]
    BY <1>2 DEF Inv, TypeOK
  <2>2. promotedMails' \in [Children -> Nat]
    BY <1>2 DEF Inv, TypeOK
  <2>3. reg' \in [Children -> {"none", "waiting", "confirmed"}]
    BY <1>2 DEF Inv, TypeOK
  <2> QED BY <1>2, <2>1, <2>2, <2>3 DEF Inv, TypeOK, session
<1>5. Registered' = Registered \ {c}
  BY <1>1, <1>2 DEF Inv, TypeOK, Registered, Waiting, Confirmed
<1>6. PositionsDistinct'
  <2>1. \A d \in Registered' : position'[d] = position[d]
    BY <1>2, <1>5 DEF Inv, TypeOK, Registered, Waiting, Confirmed
  <2> QED BY <1>5, <2>1 DEF Inv, PositionsDistinct
<1>7. EverySignUpAccountedFor'
  <2> SUFFICES ASSUME NEW d \in Children
               PROVE  bookingMails'[d] = cancellations'[d] + (IF d \in Registered' THEN 1 ELSE 0)
    BY DEF EverySignUpAccountedFor
  <2>1. /\ bookingMails'[d] = bookingMails[d] /\ cancellations[d] \in Nat
        /\ cancellations'[d] = IF d = c THEN cancellations[d] + 1 ELSE cancellations[d]
    BY <1>2 DEF Inv, TypeOK
  <2>2. bookingMails[d] = cancellations[d] + (IF d \in Registered THEN 1 ELSE 0)
    BY DEF Inv, EverySignUpAccountedFor
  <2> QED BY <1>2, <1>5, <2>1, <2>2
<1>8. NobodyWaitingWasPromoted'
  <2> SUFFICES ASSUME NEW d \in Children
               PROVE  promotedMails'[d] <= bookingMails'[d] - (IF d \in Waiting' THEN 1 ELSE 0)
    BY DEF NobodyWaitingWasPromoted
  <2>1. /\ promotedMails[d] \in Nat /\ bookingMails[d] \in Nat
        /\ bookingMails'[d] = bookingMails[d]
        /\ promotedMails'[d] = promotedMails[d] + (IF d \in promoted THEN 1 ELSE 0)
    BY <1>2 DEF Inv, TypeOK
  <2>2. promotedMails[d] <= bookingMails[d] - (IF d \in Waiting THEN 1 ELSE 0)
    BY DEF Inv, NobodyWaitingWasPromoted
  <2>3. /\ d \in promoted => d \in Waiting /\ d \notin Waiting'
        /\ d \notin promoted /\ d \in Waiting' => d \in Waiting
    BY <1>1, <1>2, <1>3 DEF Waiting
  <2> QED BY <2>1, <2>2, <2>3
<1> QED BY <1>4, <1>6, <1>7, <1>8 DEF Inv

\* What the check on the number of places lets through is a number of places.
LEMMA PostedPlacesAreChecked ==
    ASSUME NEW p \in PostedPlaces, ~PlacesProblem(p)
    PROVE  p \in Places
BY ConstantsAssumption DEF PostedPlaces, PlacesProblem, Places

\* The steps of the team that touch no registration.
LEMMA SessionStepKeepsInv ==
    ASSUME Inv, UNCHANGED bookings, status' \in Status, places' \in Places,
           started' \in BOOLEAN, request' \in [Editors -> Request]
    PROVE  Inv'
<1>1. TypeOK'
  BY DEF Inv, TypeOK, bookings
<1>2. Registered' = Registered /\ Waiting' = Waiting
  BY DEF bookings, Registered, Waiting, Confirmed
<1> QED BY <1>1, <1>2 DEF Inv, bookings, PositionsDistinct, EverySignUpAccountedFor,
                          NobodyWaitingWasPromoted

LEMMA InitInv == Init => Inv
<1> SUFFICES ASSUME Init PROVE Inv
  OBVIOUS
<1>1. TypeOK
  <2>1. status \in Status /\ places \in Places /\ 1 \in Places /\ started \in BOOLEAN
    <3>1. 1 \in Places
      BY ConstantsAssumption DEF Places
    <3>2. status \in Status
      BY DEF Init, Status, Settable
    <3> QED BY <3>1, <3>2 DEF Init
  <2>2. request \in [Editors -> Request]
    BY <2>1 DEF Init, Request, Status
  <2>3. /\ reg \in [Children -> {"none", "waiting", "confirmed"}]
        /\ position \in [Children -> Nat] /\ bookingMails \in [Children -> Nat]
        /\ promotedMails \in [Children -> Nat] /\ cancellations \in [Children -> Nat]
    BY DEF Init
  <2> QED BY <2>1, <2>2, <2>3 DEF TypeOK
<1>2. Registered = {} /\ Waiting = {}
  BY DEF Init, Registered, Waiting, Confirmed
<1> QED BY <1>1, <1>2 DEF Init, Inv, PositionsDistinct, EverySignUpAccountedFor,
                          NobodyWaitingWasPromoted

LEMMA NextInv == Inv /\ [Next]_vars => Inv'
<1> SUFFICES ASSUME Inv, [Next]_vars PROVE Inv'
  OBVIOUS
<1> USE DEF Inv
<1>1. ASSUME NEW selected \in SUBSET Children, SignUp(selected) PROVE Inv'
  BY <1>1, SignUpKeepsInv
<1>2. ASSUME NEW c \in Children, Cancel(c) PROVE Inv'
  BY <1>2, CancelKeepsInv
<1>3. CASE CancelSession
  BY <1>3, SessionStepKeepsInv DEF CancelSession, TypeOK, Status
<1>4. CASE StartTimePasses
  BY <1>4, SessionStepKeepsInv DEF StartTimePasses, TypeOK
<1>5. ASSUME NEW e \in Editors, NEW todo \in {"save_form", "save_status"}, LoadSession(e, todo)
      PROVE  Inv'
  <2>1. request' \in [Editors -> Request]
    BY <1>5 DEF LoadSession, TypeOK, Request
  <2> QED BY <1>5, <2>1, SessionStepKeepsInv DEF LoadSession, TypeOK, session
<1>6. ASSUME NEW e \in Editors, NEW p \in PostedPlaces, NEW past \in BOOLEAN, SaveForm(e, p, past)
      PROVE  Inv'
  <2>1. request' \in [Editors -> Request] /\ request[e].status \in Status
    BY <1>6 DEF SaveForm, TypeOK, Request
  <2>2. p \in Places
    BY <1>6, PostedPlacesAreChecked DEF SaveForm
  <2> QED BY <1>6, <2>1, <2>2, SessionStepKeepsInv DEF SaveForm
<1>7. ASSUME NEW e \in Editors, FillFreePlaces(e) PROVE Inv'
  <2> DEFINE promoted == IF Fills THEN Promoted(places, Confirmed, NoCap) ELSE {}
  <2>1. promoted \in SUBSET Waiting
    <3>1. places \in Int /\ NoCap \in Int /\ Confirmed \in SUBSET Confirmed
      <4>1. Children \in SUBSET Children
        OBVIOUS
      <4> QED BY <4>1, SetsAreFinite DEF TypeOK, Places, NoCap
    <3> QED BY <3>1, PromotedFits
  <2>2. request' \in [Editors -> Request]
    BY <1>7 DEF FillFreePlaces, TypeOK, Request
  <2>3. /\ reg' = [c \in Children |-> IF c \in promoted THEN "confirmed" ELSE reg[c]]
        /\ MailPromoted(promoted)
        /\ UNCHANGED <<session, position, bookingMails, cancellations>>
    BY <1>7 DEF FillFreePlaces
  <2> HIDE DEF promoted
  <2> QED BY <2>1, <2>2, <2>3, FillKeepsInv DEF TypeOK, session
<1>8. ASSUME NEW e \in Editors, NEW s \in Settable, SaveStatus(e, s) PROVE Inv'
  <2>1. request' \in [Editors -> Request] /\ status' \in Status
    BY <1>8 DEF SaveStatus, TypeOK, Request, Settable, Status
  <2> QED BY <1>8, <2>1, SessionStepKeepsInv DEF SaveStatus, TypeOK
<1>9. ASSUME NEW e \in Editors, DropRequest(e) PROVE Inv'
  <2>1. request' \in [Editors -> Request]
    BY <1>9 DEF DropRequest, TypeOK, Request
  <2> QED BY <1>9, <2>1, SessionStepKeepsInv DEF DropRequest, TypeOK, session
<1>10. ASSUME NEW p \in PostedPlaces, NEW s \in Settable, SyncSession(p, s) PROVE Inv'
  <2> DEFINE promoted == IF p > places THEN Promoted(p, Confirmed, NoCap) ELSE {}
  <2>1. promoted \in SUBSET Waiting
    <3>1. p \in Int /\ NoCap \in Int /\ Confirmed \in SUBSET Confirmed
      <4>1. Children \in SUBSET Children
        OBVIOUS
      <4> QED BY <4>1, SetsAreFinite, ConstantsAssumption DEF PostedPlaces, NoCap
    <3> QED BY <3>1, PromotedFits
  <2>2. /\ reg' = [c \in Children |-> IF c \in promoted THEN "confirmed" ELSE reg[c]]
        /\ MailPromoted(promoted)
        /\ places' = p /\ status' = s
        /\ UNCHANGED <<started, position, bookingMails, cancellations, request>>
    BY <1>10 DEF SyncSession
  <2>3. p \in Places
    BY <1>10, PostedPlacesAreChecked DEF SyncSession
  <2> HIDE DEF promoted
  <2> QED BY <2>1, <2>2, <2>3, FillKeepsInv DEF TypeOK, Settable, Status
<1>11. CASE UNCHANGED vars
  BY <1>11, SessionStepKeepsInv DEF vars, bookings, TypeOK
<1> QED BY <1>1, <1>2, <1>3, <1>4, <1>5, <1>6, <1>7, <1>8, <1>9, <1>10, <1>11 DEF Next

-----------------------------------------------------------------------------
(* The theorems *)

\* The invariant of a session holds in every state it can come to, whatever
\* families, team and syncs do (events/registrations.py).
THEOREM SpecInv == Spec => []Inv
BY InitInv, NextInv, PTL DEF Spec

\* Type correctness, for every number of children, requests and places.
THEOREM TypeCorrect == Spec => []TypeOK
BY SpecInv, PTL DEF Inv

\* No two children of a session ever hold the same position.
THEOREM OneQueue == Spec => []PositionsDistinct
BY SpecInv, PTL DEF Inv

\* Every sign-up is a registration still, or was logged as cancelled once.
THEOREM SignUpsAccountedFor == Spec => []EverySignUpAccountedFor
BY SpecInv, PTL DEF Inv

\* No family on the waiting list was already told it has a place.
THEOREM WaitingMeansNotPromoted == Spec => []NobodyWaitingWasPromoted
BY SpecInv, PTL DEF Inv

-----------------------------------------------------------------------------
(* Places *)

LEMMA SignUpFits ==
    ASSUME Inv, NEW selected \in SUBSET Children, SignUp(selected),
           ~(Confirmed' \subseteq Confirmed)
    PROVE  Cardinality(Confirmed') <= places'
<1> DEFINE new == selected \ Registered
<1>1. PICK rank \in Bijection(new, 1..Cardinality(new)) :
        reg' = [c \in Children |->
                  IF c \notin new THEN reg[c]
                  ELSE IF GetsPlace(rank[c]) THEN "confirmed" ELSE "waiting"]
  BY DEF SignUp
<1> DEFINE placed == {c \in new : GetsPlace(rank[c])}
           free == places - Cardinality(Confirmed)
<1>2. places' = places /\ places \in Int
  BY DEF SignUp, session, Inv, TypeOK, Places
<1>3. IsFiniteSet(Confirmed) /\ Cardinality(Confirmed) \in Nat
  BY SetsAreFinite DEF Confirmed
<1>4. /\ \A c \in new : rank[c] \in Nat /\ rank[c] >= 1
      /\ \A c, d \in new : rank[c] = rank[d] => c = d
  <2>1. IsFiniteSet(new) /\ Cardinality(new) \in Nat
    BY SetsAreFinite
  <2> HIDE DEF new
  <2> QED BY <2>1 DEF Bijection, Injection, IsInjective
<1>5. Confirmed' = Confirmed \cup placed /\ Confirmed \cap placed = {}
  BY <1>1 DEF Confirmed, Registered
<1>6. placed # {}
  BY <1>5
<1> HIDE DEF new
<1>7. \A c \in placed : rank[c] <= free
  BY <1>2, <1>3, <1>4 DEF GetsPlace
<1>8. free \in Nat /\ free >= 1
  <2>1. PICK c \in placed : TRUE
    BY <1>6
  <2>2. rank[c] \in Nat /\ rank[c] >= 1 /\ rank[c] <= free
    BY <1>4, <1>7
  <2> HIDE DEF placed
  <2> QED BY <1>2, <1>3, <2>2
<1>9. IsFiniteSet(placed) /\ Cardinality(placed) <= free /\ Cardinality(placed) \in Nat
  <2> DEFINE r == [c \in placed |-> rank[c]]
  <2>1. /\ r \in [placed -> Nat]
        /\ \A c \in placed : r[c] \in 1..free
        /\ \A c, d \in placed : r[c] = r[d] => c = d
    BY <1>4, <1>7, <1>8
  <2> HIDE DEF r, placed, free
  <2> QED BY <1>8, <2>1, RanksBoundCardinality, FS_CardinalityType
<1>10. Cardinality(Confirmed') = Cardinality(Confirmed) + Cardinality(placed)
  <2> HIDE DEF placed
  <2>1. Cardinality(Confirmed \cup placed)
          = Cardinality(Confirmed) + Cardinality(placed) - Cardinality(Confirmed \cap placed)
    BY <1>3, <1>9, FS_Union
  <2>2. Cardinality(Confirmed \cap placed) = 0
    BY <1>5, FS_EmptySet
  <2> QED BY <1>3, <1>5, <1>9, <2>1, <2>2
<1> HIDE DEF placed
<1> QED BY <1>2, <1>3, <1>9, <1>10

\* A fill (the form's, or the sync's) with the places there are after it.
LEMMA FillFits ==
    ASSUME Inv, NEW capacity \in Int, NEW promoted,
           promoted = {} \/ promoted = Promoted(capacity, Confirmed, NoCap),
           reg' = [c \in Children |-> IF c \in promoted THEN "confirmed" ELSE reg[c]],
           ~(Confirmed' \subseteq Confirmed)
    PROVE  Cardinality(Confirmed') <= capacity
<1>1. NoCap \in Int
  <2>1. Children \in SUBSET Children
    OBVIOUS
  <2> QED BY <2>1, SetsAreFinite DEF NoCap
<1>2. promoted \subseteq Waiting
  BY <1>1, PromotedFits DEF Inv
<1>3. Confirmed' = Confirmed \cup promoted
  BY <1>2 DEF Confirmed, Waiting
<1>4. promoted # {}
  BY <1>3
<1> QED BY <1>1, <1>3, <1>4, PromotedFits DEF Inv

\* For every number of children and places: no step that gives a place away
\* leaves more confirmed children than places.
THEOREM PlacesAreNeverOverbooked == Spec => NoOverbooking
<1> DEFINE Fits == ~(Confirmed' \subseteq Confirmed) => Cardinality(Confirmed') <= places'
<1>1. ASSUME Inv, [Next]_vars PROVE [Fits]_vars
  <2>1. ASSUME NEW selected \in SUBSET Children, SignUp(selected) PROVE Fits
    BY <1>1, <2>1, SignUpFits
  <2>2. ASSUME NEW c \in Children, Cancel(c) PROVE Fits
    <3> DEFINE promoted == IF c \in Confirmed
                           THEN Promoted(places, Confirmed \ {c}, 1) ELSE {}
    <3>1. /\ promoted \subseteq Waiting
          /\ promoted # {} => Cardinality((Confirmed \ {c}) \cup promoted) <= places
      BY <1>1, CancelPromotes
    <3>2. /\ reg' = [d \in Children |-> IF d = c THEN "none"
                                        ELSE IF d \in promoted THEN "confirmed"
                                        ELSE reg[d]]
          /\ places' = places
          /\ c \in Registered
      BY <2>2 DEF Cancel, RegistrationExists, session
    <3>3. c \in promoted => c \in Waiting /\ promoted = {}
      BY <3>1 DEF Waiting, Confirmed
    <3> HIDE DEF promoted
    <3>4. Confirmed' = (Confirmed \ {c}) \cup promoted
      BY <3>1, <3>2, <3>3 DEF Confirmed, Waiting
    <3>5. promoted = {} => Confirmed' \subseteq Confirmed
      BY <3>4
    <3> QED BY <3>1, <3>2, <3>4, <3>5
  <2>3. ASSUME NEW e \in Editors, FillFreePlaces(e) PROVE Fits
    <3> DEFINE promoted == IF Fills THEN Promoted(places, Confirmed, NoCap) ELSE {}
    <3>1. /\ reg' = [c \in Children |-> IF c \in promoted THEN "confirmed" ELSE reg[c]]
          /\ places' = places
      BY <2>3 DEF FillFreePlaces, session
    <3>2. places \in Int /\ (promoted = {} \/ promoted = Promoted(places, Confirmed, NoCap))
      BY <1>1 DEF Inv, TypeOK, Places
    <3> HIDE DEF promoted
    <3> QED BY <1>1, <3>1, <3>2, FillFits
  <2>4. ASSUME NEW p \in PostedPlaces, NEW s \in Settable, SyncSession(p, s) PROVE Fits
    <3> DEFINE promoted == IF p > places THEN Promoted(p, Confirmed, NoCap) ELSE {}
    <3>1. /\ reg' = [c \in Children |-> IF c \in promoted THEN "confirmed" ELSE reg[c]]
          /\ places' = p
      BY <2>4 DEF SyncSession
    <3>2. p \in Int /\ (promoted = {} \/ promoted = Promoted(p, Confirmed, NoCap))
      BY ConstantsAssumption DEF PostedPlaces
    <3> HIDE DEF promoted
    <3> QED BY <1>1, <3>1, <3>2, FillFits
  <2>5. ASSUME UNCHANGED reg PROVE Fits
    BY <2>5 DEF Confirmed
  <2> HIDE DEF Fits
  <2>6. ASSUME NEW e \in Editors,
               \/ LoadSession(e, "save_form") \/ LoadSession(e, "save_status")
               \/ \E p \in PostedPlaces, past \in BOOLEAN : SaveForm(e, p, past)
               \/ \E s \in Settable : SaveStatus(e, s)
               \/ DropRequest(e)
        PROVE  UNCHANGED reg
    BY <2>6 DEF LoadSession, SaveForm, SaveStatus, DropRequest, bookings
  <2>7. CancelSession \/ StartTimePasses \/ UNCHANGED vars => UNCHANGED reg
    BY DEF CancelSession, StartTimePasses, bookings, vars
  <2> QED BY <1>1, <2>1, <2>2, <2>3, <2>4, <2>5, <2>6, <2>7 DEF Next
<1> QED BY <1>1, SpecInv, PTL DEF Spec, NoOverbooking

-----------------------------------------------------------------------------
(* The order of the queue *)

\* Whoever is among the first n of the waiting list is before whoever is not.
LEMMA FirstWaitingAreAhead ==
    ASSUME TypeOK, NEW n \in Int,
           NEW c \in FirstWaiting(n), NEW d \in Waiting \ FirstWaiting(n)
    PROVE  position[c] < position[d]
<1> DEFINE Ahead(x) == {y \in Waiting : position[y] < position[x]}
<1>1. c \in Children /\ d \in Children /\ position[c] \in Nat /\ position[d] \in Nat
  BY DEF FirstWaiting, Waiting, TypeOK
<1>2. Ahead(c) \in SUBSET Children /\ Ahead(d) \in SUBSET Children
  BY DEF Waiting
<1>3. IsFiniteSet(Ahead(c)) /\ Cardinality(Ahead(c)) \in Nat /\ Cardinality(Ahead(d)) \in Nat
  BY <1>2, SetsAreFinite
<1>4. Cardinality(Ahead(c)) < n /\ ~(Cardinality(Ahead(d)) < n)
  BY DEF FirstWaiting
<1> SUFFICES ASSUME position[d] <= position[c] PROVE FALSE
  BY <1>1
<1>5. Ahead(d) \in SUBSET Ahead(c)
  BY <1>1 DEF Waiting, TypeOK
<1>6. Cardinality(Ahead(d)) <= Cardinality(Ahead(c))
  <2> HIDE DEF Ahead
  <2> QED BY <1>3, <1>5, FS_Subset
<1> QED BY <1>3, <1>4, <1>6

\* The children a step of _promote moves are the first of the waiting list.
LEMMA PromotedAreFirst ==
    ASSUME Inv, NEW capacity \in Int, NEW confirmed \in SUBSET Children, NEW atMost \in Int
    PROVE  \E n \in Int : Promoted(capacity, confirmed, atMost) = FirstWaiting(n)
<1> DEFINE free == capacity - Cardinality(confirmed)
<1>1. free \in Int
  BY SetsAreFinite
<1> HIDE DEF free
<1>2. (IF atMost < free THEN atMost ELSE free) \in Int
  BY <1>1
<1>3. Promoted(capacity, confirmed, atMost)
      = FirstWaiting(IF atMost < free THEN atMost ELSE free)
  BY DEF Promoted, free
<1> QED BY <1>2, <1>3

\* What every step does to the waiting list: it promotes its first n children.
LEMMA StepsPromoteTheFirst ==
    ASSUME Inv, Next
    PROVE  \/ Waiting \cap Confirmed' = {}
           \/ \E n \in Int : /\ Waiting \cap Confirmed' \subseteq FirstWaiting(n)
                            /\ Waiting \cap Waiting' \cap FirstWaiting(n) = {}
<1> DEFINE Goal == \/ Waiting \cap Confirmed' = {}
                   \/ \E n \in Int : /\ Waiting \cap Confirmed' \subseteq FirstWaiting(n)
                                    /\ Waiting \cap Waiting' \cap FirstWaiting(n) = {}
<1>0. /\ places \in Int /\ NoCap \in Int /\ PostedPlaces \subseteq Int
      /\ Confirmed \in SUBSET Children /\ Waiting \cap Confirmed = {}
  <2>1. Children \in SUBSET Children
    OBVIOUS
  <2>2. NoCap \in Int
    BY <2>1, SetsAreFinite DEF NoCap
  <2> QED BY <2>2, ConstantsAssumption DEF Inv, TypeOK, Places, PostedPlaces, Confirmed, Waiting
<1>1. ASSUME NEW selected \in SUBSET Children, SignUp(selected) PROVE Goal
  <2>1. \A c \in Waiting : reg'[c] = reg[c]
    BY <1>1 DEF SignUp, Registered, Waiting
  <2> QED BY <2>1 DEF Waiting, Confirmed
<1>2. ASSUME NEW c \in Children, Cancel(c) PROVE Goal
  <2> DEFINE promoted == IF c \in Confirmed THEN Promoted(places, Confirmed \ {c}, 1) ELSE {}
  <2>1. reg' = [d \in Children |-> IF d = c THEN "none"
                                   ELSE IF d \in promoted THEN "confirmed" ELSE reg[d]]
    BY <1>2 DEF Cancel
  <2>2. Confirmed \ {c} \in SUBSET Children /\ 1 \in Int
    BY <1>0
  <2>3. promoted = {} \/ \E n \in Int : promoted = FirstWaiting(n)
    BY <1>0, <2>2, PromotedAreFirst
  <2> HIDE DEF promoted
  <2>4. Waiting \cap Confirmed' \subseteq promoted
    BY <2>1 DEF Waiting, Confirmed
  <2>5. Waiting' \cap promoted = {}
    BY <2>1 DEF Waiting
  <2> QED BY <2>3, <2>4, <2>5
<1>3. ASSUME NEW promoted, promoted = {} \/ \E n \in Int : promoted = FirstWaiting(n),
             reg' = [c \in Children |-> IF c \in promoted THEN "confirmed" ELSE reg[c]]
      PROVE  Goal
  <2>1. Waiting \cap Confirmed' \subseteq promoted
    BY <1>3 DEF Waiting, Confirmed
  <2>2. Waiting' \cap promoted = {}
    BY <1>3 DEF Waiting
  <2> QED BY <1>3, <2>1, <2>2
<1>4. ASSUME NEW e \in Editors, FillFreePlaces(e) PROVE Goal
  <2> DEFINE promoted == IF Fills THEN Promoted(places, Confirmed, NoCap) ELSE {}
  <2>1. promoted = {} \/ \E n \in Int : promoted = FirstWaiting(n)
    BY <1>0, PromotedAreFirst
  <2>2. reg' = [c \in Children |-> IF c \in promoted THEN "confirmed" ELSE reg[c]]
    BY <1>4 DEF FillFreePlaces
  <2> HIDE DEF promoted
  <2> QED BY <2>1, <2>2, <1>3
<1>5. ASSUME NEW p \in PostedPlaces, NEW s \in Settable, SyncSession(p, s) PROVE Goal
  <2> DEFINE promoted == IF p > places THEN Promoted(p, Confirmed, NoCap) ELSE {}
  <2>1. promoted = {} \/ \E n \in Int : promoted = FirstWaiting(n)
    BY <1>0, PromotedAreFirst
  <2>2. reg' = [c \in Children |-> IF c \in promoted THEN "confirmed" ELSE reg[c]]
    BY <1>5 DEF SyncSession
  <2> HIDE DEF promoted
  <2> QED BY <2>1, <2>2, <1>3
<1>6. ASSUME UNCHANGED reg PROVE Goal
  BY <1>0, <1>6 DEF Waiting, Confirmed
<1> HIDE DEF Goal
<1>7. ASSUME NEW e \in Editors,
             \/ LoadSession(e, "save_form") \/ LoadSession(e, "save_status")
             \/ \E p \in PostedPlaces, past \in BOOLEAN : SaveForm(e, p, past)
             \/ \E s \in Settable : SaveStatus(e, s)
             \/ DropRequest(e)
      PROVE  UNCHANGED reg
  BY <1>7 DEF LoadSession, SaveForm, SaveStatus, DropRequest, bookings
<1>8. CancelSession \/ StartTimePasses => UNCHANGED reg
  BY DEF CancelSession, StartTimePasses, bookings
<1>9. Goal
  BY <1>1, <1>2, <1>4, <1>5, <1>6, <1>7, <1>8 DEF Next
<1> QED BY <1>9 DEF Goal

\* For every number of children and places: whoever is promoted waited longer
\* than everyone who still waits.
THEOREM TheLongestWaitingGoFirst == Spec => LongestWaitingFirst
<1> DEFINE InOrder == \A c \in Waiting \cap Confirmed', d \in Waiting \cap Waiting' :
                         position[c] < position[d]
<1>1. ASSUME Inv, [Next]_vars PROVE [InOrder]_vars
  <2> SUFFICES ASSUME Next PROVE InOrder
    BY <1>1
  <2> SUFFICES ASSUME NEW c \in Waiting \cap Confirmed', NEW d \in Waiting \cap Waiting'
               PROVE  position[c] < position[d]
    OBVIOUS
  <2>1. PICK n \in Int : c \in FirstWaiting(n) /\ d \notin FirstWaiting(n)
    BY <1>1, StepsPromoteTheFirst
  <2> QED BY <1>1, <2>1, FirstWaitingAreAhead DEF Inv
<1> QED BY <1>1, SpecInv, PTL DEF Spec, LongestWaitingFirst

-----------------------------------------------------------------------------
(* Idle places *)

\* A waiting list that is not empty has a first child.
LEMMA SomeoneIsFirst ==
    ASSUME TypeOK, Waiting # {}
    PROVE  FirstWaiting(1) # {}
<1> DEFINE Ahead(c) == {d \in Waiting : position[d] < position[c]}
           T == {Ahead(c) : c \in Waiting}
<1>1. Waiting \in SUBSET Children /\ IsFiniteSet(Waiting)
  <2>1. Waiting \in SUBSET Children
    BY DEF Waiting
  <2> QED BY <2>1, SetsAreFinite
<1>2. T \subseteq FiniteSubsetsOf(Waiting) /\ T # {}
  <2>1. ASSUME NEW c \in Waiting PROVE Ahead(c) \in FiniteSubsetsOf(Waiting)
    <3>1. Ahead(c) \in SUBSET Waiting
      OBVIOUS
    <3> HIDE DEF Ahead
    <3> QED BY <1>1, <3>1, FS_Subset DEF FiniteSubsetsOf
  <2> QED BY <2>1
<1>3. PICK A \in T : \A B \in T : ~(<<B, A>> \in StrictSubsetOrdering(Waiting))
  <2> HIDE DEF T
  <2> QED BY <1>1, <1>2, FS_StrictSubsetOrderingWellFounded, WFMin
<1>4. PICK c \in Waiting : A = Ahead(c)
  BY <1>3
<1>5. \A d \in Waiting : position[d] \in Nat
  BY DEF Waiting, TypeOK
<1>6. Ahead(c) = {}
  <2> SUFFICES ASSUME NEW d \in Ahead(c) PROVE FALSE
    OBVIOUS
  <2>1. Ahead(d) \subseteq Ahead(c) /\ d \in Ahead(c) /\ d \notin Ahead(d)
    <3>1. d \in Waiting /\ position[d] < position[c]
      OBVIOUS
    <3>2. \A b \in Waiting : position[b] < position[d] => position[b] < position[c]
      BY <1>5, <3>1
    <3>3. ~(position[d] < position[d])
      BY <1>5, <3>1
    <3> QED BY <3>1, <3>2, <3>3
  <2>2. Ahead(d) \in T /\ Ahead(d) \in SUBSET Waiting /\ Ahead(c) \in SUBSET Waiting
    OBVIOUS
  <2>3. <<Ahead(d), Ahead(c)>> \in StrictSubsetOrdering(Waiting)
    <3> HIDE DEF Ahead
    <3> QED BY <2>1, <2>2 DEF StrictSubsetOrdering
  <2> QED BY <1>3, <1>4, <2>2, <2>3
<1>7. Cardinality(Ahead(c)) < 1
  BY <1>6, FS_EmptySet
<1> QED BY <1>7 DEF FirstWaiting

\* A sign-up leaves a new child waiting only when it filled the session.
LEMMA SignUpLeavesNoIdlePlace ==
    ASSUME Inv, NoIdlePlace, NEW selected \in SUBSET Children, SignUp(selected)
    PROVE  NoIdlePlace'
<1> DEFINE new == selected \ Registered
           free == places - Cardinality(Confirmed)
<1>1. PICK rank \in Bijection(new, 1..Cardinality(new)) :
        reg' = [c \in Children |->
                  IF c \notin new THEN reg[c]
                  ELSE IF GetsPlace(rank[c]) THEN "confirmed" ELSE "waiting"]
  BY DEF SignUp
<1> DEFINE placed == {c \in new : GetsPlace(rank[c])}
<1>2. places' = places /\ places \in Int
  BY DEF SignUp, session, Inv, TypeOK, Places
<1>3. /\ IsFiniteSet(Confirmed) /\ Cardinality(Confirmed) \in Nat
      /\ IsFiniteSet(new) /\ Cardinality(new) \in Nat
      /\ IsFiniteSet(Confirmed') /\ Cardinality(Confirmed') \in Nat
  <2>1. Confirmed \in SUBSET Children /\ new \in SUBSET Children /\ Confirmed' \in SUBSET Children
    BY DEF Confirmed
  <2> HIDE DEF new
  <2> QED BY <2>1, SetsAreFinite
<1>4. Confirmed' = Confirmed \cup placed /\ Confirmed \cap placed = {}
  BY <1>1 DEF Confirmed, Registered
<1>5. Cardinality(Confirmed) <= Cardinality(Confirmed')
  BY <1>3, <1>4, FS_Subset
<1> SUFFICES ASSUME Waiting' # {} PROVE Cardinality(Confirmed') >= places
  BY <1>2 DEF NoIdlePlace
<1>6. CASE Cardinality(Confirmed) >= places
  BY <1>2, <1>3, <1>5, <1>6
<1>7. CASE ~(Cardinality(Confirmed) >= places)
  <2>1. free \in Nat /\ Waiting = {}
    BY <1>2, <1>3, <1>7 DEF NoIdlePlace
  <2>2. PICK w \in new : ~GetsPlace(rank[w])
    BY <1>1, <2>1 DEF Waiting
  <2> HIDE DEF new
  <2>3. rank[w] \in 1..Cardinality(new) /\ free < rank[w]
    BY <1>2, <1>3, <2>2 DEF GetsPlace, Bijection, Injection
  <2>4. \A i \in 1..free : \E c \in placed : rank[c] = i
    <3> SUFFICES ASSUME NEW i \in 1..free PROVE \E c \in placed : rank[c] = i
      OBVIOUS
    <3>1. i \in 1..Cardinality(new)
      BY <1>3, <2>1, <2>3
    <3>2. PICK c \in new : rank[c] = i
      BY <3>1 DEF Bijection, Surjection
    <3>3. GetsPlace(rank[c])
      BY <1>2, <1>3, <3>2 DEF GetsPlace
    <3> QED BY <3>2, <3>3
  <2>5. IsFiniteSet(placed)
    BY <1>3, FS_Subset
  <2>6. free <= Cardinality(placed) /\ Cardinality(placed) \in Nat
    <3> DEFINE chosen == [i \in 1..free |-> CHOOSE c \in placed : rank[c] = i]
    <3> HIDE DEF placed, free
    <3>1. \A i \in 1..free : chosen[i] \in placed /\ rank[chosen[i]] = i
      BY <2>4
    <3>2. chosen \in [1..free -> placed]
      BY <3>1
    <3>3. chosen \in Injection(1..free, placed)
      <4> HIDE DEF chosen
      <4> QED BY <3>1, <3>2 DEF Injection, IsInjective
    <3>4. IsFiniteSet(1..free) /\ Cardinality(1..free) = free
      BY <2>1, FS_Interval
    <3>5. Cardinality(placed) \in Nat
      BY <2>5, FS_CardinalityType
    <3> HIDE DEF chosen
    <3> QED BY <2>5, <3>3, <3>4, <3>5, FS_Injection
  <2>7. Cardinality(Confirmed') = Cardinality(Confirmed) + Cardinality(placed)
    <3> HIDE DEF placed
    <3>1. Cardinality(Confirmed \cup placed)
            = Cardinality(Confirmed) + Cardinality(placed) - Cardinality(Confirmed \cap placed)
      BY <1>3, <2>5, FS_Union
    <3>2. Cardinality(Confirmed \cap placed) = 0
      BY <1>4, FS_EmptySet
    <3> QED BY <1>3, <1>4, <2>6, <3>1, <3>2
  <2> HIDE DEF placed
  <2> QED BY <1>2, <1>3, <2>6, <2>7
<1> QED BY <1>6, <1>7

\* The place a confirmed child gives up goes to the first who waits, if the
\* session was full.
LEMMA CancelLeavesNoIdlePlace ==
    ASSUME Inv, NoIdlePlace, NEW c \in Children, Cancel(c)
    PROVE  NoIdlePlace'
<1> DEFINE promoted == IF c \in Confirmed
                       THEN Promoted(places, Confirmed \ {c}, 1) ELSE {}
<1>1. /\ promoted \subseteq Waiting
      /\ reg' = [d \in Children |-> IF d = c THEN "none"
                                    ELSE IF d \in promoted THEN "confirmed" ELSE reg[d]]
      /\ places' = places /\ places \in Int /\ c \in Registered
  <2>1. promoted \subseteq Waiting
    BY CancelPromotes
  <2>2. places' = places /\ places \in Int /\ c \in Registered
    BY DEF Cancel, RegistrationExists, session, Inv, TypeOK, Places
  <2>3. reg' = [d \in Children |-> IF d = c THEN "none"
                                   ELSE IF d \in promoted THEN "confirmed" ELSE reg[d]]
    BY DEF Cancel
  <2> QED BY <2>1, <2>2, <2>3
<1>2. /\ IsFiniteSet(Confirmed) /\ Cardinality(Confirmed) \in Nat
      /\ IsFiniteSet(Confirmed') /\ Cardinality(Confirmed') \in Nat
  <2>1. Confirmed \in SUBSET Children /\ Confirmed' \in SUBSET Children
    BY DEF Confirmed
  <2> QED BY <2>1, SetsAreFinite
<1> SUFFICES ASSUME Waiting' # {} PROVE Cardinality(Confirmed') >= places
  BY <1>1 DEF NoIdlePlace
<1>3. Waiting' \subseteq Waiting /\ Cardinality(Confirmed) >= places
  BY <1>1 DEF Waiting, NoIdlePlace
<1>4. CASE c \notin Confirmed
  <2>1. Confirmed' = Confirmed
    BY <1>1, <1>4 DEF Confirmed
  <2> QED BY <1>3, <2>1
<1>5. CASE c \in Confirmed
  <2> DEFINE left == Confirmed \ {c}
             free == places - Cardinality(left)
  <2>1. IsFiniteSet(left) /\ Cardinality(left) = Cardinality(Confirmed) - 1
    BY <1>2, <1>5, FS_RemoveElement
  <2>2. c \notin promoted
    BY <1>1, <1>5 DEF Waiting, Confirmed
  <2>3. Confirmed' = left \cup promoted
    BY <1>1, <2>2 DEF Confirmed, Waiting
  <2>4. free \in Int /\ free <= 1
    BY <1>1, <1>2, <1>3, <2>1
  <2>5. CASE free < 1
    <3>1. Cardinality(left) <= Cardinality(Confirmed')
      <4> HIDE DEF left, promoted
      <4> QED BY <1>2, <2>3, FS_Subset
    <3> QED BY <1>1, <1>2, <2>1, <2>5, <3>1
  <2>6. CASE ~(free < 1)
    <3>1. promoted = FirstWaiting(1)
      BY <1>5, <2>4, <2>6 DEF Promoted
    <3>2. PICK w \in promoted : TRUE
      BY <1>3, <3>1, SomeoneIsFirst DEF Inv
    <3>3. w \notin left /\ left \cup {w} \subseteq Confirmed'
      BY <1>1, <2>3, <3>2 DEF Waiting, Confirmed
    <3>4. Cardinality(left \cup {w}) = Cardinality(left) + 1
      <4> HIDE DEF left
      <4> QED BY <2>1, <3>3, FS_AddElement
    <3>5. Cardinality(left \cup {w}) <= Cardinality(Confirmed')
      <4> HIDE DEF left
      <4> QED BY <1>2, <3>3, FS_Subset
    <3> QED BY <1>1, <1>2, <1>3, <2>1, <3>4, <3>5
  <2> QED BY <2>5, <2>6
<1> QED BY <1>4, <1>5

\* A fill only adds confirmed children, and takes from the waiting list.
LEMMA FillsLeaveNoIdlePlace ==
    ASSUME Inv, NoIdlePlace, places' = places, NEW promoted \in SUBSET Waiting,
           reg' = [c \in Children |-> IF c \in promoted THEN "confirmed" ELSE reg[c]]
    PROVE  NoIdlePlace'
<1>1. Waiting' \subseteq Waiting /\ Confirmed \subseteq Confirmed'
  BY DEF Waiting, Confirmed
<1>2. Confirmed' \in SUBSET Children /\ Confirmed \in SUBSET Children
  BY DEF Confirmed
<1>3. /\ IsFiniteSet(Confirmed') /\ Cardinality(Confirmed) \in Nat
      /\ Cardinality(Confirmed') \in Nat /\ places \in Int
  BY <1>2, SetsAreFinite DEF Inv, TypeOK, Places
<1>4. Cardinality(Confirmed) <= Cardinality(Confirmed')
  BY <1>1, <1>3, FS_Subset
<1> QED BY <1>1, <1>3, <1>4 DEF NoIdlePlace

\* Every step that is not a sign-up or a cancellation promotes some of the
\* children who wait, or none, and moves nobody in the queue.
LEMMA OtherStepsPromote ==
    ASSUME Inv, [Next]_vars
    PROVE  \/ \E selected \in SUBSET Children : SignUp(selected)
           \/ \E c \in Children : Cancel(c)
           \/ /\ \E promoted \in SUBSET Waiting :
                    reg' = [c \in Children |-> IF c \in promoted THEN "confirmed" ELSE reg[c]]
              /\ position' = position
<1> DEFINE Promotes == /\ \E promoted \in SUBSET Waiting :
                            reg' = [c \in Children |->
                                      IF c \in promoted THEN "confirmed" ELSE reg[c]]
                       /\ position' = position
<1>0. \A capacity, confirmed, atMost :
        Promoted(capacity, confirmed, atMost) \subseteq Waiting
  BY DEF Promoted, FirstWaiting
<1>1. ASSUME NEW e \in Editors, FillFreePlaces(e) PROVE Promotes
  <2> DEFINE promoted == IF Fills THEN Promoted(places, Confirmed, NoCap) ELSE {}
  <2>1. promoted \in SUBSET Waiting
    BY <1>0
  <2>2. /\ reg' = [c \in Children |-> IF c \in promoted THEN "confirmed" ELSE reg[c]]
        /\ position' = position
    BY <1>1 DEF FillFreePlaces
  <2> HIDE DEF promoted
  <2> QED BY <2>1, <2>2
<1>2. ASSUME NEW p \in PostedPlaces, NEW s \in Settable, SyncSession(p, s) PROVE Promotes
  <2> DEFINE promoted == IF p > places THEN Promoted(p, Confirmed, NoCap) ELSE {}
  <2>1. promoted \in SUBSET Waiting
    BY <1>0
  <2>2. /\ reg' = [c \in Children |-> IF c \in promoted THEN "confirmed" ELSE reg[c]]
        /\ position' = position
    BY <1>2 DEF SyncSession
  <2> HIDE DEF promoted
  <2> QED BY <2>1, <2>2
<1>3. ASSUME UNCHANGED bookings PROVE Promotes
  <2>1. reg' = [c \in Children |-> IF c \in {} THEN "confirmed" ELSE reg[c]]
    BY <1>3 DEF bookings, Inv, TypeOK
  <2>2. {} \in SUBSET Waiting
    OBVIOUS
  <2> QED BY <1>3, <2>1, <2>2 DEF bookings
<1> HIDE DEF Promotes
<1>4. ASSUME NEW e \in Editors,
             \/ LoadSession(e, "save_form") \/ LoadSession(e, "save_status")
             \/ \E p \in PostedPlaces, past \in BOOLEAN : SaveForm(e, p, past)
             \/ \E s \in Settable : SaveStatus(e, s)
             \/ DropRequest(e)
      PROVE  UNCHANGED bookings
  BY <1>4 DEF LoadSession, SaveForm, SaveStatus, DropRequest
<1>5. CancelSession \/ StartTimePasses \/ UNCHANGED vars => UNCHANGED bookings
  BY DEF CancelSession, StartTimePasses, bookings, vars
<1>6. \/ \E selected \in SUBSET Children : SignUp(selected)
      \/ \E c \in Children : Cancel(c)
      \/ Promotes
  BY <1>1, <1>2, <1>3, <1>4, <1>5 DEF Next
<1> QED BY <1>6 DEF Promotes

\* For every number of children and places: only a change of the number of
\* places leaves a place idle beside somebody who waits for it.
THEOREM NoPlaceIsLeftIdle == Spec => OnlyPlacesChangesLeaveIdlePlaces
<1> DEFINE Keeps == NoIdlePlace /\ places' = places => NoIdlePlace'
<1>1. ASSUME Inv, [Next]_vars PROVE [Keeps]_vars
  BY <1>1, OtherStepsPromote, SignUpLeavesNoIdlePlace, CancelLeavesNoIdlePlace,
     FillsLeaveNoIdlePlace
<1> QED BY <1>1, SpecInv, PTL DEF Spec, OnlyPlacesChangesLeaveIdlePlaces

-----------------------------------------------------------------------------
(* Overtaking *)

\* Whoever signs up while somebody waits finds the session full, and ranks
\* behind everyone.
LEMMA SignUpKeepsQueueOrder ==
    ASSUME Inv, NoIdlePlace, QueueOrder, NEW selected \in SUBSET Children, SignUp(selected)
    PROVE  QueueOrder'
<1> DEFINE new == selected \ Registered
<1>1. PICK rank \in Bijection(new, 1..Cardinality(new)) :
        /\ reg' = [c \in Children |->
                     IF c \notin new THEN reg[c]
                     ELSE IF GetsPlace(rank[c]) THEN "confirmed" ELSE "waiting"]
        /\ position' = [c \in Children |->
                          IF c \in new THEN LastPosition + rank[c] ELSE position[c]]
  BY DEF SignUp
<1>2. Cardinality(new) \in Nat /\ Cardinality(Confirmed) \in Nat /\ places \in Int
  <2>1. new \in SUBSET Children /\ Confirmed \in SUBSET Children
    BY DEF Confirmed
  <2> QED BY <2>1, SetsAreFinite DEF Inv, TypeOK, Places
<1>3. new \cap Registered = {} /\ new \subseteq Children
  OBVIOUS
<1> HIDE DEF new
<1>4. \A c \in new : rank[c] \in Nat /\ rank[c] >= 1
  BY <1>2 DEF Bijection, Injection
<1>5. LastPosition \in Nat /\ \A c \in Registered : position[c] <= LastPosition
  BY LastPositionBounds DEF Inv
<1>6. \A c \in Registered : position'[c] = position[c] /\ position[c] \in Nat
  BY <1>1, <1>3 DEF Inv, TypeOK, Registered, Waiting, Confirmed
<1>7. \A c \in new : position'[c] = LastPosition + rank[c]
  BY <1>1, <1>3
<1> SUFFICES ASSUME NEW c \in Confirmed', NEW d \in Waiting'
             PROVE  position'[c] < position'[d]
  BY DEF QueueOrder
<1>8. /\ c \in Confirmed \/ (c \in new /\ GetsPlace(rank[c]))
      /\ d \in Waiting \/ (d \in new /\ ~GetsPlace(rank[d]))
  BY <1>1 DEF Confirmed, Waiting
<1>9. CASE c \in Confirmed /\ d \in Waiting
  BY <1>6, <1>9 DEF QueueOrder, Registered
<1>10. CASE c \in Confirmed /\ d \in new
  <2>1. c \in Registered
    BY <1>10 DEF Registered
  <2> QED BY <1>4, <1>5, <1>6, <1>7, <1>10, <2>1
<1>11. CASE c \in new /\ GetsPlace(rank[c]) /\ d \in Waiting
  <2>1. Cardinality(Confirmed) >= places
    BY <1>11 DEF NoIdlePlace
  <2> QED BY <1>2, <1>4, <1>11, <2>1 DEF GetsPlace
<1>12. CASE c \in new /\ GetsPlace(rank[c]) /\ d \in new /\ ~GetsPlace(rank[d])
  <2>1. rank[c] < rank[d]
    BY <1>2, <1>4, <1>12 DEF GetsPlace
  <2> QED BY <1>4, <1>5, <1>7, <1>12, <2>1
<1> QED BY <1>8, <1>9, <1>10, <1>11, <1>12

\* The other steps confirm only children who are first among those waiting.
LEMMA OtherStepsKeepQueueOrder ==
    ASSUME Inv, QueueOrder, Next,
           Registered' \subseteq Registered,
           \A c \in Registered' : position'[c] = position[c],
           Waiting' \subseteq Waiting
    PROVE  QueueOrder'
<1> SUFFICES ASSUME NEW c \in Confirmed', NEW d \in Waiting'
             PROVE  position'[c] < position'[d]
  BY DEF QueueOrder
<1>1. /\ position'[c] = position[c] /\ position'[d] = position[d]
      /\ c \in Registered /\ d \in Waiting
  BY DEF Registered
<1>2. CASE c \in Confirmed
  BY <1>1, <1>2 DEF QueueOrder
<1>3. CASE c \in Waiting
  <2>1. PICK n \in Int : c \in FirstWaiting(n) /\ d \notin FirstWaiting(n)
    <3>1. c \in Waiting \cap Confirmed' /\ d \in Waiting \cap Waiting'
      BY <1>1, <1>3
    <3> QED BY <3>1, StepsPromoteTheFirst
  <2> QED BY <1>1, <2>1, FirstWaitingAreAhead DEF Inv
<1> QED BY <1>1, <1>2, <1>3 DEF Registered

\* For every number of children and places: while no place was left idle
\* beside the waiting list, nobody who signed up later gets ahead of it.
THEOREM TheQueueIsNotOvertaken == Spec => NobodyOvertakesAFullSession
<1> DEFINE Keeps == NoIdlePlace /\ QueueOrder => QueueOrder'
<1>1. ASSUME Inv, [Next]_vars PROVE [Keeps]_vars
  <2> SUFFICES ASSUME Next, NoIdlePlace, QueueOrder PROVE QueueOrder'
    BY <1>1
  <2>1. CASE \E selected \in SUBSET Children : SignUp(selected)
    BY <1>1, <2>1, SignUpKeepsQueueOrder
  <2>2. ASSUME NEW c \in Children, Cancel(c) PROVE QueueOrder'
    <3> DEFINE promoted == IF c \in Confirmed
                           THEN Promoted(places, Confirmed \ {c}, 1) ELSE {}
    <3>1. promoted \subseteq Waiting
      BY <1>1, CancelPromotes
    <3>2. /\ reg' = [d \in Children |-> IF d = c THEN "none"
                                        ELSE IF d \in promoted THEN "confirmed"
                                        ELSE reg[d]]
          /\ position' = [position EXCEPT ![c] = 0]
      BY <2>2 DEF Cancel
    <3> HIDE DEF promoted
    <3>3. Waiting' \subseteq Waiting /\ Registered' \subseteq Registered
      BY <3>1, <3>2 DEF Registered, Waiting, Confirmed
    <3>4. \A d \in Registered' : position'[d] = position[d]
      BY <1>1, <3>2 DEF Registered, Waiting, Confirmed, Inv, TypeOK
    <3> QED BY <1>1, <3>3, <3>4, OtherStepsKeepQueueOrder
  <2>3. ASSUME NEW promoted \in SUBSET Waiting,
               reg' = [c \in Children |-> IF c \in promoted THEN "confirmed" ELSE reg[c]],
               position' = position
        PROVE  QueueOrder'
    <3>1. Waiting' \subseteq Waiting /\ Registered' \subseteq Registered
      BY <2>3 DEF Registered, Waiting, Confirmed
    <3> QED BY <1>1, <2>3, <3>1, OtherStepsKeepQueueOrder
  <2> QED BY <1>1, <2>1, <2>2, <2>3, OtherStepsPromote
<1> QED BY <1>1, SpecInv, PTL DEF Spec, NobodyOvertakesAFullSession

-----------------------------------------------------------------------------
(* Sessions that were called off *)

\* For every number of children and places: once a session is called off, the
\* only step that gives a place away is a family's that gives one up.
THEOREM CancelledSessionsStayAsTheyAre == Spec => CalledOffSessionsAreNotFilled
<1> DEFINE NotFilled == status = "cancelled" /\ ~(Confirmed' \subseteq Confirmed)
                          => ~(Registered \subseteq Registered')
<1>1. ASSUME Inv, [Next]_vars PROVE [NotFilled]_vars
  <2>1. ASSUME NEW selected \in SUBSET Children, SignUp(selected) PROVE NotFilled
    BY <2>1 DEF SignUp
  <2>2. ASSUME NEW c \in Children, Cancel(c) PROVE NotFilled
    <3>1. c \in Registered /\ reg'[c] = "none"
      BY <2>2 DEF Cancel, RegistrationExists
    <3>2. c \notin Registered'
      BY <3>1 DEF Registered, Waiting, Confirmed
    <3> QED BY <3>1, <3>2
  <2>3. ASSUME NEW e \in Editors, FillFreePlaces(e) PROVE NotFilled
    <3>1. ASSUME status = "cancelled" PROVE Confirmed' = Confirmed
      BY <2>3, <3>1 DEF FillFreePlaces, Fills, Confirmed
    <3> QED BY <3>1
  <2>4. ASSUME NEW p \in PostedPlaces, NEW s \in Settable, SyncSession(p, s) PROVE NotFilled
    BY <2>4 DEF SyncSession
  <2>5. ASSUME UNCHANGED reg PROVE NotFilled
    BY <2>5 DEF Confirmed
  <2> HIDE DEF NotFilled
  <2>6. ASSUME NEW e \in Editors,
               \/ LoadSession(e, "save_form") \/ LoadSession(e, "save_status")
               \/ \E p \in PostedPlaces, past \in BOOLEAN : SaveForm(e, p, past)
               \/ \E s \in Settable : SaveStatus(e, s)
               \/ DropRequest(e)
        PROVE  UNCHANGED reg
    BY <2>6 DEF LoadSession, SaveForm, SaveStatus, DropRequest, bookings
  <2>7. CancelSession \/ StartTimePasses \/ UNCHANGED vars => UNCHANGED reg
    BY DEF CancelSession, StartTimePasses, bookings, vars
  <2> QED BY <1>1, <2>1, <2>2, <2>3, <2>4, <2>5, <2>6, <2>7 DEF Next
<1> QED BY <1>1, SpecInv, PTL DEF Spec, CalledOffSessionsAreNotFilled
=============================================================================

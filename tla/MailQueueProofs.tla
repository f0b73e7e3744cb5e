--------------------------- MODULE MailQueueProofs ---------------------------
(***************************************************************************)
(* For every set of mails and batches, any limits and any number of        *)
(* faults: what MailQueue keeps.  The types need nothing else; the claim   *)
(* limit rests on the one dispatcher, and that a mail's row tells what     *)
(* happened to it on the one process of the mailing worker, which is how   *)
(* the site is deployed (LEVEL27_DEPLOYMENT.md).  And, for any number of   *)
(* mailings, readers and requests: what a dojo's own mailings keep.        *)
(***************************************************************************)
EXTENDS MailQueue, DojoMailings, FiniteSetTheorems, TLAPS

-----------------------------------------------------------------------------
(* Counting rows *)

LEMMA MailSetsAreFinite ==
    ASSUME NEW S \in SUBSET Mails
    PROVE  IsFiniteSet(S) /\ Cardinality(S) \in Nat
BY FS_Subset, FS_CardinalityType, ConstantsAssumption

LEMMA MinOfTwo ==
    ASSUME NEW i \in Nat, NEW j \in Nat
    PROVE  Min({i, j}) \in Nat /\ Min({i, j}) <= i /\ Min({i, j}) <= j
<1>1. \E x \in {i, j} : \A y \in {i, j} : x <= y
  <2>1. CASE i <= j
    BY <2>1
  <2>2. CASE ~(i <= j)
    BY <2>2
  <2> QED BY <2>1, <2>2
<1>2. Min({i, j}) \in {i, j} /\ \A y \in {i, j} : Min({i, j}) <= y
  BY <1>1 DEF Min
<1> QED BY <1>2

\* _claim_pending takes no more rows than it found room for.
LEMMA ClaimTakesItsRoom ==
    ASSUME TypeOK, NEW room \in Nat,
           NEW ids \in kSubset(Min({room, Cardinality(Pending)}), Pending)
    PROVE  ids \subseteq Pending /\ Cardinality(ids) <= room
<1>1. Cardinality(Pending) \in Nat
  BY MailSetsAreFinite DEF Pending
<1> QED BY <1>1, MinOfTwo DEF kSubset

-----------------------------------------------------------------------------
(* Types *)

DispatcherRecord ==
    {IdleDispatcher}
    \cup [step : {"claim"}, room : 1..ClaimLimit, ids : {{}}]
    \cup [step : {"publish"}, room : {0}, ids : (SUBSET Mails) \ {{}}]

SlotRecord ==
    [state : {"free", "queued", "running"}, ids : SUBSET Mails,
     retries : 0..MaxRetries, todo : SUBSET Mails,
     at : Mails \cup {NoMail}, accepted : BOOLEAN]

LEMMA UpdatesKeepStatus ==
    ASSUME TypeOK, NEW rows, NEW new \in Status, SetStatus(rows, new)
    PROVE  status' \in [Mails -> Status]
BY DEF TypeOK, SetStatus

LEMMA FreeSlotIsASlot == FreeSlot \in SlotRecord
BY ConstantsAssumption DEF FreeSlot, SlotRecord

LEMMA MessageIsASlot ==
    ASSUME NEW ids \in SUBSET Mails, NEW retries \in 0..MaxRetries
    PROVE  Message(ids, retries) \in SlotRecord
BY DEF Message, SlotRecord

LEMMA InitTypes == Init => TypeOK
<1> SUFFICES ASSUME Init PROVE TypeOK
  OBVIOUS
<1>1. batch \in [Batches -> SlotRecord]
  BY FreeSlotIsASlot DEF Init
<1>2. 0 \in 0..MaxClaims /\ 0 \in 0..MaxFaults
  BY ConstantsAssumption
<1> QED BY <1>1, <1>2 DEF Init, TypeOK, Status, SlotRecord

\* The requests of the site: the rows' status and who is blocked.
LEMMA WebTypes ==
    ASSUME TypeOK, WebStep
    PROVE  TypeOK'
<1>1. ASSUME NEW m \in Mails, CheckAddress(m) PROVE TypeOK'
  <2>1. (IF blocked THEN "suppressed" ELSE "checked") \in Status
    BY DEF Status
  <2>2. status' \in [Mails -> Status]
    BY <1>1, <2>1, UpdatesKeepStatus DEF CheckAddress
  <2> QED BY <1>1, <2>2 DEF CheckAddress, TypeOK, smtp, desk
<1>2. ASSUME NEW m \in Mails, InsertRow(m) PROVE TypeOK'
  <2>1. status' \in [Mails -> Status]
    BY <1>2, UpdatesKeepStatus DEF InsertRow, Status
  <2> QED BY <1>2, <2>1 DEF InsertRow, TypeOK, smtp, desk
<1>3. ASSUME NEW m \in Mails, CheckRetry(m) PROVE TypeOK'
  BY <1>3 DEF CheckRetry, TypeOK, smtp
<1>4. ASSUME NEW m \in Mails, Retry(m) PROVE TypeOK'
  <2>1. status' \in [Mails -> Status]
    BY <1>4, UpdatesKeepStatus DEF Retry, Status
  <2> QED BY <1>4, <2>1 DEF Retry, TypeOK, smtp
<1>5. CASE Block
  BY <1>5 DEF Block, TypeOK, smtp
<1>6. CASE WithdrawPending
  <2>1. status' \in [Mails -> Status]
    BY <1>6, UpdatesKeepStatus DEF WithdrawPending, Status
  <2> QED BY <1>6, <2>1 DEF WithdrawPending, TypeOK, smtp
<1>7. CASE Unblock
  BY <1>7 DEF Unblock, TypeOK, smtp
<1> QED BY <1>1, <1>2, <1>3, <1>4, <1>5, <1>6, <1>7 DEF WebStep

LEMMA DispatchTypes ==
    ASSUME TypeOK, NEW d \in Dispatchers, DispatchStep(d)
    PROVE  TypeOK'
<1>0. dispatcher \in [Dispatchers -> DispatcherRecord] /\ dispatcher[d] \in DispatcherRecord
  BY DEF TypeOK, DispatcherRecord
<1>1. CASE CountRoom(d)
  <2>1. Cardinality(Sending) \in Nat
    BY MailSetsAreFinite DEF Sending
  <2>2. Room \in 1..ClaimLimit
    BY <1>1, <2>1, ConstantsAssumption DEF CountRoom, HasRoom, Room
  <2>3. [step |-> "claim", room |-> Room, ids |-> {}] \in DispatcherRecord
    BY <2>2 DEF DispatcherRecord
  <2>4. dispatcher' \in [Dispatchers -> DispatcherRecord]
    BY <1>0, <1>1, <2>3 DEF CountRoom
  <2> QED BY <1>1, <2>4 DEF CountRoom, TypeOK, DispatcherRecord, smtp, desk
<1>2. CASE Claim(d)
  <2>1. PICK ids \in kSubset(Min({dispatcher[d].room, Cardinality(Pending)}), Pending) :
          /\ \A m \in ids : claims[m] < MaxClaims
          /\ SetStatus(ids, "sending")
          /\ claims' = [m \in Mails |-> claims[m] + (IF m \in ids THEN 1 ELSE 0)]
          /\ old' = old \ ids
          /\ dispatcher' = [dispatcher EXCEPT
                              ![d] = IF ids = {} THEN IdleDispatcher
                                     ELSE [step |-> "publish", room |-> 0, ids |-> ids]]
    BY <1>2 DEF Claim
  <2>2. ids \subseteq Mails
    BY DEF kSubset, Pending
  <2>3. status' \in [Mails -> Status]
    BY <2>1, UpdatesKeepStatus DEF Status
  <2>4. claims' \in [Mails -> 0..MaxClaims]
    BY <2>1, <2>2, ConstantsAssumption DEF TypeOK
  <2>5. (IF ids = {} THEN IdleDispatcher ELSE [step |-> "publish", room |-> 0, ids |-> ids])
          \in DispatcherRecord
    BY <2>2 DEF DispatcherRecord
  <2>6. dispatcher' \in [Dispatchers -> DispatcherRecord]
    BY <1>0, <2>1, <2>5
  <2> QED BY <1>2, <2>1, <2>3, <2>4, <2>6 DEF Claim, TypeOK, DispatcherRecord, smtp, desk
<1>3. CASE Publish(d)
  <2>1. PICK b \in Batches,
             chunk \in kSubset(Min({BatchSize, Cardinality(dispatcher[d].ids)}), dispatcher[d].ids) :
          /\ batch' = [batch EXCEPT ![b] = Message(chunk, 0)]
          /\ dispatcher' = [dispatcher EXCEPT
                              ![d] = IF dispatcher[d].ids = chunk THEN IdleDispatcher
                                     ELSE [dispatcher[d] EXCEPT !.ids = dispatcher[d].ids \ chunk]]
    BY <1>3 DEF Publish
  <2>2. /\ dispatcher[d].step = "publish" /\ dispatcher[d].room = 0
        /\ dispatcher[d] \in [step : {"publish"}, room : {0}, ids : (SUBSET Mails) \ {{}}]
    BY <1>0, <1>3 DEF Publish, DispatcherRecord, IdleDispatcher
  <2>3. chunk \subseteq dispatcher[d].ids /\ chunk \subseteq Mails
    BY <2>2 DEF kSubset
  <2>4. Message(chunk, 0) \in SlotRecord
    BY <2>3, MessageIsASlot, ConstantsAssumption
  <2>5. batch' \in [Batches -> SlotRecord]
    BY <2>1, <2>4 DEF TypeOK, SlotRecord
  <2>6. ASSUME dispatcher[d].ids # chunk
        PROVE  [dispatcher[d] EXCEPT !.ids = dispatcher[d].ids \ chunk] \in DispatcherRecord
    BY <2>2, <2>3, <2>6 DEF DispatcherRecord
  <2>7. dispatcher' \in [Dispatchers -> DispatcherRecord]
    <3>1. IdleDispatcher \in DispatcherRecord
      BY DEF DispatcherRecord
    <3> QED BY <1>0, <2>1, <2>6, <3>1
  <2> QED BY <1>3, <2>5, <2>7 DEF Publish, TypeOK, DispatcherRecord, SlotRecord, smtp, desk
<1> QED BY <1>1, <1>2, <1>3 DEF DispatchStep

\* A message's run, and what ends it: the row it is at is one of the mails.
LEMMA SendTypes ==
    ASSUME TypeOK, NEW b \in Batches,
           SendStep(b) \/ WorkerDies(b) \/ BatchLost(b)
    PROVE  TypeOK'
<1> DEFINE slot == batch[b]
<1>0. batch \in [Batches -> SlotRecord] /\ slot \in SlotRecord
  BY DEF TypeOK, SlotRecord
<1>1. /\ FreeSlot \in SlotRecord
      /\ Message(slot.ids, slot.retries) \in SlotRecord
      /\ \A s \in SlotRecord : [batch EXCEPT ![b] = s] \in [Batches -> SlotRecord]
  <2>1. slot.ids \in SUBSET Mails /\ slot.retries \in 0..MaxRetries
    BY <1>0 DEF SlotRecord
  <2>2. \A s \in SlotRecord : [batch EXCEPT ![b] = s] \in [Batches -> SlotRecord]
    BY <1>0
  <2> QED BY <2>1, <2>2, FreeSlotIsASlot, MessageIsASlot
<1>2. CASE StartBatch(b)
  <2>1. RowsToSend(slot.ids) \subseteq Mails
    BY DEF RowsToSend, Sending
  <2>2. [slot EXCEPT !.state = "running", !.todo = RowsToSend(slot.ids)] \in SlotRecord
    BY <1>0, <2>1 DEF SlotRecord
  <2>3. batch' \in [Batches -> SlotRecord]
    BY <1>0, <1>1, <1>2, <2>2 DEF StartBatch
  <2> QED BY <1>2, <2>3 DEF StartBatch, TypeOK, SlotRecord, smtp, desk
<1>3. ASSUME NEW m \in Mails, NextRow(b, m) PROVE TypeOK'
  <2>1. batch' \in [Batches -> SlotRecord]
    <3>1. [slot EXCEPT !.todo = @ \ {m}] \in SlotRecord /\ [slot EXCEPT !.at = m] \in SlotRecord
      BY <1>0 DEF SlotRecord
    <3> QED BY <1>0, <1>1, <1>3, <3>1 DEF NextRow
  <2>2. status' \in [Mails -> Status]
    BY <1>3, UpdatesKeepStatus DEF NextRow, Status, TypeOK
  <2> QED BY <1>3, <2>1, <2>2 DEF NextRow, TypeOK, SlotRecord, smtp, desk
<1>4. CASE Accept(b)
  <2>1. batch' \in [Batches -> SlotRecord]
    <3>1. [slot EXCEPT !.accepted = TRUE] \in SlotRecord
      BY <1>0 DEF SlotRecord
    <3> QED BY <1>0, <1>1, <1>4, <3>1 DEF Accept
  <2>2. delivered' \in [Mails -> Nat]
    BY <1>4 DEF Accept, TypeOK
  <2> QED BY <1>4, <2>1, <2>2 DEF Accept, TypeOK, SlotRecord, desk
<1>5. ASSUME RowDone(b) PROVE batch' \in [Batches -> SlotRecord]
  <2>1. [slot EXCEPT !.todo = @ \ {slot.at}, !.at = NoMail, !.accepted = FALSE] \in SlotRecord
    BY <1>0 DEF SlotRecord
  <2>2. batch' = [batch EXCEPT ![b] = [slot EXCEPT !.todo = @ \ {slot.at}, !.at = NoMail,
                                                  !.accepted = FALSE]]
    BY <1>0, <1>5 DEF RowDone, SlotRecord
  <2> QED BY <1>1, <2>1, <2>2
<1>6. CASE RecordSent(b)
  <2>1. status' \in [Mails -> Status]
    BY <1>6, UpdatesKeepStatus DEF RecordSent, Status
  <2> QED BY <1>5, <1>6, <2>1 DEF RecordSent, TypeOK, SlotRecord, smtp, desk
<1>7. CASE Refuse(b)
  <2>1. status' \in [Mails -> Status]
    BY <1>7, UpdatesKeepStatus DEF Refuse, Status
  <2> QED BY <1>5, <1>7, <2>1 DEF Refuse, TypeOK, SlotRecord, smtp, desk
<1>8. ASSUME LeaveUnrecorded(b) PROVE unrecorded' \in [Mails -> Nat]
  <2>1. unrecorded \in [Mails -> Nat]
    BY DEF TypeOK
  <2>2. CASE slot.at \in Mails
    BY <1>8, <2>1, <2>2 DEF LeaveUnrecorded
  <2>3. CASE slot.at \notin Mails
    BY <1>8, <2>1, <2>3 DEF LeaveUnrecorded
  <2> QED BY <2>2, <2>3
<1>9. CASE TransientError(b)
  <2>1. faults' \in 0..MaxFaults
    BY <1>9, ConstantsAssumption DEF TransientError, TypeOK
  <2>2. unrecorded' \in [Mails -> Nat]
    BY <1>8, <1>9 DEF TransientError
  <2>3. batch' \in [Batches -> SlotRecord]
    <3>1. slot.ids \in SUBSET Mails /\ slot.retries \in 0..MaxRetries
      BY <1>0 DEF SlotRecord
    <3>2. slot.retries < MaxRetries => slot.retries + 1 \in 0..MaxRetries
      BY <3>1, ConstantsAssumption
    <3>3. slot.retries < MaxRetries => Message(slot.ids, slot.retries + 1) \in SlotRecord
      BY <3>1, <3>2, MessageIsASlot
    <3> QED BY <1>0, <1>1, <1>9, <3>3 DEF TransientError
  <2>4. status' \in [Mails -> Status]
    BY <1>9, UpdatesKeepStatus DEF TransientError, TypeOK, Status
  <2> QED BY <1>9, <2>1, <2>2, <2>3, <2>4 DEF TransientError, TypeOK, SlotRecord, desk
<1>10. CASE FinishBatch(b)
  <2>1. batch' \in [Batches -> SlotRecord]
    BY <1>0, <1>1, <1>10 DEF FinishBatch
  <2> QED BY <1>10, <2>1 DEF FinishBatch, TypeOK, SlotRecord, smtp, desk
<1>11. CASE WorkerDies(b)
  <2>1. faults' \in 0..MaxFaults /\ unrecorded' \in [Mails -> Nat]
    BY <1>8, <1>11, ConstantsAssumption DEF WorkerDies, TypeOK
  <2>2. batch' \in [Batches -> SlotRecord]
    BY <1>0, <1>1, <1>11 DEF WorkerDies
  <2> QED BY <1>11, <2>1, <2>2 DEF WorkerDies, TypeOK, SlotRecord, desk
<1>12. CASE BatchLost(b)
  <2>1. faults' \in 0..MaxFaults /\ unrecorded' \in [Mails -> Nat]
    BY <1>8, <1>12, ConstantsAssumption DEF BatchLost, TypeOK
  <2>2. batch' \in [Batches -> SlotRecord]
    BY <1>0, <1>1, <1>12 DEF BatchLost
  <2> QED BY <1>12, <2>1, <2>2 DEF BatchLost, TypeOK, SlotRecord, desk
<1> QED BY <1>2, <1>3, <1>4, <1>6, <1>7, <1>9, <1>10, <1>11, <1>12 DEF SendStep

LEMMA NextTypes == TypeOK /\ [Next]_vars => TypeOK'
<1> SUFFICES ASSUME TypeOK, [Next]_vars PROVE TypeOK'
  OBVIOUS
<1>1. CASE WebStep
  BY <1>1, WebTypes
<1>2. ASSUME NEW d \in Dispatchers, DispatchStep(d) PROVE TypeOK'
  BY <1>2, DispatchTypes
<1>3. ASSUME NEW b \in Batches, SendStep(b) \/ WorkerDies(b) \/ BatchLost(b) PROVE TypeOK'
  BY <1>3, SendTypes
<1>4. ASSUME NEW d \in Dispatchers, DispatcherDies(d) PROVE TypeOK'
  <2>1. faults' \in 0..MaxFaults
    BY <1>4, ConstantsAssumption DEF DispatcherDies, TypeOK
  <2> QED BY <1>4, <2>1 DEF DispatcherDies, TypeOK, smtp, desk
<1>5. ASSUME NEW m \in Mails, ClaimGetsOld(m) PROVE TypeOK'
  BY <1>5 DEF ClaimGetsOld, TypeOK, smtp, desk
<1>6. CASE RequeueStuck
  <2>1. status' \in [Mails -> Status]
    BY <1>6, UpdatesKeepStatus DEF RequeueStuck, Status
  <2> QED BY <1>6, <2>1 DEF RequeueStuck, TypeOK, smtp, desk
<1>7. ASSUME NEW m \in Mails, Bounce(m) PROVE TypeOK'
  <2>1. status' \in [Mails -> Status]
    BY <1>7, UpdatesKeepStatus DEF Bounce, Status
  <2> QED BY <1>7, <2>1 DEF Bounce, TypeOK, smtp
<1>8. CASE UNCHANGED vars
  BY <1>8 DEF vars, TypeOK, smtp, desk
<1> QED BY <1>1, <1>2, <1>3, <1>4, <1>5, <1>6, <1>7, <1>8 DEF Next, FaultStep

\* Type correctness, for every set of mails, batches and dispatchers.
THEOREM QueueTypeCorrect == Spec => []TypeOK
BY InitTypes, NextTypes, PTL DEF Spec

-----------------------------------------------------------------------------
(* The claim limit, with the one dispatcher *)

LimitInv == TypeOK /\ ClaimLimitKept /\ RoomIsThere

OneDispatcher == \A d, e \in Dispatchers : d = e

LEMMA InitLimit == Init => LimitInv
<1> SUFFICES ASSUME Init PROVE LimitInv
  OBVIOUS
<1>1. Sending = {}
  BY DEF Init, Sending
<1>2. Cardinality(Sending) = 0
  BY <1>1, FS_EmptySet
<1> QED BY <1>2, InitTypes, ConstantsAssumption
       DEF Init, LimitInv, ClaimLimitKept, RoomIsThere, IdleDispatcher

\* A step that claims nothing and counts nothing leaves at most what was in
\* flight, so there still is the room that was.
LEMMA FewerInFlight ==
    ASSUME LimitInv, TypeOK', Sending' \subseteq Sending,
           \A d \in Dispatchers : dispatcher'[d].step = "claim" => dispatcher'[d] = dispatcher[d]
    PROVE  LimitInv'
<1>1. IsFiniteSet(Sending) /\ Cardinality(Sending) \in Nat
  BY MailSetsAreFinite DEF Sending
<1>2. Cardinality(Sending') \in Nat /\ Cardinality(Sending') <= Cardinality(Sending)
  BY <1>1, FS_Subset, FS_CardinalityType
<1>3. ClaimLimitKept'
  BY <1>1, <1>2, ConstantsAssumption DEF LimitInv, ClaimLimitKept
<1>4. ASSUME NEW d \in Dispatchers, dispatcher'[d].step = "claim"
      PROVE  Cardinality(Sending') + dispatcher'[d].room <= ClaimLimit
  <2>1. dispatcher'[d] = dispatcher[d] /\ dispatcher[d].step = "claim"
    BY <1>4
  <2>2. dispatcher[d].room \in Nat
    BY <2>1 DEF LimitInv, TypeOK, IdleDispatcher
  <2>3. Cardinality(Sending) + dispatcher[d].room <= ClaimLimit
    BY <2>1 DEF LimitInv, RoomIsThere
  <2> QED BY <1>1, <1>2, <2>1, <2>2, <2>3, ConstantsAssumption
<1> QED BY <1>3, <1>4 DEF LimitInv, RoomIsThere

\* What a set of rows set to another status does to what is in flight.
LEMMA LeavingFlight ==
    ASSUME TypeOK, NEW rows, NEW new, new # "sending", SetStatus(rows, new)
    PROVE  Sending' \subseteq Sending
BY DEF SetStatus, Sending

\* The dispatcher that counts is the only one, so it keeps what it counted
\* until it claims.
LEMMA DispatchLimit ==
    ASSUME OneDispatcher, LimitInv, TypeOK', NEW d \in Dispatchers, DispatchStep(d)
    PROVE  LimitInv'
<1>0. /\ IsFiniteSet(Sending) /\ Cardinality(Sending) \in Nat
      /\ IsFiniteSet(Pending) /\ Cardinality(Pending) \in Nat
  BY MailSetsAreFinite DEF Sending, Pending
<1>1. CASE CountRoom(d)
  <2>1. Sending' = Sending
    BY <1>1 DEF CountRoom, Sending
  <2>2. \A e \in Dispatchers : dispatcher'[e].room = ClaimLimit - Cardinality(Sending)
    BY <1>1 DEF OneDispatcher, CountRoom, Room, LimitInv, TypeOK
  <2>3. RoomIsThere'
    BY <1>0, <2>1, <2>2, ConstantsAssumption DEF RoomIsThere
  <2>4. ClaimLimitKept'
    BY <2>1 DEF LimitInv, ClaimLimitKept
  <2> QED BY <2>3, <2>4 DEF LimitInv
<1>2. CASE Claim(d)
  <2>1. PICK ids \in kSubset(Min({dispatcher[d].room, Cardinality(Pending)}), Pending) :
          /\ SetStatus(ids, "sending")
          /\ dispatcher' = [dispatcher EXCEPT
                              ![d] = IF ids = {} THEN IdleDispatcher
                                     ELSE [step |-> "publish", room |-> 0, ids |-> ids]]
    BY <1>2 DEF Claim
  <2>2. dispatcher[d].step = "claim" /\ dispatcher[d].room \in Nat
    BY <1>2 DEF Claim, LimitInv, TypeOK, IdleDispatcher
  <2>3. ids \subseteq Pending /\ Cardinality(ids) <= dispatcher[d].room
    BY <2>2, ClaimTakesItsRoom DEF LimitInv
  <2>4. IsFiniteSet(ids) /\ Cardinality(ids) \in Nat
    BY <2>3, MailSetsAreFinite DEF Pending
  <2>5. Sending' = Sending \cup ids /\ Sending \cap ids = {}
    BY <2>1, <2>3 DEF SetStatus, Sending, Pending
  <2>6. Cardinality(Sending') = Cardinality(Sending) + Cardinality(ids)
    <3>1. Cardinality(Sending \cup ids)
            = Cardinality(Sending) + Cardinality(ids) - Cardinality(Sending \cap ids)
      BY <1>0, <2>4, FS_Union
    <3>2. Cardinality(Sending \cap ids) = 0
      BY <2>5, FS_EmptySet
    <3>3. Cardinality(Sending') = Cardinality(Sending \cup ids)
      BY <2>5
    <3> QED BY <1>0, <2>4, <3>1, <3>2, <3>3
  <2>7. ClaimLimitKept'
    BY <1>0, <2>2, <2>3, <2>4, <2>6, ConstantsAssumption DEF LimitInv, RoomIsThere, ClaimLimitKept
  <2>8. \A e \in Dispatchers : dispatcher'[e].step # "claim"
    BY <2>1 DEF OneDispatcher, LimitInv, TypeOK, IdleDispatcher
  <2> QED BY <2>7, <2>8 DEF LimitInv, RoomIsThere
<1>3. CASE Publish(d)
  <2>1. Sending' = Sending
    BY <1>3 DEF Publish, Sending
  <2>2. dispatcher[d].step = "publish"
    BY <1>3 DEF Publish
  <2>3. \A e \in Dispatchers : dispatcher'[e].step # "claim"
    BY <1>3, <2>2 DEF Publish, OneDispatcher, LimitInv, TypeOK, IdleDispatcher
  <2> QED BY <2>1, <2>3, FewerInFlight
<1> QED BY <1>1, <1>2, <1>3 DEF DispatchStep

\* Only the dispatcher puts rows in flight.
LEMMA OtherStepsLimit ==
    ASSUME LimitInv, TypeOK',
           \/ WebStep \/ (\E b \in Batches : SendStep(b)) \/ FaultStep
           \/ (\E m \in Mails : ClaimGetsOld(m) \/ Bounce(m)) \/ RequeueStuck
           \/ UNCHANGED vars
    PROVE  LimitInv'
<1> USE DEF smtp, desk
<1>0. TypeOK
  BY DEF LimitInv
<1>1. CASE WebStep
  <2>1. Sending' \subseteq Sending
    BY <1>0, <1>1, LeavingFlight
       DEF WebStep, CheckAddress, InsertRow, CheckRetry, Retry, Block, WithdrawPending, Unblock, Sending
  <2>2. UNCHANGED dispatcher
    BY <1>1 DEF WebStep, CheckAddress, InsertRow, CheckRetry, Retry, Block, WithdrawPending, Unblock
  <2> QED BY <2>1, <2>2, FewerInFlight
<1>2. ASSUME NEW b \in Batches, SendStep(b) PROVE LimitInv'
  <2>1. Sending' \subseteq Sending
    BY <1>0, <1>2, LeavingFlight
       DEF SendStep, StartBatch, NextRow, Accept, RecordSent, Refuse, TransientError, FinishBatch, Sending
  <2>2. UNCHANGED dispatcher
    BY <1>2 DEF SendStep, StartBatch, NextRow, Accept, RecordSent, Refuse, TransientError, FinishBatch
  <2> QED BY <2>1, <2>2, FewerInFlight
<1>3. ASSUME NEW b \in Batches, WorkerDies(b) \/ BatchLost(b) PROVE LimitInv'
  BY <1>3, FewerInFlight DEF WorkerDies, BatchLost, Sending
<1>4. ASSUME NEW d \in Dispatchers, DispatcherDies(d) PROVE LimitInv'
  <2>1. Sending' \subseteq Sending
    BY <1>4 DEF DispatcherDies, Sending
  <2>2. \A e \in Dispatchers : dispatcher'[e].step = "claim" => dispatcher'[e] = dispatcher[e]
    BY <1>0, <1>4 DEF DispatcherDies, TypeOK, IdleDispatcher
  <2> QED BY <2>1, <2>2, FewerInFlight
<1>5. ASSUME NEW m \in Mails, ClaimGetsOld(m) \/ Bounce(m) PROVE LimitInv'
  <2>1. Sending' \subseteq Sending
    BY <1>0, <1>5, LeavingFlight DEF ClaimGetsOld, Bounce, Sending
  <2> QED BY <1>5, <2>1, FewerInFlight DEF ClaimGetsOld, Bounce
<1>6. CASE RequeueStuck
  <2>1. Sending' \subseteq Sending
    BY <1>0, <1>6, LeavingFlight DEF RequeueStuck
  <2> QED BY <1>6, <2>1, FewerInFlight DEF RequeueStuck
<1>7. CASE UNCHANGED vars
  BY <1>7, FewerInFlight DEF vars, Sending
<1> QED BY <1>1, <1>2, <1>3, <1>4, <1>5, <1>6, <1>7 DEF FaultStep

LEMMA NextLimit ==
    ASSUME OneDispatcher
    PROVE  LimitInv /\ [Next]_vars => LimitInv'
<1> SUFFICES ASSUME LimitInv, [Next]_vars PROVE LimitInv'
  OBVIOUS
<1>1. TypeOK'
  BY NextTypes DEF LimitInv
<1>2. ASSUME NEW d \in Dispatchers, DispatchStep(d) PROVE LimitInv'
  BY <1>1, <1>2, DispatchLimit
<1> QED BY <1>1, <1>2, OtherStepsLimit DEF Next

\* With one dispatcher, as the site runs it, there are never more rows in
\* flight than MAILING_CLAIM_LIMIT, whatever is requeued, retried, bounced or
\* lost between its count and its claim.
THEOREM TheClaimLimitIsKept ==
    ASSUME OneDispatcher
    PROVE  Spec => []ClaimLimitKept
<1>1. LimitInv => ClaimLimitKept
  BY DEF LimitInv
<1>2. LimitInv /\ [Next]_vars => LimitInv'
  BY NextLimit
<1> QED BY <1>1, <1>2, InitLimit, PTL DEF Spec

-----------------------------------------------------------------------------
(* What the rows say, with the one process of the mailing worker *)

TruthInv ==
    /\ TypeOK
    /\ BatchesInOrder /\ OneBatchRuns
    /\ RecordIsTruthful /\ NothingSentIsSentAgain

\* What SentStaysSent says of a step.
SentIsKept == \A m \in Mails : status[m] = "sent" => status'[m] \in {"sent", "bounced"}

\* A slot in order, by itself: see BatchesInOrder.
SlotInOrder(s) ==
    /\ s.state # "running" => s.todo = {} /\ s.at = NoMail
    /\ s.at # NoMail => s.at \in s.todo
    /\ s.accepted => s.at # NoMail

LEMMA SlotsAreInOrder ==
    ASSUME BatchesInOrder, NEW b \in Batches
    PROVE  SlotInOrder(batch[b])
BY DEF BatchesInOrder, SlotInOrder

LEMMA OneSlotChanges ==
    ASSUME TypeOK, BatchesInOrder, NEW b \in Batches, NEW s, SlotInOrder(s),
           batch' = [batch EXCEPT ![b] = s]
    PROVE  BatchesInOrder'
BY DEF TypeOK, BatchesInOrder, SlotInOrder

\* A batch that runs may go on or end, and nothing else starts to run.
LEMMA NoRunStarts ==
    ASSUME TypeOK, OneBatchRuns, NEW b \in Batches, NEW s,
           s.state # "running" \/ b \in Running,
           batch' = [batch EXCEPT ![b] = s]
    PROVE  OneBatchRuns'
<1>1. Running' \subseteq Running
  BY DEF TypeOK, Running
<1> QED BY <1>1 DEF OneBatchRuns

\* With one process, a message starts only when no batch runs.
LEMMA StartsAlone ==
    ASSUME SenderCount = 1, TypeOK, OneBatchRuns, NEW b \in Batches, StartBatch(b)
    PROVE  Running = {}
<1> SUFFICES ASSUME NEW c \in Running PROVE FALSE
  OBVIOUS
<1>1. Running = {c}
  BY DEF OneBatchRuns
<1>2. Cardinality(Running) = 1
  BY <1>1, FS_Singleton
<1> QED BY <1>2 DEF StartBatch

LEMMA SendsAreCounted ==
    ASSUME TypeOK, NEW m \in Mails
    PROVE  RecordedSends(m) \in Int
BY DEF TypeOK, RecordedSends

\* A step that records no send, and takes no row out of `sent` or into it
\* but a bounce's, leaves the rows truthful.
LEMMA StaysTruthful ==
    ASSUME RecordIsTruthful,
           \A m \in Mails : RecordedSends(m)' = RecordedSends(m),
           \A m \in Mails :
               \/ status'[m] = status[m]
               \/ status'[m] = "bounced"
               \/ RecordedSends(m) = 0 /\ status'[m] # "sent"
    PROVE  RecordIsTruthful'
BY DEF RecordIsTruthful

\* The running batch only gets shorter, and no row of it is recorded as sent.
LEMMA StaysUnsent ==
    ASSUME NothingSentIsSentAgain,
           \A m \in Mails : RecordedSends(m)' = RecordedSends(m),
           \A m \in Mails : status'[m] = "sent" => status[m] = "sent",
           \A b \in Running' : b \in Running /\ batch'[b].todo \subseteq (batch[b].todo \cap Mails)
    PROVE  NothingSentIsSentAgain'
BY DEF NothingSentIsSentAgain

\* Nobody but the sender touches a batch that runs or counts a send; what
\* the others do to the rows' status is harmless.
LEMMA OthersStayTruthful ==
    ASSUME TruthInv, TypeOK', BatchesInOrder', UNCHANGED smtp,
           Running' = Running, \A b \in Running : batch'[b] = batch[b],
           \A m \in Mails :
               \/ status'[m] = status[m]
               \/ status'[m] = "bounced"
               \/ status[m] \notin {"sent", "bounced"} /\ status'[m] # "sent"
    PROVE  TruthInv' /\ SentIsKept
<1>1. \A m \in Mails : RecordedSends(m)' = RecordedSends(m)
  BY DEF RecordedSends, BeingRecorded, smtp
<1>2. \A m \in Mails : status[m] \notin {"sent", "bounced"} => RecordedSends(m) = 0
  BY DEF TruthInv, RecordIsTruthful
<1>3. RecordIsTruthful'
  BY <1>1, <1>2, StaysTruthful DEF TruthInv
<1>4. \A b \in Running' : b \in Running /\ batch'[b].todo \subseteq (batch[b].todo \cap Mails)
  BY DEF TruthInv, TypeOK, Running
<1>5. NothingSentIsSentAgain'
  BY <1>1, <1>4, StaysUnsent DEF TruthInv
<1>6. OneBatchRuns'
  BY DEF TruthInv, OneBatchRuns
<1>7. SentIsKept
  BY DEF SentIsKept
<1> QED BY <1>3, <1>5, <1>6, <1>7 DEF TruthInv

LEMMA WebTruth ==
    ASSUME TruthInv, TypeOK', WebStep
    PROVE  TruthInv' /\ SentIsKept
<1>1. UNCHANGED <<smtp, batch>>
  BY DEF WebStep, CheckAddress, InsertRow, CheckRetry, Retry, Block, WithdrawPending, Unblock, smtp, desk
<1>2. \A m \in Mails :
          \/ status'[m] = status[m]
          \/ status[m] \notin {"sent", "bounced"} /\ status'[m] # "sent"
  BY DEF WebStep, CheckAddress, InsertRow, CheckRetry, Retry, Block, WithdrawPending, Unblock,
         SetStatus, Pending, TruthInv, TypeOK
<1>3. BatchesInOrder' /\ Running' = Running
  BY <1>1 DEF TruthInv, BatchesInOrder, Running
<1> QED BY <1>1, <1>2, <1>3, OthersStayTruthful

LEMMA DispatchTruth ==
    ASSUME TruthInv, TypeOK', NEW d \in Dispatchers, DispatchStep(d)
    PROVE  TruthInv' /\ SentIsKept
<1>1. CASE CountRoom(d) \/ Claim(d)
  <2>1. UNCHANGED <<smtp, batch>>
    BY <1>1 DEF CountRoom, Claim
  <2>2. \A m \in Mails :
            \/ status'[m] = status[m]
            \/ status[m] \notin {"sent", "bounced"} /\ status'[m] # "sent"
    <3>1. CASE CountRoom(d)
      BY <3>1 DEF CountRoom
    <3>2. CASE Claim(d)
      <4>1. PICK ids \in SUBSET Pending : SetStatus(ids, "sending")
        BY <3>2 DEF Claim, kSubset
      <4> QED BY <4>1 DEF SetStatus, Pending
    <3> QED BY <1>1, <3>1, <3>2
  <2>3. BatchesInOrder' /\ Running' = Running
    BY <2>1 DEF TruthInv, BatchesInOrder, Running
  <2> QED BY <2>1, <2>2, <2>3, OthersStayTruthful
<1>2. CASE Publish(d)
  <2>1. PICK b \in Batches, chunk \in SUBSET dispatcher[d].ids :
          batch[b].state = "free" /\ batch' = [batch EXCEPT ![b] = Message(chunk, 0)]
    BY <1>2 DEF Publish, kSubset
  <2>2. SlotInOrder(Message(chunk, 0)) /\ Message(chunk, 0).state # "running"
    BY DEF SlotInOrder, Message
  <2>3. BatchesInOrder'
    BY <2>1, <2>2, OneSlotChanges DEF TruthInv
  <2>4. Running' = Running /\ \A c \in Running : batch'[c] = batch[c]
    BY <2>1, <2>2 DEF Running, TruthInv, TypeOK
  <2>5. UNCHANGED <<status, smtp>>
    BY <1>2 DEF Publish
  <2> QED BY <2>3, <2>4, <2>5, OthersStayTruthful
<1> QED BY <1>1, <1>2 DEF DispatchStep

LEMMA TimeTruth ==
    ASSUME TruthInv, TypeOK',
           \/ \E d \in Dispatchers : DispatcherDies(d)
           \/ \E m \in Mails : ClaimGetsOld(m) \/ Bounce(m)
           \/ RequeueStuck
           \/ UNCHANGED vars
    PROVE  TruthInv' /\ SentIsKept
<1>1. UNCHANGED <<smtp, batch>>
  BY DEF DispatcherDies, ClaimGetsOld, Bounce, RequeueStuck, vars, smtp
<1>2. \A m \in Mails :
          \/ status'[m] = status[m]
          \/ status'[m] = "bounced"
          \/ status[m] \notin {"sent", "bounced"} /\ status'[m] # "sent"
  BY DEF DispatcherDies, ClaimGetsOld, Bounce, RequeueStuck, vars, SetStatus, OldClaims, Sending,
         TruthInv, TypeOK
<1>3. BatchesInOrder' /\ Running' = Running
  BY <1>1 DEF TruthInv, BatchesInOrder, Running
<1> QED BY <1>1, <1>2, <1>3, OthersStayTruthful

\* The rows of the batch that runs, and the answer it may have.
LEMMA TheRunningBatch ==
    ASSUME TruthInv, NEW b \in Running
    PROVE  /\ b \in Batches /\ batch[b].todo \subseteq Mails /\ SlotInOrder(batch[b])
           /\ \A m \in batch[b].todo : status[m] # "sent" /\ RecordedSends(m) = 0
           /\ \A m : BeingRecorded(m) <=> batch[b].at = m /\ batch[b].accepted
BY DEF TruthInv, TypeOK, BatchesInOrder, SlotInOrder, OneBatchRuns, NothingSentIsSentAgain, Running,
       BeingRecorded

\* ... and after its step, whether it goes on or not.
LEMMA AfterItsStep ==
    ASSUME TruthInv, NEW b \in Running, NEW s, batch' = [batch EXCEPT ![b] = s]
    PROVE  /\ \A c \in Running' : c = b /\ s.state = "running" /\ batch'[c] = s
           /\ \A m : BeingRecorded(m)' <=> s.state = "running" /\ s.at = m /\ s.accepted
BY DEF TruthInv, TypeOK, OneBatchRuns, Running, BeingRecorded

\* The step of a running batch that records no send.
LEMMA ItsStepIsTruthful ==
    ASSUME TruthInv, TypeOK', NEW b \in Running, NEW s,
           batch' = [batch EXCEPT ![b] = s],
           SlotInOrder(s), s.state = "running" => s.todo \subseteq batch[b].todo,
           \A m \in Mails : RecordedSends(m)' = RecordedSends(m),
           \A m \in Mails :
               \/ status'[m] = status[m]
               \/ status[m] # "sent" /\ RecordedSends(m) = 0 /\ status'[m] # "sent"
    PROVE  TruthInv' /\ SentIsKept
<1>1. BatchesInOrder' /\ OneBatchRuns'
  BY TheRunningBatch, OneSlotChanges, NoRunStarts DEF TruthInv
<1>2. RecordIsTruthful'
  BY StaysTruthful DEF TruthInv
<1>3. \A c \in Running' : c \in Running /\ batch'[c].todo \subseteq (batch[c].todo \cap Mails)
  <2>1. \A c \in Running' : c = b /\ s.state = "running" /\ batch'[c] = s
    BY AfterItsStep
  <2>2. batch[b].todo \subseteq Mails
    BY TheRunningBatch
  <2> QED BY <2>1, <2>2
<1>4. NothingSentIsSentAgain'
  BY <1>3, StaysUnsent DEF TruthInv
<1>5. SentIsKept
  BY DEF SentIsKept
<1> QED BY <1>1, <1>2, <1>4, <1>5 DEF TruthInv

LEMMA RowTruth ==
    ASSUME TruthInv, TypeOK', NEW b \in Batches, NEW m \in Mails, NextRow(b, m)
    PROVE  TruthInv' /\ SentIsKept
<1> DEFINE slot == batch[b]
<1>0. b \in Running /\ slot.at = NoMail /\ m \in slot.todo /\ ~slot.accepted
  BY SlotsAreInOrder DEF NextRow, TruthInv, SlotInOrder
<1>1. status[m] # "sent" /\ RecordedSends(m) = 0
  BY <1>0, TheRunningBatch
<1>2. \E s : /\ batch' = [batch EXCEPT ![b] = s]
             /\ s.state = "running" /\ s.todo \subseteq slot.todo /\ ~s.accepted /\ SlotInOrder(s)
  <2>1. CASE m \in AccountMails /\ blocked
    <3> DEFINE s == [slot EXCEPT !.todo = @ \ {m}]
    <3>1. batch' = [batch EXCEPT ![b] = s]
      BY <2>1 DEF NextRow
    <3>2. s.state = "running" /\ s.todo = slot.todo \ {m} /\ ~s.accepted /\ s.at = NoMail
      BY <1>0 DEF TruthInv, TypeOK, Running
    <3> QED BY <3>1, <3>2 DEF SlotInOrder
  <2>2. CASE ~(m \in AccountMails /\ blocked)
    <3> DEFINE s == [slot EXCEPT !.at = m]
    <3>1. batch' = [batch EXCEPT ![b] = s]
      BY <2>2 DEF NextRow
    <3>2. s.state = "running" /\ s.todo = slot.todo /\ ~s.accepted /\ s.at = m
      BY <1>0 DEF TruthInv, TypeOK, Running
    <3> QED BY <1>0, <3>1, <3>2 DEF SlotInOrder
  <2> QED BY <2>1, <2>2
<1>3. \A n \in Mails : RecordedSends(n)' = RecordedSends(n)
  BY <1>0, <1>2, TheRunningBatch, AfterItsStep DEF NextRow, smtp, RecordedSends
<1>4. \A n \in Mails : status'[n] = status[n] \/ (n = m /\ status'[n] = "suppressed")
  BY DEF NextRow, SetStatus
<1> QED BY <1>0, <1>1, <1>2, <1>3, <1>4, ItsStepIsTruthful

\* The server's answer adds a send, and one that is being recorded.
LEMMA AcceptTruth ==
    ASSUME TruthInv, TypeOK', NEW b \in Batches, Accept(b)
    PROVE  TruthInv' /\ SentIsKept
<1> DEFINE slot == batch[b]
<1>0. b \in Running /\ slot.at # NoMail /\ ~slot.accepted /\ SlotInOrder(slot)
  BY SlotsAreInOrder DEF Accept, TruthInv
<1>1. PICK s : /\ batch' = [batch EXCEPT ![b] = s]
               /\ s.state = "running" /\ s.todo = slot.todo /\ s.at = slot.at /\ s.accepted
  <2>1. batch' = [batch EXCEPT ![b] = [slot EXCEPT !.accepted = TRUE]]
    BY DEF Accept
  <2>2. LET s == [slot EXCEPT !.accepted = TRUE]
        IN  s.state = "running" /\ s.todo = slot.todo /\ s.at = slot.at /\ s.accepted
    BY <1>0 DEF TruthInv, TypeOK, Running
  <2> QED BY <2>1, <2>2
<1>2. SlotInOrder(s)
  BY <1>0, <1>1 DEF SlotInOrder
<1>3. ASSUME NEW n \in Mails PROVE RecordedSends(n)' = RecordedSends(n)
  <2>1. BeingRecorded(n)' <=> slot.at = n
    <3>1. \A m : BeingRecorded(m)' <=> s.state = "running" /\ s.at = m /\ s.accepted
      BY <1>0, <1>1, AfterItsStep
    <3> QED BY <1>1, <3>1
  <2>2. ~BeingRecorded(n)
    BY <1>0, TheRunningBatch
  <2>3. delivered'[n] = IF n = slot.at THEN delivered[n] + 1 ELSE delivered[n]
    BY DEF Accept, TruthInv, TypeOK
  <2>4. delivered[n] \in Nat /\ unrecorded[n] \in Nat /\ unrecorded' = unrecorded
    BY DEF Accept, TruthInv, TypeOK
  <2> QED BY <2>1, <2>2, <2>3, <2>4 DEF RecordedSends
<1>4. UNCHANGED status
  BY DEF Accept
<1> QED BY <1>0, <1>1, <1>2, <1>3, <1>4, ItsStepIsTruthful

\* A row that the batch is done with: refused, or recorded as sent.
LEMMA RowIsDone ==
    ASSUME TruthInv, NEW b \in Running, RowDone(b)
    PROVE  \E s : /\ batch' = [batch EXCEPT ![b] = s] /\ SlotInOrder(s)
                  /\ s.state = "running" /\ s.todo = batch[b].todo \ {batch[b].at}
                  /\ s.at = NoMail /\ ~s.accepted
<1> DEFINE s == [batch[b] EXCEPT !.todo = @ \ {batch[b].at}, !.at = NoMail, !.accepted = FALSE]
<1>1. batch' = [batch EXCEPT ![b] = s]
  BY DEF RowDone, TruthInv, TypeOK, Running
<1>2. s.state = "running" /\ s.todo = batch[b].todo \ {batch[b].at} /\ s.at = NoMail /\ ~s.accepted
  BY DEF TruthInv, TypeOK, Running
<1>3. SlotInOrder(s)
  BY <1>2 DEF SlotInOrder
<1> QED BY <1>1, <1>2, <1>3

LEMMA RefuseTruth ==
    ASSUME TruthInv, TypeOK', NEW b \in Batches, Refuse(b)
    PROVE  TruthInv' /\ SentIsKept
<1> DEFINE slot == batch[b]
<1>0. b \in Running /\ slot.at # NoMail /\ ~slot.accepted /\ SlotInOrder(slot)
  BY SlotsAreInOrder DEF Refuse, TruthInv
<1>1. PICK s : /\ batch' = [batch EXCEPT ![b] = s] /\ SlotInOrder(s)
               /\ s.state = "running" /\ s.todo \subseteq slot.todo
               /\ s.at = NoMail /\ ~s.accepted
  BY <1>0, RowIsDone DEF Refuse
<1>2. ASSUME NEW n \in Mails PROVE RecordedSends(n)' = RecordedSends(n)
  <2>1. ~BeingRecorded(n)'
    <3>1. \A m : BeingRecorded(m)' <=> s.state = "running" /\ s.at = m /\ s.accepted
      BY <1>0, <1>1, AfterItsStep
    <3> QED BY <1>1, <3>1
  <2>2. ~BeingRecorded(n)
    BY <1>0, TheRunningBatch
  <2> QED BY <2>1, <2>2 DEF Refuse, smtp, RecordedSends
<1>3. status[slot.at] # "sent" /\ RecordedSends(slot.at) = 0
  BY <1>0, TheRunningBatch DEF SlotInOrder
<1>4. \A n \in Mails : status'[n] = status[n] \/ (n = slot.at /\ status'[n] = "failed")
  BY DEF Refuse, SetStatus
<1> QED BY <1>0, <1>1, <1>2, <1>3, <1>4, ItsStepIsTruthful

\* The one step that writes a send down.
LEMMA RecordTruth ==
    ASSUME TruthInv, TypeOK', NEW b \in Batches, RecordSent(b)
    PROVE  TruthInv' /\ SentIsKept
<1> DEFINE slot == batch[b]
<1>0. b \in Running /\ slot.accepted /\ SlotInOrder(slot)
  BY SlotsAreInOrder DEF RecordSent, TruthInv
<1>1. PICK s : /\ batch' = [batch EXCEPT ![b] = s] /\ SlotInOrder(s)
               /\ s.state = "running" /\ s.todo = slot.todo \ {slot.at}
               /\ s.at = NoMail /\ ~s.accepted
  BY <1>0, RowIsDone DEF RecordSent
<1>2. slot.at \in Mails /\ RecordedSends(slot.at) = 0
  BY <1>0, TheRunningBatch DEF SlotInOrder
<1>3. \A n \in Mails : status'[n] = IF n = slot.at THEN "sent" ELSE status[n]
  BY DEF RecordSent, SetStatus
<1>4. ASSUME NEW n \in Mails
      PROVE  RecordedSends(n)' = IF n = slot.at THEN 1 ELSE RecordedSends(n)
  <2>1. ~BeingRecorded(n)'
    <3>1. \A m : BeingRecorded(m)' <=> s.state = "running" /\ s.at = m /\ s.accepted
      BY <1>0, <1>1, AfterItsStep
    <3> QED BY <1>1, <3>1
  <2>2. BeingRecorded(n) <=> slot.at = n
    BY <1>0, TheRunningBatch
  <2>3. delivered[n] \in Nat /\ unrecorded[n] \in Nat /\ UNCHANGED <<delivered, unrecorded>>
    BY DEF RecordSent, smtp, TruthInv, TypeOK
  <2> QED BY <1>2, <2>1, <2>2, <2>3 DEF RecordedSends
<1>5. RecordIsTruthful'
  BY <1>3, <1>4 DEF RecordIsTruthful, TruthInv
<1>6. BatchesInOrder' /\ OneBatchRuns'
  <2>1. b \in Batches
    OBVIOUS
  <2>2. BatchesInOrder'
    BY <1>1, OneSlotChanges DEF TruthInv
  <2>3. OneBatchRuns'
    BY <1>0, <1>1, NoRunStarts DEF TruthInv
  <2> QED BY <2>2, <2>3
<1>7. NothingSentIsSentAgain'
  <2>1. \A c \in Running' : batch'[c].todo = slot.todo \ {slot.at}
    <3>1. \A c \in Running' : c = b /\ s.state = "running" /\ batch'[c] = s
      BY <1>0, <1>1, AfterItsStep
    <3> QED BY <1>1, <3>1
  <2>2. \A m \in slot.todo : m \in Mails /\ status[m] # "sent" /\ RecordedSends(m) = 0
    BY <1>0, TheRunningBatch
  <2> QED BY <1>3, <1>4, <2>1, <2>2 DEF NothingSentIsSentAgain
<1>8. SentIsKept
  BY <1>3 DEF SentIsKept
<1> QED BY <1>5, <1>6, <1>7, <1>8 DEF TruthInv

\* A run that stops, as its row may have been accepted: the send that nobody
\* writes down any more is counted as such.
LEMMA StopTruth ==
    ASSUME TruthInv, TypeOK', NEW b \in Batches,
           TransientError(b) \/ WorkerDies(b) \/ BatchLost(b)
    PROVE  TruthInv' /\ SentIsKept
<1> DEFINE slot == batch[b]
<1>0. SlotInOrder(slot)
  BY SlotsAreInOrder DEF TruthInv
<1>1. PICK s : /\ batch' = [batch EXCEPT ![b] = s] /\ SlotInOrder(s)
               /\ s.state # "running"
  <2>1. \E ids, retries : \/ batch' = [batch EXCEPT ![b] = FreeSlot]
                           \/ batch' = [batch EXCEPT ![b] = Message(ids, retries)]
    BY DEF TransientError, WorkerDies, BatchLost
  <2>2. SlotInOrder(FreeSlot) /\ FreeSlot.state # "running"
    BY DEF SlotInOrder, FreeSlot
  <2>3. \A ids, retries : SlotInOrder(Message(ids, retries)) /\ Message(ids, retries).state # "running"
    BY DEF SlotInOrder, Message
  <2> QED BY <2>1, <2>2, <2>3
<1>2. UNCHANGED delivered /\ LeaveUnrecorded(b)
  BY DEF TransientError, WorkerDies, BatchLost
<1>3. \A n \in Mails : \/ status'[n] = status[n]
                       \/ status[n] = "sending" /\ status'[n] = "failed"
  BY DEF TransientError, WorkerDies, BatchLost, SetStatus, StillSending, Sending
<1>4. CASE b \in Running
  <2>1. ASSUME NEW n \in Mails PROVE RecordedSends(n)' = RecordedSends(n)
    <3>1. ~BeingRecorded(n)'
      <4>1. \A m : BeingRecorded(m)' <=> s.state = "running" /\ s.at = m /\ s.accepted
        BY <1>1, <1>4, AfterItsStep
      <4> QED BY <1>1, <4>1
    <3>2. BeingRecorded(n) <=> slot.at = n /\ slot.accepted
      BY <1>4, TheRunningBatch
    <3>3. unrecorded'[n] = IF slot.at = n /\ slot.accepted THEN unrecorded[n] + 1 ELSE unrecorded[n]
      BY <1>2 DEF LeaveUnrecorded, TruthInv, TypeOK
    <3>4. delivered[n] \in Nat /\ unrecorded[n] \in Nat
      BY DEF TruthInv, TypeOK
    <3> QED BY <1>2, <3>1, <3>2, <3>3, <3>4 DEF RecordedSends
  <2>2. \A n \in Mails : status[n] = "sending" => RecordedSends(n) = 0
    BY DEF TruthInv, RecordIsTruthful
  <2> QED BY <1>1, <1>3, <1>4, <2>1, <2>2, ItsStepIsTruthful
<1>5. CASE b \notin Running
  <2>1. ~slot.accepted
    BY <1>0, <1>5 DEF SlotInOrder, Running
  <2>2. UNCHANGED smtp
    BY <1>2, <2>1 DEF LeaveUnrecorded, smtp
  <2>3. Running' = Running /\ \A c \in Running : batch'[c] = batch[c]
    BY <1>1, <1>5 DEF Running, TruthInv, TypeOK
  <2>4. BatchesInOrder'
    BY <1>1, OneSlotChanges DEF TruthInv
  <2> QED BY <1>3, <2>2, <2>3, <2>4, OthersStayTruthful
<1> QED BY <1>4, <1>5

LEMMA FinishTruth ==
    ASSUME TruthInv, TypeOK', NEW b \in Batches, FinishBatch(b)
    PROVE  TruthInv' /\ SentIsKept
<1> DEFINE slot == batch[b]
<1>0. b \in Running /\ ~slot.accepted
  BY SlotsAreInOrder DEF FinishBatch, TruthInv, SlotInOrder
<1>1. /\ batch' = [batch EXCEPT ![b] = FreeSlot] /\ UNCHANGED <<status, smtp>>
      /\ SlotInOrder(FreeSlot) /\ FreeSlot.state # "running"
  BY DEF FinishBatch, FreeSlot, SlotInOrder
<1>2. ASSUME NEW n \in Mails PROVE RecordedSends(n)' = RecordedSends(n)
  <2>1. ~BeingRecorded(n)'
    <3>1. \A m : BeingRecorded(m)' <=> FreeSlot.state = "running" /\ FreeSlot.at = m /\ FreeSlot.accepted
      BY <1>0, <1>1, AfterItsStep
    <3> QED BY <1>1, <3>1
  <2>2. ~BeingRecorded(n)
    BY <1>0, TheRunningBatch
  <2> QED BY <1>1, <2>1, <2>2 DEF smtp, RecordedSends
<1> QED BY <1>0, <1>1, <1>2, ItsStepIsTruthful

\* What the batch that starts has to send is `sending`, so not sent.
LEMMA StartTruth ==
    ASSUME SenderCount = 1, TruthInv, TypeOK', NEW b \in Batches, StartBatch(b)
    PROVE  TruthInv' /\ SentIsKept
<1> DEFINE slot == batch[b]
<1>0. Running = {} /\ slot.state = "queued" /\ SlotInOrder(slot)
  BY StartsAlone, SlotsAreInOrder DEF StartBatch, TruthInv
<1>1. PICK s : /\ batch' = [batch EXCEPT ![b] = s] /\ SlotInOrder(s) /\ ~s.accepted
               /\ s.state = "running" => s.todo \subseteq Sending
  <2>1. CASE RowsToSend(slot.ids) = {}
    <3>1. batch' = [batch EXCEPT ![b] = FreeSlot]
      BY <2>1 DEF StartBatch
    <3>2. SlotInOrder(FreeSlot) /\ ~FreeSlot.accepted /\ FreeSlot.state # "running"
      BY DEF FreeSlot, SlotInOrder
    <3> QED BY <3>1, <3>2
  <2>2. CASE RowsToSend(slot.ids) # {}
    <3> DEFINE s == [slot EXCEPT !.state = "running", !.todo = RowsToSend(slot.ids)]
    <3>1. batch' = [batch EXCEPT ![b] = s]
      BY <2>2 DEF StartBatch
    <3>2. s.todo = RowsToSend(slot.ids) /\ s.at = slot.at /\ s.accepted = slot.accepted
          /\ s.state = "running"
      BY DEF TruthInv, TypeOK
    <3>3. s.at = NoMail /\ ~s.accepted
      BY <1>0, <3>2 DEF SlotInOrder
    <3> QED BY <3>1, <3>2, <3>3 DEF SlotInOrder, RowsToSend
  <2> QED BY <2>1, <2>2
<1>2. UNCHANGED <<status, smtp>>
  BY DEF StartBatch
<1>3. BatchesInOrder'
  BY <1>1, OneSlotChanges DEF TruthInv
<1>4. \A c \in Running' : c = b /\ batch'[c] = s /\ s.state = "running"
  BY <1>0, <1>1 DEF Running, TruthInv, TypeOK
<1>5. ASSUME NEW n \in Mails PROVE RecordedSends(n)' = RecordedSends(n)
  <2>1. ~BeingRecorded(n) /\ ~BeingRecorded(n)'
    BY <1>0, <1>1, <1>4 DEF BeingRecorded
  <2> QED BY <1>2, <2>1 DEF smtp, RecordedSends
<1>6. RecordIsTruthful'
  BY <1>2, <1>5, StaysTruthful DEF TruthInv
<1>7. NothingSentIsSentAgain'
  <2>1. \A m \in Sending : m \in Mails /\ status[m] # "sent" /\ RecordedSends(m) = 0
    BY DEF Sending, TruthInv, RecordIsTruthful
  <2> QED BY <1>1, <1>2, <1>4, <1>5, <2>1 DEF NothingSentIsSentAgain
<1>8. OneBatchRuns' /\ SentIsKept
  BY <1>2, <1>4 DEF OneBatchRuns, SentIsKept
<1> QED BY <1>3, <1>6, <1>7, <1>8 DEF TruthInv

LEMMA InitTruth == Init => TruthInv
<1> SUFFICES ASSUME Init PROVE TruthInv
  OBVIOUS
<1>1. Running = {} /\ BatchesInOrder
  BY DEF Init, Running, BatchesInOrder, FreeSlot
<1>2. \A m \in Mails : RecordedSends(m) = 0
  BY <1>1 DEF Init, RecordedSends, BeingRecorded
<1>3. RecordIsTruthful
  BY <1>2 DEF Init, RecordIsTruthful
<1>4. OneBatchRuns /\ NothingSentIsSentAgain
  BY <1>1 DEF OneBatchRuns, NothingSentIsSentAgain
<1> QED BY <1>1, <1>3, <1>4, InitTypes DEF TruthInv

LEMMA NextTruth ==
    ASSUME SenderCount = 1, TruthInv, [Next]_vars
    PROVE  TruthInv' /\ SentIsKept
<1>0. TypeOK'
  BY NextTypes DEF TruthInv
<1>1. CASE WebStep
  BY <1>0, <1>1, WebTruth
<1>2. ASSUME NEW d \in Dispatchers, DispatchStep(d) PROVE TruthInv' /\ SentIsKept
  BY <1>0, <1>2, DispatchTruth
<1>3. ASSUME NEW b \in Batches, SendStep(b) \/ WorkerDies(b) \/ BatchLost(b)
      PROVE  TruthInv' /\ SentIsKept
  <2>1. CASE StartBatch(b)
    BY <1>0, <2>1, StartTruth
  <2>2. ASSUME NEW m \in Mails, NextRow(b, m) PROVE TruthInv' /\ SentIsKept
    BY <1>0, <2>2, RowTruth
  <2>3. CASE Accept(b)
    BY <1>0, <2>3, AcceptTruth
  <2>4. CASE RecordSent(b)
    BY <1>0, <2>4, RecordTruth
  <2>5. CASE Refuse(b)
    BY <1>0, <2>5, RefuseTruth
  <2>6. CASE TransientError(b) \/ WorkerDies(b) \/ BatchLost(b)
    BY <1>0, <2>6, StopTruth
  <2>7. CASE FinishBatch(b)
    BY <1>0, <2>7, FinishTruth
  <2> QED BY <1>3, <2>1, <2>2, <2>3, <2>4, <2>5, <2>6, <2>7 DEF SendStep
<1>4. ASSUME \/ \E d \in Dispatchers : DispatcherDies(d)
             \/ \E m \in Mails : ClaimGetsOld(m) \/ Bounce(m)
             \/ RequeueStuck
             \/ UNCHANGED vars
      PROVE  TruthInv' /\ SentIsKept
  BY <1>0, <1>4, TimeTruth
<1> QED BY <1>1, <1>2, <1>3, <1>4 DEF Next, FaultStep

\* However often a batch is retried, redelivered after a crash, lost or
\* requeued, a mail's row says `sent` after exactly one recorded send: with
\* the one process of the mailing worker, nobody is mailed twice but after
\* a send that nobody wrote down.
THEOREM TheRecordIsTruthful ==
    ASSUME SenderCount = 1
    PROVE  Spec => []RecordIsTruthful
<1>1. TruthInv => RecordIsTruthful
  BY DEF TruthInv
<1>2. TruthInv /\ [Next]_vars => TruthInv'
  BY NextTruth
<1> QED BY <1>1, <1>2, InitTruth, PTL DEF Spec

\* A mail recorded as sent is never queued, failed or withdrawn any more.
THEOREM WhatIsSentStaysSent ==
    ASSUME SenderCount = 1
    PROVE  Spec => SentStaysSent
<1>1. TruthInv /\ [Next]_vars => TruthInv'
  BY NextTruth
<1>2. TruthInv /\ [Next]_vars => SentIsKept
  BY NextTruth
<1>3. SentIsKept => [\A m \in Mails : status[m] = "sent" => status'[m] \in {"sent", "bounced"}]_vars
  BY DEF SentIsKept
<1> QED BY <1>1, <1>2, <1>3, InitTruth, PTL DEF Spec, SentStaysSent

\* All of it: what the queue of a site with one dispatcher and one mailing
\* process keeps.
THEOREM TheQueueIsKept ==
    ASSUME OneDispatcher, SenderCount = 1
    PROVE  Spec => []QueueInv
<1>1. LimitInv /\ TruthInv => QueueInv
  BY DEF LimitInv, TruthInv, QueueInv
<1>2. LimitInv /\ [Next]_vars => LimitInv'
  BY NextLimit
<1>3. TruthInv /\ [Next]_vars => TruthInv'
  BY NextTruth
<1> QED BY <1>1, <1>2, <1>3, InitLimit, InitTruth, PTL DEF Spec

-----------------------------------------------------------------------------
(* A dojo's mailings: the limit and the text *)

Letter == [state : {"none", "pending", "sending", "sent", "withdrawn"}, text : 0..MaxEdits + 1]

TeamRequest == [at : {"idle", "loaded", "checked"}, of : SUBSET Mailings, saw : Row]

\* No text is ahead of the edits, and a request is about one mailing.
MailingTables ==
    /\ MailingsTypeOK
    /\ \A m \in Mailings : mailing[m].text <= edits + 1
    /\ \A p \in TeamRequests : /\ request[p].saw.text <= edits + 1
                               /\ \A m, n \in request[p].of : m = n
                               /\ request[p].at = "checked" => request[p].saw.status = "draft"

\* A mailing whose requests did not cross: its row says how it was launched, and
\* its mail waits only while it is queued.
MailingFits(m) ==
    m \notin crossed =>
      /\ launched[m].on > 0 =>
           /\ mailing[m].toFamilies = TRUE /\ mailing[m].at = launched[m].on
           /\ mailing[m].status \in {"queued", "completed", "cancelled"}
      /\ mailing[m].status \in {"none", "draft", "deleted"} =>
           \A u \in Readers : letter[m][u] = NoLetter
      /\ mailing[m].status = "queued" => mailing[m].text = launched[m].text
      /\ \A u \in Readers : letter[m][u].state # "none" => letter[m][u].text = launched[m].text
      /\ \A u \in Readers : letter[m][u].state = "pending" => mailing[m].status = "queued"
      /\ mailing[m].status = "cancelled" =>
           \A u \in Readers : letter[m][u].state = "sending" => Some(m, "sent")

\* The launches to families that count.
Counting ==
    {m \in Mailings \ crossed :
        /\ launched[m].on > 0 /\ day - launched[m].on <= LimitDays
        /\ mailing[m].status = "cancelled" => Some(m, "sent")}

\* Who was let through has room left, or was overtaken by another launch.
RoomLeft(q) ==
    q.at = "checked" /\ q.saw.toFamilies = TRUE /\ (\E m \in q.of : m \notin crossed)
        => Cardinality(Counting) < LaunchLimit

MailingsIInv ==
    /\ MailingTables
    /\ \A m \in Mailings : MailingFits(m)
    /\ Cardinality(Counting) <= LaunchLimit
    /\ \A p \in TeamRequests : RoomLeft(request[p])

LEMMA CountingIsFinite ==
    /\ IsFiniteSet(Mailings) /\ IsFiniteSet(Counting) /\ Counting \subseteq Mailings
    /\ Cardinality(Counting) \in Nat
<1>1. IsFiniteSet(Mailings) /\ Counting \subseteq Mailings
  BY MailingsAssumption DEF Counting
<1>2. IsFiniteSet(Counting)
  BY <1>1, FS_Subset
<1> QED BY <1>1, <1>2, FS_CardinalityType

LEMMA NumbersAreNaturals ==
    /\ LaunchLimit \in Nat /\ LaunchLimit > 0 /\ LimitDays \in Nat /\ LastMailDay \in Nat
    /\ LastMailDay > 0 /\ MaxEdits \in Nat /\ 0 \in 0..LastMailDay /\ 0 \in 0..MaxEdits + 1
    /\ 1 \in 0..MaxEdits + 1
BY MailingsAssumption

LEMMA MailingsInitOK == MailingsInit => MailingsIInv
<1> SUFFICES ASSUME MailingsInit PROVE MailingsIInv
  OBVIOUS
<1>1. NoRow \in Row /\ NoRow.status = "none" /\ NoRow.text = 0
  BY NumbersAreNaturals DEF NoRow, Row
<1>2. NoLetter \in Letter /\ NoLetter.state = "none"
  BY NumbersAreNaturals DEF NoLetter, Letter
<1>3. /\ NoRequest \in TeamRequest /\ NoRequest.at = "idle" /\ NoRequest.of = {} /\ NoRequest.saw = NoRow
  BY <1>1 DEF NoRequest, TeamRequest
<1>4. /\ \A m \in Mailings : mailing[m] = NoRow /\ launched[m] = [on |-> 0, text |-> 0]
      /\ \A m \in Mailings : \A u \in Readers : letter[m][u] = NoLetter
      /\ \A p \in TeamRequests : request[p] = NoRequest
      /\ day = 1 /\ edits = 0 /\ crossed = {}
  BY DEF MailingsInit
<1>5. \A m \in Mailings : launched[m].on = 0
  BY <1>4
<1>6. MailingsTypeOK
  <2>1. mailing \in [Mailings -> Row] /\ request \in [TeamRequests -> TeamRequest]
    BY <1>1, <1>3 DEF MailingsInit
  <2>2. letter \in [Mailings -> [Readers -> Letter]]
    BY <1>2 DEF MailingsInit
  <2>3. launched \in [Mailings -> [on : 0..LastMailDay, text : 0..MaxEdits + 1]]
    BY NumbersAreNaturals DEF MailingsInit
  <2>4. day \in 1..LastMailDay /\ edits \in 0..MaxEdits
    BY <1>4, NumbersAreNaturals
  <2> QED BY <1>4, <2>1, <2>2, <2>3, <2>4 DEF MailingsTypeOK, Letter, TeamRequest
<1>7. MailingTables
  BY <1>1, <1>3, <1>4, <1>6 DEF MailingTables
<1>8. \A m \in Mailings : MailingFits(m)
  BY <1>1, <1>2, <1>4, <1>5 DEF MailingFits
<1>9. Counting = {}
  BY <1>5 DEF Counting
<1>10. Cardinality(Counting) = 0
  BY <1>9, FS_EmptySet
<1>11. \A p \in TeamRequests : RoomLeft(request[p])
  BY <1>3, <1>4 DEF RoomLeft
<1> QED BY <1>7, <1>8, <1>10, <1>11, NumbersAreNaturals DEF MailingsIInv

LEMMA MailingsIInvImplies == MailingsIInv => MailingsInv
<1> SUFFICES ASSUME MailingsIInv PROVE MailingsInv
  OBVIOUS
<1>1. MailingsTypeOK
  BY DEF MailingsIInv, MailingTables
<1>2. FamiliesAreNotFlooded
  <2> DEFINE S == {m \in Mailings \ crossed :
                     /\ launched[m].on > 0 /\ day - launched[m].on <= LimitDays
                     /\ Some(m, "sent")}
  <2>1. S \subseteq Counting
    BY DEF Counting
  <2>2. Cardinality(S) <= Cardinality(Counting) /\ Cardinality(S) \in Nat
    BY <2>1, CountingIsFinite, FS_Subset, FS_CardinalityType
  <2>3. Cardinality(S) <= LaunchLimit
    <3> HIDE DEF S
    <3> QED BY <2>2, CountingIsFinite, NumbersAreNaturals DEF MailingsIInv
  <2> QED BY <2>3 DEF FamiliesAreNotFlooded
<1>3. WhatWasLaunchedGoesOut
  <2> SUFFICES ASSUME NEW m \in Mailings, m \notin crossed
               PROVE  /\ \A u \in Readers :
                            letter[m][u].state # "none" => letter[m][u].text = launched[m].text
                      /\ Some(m, "pending") => mailing[m].status = "queued"
                      /\ mailing[m].status \in {"draft", "deleted"} => letter[m] = [u \in Readers |-> NoLetter]
    BY DEF WhatWasLaunchedGoesOut
  <2>1. MailingFits(m)
    BY DEF MailingsIInv
  <2>2. letter[m] = [u \in Readers |-> letter[m][u]]
    BY <1>1 DEF MailingsTypeOK
  <2>3. mailing[m].status \in {"draft", "deleted"} => \A u \in Readers : letter[m][u] = NoLetter
    BY <2>1 DEF MailingFits
  <2>4. mailing[m].status \in {"draft", "deleted"} => letter[m] = [u \in Readers |-> NoLetter]
    BY <2>2, <2>3
  <2> QED BY <2>1, <2>4 DEF MailingFits, Some
<1> QED BY <1>1, <1>2, <1>3 DEF MailingsInv

LEMMA MailingsTyped ==
    ASSUME MailingsIInv
    PROVE  /\ day \in 1..LastMailDay /\ edits \in 0..MaxEdits /\ crossed \subseteq Mailings
           /\ mailing \in [Mailings -> Row] /\ letter \in [Mailings -> [Readers -> Letter]]
           /\ request \in [TeamRequests -> TeamRequest]
           /\ launched \in [Mailings -> [on : 0..LastMailDay, text : 0..MaxEdits + 1]]
           /\ \A m \in Mailings : mailing[m].text <= edits + 1 /\ MailingFits(m)
           /\ \A p \in TeamRequests :
                /\ request[p].saw.text <= edits + 1
                /\ \A m, n \in request[p].of : m = n
                /\ request[p].at = "checked" => request[p].saw.status = "draft"
                /\ RoomLeft(request[p])
BY DEF MailingsIInv, MailingTables, MailingsTypeOK, Letter, TeamRequest

\* Steps that launch nothing to families and check nothing.
LEMMA NoLaunchKeeps ==
    ASSUME MailingsIInv, MailingTables', \A m \in Mailings : MailingFits(m)',
           Counting' \subseteq Counting, crossed \subseteq crossed',
           \A p \in TeamRequests : request'[p].at = "checked" => request'[p] = request[p]
    PROVE  MailingsIInv'
<1>1. Cardinality(Counting') <= Cardinality(Counting) /\ Cardinality(Counting') \in Nat
  BY CountingIsFinite, FS_Subset, FS_CardinalityType
<1>2. /\ Cardinality(Counting) \in Nat /\ LaunchLimit \in Nat
      /\ Cardinality(Counting) <= LaunchLimit
  BY CountingIsFinite, NumbersAreNaturals DEF MailingsIInv
<1>3. Cardinality(Counting)' = Cardinality(Counting')
  OBVIOUS
<1>4. \A p \in TeamRequests : RoomLeft(request[p])'
  <2> SUFFICES ASSUME NEW p \in TeamRequests, request'[p].at = "checked",
                      request'[p].saw.toFamilies = TRUE, NEW m \in request'[p].of, m \notin crossed'
               PROVE  Cardinality(Counting') < LaunchLimit
    BY DEF RoomLeft
  <2>1. request'[p] = request[p] /\ m \notin crossed
    OBVIOUS
  <2>2. RoomLeft(request[p])
    BY DEF MailingsIInv
  <2>3. Cardinality(Counting) < LaunchLimit
    BY <2>1, <2>2 DEF RoomLeft
  <2> QED BY <1>1, <1>2, <2>3
<1>5. (\A m \in Mailings : MailingFits(m))' /\ (\A p \in TeamRequests : RoomLeft(request[p]))'
  BY <1>4
<1>6. (Cardinality(Counting) <= LaunchLimit)'
  BY <1>1, <1>2
<1> QED BY <1>5, <1>6 DEF MailingsIInv

LEMMA RequestDone ==
    ASSUME MailingsIInv, NEW p \in TeamRequests, Done(p)
    PROVE  /\ request' \in [TeamRequests -> TeamRequest]
           /\ request'[p] = NoRequest /\ \A q \in TeamRequests \ {p} : request'[q] = request[q]
           /\ NoRequest \in TeamRequest /\ NoRequest.at = "idle" /\ NoRequest.of = {}
           /\ NoRequest.saw.text = 0
<1>1. NoRow \in Row /\ NoRow.text = 0
  BY NumbersAreNaturals DEF NoRow, Row
<1>2. /\ NoRequest \in TeamRequest /\ NoRequest.at = "idle" /\ NoRequest.of = {}
      /\ NoRequest.saw = NoRow
  BY <1>1 DEF NoRequest, TeamRequest
<1>3. request \in [TeamRequests -> TeamRequest]
  BY MailingsTyped
<1> QED BY <1>1, <1>2, <1>3 DEF Done

LEMMA TablesAgain ==
    ASSUME day' \in 1..LastMailDay, edits' \in 0..MaxEdits, crossed' \subseteq Mailings,
           mailing' \in [Mailings -> Row], letter' \in [Mailings -> [Readers -> Letter]],
           request' \in [TeamRequests -> TeamRequest],
           launched' \in [Mailings -> [on : 0..LastMailDay, text : 0..MaxEdits + 1]],
           \A m \in Mailings : mailing'[m].text <= edits' + 1,
           \A p \in TeamRequests : /\ request'[p].saw.text <= edits' + 1
                                   /\ \A m, n \in request'[p].of : m = n
                                   /\ request'[p].at = "checked" => request'[p].saw.status = "draft"
    PROVE  MailingTables'
BY DEF MailingTables, MailingsTypeOK, Letter, TeamRequest

\* What changes a request or the edits only.
LEMMA SameMailings ==
    ASSUME MailingsIInv, UNCHANGED <<day, mailing, letter, launched, crossed>>
    PROVE  /\ \A m \in Mailings : MailingFits(m)'
           /\ Counting' = Counting
BY DEF MailingsIInv, MailingFits, Some, Counting

LEMMA CreateKeeps ==
    ASSUME MailingsIInv, NEW m \in Mailings, NEW f \in BOOLEAN, Create(m, f)
    PROVE  MailingsIInv'
<1> DEFINE row == [NoRow EXCEPT !.status = "draft", !.toFamilies = f, !.text = 1]
<1>1. /\ mailing[m].status = "none" /\ mailing' = [mailing EXCEPT ![m] = row]
      /\ UNCHANGED <<day, letter, request, edits, launched, crossed>>
  BY DEF Create
<1>2. row \in Row /\ row.status = "draft" /\ row.text = 1
  BY NumbersAreNaturals DEF NoRow, Row
<1> HIDE DEF row
<1>3. /\ mailing' \in [Mailings -> Row] /\ mailing'[m] = row
      /\ \A n \in Mailings : n # m => mailing'[n] = mailing[n]
  BY <1>1, <1>2, MailingsTyped
<1>4. \A n \in Mailings : mailing'[n].text <= edits' + 1
  BY <1>1, <1>2, <1>3, MailingsTyped
<1>5. MailingTables'
  BY <1>1, <1>3, <1>4, MailingsTyped, TablesAgain
<1>6. MailingFits(m) /\ launched[m].on \in Nat
  BY MailingsTyped
<1>7. m \notin crossed => ~(launched[m].on > 0) /\ \A u \in Readers : letter[m][u] = NoLetter
  BY <1>1, <1>6 DEF MailingFits
<1>8. \A n \in Mailings : MailingFits(n)'
  <2> SUFFICES ASSUME NEW n \in Mailings PROVE MailingFits(n)'
    OBVIOUS
  <2>1. CASE n = m
    BY <1>1, <1>2, <1>3, <1>7, <2>1 DEF MailingFits, NoLetter
  <2>2. CASE n # m
    <3>1. MailingFits(n) /\ mailing'[n] = mailing[n]
      BY <1>3, <2>2, MailingsTyped
    <3> QED BY <1>1, <3>1 DEF MailingFits, Some
  <2> QED BY <2>1, <2>2
<1>9. Counting' \subseteq Counting
  <2> SUFFICES ASSUME NEW n \in Counting' PROVE n \in Counting
    OBVIOUS
  <2>1. n \in Mailings /\ n \notin crossed /\ launched[n].on > 0
    BY <1>1 DEF Counting
  <2>2. n # m
    BY <1>7, <2>1
  <2>3. mailing'[n] = mailing[n]
    BY <1>3, <2>1, <2>2
  <2> QED BY <1>1, <2>1, <2>3 DEF Counting, Some
<1> QED BY <1>1, <1>5, <1>8, <1>9, NoLaunchKeeps

LEMMA LoadMailingKeeps ==
    ASSUME MailingsIInv, NEW p \in TeamRequests, NEW m \in Mailings, LoadMailing(p, m)
    PROVE  MailingsIInv'
<1> DEFINE q == [at |-> "loaded", of |-> {m}, saw |-> mailing[m]]
<1>1. /\ request' = [request EXCEPT ![p] = q]
      /\ UNCHANGED <<day, mailing, letter, edits, launched, crossed>>
  BY DEF LoadMailing
<1>2. /\ q \in TeamRequest /\ q.at = "loaded" /\ q.of = {m} /\ q.saw = mailing[m]
  BY MailingsTyped DEF TeamRequest
<1> HIDE DEF q
<1>3. /\ request' \in [TeamRequests -> TeamRequest] /\ request'[p] = q
      /\ \A o \in TeamRequests : o # p => request'[o] = request[o]
  BY <1>1, <1>2, MailingsTyped
<1>4. \A o \in TeamRequests :
        /\ request'[o].saw.text <= edits' + 1
        /\ \A a, b \in request'[o].of : a = b
        /\ request'[o].at = "checked" => request'[o].saw.status = "draft"
  BY <1>1, <1>2, <1>3, MailingsTyped
<1>5. MailingTables'
  BY <1>1, <1>3, <1>4, MailingsTyped, TablesAgain
<1>6. (\A n \in Mailings : MailingFits(n)') /\ Counting' = Counting
  BY <1>1, SameMailings
<1>7. \A o \in TeamRequests : request'[o].at = "checked" => request'[o] = request[o]
  BY <1>2, <1>3
<1> QED BY <1>1, <1>5, <1>6, <1>7, NoLaunchKeeps

LEMMA RequestsAgain ==
    ASSUME MailingsIInv, NEW p \in TeamRequests, Done(p), edits' \in 0..MaxEdits, edits <= edits'
    PROVE  /\ request' \in [TeamRequests -> TeamRequest]
           /\ \A o \in TeamRequests : /\ request'[o].saw.text <= edits' + 1
                                      /\ \A m, n \in request'[o].of : m = n
                                      /\ request'[o].at = "checked" => request'[o].saw.status = "draft"
           /\ \A o \in TeamRequests : request'[o].at = "checked" => request'[o] = request[o]
<1> SUFFICES ASSUME NEW o \in TeamRequests
             PROVE  /\ request'[o].saw.text <= edits' + 1
                    /\ \A m, n \in request'[o].of : m = n
                    /\ request'[o].at = "checked" => request'[o].saw.status = "draft"
                    /\ request'[o].at = "checked" => request'[o] = request[o]
  BY RequestDone
<1>1. CASE o = p
  BY <1>1, RequestDone
<1>2. CASE o # p
  <2>1. request'[o] = request[o]
    BY <1>2, RequestDone
  <2>2. request[o].saw.text \in Nat /\ edits \in Nat /\ request[o].saw.text <= edits + 1
    <3>1. request[o] \in TeamRequest
      BY MailingsTyped
    <3> QED BY <3>1, MailingsTyped DEF TeamRequest, Row
  <2> QED BY <2>1, <2>2, MailingsTyped
<1> QED BY <1>1, <1>2

LEMMA EndRequestKeeps ==
    ASSUME MailingsIInv, NEW p \in TeamRequests, EndRequest(p)
    PROVE  MailingsIInv'
<1>1. Done(p) /\ UNCHANGED <<day, mailing, letter, edits, launched, crossed>>
  BY DEF EndRequest
<1>2. edits \in 0..MaxEdits /\ edits <= edits'
  BY <1>1, MailingsTyped
<1>3. MailingTables'
  BY <1>1, <1>2, RequestsAgain, MailingsTyped, TablesAgain
<1>4. (\A n \in Mailings : MailingFits(n)') /\ Counting' = Counting
  BY <1>1, SameMailings
<1> QED BY <1>1, <1>2, <1>3, <1>4, RequestsAgain, NoLaunchKeeps

\* A step that changes rows of what a request is about, without a launch: each
\* is crossed then, or was a draft and stays without mail.
LEMMA DraftsChange ==
    ASSUME MailingsIInv, UNCHANGED <<day, letter, launched>>, crossed \subseteq crossed',
           \A m \in Mailings :
              \/ mailing'[m] = mailing[m] \/ m \in crossed'
              \/ mailing[m].status = "draft" /\ mailing'[m].status \in {"draft", "deleted"}
    PROVE  (\A m \in Mailings : MailingFits(m)') /\ Counting' \subseteq Counting
<1>1. ASSUME NEW m \in Mailings, m \notin crossed', mailing'[m] # mailing[m]
      PROVE  /\ m \notin crossed /\ ~(launched[m].on > 0)
             /\ \A u \in Readers : letter[m][u] = NoLetter
             /\ mailing'[m].status \in {"draft", "deleted"}
  <2>1. m \notin crossed /\ mailing[m].status = "draft" /\ mailing'[m].status \in {"draft", "deleted"}
    BY <1>1
  <2>2. MailingFits(m)
    BY MailingsTyped
  <2> QED BY <2>1, <2>2 DEF MailingFits
<1>2. ASSUME NEW m \in Mailings PROVE MailingFits(m)'
  <2>1. CASE m \in crossed'
    BY <2>1 DEF MailingFits
  <2>2. CASE m \notin crossed' /\ mailing'[m] = mailing[m]
    <3>1. MailingFits(m) /\ m \notin crossed
      BY <2>2, MailingsTyped
    <3> QED BY <2>2, <3>1 DEF MailingFits, Some
  <2>3. CASE m \notin crossed' /\ mailing'[m] # mailing[m]
    BY <1>1, <2>3 DEF MailingFits, NoLetter
  <2> QED BY <2>1, <2>2, <2>3
<1>3. ASSUME NEW m \in Counting' PROVE m \in Counting
  <2>1. m \in Mailings /\ m \notin crossed' /\ m \notin crossed /\ launched[m].on > 0
    BY DEF Counting
  <2>2. mailing'[m] = mailing[m]
    BY <1>1, <2>1
  <2> QED BY <2>1, <2>2 DEF Counting, Some
<1> QED BY <1>2, <1>3

LEMMA SaveDraftKeeps ==
    ASSUME MailingsIInv, NEW p \in TeamRequests, NEW f \in BOOLEAN, SaveDraft(p, f)
    PROVE  MailingsIInv'
<1> DEFINE q == request[p]
           row == [q.saw EXCEPT !.text = q.saw.text + 1, !.toFamilies = f]
           Lost == {m \in q.of : mailing[m].status # q.saw.status}
<1>1. /\ q.saw.status = "draft" /\ edits < MaxEdits /\ edits' = edits + 1 /\ Done(p)
      /\ crossed' = crossed \cup Lost
      /\ UNCHANGED <<day, letter, launched>>
      /\ mailing' = [m \in Mailings |-> IF m \in q.of THEN Edited(q.saw, f) ELSE mailing[m]]
  BY DEF SaveDraft, IsEditable
<1>2. q \in TeamRequest /\ q.saw \in Row /\ q.of \subseteq Mailings /\ q.saw.text <= edits + 1
  BY MailingsTyped DEF TeamRequest
<1>3. Edited(q.saw, f) = row
  BY <1>2 DEF Edited, Row
<1>4. edits \in Nat /\ edits' \in 0..MaxEdits /\ edits <= edits' /\ MaxEdits \in Nat
  BY <1>1, MailingsTyped, NumbersAreNaturals
<1>5. q.saw.text \in Nat /\ q.saw.text + 1 \in 0..MaxEdits + 1 /\ q.saw.text + 1 <= edits' + 1
  BY <1>1, <1>2, <1>4 DEF Row
<1>6. row \in Row /\ row.status = "draft" /\ row.text <= edits' + 1
  BY <1>1, <1>2, <1>5 DEF Row
<1> HIDE DEF row
<1>7. /\ mailing' \in [Mailings -> Row]
      /\ \A m \in Mailings : mailing'[m] = IF m \in q.of THEN row ELSE mailing[m]
  BY <1>1, <1>3, <1>6, MailingsTyped
<1>8. \A m \in Mailings : mailing'[m].text <= edits' + 1
  <2> SUFFICES ASSUME NEW m \in Mailings, m \notin q.of PROVE mailing'[m].text <= edits' + 1
    BY <1>6, <1>7
  <2>1. mailing[m].text \in Nat /\ mailing[m].text <= edits + 1
    BY MailingsTyped DEF Row
  <2> QED BY <1>4, <1>7, <2>1
<1>9. crossed' \subseteq Mailings /\ crossed \subseteq crossed'
  BY <1>1, <1>2, MailingsTyped
<1>10. MailingTables'
  BY <1>1, <1>4, <1>7, <1>8, <1>9, RequestsAgain, MailingsTyped, TablesAgain
<1>11. \A m \in Mailings :
         \/ mailing'[m] = mailing[m] \/ m \in crossed'
         \/ mailing[m].status = "draft" /\ mailing'[m].status \in {"draft", "deleted"}
  BY <1>1, <1>6, <1>7
<1>12. (\A m \in Mailings : MailingFits(m)') /\ Counting' \subseteq Counting
  BY <1>1, <1>9, <1>11, DraftsChange
<1> QED BY <1>1, <1>4, <1>9, <1>10, <1>12, RequestsAgain, NoLaunchKeeps

LEMMA DeleteDraftKeeps ==
    ASSUME MailingsIInv, NEW p \in TeamRequests, DeleteDraft(p)
    PROVE  MailingsIInv'
<1> DEFINE q == request[p]
           Gone(m) == [mailing[m] EXCEPT !.status = "deleted"]
           Lost == {m \in q.of : mailing[m].status # "draft"}
<1>1. /\ Done(p) /\ crossed' = crossed \cup Lost
      /\ UNCHANGED <<day, letter, edits, launched>>
      /\ mailing' = [m \in Mailings |-> IF m \in q.of THEN Gone(m) ELSE mailing[m]]
  BY DEF DeleteDraft
<1>2. q \in TeamRequest /\ q.of \subseteq Mailings
  BY MailingsTyped DEF TeamRequest
<1>3. edits \in 0..MaxEdits /\ edits <= edits'
  BY <1>1, MailingsTyped
<1>4. ASSUME NEW m \in Mailings
      PROVE  Gone(m) \in Row /\ Gone(m).status = "deleted" /\ Gone(m).text = mailing[m].text
  <2>1. mailing[m] \in Row
    BY MailingsTyped
  <2> QED BY <2>1 DEF Row
<1> HIDE DEF Gone
<1>5. /\ mailing' \in [Mailings -> Row]
      /\ \A m \in Mailings : mailing'[m] = IF m \in q.of THEN Gone(m) ELSE mailing[m]
  BY <1>1, <1>4, MailingsTyped
<1>6. \A m \in Mailings : mailing'[m].text <= edits' + 1
  BY <1>1, <1>4, <1>5, MailingsTyped
<1>7. crossed' \subseteq Mailings /\ crossed \subseteq crossed'
  BY <1>1, <1>2, MailingsTyped
<1>8. MailingTables'
  BY <1>1, <1>3, <1>5, <1>6, <1>7, RequestsAgain, MailingsTyped, TablesAgain
<1>9. \A m \in Mailings :
        \/ mailing'[m] = mailing[m] \/ m \in crossed'
        \/ mailing[m].status = "draft" /\ mailing'[m].status \in {"draft", "deleted"}
  BY <1>1, <1>4, <1>5
<1>10. (\A m \in Mailings : MailingFits(m)') /\ Counting' \subseteq Counting
  BY <1>1, <1>7, <1>9, DraftsChange
<1> QED BY <1>1, <1>3, <1>7, <1>8, <1>10, RequestsAgain, NoLaunchKeeps

\* Who is counted was launched to families and counts for dojo_launches too.
LEMMA CountedByTheCode ==
    ASSUME MailingsIInv
    PROVE  Cardinality(Counting) <= Launches /\ Launches \in Nat
<1> DEFINE L == {m \in Mailings :
                   /\ mailing[m].status \in {"draft", "queued", "completed", "cancelled"}
                   /\ mailing[m].toFamilies /\ mailing[m].at > 0
                   /\ day - mailing[m].at <= LimitDays
                   /\ mailing[m].status = "cancelled" => Some(m, "sent")}
<1>1. Counting \subseteq L
  <2> SUFFICES ASSUME NEW m \in Counting PROVE m \in L
    OBVIOUS
  <2>1. /\ m \in Mailings /\ m \notin crossed /\ launched[m].on > 0
        /\ day - launched[m].on <= LimitDays
        /\ mailing[m].status = "cancelled" => Some(m, "sent")
    BY DEF Counting
  <2>2. MailingFits(m)
    BY <2>1, MailingsTyped
  <2>3. /\ mailing[m].toFamilies = TRUE /\ mailing[m].at = launched[m].on
        /\ mailing[m].status \in {"queued", "completed", "cancelled"}
    BY <2>1, <2>2 DEF MailingFits
  <2> QED BY <2>1, <2>3
<1>2. L \subseteq Mailings
  OBVIOUS
<1>3. Launches = Cardinality(L)
  BY DEF Launches
<1> HIDE DEF L
<1>4. IsFiniteSet(L)
  BY <1>2, CountingIsFinite, FS_Subset
<1>5. Cardinality(Counting) <= Cardinality(L) /\ Cardinality(L) \in Nat
  BY <1>1, <1>4, FS_Subset, FS_CardinalityType
<1> QED BY <1>3, <1>5

LEMMA CheckLaunchKeeps ==
    ASSUME MailingsIInv, NEW p \in TeamRequests, CheckLaunch(p)
    PROVE  MailingsIInv'
<1> DEFINE q == request[p]
           c == [q EXCEPT !.at = "checked"]
<1>1. /\ q.saw.status = "draft" /\ BelowLimit(q.saw) /\ request' = [request EXCEPT ![p] = c]
      /\ UNCHANGED <<day, mailing, letter, edits, launched, crossed>>
  BY DEF CheckLaunch
<1>2. q \in TeamRequest
  BY MailingsTyped
<1>3. c \in TeamRequest /\ c.at = "checked" /\ c.of = q.of /\ c.saw = q.saw
  BY <1>2 DEF TeamRequest
<1> HIDE DEF c
<1>4. /\ request' \in [TeamRequests -> TeamRequest] /\ request'[p] = c
      /\ \A o \in TeamRequests : o # p => request'[o] = request[o]
  BY <1>1, <1>3, MailingsTyped
<1>5. \A o \in TeamRequests : /\ request'[o].saw.text <= edits' + 1
                              /\ \A m, n \in request'[o].of : m = n
                              /\ request'[o].at = "checked" => request'[o].saw.status = "draft"
  BY <1>1, <1>3, <1>4, MailingsTyped
<1>6. MailingTables'
  BY <1>1, <1>4, <1>5, MailingsTyped, TablesAgain
<1>7. (\A n \in Mailings : MailingFits(n)') /\ Counting' = Counting
  BY <1>1, SameMailings
<1>8. c.saw.toFamilies = TRUE => Cardinality(Counting) < LaunchLimit
  <2> SUFFICES ASSUME c.saw.toFamilies = TRUE PROVE Cardinality(Counting) < LaunchLimit
    OBVIOUS
  <2>1. Launches < LaunchLimit
    BY <1>1, <1>3 DEF BelowLimit
  <2> QED BY <2>1, CountedByTheCode, CountingIsFinite, NumbersAreNaturals
<1>9. \A o \in TeamRequests : RoomLeft(request[o])'
  <2> SUFFICES ASSUME NEW o \in TeamRequests PROVE RoomLeft(request[o])'
    OBVIOUS
  <2>1. CASE o = p
    BY <1>4, <1>7, <1>8, <2>1 DEF RoomLeft
  <2>2. CASE o # p
    <3>1. RoomLeft(request[o]) /\ request'[o] = request[o]
      BY <1>4, <2>2, MailingsTyped
    <3> QED BY <1>1, <1>7, <3>1 DEF RoomLeft
  <2> QED BY <2>1, <2>2
<1>10. (Cardinality(Counting) <= LaunchLimit)'
  BY <1>7 DEF MailingsIInv
<1> QED BY <1>6, <1>7, <1>9, <1>10 DEF MailingsIInv

LEMMA SaveLaunchKeeps ==
    ASSUME MailingsIInv, NEW p \in TeamRequests, SaveLaunch(p)
    PROVE  MailingsIInv'
<1> DEFINE q == request[p]
           ms == {m \in q.of : mailing[m].status # "deleted"}
           Out(m) == [mailing[m] EXCEPT !.status = "queued", !.at = day]
           Note(m) == [on |-> IF mailing[m].toFamilies THEN day ELSE 0, text |-> mailing[m].text]
           Changed == {m \in ms : \/ mailing[m].status # "draft"
                                  \/ mailing[m].toFamilies # q.saw.toFamilies}
           Overtaken == UNION {request[o].of : o \in {r \in TeamRequests \ {p} : request[r].at = "checked"}}
<1>1. /\ q.at = "checked" /\ Done(p) /\ UNCHANGED <<day, letter, edits>>
      /\ mailing' = [m \in Mailings |-> IF m \in ms THEN Out(m) ELSE mailing[m]]
      /\ launched' = [m \in Mailings |-> IF m \in ms THEN Note(m) ELSE launched[m]]
      /\ crossed' = crossed \cup Changed \cup Overtaken
  BY DEF SaveLaunch
<1>2. q \in TeamRequest /\ q.of \subseteq Mailings /\ \A m, n \in q.of : m = n
  BY MailingsTyped DEF TeamRequest
<1>3. ms \subseteq Mailings /\ Changed \subseteq Mailings /\ \A m, n \in ms : m = n
  BY <1>2
<1>4. Overtaken \subseteq Mailings
  BY MailingsTyped DEF TeamRequest
<1>5. day \in 1..LastMailDay /\ day \in 0..LastMailDay /\ day > 0
  BY MailingsTyped, NumbersAreNaturals
<1>6. ASSUME NEW m \in Mailings
      PROVE  /\ Out(m) \in Row /\ Out(m).status = "queued" /\ Out(m).at = day
             /\ Out(m).text = mailing[m].text /\ Out(m).toFamilies = mailing[m].toFamilies
             /\ Note(m) \in [on : 0..LastMailDay, text : 0..MaxEdits + 1]
             /\ Note(m).text = mailing[m].text
             /\ Note(m).on = IF mailing[m].toFamilies THEN day ELSE 0
             /\ mailing[m].toFamilies \in BOOLEAN
  <2>1. mailing[m] \in Row
    BY MailingsTyped
  <2> QED BY <1>5, <2>1, NumbersAreNaturals DEF Row
<1>7. /\ crossed' \subseteq Mailings /\ crossed \subseteq crossed' /\ Changed \subseteq crossed'
      /\ Overtaken \subseteq crossed'
  BY <1>1, <1>3, <1>4, MailingsTyped
<1>8. ASSUME NEW m \in ms, m \notin crossed'
      PROVE  /\ m \in q.of /\ m \notin crossed /\ mailing[m].status = "draft"
             /\ mailing[m].toFamilies = q.saw.toFamilies
  BY <1>7, <1>8
<1> HIDE DEF ms, Out, Note, Changed, Overtaken
<1>9. /\ mailing' \in [Mailings -> Row]
      /\ launched' \in [Mailings -> [on : 0..LastMailDay, text : 0..MaxEdits + 1]]
      /\ \A m \in ms : mailing'[m] = Out(m) /\ launched'[m] = Note(m)
      /\ \A m \in Mailings \ ms : mailing'[m] = mailing[m] /\ launched'[m] = launched[m]
  BY <1>1, <1>3, <1>6, MailingsTyped
<1>10. \A m \in Mailings : mailing'[m].text <= edits' + 1
  BY <1>1, <1>6, <1>9, MailingsTyped
<1>11. edits' \in 0..MaxEdits /\ edits <= edits'
  BY <1>1, MailingsTyped
<1>12. MailingTables'
  BY <1>1, <1>7, <1>9, <1>10, <1>11, RequestsAgain, MailingsTyped, TablesAgain
<1>13. ASSUME NEW m \in Mailings PROVE MailingFits(m)'
  <2>0. MailingFits(m)
    BY MailingsTyped
  <2>1. CASE m \in crossed'
    BY <2>1 DEF MailingFits
  <2>2. CASE m \notin crossed' /\ m \notin ms
    BY <1>1, <1>7, <1>9, <2>0, <2>2 DEF MailingFits, Some
  <2>3. CASE m \notin crossed' /\ m \in ms
    <3>1. m \notin crossed /\ mailing[m].status = "draft"
      BY <1>8, <2>3
    <3>2. \A u \in Readers : letter'[m][u] = NoLetter
      BY <1>1, <2>0, <3>1 DEF MailingFits
    <3>3. /\ mailing'[m].status = "queued" /\ mailing'[m].at = day
          /\ mailing'[m].text = launched'[m].text
          /\ mailing'[m].toFamilies = mailing[m].toFamilies
          /\ launched'[m].on = (IF mailing[m].toFamilies THEN day ELSE 0)
          /\ mailing[m].toFamilies \in BOOLEAN
      BY <1>6, <1>9, <2>3
    <3>4. launched'[m].on > 0 => mailing'[m].toFamilies = TRUE /\ mailing'[m].at = launched'[m].on
      BY <1>5, <3>3
    <3> QED BY <3>2, <3>3, <3>4 DEF MailingFits, NoLetter
  <2> QED BY <2>1, <2>2, <2>3
<1>14. ASSUME NEW m \in Counting', m \notin ms PROVE m \in Counting
  <2>1. m \in Mailings /\ m \notin crossed' /\ m \notin crossed
    BY <1>7 DEF Counting
  <2>2. mailing'[m] = mailing[m] /\ launched'[m] = launched[m]
    BY <1>9, <1>14, <2>1
  <2> QED BY <1>1, <1>14, <2>1, <2>2 DEF Counting, Some
<1>15. Cardinality(Counting') <= LaunchLimit
  <2>1. CASE \E m \in ms : m \in Counting'
    <3>1. PICK m \in ms : m \in Counting'
      BY <2>1
    <3>2. m \in Mailings /\ m \notin crossed' /\ launched'[m].on > 0
      BY <3>1 DEF Counting
    <3>3. mailing[m].toFamilies = TRUE
      <4>1. launched'[m].on = IF mailing[m].toFamilies THEN day ELSE 0
        BY <1>6, <1>9, <3>1, <3>2
      <4> QED BY <1>6, <3>2, <4>1
    <3>4. m \in q.of /\ m \notin crossed /\ q.saw.toFamilies = TRUE
      BY <1>8, <3>2, <3>3
    <3>5. RoomLeft(q)
      BY MailingsTyped
    <3>6. Cardinality(Counting) < LaunchLimit
      BY <1>1, <3>4, <3>5 DEF RoomLeft
    <3>7. Counting' \subseteq Counting \cup {m}
      BY <1>3, <1>14, <3>1
    <3>8. /\ IsFiniteSet(Counting \cup {m})
          /\ Cardinality(Counting \cup {m}) <= Cardinality(Counting) + 1
      BY CountingIsFinite, FS_AddElement
    <3>9. Cardinality(Counting') <= Cardinality(Counting \cup {m}) /\ Cardinality(Counting') \in Nat
      BY <3>7, <3>8, FS_Subset, FS_CardinalityType
    <3>10. Cardinality(Counting \cup {m}) \in Nat
      BY <3>8, FS_CardinalityType
    <3> QED BY <3>6, <3>8, <3>9, <3>10, CountingIsFinite, NumbersAreNaturals
  <2>2. CASE ~ \E m \in ms : m \in Counting'
    <3>1. Counting' \subseteq Counting
      BY <1>14, <2>2
    <3>2. Cardinality(Counting') <= Cardinality(Counting) /\ Cardinality(Counting') \in Nat
      BY <3>1, CountingIsFinite, FS_Subset, FS_CardinalityType
    <3> QED BY <3>2, CountingIsFinite, NumbersAreNaturals DEF MailingsIInv
  <2> QED BY <2>1, <2>2
<1>16. \A o \in TeamRequests : RoomLeft(request[o])'
  <2> SUFFICES ASSUME NEW o \in TeamRequests PROVE RoomLeft(request[o])'
    OBVIOUS
  <2>1. CASE o = p
    BY <1>1, <2>1, RequestDone DEF RoomLeft
  <2>2. CASE o # p
    <3>1. request'[o] = request[o]
      BY <1>1, <2>2, RequestDone
    <3>2. request[o].at = "checked" => request[o].of \subseteq Overtaken
      BY <2>2 DEF Overtaken
    <3> QED BY <1>7, <3>1, <3>2 DEF RoomLeft
  <2> QED BY <2>1, <2>2
<1>17. (Cardinality(Counting) <= LaunchLimit)' /\ \A m \in Mailings : MailingFits(m)'
  BY <1>13, <1>15
<1> QED BY <1>12, <1>16, <1>17 DEF MailingsIInv

LEMMA StopMailingKeeps ==
    ASSUME MailingsIInv, NEW p \in TeamRequests, StopMailing(p)
    PROVE  MailingsIInv'
<1> DEFINE q == request[p]
           ms == {m \in q.of : mailing[m].status # "deleted"}
           Off(m) == [mailing[m] EXCEPT !.status = "cancelled"]
           Late == {m \in ms : Some(m, "sending") /\ ~Some(m, "sent")}
<1>1. /\ Done(p) /\ UNCHANGED <<day, edits, launched>>
      /\ mailing' = [m \in Mailings |-> IF m \in ms THEN Off(m) ELSE mailing[m]]
      /\ letter' = [m \in Mailings |-> IF m \in ms THEN Withdrawn(m) ELSE letter[m]]
      /\ crossed' = crossed \cup Late
  BY DEF StopMailing
<1>2. q \in TeamRequest /\ ms \subseteq Mailings
  BY MailingsTyped DEF TeamRequest
<1>3. crossed' \subseteq Mailings /\ crossed \subseteq crossed'
  BY <1>1, <1>2, MailingsTyped
<1>4. ASSUME NEW m \in ms, m \notin crossed' PROVE Some(m, "sending") => Some(m, "sent")
  BY <1>1, <1>4
<1>5. ASSUME NEW m \in Mailings
      PROVE  /\ Off(m) \in Row /\ Off(m).status = "cancelled" /\ Off(m).at = mailing[m].at
             /\ Off(m).text = mailing[m].text /\ Off(m).toFamilies = mailing[m].toFamilies
  <2>1. mailing[m] \in Row
    BY MailingsTyped
  <2> QED BY <2>1 DEF Row
<1>6. ASSUME NEW m \in Mailings
      PROVE  /\ Withdrawn(m) \in [Readers -> Letter]
             /\ \A u \in Readers :
                  /\ Withdrawn(m)[u].text = letter[m][u].text
                  /\ letter[m][u].state = "pending" => Withdrawn(m)[u].state = "withdrawn"
                  /\ letter[m][u].state # "pending" => Withdrawn(m)[u].state = letter[m][u].state
  <2>1. \A u \in Readers : letter[m][u] \in Letter
    BY MailingsTyped
  <2> QED BY <2>1 DEF Withdrawn, Letter
<1> HIDE DEF ms, Off, Late
<1>7. /\ mailing' \in [Mailings -> Row] /\ letter' \in [Mailings -> [Readers -> Letter]]
      /\ \A m \in ms : mailing'[m] = Off(m) /\ letter'[m] = Withdrawn(m)
      /\ \A m \in Mailings \ ms : mailing'[m] = mailing[m] /\ letter'[m] = letter[m]
  BY <1>1, <1>2, <1>5, <1>6, MailingsTyped
<1>8. \A m \in Mailings : mailing'[m].text <= edits' + 1
  BY <1>1, <1>5, <1>7, MailingsTyped
<1>9. edits' \in 0..MaxEdits /\ edits <= edits'
  BY <1>1, MailingsTyped
<1>10. MailingTables'
  BY <1>1, <1>3, <1>7, <1>8, <1>9, RequestsAgain, MailingsTyped, TablesAgain
<1>11. ASSUME NEW m \in ms
       PROVE  \A u \in Readers :
                /\ letter'[m][u].text = letter[m][u].text
                /\ letter'[m][u].state # "none" => letter[m][u].state # "none"
                /\ letter'[m][u].state # "pending"
                /\ letter'[m][u].state = "sending" => letter[m][u].state = "sending"
                /\ letter'[m][u].state = "sent" <=> letter[m][u].state = "sent"
  <2>1. m \in Mailings /\ letter'[m] = Withdrawn(m)
    BY <1>2, <1>7
  <2> QED BY <1>6, <2>1
<1>12. ASSUME NEW m \in Mailings PROVE MailingFits(m)'
  <2>0. MailingFits(m)
    BY MailingsTyped
  <2>1. CASE m \in crossed'
    BY <2>1 DEF MailingFits
  <2>2. CASE m \notin crossed' /\ m \notin ms
    BY <1>1, <1>3, <1>7, <2>0, <2>2 DEF MailingFits, Some
  <2>3. CASE m \notin crossed' /\ m \in ms
    <3>1. m \notin crossed
      BY <1>3, <2>3
    <3>2. /\ mailing'[m].status = "cancelled" /\ mailing'[m].at = mailing[m].at
          /\ mailing'[m].toFamilies = mailing[m].toFamilies
      BY <1>5, <1>7, <2>3
    <3>3. \A u \in Readers : letter'[m][u].state # "none" => letter'[m][u].text = launched'[m].text
      BY <1>1, <1>11, <2>0, <2>3, <3>1 DEF MailingFits
    <3>4. \A u \in Readers : letter'[m][u].state = "sending" => Some(m, "sent")'
      BY <1>4, <1>11, <2>3 DEF Some
    <3>5. \A u \in Readers : letter'[m][u].state # "pending"
      BY <1>11, <2>3
    <3>6. launched'[m].on > 0 => mailing'[m].toFamilies = TRUE /\ mailing'[m].at = launched'[m].on
      BY <1>1, <2>0, <3>1, <3>2 DEF MailingFits
    <3> QED BY <3>2, <3>3, <3>4, <3>5, <3>6 DEF MailingFits
  <2> QED BY <2>1, <2>2, <2>3
<1>13. ASSUME NEW m \in Counting' PROVE m \in Counting
  <2>1. m \in Mailings /\ m \notin crossed
    BY <1>3 DEF Counting
  <2>2. CASE m \notin ms
    <3>1. mailing'[m] = mailing[m] /\ letter'[m] = letter[m]
      BY <1>7, <2>1, <2>2
    <3> QED BY <1>1, <2>1, <3>1 DEF Counting, Some
  <2>3. CASE m \in ms
    <3>1. Some(m, "sent")'
      BY <1>5, <1>7, <2>1, <2>3 DEF Counting
    <3>2. Some(m, "sent")
      BY <1>11, <2>3, <3>1 DEF Some
    <3> QED BY <1>1, <2>1, <3>2 DEF Counting
  <2> QED BY <2>2, <2>3
<1> QED BY <1>1, <1>3, <1>9, <1>10, <1>12, <1>13, RequestsAgain, NoLaunchKeeps

\* Steps of the mail: every request and its edits stay.
LEMMA MailKeeps ==
    ASSUME MailingsIInv, UNCHANGED <<request, edits, launched, crossed>>, day' \in 1..LastMailDay,
           mailing' \in [Mailings -> Row], letter' \in [Mailings -> [Readers -> Letter]],
           \A m \in Mailings : mailing'[m].text = mailing[m].text,
           \A m \in Mailings : MailingFits(m)',
           Counting' \subseteq Counting
    PROVE  MailingsIInv'
<1>1. MailingTables'
  BY MailingsTyped, TablesAgain
<1> QED BY <1>1, NoLaunchKeeps

LEMMA OneLetter ==
    ASSUME MailingsIInv, NEW m \in Mailings, NEW u \in Readers, NEW l \in Letter,
           letter' = [letter EXCEPT ![m][u] = l]
    PROVE  /\ letter' \in [Mailings -> [Readers -> Letter]]
           /\ letter'[m][u] = l
           /\ \A v \in Readers : v # u => letter'[m][v] = letter[m][v]
           /\ \A n \in Mailings : n # m => letter'[n] = letter[n]
BY MailingsTyped

LEMMA QueueLetterKeeps ==
    ASSUME MailingsIInv, NEW m \in Mailings, NEW u \in Readers, QueueLetter(m, u)
    PROVE  MailingsIInv'
<1> DEFINE l == [state |-> "pending", text |-> mailing[m].text]
<1>1. /\ mailing[m].status = "queued" /\ letter' = [letter EXCEPT ![m][u] = l]
      /\ UNCHANGED <<day, mailing, request, edits, launched, crossed>>
  BY DEF QueueLetter
<1>2. l \in Letter /\ l.state = "pending" /\ l.text = mailing[m].text
  <2>1. mailing[m] \in Row
    BY MailingsTyped
  <2> QED BY <2>1 DEF Row, Letter
<1> HIDE DEF l
<1>3. /\ letter' \in [Mailings -> [Readers -> Letter]]
      /\ letter'[m][u] = l
      /\ \A v \in Readers : v # u => letter'[m][v] = letter[m][v]
      /\ \A n \in Mailings : n # m => letter'[n] = letter[n]
  BY <1>1, <1>2, OneLetter
<1>4. ASSUME NEW n \in Mailings PROVE MailingFits(n)'
  <2>0. MailingFits(n)
    BY MailingsTyped
  <2>1. CASE n # m
    BY <1>1, <1>3, <2>0, <2>1 DEF MailingFits, Some
  <2>2. CASE n = m
    BY <1>1, <1>2, <1>3, <2>0, <2>2 DEF MailingFits
  <2> QED BY <2>1, <2>2
<1>5. ASSUME NEW n \in Counting' PROVE n \in Counting
  <2>1. CASE n # m
    BY <1>1, <1>3, <2>1 DEF Counting, Some
  <2>2. CASE n = m
    BY <1>1, <2>2 DEF Counting
  <2> QED BY <2>1, <2>2
<1> QED BY <1>1, <1>3, <1>4, <1>5, MailingsTyped, MailKeeps

\* A claimed mail of a stopped mailing only adds to what went out of it.
LEMMA LetterMovesKeeps ==
    ASSUME MailingsIInv, NEW m \in Mailings, NEW u \in Readers, LetterMoves(m, u)
    PROVE  MailingsIInv'
<1> DEFINE l == [letter[m][u] EXCEPT !.state = IF letter[m][u].state = "pending" THEN "sending" ELSE "sent"]
<1>1. letter[m][u] \in Letter
  BY MailingsTyped
<1>2. /\ letter[m][u].state \in {"pending", "sending"} /\ letter' = [letter EXCEPT ![m][u] = l]
      /\ UNCHANGED <<day, mailing, request, edits, launched, crossed>>
  BY DEF LetterMoves
<1>3. /\ l \in Letter /\ l.text = letter[m][u].text /\ l.state \in {"sending", "sent"}
      /\ letter[m][u].state = "sending" => l.state = "sent"
  BY <1>1, <1>2 DEF Letter
<1> HIDE DEF l
<1>4. /\ letter' \in [Mailings -> [Readers -> Letter]]
      /\ letter'[m][u] = l
      /\ \A v \in Readers : v # u => letter'[m][v] = letter[m][v]
      /\ \A n \in Mailings : n # m => letter'[n] = letter[n]
  BY <1>2, <1>3, OneLetter
<1>5. MailingFits(m) /\ NoLetter.state = "none"
  BY MailingsTyped DEF NoLetter
<1>6. ASSUME m \notin crossed, mailing[m].status = "cancelled"
      PROVE  Some(m, "sent") /\ l.state = "sent"
  <2>1. letter[m][u].state = "sending"
    BY <1>2, <1>5, <1>6 DEF MailingFits
  <2> QED BY <1>3, <1>5, <1>6, <2>1 DEF MailingFits
<1>7. ASSUME NEW n \in Mailings PROVE MailingFits(n)'
  <2>1. CASE n # m
    <3>1. MailingFits(n)
      BY MailingsTyped
    <3> QED BY <1>2, <1>4, <2>1, <3>1 DEF MailingFits, Some
  <2>2. CASE n = m /\ m \notin crossed
    <3>1. mailing'[m].status \notin {"none", "draft", "deleted"}
      BY <1>2, <1>5, <2>2 DEF MailingFits
    <3>2. \A v \in Readers : letter'[m][v].state # "none" => letter'[m][v].text = launched'[m].text
      BY <1>2, <1>3, <1>4, <1>5, <2>2 DEF MailingFits
    <3>3. \A v \in Readers : letter'[m][v].state = "pending" => mailing'[m].status = "queued"
      BY <1>2, <1>3, <1>4, <1>5, <2>2 DEF MailingFits
    <3>4. mailing'[m].status = "cancelled" => Some(m, "sent")'
      BY <1>2, <1>4, <1>6, <2>2 DEF Some
    <3>5. /\ launched'[m].on > 0 =>
               /\ mailing'[m].toFamilies = TRUE /\ mailing'[m].at = launched'[m].on
               /\ mailing'[m].status \in {"queued", "completed", "cancelled"}
          /\ mailing'[m].status = "queued" => mailing'[m].text = launched'[m].text
      BY <1>2, <1>5, <2>2 DEF MailingFits
    <3> QED BY <2>2, <3>1, <3>2, <3>3, <3>4, <3>5 DEF MailingFits
  <2>3. CASE n = m /\ m \in crossed
    BY <1>2, <2>3 DEF MailingFits
  <2> QED BY <2>1, <2>2, <2>3
<1>8. ASSUME NEW n \in Counting' PROVE n \in Counting
  <2>1. CASE n # m
    BY <1>2, <1>4, <2>1 DEF Counting, Some
  <2>2. CASE n = m
    BY <1>2, <1>6, <2>2 DEF Counting
  <2> QED BY <2>1, <2>2
<1> QED BY <1>2, <1>4, <1>7, <1>8, MailingsTyped, MailKeeps

LEMMA CompleteMailingKeeps ==
    ASSUME MailingsIInv, NEW m \in Mailings, CompleteMailing(m)
    PROVE  MailingsIInv'
<1> DEFINE row == [mailing[m] EXCEPT !.status = "completed"]
<1>1. /\ mailing[m].status = "queued" /\ ~Some(m, "pending")
      /\ mailing' = [mailing EXCEPT ![m] = row]
      /\ UNCHANGED <<day, letter, request, edits, launched, crossed>>
  BY DEF CompleteMailing
<1>2. mailing[m] \in Row
  BY MailingsTyped
<1>3. /\ row \in Row /\ row.status = "completed" /\ row.at = mailing[m].at
      /\ row.text = mailing[m].text /\ row.toFamilies = mailing[m].toFamilies
  BY <1>2 DEF Row
<1> HIDE DEF row
<1>4. /\ mailing' \in [Mailings -> Row] /\ mailing'[m] = row
      /\ \A n \in Mailings : n # m => mailing'[n] = mailing[n]
  BY <1>1, <1>3, MailingsTyped
<1>5. ASSUME NEW n \in Mailings PROVE MailingFits(n)'
  <2>0. MailingFits(n)
    BY MailingsTyped
  <2>1. CASE n # m
    BY <1>1, <1>4, <2>0, <2>1 DEF MailingFits, Some
  <2>2. CASE n = m
    BY <1>1, <1>3, <1>4, <2>0, <2>2 DEF MailingFits, Some
  <2> QED BY <2>1, <2>2
<1>6. ASSUME NEW n \in Counting' PROVE n \in Counting
  <2>1. CASE n # m
    BY <1>1, <1>4, <2>1 DEF Counting, Some
  <2>2. CASE n = m
    BY <1>1, <2>2 DEF Counting
  <2> QED BY <2>1, <2>2
<1>7. \A n \in Mailings : mailing'[n].text = mailing[n].text
  BY <1>3, <1>4
<1> QED BY <1>1, <1>4, <1>5, <1>6, <1>7, MailingsTyped, MailKeeps

LEMMA MailDayPassesKeeps ==
    ASSUME MailingsIInv, MailDayPasses
    PROVE  MailingsIInv'
<1>1. /\ day < LastMailDay /\ day' = day + 1
      /\ UNCHANGED <<mailing, letter, request, edits, launched, crossed>>
  BY DEF MailDayPasses
<1>2. day \in Nat /\ day' \in 1..LastMailDay
  BY <1>1, MailingsTyped, NumbersAreNaturals
<1>3. ASSUME NEW m \in Mailings PROVE MailingFits(m)'
  <2>1. MailingFits(m)
    BY MailingsTyped
  <2> QED BY <1>1, <2>1 DEF MailingFits, Some
<1>4. ASSUME NEW m \in Counting' PROVE m \in Counting
  <2>0. /\ m \in Mailings /\ m \notin crossed' /\ launched'[m].on > 0
        /\ day' - launched'[m].on <= LimitDays
        /\ mailing'[m].status = "cancelled" => Some(m, "sent")'
    BY DEF Counting
  <2>1. /\ m \in Mailings /\ m \notin crossed /\ launched[m].on > 0
        /\ mailing[m].status = "cancelled" => Some(m, "sent")
        /\ day' - launched[m].on <= LimitDays
    BY <1>1, <2>0 DEF Some
  <2>2. launched[m].on \in Nat /\ LimitDays \in Nat
    BY <2>1, MailingsTyped, NumbersAreNaturals
  <2>3. day - launched[m].on <= LimitDays
    BY <1>1, <1>2, <2>1, <2>2
  <2> QED BY <2>1, <2>3 DEF Counting
<1> QED BY <1>1, <1>2, <1>3, <1>4, MailingsTyped, MailKeeps

LEMMA MailingsStutters ==
    ASSUME MailingsIInv, UNCHANGED mailingVars
    PROVE  MailingsIInv'
<1>1. UNCHANGED <<day, mailing, letter, request, edits, launched, crossed>>
  BY DEF mailingVars
<1>2. (\A m \in Mailings : MailingFits(m)') /\ Counting' = Counting
  BY <1>1, SameMailings
<1> QED BY <1>1, <1>2, MailingsTyped, MailKeeps

\* A dojo's families get mail of no more mailings in a month than it may launch,
\* and what goes out is what was launched, though neither the count nor the
\* launch is locked: the only exceptions are mailings whose requests crossed
\* (dojo_views.launch, services.dojo_launches).
THEOREM FamiliesAreSpared == MailingsSpec => []MailingsInv
<1>1. MailingsIInv /\ [MailingsNext]_mailingVars => MailingsIInv'
  <2> SUFFICES ASSUME MailingsIInv, [MailingsNext]_mailingVars PROVE MailingsIInv'
    OBVIOUS
  <2>1. CASE \E m \in Mailings, f \in BOOLEAN : Create(m, f)
    BY <2>1, CreateKeeps
  <2>2. CASE \E p \in TeamRequests :
               \/ \E m \in Mailings : LoadMailing(p, m)
               \/ \E f \in BOOLEAN : SaveDraft(p, f)
               \/ DeleteDraft(p) \/ CheckLaunch(p) \/ SaveLaunch(p) \/ StopMailing(p) \/ EndRequest(p)
    BY <2>2, LoadMailingKeeps, SaveDraftKeeps, DeleteDraftKeeps, CheckLaunchKeeps,
       SaveLaunchKeeps, StopMailingKeeps, EndRequestKeeps
  <2>3. CASE \E m \in Mailings : CompleteMailing(m)
    BY <2>3, CompleteMailingKeeps
  <2>4. CASE \E m \in Mailings, u \in Readers : QueueLetter(m, u) \/ LetterMoves(m, u)
    BY <2>4, QueueLetterKeeps, LetterMovesKeeps
  <2>5. CASE MailDayPasses
    BY <2>5, MailDayPassesKeeps
  <2>6. CASE UNCHANGED mailingVars
    BY <2>6, MailingsStutters
  <2> QED BY <2>1, <2>2, <2>3, <2>4, <2>5, <2>6 DEF MailingsNext
<1> QED BY <1>1, MailingsInitOK, MailingsIInvImplies, PTL DEF MailingsSpec
=============================================================================

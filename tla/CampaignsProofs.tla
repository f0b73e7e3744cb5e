--------------------------- MODULE CampaignsProofs ---------------------------
(***************************************************************************)
(* For any audience, chunk size, number of overlapping runs, pages and     *)
(* crashes: what a campaign keeps.  Nothing is assumed of the lock in the  *)
(* cache, which may be dropped at any time: that nobody is skipped or      *)
(* mailed twice rests on the cursor and on the mails' keys.                *)
(***************************************************************************)
EXTENDS Campaigns, FiniteSetTheorems, TLAPS

TaskRecord ==
    [step : {"free", "message", "locked", "queueing", "withdraw", "release", "handOn"},
     cursor : 0..AudienceSize, todo : SUBSET Accounts, next : 0..AudienceSize,
     finished : BOOLEAN]

\* What a run that queues its chunk still has to queue: everyone up to the
\* end of the chunk has a mail but the ones on its list, and a chunk that is
\* the last one ends where the audience ends.
ChunkIsTheRest ==
    \A t \in Tasks : task[t].step = "queueing" =>
        /\ \A u \in Accounts : u <= task[t].next => u \in task[t].todo \/ rows[u] = 1
        /\ task[t].finished => task[t].next = AudienceSize

CompletedWasQueued == status = "completed" => queuedAt

\* The mails of a cancelled campaign that still wait have a run that will
\* withdraw them.
SomeoneWithdraws ==
    status = "cancelled" /\ crashes = 0 /\ (\E u \in Accounts : mail[u] = "pending")
        => \E t \in Tasks : task[t].step \in {"queueing", "withdraw"}

CampaignIInv ==
    /\ TypeOK
    /\ NobodyIsSkipped /\ ChunkIsTheRest
    /\ CompletedWasQueued /\ CompletedMeansAllOut
    /\ SomeoneWithdraws

-----------------------------------------------------------------------------
(* The runs' slots, and the chunks *)

LEMMA SlotRecords ==
    /\ FreeTask \in TaskRecord
    /\ \A cursor \in 0..AudienceSize :
          /\ Message(cursor) \in TaskRecord
          /\ Message(cursor).step = "message" /\ Message(cursor).cursor = cursor
BY ConstantsAssumption DEF FreeTask, Message, TaskRecord

LEMMA OneSlot ==
    ASSUME TypeOK, NEW t \in Tasks, NEW s \in TaskRecord, task' = [task EXCEPT ![t] = s]
    PROVE  /\ task' \in [Tasks -> TaskRecord]
           /\ task'[t] = s /\ \A o \in Tasks : o # t => task'[o] = task[o]
BY DEF TypeOK, TaskRecord

\* queue_chunk's list: where it ends, and that a chunk that is not full ends
\* where the audience does.
LEMMA ChunkEnds ==
    ASSUME NEW cursor \in 0..AudienceSize
    PROVE  LET next == Max({cursor} \cup Chunk(cursor))
           IN  /\ next \in 0..AudienceSize
               /\ \A u \in Accounts : u <= next => u <= cursor \/ u \in Chunk(cursor)
               /\ Cardinality(Chunk(cursor)) < ChunkSize => next = AudienceSize
<1> DEFINE chunk == Chunk(cursor)
           next == Max({cursor} \cup chunk)
           end == IF cursor + ChunkSize <= AudienceSize THEN cursor + ChunkSize ELSE AudienceSize
<1>0. /\ AudienceSize \in Nat /\ ChunkSize \in Nat /\ ChunkSize > 0
      /\ cursor \in Nat /\ cursor <= AudienceSize
      /\ end \in Nat /\ cursor <= end /\ end <= AudienceSize
  BY ConstantsAssumption
<1>1. chunk = (cursor + 1)..end
  BY <1>0 DEF Chunk, Accounts
<1>2. end \in {cursor} \cup chunk /\ \A u \in {cursor} \cup chunk : u <= end
  BY <1>0, <1>1
<1>3. next = end
  <2>1. \E x \in {cursor} \cup chunk : \A u \in {cursor} \cup chunk : x >= u
    BY <1>0, <1>1, <1>2
  <2>2. next \in {cursor} \cup chunk /\ \A u \in {cursor} \cup chunk : next >= u
    BY <2>1 DEF Max
  <2>3. next \in Int
    BY <1>0, <1>1, <2>2
  <2> QED BY <1>0, <1>2, <2>2, <2>3
<1>4. Cardinality(chunk) < ChunkSize => end = AudienceSize
  <2>1. Cardinality(chunk) = IF cursor + 1 > end THEN 0 ELSE end - (cursor + 1) + 1
    <3> HIDE DEF end
    <3>1. cursor + 1 \in Int /\ end \in Int
      BY <1>0
    <3>2. Cardinality((cursor + 1)..end) = IF cursor + 1 > end THEN 0 ELSE end - (cursor + 1) + 1
      BY <3>1, FS_Interval
    <3> QED BY <1>1, <3>2
  <2> QED BY <1>0, <2>1
<1> HIDE DEF end
<1>5. \A u \in Accounts : u <= end => u <= cursor \/ u \in chunk
  BY <1>0, <1>1 DEF Accounts
<1> QED BY <1>0, <1>3, <1>4, <1>5

-----------------------------------------------------------------------------
(* What a step leaves as it is *)

\* Steps that move no cursor, and take no mail away.
LEMMA NobodyGetsSkipped ==
    ASSUME NobodyIsSkipped, UNCHANGED <<queuedUpTo, queuedAt>>,
           \A u \in Accounts : rows[u] = 1 => rows'[u] = 1
    PROVE  NobodyIsSkipped'
BY DEF NobodyIsSkipped, Accounts

LEMMA InitCampaign == Init => CampaignIInv
<1> SUFFICES ASSUME Init PROVE CampaignIInv
  OBVIOUS
<1>1. TypeOK
  <2>1. task \in [Tasks -> TaskRecord]
    BY SlotRecords DEF Init
  <2>2. 0 \in 0..AudienceSize /\ 0 \in 0..MaxCrashes
    BY ConstantsAssumption
  <2>3. /\ rows \in [Accounts -> 0..1]
        /\ mail \in [Accounts -> {"none", "pending", "claimed", "out", "withdrawn"}]
        /\ page \in [Pages -> {"idle", "launch", "cancel"}]
    BY DEF Init
  <2> QED BY <2>1, <2>2, <2>3 DEF Init, TypeOK, Status, TaskRecord
<1>2. NobodyIsSkipped
  BY DEF Init, NobodyIsSkipped, Accounts
<1>3. ChunkIsTheRest
  BY DEF Init, ChunkIsTheRest, FreeTask
<1>4. CompletedWasQueued /\ CompletedMeansAllOut /\ SomeoneWithdraws
  BY DEF Init, CompletedWasQueued, CompletedMeansAllOut, SomeoneWithdraws
<1> QED BY <1>1, <1>2, <1>3, <1>4 DEF CampaignIInv

\* The pages: they touch no run, no mail's row and no cursor.
LEMMA PageSteps ==
    ASSUME CampaignIInv, NEW p \in Pages,
           LoadToLaunch(p) \/ SaveLaunch(p) \/ LoadToCancel(p) \/ SaveCancel(p)
    PROVE  CampaignIInv'
<1> USE DEF CampaignIInv
<1>0. UNCHANGED <<queuedUpTo, queuedAt, rows, task, crashes>>
  BY DEF LoadToLaunch, SaveLaunch, LoadToCancel, SaveCancel
<1>1. TypeOK'
  BY DEF LoadToLaunch, SaveLaunch, LoadToCancel, SaveCancel, WithdrawPending, TypeOK, Status
<1>2. NobodyIsSkipped' /\ ChunkIsTheRest'
  BY <1>0, NobodyGetsSkipped DEF ChunkIsTheRest
<1>3. CompletedWasQueued' /\ CompletedMeansAllOut'
  BY <1>0 DEF LoadToLaunch, SaveLaunch, LoadToCancel, SaveCancel, CompletedWasQueued, CompletedMeansAllOut
<1>4. SomeoneWithdraws'
  <2>1. CASE LoadToLaunch(p) \/ LoadToCancel(p)
    BY <1>0, <2>1 DEF LoadToLaunch, LoadToCancel, SomeoneWithdraws
  <2>2. CASE SaveLaunch(p)
    BY <2>2 DEF SaveLaunch, SomeoneWithdraws
  <2>3. CASE SaveCancel(p)
    <3>1. \A u \in Accounts : mail'[u] # "pending"
      BY <2>3 DEF SaveCancel, WithdrawPending
    <3> QED BY <3>1 DEF SomeoneWithdraws
  <2> QED BY <2>1, <2>2, <2>3
<1> QED BY <1>1, <1>2, <1>3, <1>4

\* Steps of a run that touch neither mail nor cursor: the run may not stop
\* before it has withdrawn what it has to.
LEMMA QuietSteps ==
    ASSUME CampaignIInv, TypeOK', NEW t \in Tasks, NEW s \in TaskRecord,
           task' = [task EXCEPT ![t] = s], s.step # "queueing",
           UNCHANGED <<queuedUpTo, queuedAt, rows, mail>>,
           \/ status' = status
           \/ status' \notin {"completed", "cancelled"},
           \/ crashes' = crashes /\ task[t].step \notin {"queueing", "withdraw"}
           \/ crashes' > 0
    PROVE  CampaignIInv'
<1> USE DEF CampaignIInv
<1>0. task'[t] = s /\ \A o \in Tasks : o # t => task'[o] = task[o]
  BY OneSlot
<1>1. NobodyIsSkipped'
  BY NobodyGetsSkipped
<1>2. ChunkIsTheRest'
  BY <1>0 DEF ChunkIsTheRest
<1>3. CompletedWasQueued' /\ CompletedMeansAllOut'
  BY DEF CompletedWasQueued, CompletedMeansAllOut
<1>4. SomeoneWithdraws'
  BY <1>0 DEF SomeoneWithdraws
<1> QED BY <1>1, <1>2, <1>3, <1>4

-----------------------------------------------------------------------------
(* The steps of a run *)

LEMMA StartDueStep ==
    ASSUME CampaignIInv, NEW t \in Tasks, StartDue(t)
    PROVE  CampaignIInv'
<1>1. PICK s \in TaskRecord : task' = [task EXCEPT ![t] = s] /\ s.step = "message"
  BY SlotRecords DEF StartDue, CampaignIInv, TypeOK
<1>2. TypeOK'
  BY <1>1, OneSlot DEF StartDue, CampaignIInv, TypeOK, TaskRecord
<1>3. task[t].step = "free"
  BY DEF StartDue, FreeTask
<1>4. UNCHANGED <<status, queuedUpTo, queuedAt, rows, mail, crashes>>
  BY DEF StartDue
<1> QED BY <1>1, <1>2, <1>3, <1>4, QuietSteps

LEMMA TakeLockStep ==
    ASSUME CampaignIInv, NEW t \in Tasks, TakeLock(t)
    PROVE  CampaignIInv'
<1>1. PICK s \in TaskRecord : task' = [task EXCEPT ![t] = s] /\ s.step # "queueing"
  <2>1. CASE lock = NoTask
    <3> DEFINE s == [task[t] EXCEPT !.step = "locked"]
    <3>1. task' = [task EXCEPT ![t] = s]
      BY <2>1 DEF TakeLock
    <3>2. s \in TaskRecord /\ s.step = "locked"
      BY DEF CampaignIInv, TypeOK, TaskRecord
    <3> QED BY <3>1, <3>2
  <2>2. CASE lock # NoTask
    <3>1. FreeTask.step # "queueing"
      BY DEF FreeTask
    <3> QED BY <2>2, <3>1, SlotRecords DEF TakeLock
  <2> QED BY <2>1, <2>2
<1>2. TypeOK'
  BY <1>1, OneSlot DEF TakeLock, CampaignIInv, TypeOK, TaskRecord
<1> QED BY <1>1, <1>2, QuietSteps DEF TakeLock

\* A run starts its chunk where the cursor is, so behind the cursor there is
\* nobody left to queue.
LEMMA StartChunkStep ==
    ASSUME CampaignIInv, NEW t \in Tasks, StartChunk(t)
    PROVE  CampaignIInv'
<1> DEFINE now == IF status = "queued" THEN "sending" ELSE status
           ends == now # "sending" \/ queuedAt \/ queuedUpTo # task[t].cursor
           cursor == task[t].cursor
           chunk == Chunk(cursor)
           queueing == [step |-> "queueing", cursor |-> cursor,
                        todo |-> {u \in chunk : rows[u] = 0},
                        next |-> Max({cursor} \cup chunk),
                        finished |-> Cardinality(chunk) < ChunkSize]
<1>0. task[t] \in TaskRecord /\ cursor \in 0..AudienceSize /\ now \in Status
  BY DEF CampaignIInv, TypeOK, TaskRecord, Status
<1>1. /\ task[t].step = "locked" /\ status' = now
      /\ UNCHANGED <<queuedUpTo, queuedAt, rows, mail, lock, page, crashes>>
  BY DEF StartChunk
<1>2. CASE ends
  <2> DEFINE s == [task[t] EXCEPT !.step = "release", !.finished = TRUE]
  <2>1. task' = [task EXCEPT ![t] = s]
    BY <1>2 DEF StartChunk
  <2>2. s \in TaskRecord /\ s.step = "release"
    BY <1>0 DEF TaskRecord
  <2>3. TypeOK'
    BY <1>0, <1>1, <2>1, <2>2, OneSlot DEF CampaignIInv, TypeOK, TaskRecord
  <2> HIDE DEF s
  <2> QED BY <1>1, <2>1, <2>2, <2>3, QuietSteps
<1>3. CASE ~ends
  <2>1. task' = [task EXCEPT ![t] = queueing]
    BY <1>3 DEF StartChunk
  <2>2. /\ Max({cursor} \cup chunk) \in 0..AudienceSize
        /\ \A u \in Accounts : u <= Max({cursor} \cup chunk) => u <= cursor \/ u \in chunk
        /\ Cardinality(chunk) < ChunkSize => Max({cursor} \cup chunk) = AudienceSize
    BY <1>0, ChunkEnds
  <2>3. queueing \in TaskRecord
    <3>1. {u \in chunk : rows[u] = 0} \in SUBSET Accounts /\ (Cardinality(chunk) < ChunkSize) \in BOOLEAN
      BY DEF Chunk
    <3> QED BY <1>0, <2>2, <3>1 DEF TaskRecord
  <2>4. task' \in [Tasks -> TaskRecord] /\ task'[t] = queueing
        /\ \A o \in Tasks : o # t => task'[o] = task[o]
    BY <2>1, <2>3, OneSlot DEF CampaignIInv
  <2>5. TypeOK'
    BY <1>0, <1>1, <2>4 DEF CampaignIInv, TypeOK, TaskRecord
  <2>6. NobodyIsSkipped'
    BY <1>1, NobodyGetsSkipped DEF CampaignIInv
  <2>7. ChunkIsTheRest'
    <3>1. \A u \in Accounts : u <= cursor => rows[u] = 1
      BY <1>3 DEF CampaignIInv, NobodyIsSkipped
    <3>2. \A u \in chunk : rows[u] = 0 \/ rows[u] = 1
      BY DEF CampaignIInv, TypeOK, Chunk
    <3>3. \A u \in Accounts : u <= queueing.next => u \in queueing.todo \/ rows[u] = 1
      BY <2>2, <3>1, <3>2
    <3>4. queueing.finished => queueing.next = AudienceSize
      BY <2>2
    <3> HIDE DEF queueing
    <3>5. ASSUME NEW o \in Tasks, task'[o].step = "queueing"
          PROVE  /\ \A u \in Accounts : u <= task'[o].next => u \in task'[o].todo \/ rows'[u] = 1
                 /\ task'[o].finished => task'[o].next = AudienceSize
      <4>1. CASE o = t
        BY <1>1, <2>4, <3>3, <3>4, <4>1
      <4>2. CASE o # t
        BY <1>1, <2>4, <3>5, <4>2 DEF CampaignIInv, ChunkIsTheRest
      <4> QED BY <4>1, <4>2
    <3> QED BY <3>5 DEF ChunkIsTheRest
  <2>8. status' = "sending"
    BY <1>1, <1>3
  <2> QED BY <2>5, <2>6, <2>7, <2>8
          DEF CampaignIInv, CompletedWasQueued, CompletedMeansAllOut, SomeoneWithdraws
<1> QED BY <1>2, <1>3

\* The mail's key makes that an account has one mail at most, also when two
\* runs queue the same chunk.
LEMMA QueueNextStep ==
    ASSUME CampaignIInv, NEW t \in Tasks, QueueNext(t)
    PROVE  CampaignIInv'
<1> DEFINE u == Min(task[t].todo)
           s == [task[t] EXCEPT !.todo = @ \ {u}]
<1>0. task[t] \in TaskRecord /\ rows \in [Accounts -> 0..1]
  BY DEF CampaignIInv, TypeOK, TaskRecord
<1>1. /\ task[t].step = "queueing"
      /\ rows' = [rows EXCEPT ![u] = IF HasNoMail(u) THEN @ + 1 ELSE @]
      /\ mail' = [mail EXCEPT ![u] = IF HasNoMail(u) THEN "pending" ELSE @]
      /\ task' = [task EXCEPT ![t] = s]
      /\ UNCHANGED <<status, queuedUpTo, queuedAt, lock, page, crashes>>
  BY DEF QueueNext
<1> HIDE DEF u
<1>2. /\ s \in TaskRecord /\ s.step = "queueing" /\ s.todo = task[t].todo \ {u}
      /\ s.next = task[t].next /\ s.finished = task[t].finished
  BY <1>0, <1>1 DEF TaskRecord
<1> HIDE DEF s
<1>3. task' \in [Tasks -> TaskRecord] /\ task'[t] = s /\ \A o \in Tasks : o # t => task'[o] = task[o]
  BY <1>1, <1>2, OneSlot DEF CampaignIInv
<1>4. /\ rows' \in [Accounts -> 0..1]
      /\ \A v \in Accounts : v = u \/ rows[v] = 1 => rows'[v] = 1
      /\ mail' \in [Accounts -> {"none", "pending", "claimed", "out", "withdrawn"}]
      /\ \A v \in Accounts : rows[v] = 1 => mail'[v] = mail[v]
  <2>0. mail \in [Accounts -> {"none", "pending", "claimed", "out", "withdrawn"}]
    BY DEF CampaignIInv, TypeOK
  <2>1. CASE u \notin Accounts
    BY <1>0, <1>1, <2>0, <2>1
  <2>2. CASE u \in Accounts /\ rows[u] = 0
    <3>1. rows' = [rows EXCEPT ![u] = 1] /\ mail' = [mail EXCEPT ![u] = "pending"]
      BY <1>1, <2>2 DEF HasNoMail
    <3> QED BY <1>0, <2>0, <2>2, <3>1
  <2>3. CASE u \in Accounts /\ rows[u] # 0
    <3>1. rows' = rows /\ mail' = mail
      BY <1>0, <1>1, <2>0, <2>3 DEF HasNoMail
    <3>2. rows[u] = 1
      BY <1>0, <2>3
    <3> QED BY <1>0, <2>0, <3>1, <3>2
  <2> QED BY <2>1, <2>2, <2>3
<1>5. TypeOK'
  BY <1>1, <1>3, <1>4 DEF CampaignIInv, TypeOK, TaskRecord
<1>6. NobodyIsSkipped'
  BY <1>1, <1>4, NobodyGetsSkipped DEF CampaignIInv
<1>7. ChunkIsTheRest'
  <2>1. \A o \in Tasks : task'[o].step = "queueing" =>
          /\ task[o].step = "queueing" /\ task'[o].next = task[o].next
          /\ task'[o].finished = task[o].finished
          /\ \A v \in Accounts : v \in task[o].todo => v \in task'[o].todo \/ v = u
    BY <1>1, <1>2, <1>3
  <2> QED BY <1>4, <2>1 DEF CampaignIInv, ChunkIsTheRest
<1>8. CompletedWasQueued' /\ CompletedMeansAllOut'
  BY <1>1, <1>4 DEF CampaignIInv, CompletedWasQueued, CompletedMeansAllOut
<1>9. SomeoneWithdraws'
  BY <1>2, <1>3 DEF SomeoneWithdraws
<1> QED BY <1>5, <1>6, <1>7, <1>8, <1>9 DEF CampaignIInv

\* The cursor moves to where the chunk ended.
LEMMA MoveCursorStep ==
    ASSUME CampaignIInv, NEW t \in Tasks, MoveCursor(t)
    PROVE  CampaignIInv'
<1>0. task[t] \in TaskRecord /\ task[t].step = "queueing" /\ task[t].todo = {}
      /\ UNCHANGED <<status, rows, mail, page, crashes>>
  BY DEF MoveCursor, CampaignIInv, TypeOK, TaskRecord
<1>1. /\ \A u \in Accounts : u <= task[t].next => rows[u] = 1
      /\ task[t].finished => task[t].next = AudienceSize
  BY <1>0 DEF CampaignIInv, ChunkIsTheRest
<1>2. CASE status = "sending"
  <2> DEFINE s == [task[t] EXCEPT !.step = "release"]
  <2>1. /\ task' = [task EXCEPT ![t] = s]
        /\ queuedUpTo' = task[t].next /\ queuedAt' = (queuedAt \/ task[t].finished)
    BY <1>2 DEF MoveCursor
  <2>2. s \in TaskRecord /\ s.step = "release"
    BY <1>0 DEF TaskRecord
  <2> HIDE DEF s
  <2>3. task' \in [Tasks -> TaskRecord] /\ task'[t] = s /\ \A o \in Tasks : o # t => task'[o] = task[o]
    BY <2>1, <2>2, OneSlot DEF CampaignIInv
  <2>4. queuedUpTo' \in 0..AudienceSize /\ queuedAt' \in BOOLEAN
    BY <1>0, <2>1 DEF TaskRecord
  <2>5. TypeOK'
    BY <1>0, <2>3, <2>4 DEF MoveCursor, CampaignIInv, TypeOK, TaskRecord
  <2>6. NobodyIsSkipped'
    <3>1. \A u \in Accounts : u <= queuedUpTo' => rows'[u] = 1
      BY <1>0, <1>1, <2>1
    <3>2. ASSUME queuedAt' PROVE \A u \in Accounts : rows'[u] = 1
      <4>1. CASE queuedAt
        BY <1>0, <4>1 DEF CampaignIInv, NobodyIsSkipped
      <4>2. CASE ~queuedAt
        <5>1. task[t].finished
          BY <2>1, <3>2, <4>2
        <5>2. \A u \in Accounts : u <= task[t].next
          BY <1>1, <5>1, ConstantsAssumption DEF Accounts
        <5> QED BY <1>0, <1>1, <5>2
      <4> QED BY <4>1, <4>2
    <3> QED BY <3>1, <3>2 DEF NobodyIsSkipped
  <2>7. ChunkIsTheRest'
    BY <1>0, <2>2, <2>3 DEF CampaignIInv, ChunkIsTheRest
  <2> QED BY <1>0, <1>2, <2>5, <2>6, <2>7
          DEF CampaignIInv, CompletedWasQueued, CompletedMeansAllOut, SomeoneWithdraws
<1>3. CASE status # "sending"
  <2> DEFINE s == [task[t] EXCEPT !.step = "withdraw", !.finished = TRUE]
  <2>1. task' = [task EXCEPT ![t] = s] /\ UNCHANGED <<queuedUpTo, queuedAt>>
    BY <1>0, <1>3 DEF MoveCursor, AfterNoUpdate, CampaignIInv, TypeOK
  <2>2. s \in TaskRecord /\ s.step = "withdraw"
    BY <1>0 DEF TaskRecord
  <2> HIDE DEF s
  <2>3. task' \in [Tasks -> TaskRecord] /\ task'[t] = s /\ \A o \in Tasks : o # t => task'[o] = task[o]
    BY <2>1, <2>2, OneSlot DEF CampaignIInv
  <2>4. TypeOK'
    BY <1>0, <2>1, <2>3 DEF MoveCursor, CampaignIInv, TypeOK, TaskRecord
  <2>5. NobodyIsSkipped'
    BY <1>0, <2>1, NobodyGetsSkipped DEF CampaignIInv
  <2>6. ChunkIsTheRest'
    BY <1>0, <2>2, <2>3 DEF CampaignIInv, ChunkIsTheRest
  <2>7. CompletedWasQueued' /\ CompletedMeansAllOut'
    BY <1>0, <2>1 DEF CampaignIInv, CompletedWasQueued, CompletedMeansAllOut
  <2>8. SomeoneWithdraws'
    BY <2>2, <2>3 DEF SomeoneWithdraws
  <2> QED BY <2>4, <2>5, <2>6, <2>7, <2>8 DEF CampaignIInv
<1> QED BY <1>2, <1>3

LEMMA WithdrawChunkStep ==
    ASSUME CampaignIInv, NEW t \in Tasks, WithdrawChunk(t)
    PROVE  CampaignIInv'
<1> DEFINE s == [task[t] EXCEPT !.step = "release"]
<1>1. /\ task' = [task EXCEPT ![t] = s]
      /\ UNCHANGED <<status, queuedUpTo, queuedAt, rows, lock, page, crashes>>
  BY DEF WithdrawChunk
<1>2. s \in TaskRecord /\ s.step = "release"
  BY DEF CampaignIInv, TypeOK, TaskRecord
<1> HIDE DEF s
<1>3. task' \in [Tasks -> TaskRecord] /\ task'[t] = s /\ \A o \in Tasks : o # t => task'[o] = task[o]
  BY <1>1, <1>2, OneSlot DEF CampaignIInv
<1>4. /\ mail' \in [Accounts -> {"none", "pending", "claimed", "out", "withdrawn"}]
      /\ \A u \in Accounts : mail'[u] # "pending" /\ (mail'[u] = mail[u] \/ mail'[u] = "withdrawn")
  BY DEF WithdrawChunk, WithdrawPending, CampaignIInv, TypeOK
<1>5. TypeOK'
  BY <1>1, <1>3, <1>4 DEF CampaignIInv, TypeOK, TaskRecord
<1>6. NobodyIsSkipped' /\ ChunkIsTheRest'
  BY <1>1, <1>2, <1>3, NobodyGetsSkipped DEF CampaignIInv, ChunkIsTheRest
<1>7. CompletedWasQueued' /\ CompletedMeansAllOut'
  BY <1>1, <1>4 DEF CampaignIInv, CompletedWasQueued, CompletedMeansAllOut
<1>8. SomeoneWithdraws'
  BY <1>4 DEF SomeoneWithdraws
<1> QED BY <1>5, <1>6, <1>7, <1>8 DEF CampaignIInv

LEMMA ReleaseAndHandOnSteps ==
    ASSUME CampaignIInv, NEW t \in Tasks, ReleaseLock(t) \/ HandOn(t)
    PROVE  CampaignIInv'
<1>0. task[t] \in TaskRecord /\ task[t].step \in {"release", "handOn"}
      /\ lock' \in Tasks \cup {NoTask}
      /\ UNCHANGED <<status, queuedUpTo, queuedAt, rows, mail, page, crashes>>
  BY DEF ReleaseLock, HandOn, CampaignIInv, TypeOK, TaskRecord
<1>1. PICK s \in TaskRecord : task' = [task EXCEPT ![t] = s] /\ s.step # "queueing"
  <2>1. FreeTask \in TaskRecord /\ FreeTask.step # "queueing"
    BY SlotRecords DEF FreeTask
  <2>2. [task[t] EXCEPT !.step = "handOn"] \in TaskRecord
        /\ [task[t] EXCEPT !.step = "handOn"].step # "queueing"
    BY <1>0 DEF TaskRecord
  <2>3. Message(task[t].next) \in TaskRecord /\ Message(task[t].next).step # "queueing"
    BY <1>0, SlotRecords DEF TaskRecord
  <2>4. \/ task' = [task EXCEPT ![t] = FreeTask]
        \/ task' = [task EXCEPT ![t] = [task[t] EXCEPT !.step = "handOn"]]
        \/ task' = [task EXCEPT ![t] = Message(task[t].next)]
    BY DEF ReleaseLock, HandOn
  <2> QED BY <2>1, <2>2, <2>3, <2>4
<1>2. TypeOK'
  BY <1>0, <1>1, OneSlot DEF CampaignIInv, TypeOK, TaskRecord
<1> QED BY <1>0, <1>1, <1>2, QuietSteps

LEMMA WorkerDiesStep ==
    ASSUME CampaignIInv, NEW t \in Tasks, WorkerDies(t)
    PROVE  CampaignIInv'
<1>0. task[t].cursor \in 0..AudienceSize
  BY DEF CampaignIInv, TypeOK
<1>1. PICK s \in TaskRecord : task' = [task EXCEPT ![t] = s] /\ s.step # "queueing"
  BY <1>0, SlotRecords DEF WorkerDies
<1>2. crashes' \in 0..MaxCrashes /\ crashes' > 0
  BY ConstantsAssumption DEF WorkerDies, CampaignIInv, TypeOK
<1>3. TypeOK'
  BY <1>1, <1>2, OneSlot DEF WorkerDies, CampaignIInv, TypeOK, TaskRecord
<1> QED BY <1>1, <1>2, <1>3, QuietSteps DEF WorkerDies

-----------------------------------------------------------------------------
(* What happens around the runs, and the theorems *)

LEMMA MailAndTimeSteps ==
    ASSUME CampaignIInv,
           \/ Complete \/ LockExpires
           \/ \E u \in Accounts : MailMoves(u) \/ MailRequeued(u)
           \/ UNCHANGED vars
    PROVE  CampaignIInv'
<1> USE DEF CampaignIInv
<1>0. UNCHANGED <<queuedUpTo, queuedAt, rows, task>>
  BY DEF Complete, LockExpires, MailMoves, MailRequeued, vars
<1>1. NobodyIsSkipped' /\ ChunkIsTheRest'
  BY <1>0, NobodyGetsSkipped DEF ChunkIsTheRest
<1>2. CASE Complete
  <2>1. TypeOK' /\ CompletedWasQueued' /\ SomeoneWithdraws'
    BY <1>2 DEF Complete, AllOut, TypeOK, Status, CompletedWasQueued, SomeoneWithdraws
  <2>2. CompletedMeansAllOut'
    BY <1>2 DEF Complete, AllOut, NobodyIsSkipped, CompletedMeansAllOut
  <2> QED BY <1>1, <2>1, <2>2
<1>3. CASE LockExpires \/ UNCHANGED vars
  <2>1. TypeOK'
    BY <1>3 DEF LockExpires, vars, TypeOK
  <2>2. CompletedWasQueued' /\ CompletedMeansAllOut' /\ SomeoneWithdraws'
    BY <1>3 DEF LockExpires, vars, CompletedWasQueued, CompletedMeansAllOut, SomeoneWithdraws
  <2> QED BY <1>1, <2>1, <2>2
<1>4. ASSUME NEW u \in Accounts, MailMoves(u) \/ MailRequeued(u) PROVE CampaignIInv'
  <2>1. TypeOK'
    <3>1. mail' \in [Accounts -> {"none", "pending", "claimed", "out", "withdrawn"}]
      BY <1>4 DEF MailMoves, MailRequeued, TypeOK
    <3>2. crashes' \in 0..MaxCrashes
      BY <1>4, ConstantsAssumption DEF MailMoves, MailRequeued, TypeOK
    <3> QED BY <1>4, <3>1, <3>2 DEF MailMoves, MailRequeued, TypeOK
  <2>2. CompletedWasQueued' /\ CompletedMeansAllOut'
    BY <1>0, <1>4 DEF MailMoves, MailRequeued, CompletedWasQueued, CompletedMeansAllOut
  <2>3. SomeoneWithdraws'
    <3>1. CASE MailMoves(u)
      <4>1. \A v \in Accounts : mail'[v] = "pending" => mail[v] = "pending"
        BY <3>1 DEF MailMoves, TypeOK
      <4> QED BY <3>1, <4>1 DEF MailMoves, SomeoneWithdraws
    <3>2. CASE MailRequeued(u)
      <4>1. crashes' # 0
        BY <3>2 DEF MailRequeued, TypeOK
      <4> QED BY <4>1 DEF SomeoneWithdraws
    <3> QED BY <1>4, <3>1, <3>2
  <2> QED BY <1>1, <2>1, <2>2, <2>3
<1> QED BY <1>2, <1>3, <1>4

LEMMA NextCampaign == CampaignIInv /\ [Next]_vars => CampaignIInv'
<1> SUFFICES ASSUME CampaignIInv, [Next]_vars PROVE CampaignIInv'
  OBVIOUS
<1>1. ASSUME NEW t \in Tasks, StartDue(t) \/ TaskStep(t) \/ WorkerDies(t) PROVE CampaignIInv'
  BY <1>1, StartDueStep, TakeLockStep, StartChunkStep, QueueNextStep, MoveCursorStep,
     WithdrawChunkStep, ReleaseAndHandOnSteps, WorkerDiesStep DEF TaskStep
<1> QED BY <1>1, PageSteps, MailAndTimeSteps DEF Next

\* Everyone in the audience has their one mail before the campaign counts as
\* queued or completed, and a cancelled campaign keeps back what still waits,
\* however many runs overlap, whenever the lock is lost, a worker dies or a
\* page saves what it loaded long ago.
THEOREM CampaignsAreKept == Spec => []CampaignInv
<1>1. CampaignIInv => CampaignInv
  BY DEF CampaignIInv, CampaignInv, CancelledMeansWithdrawn, SomeoneWithdraws, NobodyQueues
<1> QED BY <1>1, InitCampaign, NextCampaign, PTL DEF Spec
=============================================================================

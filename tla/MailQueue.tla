------------------------------ MODULE MailQueue ------------------------------
(***************************************************************************)
(* The mail engine (mailing.services, tasks, queue_actions, bounce): rows  *)
(* of EmailMessage queued by web requests, claimed by the dispatcher that  *)
(* beat starts, handed through the Celery broker to the mailing worker in  *)
(* batches, retried, redelivered after a crash, requeued when their claim  *)
(* gets old, and blocked, resent or bounced meanwhile.                     *)
(*                                                                         *)
(* Every statement on the database is a step of its own: none of this runs *)
(* in one transaction but the claim.  All mail goes to one address, since  *)
(* a block concerns one address; mail to an account is checked again       *)
(* right before it is sent, mail to a bare address is not.                 *)
(*                                                                         *)
(* Left out: priorities and send_after (which pending rows a claim takes   *)
(* is left open), consent and account checks other than the address's      *)
(* block, the content of a mail.                                           *)
(***************************************************************************)
EXTENDS Integers, FiniteSets, FiniteSetsExt

CONSTANTS
    Mails,        \* EmailMessage rows
    AccountMails, \* the rows with a user
    Dispatchers,  \* concurrent runs of send_pending_emails
    SenderCount,  \* processes of the mailing worker
    Batches,      \* bound: batches in the broker or running at once
    ClaimLimit,   \* MAILING_CLAIM_LIMIT
    BatchSize,    \* MAILING_BATCH_SIZE
    MaxRetries,   \* send_email_batch's max_retries
    MaxClaims,    \* bound: claims of one row
    MaxFaults,    \* bound: crashes, losses and unanswered sends
    NoMail

ASSUME ConstantsAssumption ==
    /\ IsFiniteSet(Mails) /\ AccountMails \subseteq Mails /\ NoMail \notin Mails
    /\ SenderCount \in Nat \ {0}
    /\ ClaimLimit \in Nat \ {0}
    /\ BatchSize \in Nat \ {0}
    /\ MaxRetries \in Nat /\ MaxClaims \in Nat /\ MaxFaults \in Nat

VARIABLES
    status,      \* EmailMessage.status, or what comes before the row exists
    claims,      \* how often the row was claimed
    old,         \* the rows whose claimed_at is past the timeout
    delivered,   \* how often the mail server accepted the mail
    unrecorded,  \* how often it did and nobody wrote that down
    blocked,     \* whether the address is blocked (EmailSuppression, BlockedDomain)
    withdrawing, \* whether a block() has yet to withdraw the waiting mail
    resending,   \* the rows a retry() checked and has yet to update
    dispatcher,  \* per run of send_pending_emails: what it does next
    batch,       \* per slot: a send_email_batch message and its run
    faults       \* how many faults happened

vars == <<status, claims, old, delivered, unrecorded, blocked, withdrawing,
          resending, dispatcher, batch, faults>>

desk == <<blocked, withdrawing, resending>>
smtp == <<delivered, unrecorded>>

Status == {"none", "checked", "pending", "sending", "sent", "failed", "bounced", "suppressed"}

Sending == {m \in Mails : status[m] = "sending"}
Pending == {m \in Mails : status[m] = "pending"}

IdleDispatcher == [step |-> "idle", room |-> 0, ids |-> {}]

FreeSlot == [state |-> "free", ids |-> {}, retries |-> 0, todo |-> {},
             at |-> NoMail, accepted |-> FALSE]

\* A message of these ids, waiting in the broker.
Message(ids, retries) ==
    [state |-> "queued", ids |-> ids, retries |-> retries, todo |-> {},
     at |-> NoMail, accepted |-> FALSE]

TypeOK ==
    /\ status \in [Mails -> Status]
    /\ claims \in [Mails -> 0..MaxClaims]
    /\ old \subseteq Mails
    /\ delivered \in [Mails -> Nat]
    /\ unrecorded \in [Mails -> Nat]
    /\ blocked \in BOOLEAN /\ withdrawing \in BOOLEAN
    /\ resending \subseteq Mails
    /\ dispatcher \in [Dispatchers ->
            {IdleDispatcher}
            \cup [step : {"claim"}, room : 1..ClaimLimit, ids : {{}}]
            \cup [step : {"publish"}, room : {0}, ids : (SUBSET Mails) \ {{}}]]
    /\ batch \in [Batches ->
            [state : {"free", "queued", "running"}, ids : SUBSET Mails,
             retries : 0..MaxRetries, todo : SUBSET Mails,
             at : Mails \cup {NoMail}, accepted : BOOLEAN]]
    /\ faults \in 0..MaxFaults

Init ==
    /\ status = [m \in Mails |-> "none"]
    /\ claims = [m \in Mails |-> 0]
    /\ old = {}
    /\ delivered = [m \in Mails |-> 0]
    /\ unrecorded = [m \in Mails |-> 0]
    /\ blocked = FALSE /\ withdrawing = FALSE
    /\ resending = {}
    /\ dispatcher = [d \in Dispatchers |-> IdleDispatcher]
    /\ batch = [b \in Batches |-> FreeSlot]
    /\ faults = 0

\* An update of a set of rows.
SetStatus(rows, new) ==
    status' = [m \in Mails |-> IF m \in rows THEN new ELSE status[m]]

-----------------------------------------------------------------------------
(* Web requests: queueing, and the dashboard's queue_actions *)

\* send and send_to_address check the block, then insert the row.
CheckAddress(m) ==
    /\ status[m] = "none"
    /\ SetStatus({m}, IF blocked THEN "suppressed" ELSE "checked")
    /\ UNCHANGED <<claims, old, smtp, desk, dispatcher, batch, faults>>

InsertRow(m) ==
    /\ status[m] = "checked"
    /\ SetStatus({m}, "pending")
    /\ UNCHANGED <<claims, old, smtp, desk, dispatcher, batch, faults>>

\* retry: the problems first, then an update of the row if it is still failed.
CheckRetry(m) ==
    /\ status[m] = "failed" /\ ~blocked /\ m \notin resending
    /\ claims[m] < MaxClaims
    /\ resending' = resending \cup {m}
    /\ UNCHANGED <<status, claims, old, smtp, blocked, withdrawing, dispatcher, batch, faults>>

Retry(m) ==
    /\ m \in resending
    /\ resending' = resending \ {m}
    /\ SetStatus({m} \cap {n \in Mails : status[n] = "failed"}, "pending")
    /\ old' = IF status[m] = "failed" THEN old \ {m} ELSE old
    /\ UNCHANGED <<claims, smtp, blocked, withdrawing, dispatcher, batch, faults>>

\* block and block_domain: the block first, then the mail still waiting.
Block ==
    /\ ~blocked
    /\ blocked' = TRUE /\ withdrawing' = TRUE
    /\ UNCHANGED <<status, claims, old, smtp, resending, dispatcher, batch, faults>>

WithdrawPending ==
    /\ withdrawing
    /\ withdrawing' = FALSE
    /\ SetStatus(Pending, "suppressed")
    /\ UNCHANGED <<claims, old, smtp, blocked, resending, dispatcher, batch, faults>>

Unblock ==
    /\ blocked
    /\ blocked' = FALSE
    /\ UNCHANGED <<status, claims, old, smtp, withdrawing, resending, dispatcher, batch, faults>>

-----------------------------------------------------------------------------
(* send_pending_emails *)

\* Mutant: a run without room claims nothing, but goes on.
AnyRoom(room) == TRUE

HasRoom(room) == room > 0

\* Mutant: only the rows claimed lately count as in flight.
RoomBesideFresh == ClaimLimit - Cardinality(Sending \ old)

Room == ClaimLimit - Cardinality(Sending)

\* _claim_pending counts the rows in flight, which locks nothing.
CountRoom(d) ==
    /\ dispatcher[d].step = "idle"
    /\ HasRoom(Room)
    /\ Pending # {}
    /\ dispatcher' = [dispatcher EXCEPT ![d] = [step |-> "claim", room |-> Room, ids |-> {}]]
    /\ UNCHANGED <<status, claims, old, smtp, desk, batch, faults>>

\* It locks the pending rows it takes, skipping those another run has
\* locked, marks them sending and commits.
Claim(d) ==
    /\ dispatcher[d].step = "claim"
    /\ LET taken == Min({dispatcher[d].room, Cardinality(Pending)})
       IN  \E ids \in kSubset(taken, Pending) :
             /\ \A m \in ids : claims[m] < MaxClaims
             /\ SetStatus(ids, "sending")
             /\ claims' = [m \in Mails |-> claims[m] + (IF m \in ids THEN 1 ELSE 0)]
             /\ old' = old \ ids
             /\ dispatcher' = [dispatcher EXCEPT
                                 ![d] = IF ids = {} THEN IdleDispatcher
                                        ELSE [step |-> "publish", room |-> 0, ids |-> ids]]
    /\ UNCHANGED <<smtp, desk, batch, faults>>

\* Only then are they published, a message for each chunk.
Publish(d) ==
    /\ dispatcher[d].step = "publish"
    /\ \E b \in Batches,
          chunk \in kSubset(Min({BatchSize, Cardinality(dispatcher[d].ids)}), dispatcher[d].ids) :
         /\ batch[b].state = "free"
         /\ batch' = [batch EXCEPT ![b] = Message(chunk, 0)]
         /\ dispatcher' = [dispatcher EXCEPT
                             ![d] = IF dispatcher[d].ids = chunk THEN IdleDispatcher
                                    ELSE [dispatcher[d] EXCEPT !.ids = dispatcher[d].ids \ chunk]]
    /\ UNCHANGED <<status, claims, old, smtp, desk, faults>>

-----------------------------------------------------------------------------
(* send_email_batch *)

Running == {b \in Batches : batch[b].state = "running"}

\* Mutant: the batch mails every row it was given.
AllOf(ids) == ids

\* The rows of a batch it loads: filter(pk__in=ids, status=SENDING).
RowsToSend(ids) == ids \cap Sending

StartBatch(b) ==
    /\ batch[b].state = "queued"
    /\ Cardinality(Running) < SenderCount
    /\ batch' = [batch EXCEPT
                   ![b] = IF RowsToSend(batch[b].ids) = {} THEN FreeSlot
                          ELSE [@ EXCEPT !.state = "running",
                                         !.todo = RowsToSend(batch[b].ids)]]
    /\ UNCHANGED <<status, claims, old, smtp, desk, dispatcher, faults>>

\* The next row: suppressed when its account's address is blocked by now,
\* else the attempt is counted and the mail handed to the server.
NextRow(b, m) ==
    /\ b \in Running /\ batch[b].at = NoMail
    /\ m \in batch[b].todo
    /\ IF m \in AccountMails /\ blocked
       THEN /\ SetStatus({m}, "suppressed")
            /\ batch' = [batch EXCEPT ![b].todo = @ \ {m}]
       ELSE /\ batch' = [batch EXCEPT ![b].at = m]
            /\ UNCHANGED status
    /\ UNCHANGED <<claims, old, smtp, desk, dispatcher, faults>>

\* The server accepts it; the worker does not know yet.
Accept(b) ==
    /\ b \in Running /\ batch[b].at # NoMail /\ ~batch[b].accepted
    /\ delivered' = [delivered EXCEPT ![batch[b].at] = @ + 1]
    /\ batch' = [batch EXCEPT ![b].accepted = TRUE]
    /\ UNCHANGED <<status, claims, old, unrecorded, desk, dispatcher, faults>>

RowDone(b) ==
    batch' = [batch EXCEPT ![b].todo = @ \ {batch[b].at}, ![b].at = NoMail,
                           ![b].accepted = FALSE]

\* An unconditional update by primary key, right after the send.
RecordSent(b) ==
    /\ b \in Running /\ batch[b].accepted
    /\ SetStatus({batch[b].at}, "sent")
    /\ RowDone(b)
    /\ UNCHANGED <<claims, old, smtp, desk, dispatcher, faults>>

\* A permanent error: this row failed.
Refuse(b) ==
    /\ b \in Running /\ batch[b].at # NoMail /\ ~batch[b].accepted
    /\ SetStatus({batch[b].at}, "failed")
    /\ RowDone(b)
    /\ UNCHANGED <<claims, old, smtp, desk, dispatcher, faults>>

\* What the run that stops at this row leaves behind when the server had
\* accepted the mail.
LeaveUnrecorded(b) ==
    unrecorded' = IF batch[b].accepted
                  THEN [unrecorded EXCEPT ![batch[b].at] = @ + 1]
                  ELSE unrecorded

\* on_failure: whatever is still sending failed.
StillSending(ids) == ids \cap Sending

\* Any other error (a connection, a timeout, a 4xx): the batch is retried
\* later with the same ids, until its retries are used up.  An error after
\* the server accepted the mail is an answer that got lost: a fault.
TransientError(b) ==
    /\ b \in Running
    /\ IF batch[b].accepted
       THEN faults < MaxFaults /\ faults' = faults + 1
       ELSE UNCHANGED faults
    /\ LeaveUnrecorded(b)
    /\ IF batch[b].retries < MaxRetries
       THEN /\ batch' = [batch EXCEPT ![b] = Message(batch[b].ids, batch[b].retries + 1)]
            /\ UNCHANGED status
       ELSE /\ batch' = [batch EXCEPT ![b] = FreeSlot]
            /\ SetStatus(StillSending(batch[b].ids), "failed")
    /\ UNCHANGED <<claims, old, delivered, desk, dispatcher>>

\* The run ends, and the message is acknowledged.
FinishBatch(b) ==
    /\ b \in Running /\ batch[b].todo = {}
    /\ batch' = [batch EXCEPT ![b] = FreeSlot]
    /\ UNCHANGED <<status, claims, old, smtp, desk, dispatcher, faults>>

-----------------------------------------------------------------------------
(* Faults, and what repairs them *)

\* The worker dies: the broker hands the message out again, as it was.
WorkerDies(b) ==
    /\ b \in Running /\ faults < MaxFaults
    /\ faults' = faults + 1
    /\ LeaveUnrecorded(b)
    /\ batch' = [batch EXCEPT ![b] = Message(batch[b].ids, batch[b].retries)]
    /\ UNCHANGED <<status, claims, old, delivered, desk, dispatcher>>

\* The message is lost: a flush of Redis, or the time limit kills the run.
BatchLost(b) ==
    /\ batch[b].state # "free" /\ faults < MaxFaults
    /\ \A m \in batch[b].ids : claims[m] < MaxClaims
    /\ faults' = faults + 1
    /\ LeaveUnrecorded(b)
    /\ batch' = [batch EXCEPT ![b] = FreeSlot]
    /\ UNCHANGED <<status, claims, old, delivered, desk, dispatcher>>

\* The dispatcher dies between its commit and its last message.
DispatcherDies(d) ==
    /\ dispatcher[d].step # "idle" /\ faults < MaxFaults
    /\ \A m \in dispatcher[d].ids : claims[m] < MaxClaims
    /\ faults' = faults + 1
    /\ dispatcher' = [dispatcher EXCEPT ![d] = IdleDispatcher]
    /\ UNCHANGED <<status, claims, old, smtp, desk, batch>>

\* MAILING_CLAIM_TIMEOUT_MINUTES pass.
ClaimGetsOld(m) ==
    /\ status[m] = "sending" /\ m \notin old /\ claims[m] < MaxClaims
    /\ old' = old \cup {m}
    /\ UNCHANGED <<status, claims, smtp, desk, dispatcher, batch, faults>>

\* Mutants: the filter on the status, or the one on the age, got lost.
EveryOldRow == old
NoOldRow == {}

OldClaims == old \cap Sending

\* requeue_stuck_emails: one update of every old claim.
RequeueStuck ==
    /\ OldClaims # {}
    /\ SetStatus(OldClaims, "pending")
    /\ old' = old \ OldClaims
    /\ UNCHANGED <<claims, smtp, desk, dispatcher, batch, faults>>

\* A hard bounce of a mail that went out (BounceProcessor.handle).
Bounce(m) ==
    /\ delivered[m] > 0
    /\ SetStatus({m}, "bounced")
    /\ blocked' = TRUE
    /\ UNCHANGED <<claims, old, smtp, withdrawing, resending, dispatcher, batch, faults>>

-----------------------------------------------------------------------------
WebStep ==
    \/ \E m \in Mails : CheckAddress(m) \/ InsertRow(m) \/ CheckRetry(m) \/ Retry(m)
    \/ Block \/ WithdrawPending \/ Unblock

DispatchStep(d) == CountRoom(d) \/ Claim(d) \/ Publish(d)

SendStep(b) ==
    \/ StartBatch(b) \/ (\E m \in Mails : NextRow(b, m))
    \/ Accept(b) \/ RecordSent(b) \/ Refuse(b) \/ TransientError(b) \/ FinishBatch(b)

FaultStep ==
    \/ \E b \in Batches : WorkerDies(b) \/ BatchLost(b)
    \/ \E d \in Dispatchers : DispatcherDies(d)

Next ==
    \/ WebStep
    \/ \E d \in Dispatchers : DispatchStep(d)
    \/ \E b \in Batches : SendStep(b)
    \/ FaultStep
    \/ \E m \in Mails : ClaimGetsOld(m)
    \/ RequeueStuck
    \/ \E m \in Mails : Bounce(m)

Spec == Init /\ [][Next]_vars

\* Beat keeps starting the dispatcher and the requeue, the worker keeps
\* working, and time passes.
Fairness ==
    /\ \A d \in Dispatchers : WF_vars(DispatchStep(d))
    /\ \A b \in Batches : WF_vars(SendStep(b))
    /\ \A m \in Mails : WF_vars(ClaimGetsOld(m))
    /\ WF_vars(RequeueStuck)

FairSpec == Spec /\ Fairness

-----------------------------------------------------------------------------
(* Properties *)

\* No more than MAILING_CLAIM_LIMIT rows are in flight, so mail that is
\* urgent overtakes a campaign in the database (tasks.py:46).
ClaimLimitKept == Cardinality(Sending) <= ClaimLimit

BeingRecorded(m) == \E b \in Running : batch[b].at = m /\ batch[b].accepted

\* Sends of a mail that were written down, or are about to be.
RecordedSends(m) ==
    delivered[m] - unrecorded[m] - (IF BeingRecorded(m) THEN 1 ELSE 0)

\* The row says what happened to the mail: it is `sent` after exactly one
\* recorded send, and in any other state no send of it was recorded, however
\* often its batch was retried, redelivered, requeued or resent.  So nobody
\* is mailed twice but after a send that nobody wrote down (tasks.py:159).
RecordIsTruthful ==
    \A m \in Mails :
        \/ status[m] = "sent" /\ RecordedSends(m) = 1
        \/ status[m] = "bounced" /\ RecordedSends(m) \in {0, 1}
        \/ status[m] \notin {"sent", "bounced"} /\ RecordedSends(m) = 0

\* The one dispatcher's claim fits in what it counted: what is in flight only
\* gets less between its two statements (tasks.py:54).
RoomIsThere ==
    \A d \in Dispatchers :
        dispatcher[d].step = "claim" => Cardinality(Sending) + dispatcher[d].room <= ClaimLimit

\* A slot has rows to send only while it runs, and an answer only to the row
\* it is at.
BatchesInOrder ==
    \A b \in Batches :
        /\ batch[b].state # "running" => batch[b].todo = {} /\ batch[b].at = NoMail
        /\ batch[b].at # NoMail => batch[b].at \in batch[b].todo
        /\ batch[b].accepted => batch[b].at # NoMail

\* The one worker runs one batch at a time, and what that has yet to send
\* nobody else sends (LEVEL27_DEPLOYMENT.md: one process of one task).
OneBatchRuns == \A b, c \in Running : b = c

NothingSentIsSentAgain ==
    \A b \in Running : \A m \in batch[b].todo : status[m] # "sent" /\ RecordedSends(m) = 0

\* What the queue keeps, with what it rests on.
QueueInv ==
    /\ TypeOK
    /\ ClaimLimitKept /\ RoomIsThere
    /\ BatchesInOrder /\ OneBatchRuns
    /\ RecordIsTruthful /\ NothingSentIsSentAgain

\* A mail recorded as sent is not queued, failed or withdrawn any more,
\* whatever is still in the broker for it (tasks.py:204, queue_actions.py:45).
SentStaysSent ==
    [][\A m \in Mails : status[m] = "sent" => status'[m] \in {"sent", "bounced"}]_vars

\* Every queued mail is decided in the end: dispatchers that die after the
\* claim, lost messages and dead workers only delay it (tasks.py:199).
EveryMailSettles ==
    \A m \in Mails : []<>(status[m] \notin {"pending", "sending"})

=============================================================================

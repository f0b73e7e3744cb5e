----------------------------- MODULE MCEndings -----------------------------
(***************************************************************************)
(* MailQueue and Retention in one run: what the jobs have to bring to an   *)
(* end.  Retention mails through the queue, but what it decides by are its *)
(* own rows; so each is explored by itself: `part` says which one moves.   *)
(***************************************************************************)
EXTENDS MailQueue, Retention

VARIABLE part

MCInit == Init /\ RetentionInit /\ part \in {"mail", "retention"}

InMail(A) == part = "mail" /\ A /\ UNCHANGED <<retentionVars, part>>
InRetention(A) == part = "retention" /\ A /\ UNCHANGED <<vars, part>>

MCNext == InMail(Next) \/ InRetention(RetentionNext)

MCvars == <<vars, retentionVars, part>>

\* MailQueue's Fairness and Retention's, each of its own part.
MCFairness ==
    /\ \A d \in Dispatchers : WF_MCvars(InMail(DispatchStep(d)))
    /\ \A b \in Batches : WF_MCvars(InMail(SendStep(b)))
    /\ \A m \in Mails : WF_MCvars(InMail(ClaimGetsOld(m)))
    /\ WF_MCvars(InMail(RequeueStuck))
    /\ SF_MCvars(InRetention(NextDay))
    /\ WF_MCvars(InRetention(StartRun)) /\ WF_MCvars(InRetention(EndRun))
    /\ \A a \in Accounts : SF_MCvars(InRetention(Plan(a)))
    /\ SF_MCvars(InRetention(HandleAccount))

MCSpec == MCInit /\ [][MCNext]_MCvars /\ MCFairness

\* What waits is seen to in the end: every mail is decided, and the accounts
\* nobody uses go.
EverythingIsSeenTo == EveryMailSettles /\ AbandonedAccountsGo
=============================================================================

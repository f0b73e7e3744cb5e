------------------------------ MODULE MCMails ------------------------------
(***************************************************************************)
(* MailQueue and DojoMailings in one run: what a team sends, and how mail  *)
(* goes out.  DojoMailings only knows whether a mail waits, is claimed or  *)
(* is out.  So each is explored by itself: `part` says which one moves.    *)
(***************************************************************************)
EXTENDS MailQueue, DojoMailings, TLC

VARIABLE part

MCInit == Init /\ MailingsInit /\ part \in {"queue", "mailings"}

MCNext ==
    \/ part = "queue" /\ Next /\ UNCHANGED <<mailingVars, part>>
    \/ part = "mailings" /\ MailingsNext /\ UNCHANGED <<vars, part>>

MCvars == <<vars, mailingVars, part>>

MCSpec == MCInit /\ [][MCNext]_MCvars

\* Slots of the broker, mailings and requests are interchangeable; the first
\* two, of different parts, are given the same model values.
Symmetry == Permutations(Batches) \cup Permutations(TeamRequests)
=============================================================================

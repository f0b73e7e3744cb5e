--------------------------- MODULE SessionNotices ---------------------------
(***************************************************************************)
(* Telling a session's families about a change to it (events.notices): the *)
(* team writes a notice on a page, and sending it checks the limit of      *)
(* notices a day, saves it and queues one mail per account under the       *)
(* session's row lock, in one transaction.                                 *)
(*                                                                         *)
(* Notices are kept by their age, in steps of a day's part.  The mails of  *)
(* a notice are queued with it or not at all (their keys name it), and go  *)
(* their way in MailQueue.                                                 *)
(***************************************************************************)
EXTENDS Integers, FiniteSets

CONSTANTS
    DayParts,     \* the steps the 24 hours of the limit are counted in
    NoticeLimit,  \* SESSION_NOTICES_PER_DAY
    Senders,      \* requests at one time
    MaxCancelled, \* bound: notices of a cancellation
    NoSender

ASSUME NoticesAssumption ==
    /\ DayParts \in Nat \ {0} /\ NoticeLimit \in Nat \ {0} /\ MaxCancelled \in Nat
    /\ NoSender \notin Senders

VARIABLES
    calledOff,  \* whether the session is cancelled
    families,   \* whether anyone of the audience has an address
    notices,    \* SessionNotice rows per age and kind, of the last 24 hours
    sessionLock,
    sender      \* per request: the notice it sends

noticeVars == <<calledOff, families, notices, sessionLock, sender>>

NoticeKinds == {"change", "cancelled"}
Parts == 0..(DayParts - 1)

NoNotice == [at |-> "idle", kind |-> "change", saw |-> FALSE]

Most == NoticeLimit + MaxCancelled

NoticesTypeOK ==
    /\ calledOff \in BOOLEAN /\ families \in BOOLEAN
    /\ notices \in [Parts \X NoticeKinds -> 0..Most]
    /\ sessionLock \in Senders \cup {NoSender}
    /\ sender \in [Senders -> [at : {"idle", "written", "locked", "checked"},
                               kind : NoticeKinds, saw : BOOLEAN]]

NoticesInit ==
    /\ calledOff = FALSE /\ families = TRUE
    /\ notices = [n \in Parts \X NoticeKinds |-> 0]
    /\ sessionLock = NoSender
    /\ sender = [s \in Senders |-> NoNotice]

\* The rows of some kinds, one by one.
NoticeRows(kinds) == {row \in (Parts \X kinds) \X (1..Most) : row[2] <= notices[row[1]]}

Sent(kinds) == Cardinality(NoticeRows(kinds))

\* set_status; or the form, which saves the status it loaded (Registrations).
CallOffOrOn ==
    /\ calledOff' = ~calledOff
    /\ UNCHANGED <<families, notices, sessionLock, sender>>

ChangeFamilies ==
    /\ families' = ~families
    /\ UNCHANGED <<calledOff, notices, sessionLock, sender>>

TimePasses ==
    /\ notices' = [n \in Parts \X NoticeKinds |-> IF n[1] = 0 THEN 0 ELSE notices[<<n[1] - 1, n[2]>>]]
    /\ UNCHANGED <<calledOff, families, sessionLock, sender>>

Write(s) ==
    /\ sender[s].at = "idle"
    /\ \E kind \in NoticeKinds :
         sender' = [sender EXCEPT ![s] = [at |-> "written", kind |-> kind, saw |-> calledOff]]
    /\ UNCHANGED <<calledOff, families, notices, sessionLock>>

LockSession(s) ==
    /\ sender[s].at = "written" /\ sessionLock = NoSender
    /\ sessionLock' = s
    /\ sender' = [sender EXCEPT ![s].at = "locked"]
    /\ UNCHANGED <<calledOff, families, notices>>

\* Mutant: only notices of a change are counted, after this one is saved.
NoProblemsPastLimit(s) ==
    /\ families
    /\ sender[s].kind = "cancelled" => sender[s].saw
    /\ sender[s].kind # "cancelled" => Sent({"change"}) <= NoticeLimit

\* notice_problems: the session as the page loaded it, the notices as they are.
NoProblems(s) ==
    /\ families
    /\ sender[s].kind = "cancelled" => sender[s].saw
    /\ sender[s].kind # "cancelled" => Sent(NoticeKinds) < NoticeLimit

CheckNotice(s) ==
    /\ sender[s].at = "locked"
    /\ NoProblems(s)
    /\ sender' = [sender EXCEPT ![s].at = "checked"]
    /\ UNCHANGED <<calledOff, families, notices, sessionLock>>

SaveNotice(s) ==
    /\ sender[s].at = "checked"
    /\ Sent({"cancelled"}) < MaxCancelled \/ sender[s].kind # "cancelled"
    /\ notices' = [notices EXCEPT ![<<0, sender[s].kind>>] = @ + 1]
    /\ sender' = [sender EXCEPT ![s] = NoNotice]
    /\ sessionLock' = NoSender
    /\ UNCHANGED <<calledOff, families>>

\* A problem, a template that is missing, a dead worker: nothing is saved.
DropNotice(s) ==
    /\ sender[s].at # "idle"
    /\ sender' = [sender EXCEPT ![s] = NoNotice]
    /\ sessionLock' = IF sessionLock = s THEN NoSender ELSE sessionLock
    /\ UNCHANGED <<calledOff, families, notices>>

NoticesNext ==
    \/ CallOffOrOn \/ ChangeFamilies \/ TimePasses
    \/ \E s \in Senders : Write(s) \/ LockSession(s) \/ CheckNotice(s) \/ SaveNotice(s) \/ DropNotice(s)

NoticesSpec == NoticesInit /\ [][NoticesNext]_noticeVars

-----------------------------------------------------------------------------
(* Properties *)

\* Families hear of changes to a session at most NoticeLimit times in 24 hours,
\* however many of the team send at once; a cancellation comes on top.
NoticeLimitKept == Sent({"change"}) <= NoticeLimit

\* The types, and the limit that protects families from the team.
NoticesInv == NoticesTypeOK /\ NoticeLimitKept

=============================================================================

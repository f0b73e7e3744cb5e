-------------------------- MODULE SignUpQuestions --------------------------
(***************************************************************************)
(* The questions a session asks on its sign-up (events.questions), and the *)
(* answers (events.registrations.sign_up, change_answers, correct_answer). *)
(* Adding, signing up and changing answers hold the session's row lock;    *)
(* removing a question and the team's corrections do not.  Each request    *)
(* works from the questions its page showed.                               *)
(*                                                                         *)
(* One session that takes sign-ups itself.  The wording and order of the   *)
(* questions and the values of the answers are left out; places are in     *)
(* Registrations.                                                          *)
(***************************************************************************)
EXTENDS Integers, FiniteSets

CONSTANTS
    Questions,    \* rows that may be made; an id is not used twice
    MaxQuestions, \* SIGNUP_QUESTIONS_MAX
    Children,
    Requests,     \* requests at one time
    NoRequest

ASSUME QuestionsAssumption ==
    /\ IsFiniteSet(Questions) /\ MaxQuestions \in Nat /\ NoRequest \notin Requests

VARIABLES
    asked,      \* EventQuestion rows
    used,       \* ids given out
    registered, \* children with a Registration
    answers,    \* RegistrationAnswer rows: child and question
    started,    \* whether start_time is past
    holder,     \* the request that holds the session's row lock
    asking,     \* per request: how far it is and what it read
    owed        \* history: the questions there were when the child signed up

questionVars == <<asked, used, registered, answers, started, holder, asking, owed>>

Rows == Children \X Questions

IdleRequest == [at |-> "idle", job |-> "none", child |-> {}, question |-> {}, shown |-> {}, seen |-> {}]

QuestionsTypeOK ==
    /\ asked \subseteq used /\ used \subseteq Questions
    /\ registered \subseteq Children
    /\ answers \subseteq registered \X asked
    /\ started \in BOOLEAN
    /\ holder \in Requests \cup {NoRequest}
    /\ asking \in [Requests ->
          [at : {"idle", "page", "locked", "checked"},
           job : {"none", "sign up", "change", "add", "remove", "correct"},
           child : SUBSET Children, question : SUBSET Questions,
           shown : SUBSET Questions, seen : SUBSET Rows]]
    /\ owed \in [Children -> SUBSET Questions]

\* copy_defaults: a new session starts with its dojo's questions.
QuestionsInit ==
    /\ asked \in {S \in SUBSET Questions : Cardinality(S) <= MaxQuestions}
    /\ used = asked
    /\ registered = {} /\ answers = {} /\ started = FALSE
    /\ holder = NoRequest
    /\ asking = [r \in Requests |-> IdleRequest]
    /\ owed = [c \in Children |-> {}]

EndRequest(r) == asking' = [asking EXCEPT ![r] = IdleRequest]

Unlock(r) == holder' = IF holder = r THEN NoRequest ELSE holder

-----------------------------------------------------------------------------
(* The pages, and the lock *)

Open(r, job, c, q) ==
    /\ asking[r].at = "idle"
    /\ asking' = [asking EXCEPT ![r] =
          [IdleRequest EXCEPT !.at = "page", !.job = job, !.child = c, !.question = q,
                              !.shown = asked]]
    /\ UNCHANGED <<asked, used, registered, answers, started, holder, owed>>

OpenPage(r) ==
    \/ \E c \in Children \ registered : Open(r, "sign up", {c}, {})
    \/ \E c \in registered : Open(r, "change", {c}, {})
    \/ Open(r, "add", {}, {})
    \/ \E q \in asked : Open(r, "remove", {}, {q})
    \/ \E c \in registered, q \in asked : Open(r, "correct", {c}, {q})

TakeLock(r) ==
    /\ asking[r].at = "page" /\ asking[r].job \in {"sign up", "change", "add"}
    /\ holder = NoRequest
    /\ holder' = r
    /\ asking' = [asking EXCEPT ![r].at = "locked"]
    /\ UNCHANGED <<asked, used, registered, answers, started, owed>>

\* Refused, rolled back, or dead: nothing of it stays.
GiveUp(r) ==
    /\ asking[r].at # "idle"
    /\ EndRequest(r) /\ Unlock(r)
    /\ UNCHANGED <<asked, used, registered, answers, started, owed>>

-----------------------------------------------------------------------------
(* Families *)

\* Mutant: the questions are checked before the lock is taken.
CheckAnswersOnPage(r) ==
    /\ asking[r].at = "locked" /\ asking[r].job \in {"sign up", "change"}
    /\ ~started
    /\ asking' = [asking EXCEPT ![r].at = "checked"]
    /\ UNCHANGED <<asked, used, registered, answers, started, holder, owed>>

\* Every question there is now has an answer on the page.
CheckAnswers(r) ==
    /\ asking[r].at = "locked" /\ asking[r].job \in {"sign up", "change"}
    /\ ~started /\ asked \subseteq asking[r].shown
    /\ asking' = [asking EXCEPT ![r].at = "checked", ![r].shown = asked]
    /\ UNCHANGED <<asked, used, registered, answers, started, holder, owed>>

\* A question removed since fails its answer's foreign key, as does a child's
\* registration that is gone, or that is there already.
SaveAnswers(r) ==
    /\ asking[r].at = "checked" /\ asking[r].job \in {"sign up", "change"}
    /\ asking[r].shown \subseteq asked
    /\ IF asking[r].job = "sign up"
       THEN /\ asking[r].child \cap registered = {}
            /\ registered' = registered \cup asking[r].child
            /\ owed' = [c \in Children |-> IF c \in asking[r].child THEN asked ELSE owed[c]]
       ELSE /\ asking[r].child \subseteq registered
            /\ UNCHANGED <<registered, owed>>
    /\ answers' = answers \cup (asking[r].child \X asking[r].shown)
    /\ EndRequest(r) /\ Unlock(r)
    /\ UNCHANGED <<asked, used, started>>

\* registrations.cancel, under the lock: the answers go with the registration.
CancelPlace(c) ==
    /\ c \in registered /\ holder = NoRequest
    /\ registered' = registered \ {c}
    /\ answers' = {row \in answers : row[1] # c}
    /\ owed' = [owed EXCEPT ![c] = {}]
    /\ UNCHANGED <<asked, used, started, holder, asking>>

-----------------------------------------------------------------------------
(* The team *)

\* Mutant: the room is checked on the page, without the lock.
CheckRoomUnlocked(r) ==
    /\ asking[r].at = "page" /\ asking[r].job = "add"
    /\ Cardinality(asked) < MaxQuestions
    /\ asking' = [asking EXCEPT ![r].at = "checked"]
    /\ UNCHANGED <<asked, used, registered, answers, started, holder, owed>>

CheckRoom(r) ==
    /\ asking[r].at = "locked" /\ asking[r].job = "add"
    /\ Cardinality(asked) < MaxQuestions
    /\ asking' = [asking EXCEPT ![r].at = "checked"]
    /\ UNCHANGED <<asked, used, registered, answers, started, holder, owed>>

AddQuestion(r) ==
    /\ asking[r].at = "checked" /\ asking[r].job = "add"
    /\ \E q \in Questions \ used : asked' = asked \cup {q} /\ used' = used \cup {q}
    /\ EndRequest(r) /\ Unlock(r)
    /\ UNCHANGED <<registered, answers, started, owed>>

AnswersTo(r) == {row \in answers : row[2] \in asking[r].question}

CollectAnswers(r) ==
    /\ asking[r].at = "page" /\ asking[r].job = "remove"
    /\ asking' = [asking EXCEPT ![r].at = "checked", ![r].seen = AnswersTo(r)]
    /\ UNCHANGED <<asked, used, registered, answers, started, holder, owed>>

\* Mutant: an answer given since the others were collected stays.
RemoveQuestionOnly(r) ==
    /\ asking[r].at = "checked" /\ asking[r].job = "remove"
    /\ asked' = asked \ asking[r].question
    /\ answers' = answers \ asking[r].seen
    /\ EndRequest(r)
    /\ UNCHANGED <<used, registered, started, holder, owed>>

\* An answer given since the others were collected keeps the question: its
\* foreign key fails the removal.
RemoveQuestion(r) ==
    /\ asking[r].at = "checked" /\ asking[r].job = "remove"
    /\ AnswersTo(r) \subseteq asking[r].seen
    /\ asked' = asked \ asking[r].question
    /\ answers' = answers \ asking[r].seen
    /\ EndRequest(r)
    /\ UNCHANGED <<used, registered, started, holder, owed>>

LookUpAnswer(r) ==
    /\ asking[r].at = "page" /\ asking[r].job = "correct"
    /\ asking' = [asking EXCEPT ![r].at = "checked",
                                  ![r].seen = answers \cap (asking[r].child \X asking[r].question)]
    /\ UNCHANGED <<asked, used, registered, answers, started, holder, owed>>

\* A row the team saw is updated, else one is made; a row that came or went
\* meanwhile fails it.
CorrectAnswer(r) ==
    /\ asking[r].at = "checked" /\ asking[r].job = "correct"
    /\ asking[r].child \subseteq registered /\ asking[r].question \subseteq asked
    /\ asking[r].seen = answers \cap (asking[r].child \X asking[r].question)
    /\ answers' = answers \cup (asking[r].child \X asking[r].question)
    /\ EndRequest(r)
    /\ UNCHANGED <<asked, used, registered, started, holder, owed>>

SessionBegins ==
    /\ ~started /\ started' = TRUE
    /\ UNCHANGED <<asked, used, registered, answers, holder, asking, owed>>

QuestionsNext ==
    \/ \E r \in Requests :
          \/ OpenPage(r) \/ TakeLock(r) \/ GiveUp(r)
          \/ CheckAnswers(r) \/ SaveAnswers(r)
          \/ CheckRoom(r) \/ AddQuestion(r)
          \/ CollectAnswers(r) \/ RemoveQuestion(r)
          \/ LookUpAnswer(r) \/ CorrectAnswer(r)
    \/ \E c \in Children : CancelPlace(c)
    \/ SessionBegins

QuestionsSpec == QuestionsInit /\ [][QuestionsNext]_questionVars

-----------------------------------------------------------------------------
(* Properties *)

\* Two members of the team who add at once do not pass the maximum.
QuestionLimitKept == Cardinality(asked) <= MaxQuestions

\* A child has an answer to every question there was when it signed up, however
\* long its family's page was open and whatever the team adds and removes
\* meanwhile: the attendance list counts on it.
SignedUpMeansAnswered ==
    \A c \in registered : {c} \X (owed[c] \cap asked) \subseteq answers

\* The session's questions stay few, and the children it counts have answered.
QuestionsInv == QuestionsTypeOK /\ QuestionLimitKept /\ SignedUpMeansAnswered

=============================================================================

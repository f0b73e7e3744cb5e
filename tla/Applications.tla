---------------------------- MODULE Applications ----------------------------
(***************************************************************************)
(* Background checks and applications (applications.services): asking for  *)
(* a document, uploading it, deciding on it, applying, and deciding on the *)
(* application.                                                            *)
(*                                                                         *)
(* No function here locks a row or opens a transaction: each checks a row  *)
(* the request loaded, and later writes some of its columns.  So every     *)
(* request is at least two steps, any other request may pass in between,   *)
(* and the worker may die after any of them.                               *)
(*                                                                         *)
(* Left out: who reviews (nobody reviews themselves), the upload link's    *)
(* token, the two kinds of application (each has its own row; this is one  *)
(* kind), reviewers' notes, mails and notifications, the Django admin.     *)
(***************************************************************************)
EXTENDS Naturals, Sequences, FiniteSets

CONSTANTS
    Applicants,      \* accounts that apply
    Documents,       \* bound: uploads of one account
    Handlers,        \* bound: requests in flight
    MaxApplications, \* bound: applications of one account
    MaxDecisions,    \* bound: decisions on one account's documents
    NoDocument

ASSUME ApplicationsAssumption == NoDocument \notin Documents /\ MaxApplications \in Nat /\ MaxDecisions \in Nat

VARIABLES
    check,       \* the check's columns on the account
    files,       \* the account's documents in private storage
    history,     \* the account's BackgroundCheckHistory rows, oldest first
    application, \* the account's Application rows' statuses, oldest first
    request,     \* what each web request is doing
    disturbed    \* observation: accounts two of whose requests overlapped, or
                 \* one of whose requests was cut off

applicationVars == <<check, files, history, application, request, disturbed>>

Idle == [op |-> "idle"]

ApplicationsTypeOK ==
    /\ check \in [Applicants ->
         [status : {"none", "requested", "submitted", "validated", "lapsed", "rejected"},
          document : Documents \cup {NoDocument}]]
    /\ files \in [Applicants -> SUBSET Documents]
    /\ \A u \in Applicants :
         /\ \A k \in DOMAIN history[u] :
              history[u][k] \in [decision : {"validated", "rejected"},
                                 document : Documents \cup {NoDocument}]
         /\ \A k \in DOMAIN application[u] :
              application[u][k] \in {"pending", "approved", "rejected"}
         /\ Len(application[u]) <= MaxApplications
    /\ disturbed \subseteq Applicants

ApplicationsInit ==
    /\ check = [u \in Applicants |-> [status |-> "none", document |-> NoDocument]]
    /\ files = [u \in Applicants |-> {}]
    /\ history = [u \in Applicants |-> <<>>]
    /\ application = [u \in Applicants |-> <<>>]
    /\ request = [h \in Handlers |-> Idle]
    /\ disturbed = {}

-----------------------------------------------------------------------------
(* What the row a request loaded says *)

Status(u) == check[u].status

CheckValid(u) == Status(u) = "validated"
CanUpload(u) == Status(u) \in {"requested", "rejected", "lapsed"}

\* Mutant: an approved application does not count as open.
HasPendingApplication(u) == \E k \in DOMAIN application[u] : application[u][k] = "pending"

HasOpenApplication(u) ==
    \E k \in DOMAIN application[u] : application[u][k] \in {"pending", "approved"}

InFlight(u) == {h \in Handlers : request[h] # Idle /\ request[h].account = u}

\* The request has loaded what it needs and passed its checks.
Start(h, u, r) ==
    /\ request[h] = Idle
    /\ request' = [request EXCEPT ![h] = r]
    /\ disturbed' = IF InFlight(u) # {} THEN disturbed \cup {u} ELSE disturbed
    /\ UNCHANGED <<check, files, history, application>>

Continue(h, op) == request' = [request EXCEPT ![h] = [@ EXCEPT !.op = op]]
End(h) == request' = [request EXCEPT ![h] = Idle]

\* The worker dies between two steps of a request.
Die(h) ==
    /\ request[h] # Idle
    /\ End(h)
    /\ disturbed' = disturbed \cup {request[h].account}
    /\ UNCHANGED <<check, files, history, application>>

-----------------------------------------------------------------------------
(* The background check *)

RequestBackgroundCheck(h, u) ==
    /\ ~CheckValid(u) /\ Status(u) # "submitted"
    /\ Start(h, u, [op |-> "request", account |-> u])

SaveRequested(h) ==
    /\ request[h].op = "request"
    /\ check' = [check EXCEPT ![request[h].account].status = "requested"]
    /\ End(h)
    /\ UNCHANGED <<files, history, application, disturbed>>

\* The page's own check and the service's are on the same loaded row.
UploadBackgroundCheck(h, u, d) ==
    /\ CanUpload(u)
    /\ d \notin files[u] /\ \A k \in DOMAIN history[u] : history[u][k].document # d
    /\ \A g \in InFlight(u) : request[g].op \in {"upload", "stored"} => request[g].document # d
    /\ Start(h, u, [op |-> "upload", account |-> u, document |-> d])

\* save() puts the file into storage, then writes the row.
StoreDocument(h) ==
    /\ request[h].op = "upload"
    /\ files' = [files EXCEPT ![request[h].account] = @ \cup {request[h].document}]
    /\ Continue(h, "stored")
    /\ UNCHANGED <<check, history, application, disturbed>>

SubmitBackgroundCheck(h) ==
    /\ request[h].op = "stored"
    /\ check' = [check EXCEPT ![request[h].account] =
                    [status |-> "submitted", document |-> request[h].document]]
    /\ End(h)
    /\ UNCHANGED <<files, history, application, disturbed>>

\* Mutant: the status of the check is not looked at.
DecideAnyCheck(h, u, decision) ==
    Start(h, u, [op |-> "decide", account |-> u, decision |-> decision,
                 document |-> check[u].document])

\* A reviewer validates or rejects the document of the row as it was loaded.
DecideCheck(h, u, decision) ==
    /\ Status(u) = "submitted"
    /\ Start(h, u, [op |-> "decide", account |-> u, decision |-> decision,
                    document |-> check[u].document])

\* Mutant: the decision is logged and the document stays in storage.
RecordDecisionOnly(h) ==
    LET r == request[h] IN
    /\ r.op = "decide" /\ Len(history[r.account]) < MaxDecisions
    /\ history' = [history EXCEPT ![r.account] =
                      Append(@, [decision |-> r.decision, document |-> r.document])]
    /\ Continue(h, "recorded")
    /\ UNCHANGED <<check, files, application, disturbed>>

\* The document goes and the decision is logged before the account is saved.
RecordDecision(h) ==
    LET r == request[h] IN
    /\ r.op = "decide" /\ Len(history[r.account]) < MaxDecisions
    /\ files' = [files EXCEPT ![r.account] = @ \ {r.document}]
    /\ history' = [history EXCEPT ![r.account] =
                      Append(@, [decision |-> r.decision, document |-> r.document])]
    /\ Continue(h, "recorded")
    /\ UNCHANGED <<check, application, disturbed>>

SaveDecision(h, decision) ==
    LET r == request[h] IN
    /\ r.op = "recorded" /\ r.decision = decision
    /\ check' = [check EXCEPT ![r.account] = [status |-> decision, document |-> NoDocument]]
    /\ End(h)
    /\ UNCHANGED <<files, history, application, disturbed>>

ValidateBackgroundCheck(h) == SaveDecision(h, "validated")
RejectBackgroundCheck(h) == SaveDecision(h, "rejected")

\* background_check_expires_at passes.
CheckLapses(u) ==
    /\ CheckValid(u)
    /\ check' = [check EXCEPT ![u].status = "lapsed"]
    /\ UNCHANGED <<files, history, application, request, disturbed>>

-----------------------------------------------------------------------------
(* The application *)

Apply(h, u) ==
    /\ ~HasOpenApplication(u) /\ Len(application[u]) < MaxApplications
    /\ Start(h, u, [op |-> "apply", account |-> u])

SubmitApplication(h) ==
    LET u == request[h].account IN
    /\ request[h].op = "apply" /\ Len(application[u]) < MaxApplications
    /\ application' = [application EXCEPT ![u] = Append(@, "pending")]
    /\ End(h)
    /\ UNCHANGED <<check, files, history, disturbed>>

\* Mutant: an application is approved whatever the account's check says.
DecideUnchecked(h, u, k, decision) ==
    /\ application[u][k] = "pending"
    /\ Start(h, u, [op |-> "application", account |-> u, row |-> k, decision |-> decision])

DecideApplication(h, u, k, decision) ==
    /\ application[u][k] = "pending"
    /\ decision = "approved" => CheckValid(u)
    /\ Start(h, u, [op |-> "application", account |-> u, row |-> k, decision |-> decision])

SaveApplication(h, decision) ==
    LET r == request[h] IN
    /\ r.op = "application" /\ r.decision = decision
    /\ application' = [application EXCEPT ![r.account][r.row] = decision]
    /\ End(h)
    /\ UNCHANGED <<check, files, history, disturbed>>

ApproveApplicationRow(h) == SaveApplication(h, "approved")
RejectApplicationRow(h) == SaveApplication(h, "rejected")

ApplicationsNext ==
    \/ \E u \in Applicants : CheckLapses(u)
    \/ \E h \in Handlers :
        \/ \E u \in Applicants :
            \/ RequestBackgroundCheck(h, u)
            \/ \E d \in Documents : UploadBackgroundCheck(h, u, d)
            \/ \E decision \in {"validated", "rejected"} : DecideCheck(h, u, decision)
            \/ Apply(h, u)
            \/ \E k \in DOMAIN application[u], decision \in {"approved", "rejected"} :
                  DecideApplication(h, u, k, decision)
        \/ SaveRequested(h) \/ StoreDocument(h) \/ SubmitBackgroundCheck(h)
        \/ RecordDecision(h) \/ ValidateBackgroundCheck(h) \/ RejectBackgroundCheck(h)
        \/ SubmitApplication(h) \/ ApproveApplicationRow(h) \/ RejectApplicationRow(h)
        \/ Die(h)

ApplicationsSpec == ApplicationsInit /\ [][ApplicationsNext]_applicationVars

-----------------------------------------------------------------------------
(* Properties *)

\* Asking, uploading, deciding and approving keep the promise the teams rely
\* on, also when two reviewers and two uploads cross each other and workers
\* die: a check counts only after its decision is in the log (the log is
\* written first), and an application is approved only for someone checked.
\* (applications.services:validate_background_check, approve_application)
Abstract == INSTANCE Vetting WITH
    Adults <- Applicants,
    checked <- {u \in Applicants :
                   \E k \in DOMAIN history[u] : history[u][k].decision = "validated"},
    clear <- {u \in Applicants : CheckValid(u)},
    approved <- {u \in Applicants :
                   \E k \in DOMAIN application[u] : application[u][k] = "approved"}

ImplementsVetting == Abstract!VettingSpec

\* As long as an account's requests neither overlapped nor were cut off,
\* storage holds no document of it but the one awaiting its decision: the
\* criminal-record extract is gone once it is decided, through renewals and
\* repeated requests.  (applications.services:_record_decision)
NoDocumentIsForgotten ==
    \A u \in Applicants \ disturbed :
        InFlight(u) = {} =>
            /\ files[u] = {check[u].document} \ {NoDocument}
            /\ Status(u) = "submitted" <=> files[u] # {}

\* Under the same condition no document is decided on twice: the log says of
\* each which way it went.  (applications.models:BackgroundCheckHistory)
DecidedOnce ==
    \A u \in Applicants \ disturbed : \A j, k \in DOMAIN history[u] :
        history[u][j].document = history[u][k].document => j = k

\* Under the same condition an account has one pending or approved
\* application, also after rejections.  (applications.services:submit_application)
OneOpenApplication ==
    \A u \in Applicants \ disturbed :
        Cardinality({k \in DOMAIN application[u] : application[u][k] # "rejected"}) <= 1

\* One decision on every document and one application at a time, and no document
\* in storage that nobody has to look at.
ApplicationsInv ==
    /\ ApplicationsTypeOK
    /\ NoDocumentIsForgotten
    /\ DecidedOnce
    /\ OneOpenApplication

=============================================================================

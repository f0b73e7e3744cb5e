----------------------------- MODULE DojosProofs ------------------------------
(***************************************************************************)
(* Background checks and applications, dojo teams, the questions of a      *)
(* session and the notices about one, for any accounts, documents,         *)
(* families and requests.                                                  *)
(* Applications implements Vetting: requests that load a row and write it  *)
(* later may cross each other and die anywhere; that a check counts, or an *)
(* application is approved, only after its decision is in the log rests on *)
(* what a request under way has already seen to. What holds only of        *)
(* requests that come one after the other rests on what the one under way  *)
(* has found being so still when it writes. Questions and notices rest on  *)
(* the lock on the session's row: what its holder found still bounds what  *)
(* it writes.                                                              *)
(***************************************************************************)
EXTENDS Applications, DojoTeams, SignUpQuestions, SessionNotices,
        SequenceTheorems, FiniteSetTheorems, TLAPS

-----------------------------------------------------------------------------
(* Applications: what a request under way has seen to *)

CheckStatus == {"none", "requested", "submitted", "validated", "lapsed", "rejected"}
Decision == {"validated", "rejected"}
HistoryRow == [decision : Decision, document : Documents \cup {NoDocument}]
ApplicationStatus == {"pending", "approved", "rejected"}

RequestRecord ==
    {Idle}
    \cup [op : {"request", "apply"}, account : Applicants]
    \cup [op : {"upload", "stored"}, account : Applicants, document : Documents]
    \cup [op : {"decide", "recorded"}, account : Applicants, decision : Decision,
          document : Documents \cup {NoDocument}]
    \cup [op : {"application"}, account : Applicants, row : Nat,
          decision : {"approved", "rejected"}]

\* The accounts with a validated decision in the log.
Checked == {u \in Applicants : \E k \in DOMAIN history[u] : history[u][k].decision = "validated"}
Clear == {u \in Applicants : CheckValid(u)}
Approved == {u \in Applicants : \E k \in DOMAIN application[u] : application[u][k] = "approved"}

VetTypeOK ==
    /\ check \in [Applicants -> [status : CheckStatus, document : Documents \cup {NoDocument}]]
    /\ history \in [Applicants -> Seq(HistoryRow)]
    /\ application \in [Applicants -> Seq(ApplicationStatus)]
    /\ request \in [Handlers -> RequestRecord]

\* Whoever is clear or approved, or about to be, is in the log.
LogComesFirst ==
    /\ Clear \subseteq Checked
    /\ Approved \subseteq Checked
    /\ \A h \in Handlers :
          \/ request[h].op = "recorded" /\ request[h].decision = "validated"
          \/ request[h].op = "application" /\ request[h].decision = "approved"
          => request[h].account \in Checked

VetInv == VetTypeOK /\ LogComesFirst

-----------------------------------------------------------------------------
(* Rows that are added to a list, or changed in it *)

LEMMA AppendDomain ==
    ASSUME NEW S, NEW s \in Seq(S), NEW e \in S
    PROVE  /\ Append(s, e) \in Seq(S)
           /\ \A k \in DOMAIN s : k \in DOMAIN Append(s, e) /\ Append(s, e)[k] = s[k]
           /\ \A k \in DOMAIN Append(s, e) : k \in DOMAIN s \/ Append(s, e)[k] = e
           /\ \E k \in DOMAIN Append(s, e) : Append(s, e)[k] = e
<1>1. Append(s, e) \in Seq(S) /\ Len(Append(s, e)) = Len(s) + 1 /\ Len(s) \in Nat
  OBVIOUS
<1>2. DOMAIN s = 1..Len(s) /\ DOMAIN Append(s, e) = 1..(Len(s) + 1)
  BY <1>1
<1>3. Append(s, e)[Len(s) + 1] = e /\ \A k \in 1..Len(s) : Append(s, e)[k] = s[k]
  OBVIOUS
<1> QED BY <1>1, <1>2, <1>3

LEMMA ReplaceDomain ==
    ASSUME NEW S, NEW s \in Seq(S), NEW k, NEW e \in S
    PROVE  /\ [s EXCEPT ![k] = e] \in Seq(S)
           /\ DOMAIN [s EXCEPT ![k] = e] = DOMAIN s
           /\ \A j \in DOMAIN s : [s EXCEPT ![k] = e][j] = IF j = k THEN e ELSE s[j]
<1>1. Len(s) \in Nat /\ DOMAIN s = 1..Len(s) /\ s \in [1..Len(s) -> S]
  OBVIOUS
<1>2. [s EXCEPT ![k] = e] \in [1..Len(s) -> S]
  BY <1>1
<1>3. [s EXCEPT ![k] = e] \in Seq(S)
  BY <1>1, <1>2, SeqDef
<1> QED BY <1>1, <1>3

-----------------------------------------------------------------------------
(* What the steps do to the three sets Vetting speaks of *)

LEMMA InitVet == ApplicationsInit => VetInv /\ Abstract!VettingInit
<1> SUFFICES ASSUME ApplicationsInit PROVE VetInv /\ Abstract!VettingInit
  OBVIOUS
<1>1. VetTypeOK
  <2>1. /\ [status |-> "none", document |-> NoDocument]
              \in [status : CheckStatus, document : Documents \cup {NoDocument}]
        /\ <<>> \in Seq(HistoryRow) /\ <<>> \in Seq(ApplicationStatus) /\ Idle \in RequestRecord
    BY DEF CheckStatus, RequestRecord
  <2> QED BY <2>1 DEF ApplicationsInit, VetTypeOK
<1>2. Checked = {} /\ Clear = {} /\ Approved = {}
  BY DEF ApplicationsInit, Checked, Clear, Approved, CheckValid, Status
<1>3. LogComesFirst
  BY <1>2 DEF ApplicationsInit, LogComesFirst, Idle
<1>4. Abstract!VettingInit
  BY <1>2 DEF Abstract!VettingInit, Checked, Clear, Approved
<1> QED BY <1>1, <1>3, <1>4 DEF VetInv

\* The request of a handler becomes another: what it is about to do has been
\* seen to.
Seen(r) ==
    \/ r.op = "recorded" /\ r.decision = "validated"
    \/ r.op = "application" /\ r.decision = "approved"
    => r.account \in Checked'

LEMMA OneRequest ==
    ASSUME VetInv, NEW h \in Handlers, NEW r \in RequestRecord, request' = [request EXCEPT ![h] = r],
           Checked \subseteq Checked', Seen(r), Clear' \subseteq Checked', Approved' \subseteq Checked'
    PROVE  LogComesFirst' /\ request' \in [Handlers -> RequestRecord]
<1>1. /\ request' \in [Handlers -> RequestRecord] /\ request'[h] = r
      /\ \A g \in Handlers : g # h => request'[g] = request[g]
  BY DEF VetInv, VetTypeOK
<1>2. ASSUME NEW g \in Handlers,
             \/ request'[g].op = "recorded" /\ request'[g].decision = "validated"
             \/ request'[g].op = "application" /\ request'[g].decision = "approved"
      PROVE  request'[g].account \in Checked'
  <2>1. CASE g = h
    BY <1>1, <1>2, <2>1 DEF Seen
  <2>2. CASE g # h
    <3>1. request'[g] = request[g]
      BY <1>1, <2>2
    <3>2. request[g].account \in Checked
      BY <1>2, <3>1 DEF VetInv, LogComesFirst
    <3> QED BY <3>1, <3>2
  <2> QED BY <2>1, <2>2
<1> QED BY <1>1, <1>2 DEF LogComesFirst

\* What a handler's request is while its step can be taken.
LEMMA RequestShapes ==
    ASSUME VetInv, NEW h \in Handlers
    PROVE  /\ request[h] \in RequestRecord
           /\ request[h] # Idle => request[h].account \in Applicants
           /\ request[h].op \in {"upload", "stored"} => request[h].document \in Documents
           /\ request[h].op \in {"decide", "recorded"} =>
                 request[h].decision \in Decision /\ request[h].document \in Documents \cup {NoDocument}
           /\ request[h].op = "application" =>
                 request[h].decision \in {"approved", "rejected"} /\ request[h].row \in Nat
           /\ Idle \in RequestRecord /\ Idle.op = "idle"
BY DEF VetInv, VetTypeOK, RequestRecord, Idle

\* A request starts or dies: no row is written.
LEMMA StartsAndDeaths ==
    ASSUME VetInv, NEW h \in Handlers,
           \/ Die(h)
           \/ \E u \in Applicants :
                \/ RequestBackgroundCheck(h, u)
                \/ \E d \in Documents : UploadBackgroundCheck(h, u, d)
                \/ \E decision \in {"validated", "rejected"} : DecideCheck(h, u, decision)
                \/ Apply(h, u)
                \/ \E k \in DOMAIN application[u], decision \in {"approved", "rejected"} :
                      DecideApplication(h, u, k, decision)
    PROVE  VetInv' /\ Checked' = Checked /\ Clear' = Clear /\ Approved' = Approved
<1>1. UNCHANGED <<check, history, application>>
  BY DEF Die, RequestBackgroundCheck, UploadBackgroundCheck, DecideCheck, Apply, DecideApplication, Start
<1>2. Checked' = Checked /\ Clear' = Clear /\ Approved' = Approved
  BY <1>1 DEF Checked, Clear, Approved, CheckValid, Status
<1>3. PICK r \in RequestRecord : request' = [request EXCEPT ![h] = r] /\ Seen(r)
  <2>1. CASE Die(h)
    BY <2>1, RequestShapes DEF Die, End, Seen
  <2>2. ASSUME NEW u \in Applicants, RequestBackgroundCheck(h, u) \/ Apply(h, u)
        PROVE  \E r \in RequestRecord : request' = [request EXCEPT ![h] = r] /\ Seen(r)
    <3>1. PICK op \in {"request", "apply"} :
            request' = [request EXCEPT ![h] = [op |-> op, account |-> u]]
      BY <2>2 DEF RequestBackgroundCheck, Apply, Start
    <3>2. [op |-> op, account |-> u] \in RequestRecord
      BY DEF RequestRecord
    <3> QED BY <3>1, <3>2 DEF Seen
  <2>3. ASSUME NEW u \in Applicants, NEW d \in Documents, UploadBackgroundCheck(h, u, d)
        PROVE  \E r \in RequestRecord : request' = [request EXCEPT ![h] = r] /\ Seen(r)
    <3> DEFINE r == [op |-> "upload", account |-> u, document |-> d]
    <3>1. request' = [request EXCEPT ![h] = r]
      BY <2>3 DEF UploadBackgroundCheck, Start
    <3>2. r \in RequestRecord /\ Seen(r)
      BY DEF RequestRecord, Seen
    <3> QED BY <3>1, <3>2
  <2>4. ASSUME NEW u \in Applicants, NEW decision \in Decision, DecideCheck(h, u, decision)
        PROVE  \E r \in RequestRecord : request' = [request EXCEPT ![h] = r] /\ Seen(r)
    <3> DEFINE r == [op |-> "decide", account |-> u, decision |-> decision,
                     document |-> check[u].document]
    <3>1. request' = [request EXCEPT ![h] = r]
      BY <2>4 DEF DecideCheck, Start
    <3>2. check[u].document \in Documents \cup {NoDocument}
      BY DEF VetInv, VetTypeOK
    <3>3. r \in RequestRecord /\ Seen(r)
      BY <3>2 DEF RequestRecord, Seen
    <3> QED BY <3>1, <3>3
  <2>5. ASSUME NEW u \in Applicants, NEW k \in DOMAIN application[u],
               NEW decision \in {"approved", "rejected"}, DecideApplication(h, u, k, decision)
        PROVE  \E r \in RequestRecord : request' = [request EXCEPT ![h] = r] /\ Seen(r)
    <3> DEFINE r == [op |-> "application", account |-> u, row |-> k, decision |-> decision]
    <3>1. request' = [request EXCEPT ![h] = r]
      BY <2>5 DEF DecideApplication, Start
    <3>2. k \in Nat
      BY DEF VetInv, VetTypeOK
    <3>3. decision = "approved" => u \in Checked'
      BY <1>2, <2>5 DEF DecideApplication, VetInv, LogComesFirst, Clear
    <3>4. r \in RequestRecord /\ Seen(r)
      BY <3>2, <3>3 DEF RequestRecord, Seen
    <3> QED BY <3>1, <3>4
  <2> QED BY <2>1, <2>2, <2>3, <2>4, <2>5 DEF Decision
<1>4. LogComesFirst' /\ request' \in [Handlers -> RequestRecord]
  BY <1>2, <1>3, OneRequest DEF VetInv, LogComesFirst
<1> QED BY <1>1, <1>2, <1>4 DEF VetInv, VetTypeOK

\* The account's columns are written: it becomes clear, or no longer is.
LEMMA CheckIsSaved ==
    ASSUME VetInv, NEW u \in Applicants,
           NEW row \in [status : CheckStatus, document : Documents \cup {NoDocument}],
           check' = [check EXCEPT ![u] = row], UNCHANGED <<history, application>>
    PROVE  /\ check' \in [Applicants -> [status : CheckStatus, document : Documents \cup {NoDocument}]]
           /\ Checked' = Checked /\ Approved' = Approved
           /\ Clear' = IF row.status = "validated" THEN Clear \cup {u} ELSE Clear \ {u}
<1>1. check' \in [Applicants -> [status : CheckStatus, document : Documents \cup {NoDocument}]]
  BY DEF VetInv, VetTypeOK
<1>2. Checked' = Checked /\ Approved' = Approved
  BY DEF Checked, Approved
<1>3. \A v \in Applicants : check'[v] = IF v = u THEN row ELSE check[v]
  BY DEF VetInv, VetTypeOK
<1>4. Clear' = {v \in Applicants : check'[v].status = "validated"}
  BY DEF Clear, CheckValid, Status
<1>5. Clear' = IF row.status = "validated" THEN Clear \cup {u} ELSE Clear \ {u}
  BY <1>3, <1>4 DEF Clear, CheckValid, Status
<1> QED BY <1>1, <1>2, <1>5

\* A row is added to the log, or to the applications.
LEMMA DecisionIsLogged ==
    ASSUME VetInv, NEW u \in Applicants, NEW row \in HistoryRow,
           history' = [history EXCEPT ![u] = Append(@, row)], UNCHANGED <<check, application>>
    PROVE  /\ history' \in [Applicants -> Seq(HistoryRow)]
           /\ Clear' = Clear /\ Approved' = Approved
           /\ Checked' = IF row.decision = "validated" THEN Checked \cup {u} ELSE Checked
<1>1. history[u] \in Seq(HistoryRow)
  BY DEF VetInv, VetTypeOK
<1>2. /\ Append(history[u], row) \in Seq(HistoryRow)
      /\ \A k \in DOMAIN history[u] :
            k \in DOMAIN Append(history[u], row) /\ Append(history[u], row)[k] = history[u][k]
      /\ \A k \in DOMAIN Append(history[u], row) :
            k \in DOMAIN history[u] \/ Append(history[u], row)[k] = row
      /\ \E k \in DOMAIN Append(history[u], row) : Append(history[u], row)[k] = row
  BY <1>1, AppendDomain
<1>3. PICK log \in Seq(HistoryRow) :
        /\ history' = [history EXCEPT ![u] = log]
        /\ \A k \in DOMAIN history[u] : k \in DOMAIN log /\ log[k] = history[u][k]
        /\ \A k \in DOMAIN log :
              (k \in DOMAIN history[u] /\ log[k] = history[u][k]) \/ log[k] = row
        /\ \E k \in DOMAIN log : log[k] = row
  BY <1>2
<1>4. history' \in [Applicants -> Seq(HistoryRow)]
  BY <1>3 DEF VetInv, VetTypeOK
<1>5. \A v \in Applicants : history'[v] = IF v = u THEN log ELSE history[v]
  BY <1>3 DEF VetInv, VetTypeOK
<1>6. Clear' = Clear /\ Approved' = Approved
  BY DEF Clear, Approved, CheckValid, Status
<1>7. Checked' = {v \in Applicants : \E k \in DOMAIN history'[v] : history'[v][k].decision = "validated"}
  BY DEF Checked
<1>8. (\E k \in DOMAIN log : log[k].decision = "validated")
        <=> (u \in Checked \/ row.decision = "validated")
  <2>1. ASSUME NEW k \in DOMAIN log, log[k].decision = "validated"
        PROVE  u \in Checked \/ row.decision = "validated"
    BY <1>3, <2>1 DEF Checked
  <2>2. ASSUME u \in Checked PROVE \E k \in DOMAIN log : log[k].decision = "validated"
    BY <1>3, <2>2 DEF Checked
  <2>3. ASSUME row.decision = "validated" PROVE \E k \in DOMAIN log : log[k].decision = "validated"
    BY <1>3, <2>3
  <2> QED BY <2>1, <2>2, <2>3
<1>9. \A v \in Applicants : v \in Checked' <=> (v \in Checked \/ (v = u /\ row.decision = "validated"))
  BY <1>5, <1>7, <1>8 DEF Checked
<1>10. Checked \subseteq Applicants /\ Checked' \subseteq Applicants
  BY DEF Checked
<1> QED BY <1>4, <1>6, <1>9, <1>10

LEMMA ApplicationIsSaved ==
    ASSUME VetInv, NEW u \in Applicants, NEW rows \in Seq(ApplicationStatus),
           application' = [application EXCEPT ![u] = rows], UNCHANGED <<check, history>>
    PROVE  /\ application' \in [Applicants -> Seq(ApplicationStatus)]
           /\ Clear' = Clear /\ Checked' = Checked
           /\ Approved' = IF \E k \in DOMAIN rows : rows[k] = "approved"
                          THEN Approved \cup {u} ELSE Approved \ {u}
<1>1. application' \in [Applicants -> Seq(ApplicationStatus)]
  BY DEF VetInv, VetTypeOK
<1>2. Clear' = Clear /\ Checked' = Checked
  BY DEF Clear, Checked, CheckValid, Status
<1>3. \A v \in Applicants : application'[v] = IF v = u THEN rows ELSE application[v]
  BY DEF VetInv, VetTypeOK
<1>4. Approved' = {v \in Applicants : \E k \in DOMAIN application'[v] : application'[v][k] = "approved"}
  BY DEF Approved
<1>5. \A v \in Applicants : v # u => (v \in Approved' <=> v \in Approved)
  BY <1>3, <1>4 DEF Approved
<1>6. u \in Approved' <=> \E k \in DOMAIN rows : rows[k] = "approved"
  BY <1>3, <1>4
<1>7. Approved \subseteq Applicants /\ Approved' \subseteq Applicants
  BY DEF Approved
<1> QED BY <1>1, <1>2, <1>5, <1>6, <1>7

-----------------------------------------------------------------------------
(* Every step keeps the invariant and is one Vetting allows *)

VettingStep ==
    \/ UNCHANGED <<Checked, Clear, Approved>>
    \/ \E u \in Applicants :
          \/ Checked' = Checked \cup {u} /\ UNCHANGED <<Clear, Approved>>
          \/ u \in Checked /\ Clear' = Clear \cup {u} /\ UNCHANGED <<Checked, Approved>>
          \/ Clear' = Clear \ {u} /\ UNCHANGED <<Checked, Approved>>
          \/ u \in Checked /\ Approved' = Approved \cup {u} /\ UNCHANGED <<Checked, Clear>>
          \/ Approved' = Approved \ {u} /\ UNCHANGED <<Checked, Clear>>

LEMMA VettingAllowsIt == VettingStep => [Abstract!VettingNext]_(Abstract!vettingVars)
BY DEF VettingStep, Checked, Clear, Approved, Abstract!VettingNext, Abstract!vettingVars,
       Abstract!RecordValidated, Abstract!BecomeClear, Abstract!Lapse, Abstract!Approve, Abstract!Refuse

LEMMA CheckSteps ==
    ASSUME VetInv, NEW h \in Handlers,
           SaveRequested(h) \/ SubmitBackgroundCheck(h)
             \/ ValidateBackgroundCheck(h) \/ RejectBackgroundCheck(h)
    PROVE  VetInv' /\ VettingStep
<1> DEFINE u == request[h].account
           Row == [status : CheckStatus, document : Documents \cup {NoDocument}]
<1>1. /\ u \in Applicants /\ request' = [request EXCEPT ![h] = Idle]
      /\ UNCHANGED <<history, application>>
  BY RequestShapes DEF SaveRequested, SubmitBackgroundCheck, ValidateBackgroundCheck,
     RejectBackgroundCheck, SaveDecision, End
<1>2. PICK row \in Row : /\ check' = [check EXCEPT ![u] = row]
                         /\ row.status = "validated" => u \in Checked
  <2>1. CASE SaveRequested(h)
    <3>1. check[u] \in Row
      BY <1>1 DEF VetInv, VetTypeOK
    <3>2. PICK row : row = [check[u] EXCEPT !.status = "requested"]
      OBVIOUS
    <3>3. row \in Row /\ row.status = "requested"
      BY <3>1, <3>2 DEF CheckStatus
    <3>4. check' = [check EXCEPT ![u] = row]
      BY <2>1, <3>2 DEF SaveRequested
    <3> QED BY <3>3, <3>4
  <2>2. CASE SubmitBackgroundCheck(h)
    <3> DEFINE row == [status |-> "submitted", document |-> request[h].document]
    <3>1. row \in Row /\ row.status = "submitted"
      BY <2>2, RequestShapes DEF SubmitBackgroundCheck, CheckStatus
    <3>2. check' = [check EXCEPT ![u] = row]
      BY <2>2 DEF SubmitBackgroundCheck
    <3> QED BY <3>1, <3>2
  <2>3. CASE ValidateBackgroundCheck(h)
    <3> DEFINE row == [status |-> "validated", document |-> NoDocument]
    <3>1. row \in Row /\ u \in Checked
      BY <2>3 DEF ValidateBackgroundCheck, SaveDecision, CheckStatus, VetInv, LogComesFirst
    <3>2. check' = [check EXCEPT ![u] = row]
      BY <2>3 DEF ValidateBackgroundCheck, SaveDecision
    <3> QED BY <3>1, <3>2
  <2>4. CASE RejectBackgroundCheck(h)
    <3> DEFINE row == [status |-> "rejected", document |-> NoDocument]
    <3>1. row \in Row /\ row.status = "rejected"
      BY DEF CheckStatus
    <3>2. check' = [check EXCEPT ![u] = row]
      BY <2>4 DEF RejectBackgroundCheck, SaveDecision
    <3> QED BY <3>1, <3>2
  <2> QED BY <2>1, <2>2, <2>3, <2>4
<1>3. /\ check' \in [Applicants -> Row] /\ Checked' = Checked /\ Approved' = Approved
      /\ Clear' = IF row.status = "validated" THEN Clear \cup {u} ELSE Clear \ {u}
  BY <1>1, <1>2, CheckIsSaved
<1>4. VettingStep
  BY <1>1, <1>2, <1>3 DEF VettingStep
<1>5. Clear' \subseteq Checked' /\ Approved' \subseteq Checked'
  BY <1>2, <1>3 DEF VetInv, LogComesFirst
<1>6. Idle \in RequestRecord /\ Seen(Idle)
  BY RequestShapes DEF Seen
<1>7. LogComesFirst' /\ request' \in [Handlers -> RequestRecord]
  BY <1>1, <1>3, <1>5, <1>6, OneRequest
<1> QED BY <1>1, <1>3, <1>4, <1>7 DEF VetInv, VetTypeOK

LEMMA DocumentStored ==
    ASSUME VetInv, NEW h \in Handlers, StoreDocument(h)
    PROVE  VetInv' /\ VettingStep
<1>1. UNCHANGED <<check, history, application>> /\ request' = [request EXCEPT ![h] = [@ EXCEPT !.op = "stored"]]
  BY DEF StoreDocument, Continue
<1>2. Checked' = Checked /\ Clear' = Clear /\ Approved' = Approved
  BY <1>1 DEF Checked, Clear, Approved, CheckValid, Status
<1>3. request[h] \in [op : {"upload", "stored"}, account : Applicants, document : Documents]
  <2>1. request[h] \in RequestRecord /\ request[h].op = "upload"
    BY DEF StoreDocument, VetInv, VetTypeOK
  <2> QED BY <2>1 DEF RequestRecord, Idle
<1>4. PICK r : r = [request[h] EXCEPT !.op = "stored"]
  OBVIOUS
<1>5. r \in RequestRecord /\ r.op = "stored"
  BY <1>3, <1>4 DEF RequestRecord
<1>6. request' = [request EXCEPT ![h] = r]
  BY <1>1, <1>4
<1>7. Seen(r)
  BY <1>5 DEF Seen
<1>8. Clear' \subseteq Checked' /\ Approved' \subseteq Checked' /\ Checked \subseteq Checked'
  BY <1>2 DEF VetInv, LogComesFirst
<1>9. LogComesFirst' /\ request' \in [Handlers -> RequestRecord]
  BY <1>5, <1>6, <1>7, <1>8, OneRequest
<1> QED BY <1>1, <1>2, <1>9 DEF VetInv, VetTypeOK, VettingStep

LEMMA DecisionRecorded ==
    ASSUME VetInv, NEW h \in Handlers, RecordDecision(h)
    PROVE  VetInv' /\ VettingStep
<1> DEFINE u == request[h].account
           row == [decision |-> request[h].decision, document |-> request[h].document]
<1>1. /\ request[h].op = "decide" /\ UNCHANGED <<check, application>>
      /\ history' = [history EXCEPT ![u] = Append(@, row)]
      /\ request' = [request EXCEPT ![h] = [@ EXCEPT !.op = "recorded"]]
  BY DEF RecordDecision, Continue
<1>2. request[h] \in [op : {"decide", "recorded"}, account : Applicants, decision : Decision,
                      document : Documents \cup {NoDocument}]
  <2>1. request[h] \in RequestRecord
    BY DEF VetInv, VetTypeOK
  <2> QED BY <1>1, <2>1 DEF RequestRecord, Idle
<1>3. u \in Applicants /\ row \in HistoryRow /\ row.decision = request[h].decision
  BY <1>2 DEF HistoryRow
<1>4. /\ history' \in [Applicants -> Seq(HistoryRow)] /\ Clear' = Clear /\ Approved' = Approved
      /\ Checked' = IF row.decision = "validated" THEN Checked \cup {u} ELSE Checked
  BY <1>1, <1>3, DecisionIsLogged
<1>5. PICK r : r = [request[h] EXCEPT !.op = "recorded"]
  OBVIOUS
<1>6. r \in RequestRecord /\ r.op = "recorded" /\ r.account = u /\ r.decision = request[h].decision
  BY <1>2, <1>5 DEF RequestRecord
<1>7. request' = [request EXCEPT ![h] = r]
  BY <1>1, <1>5
<1>8. Seen(r)
  BY <1>3, <1>4, <1>6 DEF Seen
<1>9. Clear' \subseteq Checked' /\ Approved' \subseteq Checked' /\ Checked \subseteq Checked'
  BY <1>4 DEF VetInv, LogComesFirst
<1>10. LogComesFirst' /\ request' \in [Handlers -> RequestRecord]
  BY <1>6, <1>7, <1>8, <1>9, OneRequest
<1>11. VettingStep
  BY <1>3, <1>4 DEF VettingStep
<1> QED BY <1>1, <1>4, <1>10, <1>11 DEF VetInv, VetTypeOK

LEMMA ApplicationSteps ==
    ASSUME VetInv, NEW h \in Handlers,
           SubmitApplication(h) \/ ApproveApplicationRow(h) \/ RejectApplicationRow(h)
    PROVE  VetInv' /\ VettingStep
<1> DEFINE u == request[h].account
<1>1. /\ u \in Applicants /\ request' = [request EXCEPT ![h] = Idle]
      /\ UNCHANGED <<check, history>>
  BY RequestShapes DEF SubmitApplication, ApproveApplicationRow, RejectApplicationRow,
     SaveApplication, End
<1>2. application[u] \in Seq(ApplicationStatus)
  BY <1>1 DEF VetInv, VetTypeOK
<1>3. PICK rows \in Seq(ApplicationStatus) :
        /\ application' = [application EXCEPT ![u] = rows]
        /\ \/ (\E k \in DOMAIN rows : rows[k] = "approved") => u \in Approved
           \/ u \in Checked
  <2>1. CASE SubmitApplication(h)
    <3> DEFINE rows == Append(application[u], "pending")
    <3>1. /\ rows \in Seq(ApplicationStatus)
          /\ \A k \in DOMAIN rows : k \in DOMAIN application[u] \/ rows[k] = "pending"
          /\ \A k \in DOMAIN application[u] : rows[k] = application[u][k]
      <4>1. "pending" \in ApplicationStatus
        BY DEF ApplicationStatus
      <4> QED BY <1>2, <4>1, AppendDomain
    <3>2. (\E k \in DOMAIN rows : rows[k] = "approved") => u \in Approved
      BY <1>1, <3>1 DEF Approved
    <3>3. application' = [application EXCEPT ![u] = rows]
      BY <2>1 DEF SubmitApplication
    <3> QED BY <3>1, <3>2, <3>3
  <2>2. CASE ApproveApplicationRow(h)
    <3> DEFINE rows == [application[u] EXCEPT ![request[h].row] = "approved"]
    <3>1. rows \in Seq(ApplicationStatus)
      <4>1. "approved" \in ApplicationStatus
        BY DEF ApplicationStatus
      <4> QED BY <1>2, <4>1, ReplaceDomain
    <3>2. application' = [application EXCEPT ![u] = rows]
      BY <2>2 DEF ApproveApplicationRow, SaveApplication
    <3>3. u \in Checked
      BY <2>2 DEF ApproveApplicationRow, SaveApplication, VetInv, LogComesFirst
    <3> QED BY <3>1, <3>2, <3>3
  <2>3. CASE RejectApplicationRow(h)
    <3> DEFINE rows == [application[u] EXCEPT ![request[h].row] = "rejected"]
    <3>1. /\ rows \in Seq(ApplicationStatus) /\ DOMAIN rows = DOMAIN application[u]
          /\ \A j \in DOMAIN application[u] :
                rows[j] = IF j = request[h].row THEN "rejected" ELSE application[u][j]
      <4>1. "rejected" \in ApplicationStatus
        BY DEF ApplicationStatus
      <4> QED BY <1>2, <4>1, ReplaceDomain
    <3>2. application' = [application EXCEPT ![u] = rows]
      BY <2>3 DEF RejectApplicationRow, SaveApplication
    <3>3. (\E k \in DOMAIN rows : rows[k] = "approved") => u \in Approved
      BY <1>1, <3>1 DEF Approved
    <3> QED BY <3>1, <3>2, <3>3
  <2> QED BY <2>1, <2>2, <2>3
<1>4. /\ application' \in [Applicants -> Seq(ApplicationStatus)]
      /\ Clear' = Clear /\ Checked' = Checked
      /\ Approved' = IF \E k \in DOMAIN rows : rows[k] = "approved"
                     THEN Approved \cup {u} ELSE Approved \ {u}
  BY <1>1, <1>3, ApplicationIsSaved
<1>5. u \in Approved => u \in Checked
  BY DEF VetInv, LogComesFirst
<1>6. VettingStep
  BY <1>1, <1>3, <1>4, <1>5 DEF VettingStep
<1>7. Clear' \subseteq Checked' /\ Approved' \subseteq Checked'
  BY <1>3, <1>4, <1>5 DEF VetInv, LogComesFirst
<1>8. Idle \in RequestRecord /\ Seen(Idle)
  BY RequestShapes DEF Seen
<1>9. LogComesFirst' /\ request' \in [Handlers -> RequestRecord]
  BY <1>1, <1>4, <1>7, <1>8, OneRequest
<1> QED BY <1>1, <1>4, <1>6, <1>9 DEF VetInv, VetTypeOK

LEMMA CheckTimesOut ==
    ASSUME VetInv, NEW u \in Applicants, CheckLapses(u)
    PROVE  VetInv' /\ VettingStep
<1> DEFINE Row == [status : CheckStatus, document : Documents \cup {NoDocument}]
<1>1. UNCHANGED <<history, application, request>>
  BY DEF CheckLapses
<1>2. PICK row : row = [check[u] EXCEPT !.status = "lapsed"]
  OBVIOUS
<1>3. check[u] \in Row
  BY DEF VetInv, VetTypeOK
<1>4. row \in Row /\ row.status = "lapsed"
  BY <1>2, <1>3 DEF CheckStatus
<1>5. check' = [check EXCEPT ![u] = row]
  BY <1>2 DEF CheckLapses
<1>6. /\ check' \in [Applicants -> Row] /\ Checked' = Checked /\ Approved' = Approved
      /\ Clear' = Clear \ {u}
  BY <1>1, <1>4, <1>5, CheckIsSaved
<1>7. LogComesFirst'
  BY <1>1, <1>6 DEF VetInv, LogComesFirst
<1> QED BY <1>1, <1>6, <1>7 DEF VetInv, VetTypeOK, VettingStep

LEMMA NextVet == VetInv /\ [ApplicationsNext]_applicationVars => VetInv' /\ VettingStep
<1> SUFFICES ASSUME VetInv, [ApplicationsNext]_applicationVars PROVE VetInv' /\ VettingStep
  OBVIOUS
<1>1. CASE UNCHANGED applicationVars
  BY <1>1 DEF applicationVars, VetInv, VetTypeOK, LogComesFirst, Checked, Clear, Approved,
     CheckValid, Status, VettingStep
<1>2. ASSUME NEW u \in Applicants, CheckLapses(u) PROVE VetInv' /\ VettingStep
  BY <1>2, CheckTimesOut
<1>3. ASSUME NEW h \in Handlers,
             \/ Die(h)
             \/ \E u \in Applicants :
                  \/ RequestBackgroundCheck(h, u)
                  \/ \E d \in Documents : UploadBackgroundCheck(h, u, d)
                  \/ \E decision \in {"validated", "rejected"} : DecideCheck(h, u, decision)
                  \/ Apply(h, u)
                  \/ \E k \in DOMAIN application[u], decision \in {"approved", "rejected"} :
                        DecideApplication(h, u, k, decision)
      PROVE  VetInv' /\ VettingStep
  <2>1. VetInv' /\ Checked' = Checked /\ Clear' = Clear /\ Approved' = Approved
    BY <1>3, StartsAndDeaths
  <2> QED BY <2>1 DEF VettingStep
<1>4. ASSUME NEW h \in Handlers,
             SaveRequested(h) \/ SubmitBackgroundCheck(h)
               \/ ValidateBackgroundCheck(h) \/ RejectBackgroundCheck(h)
      PROVE  VetInv' /\ VettingStep
  BY <1>4, CheckSteps
<1>5. ASSUME NEW h \in Handlers, StoreDocument(h) PROVE VetInv' /\ VettingStep
  BY <1>5, DocumentStored
<1>6. ASSUME NEW h \in Handlers, RecordDecision(h) PROVE VetInv' /\ VettingStep
  BY <1>6, DecisionRecorded
<1>7. ASSUME NEW h \in Handlers,
             SubmitApplication(h) \/ ApproveApplicationRow(h) \/ RejectApplicationRow(h)
      PROVE  VetInv' /\ VettingStep
  BY <1>7, ApplicationSteps
<1> QED BY <1>1, <1>2, <1>3, <1>4, <1>5, <1>6, <1>7 DEF ApplicationsNext

\* Asking, uploading, deciding and approving implement Vetting, whatever
\* requests cross each other and die: nobody counts as vetted, and nobody's
\* application is approved, before the log says their check was validated.
\* (applications.services:_record_decision, approve_application)
THEOREM ApplicationsImplementVetting == ApplicationsSpec => ImplementsVetting
<1>1. ApplicationsInit => VetInv /\ Abstract!VettingInit
  BY InitVet
<1>2. VetInv /\ [ApplicationsNext]_applicationVars
        => VetInv' /\ [Abstract!VettingNext]_(Abstract!vettingVars)
  BY NextVet, VettingAllowsIt
<1> QED BY <1>1, <1>2, PTL DEF ApplicationsSpec, ImplementsVetting, Abstract!VettingSpec

-----------------------------------------------------------------------------
(* Accounts whose requests come one after the other *)

Logged(u, d) == \E k \in DOMAIN history[u] : history[u][k].document = d

OpenRows(u) == {k \in DOMAIN application[u] : application[u][k] # "rejected"}

\* Storage has the document that awaits its decision, and no other.
Kept(u) ==
    /\ files[u] = {check[u].document} \ {NoDocument}
    /\ Status(u) = "submitted" <=> files[u] # {}

\* What the account's only request has found is still so when it writes.
StillSo(u, r) ==
    /\ r.op \notin {"stored", "recorded"} => Kept(u)
    /\ r.op \in {"request", "upload", "stored"} => Status(u) # "submitted"
    /\ r.op = "upload" => ~Logged(u, r.document)
    /\ r.op = "stored" => files[u] = {r.document}
    /\ r.op = "decide" => Status(u) = "submitted" /\ r.document = check[u].document
    /\ r.op = "recorded" => files[u] = {}
    /\ r.op = "apply" => OpenRows(u) = {}
    /\ r.op = "application" => /\ r.row \in DOMAIN application[u]
                               /\ application[u][r.row] = "pending"

\* No document in storage was decided on, none was twice, and one application
\* is open.
Tidy(u) ==
    /\ \A d \in files[u] : ~Logged(u, d)
    /\ \A j, k \in DOMAIN history[u] : history[u][j].document = history[u][k].document => j = k
    /\ \A j, k \in OpenRows(u) : j = k

Orderly(u) ==
    /\ \A g, h \in InFlight(u) : g = h
    /\ \A h \in InFlight(u) : StillSo(u, request[h])
    /\ InFlight(u) = {} => Kept(u)
    /\ Tidy(u)

ApplicationsIInv ==
    /\ VetInv
    /\ files \in [Applicants -> SUBSET Documents] /\ disturbed \subseteq Applicants
    /\ \A u \in Applicants : Len(application[u]) <= MaxApplications
    /\ \A u \in Applicants \ disturbed : Orderly(u)

LEMMA InitOrderly == ApplicationsInit => ApplicationsIInv
<1> SUFFICES ASSUME ApplicationsInit PROVE ApplicationsIInv
  OBVIOUS
<1>1. VetInv
  BY InitVet
<1>2. files \in [Applicants -> SUBSET Documents] /\ disturbed \subseteq Applicants
  BY DEF ApplicationsInit
<1>3. \A u \in Applicants : Len(application[u]) <= MaxApplications
  BY ApplicationsAssumption DEF ApplicationsInit
<1>4. ASSUME NEW u \in Applicants PROVE Orderly(u)
  <2>1. InFlight(u) = {}
    BY DEF ApplicationsInit, InFlight
  <2>2. Kept(u)
    BY DEF ApplicationsInit, Kept, Status
  <2>3. files[u] = {} /\ history[u] = <<>> /\ application[u] = <<>>
    BY DEF ApplicationsInit
  <2>4. Tidy(u)
    BY <2>3 DEF Tidy, OpenRows
  <2> QED BY <2>1, <2>2, <2>4 DEF Orderly
<1> QED BY <1>1, <1>2, <1>3, <1>4 DEF ApplicationsIInv

\* A step of one request, for its account: the others' rows stay.
OthersStayAsTheyAre(u) ==
    \A v \in Applicants \ {u} :
        /\ check'[v] = check[v] /\ files'[v] = files[v]
        /\ history'[v] = history[v] /\ application'[v] = application[v]

LEMMA RequestKeepsOrder ==
    ASSUME ApplicationsIInv, NEW h \in Handlers, NEW u \in Applicants, NEW r \in RequestRecord,
           request' = [request EXCEPT ![h] = r],
           request[h] = Idle \/ request[h].account = u,
           r = Idle \/ r.account = u,
           OthersStayAsTheyAre(u), disturbed \subseteq disturbed',
           u \notin disturbed' => /\ InFlight(u) \subseteq {h}
                                  /\ IF r = Idle THEN Kept(u)' ELSE StillSo(u, r)'
                                  /\ Tidy(u)'
    PROVE  \A v \in Applicants \ disturbed' : Orderly(v)'
<1>1. request \in [Handlers -> RequestRecord]
  BY DEF ApplicationsIInv, VetInv, VetTypeOK
<1>2. /\ request'[h] = r /\ \A g \in Handlers : g # h => request'[g] = request[g]
  BY <1>1
<1>3. ASSUME NEW v \in Applicants \ disturbed', v # u PROVE Orderly(v)'
  <2>1. Orderly(v)
    BY <1>3 DEF ApplicationsIInv
  <2>2. InFlight(v)' = InFlight(v)
    BY <1>2, <1>3 DEF InFlight
  <2>3. \A g \in InFlight(v) : request'[g] = request[g]
    BY <1>2, <1>3 DEF InFlight
  <2>4. /\ check'[v] = check[v] /\ files'[v] = files[v]
        /\ history'[v] = history[v] /\ application'[v] = application[v]
    BY <1>3 DEF OthersStayAsTheyAre
  <2>5. OpenRows(v)' = OpenRows(v) /\ (Kept(v)' <=> Kept(v)) /\ Status(v)' = Status(v)
        /\ \A d : Logged(v, d)' <=> Logged(v, d)
    BY <2>4 DEF OpenRows, Kept, Status, Logged
  <2>6. Tidy(v)'
    BY <2>1, <2>4, <2>5 DEF Orderly, Tidy
  <2>7. ASSUME NEW g \in InFlight(v) PROVE StillSo(v, request[g])'
    <3>1. StillSo(v, request[g])
      BY <2>1 DEF Orderly
    <3>2. request'[g] = request[g]
      BY <2>3
    <3> QED BY <2>4, <2>5, <3>1, <3>2 DEF StillSo
  <2> QED BY <2>1, <2>2, <2>5, <2>6, <2>7 DEF Orderly
<1>4. ASSUME u \notin disturbed' PROVE Orderly(u)'
  <2>1. InFlight(u)' = IF r = Idle THEN {} ELSE {h}
    BY <1>2, <1>4 DEF InFlight
  <2>2. IF r = Idle THEN Kept(u)' ELSE StillSo(u, request[h])'
    BY <1>2, <1>4
  <2>3. Tidy(u)'
    BY <1>4
  <2> QED BY <2>1, <2>2, <2>3 DEF Orderly
<1> QED BY <1>3, <1>4

\* A request starts.
LEMMA StartKeepsOrder ==
    ASSUME ApplicationsIInv, NEW h \in Handlers, NEW u \in Applicants, NEW r \in RequestRecord,
           r # Idle, r.account = u, Start(h, u, r),
           Kept(u) => StillSo(u, r)
    PROVE  (\A v \in Applicants \ disturbed' : Orderly(v)') /\ disturbed' \subseteq Applicants
<1>1. /\ request[h] = Idle /\ request' = [request EXCEPT ![h] = r]
      /\ disturbed' = IF InFlight(u) # {} THEN disturbed \cup {u} ELSE disturbed
      /\ UNCHANGED <<check, files, history, application>>
  BY DEF Start
<1>2. disturbed \subseteq disturbed' /\ disturbed' \subseteq Applicants
  BY <1>1 DEF ApplicationsIInv
<1>3. ASSUME u \notin disturbed'
      PROVE  InFlight(u) = {} /\ StillSo(u, r)' /\ Tidy(u)'
  <2>1. InFlight(u) = {} /\ u \notin disturbed
    BY <1>1, <1>3
  <2>2. Orderly(u)
    BY <2>1 DEF ApplicationsIInv
  <2>3. StillSo(u, r) /\ Tidy(u)
    BY <2>1, <2>2 DEF Orderly
  <2>4. StillSo(u, r)' /\ Tidy(u)'
    BY <1>1, <2>3 DEF StillSo, Tidy, Kept, Logged, OpenRows, Status
  <2> QED BY <2>1, <2>4
<1>4. OthersStayAsTheyAre(u)
  BY <1>1 DEF OthersStayAsTheyAre
<1> HIDE DEF Start
<1> QED BY <1>1, <1>2, <1>3, <1>4, RequestKeepsOrder

\* The worker of a request dies.
LEMMA DeathKeepsOrder ==
    ASSUME ApplicationsIInv, NEW h \in Handlers, Die(h)
    PROVE  (\A v \in Applicants \ disturbed' : Orderly(v)') /\ disturbed' \subseteq Applicants
<1>1. PICK u \in Applicants : u = request[h].account
  BY RequestShapes DEF Die, ApplicationsIInv
<1>2. /\ request' = [request EXCEPT ![h] = Idle] /\ disturbed' = disturbed \cup {u}
      /\ UNCHANGED <<check, files, history, application>>
  BY <1>1 DEF Die, End
<1>3. Idle \in RequestRecord
  BY RequestShapes DEF ApplicationsIInv
<1>4. OthersStayAsTheyAre(u)
  BY <1>2 DEF OthersStayAsTheyAre
<1> QED BY <1>1, <1>2, <1>3, <1>4, RequestKeepsOrder DEF ApplicationsIInv

LEMMA StartsKeepOrder ==
    ASSUME ApplicationsIInv, NEW h \in Handlers, NEW u \in Applicants,
           \/ RequestBackgroundCheck(h, u)
           \/ \E d \in Documents : UploadBackgroundCheck(h, u, d)
           \/ \E decision \in {"validated", "rejected"} : DecideCheck(h, u, decision)
           \/ Apply(h, u)
           \/ \E k \in DOMAIN application[u], decision \in {"approved", "rejected"} :
                 DecideApplication(h, u, k, decision)
    PROVE  (\A v \in Applicants \ disturbed' : Orderly(v)') /\ disturbed' \subseteq Applicants
<1>1. CASE RequestBackgroundCheck(h, u)
  <2> DEFINE r == [op |-> "request", account |-> u]
  <2>1. r \in RequestRecord /\ r # Idle /\ r.account = u /\ r.op = "request"
    BY DEF RequestRecord, Idle
  <2>2. Start(h, u, r) /\ Status(u) # "submitted"
    BY <1>1 DEF RequestBackgroundCheck
  <2> HIDE DEF r
  <2>3. Kept(u) => StillSo(u, r)
    BY <2>1, <2>2 DEF StillSo
  <2> QED BY <2>1, <2>2, <2>3, StartKeepsOrder
<1>2. ASSUME NEW d \in Documents, UploadBackgroundCheck(h, u, d)
      PROVE  (\A v \in Applicants \ disturbed' : Orderly(v)') /\ disturbed' \subseteq Applicants
  <2> DEFINE r == [op |-> "upload", account |-> u, document |-> d]
  <2>1. r \in RequestRecord /\ r # Idle /\ r.account = u /\ r.op = "upload" /\ r.document = d
    BY DEF RequestRecord, Idle
  <2>2. Start(h, u, r) /\ Status(u) # "submitted" /\ ~Logged(u, d)
    BY <1>2 DEF UploadBackgroundCheck, CanUpload, Logged
  <2> HIDE DEF r
  <2>3. Kept(u) => StillSo(u, r)
    BY <2>1, <2>2 DEF StillSo
  <2> QED BY <2>1, <2>2, <2>3, StartKeepsOrder
<1>3. ASSUME NEW decision \in Decision, DecideCheck(h, u, decision)
      PROVE  (\A v \in Applicants \ disturbed' : Orderly(v)') /\ disturbed' \subseteq Applicants
  <2> DEFINE r == [op |-> "decide", account |-> u, decision |-> decision,
                   document |-> check[u].document]
  <2>1. check[u].document \in Documents \cup {NoDocument}
    BY DEF ApplicationsIInv, VetInv, VetTypeOK
  <2>2. /\ r \in RequestRecord /\ r # Idle /\ r.account = u /\ r.op = "decide"
        /\ r.document = check[u].document
    BY <2>1 DEF RequestRecord, Idle
  <2>3. Start(h, u, r) /\ Status(u) = "submitted"
    BY <1>3 DEF DecideCheck
  <2> HIDE DEF r
  <2>4. Kept(u) => StillSo(u, r)
    BY <2>2, <2>3 DEF StillSo
  <2> QED BY <2>2, <2>3, <2>4, StartKeepsOrder
<1>4. CASE Apply(h, u)
  <2> DEFINE r == [op |-> "apply", account |-> u]
  <2>1. r \in RequestRecord /\ r # Idle /\ r.account = u /\ r.op = "apply"
    BY DEF RequestRecord, Idle
  <2>2. Start(h, u, r) /\ ~HasOpenApplication(u)
    BY <1>4 DEF Apply
  <2>3. OpenRows(u) = {}
    <3>1. application[u] \in Seq(ApplicationStatus)
      BY DEF ApplicationsIInv, VetInv, VetTypeOK
    <3>2. \A k \in DOMAIN application[u] : application[u][k] \in ApplicationStatus
      BY <3>1
    <3> QED BY <2>2, <3>2 DEF HasOpenApplication, OpenRows, ApplicationStatus
  <2> HIDE DEF r
  <2>4. Kept(u) => StillSo(u, r)
    BY <2>1, <2>3 DEF StillSo
  <2> QED BY <2>1, <2>2, <2>4, StartKeepsOrder
<1>5. ASSUME NEW k \in DOMAIN application[u], NEW decision \in {"approved", "rejected"},
             DecideApplication(h, u, k, decision)
      PROVE  (\A v \in Applicants \ disturbed' : Orderly(v)') /\ disturbed' \subseteq Applicants
  <2> DEFINE r == [op |-> "application", account |-> u, row |-> k, decision |-> decision]
  <2>1. k \in Nat
    BY DEF ApplicationsIInv, VetInv, VetTypeOK
  <2>2. r \in RequestRecord /\ r # Idle /\ r.account = u /\ r.op = "application" /\ r.row = k
    BY <2>1 DEF RequestRecord, Idle
  <2>3. Start(h, u, r) /\ application[u][k] = "pending"
    BY <1>5 DEF DecideApplication
  <2> HIDE DEF r
  <2>4. Kept(u) => StillSo(u, r)
    BY <2>2, <2>3 DEF StillSo
  <2> QED BY <2>2, <2>3, <2>4, StartKeepsOrder
<1> QED BY <1>1, <1>2, <1>3, <1>4, <1>5 DEF Decision

\* A request that has its account for itself goes on: what it found is so.
LEMMA OnlyRequest ==
    ASSUME ApplicationsIInv, NEW h \in Handlers, NEW u \in Applicants,
           request[h] # Idle, request[h].account = u, u \notin disturbed
    PROVE  InFlight(u) = {h} /\ StillSo(u, request[h]) /\ Tidy(u)
<1>1. Orderly(u)
  BY DEF ApplicationsIInv
<1>2. h \in InFlight(u)
  BY DEF InFlight
<1> QED BY <1>1, <1>2 DEF Orderly

\* The columns of the account's check are saved, and the request ends.
LEMMA ChecksKeepOrder ==
    ASSUME ApplicationsIInv, NEW h \in Handlers,
           SaveRequested(h) \/ SubmitBackgroundCheck(h)
             \/ ValidateBackgroundCheck(h) \/ RejectBackgroundCheck(h)
    PROVE  \A v \in Applicants \ disturbed' : Orderly(v)'
<1>1. request[h].op \in {"request", "stored", "recorded"}
  BY DEF SaveRequested, SubmitBackgroundCheck, ValidateBackgroundCheck, RejectBackgroundCheck,
         SaveDecision
<1>2. request[h] # Idle
  BY <1>1 DEF Idle
<1>3. PICK u \in Applicants : u = request[h].account
  BY <1>2, RequestShapes DEF ApplicationsIInv
<1>4. /\ request' = [request EXCEPT ![h] = Idle]
      /\ UNCHANGED <<files, history, application, disturbed>>
  BY DEF SaveRequested, SubmitBackgroundCheck, ValidateBackgroundCheck, RejectBackgroundCheck,
         SaveDecision, End
<1>5. /\ \A v \in Applicants \ {u} : check'[v] = check[v]
      /\ \/ /\ request[h].op = "request" /\ check'[u].status = "requested"
            /\ check'[u].document = check[u].document
         \/ /\ request[h].op = "stored" /\ check'[u].status = "submitted"
            /\ check'[u].document = request[h].document
         \/ /\ request[h].op = "recorded" /\ check'[u].status # "submitted"
            /\ check'[u].document = NoDocument
  <2>1. check \in [Applicants -> [status : CheckStatus, document : Documents \cup {NoDocument}]]
    BY DEF ApplicationsIInv, VetInv, VetTypeOK
  <2>2. CASE SaveRequested(h)
    <3>1. check' = [check EXCEPT ![u].status = "requested"] /\ request[h].op = "request"
      BY <1>3, <2>2 DEF SaveRequested
    <3> QED BY <2>1, <3>1
  <2>3. CASE SubmitBackgroundCheck(h)
    <3>1. /\ request[h].op = "stored"
          /\ check' = [check EXCEPT ![u] = [status |-> "submitted", document |-> request[h].document]]
      BY <1>3, <2>3 DEF SubmitBackgroundCheck
    <3> QED BY <2>1, <3>1
  <2>4. CASE ValidateBackgroundCheck(h) \/ RejectBackgroundCheck(h)
    <3>1. PICK decision \in Decision :
            /\ request[h].op = "recorded"
            /\ check' = [check EXCEPT ![u] = [status |-> decision, document |-> NoDocument]]
      BY <1>3, <2>4 DEF ValidateBackgroundCheck, RejectBackgroundCheck, SaveDecision, Decision
    <3> QED BY <2>1, <3>1 DEF Decision
  <2> QED BY <2>2, <2>3, <2>4
<1>6. ASSUME u \notin disturbed'
      PROVE  InFlight(u) = {h} /\ Kept(u)' /\ Tidy(u)'
  <2>1. InFlight(u) = {h} /\ StillSo(u, request[h]) /\ Tidy(u)
    BY <1>2, <1>3, <1>4, <1>6, OnlyRequest
  <2>2. Tidy(u)'
    BY <1>4, <2>1 DEF Tidy, Logged, OpenRows
  <2>3. Kept(u)'
    <3>1. files'[u] = files[u]
      BY <1>4
    <3>2. request[h].op = "stored" => request[h].document # NoDocument
      BY RequestShapes, ApplicationsAssumption DEF ApplicationsIInv
    <3> QED BY <1>5, <2>1, <3>1, <3>2 DEF StillSo, Kept, Status
  <2> QED BY <2>1, <2>2, <2>3
<1>7. OthersStayAsTheyAre(u)
  BY <1>4, <1>5 DEF OthersStayAsTheyAre
<1>8. Idle \in RequestRecord
  BY RequestShapes DEF ApplicationsIInv
<1> QED BY <1>3, <1>4, <1>6, <1>7, <1>8, RequestKeepsOrder

\* The document is put into storage.
LEMMA StoringKeepsOrder ==
    ASSUME ApplicationsIInv, NEW h \in Handlers, StoreDocument(h)
    PROVE  /\ \A v \in Applicants \ disturbed' : Orderly(v)'
           /\ files' \in [Applicants -> SUBSET Documents]
<1> DEFINE d == request[h].document
<1>1. /\ request[h].op = "upload" /\ request[h] # Idle
      /\ UNCHANGED <<check, history, application, disturbed>>
      /\ request' = [request EXCEPT ![h] = [request[h] EXCEPT !.op = "stored"]]
  BY DEF StoreDocument, Continue, Idle
<1>2. PICK u \in Applicants : u = request[h].account
  BY <1>1, RequestShapes DEF ApplicationsIInv
<1>3. d \in Documents
  BY <1>1, RequestShapes DEF ApplicationsIInv
<1>4. /\ files' \in [Applicants -> SUBSET Documents]
      /\ \A v \in Applicants : files'[v] = IF v = u THEN files[u] \cup {d} ELSE files[v]
  <2>1. files' = [files EXCEPT ![u] = files[u] \cup {d}]
    BY <1>2 DEF StoreDocument
  <2> QED BY <1>3, <2>1 DEF ApplicationsIInv
<1>5. PICK r : r = [request[h] EXCEPT !.op = "stored"]
  OBVIOUS
<1>6. r \in RequestRecord /\ r.op = "stored" /\ r.account = u /\ r.document = d /\ r # Idle
  <2>1. request[h] \in [op : {"upload", "stored"}, account : Applicants, document : Documents]
    <3>1. request[h] \in RequestRecord
      BY RequestShapes DEF ApplicationsIInv
    <3> QED BY <1>1, <3>1 DEF RequestRecord, Idle
  <2> QED BY <1>2, <1>5, <2>1 DEF RequestRecord, Idle
<1>7. ASSUME u \notin disturbed'
      PROVE  InFlight(u) = {h} /\ StillSo(u, r)' /\ Tidy(u)'
  <2>1. InFlight(u) = {h} /\ StillSo(u, request[h]) /\ Tidy(u)
    BY <1>1, <1>2, <1>7, OnlyRequest
  <2>2. files[u] = {} /\ ~Logged(u, d) /\ Status(u) # "submitted"
    BY <1>1, <2>1 DEF StillSo, Kept
  <2>3. files'[u] = {d}
    BY <1>4, <2>2
  <2>4. Tidy(u)'
    BY <1>1, <2>1, <2>2, <2>3 DEF Tidy, Logged, OpenRows
  <2>5. StillSo(u, r)'
    BY <1>1, <1>6, <2>2, <2>3 DEF StillSo, Status
  <2> QED BY <2>1, <2>4, <2>5
<1>8. OthersStayAsTheyAre(u)
  BY <1>1, <1>4 DEF OthersStayAsTheyAre
<1>9. request' = [request EXCEPT ![h] = r]
  BY <1>1, <1>5
<1> HIDE DEF d
<1>10. \A v \in Applicants \ disturbed' : Orderly(v)'
  BY <1>1, <1>2, <1>6, <1>7, <1>8, <1>9, RequestKeepsOrder
<1> QED BY <1>4, <1>10

\* The document goes and the decision is logged.
LEMMA RecordingKeepsOrder ==
    ASSUME ApplicationsIInv, NEW h \in Handlers, RecordDecision(h)
    PROVE  /\ \A v \in Applicants \ disturbed' : Orderly(v)'
           /\ files' \in [Applicants -> SUBSET Documents]
<1> DEFINE d == request[h].document
           row == [decision |-> request[h].decision, document |-> d]
<1>1. /\ request[h].op = "decide" /\ request[h] # Idle
      /\ UNCHANGED <<check, application, disturbed>>
      /\ request' = [request EXCEPT ![h] = [request[h] EXCEPT !.op = "recorded"]]
  BY DEF RecordDecision, Continue, Idle
<1>2. PICK u \in Applicants : u = request[h].account
  BY <1>1, RequestShapes DEF ApplicationsIInv
<1>3. request[h] \in [op : {"decide", "recorded"}, account : Applicants, decision : Decision,
                      document : Documents \cup {NoDocument}]
  <2>1. request[h] \in RequestRecord
    BY RequestShapes DEF ApplicationsIInv
  <2> QED BY <1>1, <2>1 DEF RequestRecord, Idle
<1>4. /\ files' \in [Applicants -> SUBSET Documents]
      /\ \A v \in Applicants : files'[v] = IF v = u THEN files[u] \ {d} ELSE files[v]
  <2>1. files' = [files EXCEPT ![u] = files[u] \ {d}]
    BY <1>2 DEF RecordDecision
  <2> QED BY <2>1 DEF ApplicationsIInv
<1>5. row \in HistoryRow /\ row.document = d
  BY <1>3 DEF HistoryRow
<1>6. PICK log \in Seq(HistoryRow) :
        /\ history' = [history EXCEPT ![u] = log]
        /\ Len(log) = Len(history[u]) + 1 /\ Len(history[u]) \in Nat
        /\ log[Len(history[u]) + 1] = row
        /\ \A k \in 1..Len(history[u]) : log[k] = history[u][k]
  <2> DEFINE log == Append(history[u], row)
  <2>1. history' = [history EXCEPT ![u] = log]
    BY <1>2 DEF RecordDecision
  <2>2. history[u] \in Seq(HistoryRow)
    BY DEF ApplicationsIInv, VetInv, VetTypeOK
  <2> HIDE DEF row
  <2>3. /\ log \in Seq(HistoryRow) /\ Len(log) = Len(history[u]) + 1 /\ Len(history[u]) \in Nat
        /\ log[Len(history[u]) + 1] = row
        /\ \A k \in 1..Len(history[u]) : log[k] = history[u][k]
    BY <1>5, <2>2
  <2> QED BY <2>1, <2>3
<1>7. \A v \in Applicants : history'[v] = IF v = u THEN log ELSE history[v]
  BY <1>6 DEF ApplicationsIInv, VetInv, VetTypeOK
<1>8. PICK r : r = [request[h] EXCEPT !.op = "recorded"]
  OBVIOUS
<1>9. r \in RequestRecord /\ r.op = "recorded" /\ r.account = u /\ r # Idle
  BY <1>2, <1>3, <1>8 DEF RequestRecord, Idle
<1>10. ASSUME u \notin disturbed'
       PROVE  InFlight(u) = {h} /\ StillSo(u, r)' /\ Tidy(u)'
  <2>1. InFlight(u) = {h} /\ StillSo(u, request[h]) /\ Tidy(u)
    BY <1>1, <1>2, <1>10, OnlyRequest
  <2>2. files[u] = {d} /\ Status(u) = "submitted"
    BY <1>1, <2>1 DEF StillSo, Kept
  <2>3. ~Logged(u, d)
    BY <2>1, <2>2 DEF Tidy
  <2>4. files'[u] = {}
    BY <1>4, <2>2
  <2>5. StillSo(u, r)'
    BY <1>9, <2>4 DEF StillSo
  <2>6. DOMAIN history[u] = 1..Len(history[u]) /\ DOMAIN log = 1..(Len(history[u]) + 1)
    BY <1>6 DEF ApplicationsIInv, VetInv, VetTypeOK
  <2>7. \A k \in DOMAIN history[u] : history[u][k].document # d
    BY <2>3 DEF Logged
  <2>8. \A j, k \in DOMAIN history[u] : history[u][j].document = history[u][k].document => j = k
    BY <2>1 DEF Tidy
  <2>9. ASSUME NEW j \in DOMAIN log, NEW k \in DOMAIN log, log[j].document = log[k].document
        PROVE  j = k
    <3> HIDE DEF row, d
    <3>1. \A i \in DOMAIN log :
             \/ i \in DOMAIN history[u] /\ log[i] = history[u][i]
             \/ i = Len(history[u]) + 1 /\ log[i].document = d
      <4> DEFINE n == Len(history[u])
      <4>1. n \in Nat /\ \A i \in 1..(n + 1) : i \in 1..n \/ i = n + 1
        BY <1>6
      <4>2. log[n + 1].document = d
        BY <1>5, <1>6
      <4> QED BY <1>6, <2>6, <4>1, <4>2
    <3>2. CASE j \in DOMAIN history[u] /\ k \in DOMAIN history[u]
      BY <1>6, <2>6, <2>8, <2>9, <3>2
    <3>3. CASE ~(j \in DOMAIN history[u] /\ k \in DOMAIN history[u])
      BY <2>7, <2>9, <3>1, <3>3
    <3> QED BY <3>2, <3>3
  <2>10. history'[u] = log /\ OpenRows(u)' = OpenRows(u)
    BY <1>1, <1>7 DEF OpenRows
  <2>11. Tidy(u)'
    <3>1. \A j, k \in OpenRows(u) : j = k
      BY <2>1 DEF Tidy
    <3> QED BY <2>4, <2>9, <2>10, <3>1 DEF Tidy
  <2> QED BY <2>1, <2>5, <2>11
<1>11. OthersStayAsTheyAre(u)
  BY <1>1, <1>4, <1>7 DEF OthersStayAsTheyAre
<1>12. request' = [request EXCEPT ![h] = r]
  BY <1>1, <1>8
<1> HIDE DEF d, row
<1>13. \A v \in Applicants \ disturbed' : Orderly(v)'
  BY <1>1, <1>2, <1>9, <1>10, <1>11, <1>12, RequestKeepsOrder
<1> QED BY <1>4, <1>13

\* An application is submitted, or decided on.
LEMMA ApplicationsKeepOrder ==
    ASSUME ApplicationsIInv, NEW h \in Handlers,
           SubmitApplication(h) \/ ApproveApplicationRow(h) \/ RejectApplicationRow(h)
    PROVE  /\ \A v \in Applicants \ disturbed' : Orderly(v)'
           /\ \A v \in Applicants : Len(application'[v]) <= MaxApplications
<1>1. /\ request[h].op \in {"apply", "application"} /\ request[h] # Idle
      /\ request' = [request EXCEPT ![h] = Idle]
      /\ UNCHANGED <<check, files, history, disturbed>>
  BY DEF SubmitApplication, ApproveApplicationRow, RejectApplicationRow, SaveApplication, End, Idle
<1>2. PICK u \in Applicants : u = request[h].account
  BY <1>1, RequestShapes DEF ApplicationsIInv
<1>3. /\ application[u] \in Seq(ApplicationStatus) /\ Len(application[u]) \in Nat
      /\ DOMAIN application[u] = 1..Len(application[u])
      /\ Len(application[u]) <= MaxApplications /\ MaxApplications \in Nat
  BY ApplicationsAssumption DEF ApplicationsIInv, VetInv, VetTypeOK
<1>4. PICK rows \in Seq(ApplicationStatus) :
        /\ application' = [application EXCEPT ![u] = rows]
        /\ Len(rows) <= MaxApplications
        /\ \/ /\ request[h].op = "apply"
              /\ \A k \in DOMAIN rows : k = Len(application[u]) + 1
                                        \/ (k \in DOMAIN application[u] /\ rows[k] = application[u][k])
           \/ /\ request[h].op = "application" /\ DOMAIN rows = DOMAIN application[u]
              /\ \A k \in DOMAIN rows : k = request[h].row \/ rows[k] = application[u][k]
  <2>1. CASE SubmitApplication(h)
    <3> DEFINE rows == Append(application[u], "pending")
    <3>1. /\ application' = [application EXCEPT ![u] = rows] /\ request[h].op = "apply"
          /\ Len(application[u]) < MaxApplications
      BY <1>2, <2>1 DEF SubmitApplication
    <3>2. "pending" \in ApplicationStatus
      BY DEF ApplicationStatus
    <3>3. /\ rows \in Seq(ApplicationStatus) /\ Len(rows) = Len(application[u]) + 1
          /\ \A k \in 1..Len(application[u]) : rows[k] = application[u][k]
      BY <1>3, <3>2
    <3>4. DOMAIN rows = 1..(Len(application[u]) + 1)
      BY <1>3, <3>3
    <3>5. Len(rows) <= MaxApplications
      BY <1>3, <3>1, <3>3
    <3>6. \A k \in DOMAIN rows : k = Len(application[u]) + 1
                                 \/ (k \in DOMAIN application[u] /\ rows[k] = application[u][k])
      <4> HIDE DEF rows
      <4> QED BY <1>3, <3>3, <3>4
    <3> QED BY <3>1, <3>3, <3>5, <3>6
  <2>2. CASE ApproveApplicationRow(h) \/ RejectApplicationRow(h)
    <3>1. PICK decision \in ApplicationStatus :
            /\ request[h].op = "application"
            /\ application' = [application EXCEPT ![u][request[h].row] = decision]
      BY <1>2, <2>2 DEF ApproveApplicationRow, RejectApplicationRow, SaveApplication, ApplicationStatus
    <3> DEFINE rows == [application[u] EXCEPT ![request[h].row] = decision]
    <3>2. application' = [application EXCEPT ![u] = rows]
      BY <3>1
    <3>3. /\ rows \in Seq(ApplicationStatus) /\ DOMAIN rows = DOMAIN application[u]
          /\ \A k \in DOMAIN application[u] :
                rows[k] = IF k = request[h].row THEN decision ELSE application[u][k]
      BY <1>3, ReplaceDomain
    <3>4. Len(rows) = Len(application[u])
      <4> HIDE DEF rows
      <4> QED BY <1>3, <3>3
    <3> HIDE DEF rows
    <3>5. Len(rows) <= MaxApplications
      BY <1>3, <3>4
    <3>6. \A k \in DOMAIN rows : k = request[h].row \/ rows[k] = application[u][k]
      BY <3>3
    <3> QED BY <3>1, <3>2, <3>3, <3>5, <3>6
  <2> QED BY <2>1, <2>2
<1>5. \A v \in Applicants : application'[v] = IF v = u THEN rows ELSE application[v]
  BY <1>4 DEF ApplicationsIInv, VetInv, VetTypeOK
<1>6. ASSUME u \notin disturbed'
      PROVE  InFlight(u) = {h} /\ Kept(u)' /\ Tidy(u)'
  <2>1. InFlight(u) = {h} /\ StillSo(u, request[h]) /\ Tidy(u)
    BY <1>1, <1>2, <1>6, OnlyRequest
  <2>2. Kept(u)'
    BY <1>1, <2>1 DEF StillSo, Kept, Status
  <2>3. OpenRows(u)' = {k \in DOMAIN rows : rows[k] # "rejected"}
    BY <1>5 DEF OpenRows
  <2>4. \A j, k \in OpenRows(u)' : j = k
    <3>1. CASE request[h].op = "apply"
      <4>1. \A k \in DOMAIN application[u] : application[u][k] = "rejected"
        BY <2>1, <3>1 DEF StillSo, OpenRows
      <4>2. \A k \in OpenRows(u)' : k = Len(application[u]) + 1
        BY <1>4, <2>3, <3>1, <4>1
      <4> QED BY <4>2
    <3>2. CASE request[h].op = "application"
      <4>1. request[h].row \in OpenRows(u)
        BY <2>1, <3>2 DEF StillSo, OpenRows
      <4>2. OpenRows(u)' \subseteq OpenRows(u)
        BY <1>4, <2>3, <3>2, <4>1 DEF OpenRows
      <4>3. \A j, k \in OpenRows(u) : j = k
        BY <2>1 DEF Tidy
      <4> QED BY <4>2, <4>3
    <3> QED BY <1>1, <3>1, <3>2
  <2>5. Tidy(u)'
    BY <1>1, <2>1, <2>4 DEF Tidy, Logged
  <2> QED BY <2>1, <2>2, <2>5
<1>7. OthersStayAsTheyAre(u)
  BY <1>1, <1>5 DEF OthersStayAsTheyAre
<1>8. Idle \in RequestRecord
  BY RequestShapes DEF ApplicationsIInv
<1>9. \A v \in Applicants \ disturbed' : Orderly(v)'
  BY <1>1, <1>2, <1>6, <1>7, <1>8, RequestKeepsOrder
<1>10. \A v \in Applicants : Len(application'[v]) <= MaxApplications
  BY <1>4, <1>5 DEF ApplicationsIInv
<1> QED BY <1>9, <1>10

\* A check lapses: whoever has found it valid goes on.
LEMMA LapsesKeepOrder ==
    ASSUME ApplicationsIInv, NEW u \in Applicants, CheckLapses(u)
    PROVE  \A v \in Applicants \ disturbed' : Orderly(v)'
<1>1. /\ UNCHANGED <<files, history, application, request, disturbed>>
      /\ Status(u) = "validated" /\ check' = [check EXCEPT ![u].status = "lapsed"]
  BY DEF CheckLapses, CheckValid
<1>2. /\ \A v \in Applicants : check'[v].document = check[v].document
      /\ \A v \in Applicants : Status(v)' = "submitted" <=> Status(v) = "submitted"
  <2>1. check \in [Applicants -> [status : CheckStatus, document : Documents \cup {NoDocument}]]
    BY DEF ApplicationsIInv, VetInv, VetTypeOK
  <2> QED BY <1>1, <2>1 DEF Status
<1>3. ASSUME NEW v \in Applicants \ disturbed' PROVE Orderly(v)'
  <2>1. Orderly(v)
    BY <1>1, <1>3 DEF ApplicationsIInv
  <2>2. InFlight(v)' = InFlight(v) /\ OpenRows(v)' = OpenRows(v) /\ (Tidy(v)' <=> Tidy(v))
        /\ \A d : Logged(v, d)' <=> Logged(v, d)
    BY <1>1 DEF InFlight, OpenRows, Tidy, Logged
  <2>3. Kept(v)' <=> Kept(v)
    BY <1>1, <1>2 DEF Kept
  <2>4. ASSUME NEW g \in InFlight(v) PROVE StillSo(v, request[g])'
    <3>1. StillSo(v, request[g])
      BY <2>1 DEF Orderly
    <3> QED BY <1>1, <1>2, <2>2, <2>3, <3>1 DEF StillSo
  <2> QED BY <1>1, <2>1, <2>2, <2>3, <2>4 DEF Orderly
<1> QED BY <1>3

LEMMA NextOrderly ==
    ApplicationsIInv /\ [ApplicationsNext]_applicationVars => ApplicationsIInv'
<1> SUFFICES ASSUME ApplicationsIInv, [ApplicationsNext]_applicationVars PROVE ApplicationsIInv'
  OBVIOUS
<1> DEFINE Goal == /\ \A v \in Applicants \ disturbed' : Orderly(v)'
                   /\ files' \in [Applicants -> SUBSET Documents] /\ disturbed' \subseteq Applicants
                   /\ \A v \in Applicants : Len(application'[v]) <= MaxApplications
<1>1. VetInv'
  BY NextVet DEF ApplicationsIInv
<1>2. Goal
  <2>1. CASE UNCHANGED applicationVars
    <3>1. UNCHANGED <<check, files, history, application, request, disturbed>>
      BY <2>1 DEF applicationVars
    <3>2. \A v \in Applicants : Orderly(v)' <=> Orderly(v)
      BY <3>1 DEF Orderly, InFlight, StillSo, Kept, Tidy, Logged, OpenRows, Status
    <3> QED BY <3>1, <3>2 DEF ApplicationsIInv
  <2>2. ASSUME NEW u \in Applicants, CheckLapses(u) PROVE Goal
    <3>1. UNCHANGED <<files, application, disturbed>>
      BY <2>2 DEF CheckLapses
    <3> QED BY <2>2, <3>1, LapsesKeepOrder DEF ApplicationsIInv
  <2>3. ASSUME NEW h \in Handlers, Die(h) PROVE Goal
    <3>1. UNCHANGED <<files, application>>
      BY <2>3 DEF Die
    <3> QED BY <2>3, <3>1, DeathKeepsOrder DEF ApplicationsIInv
  <2>4. ASSUME NEW h \in Handlers, NEW u \in Applicants,
               \/ RequestBackgroundCheck(h, u)
               \/ \E d \in Documents : UploadBackgroundCheck(h, u, d)
               \/ \E decision \in {"validated", "rejected"} : DecideCheck(h, u, decision)
               \/ Apply(h, u)
               \/ \E k \in DOMAIN application[u], decision \in {"approved", "rejected"} :
                     DecideApplication(h, u, k, decision)
        PROVE  Goal
    <3>1. UNCHANGED <<files, application>>
      BY <2>4 DEF RequestBackgroundCheck, UploadBackgroundCheck, DecideCheck, Apply,
                  DecideApplication, Start
    <3> QED BY <2>4, <3>1, StartsKeepOrder DEF ApplicationsIInv
  <2>5. ASSUME NEW h \in Handlers,
               SaveRequested(h) \/ SubmitBackgroundCheck(h)
                 \/ ValidateBackgroundCheck(h) \/ RejectBackgroundCheck(h)
        PROVE  Goal
    <3>1. UNCHANGED <<files, application, disturbed>>
      BY <2>5 DEF SaveRequested, SubmitBackgroundCheck, ValidateBackgroundCheck,
                  RejectBackgroundCheck, SaveDecision
    <3> QED BY <2>5, <3>1, ChecksKeepOrder DEF ApplicationsIInv
  <2>6. ASSUME NEW h \in Handlers, StoreDocument(h) PROVE Goal
    <3>1. UNCHANGED <<application, disturbed>>
      BY <2>6 DEF StoreDocument
    <3> QED BY <2>6, <3>1, StoringKeepsOrder DEF ApplicationsIInv
  <2>7. ASSUME NEW h \in Handlers, RecordDecision(h) PROVE Goal
    <3>1. UNCHANGED <<application, disturbed>>
      BY <2>7 DEF RecordDecision
    <3> QED BY <2>7, <3>1, RecordingKeepsOrder DEF ApplicationsIInv
  <2>8. ASSUME NEW h \in Handlers,
               SubmitApplication(h) \/ ApproveApplicationRow(h) \/ RejectApplicationRow(h)
        PROVE  Goal
    <3>1. UNCHANGED <<files, disturbed>>
      BY <2>8 DEF SubmitApplication, ApproveApplicationRow, RejectApplicationRow, SaveApplication
    <3> QED BY <2>8, <3>1, ApplicationsKeepOrder DEF ApplicationsIInv
  <2> HIDE DEF Goal
  <2> QED BY <2>1, <2>2, <2>3, <2>4, <2>5, <2>6, <2>7, <2>8 DEF ApplicationsNext
<1> QED BY <1>1, <1>2 DEF ApplicationsIInv

LEMMA OrderlyEnough == ApplicationsIInv => ApplicationsInv
<1> SUFFICES ASSUME ApplicationsIInv PROVE ApplicationsInv
  OBVIOUS
<1>1. ApplicationsTypeOK
  <2>1. ASSUME NEW u \in Applicants
        PROVE  /\ \A k \in DOMAIN history[u] :
                    history[u][k] \in [decision : {"validated", "rejected"},
                                       document : Documents \cup {NoDocument}]
               /\ \A k \in DOMAIN application[u] :
                    application[u][k] \in {"pending", "approved", "rejected"}
    <3>1. history[u] \in Seq(HistoryRow) /\ application[u] \in Seq(ApplicationStatus)
      BY DEF ApplicationsIInv, VetInv, VetTypeOK
    <3>2. /\ \A k \in DOMAIN history[u] : history[u][k] \in HistoryRow
          /\ \A k \in DOMAIN application[u] : application[u][k] \in ApplicationStatus
      BY <3>1
    <3> QED BY <3>2 DEF HistoryRow, Decision, ApplicationStatus
  <2> QED BY <2>1 DEF ApplicationsIInv, VetInv, VetTypeOK, CheckStatus, ApplicationsTypeOK
<1>2. ASSUME NEW u \in Applicants \ disturbed PROVE Orderly(u)
  BY DEF ApplicationsIInv
<1>3. NoDocumentIsForgotten /\ DecidedOnce
  BY <1>2 DEF Orderly, Kept, Tidy, NoDocumentIsForgotten, DecidedOnce
<1>4. ASSUME NEW u \in Applicants \ disturbed PROVE Cardinality(OpenRows(u)) <= 1
  <2>1. \A j, k \in OpenRows(u) : j = k
    BY <1>2 DEF Orderly, Tidy
  <2>2. CASE OpenRows(u) = {}
    BY <2>2, FS_EmptySet
  <2>3. ASSUME NEW k \in OpenRows(u) PROVE Cardinality(OpenRows(u)) <= 1
    <3>1. OpenRows(u) = {k}
      BY <2>1, <2>3
    <3>2. Cardinality({k}) = 1
      BY FS_Singleton
    <3> QED BY <3>1, <3>2
  <2> QED BY <2>2, <2>3
<1>5. OneOpenApplication
  BY <1>4 DEF OneOpenApplication, OpenRows
<1> QED BY <1>1, <1>3, <1>5 DEF ApplicationsInv

\* However many requests there are, and wherever workers die: an account whose
\* requests came one after the other has no document in storage that nobody
\* has to decide on, no document decided on twice, and one open application.
\* (applications.services)
THEOREM OneRequestAtATimeIsEnough == ApplicationsSpec => []ApplicationsInv
<1>1. ApplicationsSpec => []ApplicationsIInv
  BY InitOrderly, NextOrderly, PTL DEF ApplicationsSpec
<1> QED BY <1>1, OrderlyEnough, PTL

-----------------------------------------------------------------------------
(* A dojo's team: what the rows and the requests under way say *)

MemberRow ==
    {Absent} \cup [role : {"champion", "mentor", "youth_mentor"},
                   status : {"requested", "active", "dormant"}, joined : BOOLEAN]

\* A row of an account, with the accounts that were checked: an active member
\* has joined, a child helps as a youth mentor, and who manages or did was
\* checked.
RowOK(u, row, ok) ==
    /\ row \in MemberRow
    /\ row.status = "active" => row.joined
    /\ u \in Ninjas => row.role \in {"none", "youth_mentor"}
    /\ row.role \in {"champion", "mentor"} => u \in ok

PostRecord ==
    {Waiting}
    \cup [op : {"join", "accept", "decline", "add", "promote"}, user : Users, row : MemberRow]
    \cup [op : {"leave", "erase"}, user : Users]
    \cup [op : {"transfer"}, user : Adults, to : Adults]
    \cup [op : {"status", "settings"}, to : DojoStatus]
    \cup [op : {"approve"}, user : Adults, dojo : DojoStatus]

\* What a request under way saw to, and stays so whatever the others do.
Permitted(r, ok) ==
    /\ r.op \in {"join", "accept", "decline", "add", "promote"} => RowOK(r.user, r.row, ok)
    /\ r.op \in {"join", "add"} => r.user \in Adults \cap ok
    /\ r.op \in {"accept", "decline"} => r.row.status = "requested"
    /\ r.op = "promote" => r.user \in Ninjas
    /\ r.op = "transfer" => r.user \in ok /\ r.to \in ok

Leads(row) == row.status = "active" /\ row.role = "champion"

\* What the only request under way has found is still so of the dojo's status
\* and of the memberships.
Fresh(r, status, rows) ==
    /\ r.op \in {"join", "accept", "decline", "add", "promote"} => r.row = rows[r.user]
    /\ r.op \in {"join", "add", "promote"} => rows[r.user].status # "active"
    /\ r.op = "join" => status = "active"
    /\ r.op = "leave" => rows[r.user].role # "champion"
    /\ r.op = "transfer" =>
          /\ Leads(rows[r.user])
          /\ rows[r.to].status = "active" /\ rows[r.to].role = "mentor"
    /\ r.op = "status" => (r.to = "active" => \E u \in Adults : Leads(rows[u]))
    /\ r.op = "settings" => r.to = status
    /\ r.op = "approve" => r.dojo = status
    /\ r.op = "erase" => ~(status = "active" /\ Leads(rows[r.user]))

OneAtATime ==
    /\ \A g, h \in TeamHandlers : posted[g] # Waiting /\ posted[h] # Waiting => g = h
    /\ \A h \in TeamHandlers : Fresh(posted[h], dojo, member)

\* One champion at most, and one while the dojo is active; those who ask to
\* join ask for a mentor's place, of a dojo that does not rest.
WellLed ==
    /\ \A u, v \in Adults : Leads(member[u]) /\ Leads(member[v]) => u = v
    /\ dojo = "active" => \E u \in Adults : Leads(member[u])
    /\ \A u \in Users : member[u].status = "requested" => member[u].role = "mentor" /\ dojo \notin Resting

\* What overlapping requests keep as well.
TeamTables ==
    /\ VettingTypeOK
    /\ dojo \in DojoStatus /\ gone \subseteq Users /\ overlapped \in BOOLEAN
    /\ member \in [Users -> MemberRow] /\ \A u \in Users : RowOK(u, member[u], checked)
    /\ posted \in [TeamHandlers -> PostRecord] /\ \A h \in TeamHandlers : Permitted(posted[h], checked)

TeamsIInv == TeamTables /\ (~overlapped => OneAtATime /\ WellLed)

LEMMA NothingIsFresh ==
    /\ Waiting.op = "waiting" /\ Waiting \in PostRecord
    /\ \A status, rows : Fresh(Waiting, status, rows)
    /\ \A ok : Permitted(Waiting, ok)
BY DEF Waiting, Fresh, Permitted, PostRecord

LEMMA TeamInitOK == TeamInit => TeamsIInv
<1> SUFFICES ASSUME TeamInit PROVE TeamsIInv
  OBVIOUS
<1> DEFINE row == [role |-> "champion", status |-> "active", joined |-> TRUE]
<1>1. VettingTypeOK /\ dojo \in DojoStatus /\ gone \subseteq Users /\ overlapped \in BOOLEAN
  BY TeamAssumption DEF TeamInit, VettingTypeOK, DojoStatus
<1>2. Absent \in MemberRow /\ row \in MemberRow
  BY DEF MemberRow
<1>3. member = [u \in Users |-> IF u = Founder THEN row ELSE Absent]
  BY DEF TeamInit
<1>4. member \in [Users -> MemberRow]
  <2> HIDE DEF row
  <2> QED BY <1>2, <1>3
<1>5. ASSUME NEW u \in Users PROVE RowOK(u, member[u], checked)
  <2>1. CASE u = Founder
    <3>1. member[u] = row /\ u \notin Ninjas /\ u \in checked
      BY <1>3, <2>1, TeamAssumption DEF TeamInit
    <3> QED BY <1>2, <3>1 DEF RowOK
  <2>2. CASE u # Founder
    <3>1. member[u] = Absent
      BY <1>3, <2>2
    <3> QED BY <1>2, <3>1 DEF RowOK, Absent
  <2> QED BY <2>1, <2>2
<1>6. posted \in [TeamHandlers -> PostRecord] /\ \A h \in TeamHandlers : posted[h] = Waiting
  BY NothingIsFresh DEF TeamInit
<1>7. OneAtATime /\ \A h \in TeamHandlers : Permitted(posted[h], checked)
  BY <1>6, NothingIsFresh DEF OneAtATime
<1>8. WellLed
  <2>1. \A u \in Users : u # Founder => member[u].status = "none"
    BY <1>3 DEF Absent
  <2>2. Leads(member[Founder]) /\ dojo = "draft" /\ member[Founder].status = "active"
    BY <1>3, TeamAssumption DEF TeamInit, Users, Leads
  <2>3. \A u \in Users : Leads(member[u]) => u = Founder
    BY <2>1 DEF Leads
  <2> QED BY <2>1, <2>2, <2>3 DEF WellLed, Users
<1> QED BY <1>1, <1>4, <1>5, <1>6, <1>7, <1>8 DEF TeamsIInv, TeamTables

\* Who was checked stays so, and with it what rests on it.
LEMMA CheckedStays ==
    ASSUME NEW ok, NEW more, ok \subseteq more
    PROVE  /\ \A u, row : RowOK(u, row, ok) => RowOK(u, row, more)
           /\ \A r : Permitted(r, ok) => Permitted(r, more)
BY DEF RowOK, Permitted

-----------------------------------------------------------------------------
(* A request is posted *)

LEMMA PostKeeps ==
    ASSUME TeamsIInv, NEW h \in TeamHandlers, NEW r \in PostRecord, Post(h, r),
           Permitted(r, checked), Fresh(r, dojo, member)
    PROVE  TeamsIInv'
<1>1. /\ posted[h] = Waiting /\ posted' = [posted EXCEPT ![h] = r]
      /\ overlapped' = (overlapped \/ \E g \in TeamHandlers : posted[g] # Waiting)
      /\ UNCHANGED <<dojo, member, gone, checked, clear, approved>>
  BY DEF Post, vettingVars
<1>2. /\ posted' \in [TeamHandlers -> PostRecord]
      /\ \A g \in TeamHandlers : posted'[g] = IF g = h THEN r ELSE posted[g]
  BY <1>1 DEF TeamsIInv, TeamTables
<1>3. \A g \in TeamHandlers : Permitted(posted'[g], checked)
  BY <1>2 DEF TeamsIInv, TeamTables
<1>4. overlapped' \in BOOLEAN
  BY <1>1
<1>5. TeamTables'
  BY <1>1, <1>2, <1>3, <1>4 DEF TeamsIInv, TeamTables, VettingTypeOK
<1>6. ASSUME ~overlapped' PROVE OneAtATime' /\ WellLed'
  <2>1. ~overlapped /\ \A g \in TeamHandlers : posted[g] = Waiting
    BY <1>1, <1>6
  <2>2. WellLed'
    BY <1>1, <2>1 DEF TeamsIInv, WellLed
  <2>3. \A g \in TeamHandlers : Fresh(posted'[g], dojo, member)
    BY <1>2, <2>1, NothingIsFresh
  <2>4. OneAtATime'
    BY <1>1, <1>2, <2>1, <2>3 DEF OneAtATime
  <2> QED BY <2>2, <2>4
<1> QED BY <1>5, <1>6 DEF TeamsIInv

LEMMA MemberRows ==
    ASSUME TeamsIInv, NEW u \in Users
    PROVE  /\ member[u] \in MemberRow /\ RowOK(u, member[u], checked)
           /\ IsChampion(u) <=> Leads(member[u])
           /\ IsActive(u) <=> member[u].status = "active"
BY DEF TeamsIInv, TeamTables, IsChampion, IsActive, Leads

\* A request about one membership, with the row as it is.
LEMMA PostAboutKeeps ==
    ASSUME TeamsIInv, NEW h \in TeamHandlers, NEW u \in Users,
           NEW op \in {"join", "accept", "decline", "add", "promote"}, PostAbout(h, op, u),
           op \in {"join", "add"} => u \in Adults \cap checked,
           op \in {"accept", "decline"} => member[u].status = "requested",
           op = "promote" => u \in Ninjas,
           op \in {"join", "add", "promote"} => ~IsActive(u),
           op = "join" => dojo = "active"
    PROVE  TeamsIInv'
<1> DEFINE r == [op |-> op, user |-> u, row |-> member[u]]
<1>1. r.op = op /\ r.user = u /\ r.row = member[u]
  OBVIOUS
<1>2. r \in PostRecord
  BY MemberRows DEF PostRecord
<1>3. Post(h, r)
  BY DEF PostAbout
<1> HIDE DEF r
<1>4. Permitted(r, checked)
  BY <1>1, MemberRows DEF Permitted
<1>5. Fresh(r, dojo, member)
  BY <1>1, MemberRows DEF Fresh
<1> QED BY <1>2, <1>3, <1>4, <1>5, PostKeeps

LEMMA PostsKeepTheTeam ==
    ASSUME TeamsIInv, NEW h \in TeamHandlers,
           \/ \E u \in Adults : RequestToJoin(h, u) \/ AddMentor(h, u)
           \/ \E u \in Users : AcceptRequest(h, u) \/ DeclineRequest(h, u)
           \/ \E n \in Ninjas : PromoteYouthMentor(h, n)
    PROVE  TeamsIInv'
<1>1. Adults \subseteq Users /\ Ninjas \subseteq Users
  BY DEF Users
<1>2. approved \subseteq checked
  BY DEF TeamsIInv, TeamTables, VettingTypeOK
<1>3. ASSUME NEW u \in Adults, RequestToJoin(h, u) PROVE TeamsIInv'
  <2>1. /\ PostAbout(h, "join", u) /\ dojo = "active" /\ u \in approved
        /\ member[u].status \in {"none", "dormant"}
    BY <1>3 DEF RequestToJoin, MayAsk, IsApprovedMentor
  <2> QED BY <1>1, <1>2, <2>1, PostAboutKeeps DEF IsActive
<1>4. ASSUME NEW u \in Adults, AddMentor(h, u) PROVE TeamsIInv'
  <2>1. PostAbout(h, "add", u) /\ u \in approved /\ ~IsActive(u)
    BY <1>4 DEF AddMentor, IsApprovedMentor
  <2> QED BY <1>1, <1>2, <2>1, PostAboutKeeps
<1>5. ASSUME NEW u \in Users, AcceptRequest(h, u) PROVE TeamsIInv'
  <2>1. PostAbout(h, "accept", u) /\ member[u].status = "requested"
    BY <1>5 DEF AcceptRequest
  <2> QED BY <2>1, PostAboutKeeps
<1>6. ASSUME NEW u \in Users, DeclineRequest(h, u) PROVE TeamsIInv'
  <2>1. PostAbout(h, "decline", u) /\ member[u].status = "requested"
    BY <1>6 DEF DeclineRequest
  <2> QED BY <2>1, PostAboutKeeps
<1>7. ASSUME NEW n \in Ninjas, PromoteYouthMentor(h, n) PROVE TeamsIInv'
  <2>1. PostAbout(h, "promote", n) /\ ~IsActive(n)
    BY <1>7 DEF PromoteYouthMentor
  <2> QED BY <1>1, <2>1, PostAboutKeeps
<1> QED BY <1>3, <1>4, <1>5, <1>6, <1>7

LEMMA OtherPostsKeepTheTeam ==
    ASSUME TeamsIInv, NEW h \in TeamHandlers,
           \/ \E u \in Adults : Leave(h, u) \/ ApproveApplication(h, u)
           \/ \E u, to \in Adults : TransferChampion(h, u, to)
           \/ \E u \in Users : RemoveMember(h, u) \/ DeleteAccount(h, u)
           \/ \E step \in Lifecycle : ChangeStatus(h, step)
           \/ SaveSettings(h)
    PROVE  TeamsIInv'
<1>1. Adults \subseteq Users
  BY DEF Users
<1>2. clear \subseteq checked /\ dojo \in DojoStatus
  BY DEF TeamsIInv, TeamTables, VettingTypeOK
<1>3. ASSUME NEW u \in Users, Post(h, [op |-> "leave", user |-> u]), member[u].role # "champion"
      PROVE  TeamsIInv'
  <2> DEFINE r == [op |-> "leave", user |-> u]
  <2>1. r \in PostRecord /\ r.op = "leave" /\ r.user = u
    BY DEF PostRecord
  <2>2. Post(h, r)
    BY <1>3
  <2> HIDE DEF r
  <2>3. Permitted(r, checked) /\ Fresh(r, dojo, member)
    BY <1>3, <2>1 DEF Permitted, Fresh
  <2> QED BY <2>1, <2>2, <2>3, PostKeeps
<1>4. ASSUME NEW u \in Users, DeleteAccount(h, u) PROVE TeamsIInv'
  <2> DEFINE r == [op |-> "erase", user |-> u]
  <2>1. r \in PostRecord /\ r.op = "erase" /\ r.user = u
    BY DEF PostRecord
  <2>2. Post(h, r) /\ ~(dojo = "active" /\ IsChampion(u))
    BY <1>4 DEF DeleteAccount
  <2> HIDE DEF r
  <2>3. Permitted(r, checked) /\ Fresh(r, dojo, member)
    BY <2>1, <2>2, MemberRows DEF Permitted, Fresh
  <2> QED BY <2>1, <2>2, <2>3, PostKeeps
<1>5. ASSUME NEW u \in Adults, ApproveApplication(h, u) PROVE TeamsIInv'
  <2> DEFINE r == [op |-> "approve", user |-> u, dojo |-> dojo]
  <2>1. r \in PostRecord /\ r.op = "approve" /\ r.dojo = dojo
    BY <1>2 DEF PostRecord
  <2>2. Post(h, r)
    BY <1>5 DEF ApproveApplication
  <2> HIDE DEF r
  <2>3. Permitted(r, checked) /\ Fresh(r, dojo, member)
    BY <2>1 DEF Permitted, Fresh
  <2> QED BY <2>1, <2>2, <2>3, PostKeeps
<1>6. ASSUME NEW u \in Adults, NEW to \in Adults, TransferChampion(h, u, to) PROVE TeamsIInv'
  <2> DEFINE r == [op |-> "transfer", user |-> u, to |-> to]
  <2>1. r \in PostRecord /\ r.op = "transfer" /\ r.user = u /\ r.to = to
    BY DEF PostRecord
  <2>2. Post(h, r) /\ LeadsDojo(u) /\ IsActive(to) /\ member[to].role = "mentor" /\ to \in clear
    BY <1>6 DEF TransferChampion
  <2> HIDE DEF r
  <2>3. Permitted(r, checked)
    BY <1>2, <2>1, <2>2 DEF Permitted, LeadsDojo
  <2>4. Fresh(r, dojo, member)
    BY <2>1, <2>2 DEF Fresh, LeadsDojo, IsChampion, IsActive, Leads
  <2> QED BY <2>1, <2>2, <2>3, <2>4, PostKeeps
<1>7. ASSUME NEW step \in Lifecycle, ChangeStatus(h, step) PROVE TeamsIInv'
  <2> DEFINE r == [op |-> "status", to |-> step.to]
  <2>1. step.to \in DojoStatus
    BY DEF Lifecycle, DojoStatus
  <2>2. r \in PostRecord /\ r.op = "status"
    BY <2>1 DEF PostRecord
  <2>3. Post(h, r) /\ CanLead # {}
    BY <1>7 DEF ChangeStatus
  <2>4. \E u \in Adults : Leads(member[u])
    BY <2>3 DEF CanLead, LeadsDojo, IsChampion, IsActive, Leads
  <2> HIDE DEF r
  <2>5. Permitted(r, checked) /\ Fresh(r, dojo, member)
    BY <2>2, <2>4 DEF Permitted, Fresh
  <2> QED BY <2>2, <2>3, <2>5, PostKeeps
<1>8. CASE SaveSettings(h)
  <2> DEFINE r == [op |-> "settings", to |-> dojo]
  <2>1. r \in PostRecord /\ r.op = "settings" /\ r.to = dojo
    BY <1>2 DEF PostRecord
  <2>2. Post(h, r)
    BY <1>8 DEF SaveSettings
  <2> HIDE DEF r
  <2>3. Permitted(r, checked) /\ Fresh(r, dojo, member)
    BY <2>1 DEF Permitted, Fresh
  <2> QED BY <2>1, <2>2, <2>3, PostKeeps
<1>9. ASSUME NEW u \in Users, Leave(h, u) \/ RemoveMember(h, u) PROVE TeamsIInv'
  <2>1. Post(h, [op |-> "leave", user |-> u]) /\ member[u].role # "champion"
    BY <1>9 DEF Leave, RemoveMember
  <2> QED BY <1>3, <2>1
<1> QED BY <1>1, <1>4, <1>5, <1>6, <1>7, <1>8, <1>9

-----------------------------------------------------------------------------
(* A request writes *)

\* What a request is when it comes to write.
LEMMA PostShapes ==
    ASSUME TeamsIInv, NEW h \in TeamHandlers
    PROVE  /\ posted[h] \in PostRecord /\ Permitted(posted[h], checked)
           /\ posted[h].op \in {"join", "accept", "decline", "add", "promote"} =>
                 posted[h].user \in Users /\ posted[h].row \in MemberRow
           /\ posted[h].op \in {"leave", "erase"} => posted[h].user \in Users
           /\ posted[h].op = "transfer" => posted[h].user \in Adults /\ posted[h].to \in Adults
           /\ posted[h].op \in {"status", "settings"} => posted[h].to \in DojoStatus
           /\ posted[h].op = "approve" => posted[h].user \in Adults /\ posted[h].dojo \in DojoStatus
<1>1. posted[h] \in PostRecord /\ Permitted(posted[h], checked)
  BY DEF TeamsIInv, TeamTables
<1> QED BY <1>1 DEF PostRecord, Waiting

\* The request is over, and nothing else was under way if none overlapped.
LEMMA RequestOver ==
    ASSUME TeamsIInv, NEW h \in TeamHandlers, posted[h] # Waiting, Done(h)
    PROVE  /\ posted' \in [TeamHandlers -> PostRecord] /\ overlapped' = overlapped
           /\ \A g \in TeamHandlers : Permitted(posted'[g], checked)
           /\ ~overlapped => Fresh(posted[h], dojo, member) /\ WellLed /\ OneAtATime'
<1>1. posted' = [posted EXCEPT ![h] = Waiting] /\ overlapped' = overlapped
  BY DEF Done
<1>2. /\ posted' \in [TeamHandlers -> PostRecord]
      /\ \A g \in TeamHandlers : posted'[g] = IF g = h THEN Waiting ELSE posted[g]
  BY <1>1, NothingIsFresh DEF TeamsIInv, TeamTables
<1>3. \A g \in TeamHandlers : Permitted(posted'[g], checked)
  BY <1>2, NothingIsFresh DEF TeamsIInv, TeamTables
<1>4. ASSUME ~overlapped PROVE Fresh(posted[h], dojo, member) /\ WellLed /\ OneAtATime'
  <2>1. OneAtATime /\ WellLed
    BY <1>4 DEF TeamsIInv
  <2>2. \A g \in TeamHandlers : posted'[g] = Waiting
    BY <1>2, <2>1 DEF OneAtATime
  <2>3. OneAtATime'
    BY <2>2, NothingIsFresh DEF OneAtATime
  <2> QED BY <2>1, <2>3 DEF OneAtATime
<1> QED BY <1>1, <1>2, <1>3, <1>4

\* The request's account gets another row, or keeps the one it has.
LEMMA RowIsWritten ==
    ASSUME TeamsIInv, NEW h \in TeamHandlers, posted[h] # Waiting, Done(h),
           NEW u \in Users, NEW row, RowOK(u, row, checked),
           member' = member \/ member' = [member EXCEPT ![u] = row],
           ~overlapped => /\ ~Leads(row) /\ (dojo = "active" => ~Leads(member[u]))
                          /\ row.status = "requested" => row.role = "mentor" /\ dojo \notin Resting,
           dojo' = dojo, checked' = checked, clear' \subseteq clear, approved' \subseteq approved,
           gone' \subseteq Users
    PROVE  TeamsIInv'
<1>1. row \in MemberRow
  BY DEF RowOK
<1>2. /\ member' \in [Users -> MemberRow]
      /\ \A v \in Users : v # u => member'[v] = member[v]
      /\ member'[u] \in {member[u], row}
  BY <1>1 DEF TeamsIInv, TeamTables
<1>3. \A v \in Users : RowOK(v, member'[v], checked)
  BY <1>2, MemberRows
<1>4. VettingTypeOK'
  BY DEF TeamsIInv, TeamTables, VettingTypeOK
<1>5. TeamTables'
  BY <1>2, <1>3, <1>4, RequestOver DEF TeamsIInv, TeamTables
<1>6. ASSUME ~overlapped' PROVE OneAtATime' /\ WellLed'
  <2>1. ~overlapped /\ WellLed /\ OneAtATime'
    BY <1>6, RequestOver
  <2>2. \A v \in Users : Leads(member'[v]) => Leads(member[v])
    BY <1>2, <2>1
  <2>3. dojo = "active" => \A v \in Users : Leads(member[v]) => member'[v] = member[v]
    BY <1>2, <2>1
  <2>4. \A v \in Users : member'[v].status = "requested"
                            => member'[v].role = "mentor" /\ dojo \notin Resting
    BY <1>2, <2>1 DEF WellLed
  <2>5. WellLed'
    BY <2>1, <2>2, <2>3, <2>4 DEF WellLed, Users
  <2> QED BY <2>1, <2>5
<1> QED BY <1>5, <1>6 DEF TeamsIInv

\* The rows that are written.
LEMMA WrittenRows ==
    ASSUME NEW u \in Users, NEW row \in MemberRow, NEW ok
    PROVE  /\ u \in Adults \cap ok =>
                RowOK(u, [role |-> "mentor", status |-> "requested", joined |-> row.joined], ok)
           /\ u \in Adults \cap ok => RowOK(u, Activated("mentor"), ok)
           /\ u \in Ninjas => RowOK(u, Activated("youth_mentor"), ok)
           /\ RowOK(u, row, ok) /\ row # Absent =>
                /\ RowOK(u, Activated(row.role), ok)
                /\ RowOK(u, [row EXCEPT !.status = "dormant"], ok)
                /\ [row EXCEPT !.status = "dormant"].status = "dormant"
                /\ RowOK(u, Declined(row), ok)
           /\ RowOK(u, Absent, ok)
           /\ Declined(row).status # "active" /\ Declined(row).status # "requested"
<1>1. row.joined \in BOOLEAN
  <2>1. CASE row = Absent
    BY <2>1 DEF Absent
  <2>2. CASE row # Absent
    BY <2>2 DEF MemberRow
  <2> QED BY <2>1, <2>2
<1>2. Absent \in MemberRow /\ Absent.role = "none" /\ Absent.status = "none"
  BY DEF MemberRow, Absent
<1>3. RowOK(u, Absent, ok)
  BY <1>2 DEF RowOK
<1>4. \A role \in {"champion", "mentor", "youth_mentor"} :
         /\ Activated(role) \in MemberRow /\ Activated(role).role = role
         /\ Activated(role).status = "active" /\ Activated(role).joined = TRUE
  BY DEF Activated, MemberRow
<1>5. u \in Adults => u \notin Ninjas
  BY TeamAssumption
<1>6. u \in Adults \cap ok =>
        RowOK(u, [role |-> "mentor", status |-> "requested", joined |-> row.joined], ok)
  <2> DEFINE wanted == [role |-> "mentor", status |-> "requested", joined |-> row.joined]
  <2>1. wanted \in MemberRow /\ wanted.role = "mentor" /\ wanted.status = "requested"
    BY <1>1 DEF MemberRow
  <2> HIDE DEF wanted
  <2>2. u \in Adults \cap ok => RowOK(u, wanted, ok)
    BY <1>5, <2>1 DEF RowOK
  <2> QED BY <2>2 DEF wanted
<1>7. u \in Adults \cap ok => RowOK(u, Activated("mentor"), ok)
  BY <1>4, <1>5 DEF RowOK
<1>8. u \in Ninjas => RowOK(u, Activated("youth_mentor"), ok)
  BY <1>4 DEF RowOK
<1>9. ASSUME row # Absent
      PROVE  /\ [row EXCEPT !.status = "dormant"] \in MemberRow
             /\ [row EXCEPT !.status = "dormant"].role = row.role
             /\ [row EXCEPT !.status = "dormant"].status = "dormant"
             /\ row.role \in {"champion", "mentor", "youth_mentor"}
  BY <1>9 DEF MemberRow
<1>10. ASSUME RowOK(u, row, ok), row # Absent
       PROVE  /\ RowOK(u, Activated(row.role), ok)
              /\ RowOK(u, [row EXCEPT !.status = "dormant"], ok)
  <2>1. RowOK(u, Activated(row.role), ok)
    BY <1>4, <1>9, <1>10 DEF RowOK
  <2>2. RowOK(u, [row EXCEPT !.status = "dormant"], ok)
    BY <1>9, <1>10 DEF RowOK
  <2> QED BY <2>1, <2>2
<1>11. Declined(row) = Absent \/ (row # Absent /\ Declined(row) = [row EXCEPT !.status = "dormant"])
  <2>1. CASE row = Absent
    <3>1. ~row.joined
      BY <2>1 DEF Absent
    <3> QED BY <3>1 DEF Declined
  <2>2. CASE row # Absent
    BY <2>2 DEF Declined
  <2> QED BY <2>1, <2>2
<1>12. RowOK(u, row, ok) /\ row # Absent => RowOK(u, Declined(row), ok)
  BY <1>3, <1>10, <1>11
<1>13. Declined(row).status # "active" /\ Declined(row).status # "requested"
  BY <1>2, <1>9, <1>11
<1> QED BY <1>3, <1>6, <1>7, <1>8, <1>9, <1>10, <1>12, <1>13

\* The end of a request about one membership: the whole row, a new one
\* perhaps refused.
LEMMA RowRequestsFinish ==
    ASSUME TeamsIInv, NEW h \in TeamHandlers,
           FinishJoin(h) \/ FinishAccept(h) \/ FinishAdd(h) \/ FinishPromote(h) \/ FinishDeclining(h)
    PROVE  TeamsIInv'
<1> DEFINE r == posted[h]
           u == r.user
<1>1. /\ r.op \in {"join", "accept", "decline", "add", "promote"}
      /\ Done(h) /\ UNCHANGED <<dojo, gone, checked, clear, approved>>
  BY DEF FinishJoin, FinishAccept, FinishAdd, FinishPromote, FinishDeclining, FinishRow, vettingVars
<1>2. r # Waiting
  BY <1>1, NothingIsFresh
<1>3. u \in Users /\ r.row \in MemberRow /\ RowOK(u, r.row, checked) /\ Permitted(r, checked)
  BY <1>1, PostShapes DEF Permitted
<1>4. ~overlapped => Fresh(r, dojo, member) /\ WellLed
  BY <1>1, <1>2, RequestOver
<1>5. gone' \subseteq Users
  BY <1>1 DEF TeamsIInv, TeamTables
<1>6. PICK row :
        /\ RowOK(u, row, checked)
        /\ member' = member \/ member' = [member EXCEPT ![u] = row]
        /\ ~overlapped => /\ ~Leads(row) /\ (dojo = "active" => ~Leads(member[u]))
                          /\ row.status = "requested" => row.role = "mentor" /\ dojo \notin Resting
  <2>1. CASE FinishJoin(h)
    <3> DEFINE row == [role |-> "mentor", status |-> "requested", joined |-> r.row.joined]
    <3>1. r.op = "join" /\ (member' = member \/ member' = [member EXCEPT ![u] = row])
      BY <2>1 DEF FinishJoin, FinishRow, SaveRow
    <3>2. RowOK(u, row, checked)
      BY <1>3, <3>1, WrittenRows DEF Permitted
    <3>3. row.role = "mentor" /\ row.status = "requested"
      OBVIOUS
    <3> HIDE DEF row, r
    <3>4. ~overlapped => dojo \notin Resting /\ ~Leads(member[u])
      BY <1>4, <3>1 DEF Fresh, Leads, Resting
    <3> QED BY <3>1, <3>2, <3>3, <3>4 DEF Leads
  <2>2. CASE FinishAccept(h)
    <3> DEFINE row == Activated(r.row.role)
    <3>1. r.op = "accept" /\ (member' = member \/ member' = [member EXCEPT ![u] = row])
      BY <2>2 DEF FinishAccept, FinishRow, SaveRow
    <3>2. r.row.status = "requested"
      BY <1>3, <3>1 DEF Permitted
    <3>3. r.row # Absent
      BY <3>2 DEF Absent
    <3>4. RowOK(u, row, checked)
      BY <1>3, <3>3, WrittenRows
    <3>5. row.role = r.row.role /\ row.status = "active"
      BY DEF Activated
    <3> HIDE DEF row, r
    <3>6. ~overlapped => r.row.role = "mentor" /\ ~Leads(member[u])
      BY <1>3, <1>4, <3>1, <3>2 DEF Fresh, WellLed, Leads
    <3> QED BY <3>1, <3>4, <3>5, <3>6 DEF Leads
  <2>3. CASE FinishAdd(h)
    <3> DEFINE row == Activated("mentor")
    <3>1. r.op = "add" /\ (member' = member \/ member' = [member EXCEPT ![u] = row])
      BY <2>3 DEF FinishAdd, FinishRow, SaveRow
    <3>2. RowOK(u, row, checked)
      BY <1>3, <3>1, WrittenRows DEF Permitted
    <3>3. row.role = "mentor" /\ row.status = "active"
      BY DEF Activated
    <3> HIDE DEF row, r
    <3>4. ~overlapped => ~Leads(member[u])
      BY <1>4, <3>1 DEF Fresh, Leads
    <3> QED BY <3>1, <3>2, <3>3, <3>4 DEF Leads
  <2>4. CASE FinishPromote(h)
    <3> DEFINE row == Activated("youth_mentor")
    <3>1. r.op = "promote" /\ (member' = member \/ member' = [member EXCEPT ![u] = row])
      BY <2>4 DEF FinishPromote, FinishRow, SaveRow
    <3>2. RowOK(u, row, checked)
      BY <1>3, <3>1, WrittenRows DEF Permitted
    <3>3. row.role = "youth_mentor" /\ row.status = "active"
      BY DEF Activated
    <3> HIDE DEF row, r
    <3>4. ~overlapped => ~Leads(member[u])
      BY <1>4, <3>1 DEF Fresh, Leads
    <3> QED BY <3>1, <3>2, <3>3, <3>4 DEF Leads
  <2>5. CASE FinishDeclining(h)
    <3> DEFINE row == Declined(r.row)
    <3>1. r.op = "decline" /\ member' = [member EXCEPT ![u] = row]
      BY <2>5 DEF FinishDeclining
    <3>2. r.row.status = "requested"
      BY <1>3, <3>1 DEF Permitted
    <3>3. r.row # Absent
      BY <3>2 DEF Absent
    <3>4. RowOK(u, row, checked) /\ row.status # "active" /\ row.status # "requested"
      BY <1>3, <3>3, WrittenRows
    <3> HIDE DEF row, r
    <3>5. ~overlapped => ~Leads(member[u])
      BY <1>4, <3>1, <3>2 DEF Fresh, Leads
    <3> QED BY <3>1, <3>4, <3>5 DEF Leads
  <2> QED BY <2>1, <2>2, <2>3, <2>4, <2>5
<1> HIDE DEF r, u
<1> QED BY <1>1, <1>2, <1>3, <1>5, <1>6, RowIsWritten DEF r

\* Leaving and removing.
LEMMA LeavingFinishes ==
    ASSUME TeamsIInv, NEW h \in TeamHandlers, FinishLeaving(h)
    PROVE  TeamsIInv'
<1> DEFINE r == posted[h]
           u == r.user
           row == [member[u] EXCEPT !.status = "dormant"]
<1>1. /\ r.op = "leave" /\ Done(h) /\ UNCHANGED <<dojo, gone, checked, clear, approved>>
      /\ member' = IF member[u] = Absent THEN member ELSE [member EXCEPT ![u] = row]
  BY DEF FinishLeaving, SaveColumns, vettingVars
<1>2. r # Waiting /\ u \in Users
  BY <1>1, NothingIsFresh, PostShapes
<1>3. member[u] \in MemberRow /\ RowOK(u, member[u], checked)
  BY <1>2, MemberRows
<1>4. gone' \subseteq Users
  BY <1>1 DEF TeamsIInv, TeamTables
<1>5. ~overlapped => ~Leads(member[u])
  <2>1. ~overlapped => Fresh(r, dojo, member)
    BY <1>1, <1>2, RequestOver
  <2> QED BY <1>1, <2>1 DEF Fresh, Leads
<1>6. CASE member[u] = Absent
  <2>1. ~Leads(Absent) /\ Absent.status # "requested"
    BY DEF Leads, Absent
  <2> QED BY <1>1, <1>2, <1>3, <1>4, <1>5, <1>6, <2>1, RowIsWritten
<1>7. CASE member[u] # Absent
  <2>1. RowOK(u, row, checked) /\ row.status = "dormant"
    BY <1>2, <1>3, <1>7, WrittenRows
  <2>2. member' = [member EXCEPT ![u] = row]
    BY <1>1, <1>7
  <2> HIDE DEF row, r, u
  <2>3. ~Leads(row) /\ row.status # "requested"
    BY <2>1 DEF Leads
  <2> QED BY <1>1, <1>2, <1>4, <1>5, <2>1, <2>2, <2>3, RowIsWritten DEF r
<1> QED BY <1>6, <1>7

\* An erasure ends the account's membership.
LEMMA ErasureFinishes ==
    ASSUME TeamsIInv, NEW h \in TeamHandlers, FinishErasure(h)
    PROVE  TeamsIInv'
<1> DEFINE r == posted[h]
           u == r.user
           row == IF member[u].status = "requested" /\ ~member[u].joined THEN Absent
                  ELSE IF member[u] = Absent THEN Absent ELSE [member[u] EXCEPT !.status = "dormant"]
<1>1. /\ r.op = "erase" /\ Done(h) /\ dojo' = dojo /\ checked' = checked
      /\ clear' \subseteq clear /\ approved' \subseteq approved /\ gone' = gone \cup {u}
  BY DEF FinishErasure
<1>2. r # Waiting /\ u \in Users
  BY <1>1, NothingIsFresh, PostShapes
<1>3. member[u] \in MemberRow /\ RowOK(u, member[u], checked)
  BY <1>2, MemberRows
<1>4. gone' \subseteq Users
  BY <1>1, <1>2 DEF TeamsIInv, TeamTables
<1>5. ~overlapped => (dojo = "active" => ~Leads(member[u]))
  <2>1. ~overlapped => Fresh(r, dojo, member)
    BY <1>1, <1>2, RequestOver
  <2> QED BY <1>1, <2>1 DEF Fresh
<1>6. member' = [member EXCEPT ![u] = row]
  BY <1>2 DEF FinishErasure, TeamsIInv, TeamTables
<1>7. RowOK(u, row, checked) /\ row.status \in {"none", "dormant"}
  <2>1. RowOK(u, Absent, checked) /\ Absent.status = "none"
    BY <1>2, <1>3, WrittenRows DEF Absent
  <2>2. member[u] # Absent => /\ RowOK(u, [member[u] EXCEPT !.status = "dormant"], checked)
                              /\ [member[u] EXCEPT !.status = "dormant"].status = "dormant"
    BY <1>2, <1>3, WrittenRows
  <2> QED BY <2>1, <2>2
<1> HIDE DEF row, r, u
<1>8. ~Leads(row) /\ row.status # "requested"
  BY <1>7 DEF Leads
<1> QED BY <1>1, <1>2, <1>4, <1>5, <1>6, <1>7, <1>8, RowIsWritten DEF r

\* The champion's role goes to a mentor.
LEMMA TransferFinishes ==
    ASSUME TeamsIInv, NEW h \in TeamHandlers, FinishTransfer(h)
    PROVE  TeamsIInv'
<1> DEFINE r == posted[h]
           u == r.user
           to == r.to
<1>1. /\ r.op = "transfer" /\ Done(h) /\ UNCHANGED <<dojo, gone, checked, clear, approved>>
      /\ member' = IF Absent \in {member[u], member[to]} THEN member
                   ELSE [member EXCEPT ![u].role = "mentor", ![to].role = "champion"]
  BY DEF FinishTransfer, vettingVars
<1>2. r # Waiting /\ u \in Adults /\ to \in Adults /\ Adults \subseteq Users
  BY <1>1, NothingIsFresh, PostShapes DEF Users
<1>3. u \in checked /\ to \in checked
  BY <1>1, PostShapes DEF Permitted
<1>4. ~overlapped => /\ WellLed /\ OneAtATime' /\ Leads(member[u])
                     /\ member[to].status = "active" /\ member[to].role = "mentor"
  <2>1. ~overlapped => Fresh(r, dojo, member) /\ WellLed /\ OneAtATime'
    BY <1>1, <1>2, RequestOver
  <2> QED BY <1>1, <2>1 DEF Fresh
<1>5. /\ \A v \in Users \ {u, to} : member'[v] = member[v]
      /\ \A v \in {u, to} : \/ member'[v] = member[v]
                            \/ /\ member[v] # Absent
                               /\ \E role \in {"mentor", "champion"} :
                                     member'[v] = [member[v] EXCEPT !.role = role]
      /\ member' \in [Users -> MemberRow]
      /\ Leads(member[u]) /\ member[to].status = "active" /\ member[to].role = "mentor" =>
            ~Leads(member'[u]) /\ Leads(member'[to])
            /\ member'[u].status = "active" /\ member'[to].status = "active"
  <2>1. CASE Absent \in {member[u], member[to]}
    <3>1. member' = member
      BY <1>1, <2>1
    <3>2. ~(Leads(member[u]) /\ member[to].status = "active")
      BY <2>1 DEF Leads, Absent
    <3> QED BY <3>1, <3>2 DEF TeamsIInv, TeamTables
  <2>2. CASE Absent \notin {member[u], member[to]}
    <3>1. PICK mine : mine = [member[u] EXCEPT !.role = "mentor"]
      OBVIOUS
    <3>2. /\ mine \in MemberRow /\ mine.role = "mentor" /\ mine.status = member[u].status
      <4>1. member[u] \in MemberRow /\ member[u] # Absent
        BY <1>2, <2>2, MemberRows
      <4> QED BY <3>1, <4>1 DEF MemberRow
    <3>3. PICK half : half = [member EXCEPT ![u] = mine]
      OBVIOUS
    <3>4. /\ half \in [Users -> MemberRow] /\ half[u] = mine
          /\ \A v \in Users : v # u => half[v] = member[v]
      BY <1>2, <3>2, <3>3 DEF TeamsIInv, TeamTables
    <3>5. half[to] # Absent
      BY <2>2, <3>2, <3>4, <1>2 DEF Absent
    <3>6. PICK theirs : theirs = [half[to] EXCEPT !.role = "champion"]
      OBVIOUS
    <3>7. theirs \in MemberRow /\ theirs.role = "champion" /\ theirs.status = half[to].status
      <4>1. half[to] \in MemberRow
        BY <1>2, <3>4
      <4> QED BY <3>5, <3>6, <4>1 DEF MemberRow
    <3>8. member' = [half EXCEPT ![to] = theirs]
      BY <1>1, <2>2, <3>1, <3>3, <3>6
    <3>9. /\ member' \in [Users -> MemberRow] /\ member'[to] = theirs
          /\ \A v \in Users : v # to => member'[v] = half[v]
      BY <1>2, <3>4, <3>7, <3>8
    <3>10. \E role \in {"mentor", "champion"} : member'[u] = [member[u] EXCEPT !.role = role]
      <4>1. CASE u = to
        <5>1. theirs = [member[u] EXCEPT !.role = "champion"]
          <6>1. member[u] \in [role : {"champion", "mentor", "youth_mentor"},
                               status : {"requested", "active", "dormant"}, joined : BOOLEAN]
            BY <1>2, <2>2, MemberRows DEF MemberRow
          <6> QED BY <3>1, <3>4, <3>6, <4>1, <6>1
        <5> QED BY <3>9, <4>1, <5>1
      <4>2. CASE u # to
        BY <1>2, <3>1, <3>4, <3>9, <4>2
      <4> QED BY <4>1, <4>2
    <3>11. u # to => \E role \in {"mentor", "champion"} : member'[to] = [member[to] EXCEPT !.role = role]
      BY <1>2, <3>4, <3>6, <3>9
    <3>12. ASSUME Leads(member[u]), member[to].status = "active", member[to].role = "mentor"
           PROVE  ~Leads(member'[u]) /\ Leads(member'[to])
                  /\ member'[u].status = "active" /\ member'[to].status = "active"
      <4>1. u # to
        BY <3>12 DEF Leads
      <4> QED BY <1>2, <3>2, <3>4, <3>7, <3>9, <3>12, <4>1 DEF Leads
    <3> QED BY <1>2, <2>2, <3>4, <3>9, <3>10, <3>11, <3>12
  <2> QED BY <2>1, <2>2
<1> HIDE DEF r, u, to
<1>6. ASSUME NEW v \in Users PROVE RowOK(v, member'[v], checked)
  <2>1. RowOK(v, member[v], checked)
    BY MemberRows
  <2>2. ASSUME v \in {u, to}, member[v] # Absent, NEW role \in {"mentor", "champion"},
               member'[v] = [member[v] EXCEPT !.role = role]
        PROVE  RowOK(v, member'[v], checked)
    <3>1. member[v] \in [role : {"champion", "mentor", "youth_mentor"},
                         status : {"requested", "active", "dormant"}, joined : BOOLEAN]
      BY <2>2, MemberRows DEF MemberRow
    <3>2. /\ member'[v].role = role /\ member'[v].status = member[v].status
          /\ member'[v].joined = member[v].joined
      BY <2>2, <3>1
    <3>3. v \notin Ninjas /\ v \in checked
      BY <1>2, <1>3, <2>2, TeamAssumption
    <3>4. member'[v] \in MemberRow
      BY <1>5
    <3> QED BY <2>1, <3>2, <3>3, <3>4 DEF RowOK
  <2> QED BY <1>5, <2>1, <2>2
<1>7. TeamTables'
  <2>1. VettingTypeOK'
    BY <1>1 DEF TeamsIInv, TeamTables, VettingTypeOK
  <2>2. posted' \in [TeamHandlers -> PostRecord] /\ overlapped' = overlapped
        /\ \A g \in TeamHandlers : Permitted(posted'[g], checked)
    BY <1>1, <1>2, RequestOver DEF r
  <2> QED BY <1>1, <1>5, <1>6, <2>1, <2>2 DEF TeamsIInv, TeamTables
<1>8. ASSUME ~overlapped' PROVE OneAtATime' /\ WellLed'
  <2>1. ~overlapped
    BY <1>1, <1>8 DEF Done
  <2>2. \A v \in Users : Leads(member'[v]) <=> v = to
    <3>1. \A v \in Adults : Leads(member[v]) => v = u
      BY <1>2, <1>4, <2>1 DEF WellLed
    <3>2. \A v \in Users : Leads(member[v]) => v \in Adults
      <4>1. \A v \in Users : v \in Ninjas => ~Leads(member[v])
        BY MemberRows DEF RowOK, Leads
      <4> QED BY <4>1 DEF Users
    <3> QED BY <1>2, <1>4, <1>5, <2>1, <3>1, <3>2
  <2>3. \A v \in Users : member'[v].status = "requested" =>
           member'[v].role = "mentor" /\ dojo \notin Resting
    BY <1>4, <1>5, <2>1 DEF WellLed
  <2>4. WellLed'
    BY <1>1, <1>2, <2>2, <2>3 DEF WellLed
  <2> QED BY <1>4, <2>1, <2>4
<1> QED BY <1>7, <1>8 DEF TeamsIInv

\* The dojo's status is written, with its settings or by its champion.
LEMMA StatusFinishes ==
    ASSUME TeamsIInv, NEW h \in TeamHandlers, FinishStatus(h) \/ FinishSettings(h)
    PROVE  TeamsIInv'
<1> DEFINE r == posted[h]
<1>1. /\ r.op \in {"status", "settings"} /\ dojo' = r.to /\ Done(h)
      /\ UNCHANGED <<gone, checked, clear, approved>>
  BY DEF FinishStatus, FinishSettings, vettingVars
<1>2. r # Waiting /\ r.to \in DojoStatus
  BY <1>1, NothingIsFresh, PostShapes
<1>3. \/ /\ r.op = "settings" /\ member' = member
      \/ /\ r.op = "status" /\ r.to \notin Resting /\ member' = member
      \/ /\ r.op = "status" /\ r.to \in Resting
         /\ member' = [u \in Users |-> IF member[u].status = "requested"
                                       THEN Declined(member[u]) ELSE member[u]]
  BY DEF FinishStatus, FinishSettings
<1> HIDE DEF r
<1>4. /\ member' \in [Users -> MemberRow] /\ \A u \in Users : RowOK(u, member'[u], checked)
      /\ \A u \in Users : \/ member'[u] = member[u]
                          \/ /\ member[u].status = "requested" /\ member'[u].status # "active"
                             /\ member'[u].status # "requested"
      /\ r.op = "status" /\ r.to \in Resting => \A u \in Users : member'[u].status # "requested"
  <2>1. CASE member' = member /\ ~(r.op = "status" /\ r.to \in Resting)
    BY <2>1 DEF TeamsIInv, TeamTables
  <2>2. CASE member' = [u \in Users |-> IF member[u].status = "requested"
                                        THEN Declined(member[u]) ELSE member[u]]
    <3>1. ASSUME NEW u \in Users
          PROVE  /\ RowOK(u, member'[u], checked) /\ member'[u].status # "requested"
                 /\ \/ member'[u] = member[u]
                    \/ member[u].status = "requested" /\ member'[u].status # "active"
      <4>1. member[u] \in MemberRow /\ RowOK(u, member[u], checked)
        BY MemberRows
      <4>2. CASE member[u].status = "requested"
        <5>1. member'[u] = Declined(member[u]) /\ member[u] # Absent
          BY <2>2, <4>2 DEF Absent
        <5> QED BY <4>1, <4>2, <5>1, WrittenRows
      <4>3. CASE member[u].status # "requested"
        BY <2>2, <4>1, <4>3
      <4> QED BY <4>2, <4>3
    <3>2. member' \in [Users -> MemberRow]
      <4>1. \A u \in Users : member'[u] \in MemberRow
        BY <3>1 DEF RowOK
      <4>2. member' = [u \in Users |-> member'[u]]
        BY <2>2
      <4> QED BY <4>1, <4>2
    <3> QED BY <3>1, <3>2
  <2> QED BY <1>3, <2>1, <2>2
<1>5. /\ posted' \in [TeamHandlers -> PostRecord] /\ overlapped' = overlapped
      /\ \A g \in TeamHandlers : Permitted(posted'[g], checked)
      /\ ~overlapped => Fresh(r, dojo, member) /\ WellLed /\ OneAtATime'
  BY <1>1, <1>2, RequestOver DEF r
<1>6. TeamTables'
  BY <1>1, <1>2, <1>4, <1>5 DEF TeamsIInv, TeamTables, VettingTypeOK
<1>7. ASSUME ~overlapped' PROVE OneAtATime' /\ WellLed'
  <2>1. Fresh(r, dojo, member) /\ WellLed /\ OneAtATime'
    BY <1>5, <1>7
  <2>2. \A u \in Users : Leads(member'[u]) <=> Leads(member[u])
    BY <1>4 DEF Leads
  <2>3. dojo' = "active" => \E u \in Adults : Leads(member[u])
    BY <1>1, <2>1 DEF Fresh, WellLed
  <2>4. ASSUME NEW u \in Users, member'[u].status = "requested"
        PROVE  member'[u].role = "mentor" /\ dojo' \notin Resting
    <3>1. member'[u] = member[u] /\ member[u].role = "mentor" /\ dojo \notin Resting
      BY <1>4, <2>1, <2>4 DEF WellLed
    <3>2. CASE r.op = "settings"
      BY <1>1, <2>1, <3>1, <3>2 DEF Fresh
    <3>3. CASE r.op = "status"
      BY <1>1, <1>4, <2>4, <3>1, <3>3
    <3> QED BY <1>1, <3>2, <3>3
  <2>5. WellLed'
    BY <2>1, <2>2, <2>3, <2>4 DEF WellLed, Users
  <2> QED BY <2>1, <2>5
<1> QED BY <1>6, <1>7 DEF TeamsIInv

\* An application is approved, and the request to join may follow.
LEMMA ApprovalFinishes ==
    ASSUME TeamsIInv, NEW h \in TeamHandlers, FinishApproval(h)
    PROVE  TeamsIInv'
<1> DEFINE r == posted[h]
           u == r.user
           asks == r.dojo = "active" /\ u \in clear /\ member[u].status \in {"none", "dormant"}
           next == IF asks THEN [op |-> "join", user |-> u, row |-> member[u]] ELSE Waiting
<1>1. /\ r.op = "approve" /\ u \in checked /\ approved' = approved \cup {u}
      /\ posted' = [posted EXCEPT ![h] = next]
      /\ UNCHANGED <<dojo, member, gone, overlapped, checked, clear>>
  BY DEF FinishApproval, Approve
<1>2. r # Waiting /\ u \in Adults /\ Adults \subseteq Users
  BY <1>1, NothingIsFresh, PostShapes DEF Users
<1>3. next = Waiting \/ (/\ next.op = "join" /\ next.user = u /\ next.row = member[u]
                         /\ r.dojo = "active" /\ member[u].status # "active")
  OBVIOUS
<1>4. next \in PostRecord
  <2>1. [op |-> "join", user |-> u, row |-> member[u]] \in PostRecord
    BY <1>2, MemberRows DEF PostRecord
  <2> QED BY <2>1, NothingIsFresh
<1> HIDE DEF next, r, u
<1>5. Permitted(next, checked)
  BY <1>1, <1>2, <1>3, MemberRows, NothingIsFresh DEF Permitted
<1>6. /\ posted' \in [TeamHandlers -> PostRecord]
      /\ \A g \in TeamHandlers : posted'[g] = IF g = h THEN next ELSE posted[g]
  BY <1>1, <1>4 DEF TeamsIInv, TeamTables
<1>7. \A g \in TeamHandlers : Permitted(posted'[g], checked)
  BY <1>5, <1>6 DEF TeamsIInv, TeamTables
<1>8. VettingTypeOK'
  BY <1>1, <1>2 DEF TeamsIInv, TeamTables, VettingTypeOK
<1>9. TeamTables'
  BY <1>1, <1>6, <1>7, <1>8 DEF TeamsIInv, TeamTables
<1>10. ASSUME ~overlapped' PROVE OneAtATime' /\ WellLed'
  <2>1. OneAtATime /\ WellLed /\ Fresh(r, dojo, member)
    BY <1>1, <1>10 DEF TeamsIInv, OneAtATime, r
  <2>2. WellLed'
    BY <1>1, <2>1 DEF WellLed
  <2>3. Fresh(next, dojo, member)
    BY <1>1, <1>3, <2>1, NothingIsFresh DEF Fresh
  <2>4. OneAtATime'
    BY <1>1, <1>2, <1>6, <2>1, <2>3 DEF OneAtATime, r
  <2> QED BY <2>2, <2>4
<1> QED BY <1>9, <1>10 DEF TeamsIInv

\* A worker dies; or the rest of the program moves.
LEMMA OthersKeepTheTeam ==
    ASSUME TeamsIInv, Vet \/ (\E h \in TeamHandlers : Abandon(h)) \/ UNCHANGED <<teamVars, vettingVars>>
    PROVE  TeamsIInv'
<1>1. CASE Vet
  <2>1. UNCHANGED <<dojo, member, gone, posted, overlapped>>
    BY <1>1 DEF Vet, teamVars
  <2>2. VettingTypeOK' /\ checked \subseteq checked'
    BY <1>1 DEF Vet, RecordValidated, BecomeClear, Lapse, TeamsIInv, TeamTables, VettingTypeOK
  <2>3. /\ \A u \in Users : RowOK(u, member[u], checked')
        /\ \A h \in TeamHandlers : Permitted(posted[h], checked')
    BY <2>2, CheckedStays DEF TeamsIInv, TeamTables
  <2>4. TeamTables'
    BY <2>1, <2>2, <2>3 DEF TeamsIInv, TeamTables
  <2>5. ~overlapped' => OneAtATime' /\ WellLed'
    BY <2>1 DEF TeamsIInv, OneAtATime, WellLed
  <2> QED BY <2>4, <2>5 DEF TeamsIInv
<1>2. ASSUME NEW h \in TeamHandlers, Abandon(h) PROVE TeamsIInv'
  <2>1. /\ posted[h] # Waiting /\ Done(h)
        /\ UNCHANGED <<dojo, member, gone, checked, clear, approved>>
    BY <1>2 DEF Abandon, vettingVars
  <2>2. /\ posted' \in [TeamHandlers -> PostRecord] /\ overlapped' = overlapped
        /\ \A g \in TeamHandlers : Permitted(posted'[g], checked)
        /\ ~overlapped => WellLed /\ OneAtATime'
    BY <2>1, RequestOver
  <2>3. TeamTables'
    BY <2>1, <2>2 DEF TeamsIInv, TeamTables, VettingTypeOK
  <2>4. ~overlapped' => OneAtATime' /\ WellLed'
    BY <2>1, <2>2 DEF WellLed
  <2> QED BY <2>3, <2>4 DEF TeamsIInv
<1>3. CASE UNCHANGED <<teamVars, vettingVars>>
  BY <1>3 DEF teamVars, vettingVars, TeamsIInv, TeamTables, VettingTypeOK, OneAtATime, WellLed
<1> QED BY <1>1, <1>2, <1>3

LEMMA TeamNextKeeps == TeamsIInv /\ [TeamNext]_<<teamVars, vettingVars>> => TeamsIInv'
BY PostsKeepTheTeam, OtherPostsKeepTheTeam, RowRequestsFinish, LeavingFinishes, ErasureFinishes,
   TransferFinishes, StatusFinishes, ApprovalFinishes, OthersKeepTheTeam DEF TeamNext

LEMMA TeamsIInvEnough == TeamsIInv => TeamsInv
<1> SUFFICES ASSUME TeamsIInv PROVE TeamsInv
  OBVIOUS
<1>1. TeamTypeOK
  <2>1. ASSUME NEW n \in Ninjas PROVE member[n].role \in {"none", "youth_mentor"}
    BY MemberRows DEF Users, RowOK
  <2>2. \A u \in Users : member[u].status = "active" => member[u].joined
    BY MemberRows DEF RowOK
  <2> QED BY <2>1, <2>2 DEF TeamTypeOK, TeamsIInv, TeamTables, MemberRow
<1>2. Champions = {u \in Adults : Leads(member[u])}
  BY DEF Champions, IsChampion, IsActive, Leads
<1>3. OneChampionWithoutOverlap
  <2>1. ASSUME ~overlapped, dojo = "active" PROVE Cardinality(Champions) = 1
    <3>1. PICK u \in Adults : Leads(member[u])
      BY <2>1 DEF TeamsIInv, WellLed
    <3>2. Champions = {u}
      BY <1>2, <2>1, <3>1 DEF TeamsIInv, WellLed
    <3>3. Cardinality({u}) = 1
      BY FS_Singleton
    <3> QED BY <3>2, <3>3
  <2> QED BY <2>1 DEF OneChampionWithoutOverlap, OneChampion
<1>4. ManagersWereChecked
  BY MemberRows DEF ManagersWereChecked, IsManager, RowOK
<1>5. NoRequestsWhileResting
  BY DEF NoRequestsWhileResting, TeamsIInv, WellLed
<1> QED BY <1>1, <1>3, <1>4, <1>5 DEF TeamsInv

\* However requests overlap and workers die, whoever manages a dojo was
\* checked; and as long as no two overlapped, an active dojo has its one
\* champion and a resting one no open requests.  (dojos.team)
THEOREM TeamsAreLed == TeamSpec => []TeamsInv
<1>1. TeamSpec => []TeamsIInv
  BY TeamInitOK, TeamNextKeeps, PTL DEF TeamSpec
<1> QED BY <1>1, TeamsIInvEnough, PTL

-----------------------------------------------------------------------------
(* Questions of a session: the inductive invariant *)

\* Questions are only added by the lock's holder, so what a holder found when
\* it looked still bounds them; a removal without the lock makes them fewer.
HolderIsRight ==
    \A r \in Requests :
        /\ asking[r].at = "locked" => holder = r
        /\ asking[r].at = "checked" /\ asking[r].job = "add" =>
              holder = r /\ Cardinality(asked) < MaxQuestions
        /\ asking[r].at = "checked" /\ asking[r].job \in {"sign up", "change"} =>
              holder = r /\ asked \subseteq asking[r].shown

\* A removal takes only the answers to its question with it.
OnlyItsAnswers ==
    \A r \in Requests :
        asking[r].at = "checked" /\ asking[r].job = "remove" =>
            asking[r].seen \subseteq Children \X asking[r].question

\* A new question is not one that a child was ever owed an answer to.
OwedWereAsked == \A c \in Children : owed[c] \subseteq used

QuestionsIInv ==
    /\ QuestionsTypeOK /\ QuestionLimitKept
    /\ HolderIsRight /\ OnlyItsAnswers
    /\ OwedWereAsked /\ SignedUpMeansAnswered

Jobs == {"none", "sign up", "change", "add", "remove", "correct"}

Asking ==
    [at : {"idle", "page", "locked", "checked"}, job : Jobs,
     child : SUBSET Children, question : SUBSET Questions,
     shown : SUBSET Questions, seen : SUBSET Rows]

LEMMA IdleRequestIsIdle == IdleRequest \in Asking /\ IdleRequest.at = "idle"
BY DEF IdleRequest, Asking, Jobs

LEMMA QuestionsAreFinite ==
    ASSUME NEW S \in SUBSET Questions
    PROVE  IsFiniteSet(S) /\ Cardinality(S) \in Nat
BY QuestionsAssumption, FS_Subset, FS_CardinalityType

LEMMA InitQuestions == QuestionsInit => QuestionsIInv
<1> SUFFICES ASSUME QuestionsInit PROVE QuestionsIInv
  OBVIOUS
<1>1. asking \in [Requests -> Asking] /\ \A r \in Requests : asking[r].at = "idle"
  BY IdleRequestIsIdle DEF QuestionsInit
<1>2. QuestionsTypeOK
  BY <1>1 DEF QuestionsInit, QuestionsTypeOK, Asking, Jobs
<1>3. HolderIsRight /\ OnlyItsAnswers
  BY <1>1 DEF HolderIsRight, OnlyItsAnswers
<1>4. OwedWereAsked /\ SignedUpMeansAnswered /\ QuestionLimitKept
  BY DEF QuestionsInit, OwedWereAsked, SignedUpMeansAnswered, QuestionLimitKept
<1> QED BY <1>2, <1>3, <1>4 DEF QuestionsIInv

\* A request goes on or ends, and neither the questions nor the answers
\* change.  What it finds, it finds with the lock.
LEMMA LookingKeepsQuestions ==
    ASSUME QuestionsIInv, NEW r \in Requests, NEW row \in Asking,
           asking' = [asking EXCEPT ![r] = row],
           UNCHANGED <<asked, used, registered, answers, started, owed>>,
           holder' \in Requests \cup {NoRequest},
           \/ holder' = holder
           \/ holder = NoRequest /\ holder' = r
           \/ holder = r /\ holder' = NoRequest /\ row.at = "idle",
           row.at = "locked" => holder' = r,
           row.at = "checked" /\ row.job = "add" => holder' = r /\ Cardinality(asked) < MaxQuestions,
           row.at = "checked" /\ row.job \in {"sign up", "change"} =>
               holder' = r /\ asked \subseteq row.shown,
           row.at = "checked" /\ row.job = "remove" => row.seen \subseteq Children \X row.question
    PROVE  QuestionsIInv'
<1>1. asking \in [Requests -> Asking]
  BY DEF QuestionsIInv, QuestionsTypeOK, Asking, Jobs
<1>2. /\ asking' \in [Requests -> Asking] /\ asking'[r] = row
      /\ \A q \in Requests \ {r} : asking'[q] = asking[q]
  BY <1>1
<1>3. QuestionsTypeOK'
  BY <1>2 DEF QuestionsIInv, QuestionsTypeOK, Asking, Jobs
<1>4. HolderIsRight'
  <2> SUFFICES ASSUME NEW q \in Requests
               PROVE  /\ asking'[q].at = "locked" => holder' = q
                      /\ asking'[q].at = "checked" /\ asking'[q].job = "add" =>
                            holder' = q /\ Cardinality(asked) < MaxQuestions
                      /\ asking'[q].at = "checked" /\ asking'[q].job \in {"sign up", "change"} =>
                            holder' = q /\ asked \subseteq asking'[q].shown
    BY DEF HolderIsRight
  <2>1. CASE q = r
    BY <1>2, <2>1
  <2>2. CASE q # r
    <3>1. asking'[q] = asking[q] /\ (holder = q => holder' = q)
      BY <1>2, <2>2, QuestionsAssumption
    <3> QED BY <3>1 DEF QuestionsIInv, HolderIsRight
  <2> QED BY <2>1, <2>2
<1>5. OnlyItsAnswers'
  <2> SUFFICES ASSUME NEW q \in Requests, asking'[q].at = "checked", asking'[q].job = "remove"
               PROVE  asking'[q].seen \subseteq Children \X asking'[q].question
    BY DEF OnlyItsAnswers
  <2>1. CASE q = r
    BY <1>2, <2>1
  <2>2. CASE q # r
    BY <1>2, <2>2 DEF QuestionsIInv, OnlyItsAnswers
  <2> QED BY <2>1, <2>2
<1>6. OwedWereAsked' /\ SignedUpMeansAnswered' /\ QuestionLimitKept'
  BY DEF QuestionsIInv, OwedWereAsked, SignedUpMeansAnswered, QuestionLimitKept
<1> QED BY <1>3, <1>4, <1>5, <1>6 DEF QuestionsIInv

\* A request ends with a change, or none asks: questions are added only by a
\* holder of the lock, and no answer that is owed goes.
LEMMA ChangingKeepsQuestions ==
    ASSUME QuestionsIInv, QuestionsTypeOK',
           NEW Ended \in SUBSET Requests,
           \A q \in Requests \ Ended : asking'[q] = asking[q],
           \A q \in Ended : asking'[q].at = "idle",
           \A q \in Requests \ Ended : holder = q => holder' = q,
           asked' \subseteq asked \/ \E q \in Ended : holder = q,
           used \subseteq used', QuestionLimitKept', OwedWereAsked', SignedUpMeansAnswered'
    PROVE  QuestionsIInv'
<1>1. \A q \in Requests \ Ended :
        asking[q].at = "checked" /\ asking[q].job = "add" => Cardinality(asked') < MaxQuestions
  <2> SUFFICES ASSUME NEW q \in Requests \ Ended, asking[q].at = "checked", asking[q].job = "add"
               PROVE  Cardinality(asked') < MaxQuestions
    OBVIOUS
  <2>1. holder = q /\ Cardinality(asked) < MaxQuestions
    BY DEF QuestionsIInv, HolderIsRight
  <2>2. asked' \subseteq asked
    BY <2>1
  <2>3. IsFiniteSet(asked) /\ asked' \in SUBSET Questions
    BY QuestionsAreFinite DEF QuestionsIInv, QuestionsTypeOK
  <2>4. Cardinality(asked') <= Cardinality(asked)
    BY <2>2, <2>3, FS_Subset
  <2>5. Cardinality(asked) \in Nat /\ Cardinality(asked') \in Nat /\ MaxQuestions \in Nat
    BY <2>3, FS_CardinalityType, FS_Subset, QuestionsAreFinite, QuestionsAssumption
  <2> QED BY <2>1, <2>4, <2>5
<1>2. HolderIsRight'
  <2> SUFFICES ASSUME NEW q \in Requests
               PROVE  /\ asking'[q].at = "locked" => holder' = q
                      /\ asking'[q].at = "checked" /\ asking'[q].job = "add" =>
                            holder' = q /\ Cardinality(asked') < MaxQuestions
                      /\ asking'[q].at = "checked" /\ asking'[q].job \in {"sign up", "change"} =>
                            holder' = q /\ asked' \subseteq asking'[q].shown
    BY DEF HolderIsRight
  <2>1. CASE q \in Ended
    BY <2>1
  <2>2. CASE q \notin Ended
    <3>1. asking'[q] = asking[q] /\ (holder = q => holder' = q /\ asked' \subseteq asked)
      BY <2>2
    <3> QED BY <1>1, <2>2, <3>1 DEF QuestionsIInv, HolderIsRight
  <2> QED BY <2>1, <2>2
<1>3. OnlyItsAnswers'
  <2> SUFFICES ASSUME NEW q \in Requests, asking'[q].at = "checked", asking'[q].job = "remove"
               PROVE  asking'[q].seen \subseteq Children \X asking'[q].question
    BY DEF OnlyItsAnswers
  <2>1. q \notin Ended
    OBVIOUS
  <2> QED BY <2>1 DEF QuestionsIInv, OnlyItsAnswers
<1> QED BY <1>2, <1>3 DEF QuestionsIInv

\* Requests that only look.
LEMMA LookersKeepQuestions ==
    ASSUME QuestionsIInv, NEW r \in Requests,
           \/ OpenPage(r) \/ TakeLock(r) \/ GiveUp(r) \/ CheckAnswers(r) \/ CheckRoom(r)
           \/ CollectAnswers(r) \/ LookUpAnswer(r)
    PROVE  QuestionsIInv'
<1>1. /\ asking \in [Requests -> Asking] /\ holder \in Requests \cup {NoRequest}
      /\ asked \in SUBSET Questions /\ answers \in SUBSET Rows
  BY DEF QuestionsIInv, QuestionsTypeOK, Asking, Jobs, Rows
<1>2. PICK s \in Asking : s = asking[r]
  BY <1>1
<1>3. /\ s.at = "locked" => holder = r
      /\ s.at = "checked" /\ s.job = "remove" => s.seen \subseteq Children \X s.question
  BY <1>2 DEF QuestionsIInv, HolderIsRight, OnlyItsAnswers
<1>4. CASE OpenPage(r)
  <2>1. PICK job \in Jobs, c \in SUBSET Children, q \in SUBSET Questions : Open(r, job, c, q)
    <3>1. registered \subseteq Children /\ asked \subseteq Questions
      BY DEF QuestionsIInv, QuestionsTypeOK
    <3>2. \A c \in Children \ registered : {c} \in SUBSET Children
      OBVIOUS
    <3>3. \A c \in registered : {c} \in SUBSET Children
      BY <3>1
    <3>4. \A q \in asked : {q} \in SUBSET Questions
      BY <3>1
    <3> QED BY <1>4, <3>2, <3>3, <3>4 DEF OpenPage, Jobs
  <2>2. PICK i \in Asking : i = IdleRequest
    BY IdleRequestIsIdle
  <2> DEFINE row == [i EXCEPT !.at = "page", !.job = job, !.child = c, !.question = q,
                              !.shown = asked]
  <2>3. row \in Asking /\ row.at = "page"
    BY <1>1 DEF Asking
  <2>4. /\ asking' = [asking EXCEPT ![r] = row]
        /\ UNCHANGED <<asked, used, registered, answers, started, holder, owed>>
    BY <2>1, <2>2 DEF Open
  <2> HIDE DEF row
  <2> QED BY <1>1, <2>3, <2>4, LookingKeepsQuestions
<1>5. CASE TakeLock(r)
  <2> DEFINE row == [s EXCEPT !.at = "locked"]
  <2>1. row \in Asking /\ row.at = "locked"
    BY DEF Asking
  <2>2. /\ asking' = [asking EXCEPT ![r] = row] /\ holder = NoRequest /\ holder' = r
        /\ UNCHANGED <<asked, used, registered, answers, started, owed>>
    BY <1>1, <1>2, <1>5 DEF TakeLock
  <2> HIDE DEF row
  <2> QED BY <2>1, <2>2, LookingKeepsQuestions
<1>6. CASE GiveUp(r)
  <2>1. /\ asking' = [asking EXCEPT ![r] = IdleRequest]
        /\ UNCHANGED <<asked, used, registered, answers, started, owed>>
        /\ holder' = IF holder = r THEN NoRequest ELSE holder
    BY <1>6 DEF GiveUp, EndRequest, Unlock
  <2>2. /\ holder' \in Requests \cup {NoRequest}
        /\ holder' = holder \/ (holder = r /\ holder' = NoRequest)
    BY <1>1, <2>1
  <2> QED BY <2>1, <2>2, IdleRequestIsIdle, LookingKeepsQuestions
<1>7. CASE CheckAnswers(r)
  <2> DEFINE row == [s EXCEPT !.at = "checked", !.shown = asked]
  <2>1. row \in Asking /\ row.at = "checked" /\ row.job = s.job /\ row.shown = asked
    BY <1>1 DEF Asking
  <2>2. /\ asking' = [asking EXCEPT ![r] = row] /\ s.at = "locked" /\ s.job \in {"sign up", "change"}
        /\ UNCHANGED <<asked, used, registered, answers, started, holder, owed>>
    BY <1>1, <1>2, <1>7 DEF CheckAnswers
  <2> HIDE DEF row
  <2> QED BY <1>1, <1>3, <2>1, <2>2, LookingKeepsQuestions
<1>8. CASE CheckRoom(r)
  <2> DEFINE row == [s EXCEPT !.at = "checked"]
  <2>1. row \in Asking /\ row.at = "checked" /\ row.job = s.job
    BY DEF Asking
  <2>2. /\ asking' = [asking EXCEPT ![r] = row] /\ s.at = "locked" /\ s.job = "add"
        /\ Cardinality(asked) < MaxQuestions
        /\ UNCHANGED <<asked, used, registered, answers, started, holder, owed>>
    BY <1>1, <1>2, <1>8 DEF CheckRoom
  <2> HIDE DEF row
  <2> QED BY <1>1, <1>3, <2>1, <2>2, LookingKeepsQuestions
<1>9. CASE CollectAnswers(r)
  <2> DEFINE row == [s EXCEPT !.at = "checked", !.seen = AnswersTo(r)]
  <2>1. AnswersTo(r) \in SUBSET Rows /\ AnswersTo(r) \subseteq Children \X s.question
    BY <1>1, <1>2 DEF AnswersTo, Rows
  <2>2. /\ row \in Asking /\ row.at = "checked" /\ row.job = s.job /\ row.question = s.question
        /\ row.seen = AnswersTo(r)
    BY <2>1 DEF Asking
  <2>3. /\ asking' = [asking EXCEPT ![r] = row] /\ s.job = "remove"
        /\ UNCHANGED <<asked, used, registered, answers, started, holder, owed>>
    BY <1>1, <1>2, <1>9 DEF CollectAnswers
  <2> HIDE DEF row
  <2> QED BY <1>1, <2>1, <2>2, <2>3, LookingKeepsQuestions
<1>10. CASE LookUpAnswer(r)
  <2> DEFINE seen == answers \cap (s.child \X s.question)
             row == [s EXCEPT !.at = "checked", !.seen = seen]
  <2>1. row \in Asking /\ row.at = "checked" /\ row.job = s.job
    BY <1>1 DEF Asking
  <2>2. /\ asking' = [asking EXCEPT ![r] = row] /\ s.job = "correct"
        /\ UNCHANGED <<asked, used, registered, answers, started, holder, owed>>
    BY <1>1, <1>2, <1>10 DEF LookUpAnswer
  <2> HIDE DEF row
  <2> QED BY <1>1, <2>1, <2>2, LookingKeepsQuestions
<1> QED BY <1>4, <1>5, <1>6, <1>7, <1>8, <1>9, <1>10

\* Requests that save, places that are cancelled, and time.
LEMMA ChangersKeepQuestions ==
    ASSUME QuestionsIInv,
           \/ \E r \in Requests : \/ SaveAnswers(r) \/ AddQuestion(r) \/ RemoveQuestion(r)
                                  \/ CorrectAnswer(r)
           \/ \E c \in Children : CancelPlace(c)
           \/ SessionBegins
    PROVE  QuestionsIInv'
<1>1. /\ asking \in [Requests -> Asking] /\ holder \in Requests \cup {NoRequest}
      /\ asked \subseteq used /\ used \subseteq Questions /\ registered \subseteq Children
      /\ answers \subseteq registered \X asked /\ started \in BOOLEAN
      /\ owed \in [Children -> SUBSET Questions]
  BY DEF QuestionsIInv, QuestionsTypeOK, Asking, Jobs
<1>2. /\ Cardinality(asked) <= MaxQuestions
      /\ \A c \in Children : owed[c] \subseteq used
      /\ \A c \in registered : {c} \X (owed[c] \cap asked) \subseteq answers
  BY DEF QuestionsIInv, QuestionLimitKept, OwedWereAsked, SignedUpMeansAnswered
\* What every request does that ends.
<1>3. ASSUME NEW r \in Requests, EndRequest(r)
      PROVE  /\ asking' \in [Requests -> Asking] /\ asking'[r].at = "idle"
             /\ \A q \in Requests \ {r} : asking'[q] = asking[q]
  BY <1>1, <1>3, IdleRequestIsIdle DEF EndRequest
<1>4. ASSUME NEW r \in Requests, Unlock(r)
      PROVE  /\ holder' \in Requests \cup {NoRequest}
             /\ \A q \in Requests \ {r} : holder = q => holder' = q
  BY <1>1, <1>4 DEF Unlock
<1>5. ASSUME NEW r \in Requests, SaveAnswers(r) PROVE QuestionsIInv'
  <2>1. PICK s \in Asking : s = asking[r]
    BY <1>1
  <2>2. /\ s.at = "checked" /\ s.job \in {"sign up", "change"} /\ s.shown \subseteq asked
        /\ answers' = answers \cup (s.child \X s.shown)
        /\ EndRequest(r) /\ Unlock(r) /\ UNCHANGED <<asked, used, started>>
    BY <1>5, <2>1 DEF SaveAnswers
  <2>3. \/ /\ registered' = registered \cup s.child
           /\ owed' = [c \in Children |-> IF c \in s.child THEN asked ELSE owed[c]]
        \/ s.child \subseteq registered /\ UNCHANGED <<registered, owed>>
    BY <1>5, <2>1 DEF SaveAnswers
  <2>4. s.shown = asked /\ s.child \subseteq Children
    BY <2>1, <2>2 DEF QuestionsIInv, HolderIsRight, Asking
  <2>5. /\ registered' \subseteq Children /\ s.child \subseteq registered'
        /\ registered \subseteq registered' /\ owed' \in [Children -> SUBSET Questions]
    BY <1>1, <2>3, <2>4
  <2>6. answers' \subseteq registered' \X asked
    BY <1>1, <2>2, <2>5
  <2>7. QuestionsTypeOK'
    BY <1>1, <1>3, <1>4, <2>2, <2>5, <2>6 DEF QuestionsTypeOK, Asking, Jobs
  <2>8. \A c \in Children : owed'[c] \subseteq used
    BY <1>1, <1>2, <2>3
  <2>9. ASSUME NEW c \in registered' PROVE {c} \X (owed'[c] \cap asked) \subseteq answers'
    <3>1. CASE c \in s.child
      BY <2>2, <2>4, <3>1
    <3>2. CASE c \notin s.child
      <4>1. c \in registered /\ owed'[c] = owed[c]
        BY <1>1, <2>3, <2>9, <3>2
      <4> QED BY <1>2, <2>2, <4>1
    <3> QED BY <3>1, <3>2
  <2>10. OwedWereAsked' /\ SignedUpMeansAnswered' /\ QuestionLimitKept'
    BY <1>2, <2>2, <2>8, <2>9 DEF OwedWereAsked, SignedUpMeansAnswered, QuestionLimitKept
  <2> DEFINE Ended == {r}
  <2>11. /\ \A q \in Requests \ Ended : asking'[q] = asking[q]
         /\ \A q \in Ended : asking'[q].at = "idle"
         /\ \A q \in Requests \ Ended : holder = q => holder' = q
         /\ Ended \in SUBSET Requests
    BY <1>3, <1>4, <2>2
  <2> HIDE DEF Ended
  <2> QED BY <2>2, <2>7, <2>10, <2>11, ChangingKeepsQuestions
<1>6. ASSUME NEW r \in Requests, AddQuestion(r) PROVE QuestionsIInv'
  <2>1. PICK q \in Questions \ used : asked' = asked \cup {q} /\ used' = used \cup {q}
    BY <1>6 DEF AddQuestion
  <2>2. /\ asking[r].at = "checked" /\ asking[r].job = "add" /\ EndRequest(r) /\ Unlock(r)
        /\ UNCHANGED <<registered, answers, started, owed>>
    BY <1>6 DEF AddQuestion
  <2>3. holder = r /\ Cardinality(asked) < MaxQuestions
    BY <2>2 DEF QuestionsIInv, HolderIsRight
  <2>4. answers \subseteq registered \X (asked \cup {q})
    BY <1>1
  <2>5. QuestionsTypeOK'
    BY <1>1, <1>3, <1>4, <2>1, <2>2, <2>4 DEF QuestionsTypeOK, Asking, Jobs
  <2>6. Cardinality(asked') = Cardinality(asked) + 1
    BY <1>1, <2>1, QuestionsAreFinite, FS_AddElement
  <2>7. QuestionLimitKept'
    BY <1>1, <2>3, <2>6, QuestionsAreFinite, QuestionsAssumption DEF QuestionLimitKept
  <2>8. \A c \in Children : owed[c] \cap (asked \cup {q}) = owed[c] \cap asked
    BY <1>2
  <2>9. OwedWereAsked' /\ SignedUpMeansAnswered'
    BY <1>1, <1>2, <2>1, <2>2, <2>8 DEF OwedWereAsked, SignedUpMeansAnswered
  <2> DEFINE Ended == {r}
  <2>10. /\ \A p \in Requests \ Ended : asking'[p] = asking[p]
         /\ \A p \in Ended : asking'[p].at = "idle"
         /\ \A p \in Requests \ Ended : holder = p => holder' = p
         /\ Ended \in SUBSET Requests /\ \E p \in Ended : holder = p
    BY <1>3, <1>4, <2>2, <2>3
  <2> HIDE DEF Ended
  <2> QED BY <2>1, <2>5, <2>7, <2>9, <2>10, ChangingKeepsQuestions
<1>7. ASSUME NEW r \in Requests, RemoveQuestion(r) PROVE QuestionsIInv'
  <2>1. PICK s \in Asking : s = asking[r]
    BY <1>1
  <2>2. /\ s.at = "checked" /\ s.job = "remove" /\ AnswersTo(r) \subseteq s.seen
        /\ asked' = asked \ s.question /\ answers' = answers \ s.seen
        /\ EndRequest(r) /\ UNCHANGED <<used, registered, started, holder, owed>>
    BY <1>7, <2>1 DEF RemoveQuestion
  <2>3. s.seen \subseteq Children \X s.question
    BY <2>1, <2>2 DEF QuestionsIInv, OnlyItsAnswers
  <2>4. answers' \subseteq registered \X asked'
    BY <1>1, <2>1, <2>2 DEF AnswersTo
  <2>5. QuestionsTypeOK'
    BY <1>1, <1>3, <2>2, <2>4 DEF QuestionsTypeOK, Asking, Jobs
  <2>6. QuestionLimitKept'
    <3>1. IsFiniteSet(asked) /\ asked' \subseteq asked
      BY <1>1, <2>2, QuestionsAreFinite
    <3>2. Cardinality(asked') <= Cardinality(asked)
      BY <3>1, FS_Subset
    <3>3. Cardinality(asked') \in Nat /\ Cardinality(asked) \in Nat
      BY <1>1, <3>1, QuestionsAreFinite
    <3> QED BY <1>2, <3>2, <3>3, QuestionsAssumption DEF QuestionLimitKept
  <2>7. OwedWereAsked' /\ SignedUpMeansAnswered'
    <3>1. ASSUME NEW c \in registered PROVE {c} \X (owed[c] \cap asked') \subseteq answers'
      BY <1>2, <2>2, <2>3
    <3> QED BY <1>2, <2>2, <3>1 DEF OwedWereAsked, SignedUpMeansAnswered
  <2> DEFINE Ended == {r}
  <2>8. /\ \A p \in Requests \ Ended : asking'[p] = asking[p]
        /\ \A p \in Ended : asking'[p].at = "idle"
        /\ Ended \in SUBSET Requests
    BY <1>3, <2>2
  <2> HIDE DEF Ended
  <2> QED BY <2>2, <2>5, <2>6, <2>7, <2>8, ChangingKeepsQuestions
<1>8. ASSUME NEW r \in Requests, CorrectAnswer(r) PROVE QuestionsIInv'
  <2>1. PICK s \in Asking : s = asking[r]
    BY <1>1
  <2>2. /\ s.child \subseteq registered /\ s.question \subseteq asked
        /\ answers' = answers \cup (s.child \X s.question)
        /\ EndRequest(r) /\ UNCHANGED <<asked, used, registered, started, holder, owed>>
    BY <1>8, <2>1 DEF CorrectAnswer
  <2>3. answers' \subseteq registered \X asked
    BY <1>1, <2>2
  <2>4. QuestionsTypeOK'
    BY <1>1, <1>3, <2>2, <2>3 DEF QuestionsTypeOK, Asking, Jobs
  <2>5. OwedWereAsked' /\ SignedUpMeansAnswered' /\ QuestionLimitKept'
    <3>1. ASSUME NEW c \in registered PROVE {c} \X (owed[c] \cap asked) \subseteq answers'
      BY <1>2, <2>2
    <3> QED BY <1>2, <2>2, <3>1 DEF OwedWereAsked, SignedUpMeansAnswered, QuestionLimitKept
  <2> DEFINE Ended == {r}
  <2>6. /\ \A p \in Requests \ Ended : asking'[p] = asking[p]
        /\ \A p \in Ended : asking'[p].at = "idle"
        /\ Ended \in SUBSET Requests
    BY <1>3, <2>2
  <2> HIDE DEF Ended
  <2> QED BY <2>2, <2>4, <2>5, <2>6, ChangingKeepsQuestions
<1>9. ASSUME NEW c \in Children, CancelPlace(c) PROVE QuestionsIInv'
  <2>1. /\ c \in registered /\ registered' = registered \ {c}
        /\ answers' = {row \in answers : row[1] # c} /\ owed' = [owed EXCEPT ![c] = {}]
        /\ UNCHANGED <<asked, used, started, holder, asking>>
    BY <1>9 DEF CancelPlace
  <2>2. answers' \subseteq registered' \X asked /\ owed' \in [Children -> SUBSET Questions]
    BY <1>1, <2>1
  <2>3. QuestionsTypeOK'
    BY <1>1, <2>1, <2>2 DEF QuestionsTypeOK, Asking, Jobs
  <2>4. OwedWereAsked' /\ SignedUpMeansAnswered' /\ QuestionLimitKept'
    <3>1. \A d \in Children : owed'[d] = IF d = c THEN {} ELSE owed[d]
      BY <1>1, <2>1
    <3>2. ASSUME NEW d \in registered' PROVE {d} \X (owed'[d] \cap asked) \subseteq answers'
      <4>1. d \in registered /\ d # c /\ owed'[d] = owed[d]
        BY <1>1, <2>1, <3>1
      <4> QED BY <1>2, <2>1, <4>1
    <3> QED BY <1>2, <2>1, <3>1, <3>2 DEF OwedWereAsked, SignedUpMeansAnswered, QuestionLimitKept
  <2> DEFINE Ended == {}
  <2>5. /\ \A p \in Requests \ Ended : asking'[p] = asking[p]
        /\ \A p \in Ended : asking'[p].at = "idle"
        /\ Ended \in SUBSET Requests
    BY <2>1
  <2> HIDE DEF Ended
  <2> QED BY <2>1, <2>3, <2>4, <2>5, ChangingKeepsQuestions
<1>10. CASE SessionBegins
  <2>1. started' = TRUE /\ UNCHANGED <<asked, used, registered, answers, holder, asking, owed>>
    BY <1>10 DEF SessionBegins
  <2> QED BY <2>1 DEF QuestionsIInv, QuestionsTypeOK, QuestionLimitKept, HolderIsRight,
          OnlyItsAnswers, OwedWereAsked, SignedUpMeansAnswered
<1> QED BY <1>5, <1>6, <1>7, <1>8, <1>9, <1>10

LEMMA NextQuestions == QuestionsIInv /\ [QuestionsNext]_questionVars => QuestionsIInv'
<1>1. QuestionsIInv /\ UNCHANGED questionVars => QuestionsIInv'
  BY DEF questionVars, QuestionsIInv, QuestionsTypeOK, QuestionLimitKept, HolderIsRight,
     OnlyItsAnswers, OwedWereAsked, SignedUpMeansAnswered
<1> QED BY <1>1, LookersKeepQuestions, ChangersKeepQuestions DEF QuestionsNext

\* A session never asks more questions than it may, and whoever signed up has
\* answered every question there was, for any number of families, members of
\* the team and questions (events.questions, registrations.sign_up).
THEOREM QuestionsAreAnswered == QuestionsSpec => []QuestionsInv
<1>1. QuestionsIInv => QuestionsInv
  BY DEF QuestionsIInv, QuestionsInv
<1> QED BY InitQuestions, NextQuestions, <1>1, PTL DEF QuestionsSpec

-----------------------------------------------------------------------------
(* Session notices: the lock, and the rows counted under it *)

NoticeSlots == Parts \X NoticeKinds

\* Who has the session's row is who looks and writes; what it found it will
\* still find, since only time passes meanwhile, and that makes rows fewer.
SenderFits(s) ==
    /\ sender[s].at \in {"locked", "checked"} => sessionLock = s
    /\ sender[s].at = "checked" /\ sender[s].kind = "change" => Sent(NoticeKinds) < NoticeLimit

NoticesIInv ==
    /\ NoticesTypeOK
    /\ \A s \in Senders : SenderFits(s)
    /\ Sent({"change"}) <= NoticeLimit
    /\ Sent({"cancelled"}) <= MaxCancelled

LEMMA NoticeNumbers ==
    /\ DayParts \in Nat /\ DayParts > 0 /\ NoticeLimit \in Nat /\ NoticeLimit > 0
    /\ MaxCancelled \in Nat /\ Most \in Nat /\ Most = NoticeLimit + MaxCancelled
    /\ Parts = 0..(DayParts - 1) /\ 0 \in Parts /\ NoSender \notin Senders
BY NoticesAssumption DEF Most, Parts

LEMMA NoticeRowsAreFinite ==
    ASSUME NEW kinds \in SUBSET NoticeKinds
    PROVE  /\ IsFiniteSet(NoticeRows(kinds)) /\ Sent(kinds) \in Nat
           /\ IsFiniteSet((Parts \X kinds) \X (1..Most))
           /\ \A some \in SUBSET kinds : Sent(some) \in Nat /\ Sent(some) <= Sent(kinds)
<1>1. IsFiniteSet(Parts) /\ IsFiniteSet(1..Most)
  BY NoticeNumbers, FS_Interval
<1>2. IsFiniteSet(kinds)
  <2>1. IsFiniteSet({"change"}) /\ NoticeKinds = {"change"} \cup {"cancelled"}
    BY FS_Singleton DEF NoticeKinds
  <2>2. IsFiniteSet(NoticeKinds)
    BY <2>1, FS_AddElement
  <2> QED BY <2>2, FS_Subset
<1>3. IsFiniteSet(Parts \X kinds)
  BY <1>1, <1>2, FS_Product
<1>4. IsFiniteSet((Parts \X kinds) \X (1..Most))
  BY <1>1, <1>3, FS_Product
<1>5. NoticeRows(kinds) \subseteq (Parts \X kinds) \X (1..Most)
  BY DEF NoticeRows
<1>6. IsFiniteSet(NoticeRows(kinds)) /\ Sent(kinds) \in Nat
  BY <1>4, <1>5, FS_Subset, FS_CardinalityType DEF Sent
<1>7. ASSUME NEW some \in SUBSET kinds PROVE Sent(some) \in Nat /\ Sent(some) <= Sent(kinds)
  <2>1. NoticeRows(some) \subseteq NoticeRows(kinds)
    BY DEF NoticeRows
  <2> QED BY <1>6, <2>1, FS_Subset, FS_CardinalityType DEF Sent
<1> QED BY <1>4, <1>6, <1>7

\* A count of all kinds bounds that of any slot.
LEMMA SlotsAreCounted ==
    ASSUME NoticesTypeOK, NEW part \in Parts, NEW kind \in NoticeKinds
    PROVE  notices[<<part, kind>>] <= Sent({kind})
<1> DEFINE n == notices[<<part, kind>>]
           row == [i \in 1..n |-> <<<<part, kind>>, i>>]
<1>1. <<part, kind>> \in NoticeSlots /\ n \in 0..Most
  BY DEF NoticesTypeOK, NoticeSlots
<1>2. \A i \in 1..n : <<<<part, kind>>, i>> \in NoticeRows({kind})
  BY <1>1, NoticeNumbers DEF NoticeRows
<1>3. row \in [1..n -> NoticeRows({kind})] /\ \A i, j \in 1..n : row[i] = row[j] => i = j
  BY <1>2
<1> HIDE DEF n, row
<1>4. IsFiniteSet(1..n) /\ Cardinality(1..n) = n /\ n \in Nat
  <2>1. n \in Nat
    BY <1>1, NoticeNumbers
  <2>2. IsFiniteSet(1..n) /\ Cardinality(1..n) = IF 1 > n THEN 0 ELSE n - 1 + 1
    BY <2>1, FS_Interval
  <2> QED BY <2>1, <2>2
<1>5. IsFiniteSet(NoticeRows({kind})) /\ Sent({kind}) \in Nat
  BY NoticeRowsAreFinite
<1>6. ~(Sent({kind}) < n)
  <2> DEFINE S == 1..n
             T == NoticeRows({kind})
  <2> SUFFICES ASSUME Cardinality(T) < Cardinality(S) PROVE FALSE
    BY <1>4 DEF Sent
  <2>1. IsFiniteSet(S) /\ IsFiniteSet(T) /\ row \in [S -> T] /\ \A i, j \in S : row[i] = row[j] => i = j
    BY <1>3, <1>4, <1>5
  <2> HIDE DEF S, T
  <2>2. \E i, j \in S : i # j /\ row[i] = row[j]
    BY <2>1, FS_PigeonHole
  <2> QED BY <2>1, <2>2
<1> QED BY <1>4, <1>5, <1>6 DEF n

LEMMA NoticesInitOK == NoticesInit => NoticesIInv
<1> SUFFICES ASSUME NoticesInit PROVE NoticesIInv
  OBVIOUS
<1>1. NoticesTypeOK
  <2>1. notices \in [Parts \X NoticeKinds -> 0..Most]
    BY NoticeNumbers DEF NoticesInit
  <2>2. NoNotice \in [at : {"idle", "written", "locked", "checked"}, kind : NoticeKinds, saw : BOOLEAN]
    BY DEF NoNotice, NoticeKinds
  <2> QED BY <2>1, <2>2 DEF NoticesInit, NoticesTypeOK
<1>2. \A s \in Senders : SenderFits(s)
  BY DEF NoticesInit, SenderFits, NoNotice
<1>3. ASSUME NEW kind \in NoticeKinds PROVE Sent({kind}) = 0
  <2>1. \A row \in (Parts \X {kind}) \X (1..Most) : notices[row[1]] = 0 /\ row[2] \in Nat /\ row[2] >= 1
    BY NoticeNumbers DEF NoticesInit
  <2>2. NoticeRows({kind}) = {}
    BY <2>1 DEF NoticeRows
  <2> QED BY <2>2, FS_EmptySet DEF Sent
<1> QED BY <1>1, <1>2, <1>3, NoticeNumbers DEF NoticesIInv, NoticeKinds

\* Time takes each row to the next age, or away: there are not more of them.
LEMMA TimeMakesNoRows ==
    ASSUME NoticesTypeOK, TimePasses, NEW kinds \in SUBSET NoticeKinds
    PROVE  /\ (notices \in [Parts \X NoticeKinds -> 0..Most])'
           /\ Sent(kinds)' \in Nat /\ Sent(kinds)' <= Sent(kinds)
<1>1. \A n \in Parts \X NoticeKinds :
        notices'[n] = IF n[1] = 0 THEN 0 ELSE notices[<<n[1] - 1, n[2]>>]
  BY DEF TimePasses
<1>2. \A n \in Parts \X NoticeKinds : n[1] # 0 => <<n[1] - 1, n[2]>> \in Parts \X NoticeKinds
  BY NoticeNumbers
<1>3. notices' \in [Parts \X NoticeKinds -> 0..Most]
  BY <1>1, <1>2, NoticeNumbers DEF TimePasses, NoticesTypeOK
<1> DEFINE Old == NoticeRows(kinds)
           New == NoticeRows(kinds)'
           was == [row \in New |-> <<<<row[1][1] - 1, row[1][2]>>, row[2]>>]
<1>4. ASSUME NEW row \in New
      PROVE  /\ was[row] \in Old
             /\ row = <<<<row[1][1], row[1][2]>>, row[2]>> /\ row[1][1] \in Nat
  <2>1. row \in (Parts \X kinds) \X (1..Most) /\ row[2] <= notices'[row[1]]
    BY DEF NoticeRows
  <2>2. row[1] \in Parts \X NoticeKinds /\ row[2] \in Nat /\ row[2] >= 1
    BY <2>1, NoticeNumbers
  <2>3. row[1][1] # 0 /\ notices'[row[1]] = notices[<<row[1][1] - 1, row[1][2]>>]
    BY <1>1, <2>1, <2>2
  <2>4. <<row[1][1] - 1, row[1][2]>> \in Parts \X kinds
    BY <2>1, <2>3, NoticeNumbers
  <2> QED BY <2>1, <2>2, <2>3, <2>4, NoticeNumbers DEF NoticeRows
<1>5. was \in [New -> Old] /\ \A r, q \in New : was[r] = was[q] => r = q
  <2>1. was \in [New -> Old]
    BY <1>4
  <2>2. ASSUME NEW r \in New, NEW q \in New, was[r] = was[q] PROVE r = q
    <3>1. /\ was[r] = <<<<r[1][1] - 1, r[1][2]>>, r[2]>>
          /\ was[q] = <<<<q[1][1] - 1, q[1][2]>>, q[2]>>
      OBVIOUS
    <3>2. r[1][1] - 1 = q[1][1] - 1 /\ r[1][2] = q[1][2] /\ r[2] = q[2]
      BY <2>2, <3>1
    <3>3. /\ r = <<<<r[1][1], r[1][2]>>, r[2]>> /\ q = <<<<q[1][1], q[1][2]>>, q[2]>>
          /\ r[1][1] \in Nat /\ q[1][1] \in Nat
      BY <1>4
    <3> HIDE DEF New, was
    <3> QED BY <3>2, <3>3
  <2> QED BY <2>1, <2>2
<1>6. IsFiniteSet(Old) /\ IsFiniteSet(New)
  <2>1. New \subseteq (Parts \X kinds) \X (1..Most)
    BY DEF NoticeRows
  <2> HIDE DEF New, Old
  <2> QED BY <2>1, NoticeRowsAreFinite, FS_Subset DEF Old
<1> HIDE DEF was
<1>7. ~(Cardinality(Old) < Cardinality(New))
  <2> HIDE DEF New, Old
  <2> QED BY <1>5, <1>6, FS_PigeonHole
<1>8. Sent(kinds) = Cardinality(Old) /\ Sent(kinds)' = Cardinality(New)
  BY DEF Sent
<1>9. Cardinality(Old) \in Nat /\ Cardinality(New) \in Nat
  BY <1>6, FS_CardinalityType
<1> HIDE DEF New, Old
<1> QED BY <1>3, <1>7, <1>8, <1>9

\* A notice adds a row to those of its kind, and none to the others.
LEMMA ANoticeIsOneRow ==
    ASSUME NoticesTypeOK, NEW s \in Senders, SaveNotice(s), NEW kind \in NoticeKinds,
           kind = sender[s].kind => notices[<<0, kind>>] < Most
    PROVE  Sent({kind})' = IF kind = sender[s].kind THEN Sent({kind}) + 1 ELSE Sent({kind})
<1> DEFINE slot == <<0, sender[s].kind>>
           row == <<slot, notices[slot] + 1>>
<1>1. /\ notices' = [notices EXCEPT ![slot] = @ + 1]
      /\ sender[s].kind \in NoticeKinds
  BY DEF SaveNotice, NoticesTypeOK
<1>2. /\ slot \in Parts \X NoticeKinds /\ notices[slot] \in 0..Most
      /\ notices \in [Parts \X NoticeKinds -> 0..Most] /\ slot[1] = 0 /\ slot[2] = sender[s].kind
  BY <1>1, NoticeNumbers DEF NoticesTypeOK
<1> HIDE DEF slot
<1>3. notices'[slot] = notices[slot] + 1 /\ \A n \in Parts \X NoticeKinds : n # slot => notices'[n] = notices[n]
  BY <1>1, <1>2
<1>4. CASE kind # sender[s].kind
  <2>1. \A r \in (Parts \X {kind}) \X (1..Most) : notices'[r[1]] = notices[r[1]]
    BY <1>2, <1>3, <1>4
  <2>2. NoticeRows({kind})' = NoticeRows({kind})
    BY <2>1 DEF NoticeRows
  <2> QED BY <1>4, <2>2 DEF Sent
<1>5. CASE kind = sender[s].kind
  <2>1. slot = <<0, kind>> /\ notices[slot] < Most /\ notices[slot] \in Nat
    BY <1>2, <1>5, NoticeNumbers DEF slot
  <2>2. row \in (Parts \X {kind}) \X (1..Most) /\ row \notin NoticeRows({kind})
    BY <2>1, NoticeNumbers DEF NoticeRows
  <2>3. ASSUME NEW r \in (Parts \X {kind}) \X (1..Most)
        PROVE  r[2] <= notices'[r[1]] <=> (r[2] <= notices[r[1]] \/ r = row)
    <3>1. CASE r[1] # slot
      <4>1. notices'[r[1]] = notices[r[1]] /\ r # row
        BY <1>3, <3>1
      <4> QED BY <4>1
    <3>2. CASE r[1] = slot
      <4>1. r[2] \in Nat /\ r = <<slot, r[2]>> /\ notices'[r[1]] = notices[slot] + 1
        BY <1>3, <3>2, NoticeNumbers
      <4> QED BY <2>1, <3>2, <4>1
    <3> QED BY <3>1, <3>2
  <2>4. NoticeRows({kind})' = NoticeRows({kind}) \cup {row}
    <3> HIDE DEF row
    <3> QED BY <2>2, <2>3 DEF NoticeRows
  <2>5. Cardinality(NoticeRows({kind}) \cup {row}) = Cardinality(NoticeRows({kind})) + 1
    <3> HIDE DEF row
    <3> QED BY <2>2, NoticeRowsAreFinite, FS_AddElement
  <2> QED BY <1>5, <2>4, <2>5 DEF Sent
<1> QED BY <1>4, <1>5

LEMMA SaveNoticeKeepsNoticesIInv ==
    ASSUME NoticesIInv, NEW s \in Senders, SaveNotice(s)
    PROVE  NoticesIInv'
<1>1. NoticesTypeOK /\ SenderFits(s) /\ sender[s].at = "checked" /\ sender[s].kind \in NoticeKinds
  BY DEF NoticesIInv, SaveNotice, NoticesTypeOK
<1>2. /\ Sent(NoticeKinds) \in Nat /\ Sent({"change"}) \in Nat /\ Sent({"cancelled"}) \in Nat
      /\ Sent({"change"}) <= Sent(NoticeKinds)
  BY NoticeRowsAreFinite DEF NoticeKinds
<1>3. /\ sender[s].kind = "change" => Sent({"change"}) < NoticeLimit
      /\ sender[s].kind = "cancelled" => Sent({"cancelled"}) < MaxCancelled
  BY <1>1, <1>2, NoticeNumbers DEF SenderFits, SaveNotice
<1>4. \A kind \in NoticeKinds : notices[<<0, kind>>] <= Sent({kind}) /\ notices[<<0, kind>>] \in 0..Most
  BY <1>1, NoticeNumbers, SlotsAreCounted DEF NoticesTypeOK
<1>5. notices[<<0, sender[s].kind>>] < Most
  BY <1>1, <1>2, <1>3, <1>4, NoticeNumbers DEF NoticeKinds
<1>6. \A kind \in NoticeKinds :
        Sent({kind})' = IF kind = sender[s].kind THEN Sent({kind}) + 1 ELSE Sent({kind})
  BY <1>1, <1>5, ANoticeIsOneRow
<1>7. Sent({"change"})' <= NoticeLimit /\ Sent({"cancelled"})' <= MaxCancelled
  BY <1>1, <1>2, <1>3, <1>6, NoticeNumbers DEF NoticesIInv, NoticeKinds
<1>8. /\ sender' = [sender EXCEPT ![s] = NoNotice] /\ sessionLock' = NoSender
      /\ notices' = [notices EXCEPT ![<<0, sender[s].kind>>] = @ + 1]
      /\ UNCHANGED <<calledOff, families>>
  BY DEF SaveNotice
<1>9. NoNotice \in [at : {"idle", "written", "locked", "checked"}, kind : NoticeKinds, saw : BOOLEAN]
  BY DEF NoNotice, NoticeKinds
<1>10. NoticesTypeOK'
  <2>1. (notices \in [Parts \X NoticeKinds -> 0..Most])'
    BY <1>1, <1>4, <1>5, <1>8, NoticeNumbers DEF NoticesTypeOK
  <2> QED BY <1>1, <1>8, <1>9, <2>1 DEF NoticesTypeOK
<1>11. ASSUME NEW v \in Senders PROVE SenderFits(v)'
  <2>1. CASE v = s
    BY <1>1, <1>8, <2>1 DEF SenderFits, NoNotice, NoticesTypeOK
  <2>2. CASE v # s
    <3>1. sender'[v] = sender[v]
      BY <1>8, <2>2
    <3>2. sender[v].at \notin {"locked", "checked"}
      BY <1>1, <2>2 DEF NoticesIInv, SenderFits
    <3> QED BY <3>1, <3>2 DEF SenderFits
  <2> QED BY <2>1, <2>2
<1> QED BY <1>7, <1>10, <1>11 DEF NoticesIInv

LEMMA RowsStandKeepsNoticesIInv ==
    ASSUME NoticesIInv, UNCHANGED notices, NoticesTypeOK', \A s \in Senders : SenderFits(s)'
    PROVE  NoticesIInv'
<1>1. \A kinds : Sent(kinds)' = Sent(kinds)
  BY DEF Sent, NoticeRows
<1> QED BY <1>1 DEF NoticesIInv

LEMMA SenderKeepsNoticesIInv ==
    ASSUME NoticesIInv, NEW s \in Senders,
           Write(s) \/ LockSession(s) \/ CheckNotice(s) \/ DropNotice(s)
    PROVE  NoticesIInv'
<1>1. NoticesTypeOK /\ UNCHANGED <<calledOff, families, notices>>
  BY DEF NoticesIInv, Write, LockSession, CheckNotice, DropNotice
<1>2. Sent(NoticeKinds)' = Sent(NoticeKinds)
  BY <1>1 DEF Sent, NoticeRows
<1>3. NoNotice \in [at : {"idle", "written", "locked", "checked"}, kind : NoticeKinds, saw : BOOLEAN]
  BY DEF NoNotice, NoticeKinds
<1>4. NoticesTypeOK'
  BY <1>1, <1>3 DEF NoticesTypeOK, Write, LockSession, CheckNotice, DropNotice
<1>5. \A v \in Senders \ {s} : sender'[v] = sender[v]
  BY <1>1 DEF NoticesTypeOK, Write, LockSession, CheckNotice, DropNotice
<1>6. \A v \in Senders : SenderFits(v)
  BY DEF NoticesIInv
<1>7. SenderFits(s)'
  <2>1. sender[s] \in [at : {"idle", "written", "locked", "checked"}, kind : NoticeKinds, saw : BOOLEAN]
    BY <1>1 DEF NoticesTypeOK
  <2>2. CASE Write(s)
    BY <1>1, <2>2 DEF NoticesTypeOK, SenderFits, Write
  <2>3. CASE LockSession(s)
    BY <1>1, <2>3 DEF NoticesTypeOK, SenderFits, LockSession
  <2>4. CASE CheckNotice(s)
    BY <1>1, <1>2, <1>6, <2>4 DEF NoticesTypeOK, SenderFits, CheckNotice, NoProblems
  <2>5. CASE DropNotice(s)
    BY <1>1, <2>5 DEF NoticesTypeOK, SenderFits, DropNotice, NoNotice
  <2> QED BY <2>2, <2>3, <2>4, <2>5
<1>8. ASSUME NEW v \in Senders, v # s PROVE SenderFits(v)'
  <2>1. sender'[v] = sender[v] /\ SenderFits(v)
    BY <1>5, <1>6, <1>8
  <2>2. sessionLock = v => sessionLock' = v
    BY <1>8, NoticeNumbers DEF Write, LockSession, CheckNotice, DropNotice
  <2> QED BY <1>2, <2>1, <2>2 DEF SenderFits
<1> QED BY <1>1, <1>4, <1>7, <1>8, RowsStandKeepsNoticesIInv

LEMMA AroundKeepsNoticesIInv ==
    ASSUME NoticesIInv, CallOffOrOn \/ ChangeFamilies \/ TimePasses
    PROVE  NoticesIInv'
<1>1. NoticesTypeOK /\ UNCHANGED <<sessionLock, sender>>
  BY DEF NoticesIInv, CallOffOrOn, ChangeFamilies, TimePasses
<1>2. CASE TimePasses
  <2>1. NoticesTypeOK'
    BY <1>1, <1>2, TimeMakesNoRows DEF NoticesTypeOK, TimePasses
  <2>2. /\ Sent(NoticeKinds)' \in Nat /\ Sent(NoticeKinds)' <= Sent(NoticeKinds)
        /\ Sent({"change"})' \in Nat /\ Sent({"change"})' <= Sent({"change"})
        /\ Sent({"cancelled"})' \in Nat /\ Sent({"cancelled"})' <= Sent({"cancelled"})
        /\ Sent(NoticeKinds) \in Nat /\ Sent({"change"}) \in Nat /\ Sent({"cancelled"}) \in Nat
    BY <1>1, <1>2, TimeMakesNoRows, NoticeRowsAreFinite DEF NoticeKinds
  <2>3. \A s \in Senders : SenderFits(s)'
    BY <1>1, <2>2, NoticeNumbers DEF NoticesIInv, SenderFits
  <2> QED BY <2>1, <2>2, <2>3, NoticeNumbers DEF NoticesIInv
<1>3. CASE CallOffOrOn \/ ChangeFamilies
  <2>1. UNCHANGED notices
    BY <1>3 DEF CallOffOrOn, ChangeFamilies
  <2>2. NoticesTypeOK'
    BY <1>1, <1>3 DEF NoticesTypeOK, CallOffOrOn, ChangeFamilies
  <2>3. \A s \in Senders : SenderFits(s)'
    BY <1>1, <2>1 DEF NoticesIInv, SenderFits, Sent, NoticeRows
  <2> QED BY <2>1, <2>2, <2>3, RowsStandKeepsNoticesIInv
<1> QED BY <1>2, <1>3

\* However many of the team send at once, and whoever of them dies, families
\* get at most NoticeLimit notices of a change in 24 hours
\* (events.notices:notice_problems under the session's row lock).
THEOREM FamiliesHearOnlySoOften == NoticesSpec => []NoticesInv
<1>1. NoticesIInv /\ [NoticesNext]_noticeVars => NoticesIInv'
  <2> SUFFICES ASSUME NoticesIInv, [NoticesNext]_noticeVars PROVE NoticesIInv'
    OBVIOUS
  <2>1. CASE CallOffOrOn \/ ChangeFamilies \/ TimePasses
    BY <2>1, AroundKeepsNoticesIInv
  <2>2. ASSUME NEW s \in Senders, SaveNotice(s) PROVE NoticesIInv'
    BY <2>2, SaveNoticeKeepsNoticesIInv
  <2>3. ASSUME NEW s \in Senders, Write(s) \/ LockSession(s) \/ CheckNotice(s) \/ DropNotice(s)
        PROVE  NoticesIInv'
    BY <2>3, SenderKeepsNoticesIInv
  <2>4. CASE UNCHANGED noticeVars
    <3>1. \A kinds : Sent(kinds)' = Sent(kinds)
      BY <2>4 DEF noticeVars, Sent, NoticeRows
    <3> QED BY <2>4, <3>1 DEF noticeVars, NoticesIInv, NoticesTypeOK, SenderFits
  <2> QED BY <2>1, <2>2, <2>3, <2>4 DEF NoticesNext
<1>2. NoticesIInv => NoticesInv
  BY DEF NoticesIInv, NoticesInv, NoticeLimitKept
<1> QED BY <1>1, <1>2, NoticesInitOK, PTL DEF NoticesSpec

=============================================================================

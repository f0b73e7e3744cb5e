---------------------------- MODULE AccountsProofs ----------------------------
(***************************************************************************)
(* For any accounts, requests, invitations and periods: who gets a role by *)
(* an invitation, who keeps one and the access that goes with it, how one  *)
(* logs in and what the policy asks for it, and whom the retention job     *)
(* erases.                                                                 *)
(*                                                                         *)
(* Invitations: what two invitations, or a withdrawal and an acceptance,   *)
(* do to each other is decided by what was under way at once.              *)
(*                                                                         *)
(* Roles: what a request writes from a copy it read before is decided by   *)
(* what it may have missed meanwhile.                                      *)
(*                                                                         *)
(* Two-step login: which methods stand, which is the default and what the  *)
(* codes belong to, whatever two devices do to them at once.               *)
(*                                                                         *)
(* Links: what a link stands for is gone once it was used or its account   *)
(* was removed, and an address is free while one request writes it.        *)
(*                                                                         *)
(* Policy: what a pass over its rows finds is the strongest that has come, *)
(* or the first of the strongest to come, in any order of the rows.        *)
(*                                                                         *)
(* Retention: the job erases nobody before the date its latest mail named, *)
(* before both mails or before the period is over, spares roles and        *)
(* champions, and leaves volunteers' names.  It rests on what a notice     *)
(* says about the mails, however notices are deleted and made again, and   *)
(* on what a plan still says when it is carried out.                       *)
(***************************************************************************)
EXTENDS OrganisationInvitations, OrganisationRoles, TwoStep, AccountLinks, Retention,
        SignInPolicy, FiniteSetTheorems, TLAPS

-----------------------------------------------------------------------------
(* Invitations to an organisation's role: rows and requests *)

InvRow == [row : BOOLEAN, accepted : BOOLEAN, withdrawn : BOOLEAN,
           expired : BOOLEAN, token : 0..MaxTokens, grants : 0..2]

InvRequest ==
    {Free}
    \cup [op : {"invite", "elsewhere"}]
    \cup [op : {"resend", "withdraw", "accept", "sign up"}, inv : Invitations]
    \cup [op : {"remove old"}, old : SUBSET Invitations]

OfOne(q) == q.op \in {"resend", "withdraw", "accept", "sign up"}

InvTables ==
    /\ inv \in [Invitations -> InvRow]
    /\ \A i \in Invitations : /\ inv[i].row => inv[i].token > 0
                              /\ inv[i].grants > 0 => inv[i].accepted
                              /\ inv[i].grants <= 1
    /\ holders \in Nat /\ doubled \in BOOLEAN
    /\ invReq \in [InvitationRequests -> InvRequest]
    /\ \A r \in InvitationRequests : OfOne(invReq[r]) => inv[invReq[r].inv].token > 0
    /\ \A q, r \in InvitationRequests :
          q # r /\ invReq[q].op # "free" /\ invReq[r].op # "free" =>
             {invReq[q].op, invReq[r].op} \in overlaps

\* One invitation at most waits or is followed.
OneWayIn == ~doubled => \A i, j \in AllPending \cup BeingFollowed : i = j

\* It can no longer be accepted.
LockedOut(row) == row.accepted \/ ~row.row

\* What the properties except.
ElsewhereApart == NotAtOnce({{"elsewhere"}, {"elsewhere", "sign up"}})
WithdrawalsApart == NotAtOnce({{"accept", "withdraw"}, {"sign up", "withdraw"}})
InvitesApart == NotAtOnce({{"invite"}})

\* Once the address has an account, nobody under way makes another.
NobodyMakesAnother ==
    ElsewhereApart /\ ~doubled =>
        /\ holders <= 1
        /\ \/ holders = 0
           \/ \A r \in InvitationRequests :
                 /\ invReq[r].op # "elsewhere"
                 /\ invReq[r].op = "sign up" => LockedOut(inv[invReq[r].inv])

\* Who is about to withdraw an invitation does so before anybody accepts it.
WithdrawnFirst ==
    WithdrawalsApart =>
        /\ \A i \in Invitations : inv[i].grants > 0 => ~inv[i].withdrawn
        /\ \A r \in InvitationRequests : invReq[r].op = "withdraw" => inv[invReq[r].inv].grants = 0

\* What waits beside an invitation that is being made was sent again.
SentAgainMeanwhile ==
    InvitesApart =>
        /\ \A i, j \in AllPending : i # j => inv[i].token > 1 \/ inv[j].token > 1
        /\ \A r \in InvitationRequests : invReq[r].op = "invite" =>
              \A i \in AllPending : inv[i].token > 1

InvitationsIInv ==
    InvTables /\ OneWayIn /\ NobodyMakesAnother /\ WithdrawnFirst /\ SentAgainMeanwhile

LEMMA NewRow ==
    /\ Absent \in InvRow /\ ~Absent.row /\ Absent.token = 0 /\ Absent.grants = 0 /\ ~Absent.accepted
    /\ ~Absent.withdrawn /\ ~Absent.expired
    /\ Free \in InvRequest /\ Free.op = "free"
<1>1. 0 \in 0..MaxTokens
  BY InvitationsAssumption
<1> QED BY <1>1 DEF Absent, InvRow, Free, InvRequest

LEMMA InvitationsInitOK == InvitationsInit => InvitationsIInv
<1> SUFFICES ASSUME InvitationsInit PROVE InvitationsIInv
  OBVIOUS
<1>1. \A i \in Invitations : inv[i] = Absent
  BY DEF InvitationsInit
<1>2. \A r \in InvitationRequests : invReq[r] = Free
  BY DEF InvitationsInit
<1>3. AllPending = {} /\ BeingFollowed = {}
  BY <1>1, <1>2, NewRow DEF AllPending, BeingFollowed, IsPendingNow
<1>4. InvTables
  <2>1. inv \in [Invitations -> InvRow] /\ invReq \in [InvitationRequests -> InvRequest]
    BY NewRow DEF InvitationsInit
  <2>2. holders \in Nat /\ doubled \in BOOLEAN
    BY DEF InvitationsInit
  <2>3. \A i \in Invitations : ~inv[i].row /\ inv[i].grants = 0
    BY <1>1, NewRow
  <2>4. \A r \in InvitationRequests : invReq[r].op = "free" /\ ~OfOne(invReq[r])
    BY <1>2, NewRow DEF OfOne
  <2> QED BY <2>1, <2>2, <2>3, <2>4 DEF InvTables
<1>5. NobodyMakesAnother /\ WithdrawnFirst
  <2>1. holders = 0 /\ \A i \in Invitations : inv[i].grants = 0
    BY <1>1, NewRow DEF InvitationsInit
  <2>2. \A r \in InvitationRequests : invReq[r].op = "free"
    BY <1>2, NewRow
  <2>3. NobodyMakesAnother
    BY <2>1 DEF NobodyMakesAnother
  <2>4. WithdrawnFirst
    BY <2>1, <2>2 DEF WithdrawnFirst
  <2> QED BY <2>3, <2>4
<1> QED BY <1>3, <1>4, <1>5 DEF InvitationsIInv, OneWayIn, SentAgainMeanwhile

\* A request that is loaded: what it needs of what it found.
LEMMA LoadKeeps ==
    ASSUME InvitationsIInv, NEW r \in InvitationRequests, NEW q \in InvRequest, Load(r, q),
           q.op # "free",
           doubled' = (doubled \/ \E i, j \in (AllPending \cup BeingFollowed)' : i # j),
           OfOne(q) => inv[q.inv].token > 0,
           q.op = "withdraw" => inv[q.inv].grants = 0,
           q.op = "invite" => AllPending = {},
           q.op \in {"elsewhere", "sign up"} => holders = 0
    PROVE  InvitationsIInv'
<1>1. /\ invReq[r].op = "free" /\ invReq' = [invReq EXCEPT ![r] = q] /\ UNCHANGED <<inv, holders>>
      /\ \A p \in InvitationRequests : invReq[p].op # "free" => {q.op, invReq[p].op} \in overlaps'
      /\ overlaps \subseteq overlaps'
  BY DEF Load
<1>2. /\ invReq' \in [InvitationRequests -> InvRequest]
      /\ \A p \in InvitationRequests : invReq'[p] = IF p = r THEN q ELSE invReq[p]
  BY <1>1 DEF InvitationsIInv, InvTables
<1>3. doubled' \in BOOLEAN
  OBVIOUS
<1>4. InvTables'
  <2>1. \A p, s \in InvitationRequests :
          p # s /\ invReq'[p].op # "free" /\ invReq'[s].op # "free" =>
             {invReq'[p].op, invReq'[s].op} \in overlaps'
    <3> SUFFICES ASSUME NEW p \in InvitationRequests, NEW s \in InvitationRequests,
                        p # s, invReq'[p].op # "free", invReq'[s].op # "free"
                 PROVE  {invReq'[p].op, invReq'[s].op} \in overlaps'
      OBVIOUS
    <3>1. CASE p = r
      BY <1>1, <1>2, <3>1
    <3>2. CASE s = r
      <4>1. {invReq'[p].op, invReq'[s].op} = {q.op, invReq[p].op}
        BY <1>2, <3>2
      <4> QED BY <1>1, <1>2, <3>2, <4>1
    <3>3. CASE p # r /\ s # r
      BY <1>1, <1>2, <3>3 DEF InvitationsIInv, InvTables
    <3> QED BY <3>1, <3>2, <3>3
  <2> QED BY <1>1, <1>2, <1>3, <2>1 DEF InvitationsIInv, InvTables
<1>5. OneWayIn'
  BY DEF OneWayIn
<1>6. AllPending' = AllPending
  BY <1>1 DEF AllPending
<1>7. /\ ElsewhereApart' => ElsewhereApart
      /\ WithdrawalsApart' => WithdrawalsApart
      /\ InvitesApart' => InvitesApart
  BY <1>1 DEF ElsewhereApart, WithdrawalsApart, InvitesApart, NotAtOnce
<1>8. SentAgainMeanwhile' /\ WithdrawnFirst'
  BY <1>1, <1>2, <1>6, <1>7 DEF InvitationsIInv, SentAgainMeanwhile, WithdrawnFirst
<1>9. NobodyMakesAnother'
  <2>1. ~doubled' => ~doubled
    BY DEF InvitationsIInv, InvTables
  <2> QED BY <1>1, <1>2, <1>7, <2>1 DEF InvitationsIInv, NobodyMakesAnother
<1> QED BY <1>4, <1>5, <1>8, <1>9 DEF InvitationsIInv

LEMMA RequestOfOne == ASSUME NEW q \in InvRequest, OfOne(q) PROVE q.inv \in Invitations
<1>1. q \in [op : {"resend", "withdraw", "accept", "sign up"}, inv : Invitations]
  <2>1. q \notin {Free}
    BY NewRow DEF OfOne
  <2>2. q \notin [op : {"invite", "elsewhere"}]
    BY DEF OfOne
  <2>3. q \notin [op : {"remove old"}, old : SUBSET Invitations]
    BY DEF OfOne
  <2> QED BY <2>1, <2>2, <2>3 DEF InvRequest
<1> QED BY <1>1

\* Requests under way, and their rows.
LEMMA InvShapes ==
    ASSUME InvitationsIInv
    PROVE  /\ \A i \in Invitations : inv[i] \in InvRow
           /\ \A r \in InvitationRequests : OfOne(invReq[r]) => invReq[r].inv \in Invitations
           /\ \A r \in InvitationRequests : invReq[r].op \in {"withdraw", "sign up"} => OfOne(invReq[r])
<1>1. inv \in [Invitations -> InvRow] /\ invReq \in [InvitationRequests -> InvRequest]
  BY DEF InvitationsIInv, InvTables
<1>2. \A r \in InvitationRequests : OfOne(invReq[r]) => invReq[r].inv \in Invitations
  BY <1>1, RequestOfOne
<1>3. \A r \in InvitationRequests : invReq[r].op \in {"withdraw", "sign up"} => OfOne(invReq[r])
  BY DEF OfOne
<1> QED BY <1>1, <1>2, <1>3

\* A request is over: what it changed of the rows keeps the tables.
LEMMA CloseKeepsTables ==
    ASSUME InvitationsIInv, NEW r \in InvitationRequests, invReq[r].op # "free", Close(r),
           doubled' = (doubled \/ \E i, j \in (AllPending \cup BeingFollowed)' : i # j),
           inv' \in [Invitations -> InvRow], holders' \in Nat,
           \A i \in Invitations : /\ inv[i].token > 0 => inv'[i].token > 0
                                  /\ inv'[i].row => inv'[i].token > 0
                                  /\ inv'[i].grants > 0 => inv'[i].accepted
                                  /\ inv'[i].grants <= 1
    PROVE  /\ InvTables' /\ OneWayIn' /\ (~doubled' => ~doubled)
           /\ UNCHANGED <<ElsewhereApart, WithdrawalsApart, InvitesApart>>
           /\ \A q \in InvitationRequests : invReq'[q] = IF q = r THEN Free ELSE invReq[q]
<1>1. invReq' = [invReq EXCEPT ![r] = Free] /\ overlaps' = overlaps
  BY DEF Close
<1>2. /\ invReq' \in [InvitationRequests -> InvRequest]
      /\ \A q \in InvitationRequests : invReq'[q] = IF q = r THEN Free ELSE invReq[q]
  BY <1>1, NewRow DEF InvitationsIInv, InvTables
<1>3. doubled' \in BOOLEAN /\ (~doubled' => ~doubled)
  BY DEF InvitationsIInv, InvTables
<1>4. OneWayIn'
  BY DEF OneWayIn
<1>5. \A q \in InvitationRequests : OfOne(invReq'[q]) => inv'[invReq'[q].inv].token > 0
  <2> SUFFICES ASSUME NEW q \in InvitationRequests, OfOne(invReq'[q])
               PROVE  inv'[invReq'[q].inv].token > 0
    OBVIOUS
  <2>1. q # r /\ invReq'[q] = invReq[q]
    BY <1>2, NewRow DEF OfOne
  <2>2. invReq[q].inv \in Invitations /\ inv[invReq[q].inv].token > 0
    BY <2>1, InvShapes DEF InvitationsIInv, InvTables
  <2> QED BY <2>1, <2>2
<1>6. \A q, p \in InvitationRequests :
         q # p /\ invReq'[q].op # "free" /\ invReq'[p].op # "free" =>
            {invReq'[q].op, invReq'[p].op} \in overlaps'
  BY <1>1, <1>2, NewRow DEF InvitationsIInv, InvTables
<1>7. InvTables'
  BY <1>2, <1>3, <1>5, <1>6 DEF InvTables, OfOne
<1>8. UNCHANGED <<ElsewhereApart, WithdrawalsApart, InvitesApart>>
  BY <1>1 DEF ElsewhereApart, WithdrawalsApart, InvitesApart, NotAtOnce
<1> QED BY <1>2, <1>3, <1>4, <1>7, <1>8

\* Two requests under way have met.
LEMMA Met ==
    ASSUME InvitationsIInv, NEW q \in InvitationRequests, NEW r \in InvitationRequests, q # r
    PROVE  /\ ElsewhereApart =>
                ~(invReq[q].op = "elsewhere" /\ invReq[r].op \in {"elsewhere", "sign up"})
           /\ WithdrawalsApart =>
                ~(invReq[q].op \in {"accept", "sign up"} /\ invReq[r].op = "withdraw")
           /\ InvitesApart => ~(invReq[q].op = "invite" /\ invReq[r].op = "invite")
<1>1. invReq[q].op # "free" /\ invReq[r].op # "free" => {invReq[q].op, invReq[r].op} \in overlaps
  BY DEF InvitationsIInv, InvTables
<1>2. ASSUME ElsewhereApart, invReq[q].op = "elsewhere", invReq[r].op \in {"elsewhere", "sign up"}
      PROVE  FALSE
  <2>1. {invReq[q].op, invReq[r].op} \in {{"elsewhere"}, {"elsewhere", "sign up"}}
    BY <1>2
  <2> QED BY <1>1, <1>2, <2>1 DEF ElsewhereApart, NotAtOnce
<1>3. ASSUME WithdrawalsApart, invReq[q].op \in {"accept", "sign up"}, invReq[r].op = "withdraw"
      PROVE  FALSE
  <2>1. {invReq[q].op, invReq[r].op} \in {{"accept", "withdraw"}, {"sign up", "withdraw"}}
    BY <1>3
  <2> QED BY <1>1, <1>3, <2>1 DEF WithdrawalsApart, NotAtOnce
<1>4. ASSUME InvitesApart, invReq[q].op = "invite", invReq[r].op = "invite" PROVE FALSE
  <2>1. {invReq[q].op, invReq[r].op} \in {{"invite"}}
    BY <1>4
  <2> QED BY <1>1, <1>4, <2>1 DEF InvitesApart, NotAtOnce
<1> QED BY <1>2, <1>3, <1>4

LEMMA CommitInvitationKeeps ==
    ASSUME InvitationsIInv, NEW r \in InvitationRequests, CommitInvitation(r),
           doubled' = (doubled \/ \E i, j \in (AllPending \cup BeingFollowed)' : i # j)
    PROVE  InvitationsIInv'
<1>1. invReq[r].op = "invite" /\ Close(r) /\ holders' = holders
  BY DEF CommitInvitation
<1>2. PICK n \in Invitations : /\ inv[n].token = 0
                               /\ inv' = [inv EXCEPT ![n] = [Absent EXCEPT !.row = TRUE, !.token = 1]]
  BY DEF CommitInvitation
<1>3. PICK new : new = [Absent EXCEPT !.row = TRUE, !.token = 1]
  OBVIOUS
<1>4. /\ new \in InvRow /\ new.token = 1 /\ new.grants = 0 /\ ~new.accepted
  <2>1. 1 \in 0..MaxTokens
    BY InvitationsAssumption
  <2>2. new \in InvRow
    BY <1>3, <2>1, NewRow DEF InvRow
  <2>3. new.token = 1 /\ new.grants = Absent.grants /\ new.accepted = Absent.accepted
    BY <1>3, NewRow DEF InvRow
  <2> QED BY <2>2, <2>3, NewRow
<1>5. /\ inv' \in [Invitations -> InvRow]
      /\ \A i \in Invitations : inv'[i] = IF i = n THEN new ELSE inv[i]
  BY <1>2, <1>3, <1>4 DEF InvitationsIInv, InvTables
<1>6. \A i \in Invitations : /\ inv[i].token > 0 => inv'[i].token > 0
                             /\ inv'[i].row => inv'[i].token > 0
                             /\ inv'[i].grants > 0 => inv'[i].accepted
                             /\ inv'[i].grants <= 1
  <2> SUFFICES ASSUME NEW i \in Invitations
               PROVE  /\ inv[i].token > 0 => inv'[i].token > 0
                      /\ inv'[i].row => inv'[i].token > 0
                      /\ inv'[i].grants > 0 => inv'[i].accepted
                      /\ inv'[i].grants <= 1
    OBVIOUS
  <2>1. CASE i = n
    <3>1. inv'[i].token = 1 /\ inv'[i].grants = 0
      BY <1>4, <1>5, <2>1
    <3> QED BY <3>1
  <2>2. CASE i # n
    <3>1. inv'[i] = inv[i]
      BY <1>5, <2>2
    <3> QED BY <3>1 DEF InvitationsIInv, InvTables
  <2> QED BY <2>1, <2>2
<1>7. /\ InvTables' /\ OneWayIn' /\ (~doubled' => ~doubled)
      /\ UNCHANGED <<ElsewhereApart, WithdrawalsApart, InvitesApart>>
      /\ \A q \in InvitationRequests : invReq'[q] = IF q = r THEN Free ELSE invReq[q]
  BY <1>1, <1>5, <1>6, CloseKeepsTables DEF InvitationsIInv, InvTables
\* Requests of one invitation are about others.
<1>8. \A q \in InvitationRequests :
        OfOne(invReq[q]) => invReq[q].inv \in Invitations /\ invReq[q].inv # n
  <2>1. \A q \in InvitationRequests : OfOne(invReq[q]) => inv[invReq[q].inv].token > 0
    BY DEF InvitationsIInv, InvTables
  <2>2. ~(inv[n].token > 0)
    BY <1>2
  <2>3. \A q \in InvitationRequests : OfOne(invReq[q]) => invReq[q].inv \in Invitations
    BY InvShapes
  <2> QED BY <2>1, <2>2, <2>3
<1>9. NobodyMakesAnother'
  <2>1. \A q \in InvitationRequests : invReq'[q].op = "sign up" =>
           /\ invReq[q] = invReq'[q] /\ inv'[invReq'[q].inv] = inv[invReq[q].inv]
    BY <1>5, <1>7, <1>8, InvShapes, NewRow
  <2>2. \A q \in InvitationRequests : invReq'[q].op = "elsewhere" => invReq[q].op = "elsewhere"
    BY <1>7, NewRow
  <2> QED BY <1>1, <1>7, <2>1, <2>2 DEF InvitationsIInv, NobodyMakesAnother
<1>10. WithdrawnFirst'
  <2>1. \A q \in InvitationRequests : invReq'[q].op = "withdraw" =>
           /\ invReq[q] = invReq'[q] /\ inv'[invReq'[q].inv] = inv[invReq[q].inv]
    BY <1>5, <1>7, <1>8, InvShapes, NewRow
  <2>2. \A i \in Invitations : inv'[i].grants > 0 => inv'[i] = inv[i]
    BY <1>4, <1>5
  <2> QED BY <1>7, <2>1, <2>2 DEF InvitationsIInv, WithdrawnFirst
<1>11. SentAgainMeanwhile'
  <2>1. \A i \in AllPending' : i = n \/ (i \in AllPending /\ inv'[i] = inv[i])
    BY <1>5 DEF AllPending
  <2>2. InvitesApart' => /\ \A i \in AllPending : inv[i].token > 1
                         /\ \A q \in InvitationRequests : invReq'[q].op # "invite"
    <3>1. InvitesApart' => InvitesApart
      BY <1>7
    <3>2. InvitesApart => \A i \in AllPending : inv[i].token > 1
      BY <1>1 DEF InvitationsIInv, SentAgainMeanwhile
    <3>3. InvitesApart => \A q \in InvitationRequests : invReq'[q].op # "invite"
      BY <1>1, <1>7, Met, NewRow
    <3> QED BY <3>1, <3>2, <3>3
  <2> QED BY <2>1, <2>2 DEF SentAgainMeanwhile
<1> QED BY <1>7, <1>9, <1>10, <1>11 DEF InvitationsIInv

\* One row changes, and none of what was accepted or withdrawn.
LEMMA CommitResendKeeps ==
    ASSUME InvitationsIInv, NEW r \in InvitationRequests, CommitResend(r),
           doubled' = (doubled \/ \E i, j \in (AllPending \cup BeingFollowed)' : i # j)
    PROVE  InvitationsIInv'
<1> DEFINE n == invReq[r].inv
<1>1. /\ invReq[r].op = "resend" /\ Close(r) /\ holders' = holders /\ inv[n].token < MaxTokens
      /\ inv' = IF inv[n].row THEN [inv EXCEPT ![n].token = @ + 1, ![n].expired = FALSE] ELSE inv
  BY DEF CommitResend
<1>2. n \in Invitations /\ inv[n] \in InvRow /\ inv[n].token > 0
  BY <1>1, InvShapes DEF OfOne, InvitationsIInv, InvTables
<1> HIDE DEF n
<1>3. PICK new \in InvRow :
        /\ inv' = [inv EXCEPT ![n] = new]
        /\ \/ new = inv[n]
           \/ /\ new.token > 1 /\ new.row = inv[n].row /\ new.accepted = inv[n].accepted
              /\ new.withdrawn = inv[n].withdrawn /\ new.grants = inv[n].grants
  <2>1. CASE inv[n].row
    <3>1. PICK new : new = [[inv[n] EXCEPT !.token = @ + 1] EXCEPT !.expired = FALSE]
      OBVIOUS
    <3>2. /\ new \in InvRow /\ new.token = inv[n].token + 1
          /\ new.row = inv[n].row /\ new.accepted = inv[n].accepted
          /\ new.withdrawn = inv[n].withdrawn /\ new.grants = inv[n].grants
      <4>1. inv[n].token + 1 \in 0..MaxTokens
        BY <1>1, <1>2, InvitationsAssumption DEF InvRow
      <4> HIDE DEF n
      <4> QED BY <1>2, <3>1, <4>1 DEF InvRow
    <3>3. inv' = [inv EXCEPT ![n] = new]
      BY <1>1, <1>2, <2>1, <3>1 DEF InvitationsIInv, InvTables
    <3>4. new.token > 1
      BY <1>2, <3>2, InvitationsAssumption DEF InvRow
    <3> QED BY <3>2, <3>3, <3>4
  <2>2. CASE ~inv[n].row
    <3>1. inv' = [inv EXCEPT ![n] = inv[n]]
      BY <1>1, <1>2, <2>2 DEF InvitationsIInv, InvTables
    <3> QED BY <1>2, <3>1
  <2> QED BY <2>1, <2>2
<1>4. /\ inv' \in [Invitations -> InvRow]
      /\ \A i \in Invitations : inv'[i] = IF i = n THEN new ELSE inv[i]
  BY <1>2, <1>3 DEF InvitationsIInv, InvTables
<1>5. \A i \in Invitations : /\ inv'[i].row = inv[i].row /\ inv'[i].accepted = inv[i].accepted
                             /\ inv'[i].withdrawn = inv[i].withdrawn
                             /\ inv'[i].grants = inv[i].grants
                             /\ inv[i].token > 0 => inv'[i].token > 0
                             /\ inv[i].token > 1 => inv'[i].token > 1
                             /\ inv'[i] = inv[i] \/ inv'[i].token > 1
  <2>1. new.token > 1 => new.token > 0
    BY InvitationsAssumption DEF InvRow
  <2> QED BY <1>3, <1>4, <2>1
<1>6. /\ InvTables' /\ OneWayIn' /\ (~doubled' => ~doubled)
      /\ UNCHANGED <<ElsewhereApart, WithdrawalsApart, InvitesApart>>
      /\ \A q \in InvitationRequests : invReq'[q] = IF q = r THEN Free ELSE invReq[q]
  <2>1. \A i \in Invitations : /\ inv[i].token > 0 => inv'[i].token > 0
                               /\ inv'[i].row => inv'[i].token > 0
                               /\ inv'[i].grants > 0 => inv'[i].accepted
                               /\ inv'[i].grants <= 1
    BY <1>5 DEF InvitationsIInv, InvTables
  <2>2. holders' \in Nat
    BY <1>1 DEF InvitationsIInv, InvTables
  <2> QED BY <1>1, <1>4, <2>1, <2>2, CloseKeepsTables
<1>7. NobodyMakesAnother'
  <2>1. \A q \in InvitationRequests : invReq'[q].op = "sign up" =>
           invReq[q] = invReq'[q] /\ invReq[q].inv \in Invitations
    BY <1>6, InvShapes, NewRow
  <2>2. \A q \in InvitationRequests : invReq'[q].op = "elsewhere" => invReq[q].op = "elsewhere"
    BY <1>6, NewRow
  <2>3. \A i \in Invitations : LockedOut(inv'[i]) <=> LockedOut(inv[i])
    BY <1>5 DEF LockedOut
  <2> QED BY <1>1, <1>6, <2>1, <2>2, <2>3 DEF InvitationsIInv, NobodyMakesAnother
<1>8. WithdrawnFirst'
  <2>1. \A q \in InvitationRequests : invReq'[q].op = "withdraw" =>
           invReq[q] = invReq'[q] /\ invReq[q].inv \in Invitations
    BY <1>6, InvShapes, NewRow
  <2> QED BY <1>5, <1>6, <2>1 DEF InvitationsIInv, WithdrawnFirst
<1>9. SentAgainMeanwhile'
  <2>1. \A i \in AllPending' : i \in Invitations /\ (inv'[i].token > 1 \/ (i \in AllPending /\ inv'[i] = inv[i]))
    BY <1>5 DEF AllPending
  <2>2. \A q \in InvitationRequests : invReq'[q].op = "invite" => invReq[q].op = "invite"
    BY <1>6, NewRow
  <2> QED BY <1>6, <2>1, <2>2 DEF InvitationsIInv, SentAgainMeanwhile
<1> QED BY <1>6, <1>7, <1>8, <1>9 DEF InvitationsIInv

LEMMA CommitWithdrawKeeps ==
    ASSUME InvitationsIInv, NEW r \in InvitationRequests, CommitWithdraw(r),
           doubled' = (doubled \/ \E i, j \in (AllPending \cup BeingFollowed)' : i # j)
    PROVE  InvitationsIInv'
<1> DEFINE n == invReq[r].inv
<1>1. /\ invReq[r].op = "withdraw" /\ Close(r) /\ holders' = holders
      /\ inv' = IF inv[n].row THEN [inv EXCEPT ![n].withdrawn = TRUE] ELSE inv
  BY DEF CommitWithdraw
<1>2. n \in Invitations /\ inv[n] \in InvRow
  BY <1>1, InvShapes DEF OfOne
<1>3. WithdrawalsApart => inv[n].grants = 0
  BY <1>1 DEF InvitationsIInv, WithdrawnFirst
<1> HIDE DEF n
<1>4. PICK new \in InvRow :
        /\ inv' = [inv EXCEPT ![n] = new]
        /\ new.token = inv[n].token /\ new.row = inv[n].row /\ new.accepted = inv[n].accepted
        /\ new.expired = inv[n].expired /\ new.grants = inv[n].grants
        /\ new = inv[n] \/ new.withdrawn = TRUE
  <2>1. CASE inv[n].row
    <3>1. PICK new : new = [inv[n] EXCEPT !.withdrawn = TRUE]
      OBVIOUS
    <3>2. /\ new \in InvRow /\ new.token = inv[n].token /\ new.withdrawn = TRUE
          /\ new.row = inv[n].row /\ new.accepted = inv[n].accepted
          /\ new.expired = inv[n].expired /\ new.grants = inv[n].grants
      BY <1>2, <3>1 DEF InvRow
    <3>3. inv' = [inv EXCEPT ![n] = new]
      BY <1>1, <2>1, <3>1
    <3> QED BY <3>2, <3>3
  <2>2. CASE ~inv[n].row
    <3>1. inv' = [inv EXCEPT ![n] = inv[n]]
      BY <1>1, <1>2, <2>2 DEF InvitationsIInv, InvTables
    <3> QED BY <1>2, <3>1
  <2> QED BY <2>1, <2>2
<1>5. /\ inv' \in [Invitations -> InvRow]
      /\ \A i \in Invitations : inv'[i] = IF i = n THEN new ELSE inv[i]
  BY <1>2, <1>4 DEF InvitationsIInv, InvTables
<1>6. \A i \in Invitations : /\ inv'[i].row = inv[i].row /\ inv'[i].accepted = inv[i].accepted
                             /\ inv'[i].expired = inv[i].expired
                             /\ inv'[i].grants = inv[i].grants /\ inv'[i].token = inv[i].token
                             /\ inv'[i] = inv[i] \/ (i = n /\ inv'[i].withdrawn = TRUE)
  BY <1>4, <1>5
<1>7. /\ InvTables' /\ OneWayIn' /\ (~doubled' => ~doubled)
      /\ UNCHANGED <<ElsewhereApart, WithdrawalsApart, InvitesApart>>
      /\ \A q \in InvitationRequests : invReq'[q] = IF q = r THEN Free ELSE invReq[q]
  <2>1. \A i \in Invitations : /\ inv[i].token > 0 => inv'[i].token > 0
                               /\ inv'[i].row => inv'[i].token > 0
                               /\ inv'[i].grants > 0 => inv'[i].accepted
                               /\ inv'[i].grants <= 1
    BY <1>6 DEF InvitationsIInv, InvTables
  <2>2. holders' \in Nat
    BY <1>1 DEF InvitationsIInv, InvTables
  <2> QED BY <1>1, <1>5, <2>1, <2>2, CloseKeepsTables
<1>8. \A q \in InvitationRequests : invReq'[q].op # "free" => invReq[q] = invReq'[q]
  BY <1>7, NewRow
<1>9. NobodyMakesAnother'
  <2>1. \A q \in InvitationRequests : invReq'[q].op = "sign up" =>
           invReq[q] = invReq'[q] /\ invReq[q].inv \in Invitations
    BY <1>8, InvShapes
  <2>2. \A q \in InvitationRequests : invReq'[q].op = "elsewhere" => invReq[q].op = "elsewhere"
    BY <1>8
  <2>3. \A i \in Invitations : LockedOut(inv'[i]) <=> LockedOut(inv[i])
    BY <1>6 DEF LockedOut
  <2> QED BY <1>1, <1>7, <2>1, <2>2, <2>3 DEF InvitationsIInv, NobodyMakesAnother
<1>10. WithdrawnFirst'
  <2>1. \A q \in InvitationRequests : invReq'[q].op = "withdraw" =>
           invReq[q] = invReq'[q] /\ invReq[q].inv \in Invitations
    BY <1>8, InvShapes
  <2>2. WithdrawalsApart => \A i \in Invitations : inv'[i].grants > 0 => inv'[i] = inv[i]
    <3>1. WithdrawalsApart => ~(inv[n].grants > 0)
      BY <1>3
    <3> QED BY <1>6, <3>1
  <2> QED BY <1>6, <1>7, <2>1, <2>2 DEF InvitationsIInv, WithdrawnFirst
<1>11. SentAgainMeanwhile'
  <2>1. \A i \in AllPending' : i \in AllPending /\ i \in Invitations /\ inv'[i].token = inv[i].token
    <3>1. \A i \in Invitations : IsPendingNow(inv'[i]) => IsPendingNow(inv[i])
      BY <1>6 DEF IsPendingNow
    <3> QED BY <1>6, <3>1 DEF AllPending
  <2>2. \A q \in InvitationRequests : invReq'[q].op = "invite" => invReq[q].op = "invite"
    BY <1>8
  <2> QED BY <1>7, <2>1, <2>2 DEF InvitationsIInv, SentAgainMeanwhile
<1> QED BY <1>7, <1>9, <1>10, <1>11 DEF InvitationsIInv

\* The link is posted, and the row looked at again.
LEMMA CommitAcceptanceKeeps ==
    ASSUME InvitationsIInv, NEW r \in InvitationRequests, CommitAcceptance(r),
           doubled' = (doubled \/ \E i, j \in (AllPending \cup BeingFollowed)' : i # j)
    PROVE  InvitationsIInv'
<1> DEFINE n == invReq[r].inv
<1>1. invReq[r].op \in {"accept", "sign up"} /\ Close(r)
  BY DEF CommitAcceptance
<1>2. n \in Invitations /\ inv[n] \in InvRow
  BY <1>1, InvShapes DEF OfOne
<1>3. \/ inv' = inv /\ holders' = holders
      \/ /\ IsPendingNow(inv[n])
         /\ inv' = [inv EXCEPT ![n].accepted = TRUE, ![n].grants = @ + 1]
         /\ holders' = AccountSaved(r)
  BY DEF CommitAcceptance, Accepts
<1> HIDE DEF n
<1>4. PICK new \in InvRow :
        /\ inv' = [inv EXCEPT ![n] = new]
        /\ new.token = inv[n].token
        /\ \/ new = inv[n] /\ holders' = holders
           \/ /\ IsPendingNow(inv[n]) /\ holders' = AccountSaved(r)
              /\ new.accepted = TRUE /\ new.grants = 1 /\ new.withdrawn = inv[n].withdrawn
              /\ inv[n].accepted = FALSE /\ inv[n].withdrawn = FALSE
  <2>1. CASE inv' = inv /\ holders' = holders
    <3>1. inv' = [inv EXCEPT ![n] = inv[n]]
      BY <1>2, <2>1 DEF InvitationsIInv, InvTables
    <3> QED BY <1>2, <2>1, <3>1
  <2>2. CASE /\ IsPendingNow(inv[n])
             /\ inv' = [inv EXCEPT ![n].accepted = TRUE, ![n].grants = @ + 1]
             /\ holders' = AccountSaved(r)
    <3>1. inv[n].grants = 0
      <4>1. inv[n].grants > 0 => inv[n].accepted
        BY <1>2 DEF InvitationsIInv, InvTables
      <4>2. ~inv[n].accepted
        BY <2>2 DEF IsPendingNow
      <4>3. inv[n].grants \in 0..2
        BY <1>2 DEF InvRow
      <4> QED BY <4>1, <4>2, <4>3
    <3>2. PICK new : new = [[inv[n] EXCEPT !.accepted = TRUE] EXCEPT !.grants = 1]
      OBVIOUS
    <3>3. /\ new \in InvRow /\ new.token = inv[n].token /\ new.accepted = TRUE /\ new.grants = 1
          /\ new.withdrawn = inv[n].withdrawn
      <4>1. 1 \in 0..2
        OBVIOUS
      <4> QED BY <1>2, <3>2, <4>1 DEF InvRow
    <3>4. inv' = [inv EXCEPT ![n] = new]
      <4>1. PICK one : one = [inv[n] EXCEPT !.accepted = TRUE]
        OBVIOUS
      <4>2. one.grants = inv[n].grants
        BY <1>2, <4>1 DEF InvRow
      <4>3. inv' = [[inv EXCEPT ![n] = one] EXCEPT ![n] = [one EXCEPT !.grants = one.grants + 1]]
        BY <1>2, <2>2, <4>1 DEF InvitationsIInv, InvTables
      <4>4. one.grants + 1 = 1
        BY <3>1, <4>2
      <4>5. [one EXCEPT !.grants = one.grants + 1] = new
        BY <3>2, <4>1, <4>4
      <4> QED BY <1>2, <4>3, <4>5 DEF InvitationsIInv, InvTables
    <3>5. inv[n].accepted = FALSE /\ inv[n].withdrawn = FALSE
      BY <1>2, <2>2 DEF IsPendingNow, InvRow
    <3> QED BY <2>2, <3>3, <3>4, <3>5
  <2> QED BY <1>3, <2>1, <2>2
<1>5. /\ inv' \in [Invitations -> InvRow]
      /\ \A i \in Invitations : inv'[i] = IF i = n THEN new ELSE inv[i]
  BY <1>2, <1>4 DEF InvitationsIInv, InvTables
<1>6. /\ holders' \in Nat
      /\ holders' = holders \/ (invReq[r].op = "sign up" /\ holders' = holders + 1 /\ IsPendingNow(inv[n]))
  <2>1. holders \in Nat
    BY DEF InvitationsIInv, InvTables
  <2>2. CASE holders' = holders
    BY <2>1, <2>2
  <2>3. CASE holders' # holders
    <3>1. IsPendingNow(inv[n]) /\ holders' = AccountSaved(r)
      BY <1>4, <2>3
    <3>2. invReq[r].op = "sign up" /\ holders' = holders + 1
      BY <2>3, <3>1 DEF AccountSaved
    <3>3. holders' = holders + 1
      BY <3>2
    <3>4. holders' \in Nat
      BY <2>1, <3>3
    <3> QED BY <3>1, <3>2, <3>4
  <2> QED BY <2>2, <2>3
<1>7. /\ InvTables' /\ OneWayIn' /\ (~doubled' => ~doubled)
      /\ UNCHANGED <<ElsewhereApart, WithdrawalsApart, InvitesApart>>
      /\ \A q \in InvitationRequests : invReq'[q] = IF q = r THEN Free ELSE invReq[q]
  <2>1. ASSUME NEW i \in Invitations
        PROVE  /\ inv[i].token > 0 => inv'[i].token > 0
               /\ inv'[i].row => inv'[i].token > 0
               /\ inv'[i].grants > 0 => inv'[i].accepted
               /\ inv'[i].grants <= 1
    <3>1. CASE inv'[i] = inv[i]
      BY <3>1 DEF InvitationsIInv, InvTables
    <3>2. CASE inv'[i] # inv[i]
      <4>1. i = n /\ inv'[i].accepted = TRUE /\ inv'[i].grants = 1 /\ inv'[i].token = inv[i].token
            /\ IsPendingNow(inv[i])
        BY <1>4, <1>5, <3>2
      <4>2. inv[i].token > 0
        BY <4>1 DEF InvitationsIInv, InvTables, IsPendingNow
      <4> QED BY <4>1, <4>2
    <3> QED BY <3>1, <3>2
  <2> QED BY <1>1, <1>5, <1>6, <2>1, CloseKeepsTables
<1>8. \A q \in InvitationRequests : invReq'[q].op # "free" => invReq[q] = invReq'[q] /\ q # r
  BY <1>7, NewRow
<1>9. NobodyMakesAnother'
  <2> SUFFICES ASSUME ElsewhereApart, ~doubled
               PROVE  /\ holders' <= 1
                      /\ \/ holders' = 0
                         \/ \A q \in InvitationRequests :
                               /\ invReq'[q].op # "elsewhere"
                               /\ invReq'[q].op = "sign up" => LockedOut(inv'[invReq'[q].inv])
    BY <1>7 DEF NobodyMakesAnother
  <2>1. /\ holders <= 1
        /\ \/ holders = 0
           \/ \A q \in InvitationRequests :
                 /\ invReq[q].op # "elsewhere"
                 /\ invReq[q].op = "sign up" => LockedOut(inv[invReq[q].inv])
    BY DEF InvitationsIInv, NobodyMakesAnother
  <2>2. \A i \in Invitations : LockedOut(inv[i]) => LockedOut(inv'[i])
    <3>1. inv'[n] = inv[n] \/ inv'[n].accepted = TRUE
      BY <1>2, <1>4, <1>5
    <3> QED BY <1>5, <3>1 DEF LockedOut
  <2>3. \A q \in InvitationRequests : invReq'[q].op = "sign up" =>
           invReq[q] = invReq'[q] /\ invReq[q].inv \in Invitations
    BY <1>8, InvShapes
  <2>4. CASE holders' = holders
    BY <1>8, <2>1, <2>2, <2>3, <2>4
  <2>5. CASE holders' # holders
    <3>1. invReq[r].op = "sign up" /\ holders' = holders + 1 /\ IsPendingNow(inv[n])
      BY <1>6, <2>5
    <3>2. holders = 0
      <4>1. ~LockedOut(inv[n])
        BY <3>1 DEF LockedOut, IsPendingNow
      <4> QED BY <2>1, <3>1, <4>1 DEF n
    <3>3. ASSUME NEW q \in InvitationRequests
          PROVE  /\ invReq'[q].op # "elsewhere"
                 /\ invReq'[q].op = "sign up" => LockedOut(inv'[invReq'[q].inv])
      <4>1. invReq'[q].op # "elsewhere"
        BY <1>8, <3>1, Met
      <4>2. ASSUME invReq'[q].op = "sign up" PROVE LockedOut(inv'[invReq'[q].inv])
        <5>1. invReq[q].inv \in BeingFollowed /\ n \in BeingFollowed /\ invReq[q] = invReq'[q]
          BY <2>3, <3>1, <4>2 DEF BeingFollowed, n
        <5>2. invReq[q].inv = n
          BY <5>1 DEF InvitationsIInv, OneWayIn
        <5>3. inv'[n].accepted = TRUE
          BY <1>2, <1>4, <1>5, <2>5
        <5> QED BY <5>1, <5>2, <5>3 DEF LockedOut
      <4> QED BY <4>1, <4>2
    <3>4. holders' = holders + 1
      BY <3>1
    <3>5. holders' <= 1
      BY <3>2, <3>4
    <3> QED BY <3>3, <3>5
  <2> QED BY <2>4, <2>5
<1>10. WithdrawnFirst'
  <2>1. \A q \in InvitationRequests : invReq'[q].op = "withdraw" =>
           invReq[q] = invReq'[q] /\ q # r /\ invReq[q].inv \in Invitations
    BY <1>8, InvShapes
  <2>2. WithdrawalsApart => \A q \in InvitationRequests : invReq'[q].op # "withdraw"
    BY <1>1, <2>1, Met
  <2>3. \A i \in Invitations : inv'[i] = inv[i] \/ inv'[i].withdrawn = FALSE
    BY <1>4, <1>5
  <2>4. WithdrawalsApart => \A i \in Invitations : inv'[i].grants > 0 => ~inv'[i].withdrawn
    BY <2>3 DEF InvitationsIInv, WithdrawnFirst
  <2> QED BY <1>7, <2>2, <2>4 DEF WithdrawnFirst
<1>11. SentAgainMeanwhile'
  <2>1. \A i \in AllPending' : i \in AllPending /\ i \in Invitations /\ inv'[i] = inv[i]
    <3>1. \A i \in Invitations : IsPendingNow(inv'[i]) => inv'[i] = inv[i]
      BY <1>4, <1>5 DEF IsPendingNow
    <3> QED BY <3>1 DEF AllPending
  <2>2. \A q \in InvitationRequests : invReq'[q].op = "invite" => invReq[q].op = "invite"
    BY <1>8
  <2> QED BY <1>7, <2>1, <2>2 DEF InvitationsIInv, SentAgainMeanwhile
<1> QED BY <1>7, <1>9, <1>10, <1>11 DEF InvitationsIInv

LEMMA CommitRemoveOldKeeps ==
    ASSUME InvitationsIInv, NEW r \in InvitationRequests, CommitRemoveOld(r),
           doubled' = (doubled \/ \E i, j \in (AllPending \cup BeingFollowed)' : i # j)
    PROVE  InvitationsIInv'
<1>1. /\ invReq[r].op = "remove old" /\ Close(r) /\ holders' = holders
      /\ inv' = [i \in Invitations |-> IF i \in invReq[r].old
                                       THEN [Absent EXCEPT !.token = inv[i].token] ELSE inv[i]]
  BY DEF CommitRemoveOld
<1>2. ASSUME NEW i \in Invitations
      PROVE  /\ inv'[i] \in InvRow /\ inv'[i].token = inv[i].token
             /\ \/ inv'[i] = inv[i]
                \/ /\ inv'[i].row = FALSE /\ inv'[i].grants = 0
                   /\ inv'[i].accepted = FALSE /\ inv'[i].withdrawn = FALSE
  <2>1. inv[i] \in InvRow
    BY InvShapes
  <2>2. CASE i \in invReq[r].old
    <3>1. PICK gone : gone = [Absent EXCEPT !.token = inv[i].token]
      OBVIOUS
    <3>2. /\ gone \in InvRow /\ gone.token = inv[i].token /\ gone.row = FALSE /\ gone.grants = 0
          /\ gone.accepted = FALSE /\ gone.withdrawn = FALSE
      <4>1. inv[i].token \in 0..MaxTokens
        BY <2>1 DEF InvRow
      <4>2. 0 \in 0..2
        OBVIOUS
      <4> QED BY <3>1, <4>1, <4>2 DEF InvRow, Absent
    <3>3. inv'[i] = gone
      BY <1>1, <2>2, <3>1
    <3> QED BY <3>2, <3>3
  <2>3. CASE i \notin invReq[r].old
    BY <1>1, <2>1, <2>3
  <2> QED BY <2>2, <2>3
<1>3. inv' \in [Invitations -> InvRow]
  BY <1>1, <1>2
<1>4. /\ InvTables' /\ OneWayIn' /\ (~doubled' => ~doubled)
      /\ UNCHANGED <<ElsewhereApart, WithdrawalsApart, InvitesApart>>
      /\ \A q \in InvitationRequests : invReq'[q] = IF q = r THEN Free ELSE invReq[q]
  <2>1. ASSUME NEW i \in Invitations
        PROVE  /\ inv[i].token > 0 => inv'[i].token > 0
               /\ inv'[i].row => inv'[i].token > 0
               /\ inv'[i].grants > 0 => inv'[i].accepted
               /\ inv'[i].grants <= 1
    <3>1. CASE inv'[i] = inv[i]
      BY <3>1 DEF InvitationsIInv, InvTables
    <3>2. CASE inv'[i] # inv[i]
      <4>1. inv'[i].row = FALSE /\ inv'[i].grants = 0 /\ inv'[i].token = inv[i].token
        BY <1>2, <3>2
      <4> QED BY <4>1
    <3> QED BY <3>1, <3>2
  <2>2. holders' \in Nat
    BY <1>1 DEF InvitationsIInv, InvTables
  <2> QED BY <1>1, <1>3, <2>1, <2>2, CloseKeepsTables
<1>5. \A q \in InvitationRequests : invReq'[q].op # "free" => invReq[q] = invReq'[q]
  BY <1>4, NewRow
<1>6. NobodyMakesAnother'
  <2>1. \A q \in InvitationRequests : invReq'[q].op = "sign up" =>
           invReq[q] = invReq'[q] /\ invReq[q].inv \in Invitations
    BY <1>5, InvShapes
  <2>2. \A q \in InvitationRequests : invReq'[q].op = "elsewhere" => invReq[q].op = "elsewhere"
    BY <1>5
  <2>3. \A i \in Invitations : LockedOut(inv[i]) => LockedOut(inv'[i])
    BY <1>2 DEF LockedOut
  <2> QED BY <1>1, <1>4, <2>1, <2>2, <2>3 DEF InvitationsIInv, NobodyMakesAnother
<1>7. WithdrawnFirst'
  <2>1. \A q \in InvitationRequests : invReq'[q].op = "withdraw" =>
           invReq[q] = invReq'[q] /\ invReq[q].inv \in Invitations
    BY <1>5, InvShapes
  <2>2. \A i \in Invitations : inv'[i] = inv[i] \/ inv'[i].grants = 0
    BY <1>2
  <2> QED BY <1>4, <2>1, <2>2 DEF InvitationsIInv, WithdrawnFirst
<1>8. SentAgainMeanwhile'
  <2>1. \A i \in AllPending' : i \in AllPending /\ i \in Invitations /\ inv'[i] = inv[i]
    <3>1. \A i \in Invitations : IsPendingNow(inv'[i]) => inv'[i] = inv[i]
      BY <1>2 DEF IsPendingNow
    <3> QED BY <3>1 DEF AllPending
  <2>2. \A q \in InvitationRequests : invReq'[q].op = "invite" => invReq[q].op = "invite"
    BY <1>5
  <2> QED BY <1>4, <2>1, <2>2 DEF InvitationsIInv, SentAgainMeanwhile
<1> QED BY <1>4, <1>6, <1>7, <1>8 DEF InvitationsIInv

\* A request that ends without a change of the rows, the site's own sign-up among them.
LEMMA EndKeeps ==
    ASSUME InvitationsIInv, NEW r \in InvitationRequests,
           CommitSignUpElsewhere(r) \/ InvitationRequestDies(r),
           doubled' = (doubled \/ \E i, j \in (AllPending \cup BeingFollowed)' : i # j)
    PROVE  InvitationsIInv'
<1>1. /\ invReq[r].op # "free" /\ Close(r) /\ inv' = inv
      /\ holders' = holders \/ (invReq[r].op = "elsewhere" /\ holders' = holders + 1)
  BY DEF CommitSignUpElsewhere, InvitationRequestDies
<1>2. holders \in Nat /\ holders' \in Nat /\ inv' \in [Invitations -> InvRow]
  BY <1>1 DEF InvitationsIInv, InvTables
<1>3. /\ InvTables' /\ OneWayIn' /\ (~doubled' => ~doubled)
      /\ UNCHANGED <<ElsewhereApart, WithdrawalsApart, InvitesApart>>
      /\ \A q \in InvitationRequests : invReq'[q] = IF q = r THEN Free ELSE invReq[q]
  <2>1. \A i \in Invitations : /\ inv[i].token > 0 => inv'[i].token > 0
                               /\ inv'[i].row => inv'[i].token > 0
                               /\ inv'[i].grants > 0 => inv'[i].accepted
                               /\ inv'[i].grants <= 1
    BY <1>1 DEF InvitationsIInv, InvTables
  <2> QED BY <1>1, <1>2, <2>1, CloseKeepsTables
<1>4. \A q \in InvitationRequests : invReq'[q].op # "free" => invReq[q] = invReq'[q] /\ q # r
  BY <1>3, NewRow
<1>5. NobodyMakesAnother'
  <2> SUFFICES ASSUME ElsewhereApart, ~doubled
               PROVE  /\ holders' <= 1
                      /\ \/ holders' = 0
                         \/ \A q \in InvitationRequests :
                               /\ invReq'[q].op # "elsewhere"
                               /\ invReq'[q].op = "sign up" => LockedOut(inv'[invReq'[q].inv])
    BY <1>3 DEF NobodyMakesAnother
  <2>1. /\ holders <= 1
        /\ \/ holders = 0
           \/ \A q \in InvitationRequests :
                 /\ invReq[q].op # "elsewhere"
                 /\ invReq[q].op = "sign up" => LockedOut(inv[invReq[q].inv])
    BY DEF InvitationsIInv, NobodyMakesAnother
  <2>2. CASE holders' = holders
    BY <1>1, <1>4, <2>1, <2>2
  <2>3. CASE holders' # holders
    <3>1. invReq[r].op = "elsewhere" /\ holders' = holders + 1
      BY <1>1, <2>3
    <3>2. holders = 0
      BY <2>1, <3>1
    <3>3. \A q \in InvitationRequests : invReq'[q].op \notin {"elsewhere", "sign up"}
      BY <1>4, <3>1, Met
    <3>4. holders' <= 1
      BY <3>1, <3>2
    <3> QED BY <3>3, <3>4
  <2> QED BY <2>2, <2>3
<1>6. AllPending' = AllPending
  BY <1>1 DEF AllPending
<1>7. WithdrawnFirst' /\ SentAgainMeanwhile'
  BY <1>1, <1>3, <1>4, <1>6, NewRow DEF InvitationsIInv, WithdrawnFirst, SentAgainMeanwhile
<1> QED BY <1>3, <1>5, <1>7 DEF InvitationsIInv

LEMMA InvitationExpiresKeeps ==
    ASSUME InvitationsIInv, NEW n \in Invitations, InvitationExpires(n),
           doubled' = (doubled \/ \E i, j \in (AllPending \cup BeingFollowed)' : i # j)
    PROVE  InvitationsIInv'
<1>1. /\ inv' = [inv EXCEPT ![n].expired = TRUE] /\ holders' = holders /\ invReq' = invReq
      /\ overlaps' = overlaps
  BY DEF InvitationExpires
<1>2. PICK new : new = [inv[n] EXCEPT !.expired = TRUE]
  OBVIOUS
<1>3. /\ new \in InvRow /\ new.token = inv[n].token /\ new.row = inv[n].row /\ new.expired = TRUE
      /\ new.accepted = inv[n].accepted /\ new.withdrawn = inv[n].withdrawn
      /\ new.grants = inv[n].grants
  <2>1. inv[n] \in InvRow
    BY InvShapes
  <2> QED BY <1>2, <2>1 DEF InvRow
<1>4. inv' = [inv EXCEPT ![n] = new]
  BY <1>1, <1>2
<1>5. /\ inv' \in [Invitations -> InvRow]
      /\ \A i \in Invitations : inv'[i] = IF i = n THEN new ELSE inv[i]
  BY <1>3, <1>4 DEF InvitationsIInv, InvTables
<1>6. \A i \in Invitations : /\ inv'[i].row = inv[i].row /\ inv'[i].accepted = inv[i].accepted
                             /\ inv'[i].withdrawn = inv[i].withdrawn
                             /\ inv'[i].grants = inv[i].grants /\ inv'[i].token = inv[i].token
                             /\ inv'[i] = inv[i] \/ inv'[i].expired = TRUE
  BY <1>3, <1>5
<1>7. doubled' \in BOOLEAN /\ (~doubled' => ~doubled)
  BY DEF InvitationsIInv, InvTables
<1>8. \A q \in InvitationRequests : OfOne(invReq[q]) => invReq[q].inv \in Invitations
  BY InvShapes
<1>9. InvTables'
  <2>1. \A i \in Invitations : /\ inv'[i].row => inv'[i].token > 0
                               /\ inv'[i].grants > 0 => inv'[i].accepted
                               /\ inv'[i].grants <= 1
    BY <1>6 DEF InvitationsIInv, InvTables
  <2>2. \A q \in InvitationRequests : OfOne(invReq'[q]) => inv'[invReq'[q].inv].token > 0
    BY <1>1, <1>6, <1>8 DEF InvitationsIInv, InvTables
  <2> QED BY <1>1, <1>5, <1>7, <2>1, <2>2 DEF InvitationsIInv, InvTables
<1>10. UNCHANGED <<ElsewhereApart, WithdrawalsApart, InvitesApart>>
  BY <1>1 DEF ElsewhereApart, WithdrawalsApart, InvitesApart, NotAtOnce
<1>11. OneWayIn'
  BY DEF OneWayIn
<1>12. NobodyMakesAnother'
  <2>1. \A i \in Invitations : LockedOut(inv'[i]) <=> LockedOut(inv[i])
    BY <1>6 DEF LockedOut
  <2>2. \A q \in InvitationRequests : invReq[q].op = "sign up" => invReq[q].inv \in Invitations
    BY InvShapes
  <2> QED BY <1>1, <1>7, <1>10, <2>1, <2>2 DEF InvitationsIInv, NobodyMakesAnother
<1>13. WithdrawnFirst'
  <2>1. \A q \in InvitationRequests : invReq[q].op = "withdraw" => invReq[q].inv \in Invitations
    BY InvShapes
  <2> QED BY <1>1, <1>6, <1>10, <2>1 DEF InvitationsIInv, WithdrawnFirst
<1>14. SentAgainMeanwhile'
  <2>1. \A i \in AllPending' : i \in AllPending /\ i \in Invitations /\ inv'[i].token = inv[i].token
    <3>1. \A i \in Invitations : IsPendingNow(inv'[i]) => inv'[i] = inv[i]
      BY <1>6 DEF IsPendingNow
    <3> QED BY <3>1 DEF AllPending
  <2> QED BY <1>1, <1>10, <2>1 DEF InvitationsIInv, SentAgainMeanwhile
<1> QED BY <1>9, <1>11, <1>12, <1>13, <1>14 DEF InvitationsIInv

\* A request that loads meets what it needs.
LEMMA LoadsKeep ==
    ASSUME InvitationsIInv, NEW r \in InvitationRequests,
           \/ LoadToInvite(r) \/ LoadToSignUpElsewhere(r)
           \/ \E i \in Invitations : LoadToResend(r, i) \/ LoadInvitationToWithdraw(r, i) \/ Follow(r, i)
           \/ \E old \in SUBSET Invitations : LoadToRemoveOld(r, old),
           doubled' = (doubled \/ \E i, j \in (AllPending \cup BeingFollowed)' : i # j)
    PROVE  InvitationsIInv'
<1>1. CASE LoadToInvite(r)
  <2>1. /\ [op |-> "invite"] \in InvRequest /\ ~OfOne([op |-> "invite"])
    BY DEF InvRequest, OfOne
  <2>2. holders = 0 /\ AllPending = {} /\ Load(r, [op |-> "invite"])
    BY <1>1 DEF LoadToInvite, AllPending
  <2> QED BY <2>1, <2>2, LoadKeeps
<1>2. CASE LoadToSignUpElsewhere(r)
  <2>1. /\ [op |-> "elsewhere"] \in InvRequest /\ ~OfOne([op |-> "elsewhere"])
    BY DEF InvRequest, OfOne
  <2>2. holders = 0 /\ Load(r, [op |-> "elsewhere"])
    BY <1>2 DEF LoadToSignUpElsewhere
  <2> QED BY <2>1, <2>2, LoadKeeps
<1>3. ASSUME NEW i \in Invitations, LoadToResend(r, i) PROVE InvitationsIInv'
  <2>1. [op |-> "resend", inv |-> i] \in InvRequest
    BY DEF InvRequest
  <2>2. inv[i].token > 0 /\ Load(r, [op |-> "resend", inv |-> i])
    BY <1>3 DEF LoadToResend, InvitationsIInv, InvTables
  <2> QED BY <2>1, <2>2, LoadKeeps
<1>4. ASSUME NEW i \in Invitations, LoadInvitationToWithdraw(r, i) PROVE InvitationsIInv'
  <2>1. [op |-> "withdraw", inv |-> i] \in InvRequest
    BY DEF InvRequest
  <2>2. IsPendingNow(inv[i]) /\ Load(r, [op |-> "withdraw", inv |-> i])
    BY <1>4 DEF LoadInvitationToWithdraw
  <2>3. inv[i].token > 0 /\ ~(inv[i].grants > 0)
    BY <2>2 DEF InvitationsIInv, InvTables, IsPendingNow
  <2>4. inv[i].grants = 0
    <3>1. inv[i].grants \in 0..2
      BY InvShapes DEF InvRow
    <3> QED BY <2>3, <3>1
  <2> QED BY <2>1, <2>2, <2>3, <2>4, LoadKeeps
<1>5. ASSUME NEW i \in Invitations, Follow(r, i) PROVE InvitationsIInv'
  <2>1. IsPendingNow(inv[i]) /\ inv[i].token > 0
    BY <1>5 DEF Follow, InvitationsIInv, InvTables, IsPendingNow
  <2>2. holders \in Nat
    BY DEF InvitationsIInv, InvTables
  <2>3. CASE holders > 0
    <3>1. [op |-> "accept", inv |-> i] \in InvRequest
      BY DEF InvRequest
    <3>2. Load(r, [op |-> "accept", inv |-> i])
      BY <1>5, <2>3 DEF Follow
    <3> QED BY <2>1, <3>1, <3>2, LoadKeeps
  <2>4. CASE ~(holders > 0)
    <3>1. [op |-> "sign up", inv |-> i] \in InvRequest
      BY DEF InvRequest
    <3>2. Load(r, [op |-> "sign up", inv |-> i])
      BY <1>5, <2>4 DEF Follow
    <3>3. holders = 0
      BY <2>2, <2>4
    <3> QED BY <2>1, <3>1, <3>2, <3>3, LoadKeeps
  <2> QED BY <2>3, <2>4
<1>6. ASSUME NEW old \in SUBSET Invitations, LoadToRemoveOld(r, old) PROVE InvitationsIInv'
  <2>1. [op |-> "remove old", old |-> old] \in InvRequest
    BY DEF InvRequest
  <2>2. Load(r, [op |-> "remove old", old |-> old]) /\ ~OfOne([op |-> "remove old", old |-> old])
    BY <1>6 DEF LoadToRemoveOld, OfOne
  <2> QED BY <2>1, <2>2, LoadKeeps
<1> QED BY <1>1, <1>2, <1>3, <1>4, <1>5, <1>6

LEMMA InvitationsNextKeeps == InvitationsIInv /\ [InvitationsNext]_invitationVars => InvitationsIInv'
<1>1. ASSUME InvitationsIInv, InvitationsNext PROVE InvitationsIInv'
  <2>1. doubled' = (doubled \/ \E i, j \in (AllPending \cup BeingFollowed)' : i # j)
    BY <1>1 DEF InvitationsNext
  <2>2. ASSUME NEW i \in Invitations, InvitationExpires(i) PROVE InvitationsIInv'
    BY <1>1, <2>1, <2>2, InvitationExpiresKeeps
  <2>3. ASSUME NEW r \in InvitationRequests,
               \/ LoadToInvite(r) \/ LoadToSignUpElsewhere(r)
               \/ \E i \in Invitations :
                     LoadToResend(r, i) \/ LoadInvitationToWithdraw(r, i) \/ Follow(r, i)
               \/ \E old \in SUBSET Invitations : LoadToRemoveOld(r, old)
        PROVE  InvitationsIInv'
    BY <1>1, <2>1, <2>3, LoadsKeep
  <2>4. ASSUME NEW r \in InvitationRequests,
               \/ CommitInvitation(r) \/ CommitResend(r) \/ CommitWithdraw(r) \/ CommitAcceptance(r)
               \/ CommitSignUpElsewhere(r) \/ CommitRemoveOld(r) \/ InvitationRequestDies(r)
        PROVE  InvitationsIInv'
    BY <1>1, <2>1, <2>4, CommitInvitationKeeps, CommitResendKeeps, CommitWithdrawKeeps,
       CommitAcceptanceKeeps, CommitRemoveOldKeeps, EndKeeps
  <2> QED BY <1>1, <2>2, <2>3, <2>4 DEF InvitationsNext, InvitationsStep
<1>2. ASSUME InvitationsIInv, UNCHANGED invitationVars PROVE InvitationsIInv'
  <2>1. AllPending' = AllPending /\ BeingFollowed' = BeingFollowed
    BY <1>2 DEF invitationVars, AllPending, BeingFollowed
  <2>2. UNCHANGED <<ElsewhereApart, WithdrawalsApart, InvitesApart>>
    BY <1>2 DEF invitationVars, ElsewhereApart, WithdrawalsApart, InvitesApart, NotAtOnce
  <2>3. UNCHANGED <<inv, holders, invReq, overlaps, doubled>>
    BY <1>2 DEF invitationVars
  <2>4. InvTables'
    BY <1>2, <2>3 DEF InvitationsIInv, InvTables
  <2>5. OneWayIn' /\ NobodyMakesAnother' /\ WithdrawnFirst'
    BY <1>2, <2>1, <2>2, <2>3 DEF InvitationsIInv, OneWayIn, NobodyMakesAnother, WithdrawnFirst
  <2>6. SentAgainMeanwhile'
    BY <1>2, <2>1, <2>2, <2>3 DEF InvitationsIInv, SentAgainMeanwhile
  <2> QED BY <2>4, <2>5, <2>6 DEF InvitationsIInv
<1> QED BY <1>1, <1>2

LEMMA InvitationsIInvImplies == InvitationsIInv => InvitationsInv
<1> SUFFICES ASSUME InvitationsIInv PROVE InvitationsInv
  OBVIOUS
<1>1. InvitationsTypeOK
  BY DEF InvitationsIInv, InvTables, InvRow, InvitationsTypeOK
<1>2. OneAccountForTheAddress
  BY DEF InvitationsIInv, NobodyMakesAnother, ElsewhereApart, OneAccountForTheAddress
<1>3. GrantsOnceOrNever
  BY DEF InvitationsIInv, InvTables, WithdrawnFirst, WithdrawalsApart, GrantsOnceOrNever
<1>4. OneInvitationWaits
  BY DEF InvitationsIInv, SentAgainMeanwhile, InvitesApart, OneInvitationWaits
<1> QED BY <1>1, <1>2, <1>3, <1>4 DEF InvitationsInv

\* An invitation to a role makes at most one account for its address, gives its
\* roles once and never when it was withdrawn, and no second one waits beside
\* it: however many links are posted, withdrawn, sent again and removed at
\* once, with the exceptions the properties name.
\* (accounts.invitations:invite, resend, withdraw, accept, remove_old)
THEOREM OneAccountPerInvitedAddress == InvitationsSpec => []InvitationsInv
<1>1. InvitationsIInv /\ [InvitationsNext]_invitationVars => InvitationsIInv'
  BY InvitationsNextKeeps
<1> QED BY <1>1, InvitationsInitOK, InvitationsIInvImplies, PTL DEF InvitationsSpec

-----------------------------------------------------------------------------
(* Roles and the access to the admin that goes with them *)

WorkingOnRoles == RoleRequests \cup {Job}

GrantRow == [account : Adults \cup {Nobody}, end : EndReasons \cup {"open"}, late : BOOLEAN]

RolesToWrite == [op : {"roles"}, step : {"write"}, account : Adults,
                 added : SUBSET Roles, removed : SUBSET Roles]
RolesToCommit == [op : {"roles"}, step : {"commit"}, account : Adults,
                  added : SUBSET Roles, removed : SUBSET Roles, view : SUBSET Roles,
                  ended : SUBSET Grants, needsStaff : BOOLEAN, hadStaff : BOOLEAN]
AskToCommit == [op : {"ask"}, account : Adults, hadStaff : BOOLEAN]
EndToSave == [op : {"end"}, step : {"save"}, account : Adults, grant : Grants,
              reason : EndReasons, hadStaff : BOOLEAN]
StaffToCheck == [op : {"end"}, step : {"sync"}, account : Adults, hadStaff : BOOLEAN]
StaffToSave == [op : {"end"}, step : {"staff"}, account : Adults, hadStaff : BOOLEAN,
                needsStaff : BOOLEAN]

RoleRequest == {Idle} \cup RolesToWrite \cup RolesToCommit \cup AskToCommit
                 \cup EndToSave \cup StaffToCheck \cup StaffToSave

RoleRows ==
    /\ roles \in [Adults -> SUBSET Roles] /\ groups \in [Adults -> SUBSET Roles]
    /\ grant \in [Grants -> GrantRow] /\ staff \subseteq Adults
    /\ \A g \in Grants : grant[g].end = "expired" => grant[g].late

\* What ends because its time is up is late.
IsLate(q) == q.op = "end" /\ q.step = "save" /\ q.reason = "expired" => grant[q.grant].late

RoleTables ==
    /\ RoleRows
    /\ roleReq \in [WorkingOnRoles -> RoleRequest]
    /\ \A r \in WorkingOnRoles : IsLate(roleReq[r])
    /\ job \in [phase : {"idle", "grants", "staff"}, left : SUBSET (EndToSave \cup StaffToCheck)]
    /\ \A q \in job.left : IsLate(q)
    /\ job.phase = "idle" => job.left = {} /\ roleReq[Job].op = "idle"
    /\ roleReq[Job].op \in {"idle", "end"}
    /\ \A q, r \in RoleRequests :
          q # r /\ roleReq[q].op # "idle" /\ roleReq[r].op # "idle" =>
             {roleReq[q].op, roleReq[r].op} \in met
    /\ \A r \in RoleRequests :
          roleReq[r].op # "idle" /\ job.phase # "idle" => {roleReq[r].op, "end"} \in met

\* What the properties except.
RolesApart == {"roles"} \notin met
AccessApart == {{"roles"}, {"ask"}, {"ask", "roles"}} \cap met = {}
StaffApart == {{"ask", "end"}, {"ask", "roles"}} \cap met = {}
EndsApart == {{"end"}, {"end", "roles"}} \cap met = {}

\* Who takes the admin role away saw another who has it.
AdminsLeft(q) == q.op = "roles" /\ "admin" \in q.removed => OtherAdminThan(q.account)

AdminsKept ==
    RolesApart => /\ \E a \in Adults : "admin" \in roles[a]
                  /\ \A r \in WorkingOnRoles : AdminsLeft(roleReq[r])

\* Who asks has a role and no access, and who loses the last role what access there is.
AccessFits(q) ==
    /\ q.op = "ask" => roles[q.account] # {} /\ OpenGrants(q.account) = {}
    /\ q.op = "roles" /\ q.step = "commit" =>
         /\ q.view = (roles[q.account] \cup q.added) \ q.removed
         /\ q.view = {} => OpenGrants(q.account) \subseteq q.ended

AccessKept ==
    AccessApart => /\ \A a \in Adults : roles[a] = {} => OpenGrants(a) = {}
                   /\ \A a \in Adults : \A g, h \in OpenGrants(a) : g = h
                   /\ \A r \in WorkingOnRoles : AccessFits(roleReq[r])

\* Who is about to lose staff status has no open grant, and who keeps it is staff.
StaffFits(q) ==
    /\ q.op = "ask" /\ q.hadStaff = TRUE => q.account \in staff
    /\ q.op = "roles" /\ q.step = "commit" /\ q.needsStaff = FALSE =>
         OpenGrants(q.account) \subseteq q.ended
    /\ q.op = "end" /\ q.step = "staff" /\ q.needsStaff = FALSE => OpenGrants(q.account) = {}

StaffKept ==
    StaffApart => /\ \A a \in Adults : OpenGrants(a) # {} => a \in staff
                  /\ \A r \in WorkingOnRoles : StaffFits(roleReq[r])

\* Who is about to end a grant ends one that is open.
EndFits(q) ==
    /\ q.op = "end" /\ q.step = "save" => grant[q.grant].end = "open"
    /\ q.op = "roles" /\ q.step = "commit" =>
         \A g \in q.ended : grant[g].end \in {"open", "role_removed"}

EndsKept ==
    EndsApart => /\ \A r \in WorkingOnRoles : EndFits(roleReq[r])
                 /\ \A q \in job.left : EndFits(q)
                 /\ \A p, q \in job.left :
                      p.step = "save" /\ q.step = "save" /\ p.grant = q.grant => p = q
                 /\ \A q \in job.left :
                      q.step = "save" /\ roleReq[Job].op = "end" /\ roleReq[Job].step = "save" =>
                         roleReq[Job].grant # q.grant

RolesIInv == RoleTables /\ AdminsKept /\ AccessKept /\ StaffKept /\ EndsKept

\* Requests by what they are.
LEMMA RoleRequestShapes ==
    ASSUME NEW q \in RoleRequest
    PROVE  /\ q.op \in {"idle", "roles", "ask", "end"}
           /\ q.op = "idle" => q = Idle
           /\ q.op = "roles" => q \in RolesToWrite \cup RolesToCommit
           /\ q.op = "ask" => q \in AskToCommit
           /\ q.op = "end" => q \in EndToSave \cup StaffToCheck \cup StaffToSave
<1>1. CASE q = Idle
  BY <1>1 DEF Idle
<1>2. CASE q \in RolesToWrite \cup RolesToCommit
  BY <1>2 DEF RolesToWrite, RolesToCommit
<1>3. CASE q \in AskToCommit
  BY <1>3 DEF AskToCommit
<1>4. CASE q \in EndToSave \cup StaffToCheck \cup StaffToSave
  BY <1>4 DEF EndToSave, StaffToCheck, StaffToSave
<1> QED BY <1>1, <1>2, <1>3, <1>4 DEF RoleRequest

LEMMA IdleIsFree ==
    /\ Idle \in RoleRequest /\ Idle.op = "idle"
    /\ IsLate(Idle) /\ AdminsLeft(Idle) /\ AccessFits(Idle) /\ StaffFits(Idle) /\ EndFits(Idle)
<1>1. Idle \in RoleRequest /\ Idle.op = "idle"
  BY DEF Idle, RoleRequest
<1> QED BY <1>1 DEF IsLate, AdminsLeft, AccessFits, StaffFits, EndFits

\* Which two have not met.
LEMMA RolesMet ==
    ASSUME RoleTables, NEW q \in WorkingOnRoles, NEW r \in WorkingOnRoles, q # r
    PROVE  /\ RolesApart => ~(roleReq[q].op = "roles" /\ roleReq[r].op = "roles")
           /\ AccessApart => ~(roleReq[q].op \in {"ask", "roles"} /\ roleReq[r].op \in {"ask", "roles"})
           /\ StaffApart => ~(roleReq[q].op = "ask" /\ roleReq[r].op \in {"end", "roles"})
           /\ EndsApart => ~(roleReq[q].op = "end" /\ roleReq[r].op \in {"end", "roles"})
<1>1. roleReq[q].op # "idle" /\ roleReq[r].op # "idle" => {roleReq[q].op, roleReq[r].op} \in met
  <2> SUFFICES ASSUME roleReq[q].op # "idle", roleReq[r].op # "idle"
               PROVE  {roleReq[q].op, roleReq[r].op} \in met
    OBVIOUS
  <2>1. CASE q = Job
    <3>1. r \in RoleRequests /\ job.phase # "idle" /\ roleReq[q].op = "end"
      BY <2>1 DEF RoleTables, WorkingOnRoles
    <3>2. {roleReq[q].op, roleReq[r].op} = {roleReq[r].op, "end"}
      BY <3>1
    <3> QED BY <3>1, <3>2 DEF RoleTables
  <2>2. CASE r = Job
    <3>1. q \in RoleRequests /\ job.phase # "idle" /\ roleReq[r].op = "end"
      BY <2>2 DEF RoleTables, WorkingOnRoles
    <3> QED BY <3>1 DEF RoleTables
  <2>3. CASE q # Job /\ r # Job
    BY <2>3 DEF RoleTables, WorkingOnRoles
  <2> QED BY <2>1, <2>2, <2>3
<1>2. RolesApart => ~(roleReq[q].op = "roles" /\ roleReq[r].op = "roles")
  <2> SUFFICES ASSUME RolesApart, roleReq[q].op = "roles", roleReq[r].op = "roles" PROVE FALSE
    OBVIOUS
  <2>1. {roleReq[q].op, roleReq[r].op} = {"roles"}
    OBVIOUS
  <2> QED BY <1>1, <2>1 DEF RolesApart
<1>3. AccessApart => ~(roleReq[q].op \in {"ask", "roles"} /\ roleReq[r].op \in {"ask", "roles"})
  <2> SUFFICES ASSUME AccessApart, roleReq[q].op \in {"ask", "roles"}, roleReq[r].op \in {"ask", "roles"}
               PROVE  FALSE
    OBVIOUS
  <2>1. {roleReq[q].op, roleReq[r].op} \in {{"roles"}, {"ask"}, {"ask", "roles"}}
    OBVIOUS
  <2> QED BY <1>1, <2>1 DEF AccessApart
<1>4. StaffApart => ~(roleReq[q].op = "ask" /\ roleReq[r].op \in {"end", "roles"})
  <2> SUFFICES ASSUME StaffApart, roleReq[q].op = "ask", roleReq[r].op \in {"end", "roles"} PROVE FALSE
    OBVIOUS
  <2>1. {roleReq[q].op, roleReq[r].op} \in {{"ask", "end"}, {"ask", "roles"}}
    OBVIOUS
  <2> QED BY <1>1, <2>1 DEF StaffApart
<1>5. EndsApart => ~(roleReq[q].op = "end" /\ roleReq[r].op \in {"end", "roles"})
  <2> SUFFICES ASSUME EndsApart, roleReq[q].op = "end", roleReq[r].op \in {"end", "roles"} PROVE FALSE
    OBVIOUS
  <2>1. {roleReq[q].op, roleReq[r].op} \in {{"end"}, {"end", "roles"}}
    OBVIOUS
  <2> QED BY <1>1, <2>1 DEF EndsApart
<1> QED BY <1>2, <1>3, <1>4, <1>5

\* Nor has the job, between two of its grants.
LEMMA JobMet ==
    ASSUME RoleTables, NEW r \in RoleRequests, job.phase # "idle"
    PROVE  /\ StaffApart => roleReq[r].op # "ask"
           /\ EndsApart => roleReq[r].op \notin {"end", "roles"}
<1>1. roleReq[r].op # "idle" => {roleReq[r].op, "end"} \in met
  BY DEF RoleTables
<1>2. StaffApart => roleReq[r].op # "ask"
  BY <1>1 DEF StaffApart
<1>3. EndsApart => roleReq[r].op \notin {"end", "roles"}
  <2> SUFFICES ASSUME EndsApart, roleReq[r].op \in {"end", "roles"} PROVE FALSE
    OBVIOUS
  <2>1. {roleReq[r].op, "end"} \in {{"end"}, {"end", "roles"}}
    OBVIOUS
  <2> QED BY <1>1, <2>1 DEF EndsApart
<1> QED BY <1>2, <1>3

LEMMA RolesInitOK == RolesInit => RolesIInv
<1> SUFFICES ASSUME RolesInit PROVE RolesIInv
  OBVIOUS
<1>1. \A a \in Adults : OpenGrants(a) = {}
  <2>1. \A g \in Grants : grant[g].account = Nobody
    BY DEF RolesInit, NoGrant
  <2> QED BY <2>1, RolesAssumption DEF OpenGrants
<1>2. \A r \in WorkingOnRoles : roleReq[r] = Idle
  BY DEF RolesInit, WorkingOnRoles
<1>3. RoleRows
  <2>1. NoGrant \in GrantRow /\ NoGrant.end = "open"
    BY DEF NoGrant, GrantRow
  <2>2. roles \in [Adults -> SUBSET Roles]
    <3>1. {{}, {"admin"}} \subseteq SUBSET Roles
      BY RolesAssumption
    <3> QED BY <3>1 DEF RolesInit
  <2>3. groups \in [Adults -> SUBSET Roles]
    BY <2>2 DEF RolesInit
  <2>4. grant \in [Grants -> GrantRow] /\ \A g \in Grants : grant[g].end # "expired"
    BY <2>1 DEF RolesInit
  <2> QED BY <2>2, <2>3, <2>4 DEF RolesInit, RoleRows
<1>4. job.phase = "idle" /\ job.left = {}
      /\ job \in [phase : {"idle", "grants", "staff"}, left : SUBSET (EndToSave \cup StaffToCheck)]
  BY DEF RolesInit, JobIdle
<1>5. RoleTables
  <2>1. roleReq \in [WorkingOnRoles -> RoleRequest]
    BY IdleIsFree DEF RolesInit, WorkingOnRoles
  <2>2. Job \in WorkingOnRoles
    BY DEF WorkingOnRoles
  <2>3. \A r \in WorkingOnRoles : IsLate(roleReq[r]) /\ roleReq[r].op = "idle"
    BY <1>2, IdleIsFree
  <2>4. \A r \in RoleRequests : roleReq[r].op = "idle"
    BY <2>3 DEF WorkingOnRoles
  <2> QED BY <1>3, <1>4, <2>1, <2>2, <2>3, <2>4 DEF RoleTables
<1>6. \E a \in Adults : "admin" \in roles[a]
  <2>1. PICK a \in Adults : roles[a] # {}
    BY DEF RolesInit
  <2>2. roles[a] \in {{}, {"admin"}}
    BY DEF RolesInit
  <2> QED BY <2>1, <2>2
<1>7. AdminsKept /\ AccessKept
  BY <1>1, <1>2, <1>6, IdleIsFree DEF AdminsKept, AccessKept
<1>8. StaffKept /\ EndsKept
  BY <1>1, <1>2, <1>4, IdleIsFree DEF StaffKept, EndsKept
<1> QED BY <1>5, <1>7, <1>8 DEF RolesIInv

\* A step of a request, the job's rows untouched: the tables.
LEMMA RoleTablesStay ==
    ASSUME RoleTables, NEW r \in WorkingOnRoles, NEW q \in RoleRequest,
           roleReq' = [roleReq EXCEPT ![r] = q], job' = job, RoleRows', met \subseteq met',
           \A g \in Grants : grant[g].late = TRUE => grant'[g].late = TRUE,
           IsLate(q), r = Job => q.op \in {"idle", "end"} /\ job.phase # "idle",
           \A p \in RoleRequests : p # r /\ r # Job /\ q.op # "idle" /\ roleReq[p].op # "idle" =>
              {q.op, roleReq[p].op} \in met',
           r # Job /\ q.op # "idle" /\ job.phase # "idle" => {q.op, "end"} \in met'
    PROVE  RoleTables'
<1>1. /\ roleReq' \in [WorkingOnRoles -> RoleRequest]
      /\ \A p \in WorkingOnRoles : roleReq'[p] = IF p = r THEN q ELSE roleReq[p]
  BY DEF RoleTables
<1>2. \A p \in RoleRequest \cup job.left : IsLate(p) => IsLate(p)'
  <2> SUFFICES ASSUME NEW p \in RoleRequest \cup job.left, IsLate(p),
                      p.op = "end", p.step = "save", p.reason = "expired"
               PROVE  grant'[p.grant].late
    BY DEF IsLate
  <2>1. p \in EndToSave
    <3>1. p \in EndToSave \cup StaffToCheck \cup StaffToSave
      BY RoleRequestShapes DEF RoleTables
    <3> QED BY <3>1 DEF StaffToCheck, StaffToSave
  <2>2. p.grant \in Grants
    BY <2>1 DEF EndToSave
  <2>3. grant[p.grant].late
    BY DEF IsLate
  <2>4. grant[p.grant] \in GrantRow
    BY <2>2 DEF RoleTables, RoleRows
  <2>5. grant[p.grant].late = TRUE
    BY <2>3, <2>4 DEF GrantRow
  <2> QED BY <2>2, <2>5
<1>3. \A p \in WorkingOnRoles : IsLate(roleReq[p])'
  <2> SUFFICES ASSUME NEW p \in WorkingOnRoles PROVE IsLate(roleReq[p])'
    OBVIOUS
  <2>1. roleReq'[p] \in RoleRequest /\ IsLate(roleReq'[p])
    BY <1>1 DEF RoleTables
  <2> QED BY <1>2, <2>1 DEF IsLate
<1>4. \A p \in job'.left : IsLate(p)'
  BY <1>2 DEF RoleTables
<1>5. Job \in WorkingOnRoles /\ Job \notin RoleRequests /\ RoleRequests \subseteq WorkingOnRoles
  BY RolesAssumption DEF WorkingOnRoles
<1>6. /\ job.phase = "idle" => roleReq'[Job].op = "idle"
      /\ roleReq'[Job].op \in {"idle", "end"}
  BY <1>1, <1>5 DEF RoleTables
<1>7. \A p \in RoleRequests : roleReq'[p].op # "idle" /\ job.phase # "idle" => {roleReq'[p].op, "end"} \in met'
  BY <1>1, <1>5 DEF RoleTables
<1>8. ASSUME NEW p \in RoleRequests, NEW s \in RoleRequests,
             p # s, roleReq'[p].op # "idle", roleReq'[s].op # "idle"
      PROVE  {roleReq'[p].op, roleReq'[s].op} \in met'
  <2>1. CASE p = r
    BY <1>1, <1>5, <1>8, <2>1
  <2>2. CASE s = r
    <3>1. {q.op, roleReq[p].op} \in met'
      BY <1>1, <1>5, <1>8, <2>2
    <3>2. {roleReq'[p].op, roleReq'[s].op} = {q.op, roleReq[p].op}
      BY <1>1, <1>5, <1>8, <2>2
    <3> QED BY <3>1, <3>2
  <2>3. CASE p # r /\ s # r
    BY <1>1, <1>5, <1>8, <2>3 DEF RoleTables
  <2> QED BY <2>1, <2>2, <2>3
<1> QED BY <1>1, <1>3, <1>4, <1>6, <1>7, <1>8 DEF RoleTables

\* A step of a request that leaves the rows as they are: what the rows promise stays.
LEMMA RowsAsTheyWere ==
    ASSUME RolesIInv, NEW r \in WorkingOnRoles, NEW q,
           roleReq' = [roleReq EXCEPT ![r] = q], met \subseteq met',
           UNCHANGED <<roles, grant, staff>>,
           RolesApart => AdminsLeft(q), AccessApart => AccessFits(q),
           StaffApart => StaffFits(q), EndsApart => EndFits(q)
    PROVE  /\ AdminsKept' /\ AccessKept' /\ StaffKept'
           /\ EndsApart' => EndsApart
           /\ EndsApart' => \A p \in WorkingOnRoles : EndFits(roleReq[p])'
<1>1. \A p \in WorkingOnRoles : roleReq'[p] = IF p = r THEN q ELSE roleReq[p]
  BY DEF RolesIInv, RoleTables
<1>2. \A a : OpenGrants(a)' = OpenGrants(a)
  BY DEF OpenGrants, IsOpen
<1>3. /\ RolesApart' => RolesApart
      /\ AccessApart' => AccessApart
      /\ StaffApart' => StaffApart
      /\ EndsApart' => EndsApart
  BY DEF RolesApart, AccessApart, StaffApart, EndsApart
<1>4. AdminsKept'
  <2> SUFFICES ASSUME RolesApart'
               PROVE  /\ \E a \in Adults : "admin" \in roles'[a]
                      /\ \A p \in WorkingOnRoles : AdminsLeft(roleReq[p])'
    BY DEF AdminsKept
  <2>1. /\ \E a \in Adults : "admin" \in roles[a]
        /\ \A p \in WorkingOnRoles : AdminsLeft(roleReq'[p])
    BY <1>1, <1>3 DEF RolesIInv, AdminsKept
  <2> QED BY <2>1 DEF AdminsLeft, OtherAdminThan
<1>5. AccessKept'
  <2> SUFFICES ASSUME AccessApart'
               PROVE  /\ \A a \in Adults : roles'[a] = {} => OpenGrants(a)' = {}
                      /\ \A a \in Adults : \A g, h \in OpenGrants(a)' : g = h
                      /\ \A p \in WorkingOnRoles : AccessFits(roleReq[p])'
    BY DEF AccessKept
  <2>1. /\ \A a \in Adults : roles[a] = {} => OpenGrants(a) = {}
        /\ \A a \in Adults : \A g, h \in OpenGrants(a) : g = h
        /\ \A p \in WorkingOnRoles : AccessFits(roleReq'[p])
    BY <1>1, <1>3 DEF RolesIInv, AccessKept
  <2>2. \A p \in WorkingOnRoles : AccessFits(roleReq[p])'
    BY <1>2, <2>1 DEF AccessFits
  <2> QED BY <1>2, <2>1, <2>2
<1>6. StaffKept'
  <2> SUFFICES ASSUME StaffApart'
               PROVE  /\ \A a \in Adults : OpenGrants(a)' # {} => a \in staff'
                      /\ \A p \in WorkingOnRoles : StaffFits(roleReq[p])'
    BY DEF StaffKept
  <2>1. /\ \A a \in Adults : OpenGrants(a) # {} => a \in staff
        /\ \A p \in WorkingOnRoles : StaffFits(roleReq'[p])
    BY <1>1, <1>3 DEF RolesIInv, StaffKept
  <2>2. \A p \in WorkingOnRoles : StaffFits(roleReq[p])'
    BY <1>2, <2>1 DEF StaffFits
  <2> QED BY <1>2, <2>1, <2>2
<1>7. EndsApart' => \A p \in WorkingOnRoles : EndFits(roleReq[p])'
  <2> SUFFICES ASSUME EndsApart' PROVE \A p \in WorkingOnRoles : EndFits(roleReq[p])'
    OBVIOUS
  <2>1. \A p \in WorkingOnRoles : EndFits(roleReq'[p])
    BY <1>1, <1>3 DEF RolesIInv, EndsKept
  <2> QED BY <2>1 DEF EndFits
<1> QED BY <1>3, <1>4, <1>5, <1>6, <1>7

\* ... and with the job as it was, everything.
LEMMA RequestKeepsRoles ==
    ASSUME RolesIInv, NEW r \in WorkingOnRoles, NEW q \in RoleRequest,
           roleReq' = [roleReq EXCEPT ![r] = q], job' = job, met \subseteq met',
           UNCHANGED <<roles, groups, grant, staff>>,
           IsLate(q), r = Job => q.op \in {"idle", "end"} /\ job.phase # "idle",
           \A p \in RoleRequests : p # r /\ r # Job /\ q.op # "idle" /\ roleReq[p].op # "idle" =>
              {q.op, roleReq[p].op} \in met',
           r # Job /\ q.op # "idle" /\ job.phase # "idle" => {q.op, "end"} \in met',
           RolesApart => AdminsLeft(q), AccessApart => AccessFits(q),
           StaffApart => StaffFits(q), EndsApart => EndFits(q),
           r = Job /\ q.op = "end" => q.step # "save"
    PROVE  RolesIInv'
<1>1. RoleRows'
  BY DEF RolesIInv, RoleTables, RoleRows
<1>2. \A g \in Grants : grant[g].late = TRUE => grant'[g].late = TRUE
  OBVIOUS
<1>3. RoleTables'
  BY <1>1, <1>2, RoleTablesStay DEF RolesIInv
<1>4. /\ AdminsKept' /\ AccessKept' /\ StaffKept'
      /\ EndsApart' => EndsApart
      /\ EndsApart' => \A p \in WorkingOnRoles : EndFits(roleReq[p])'
  BY RowsAsTheyWere
<1>5. EndsKept'
  <2> SUFFICES ASSUME EndsApart'
               PROVE  /\ \A p \in job.left : EndFits(p)'
                      /\ \A p, s \in job.left :
                           p.step = "save" /\ s.step = "save" /\ p.grant = s.grant => p = s
                      /\ \A p \in job.left :
                           p.step = "save" /\ roleReq'[Job].op = "end" /\ roleReq'[Job].step = "save" =>
                              roleReq'[Job].grant # p.grant
    BY <1>4 DEF EndsKept
  <2>1. /\ \A p \in job.left : EndFits(p)
        /\ \A p, s \in job.left :
             p.step = "save" /\ s.step = "save" /\ p.grant = s.grant => p = s
        /\ \A p \in job.left :
             p.step = "save" /\ roleReq[Job].op = "end" /\ roleReq[Job].step = "save" =>
                roleReq[Job].grant # p.grant
    BY <1>4 DEF RolesIInv, EndsKept
  <2>2. \A p \in job.left : EndFits(p)'
    BY <2>1 DEF EndFits
  <2>3. roleReq'[Job] = IF r = Job THEN q ELSE roleReq[Job]
    BY DEF RolesIInv, RoleTables, WorkingOnRoles
  <2>4. \A p \in job.left :
             p.step = "save" /\ roleReq'[Job].op = "end" /\ roleReq'[Job].step = "save" =>
                roleReq'[Job].grant # p.grant
    <3>1. CASE r = Job
      BY <2>3, <3>1
    <3>2. CASE r # Job
      BY <2>1, <2>3, <3>2
    <3> QED BY <3>1, <3>2
  <2> QED BY <2>1, <2>2, <2>4
<1> QED BY <1>3, <1>4, <1>5 DEF RolesIInv

\* Requests that begin.
LEMMA BeginMeets ==
    ASSUME NEW r \in RoleRequests, NEW q, Begin(r, q)
    PROVE  /\ roleReq' = [roleReq EXCEPT ![r] = q] /\ met \subseteq met'
           /\ \A p \in RoleRequests : roleReq[p].op # "idle" => {q.op, roleReq[p].op} \in met'
           /\ job.phase # "idle" => {q.op, "end"} \in met'
<1>1. /\ roleReq' = [roleReq EXCEPT ![r] = q]
      /\ met' = met \cup {{q.op, op} : op \in UnderWay}
  BY DEF Begin
<1>2. \A p \in RoleRequests : roleReq[p].op # "idle" => roleReq[p].op \in UnderWay
  BY DEF UnderWay
<1>3. job.phase # "idle" => "end" \in UnderWay
  BY DEF UnderWay
<1> QED BY <1>1, <1>2, <1>3

LEMMA BeginningKeepsRoles ==
    ASSUME RolesIInv, NEW r \in RoleRequests,
           \/ \E by \in Adults \cup {Superuser}, a \in Adults, wanted \in SUBSET Roles :
                 SetRoles(r, by, a, wanted)
           \/ \E a \in Adults : RequestAccess(r, a)
           \/ \E g \in Grants, by \in Adults \cup {Superuser} : EndAccess(r, g, by)
    PROVE  RolesIInv'
<1>1. r \in WorkingOnRoles /\ r # Job
  BY RolesAssumption DEF WorkingOnRoles
<1>2. ASSUME NEW q \in RoleRequest, Begin(r, q), UNCHANGED <<roles, groups, grant, staff, job>>,
             IsLate(q), AdminsLeft(q), AccessFits(q), StaffFits(q), EndFits(q)
      PROVE  RolesIInv'
  <2>1. /\ roleReq' = [roleReq EXCEPT ![r] = q] /\ met \subseteq met'
        /\ \A p \in RoleRequests : roleReq[p].op # "idle" => {q.op, roleReq[p].op} \in met'
        /\ job.phase # "idle" => {q.op, "end"} \in met'
    BY <1>2, BeginMeets
  <2> QED BY <1>1, <1>2, <2>1, RequestKeepsRoles
<1>3. ASSUME NEW by \in Adults \cup {Superuser}, NEW a \in Adults, NEW wanted \in SUBSET Roles,
             SetRoles(r, by, a, wanted)
      PROVE  RolesIInv'
  <2> DEFINE q == [op |-> "roles", step |-> "write", account |-> a,
                   added |-> wanted \ roles[a], removed |-> roles[a] \ wanted]
  <2>1. Begin(r, q) /\ UNCHANGED <<roles, groups, grant, staff, job>>
    BY <1>3 DEF SetRoles
  <2>2. "admin" \in roles[a] \ wanted => OtherAdminThan(a)
    BY <1>3 DEF SetRoles
  <2>3. roles[a] \in SUBSET Roles
    BY DEF RolesIInv, RoleTables, RoleRows
  <2>4. q \in RoleRequest /\ q.op = "roles" /\ q.step = "write"
        /\ q.removed = roles[a] \ wanted /\ q.account = a
    BY <2>3 DEF RoleRequest, RolesToWrite
  <2> HIDE DEF q
  <2>5. IsLate(q) /\ AdminsLeft(q) /\ AccessFits(q) /\ StaffFits(q) /\ EndFits(q)
    BY <2>2, <2>4 DEF IsLate, AdminsLeft, AccessFits, StaffFits, EndFits
  <2> QED BY <1>2, <2>1, <2>4, <2>5
<1>4. ASSUME NEW a \in Adults, RequestAccess(r, a) PROVE RolesIInv'
  <2> DEFINE q == [op |-> "ask", account |-> a, hadStaff |-> a \in staff]
  <2>1. Begin(r, q) /\ UNCHANGED <<roles, groups, grant, staff, job>>
        /\ roles[a] # {} /\ OpenGrants(a) = {}
    BY <1>4 DEF RequestAccess
  <2>2. q \in RoleRequest /\ q.op = "ask" /\ q.account = a
    BY DEF RoleRequest, AskToCommit
  <2>3. q.hadStaff = TRUE => a \in staff
    OBVIOUS
  <2> HIDE DEF q
  <2>4. IsLate(q) /\ AdminsLeft(q) /\ AccessFits(q) /\ StaffFits(q) /\ EndFits(q)
    BY <2>1, <2>2, <2>3 DEF IsLate, AdminsLeft, AccessFits, StaffFits, EndFits
  <2> QED BY <1>2, <2>1, <2>2, <2>4
<1>5. ASSUME NEW g \in Grants, NEW by \in Adults \cup {Superuser}, EndAccess(r, g, by)
      PROVE  RolesIInv'
  <2>1. IsOpen(g) /\ UNCHANGED <<roles, groups, grant, staff, job>>
    BY <1>5 DEF EndAccess
  <2>2. PICK reason \in {"ended", "revoked"} :
          Begin(r, EndOf(g, reason, grant[g].account \in staff))
    BY <1>5 DEF EndAccess
  <2> DEFINE q == EndOf(g, reason, grant[g].account \in staff)
  <2>3. grant[g].account \in Adults /\ grant[g].end = "open"
    BY <2>1 DEF IsOpen, RolesIInv, RoleTables, RoleRows, GrantRow
  <2>4. q \in RoleRequest /\ q.op = "end" /\ q.step = "save" /\ q.grant = g /\ q.reason # "expired"
    BY <2>3 DEF RoleRequest, EndToSave, EndOf, EndReasons
  <2> HIDE DEF q
  <2>5. IsLate(q) /\ AdminsLeft(q) /\ AccessFits(q) /\ StaffFits(q) /\ EndFits(q)
    BY <2>3, <2>4 DEF IsLate, AdminsLeft, AccessFits, StaffFits, EndFits
  <2> QED BY <1>2, <2>1, <2>2, <2>4, <2>5 DEF q
<1> QED BY <1>3, <1>4, <1>5

\* A request goes on, or is over, and the rows stay as they are.
LEMMA GoingOnKeepsRoles ==
    ASSUME RolesIInv, NEW r \in WorkingOnRoles, NEW q \in RoleRequest,
           roleReq[r].op # "idle", q.op \in {"idle", roleReq[r].op},
           roleReq' = [roleReq EXCEPT ![r] = q], met' = met,
           UNCHANGED <<roles, groups, grant, staff, job>>,
           IsLate(q), RolesApart => AdminsLeft(q), AccessApart => AccessFits(q),
           StaffApart => StaffFits(q), EndsApart => EndFits(q),
           r = Job /\ q.op = "end" => q.step # "save"
    PROVE  RolesIInv'
<1>1. r = Job => q.op \in {"idle", "end"} /\ job.phase # "idle"
  BY DEF RolesIInv, RoleTables
<1>2. r # Job => r \in RoleRequests
  BY DEF WorkingOnRoles
<1>3. \A p \in RoleRequests : p # r /\ r # Job /\ q.op # "idle" /\ roleReq[p].op # "idle" =>
         {q.op, roleReq[p].op} \in met'
  BY <1>2 DEF RolesIInv, RoleTables
<1>4. r # Job /\ q.op # "idle" /\ job.phase # "idle" => {q.op, "end"} \in met'
  BY <1>2 DEF RolesIInv, RoleTables
<1> QED BY <1>1, <1>3, <1>4, RequestKeepsRoles

LEMMA WriteRolesKeeps ==
    ASSUME RolesIInv, NEW r \in WorkingOnRoles, WriteRoles(r)
    PROVE  RolesIInv'
<1> DEFINE q == roleReq[r]
           view == (roles[q.account] \cup q.added) \ q.removed
           ended == IF view = {} /\ OpenGrants(q.account) # {}
                    THEN {CHOOSE g \in OpenGrants(q.account) : TRUE} ELSE {}
<1>1. /\ q.op = "roles" /\ q.step = "write"
      /\ UNCHANGED <<roles, groups, grant, staff, job>>
      /\ Finish(r) \/ GoOn(r, Synced(q, view, ended))
  BY DEF WriteRoles, SyncOrganisationAccess
<1>2. q \in RolesToWrite
  <2>1. q \in RoleRequest
    BY DEF RolesIInv, RoleTables
  <2>2. q \in RolesToWrite \cup RolesToCommit
    BY <1>1, <2>1, RoleRequestShapes
  <2>3. q \notin RolesToCommit
    BY <1>1 DEF RolesToCommit
  <2> QED BY <2>2, <2>3
<1>3. CASE Finish(r)
  BY <1>1, <1>3, GoingOnKeepsRoles, IdleIsFree DEF Finish
<1>4. CASE GoOn(r, Synced(q, view, ended))
  <2>1. ended \subseteq OpenGrants(q.account) /\ OpenGrants(q.account) \subseteq Grants
    BY DEF OpenGrants
  <2>2. view \in SUBSET Roles
    BY <1>2 DEF RolesIInv, RoleTables, RoleRows, RolesToWrite
  <2>3. AccessApart /\ view = {} => OpenGrants(q.account) \subseteq ended
    <3>1. q.account \in Adults
      BY <1>2 DEF RolesToWrite
    <3>2. AccessApart => \A g, h \in OpenGrants(q.account) : g = h
      BY <3>1 DEF RolesIInv, AccessKept
    <3> HIDE DEF q, view
    <3> QED BY <3>2
  <2>4. RolesApart => AdminsLeft(q)
    BY DEF RolesIInv, AdminsKept
  <2>5. PICK new : new = Synced(q, view, ended)
    OBVIOUS
  <2> HIDE DEF view, ended
  <2>6. /\ new \in RoleRequest /\ new.op = "roles" /\ new.step = "commit"
        /\ new.account = q.account /\ new.removed = q.removed /\ new.added = q.added
        /\ new.view = view /\ new.ended = ended
        /\ new.needsStaff = FALSE => OpenGrants(q.account) \ ended = {}
    <3>1. new = [op |-> "roles", step |-> "commit", account |-> q.account, added |-> q.added,
                 removed |-> q.removed, view |-> view, ended |-> ended,
                 needsStaff |-> OpenGrants(q.account) \ ended # {}, hadStaff |-> q.account \in staff]
      BY <2>5 DEF Synced
    <3>2. q.account \in Adults /\ q.added \in SUBSET Roles /\ q.removed \in SUBSET Roles
      BY <1>2 DEF RolesToWrite
    <3> HIDE DEF q
    <3>3. new \in RolesToCommit
      BY <2>1, <2>2, <3>1, <3>2 DEF RolesToCommit
    <3> QED BY <3>1, <3>3 DEF RoleRequest
  <2>7. view = (roles[q.account] \cup q.added) \ q.removed
    BY DEF view
  <2>8. AdminsLeft(q) => AdminsLeft(new)
    BY <1>1, <2>6 DEF AdminsLeft
  <2>9. AccessApart => AccessFits(new)
    BY <2>3, <2>6, <2>7 DEF AccessFits
  <2>10. StaffFits(new) /\ IsLate(new)
    BY <2>6 DEF StaffFits, IsLate
  <2>11. EndFits(new)
    BY <2>1, <2>6 DEF EndFits, OpenGrants, IsOpen
  <2>12. roleReq' = [roleReq EXCEPT ![r] = new] /\ met' = met
    BY <1>4, <2>5 DEF GoOn
  <2>13. r = Job => roleReq[r].op # "roles"
    BY DEF RolesIInv, RoleTables
  <2> QED BY <1>1, <2>4, <2>6, <2>8, <2>9, <2>10, <2>11, <2>12, <2>13, GoingOnKeepsRoles
<1> QED BY <1>1, <1>3, <1>4

LEMMA SyncStaffKeeps ==
    ASSUME RolesIInv, NEW r \in WorkingOnRoles, SyncStaff(r)
    PROVE  RolesIInv'
<1> DEFINE q == roleReq[r]
           needs == OpenGrants(q.account) # {}
<1>1. /\ q.op = "end" /\ q.step = "sync"
      /\ UNCHANGED <<roles, groups, grant, staff, job>>
      /\ Finish(r) \/ GoOn(r, StaffDiffers(q, needs))
  BY DEF SyncStaff
<1>2. q \in StaffToCheck
  <2>1. q \in RoleRequest
    BY DEF RolesIInv, RoleTables
  <2>2. q \in EndToSave \cup StaffToCheck \cup StaffToSave
    BY <1>1, <2>1, RoleRequestShapes
  <2>3. q \notin EndToSave /\ q \notin StaffToSave
    BY <1>1 DEF EndToSave, StaffToSave
  <2> QED BY <2>2, <2>3
<1>3. CASE Finish(r)
  BY <1>1, <1>3, GoingOnKeepsRoles, IdleIsFree DEF Finish
<1>4. CASE GoOn(r, StaffDiffers(q, needs))
  <2>1. PICK new : new = StaffDiffers(q, needs)
    OBVIOUS
  <2>2. /\ new \in RoleRequest /\ new.op = "end" /\ new.step = "staff" /\ new.account = q.account
        /\ new.needsStaff = FALSE => OpenGrants(q.account) = {}
    <3>1. q.account \in Adults /\ q.hadStaff \in BOOLEAN
      BY <1>2 DEF StaffToCheck
    <3> HIDE DEF q
    <3>2. new \in StaffToSave
      BY <2>1, <3>1 DEF StaffToSave, StaffDiffers
    <3> QED BY <2>1, <3>2 DEF RoleRequest, StaffDiffers
  <2>3. roleReq' = [roleReq EXCEPT ![r] = new] /\ met' = met
    BY <1>4, <2>1 DEF GoOn
  <2>4. AdminsLeft(new) /\ AccessFits(new) /\ StaffFits(new) /\ EndFits(new) /\ IsLate(new)
    BY <2>2 DEF AdminsLeft, AccessFits, StaffFits, EndFits, IsLate
  <2> QED BY <1>1, <2>2, <2>3, <2>4, GoingOnKeepsRoles
<1> QED BY <1>1, <1>3, <1>4

\* Access that ends: what is open grows less.
LEMMA LessIsOpen ==
    ASSUME RolesIInv, UNCHANGED <<roles, met>>,
           \A g \in Grants : grant'[g].account = grant[g].account /\ (IsOpen(g)' => IsOpen(g)),
           \A p \in WorkingOnRoles : roleReq'[p] = roleReq[p] \/ roleReq'[p].op \in {"idle", "end"}
    PROVE  /\ AdminsKept' /\ AccessKept'
           /\ \A a : OpenGrants(a)' \subseteq OpenGrants(a)
<1>1. \A a : OpenGrants(a)' \subseteq OpenGrants(a)
  BY DEF OpenGrants
<1>2. AdminsKept'
  <2> SUFFICES ASSUME RolesApart
               PROVE  /\ \E a \in Adults : "admin" \in roles[a]
                      /\ \A p \in WorkingOnRoles : AdminsLeft(roleReq[p])'
    BY DEF AdminsKept, RolesApart
  <2> QED BY DEF RolesIInv, AdminsKept, AdminsLeft, OtherAdminThan
<1>3. AccessKept'
  <2> SUFFICES ASSUME AccessApart
               PROVE  /\ \A a \in Adults : roles[a] = {} => OpenGrants(a)' = {}
                      /\ \A a \in Adults : \A g, h \in OpenGrants(a)' : g = h
                      /\ \A p \in WorkingOnRoles : AccessFits(roleReq[p])'
    BY DEF AccessKept, AccessApart
  <2>1. /\ \A a \in Adults : roles[a] = {} => OpenGrants(a) = {}
        /\ \A a \in Adults : \A g, h \in OpenGrants(a) : g = h
        /\ \A p \in WorkingOnRoles : AccessFits(roleReq[p])
    BY DEF RolesIInv, AccessKept
  <2>2. ASSUME NEW p \in WorkingOnRoles PROVE AccessFits(roleReq[p])'
    <3>1. CASE roleReq'[p].op \in {"idle", "end"}
      BY <3>1 DEF AccessFits
    <3>2. CASE roleReq'[p] = roleReq[p]
      <4>1. AccessFits(roleReq[p])
        BY <2>1
      <4> QED BY <1>1, <3>2, <4>1 DEF AccessFits
    <3> QED BY <3>1, <3>2
  <2> QED BY <1>1, <2>1, <2>2
<1> QED BY <1>1, <1>2, <1>3

\* The request is over and the job is as it was: the tables need only the rows.
LEMMA OverKeepsRoleTables ==
    ASSUME RolesIInv, NEW r \in WorkingOnRoles, roleReq[r].op # "idle", RoleRows',
           roleReq' = [roleReq EXCEPT ![r] = Idle], job' = job, met' = met,
           \A g \in Grants : grant[g].late = TRUE => grant'[g].late = TRUE
    PROVE  /\ RoleTables'
           /\ \A p \in WorkingOnRoles : roleReq'[p] = IF p = r THEN Idle ELSE roleReq[p]
           /\ UNCHANGED <<RolesApart, AccessApart, StaffApart, EndsApart>>
<1>1. r = Job => Idle.op \in {"idle", "end"} /\ job.phase # "idle"
  BY IdleIsFree DEF RolesIInv, RoleTables
<1>2. RoleTables'
  BY <1>1, IdleIsFree, RoleTablesStay DEF RolesIInv
<1>3. \A p \in WorkingOnRoles : roleReq'[p] = IF p = r THEN Idle ELSE roleReq[p]
  BY DEF RolesIInv, RoleTables
<1>4. UNCHANGED <<RolesApart, AccessApart, StaffApart, EndsApart>>
  BY DEF RolesApart, AccessApart, StaffApart, EndsApart
<1> QED BY <1>2, <1>3, <1>4

LEMMA SaveStaffKeeps ==
    ASSUME RolesIInv, NEW r \in WorkingOnRoles, SaveStaff(r)
    PROVE  RolesIInv'
<1> DEFINE q == roleReq[r]
<1>1. /\ q.op = "end" /\ q.step = "staff" /\ roleReq' = [roleReq EXCEPT ![r] = Idle]
      /\ staff' = StaffSaved(q.account, q.hadStaff, q.needsStaff)
      /\ UNCHANGED <<roles, groups, grant, job, met>>
  BY DEF SaveStaff, Finish
<1>2. q \in StaffToSave
  <2>1. q \in RoleRequest
    BY DEF RolesIInv, RoleTables
  <2>2. q \in EndToSave \cup StaffToCheck \cup StaffToSave
    BY <1>1, <2>1, RoleRequestShapes
  <2>3. q \notin EndToSave /\ q \notin StaffToCheck
    BY <1>1 DEF EndToSave, StaffToCheck
  <2> QED BY <2>2, <2>3
<1>3. q.account \in Adults /\ q.needsStaff \in BOOLEAN
  BY <1>2 DEF StaffToSave
<1>4. StaffApart /\ q.needsStaff = FALSE => OpenGrants(q.account) = {}
  BY <1>1 DEF RolesIInv, StaffKept, StaffFits
<1>5. \A p \in WorkingOnRoles : p # r /\ StaffApart => roleReq[p].op # "ask"
  BY <1>1, RolesMet DEF RolesIInv
<1> HIDE DEF q
<1>6. /\ staff' \subseteq Adults
      /\ \A a : a \in staff => a \in staff' \/ (a = q.account /\ q.needsStaff = FALSE)
  BY <1>1, <1>3 DEF StaffSaved, RolesIInv, RoleTables, RoleRows
<1>7. RoleRows'
  BY <1>1, <1>6 DEF RolesIInv, RoleTables, RoleRows
<1>8. /\ RoleTables'
      /\ \A p \in WorkingOnRoles : roleReq'[p] = IF p = r THEN Idle ELSE roleReq[p]
      /\ UNCHANGED <<RolesApart, AccessApart, StaffApart, EndsApart>>
  BY <1>1, <1>7, OverKeepsRoleTables DEF q
<1>9. \A a : OpenGrants(a)' = OpenGrants(a)
  BY <1>1 DEF OpenGrants, IsOpen
<1>10. AdminsKept' /\ AccessKept'
  <2>1. \A g \in Grants : grant'[g].account = grant[g].account /\ (IsOpen(g)' => IsOpen(g))
    BY <1>1 DEF IsOpen
  <2> QED BY <1>1, <1>8, <2>1, IdleIsFree, LessIsOpen
<1>11. StaffKept'
  <2> SUFFICES ASSUME StaffApart
               PROVE  /\ \A a \in Adults : OpenGrants(a)' # {} => a \in staff'
                      /\ \A p \in WorkingOnRoles : StaffFits(roleReq[p])'
    BY <1>8 DEF StaffKept
  <2>1. /\ \A a \in Adults : OpenGrants(a) # {} => a \in staff
        /\ \A p \in WorkingOnRoles : StaffFits(roleReq[p])
    BY DEF RolesIInv, StaffKept
  <2>2. \A a \in Adults : OpenGrants(a)' # {} => a \in staff'
    BY <1>4, <1>6, <1>9, <2>1
  <2>3. ASSUME NEW p \in WorkingOnRoles PROVE StaffFits(roleReq[p])'
    <3>1. CASE p = r
      BY <1>8, <3>1, IdleIsFree DEF StaffFits
    <3>2. CASE p # r
      <4>1. roleReq'[p] = roleReq[p] /\ roleReq[p].op # "ask" /\ StaffFits(roleReq[p])
        BY <1>5, <1>8, <2>1, <3>2
      <4> QED BY <1>9, <4>1 DEF StaffFits
    <3> QED BY <3>1, <3>2
  <2> QED BY <2>2, <2>3
<1>12. EndsKept'
  <2> SUFFICES ASSUME EndsApart PROVE EndsKept'
    BY <1>8 DEF EndsKept
  <2>1. \A p \in WorkingOnRoles : EndFits(roleReq[p])'
    BY <1>1, <1>8, IdleIsFree DEF RolesIInv, EndsKept, EndFits
  <2>2. roleReq'[Job] = roleReq[Job] \/ roleReq'[Job].op = "idle"
    BY <1>8, IdleIsFree DEF WorkingOnRoles
  <2> QED BY <1>1, <2>1, <2>2 DEF RolesIInv, EndsKept, EndFits
<1> QED BY <1>8, <1>10, <1>11, <1>12 DEF RolesIInv

LEMMA SaveEndKeeps ==
    ASSUME RolesIInv, NEW r \in WorkingOnRoles, SaveEnd(r)
    PROVE  RolesIInv'
<1> DEFINE q == roleReq[r]
           new == [op |-> "end", step |-> "sync", account |-> q.account, hadStaff |-> q.hadStaff]
<1>1. /\ q.op = "end" /\ q.step = "save"
      /\ UNCHANGED <<roles, groups, staff, job>>
      /\ \/ Finish(r) /\ UNCHANGED grant
         \/ /\ grant' = [grant EXCEPT ![q.grant].end = q.reason]
            /\ roleReq' = [roleReq EXCEPT ![r] = new] /\ met' = met
  BY DEF SaveEnd, GoOn
<1>2. CASE Finish(r) /\ UNCHANGED grant
  BY <1>1, <1>2, GoingOnKeepsRoles, IdleIsFree DEF Finish
<1>3. CASE /\ grant' = [grant EXCEPT ![q.grant].end = q.reason]
           /\ roleReq' = [roleReq EXCEPT ![r] = new] /\ met' = met
  <2>1. q \in EndToSave
    <3>1. q \in RoleRequest
      BY DEF RolesIInv, RoleTables
    <3>2. q \in EndToSave \cup StaffToCheck \cup StaffToSave
      BY <1>1, <3>1, RoleRequestShapes
    <3>3. q \notin StaffToSave /\ q \notin StaffToCheck
      BY <1>1 DEF StaffToSave, StaffToCheck
    <3> QED BY <3>2, <3>3
  <2>2. q.account \in Adults /\ q.grant \in Grants /\ q.reason \in EndReasons /\ q.hadStaff \in BOOLEAN
    BY <2>1 DEF EndToSave
  <2>3. q.reason = "expired" => grant[q.grant].late
    BY <1>1 DEF RolesIInv, RoleTables, IsLate
  <2>4. EndsApart => \A p \in WorkingOnRoles : p # r => roleReq[p].op \notin {"end", "roles"}
    BY <1>1, RolesMet DEF RolesIInv
  <2>5. EndsApart /\ r # Job => job.left = {}
    <3>1. r # Job => r \in RoleRequests
      BY DEF WorkingOnRoles
    <3>2. EndsApart /\ r # Job => job.phase = "idle"
      BY <1>1, <3>1, JobMet DEF RolesIInv
    <3> QED BY <3>2 DEF RolesIInv, RoleTables
  <2> HIDE DEF q
  <2>6. new \in StaffToCheck /\ new \in RoleRequest /\ new.op = "end" /\ new.step = "sync"
    BY <2>2 DEF StaffToCheck, RoleRequest
  <2> HIDE DEF new
  <2>7. PICK row : row = [grant[q.grant] EXCEPT !.end = q.reason]
    OBVIOUS
  <2>8. /\ row \in GrantRow /\ row.end = q.reason /\ row.account = grant[q.grant].account
        /\ row.late = grant[q.grant].late
    BY <2>2, <2>7 DEF RolesIInv, RoleTables, RoleRows, GrantRow
  <2>9. /\ grant' \in [Grants -> GrantRow]
        /\ \A g \in Grants : grant'[g] = IF g = q.grant THEN row ELSE grant[g]
    BY <1>3, <2>2, <2>7, <2>8 DEF RolesIInv, RoleTables, RoleRows
  <2>10. \A g \in Grants : /\ grant'[g].account = grant[g].account /\ grant'[g].late = grant[g].late
                           /\ IsOpen(g)' => IsOpen(g)
    <3>1. q.reason # "open"
      BY <2>2 DEF EndReasons
    <3> QED BY <2>8, <2>9, <3>1 DEF IsOpen
  <2>11. RoleRows'
    <3>1. \A g \in Grants : grant'[g].end = "expired" => grant'[g].late
      BY <2>3, <2>8, <2>9 DEF RolesIInv, RoleTables, RoleRows
    <3> QED BY <1>1, <2>9, <3>1 DEF RolesIInv, RoleTables, RoleRows
  <2>12. RoleTables'
    <3>1. r = Job => new.op \in {"idle", "end"} /\ job.phase # "idle"
      BY <1>1, <2>6 DEF RolesIInv, RoleTables, q
    <3>2. \A p \in RoleRequests : p # r /\ r # Job /\ new.op # "idle" /\ roleReq[p].op # "idle" =>
             {new.op, roleReq[p].op} \in met'
      BY <1>1, <1>3, <2>6 DEF RolesIInv, RoleTables, WorkingOnRoles, q
    <3>3. r # Job /\ new.op # "idle" /\ job.phase # "idle" => {new.op, "end"} \in met'
      BY <1>1, <1>3, <2>6 DEF RolesIInv, RoleTables, WorkingOnRoles, q
    <3>4. IsLate(new)
      BY <2>6 DEF IsLate
    <3> QED BY <1>1, <1>3, <2>6, <2>10, <2>11, <3>1, <3>2, <3>3, <3>4, RoleTablesStay DEF RolesIInv
  <2>13. /\ \A p \in WorkingOnRoles : roleReq'[p] = IF p = r THEN new ELSE roleReq[p]
         /\ UNCHANGED <<RolesApart, AccessApart, StaffApart, EndsApart>>
    BY <1>3 DEF RolesIInv, RoleTables, RolesApart, AccessApart, StaffApart, EndsApart
  <2>14. AdminsKept' /\ AccessKept' /\ \A a : OpenGrants(a)' \subseteq OpenGrants(a)
    BY <1>1, <1>3, <2>6, <2>10, <2>13, LessIsOpen
  <2>15. StaffKept'
    <3> SUFFICES ASSUME StaffApart
                 PROVE  /\ \A a \in Adults : OpenGrants(a)' # {} => a \in staff'
                        /\ \A p \in WorkingOnRoles : StaffFits(roleReq[p])'
      BY <2>13 DEF StaffKept
    <3>1. /\ \A a \in Adults : OpenGrants(a) # {} => a \in staff
          /\ \A p \in WorkingOnRoles : StaffFits(roleReq[p])
      BY DEF RolesIInv, StaffKept
    <3>2. \A p \in WorkingOnRoles : StaffFits(roleReq'[p])
      BY <2>6, <2>13, <3>1 DEF StaffFits
    <3>3. \A p \in WorkingOnRoles : StaffFits(roleReq[p])'
      BY <1>1, <2>14, <3>2 DEF StaffFits
    <3> QED BY <1>1, <2>14, <3>1, <3>3
  <2>16. EndsKept'
    <3> SUFFICES ASSUME EndsApart PROVE EndsKept'
      BY <2>13 DEF EndsKept
    <3>1. \A p \in WorkingOnRoles : roleReq'[p].op = "end" /\ roleReq'[p].step = "save" => FALSE
      BY <2>4, <2>6, <2>13
    <3>2. \A p \in WorkingOnRoles : EndFits(roleReq[p])'
      <4>1. \A p \in WorkingOnRoles : roleReq'[p].op # "roles"
        BY <2>4, <2>6, <2>13
      <4> QED BY <3>1, <4>1 DEF EndFits
    <3>3. ASSUME NEW p \in job.left PROVE EndFits(p)'
      <4>1. r = Job /\ EndFits(p)
        BY <2>5, <3>3 DEF RolesIInv, EndsKept
      <4>2. p \in EndToSave \/ p \in StaffToCheck
        BY <3>3 DEF RolesIInv, RoleTables
      <4>3. CASE p \in StaffToCheck
        BY <4>3 DEF StaffToCheck, EndFits
      <4>4. CASE p \in EndToSave
        <5>1. p.grant \in Grants /\ p.step = "save" /\ p.op = "end"
          BY <4>4 DEF EndToSave
        <5>2. p.grant # q.grant
          BY <1>1, <3>3, <4>1, <5>1 DEF RolesIInv, EndsKept, q
        <5> QED BY <2>9, <4>1, <5>1, <5>2 DEF EndFits
      <4> QED BY <4>2, <4>3, <4>4
    <3>4. \A p, s \in job.left : p.step = "save" /\ s.step = "save" /\ p.grant = s.grant => p = s
      BY DEF RolesIInv, EndsKept
    <3> QED BY <1>1, <3>1, <3>2, <3>3, <3>4 DEF EndsKept, WorkingOnRoles
  <2> QED BY <2>12, <2>14, <2>15, <2>16 DEF RolesIInv
<1> QED BY <1>1, <1>2, <1>3

LEMMA TimeIsUpKeeps ==
    ASSUME RolesIInv, NEW n \in Grants, TimeIsUp(n)
    PROVE  RolesIInv'
<1>1. /\ IsOpen(n) /\ grant' = [grant EXCEPT ![n].late = TRUE]
      /\ UNCHANGED <<roles, groups, staff, roleReq, job, met>>
  BY DEF TimeIsUp
<1>2. PICK row : row = [grant[n] EXCEPT !.late = TRUE]
  OBVIOUS
<1>3. /\ row \in GrantRow /\ row.late = TRUE /\ row.account = grant[n].account /\ row.end = grant[n].end
  BY <1>2 DEF RolesIInv, RoleTables, RoleRows, GrantRow
<1>4. /\ grant' \in [Grants -> GrantRow]
      /\ \A g \in Grants : grant'[g] = IF g = n THEN row ELSE grant[g]
  BY <1>1, <1>2, <1>3 DEF RolesIInv, RoleTables, RoleRows
<1>5. \A g \in Grants : /\ grant'[g].account = grant[g].account /\ grant'[g].end = grant[g].end
                        /\ grant[g].late = TRUE => grant'[g].late = TRUE
                        /\ IsOpen(g)' => IsOpen(g)
  BY <1>1, <1>3, <1>4 DEF IsOpen
<1>6. RoleRows'
  <2>1. \A g \in Grants : grant'[g].end = "expired" => grant'[g].late
    BY <1>3, <1>4 DEF RolesIInv, RoleTables, RoleRows
  <2> QED BY <1>1, <1>4, <2>1 DEF RolesIInv, RoleTables, RoleRows
<1>7. Job \in WorkingOnRoles
  BY DEF WorkingOnRoles
<1>8. roleReq[Job] \in RoleRequest /\ IsLate(roleReq[Job]) /\ roleReq[Job].op \in {"idle", "end"}
  BY <1>7 DEF RolesIInv, RoleTables
<1>9. \A p \in RoleRequest \cup job.left : IsLate(p) => IsLate(p)'
  <2> SUFFICES ASSUME NEW p \in RoleRequest \cup job.left, IsLate(p),
                      p.op = "end", p.step = "save", p.reason = "expired"
               PROVE  grant'[p.grant].late
    BY DEF IsLate
  <2>1. p \in EndToSave
    <3>1. p \in EndToSave \cup StaffToCheck \cup StaffToSave
      BY RoleRequestShapes DEF RolesIInv, RoleTables
    <3> QED BY <3>1 DEF StaffToCheck, StaffToSave
  <2>2. p.grant \in Grants /\ grant[p.grant].late
    BY <2>1 DEF EndToSave, IsLate
  <2> QED BY <1>3, <1>4, <2>2
<1>10. RoleTables'
  <2>1. \A p \in WorkingOnRoles : IsLate(roleReq[p])'
    <3>1. \A p \in WorkingOnRoles : roleReq[p] \in RoleRequest /\ IsLate(roleReq[p])
      BY DEF RolesIInv, RoleTables
    <3> QED BY <1>1, <1>9, <3>1 DEF IsLate
  <2>2. \A p \in job.left : IsLate(p)'
    BY <1>9 DEF RolesIInv, RoleTables
  <2> QED BY <1>1, <1>6, <2>1, <2>2 DEF RolesIInv, RoleTables
<1>11. AdminsKept' /\ AccessKept' /\ \A a : OpenGrants(a)' \subseteq OpenGrants(a)
  BY <1>1, <1>5, LessIsOpen
<1>12. StaffKept'
  <2> SUFFICES ASSUME StaffApart
               PROVE  /\ \A a \in Adults : OpenGrants(a)' # {} => a \in staff'
                      /\ \A p \in WorkingOnRoles : StaffFits(roleReq[p])'
    BY <1>1 DEF StaffKept, StaffApart
  <2>1. /\ \A a \in Adults : OpenGrants(a) # {} => a \in staff
        /\ \A p \in WorkingOnRoles : StaffFits(roleReq[p])
    BY DEF RolesIInv, StaffKept
  <2>2. \A p \in WorkingOnRoles : StaffFits(roleReq[p])'
    BY <1>1, <1>11, <2>1 DEF StaffFits
  <2> QED BY <1>1, <1>11, <2>1, <2>2
<1>13. EndsKept'
  <2> SUFFICES ASSUME EndsApart
               PROVE  /\ \A p \in WorkingOnRoles : EndFits(roleReq[p])'
                      /\ \A p \in job.left : EndFits(p)'
    BY <1>1 DEF RolesIInv, EndsKept, EndsApart
  <2>1. ASSUME NEW p \in RoleRequest \cup job.left, EndFits(p) PROVE EndFits(p)'
    <3>1. p \in RoleRequest
      BY DEF RolesIInv, RoleTables, RoleRequest
    <3>2. CASE p.op = "end" /\ p.step = "save"
      <4>1. p \in EndToSave
        BY <3>1, <3>2, RoleRequestShapes DEF StaffToCheck, StaffToSave
      <4>2. p.grant \in Grants /\ grant[p.grant].end = "open"
        BY <2>1, <3>2, <4>1 DEF EndFits, EndToSave
      <4> QED BY <1>5, <3>2, <4>2 DEF EndFits
    <3>3. CASE p.op = "roles" /\ p.step = "commit"
      <4>1. p \in RolesToCommit
        BY <3>1, <3>3, RoleRequestShapes DEF RolesToWrite
      <4>2. p.ended \subseteq Grants /\ \A g \in p.ended : grant[g].end \in {"open", "role_removed"}
        BY <2>1, <3>3, <4>1 DEF EndFits, RolesToCommit
      <4> QED BY <1>5, <3>3, <4>2 DEF EndFits
    <3>4. CASE ~(p.op = "end" /\ p.step = "save") /\ ~(p.op = "roles" /\ p.step = "commit")
      BY <3>4 DEF EndFits
    <3> QED BY <3>2, <3>3, <3>4
  <2>2. ASSUME NEW p \in WorkingOnRoles PROVE EndFits(roleReq[p])'
    <3>1. roleReq[p] \in RoleRequest /\ EndFits(roleReq[p])
      BY DEF RolesIInv, RoleTables, EndsKept
    <3>2. PICK q \in RoleRequest : q = roleReq[p]
      BY <3>1
    <3>3. EndFits(q)'
      BY <2>1, <3>1, <3>2
    <3> QED BY <1>1, <3>2, <3>3 DEF EndFits
  <2>3. \A p \in job.left : EndFits(p)'
    BY <2>1 DEF RolesIInv, EndsKept
  <2> QED BY <2>2, <2>3
<1> QED BY <1>10, <1>11, <1>12, <1>13 DEF RolesIInv

LEMMA CommitAccessKeeps ==
    ASSUME RolesIInv, NEW r \in WorkingOnRoles, CommitAccess(r)
    PROVE  RolesIInv'
<1> DEFINE q == roleReq[r]
<1>1. /\ q.op = "ask" /\ roleReq' = [roleReq EXCEPT ![r] = Idle]
      /\ staff' = StaffSaved(q.account, q.hadStaff, TRUE)
      /\ UNCHANGED <<roles, groups, job, met>>
  BY DEF CommitAccess, Finish
<1>2. PICK n \in Grants : grant[n].account = Nobody /\ grant' = [grant EXCEPT ![n].account = q.account]
  BY DEF CommitAccess
<1>3. q.account \in Adults /\ q.hadStaff \in BOOLEAN
  <2>1. q \in AskToCommit
    BY <1>1, RoleRequestShapes DEF RolesIInv, RoleTables
  <2> QED BY <2>1 DEF AskToCommit
<1>4. AccessApart => /\ roles[q.account] # {} /\ OpenGrants(q.account) = {}
                     /\ \A p \in WorkingOnRoles : p # r => roleReq[p].op \notin {"ask", "roles"}
  <2>1. AccessApart => roles[q.account] # {} /\ OpenGrants(q.account) = {}
    BY <1>1 DEF RolesIInv, AccessKept, AccessFits
  <2>2. AccessApart => \A p \in WorkingOnRoles : p # r => roleReq[p].op \notin {"ask", "roles"}
    BY <1>1, RolesMet DEF RolesIInv
  <2> QED BY <2>1, <2>2
<1>5. StaffApart => /\ q.hadStaff = TRUE => q.account \in staff
                    /\ \A p \in WorkingOnRoles : p # r => roleReq[p].op \notin {"end", "roles"}
  <2>1. StaffApart /\ q.hadStaff = TRUE => q.account \in staff
    BY <1>1 DEF RolesIInv, StaffKept, StaffFits
  <2>2. StaffApart => \A p \in WorkingOnRoles : p # r => roleReq[p].op \notin {"end", "roles"}
    BY <1>1, RolesMet DEF RolesIInv
  <2> QED BY <2>1, <2>2
<1> HIDE DEF q
<1>6. /\ staff \subseteq staff' /\ staff' \subseteq Adults
      /\ StaffApart => q.account \in staff'
  BY <1>1, <1>3, <1>5 DEF StaffSaved, RolesIInv, RoleTables, RoleRows
<1>7. PICK row : row = [grant[n] EXCEPT !.account = q.account]
  OBVIOUS
<1>8. /\ row \in GrantRow /\ row.account = q.account /\ row.end = grant[n].end /\ row.late = grant[n].late
  BY <1>3, <1>7 DEF RolesIInv, RoleTables, RoleRows, GrantRow
<1>9. /\ grant' \in [Grants -> GrantRow]
      /\ \A g \in Grants : grant'[g] = IF g = n THEN row ELSE grant[g]
  BY <1>2, <1>7, <1>8 DEF RolesIInv, RoleTables, RoleRows
<1>10. \A g \in Grants : grant'[g].end = grant[g].end /\ grant'[g].late = grant[g].late
  BY <1>8, <1>9
<1>11. RoleRows'
  <2>1. \A g \in Grants : grant'[g].end = "expired" => grant'[g].late
    BY <1>10 DEF RolesIInv, RoleTables, RoleRows
  <2> QED BY <1>1, <1>6, <1>9, <2>1 DEF RolesIInv, RoleTables, RoleRows
<1>12. /\ RoleTables'
       /\ \A p \in WorkingOnRoles : roleReq'[p] = IF p = r THEN Idle ELSE roleReq[p]
       /\ UNCHANGED <<RolesApart, AccessApart, StaffApart, EndsApart>>
  <2>1. \A g \in Grants : grant[g].late = TRUE => grant'[g].late = TRUE
    BY <1>10
  <2> QED BY <1>1, <1>11, <2>1, OverKeepsRoleTables DEF q
<1>13. \A a \in Adults : OpenGrants(a)' \subseteq OpenGrants(a) \/ (a = q.account /\ OpenGrants(a)' \subseteq OpenGrants(a) \cup {n})
  <2> SUFFICES ASSUME NEW a \in Adults
               PROVE  /\ OpenGrants(a)' \subseteq OpenGrants(a) \cup {n}
                      /\ a # q.account => n \notin OpenGrants(a)'
    OBVIOUS
  <2>1. OpenGrants(a)' \subseteq OpenGrants(a) \cup {n}
    BY <1>9 DEF OpenGrants, IsOpen
  <2>2. a # q.account => n \notin OpenGrants(a)'
    BY <1>8, <1>9 DEF OpenGrants
  <2> QED BY <2>1, <2>2
<1>14. AdminsKept'
  <2> SUFFICES ASSUME RolesApart
               PROVE  /\ \E a \in Adults : "admin" \in roles'[a]
                      /\ \A p \in WorkingOnRoles : AdminsLeft(roleReq[p])'
    BY <1>12 DEF AdminsKept
  <2>1. \A p \in WorkingOnRoles : AdminsLeft(roleReq'[p])
    BY <1>12, IdleIsFree DEF RolesIInv, AdminsKept
  <2> QED BY <1>1, <2>1 DEF RolesIInv, AdminsKept, AdminsLeft, OtherAdminThan
<1>15. AccessKept'
  <2> SUFFICES ASSUME AccessApart
               PROVE  /\ \A a \in Adults : roles[a] = {} => OpenGrants(a)' = {}
                      /\ \A a \in Adults : \A g, h \in OpenGrants(a)' : g = h
                      /\ \A p \in WorkingOnRoles : AccessFits(roleReq[p])'
    BY <1>1, <1>12 DEF AccessKept
  <2>1. /\ \A a \in Adults : roles[a] = {} => OpenGrants(a) = {}
        /\ \A a \in Adults : \A g, h \in OpenGrants(a) : g = h
    BY DEF RolesIInv, AccessKept
  <2>2. \A p \in WorkingOnRoles : AccessFits(roleReq[p])'
    BY <1>4, <1>12, IdleIsFree DEF AccessFits
  <2>3. \A a \in Adults : roles[a] = {} => OpenGrants(a)' = {}
    BY <1>4, <1>13, <2>1
  <2>4. \A a \in Adults : \A g, h \in OpenGrants(a)' : g = h
    BY <1>4, <1>13, <2>1
  <2> QED BY <2>2, <2>3, <2>4
<1>16. StaffKept'
  <2> SUFFICES ASSUME StaffApart
               PROVE  /\ \A a \in Adults : OpenGrants(a)' # {} => a \in staff'
                      /\ \A p \in WorkingOnRoles : StaffFits(roleReq[p])'
    BY <1>12 DEF StaffKept
  <2>1. /\ \A a \in Adults : OpenGrants(a) # {} => a \in staff
        /\ \A p \in WorkingOnRoles : StaffFits(roleReq[p])
    BY DEF RolesIInv, StaffKept
  <2>2. \A a \in Adults : OpenGrants(a)' # {} => a \in staff'
    BY <1>6, <1>13, <2>1
  <2>3. ASSUME NEW p \in WorkingOnRoles PROVE StaffFits(roleReq[p])'
    <3>1. CASE p = r
      BY <1>12, <3>1, IdleIsFree DEF StaffFits
    <3>2. CASE p # r
      <4>1. roleReq'[p] = roleReq[p] /\ roleReq[p].op \notin {"end", "roles"} /\ StaffFits(roleReq[p])
        BY <1>5, <1>12, <2>1, <3>2
      <4> QED BY <1>6, <4>1 DEF StaffFits
    <3> QED BY <3>1, <3>2
  <2> QED BY <2>2, <2>3
<1>17. EndsKept'
  <2> SUFFICES ASSUME EndsApart PROVE EndsKept'
    BY <1>12 DEF EndsKept
  <2>1. ASSUME NEW p \in RoleRequest \cup job.left, EndFits(p) PROVE EndFits(p)'
    <3>1. p \in RoleRequest
      BY DEF RolesIInv, RoleTables, RoleRequest
    <3>2. CASE p.op = "end" /\ p.step = "save"
      <4>1. p \in EndToSave
        BY <3>1, <3>2, RoleRequestShapes DEF StaffToCheck, StaffToSave
      <4>2. p.grant \in Grants /\ grant[p.grant].end = "open"
        BY <2>1, <3>2, <4>1 DEF EndFits, EndToSave
      <4> QED BY <1>10, <3>2, <4>2 DEF EndFits
    <3>3. CASE p.op = "roles" /\ p.step = "commit"
      <4>1. p \in RolesToCommit
        BY <3>1, <3>3, RoleRequestShapes DEF RolesToWrite
      <4>2. p.ended \subseteq Grants /\ \A g \in p.ended : grant[g].end \in {"open", "role_removed"}
        BY <2>1, <3>3, <4>1 DEF EndFits, RolesToCommit
      <4> QED BY <1>10, <3>3, <4>2 DEF EndFits
    <3>4. CASE ~(p.op = "end" /\ p.step = "save") /\ ~(p.op = "roles" /\ p.step = "commit")
      BY <3>4 DEF EndFits
    <3> QED BY <3>2, <3>3, <3>4
  <2>2. ASSUME NEW p \in WorkingOnRoles PROVE EndFits(roleReq[p])'
    <3>1. CASE p = r
      BY <1>12, <3>1, IdleIsFree DEF EndFits
    <3>2. CASE p # r
      <4>1. roleReq'[p] = roleReq[p] /\ roleReq[p] \in RoleRequest /\ EndFits(roleReq[p])
        BY <1>12, <3>2 DEF RolesIInv, RoleTables, EndsKept
      <4>2. PICK s \in RoleRequest : s = roleReq[p]
        BY <4>1
      <4>3. EndFits(s)'
        BY <2>1, <4>1, <4>2
      <4> QED BY <4>1, <4>2, <4>3 DEF EndFits
    <3> QED BY <3>1, <3>2
  <2>3. \A p \in job.left : EndFits(p)'
    BY <2>1 DEF RolesIInv, EndsKept
  <2>4. r # Job
    BY <1>1 DEF RolesIInv, RoleTables, q
  <2>5. roleReq'[Job] = roleReq[Job]
    BY <1>12, <2>4 DEF WorkingOnRoles
  <2> QED BY <1>1, <2>2, <2>3, <2>5 DEF RolesIInv, EndsKept
<1> QED BY <1>12, <1>14, <1>15, <1>16, <1>17 DEF RolesIInv

LEMMA CommitRolesKeeps ==
    ASSUME RolesIInv, NEW r \in WorkingOnRoles, CommitRoles(r)
    PROVE  RolesIInv'
<1> DEFINE q == roleReq[r]
<1>1. /\ q.op = "roles" /\ q.step = "commit" /\ roleReq' = [roleReq EXCEPT ![r] = Idle]
      /\ roles' = [roles EXCEPT ![q.account] = (@ \cup q.added) \ q.removed]
      /\ groups' = [groups EXCEPT ![q.account] = q.view]
      /\ grant' = [g \in Grants |->
                     IF g \in q.ended THEN [grant[g] EXCEPT !.end = "role_removed"] ELSE grant[g]]
      /\ staff' = StaffSaved(q.account, q.hadStaff, q.needsStaff)
      /\ UNCHANGED <<job, met>>
  BY DEF CommitRoles, Finish
<1>2. q \in RolesToCommit /\ r # Job
  <2>1. q \in RolesToWrite \cup RolesToCommit
    BY <1>1, RoleRequestShapes DEF RolesIInv, RoleTables
  <2>2. q \notin RolesToWrite
    BY <1>1 DEF RolesToWrite
  <2>3. r # Job
    BY <1>1 DEF RolesIInv, RoleTables
  <2> QED BY <2>1, <2>2, <2>3
<1>3. /\ q.account \in Adults /\ q.added \subseteq Roles /\ q.removed \subseteq Roles
      /\ q.view \subseteq Roles /\ q.needsStaff \in BOOLEAN
  BY <1>2 DEF RolesToCommit
<1>4. RolesApart => /\ "admin" \in q.removed => OtherAdminThan(q.account)
                    /\ \A p \in WorkingOnRoles : p # r => roleReq[p].op # "roles"
  <2>1. RolesApart /\ "admin" \in q.removed => OtherAdminThan(q.account)
    BY <1>1 DEF RolesIInv, AdminsKept, AdminsLeft
  <2>2. RolesApart => \A p \in WorkingOnRoles : p # r => roleReq[p].op # "roles"
    BY <1>1, RolesMet DEF RolesIInv
  <2> QED BY <2>1, <2>2
<1>5. AccessApart => /\ q.view = (roles[q.account] \cup q.added) \ q.removed
                     /\ q.view = {} => OpenGrants(q.account) \subseteq q.ended
                     /\ \A p \in WorkingOnRoles : p # r => roleReq[p].op \notin {"ask", "roles"}
  <2>1. AccessApart => AccessFits(q)
    BY DEF RolesIInv, AccessKept
  <2>2. AccessApart => \A p \in WorkingOnRoles : p # r => roleReq[p].op \notin {"ask", "roles"}
    BY <1>1, RolesMet DEF RolesIInv
  <2> QED BY <1>1, <2>1, <2>2 DEF AccessFits
<1>6. StaffApart => /\ q.needsStaff = FALSE => OpenGrants(q.account) \subseteq q.ended
                    /\ \A p \in WorkingOnRoles : p # r => roleReq[p].op # "ask"
  <2>1. StaffApart => StaffFits(q)
    BY DEF RolesIInv, StaffKept
  <2>2. StaffApart => \A p \in WorkingOnRoles : p # r => roleReq[p].op # "ask"
    BY <1>1, RolesMet DEF RolesIInv
  <2> QED BY <1>1, <2>1, <2>2 DEF StaffFits
<1>7. EndsApart => /\ \A g \in q.ended : grant[g].end \in {"open", "role_removed"}
                   /\ \A p \in WorkingOnRoles : p # r => roleReq[p].op # "end"
                   /\ job.left = {}
  <2>1. EndsApart => EndFits(q)
    BY DEF RolesIInv, EndsKept
  <2>2. EndsApart => \A p \in WorkingOnRoles : p # r => roleReq[p].op # "end"
    BY <1>1, RolesMet DEF RolesIInv
  <2>3. EndsApart => job.phase = "idle"
    BY <1>1, <1>2, JobMet DEF RolesIInv, WorkingOnRoles
  <2>4. EndsApart => job.left = {}
    BY <2>3 DEF RolesIInv, RoleTables
  <2> QED BY <1>1, <2>1, <2>2, <2>4 DEF EndFits
<1> HIDE DEF q
<1>8. ASSUME NEW g \in Grants
      PROVE  /\ grant'[g] \in GrantRow
             /\ grant'[g].account = grant[g].account /\ grant'[g].late = grant[g].late
             /\ grant'[g].end = IF g \in q.ended THEN "role_removed" ELSE grant[g].end
  <2>1. grant[g] \in GrantRow
    BY DEF RolesIInv, RoleTables, RoleRows
  <2>2. PICK row : row = [grant[g] EXCEPT !.end = "role_removed"]
    OBVIOUS
  <2>3. /\ row \in GrantRow /\ row.end = "role_removed" /\ row.account = grant[g].account
        /\ row.late = grant[g].late
    BY <2>1, <2>2 DEF GrantRow, EndReasons
  <2>4. grant'[g] = IF g \in q.ended THEN row ELSE grant[g]
    BY <1>1, <2>2
  <2> QED BY <2>1, <2>3, <2>4
<1>9. \A a : /\ OpenGrants(a)' \subseteq OpenGrants(a) \ q.ended
  BY <1>8 DEF OpenGrants, IsOpen
<1>10. /\ staff' \subseteq Adults
       /\ \A a : a \in staff => a \in staff' \/ (a = q.account /\ q.needsStaff = FALSE)
  BY <1>1, <1>3 DEF StaffSaved, RolesIInv, RoleTables, RoleRows
<1>11. /\ roles' \in [Adults -> SUBSET Roles] /\ groups' \in [Adults -> SUBSET Roles]
       /\ \A a \in Adults : roles'[a] = IF a = q.account THEN (roles[a] \cup q.added) \ q.removed
                                        ELSE roles[a]
  BY <1>1, <1>3 DEF RolesIInv, RoleTables, RoleRows
<1>12. RoleRows'
  <2>1. grant' \in [Grants -> GrantRow]
    <3>1. DOMAIN grant' = Grants /\ grant' = [g \in Grants |-> grant'[g]]
      BY <1>1
    <3> QED BY <1>8, <3>1
  <2>2. \A g \in Grants : grant'[g].end = "expired" => grant'[g].late
    BY <1>8 DEF RolesIInv, RoleTables, RoleRows
  <2> QED BY <1>10, <1>11, <2>1, <2>2 DEF RoleRows
<1>13. /\ RoleTables'
       /\ \A p \in WorkingOnRoles : roleReq'[p] = IF p = r THEN Idle ELSE roleReq[p]
       /\ UNCHANGED <<RolesApart, AccessApart, StaffApart, EndsApart>>
  <2>1. \A g \in Grants : grant[g].late = TRUE => grant'[g].late = TRUE
    BY <1>8
  <2>2. roleReq[r].op # "idle"
    BY <1>1 DEF q
  <2> QED BY <1>1, <1>12, <2>1, <2>2, OverKeepsRoleTables
<1>14. AdminsKept'
  <2> SUFFICES ASSUME RolesApart
               PROVE  /\ \E a \in Adults : "admin" \in roles'[a]
                      /\ \A p \in WorkingOnRoles : AdminsLeft(roleReq[p])'
    BY <1>13 DEF AdminsKept
  <2>1. \E a \in Adults : "admin" \in roles'[a]
    <3>1. CASE "admin" \in q.removed
      BY <1>4, <1>11, <3>1 DEF OtherAdminThan
    <3>2. CASE "admin" \notin q.removed
      BY <1>11, <3>2 DEF RolesIInv, AdminsKept
    <3> QED BY <3>1, <3>2
  <2>2. \A p \in WorkingOnRoles : AdminsLeft(roleReq[p])'
    BY <1>4, <1>13, IdleIsFree DEF AdminsLeft
  <2> QED BY <2>1, <2>2
<1>15. AccessKept'
  <2> SUFFICES ASSUME AccessApart
               PROVE  /\ \A a \in Adults : roles'[a] = {} => OpenGrants(a)' = {}
                      /\ \A a \in Adults : \A g, h \in OpenGrants(a)' : g = h
                      /\ \A p \in WorkingOnRoles : AccessFits(roleReq[p])'
    BY <1>13 DEF AccessKept
  <2>1. /\ \A a \in Adults : roles[a] = {} => OpenGrants(a) = {}
        /\ \A a \in Adults : \A g, h \in OpenGrants(a) : g = h
    BY DEF RolesIInv, AccessKept
  <2>2. \A p \in WorkingOnRoles : AccessFits(roleReq[p])'
    BY <1>5, <1>13, IdleIsFree DEF AccessFits
  <2>3. \A a \in Adults : roles'[a] = {} => OpenGrants(a)' = {}
    BY <1>5, <1>9, <1>11, <2>1
  <2> QED BY <1>9, <2>1, <2>2, <2>3
<1>16. StaffKept'
  <2> SUFFICES ASSUME StaffApart
               PROVE  /\ \A a \in Adults : OpenGrants(a)' # {} => a \in staff'
                      /\ \A p \in WorkingOnRoles : StaffFits(roleReq[p])'
    BY <1>13 DEF StaffKept
  <2>1. /\ \A a \in Adults : OpenGrants(a) # {} => a \in staff
        /\ \A p \in WorkingOnRoles : StaffFits(roleReq[p])
    BY DEF RolesIInv, StaffKept
  <2>2. \A a \in Adults : OpenGrants(a)' # {} => a \in staff'
    BY <1>6, <1>9, <1>10, <2>1
  <2>3. ASSUME NEW p \in WorkingOnRoles PROVE StaffFits(roleReq[p])'
    <3>1. CASE p = r
      BY <1>13, <3>1, IdleIsFree DEF StaffFits
    <3>2. CASE p # r
      <4>1. roleReq'[p] = roleReq[p] /\ roleReq[p].op # "ask" /\ StaffFits(roleReq[p])
        BY <1>6, <1>13, <2>1, <3>2
      <4>2. \A a : OpenGrants(a)' \subseteq OpenGrants(a)
        BY <1>9
      <4> QED BY <4>1, <4>2 DEF StaffFits
    <3> QED BY <3>1, <3>2
  <2> QED BY <2>2, <2>3
<1>17. EndsKept'
  <2> SUFFICES ASSUME EndsApart PROVE EndsKept'
    BY <1>13 DEF EndsKept
  <2>1. ASSUME NEW p \in WorkingOnRoles PROVE EndFits(roleReq[p])'
    <3>1. CASE p = r
      BY <1>13, <3>1, IdleIsFree DEF EndFits
    <3>2. CASE p # r
      <4>1. /\ roleReq'[p] = roleReq[p] /\ roleReq[p].op # "end" /\ EndFits(roleReq[p])
            /\ roleReq[p] \in RoleRequest
        BY <1>7, <1>13, <3>2 DEF RolesIInv, RoleTables, EndsKept
      <4>2. roleReq[p].op = "roles" /\ roleReq[p].step = "commit" => roleReq[p].ended \subseteq Grants
        BY <4>1, RoleRequestShapes DEF RolesToWrite, RolesToCommit
      <4> QED BY <1>8, <4>1, <4>2 DEF EndFits
    <3> QED BY <3>1, <3>2
  <2>2. roleReq'[Job] = roleReq[Job]
    BY <1>2, <1>13 DEF WorkingOnRoles
  <2> QED BY <1>1, <1>7, <2>1, <2>2 DEF EndsKept
<1> QED BY <1>13, <1>14, <1>15, <1>16, <1>17 DEF RolesIInv

\* Steps of the job, and its death, which change no rows.
LEMMA JobKeepsRoles ==
    ASSUME RolesIInv, NEW q \in {Idle} \cup EndToSave \cup StaffToCheck,
           roleReq' = [roleReq EXCEPT ![Job] = q], met \subseteq met',
           UNCHANGED <<roles, groups, grant, staff>>, IsLate(q),
           job' \in [phase : {"idle", "grants", "staff"}, left : SUBSET (EndToSave \cup StaffToCheck)],
           job'.phase = "idle" => job'.left = {} /\ q.op = "idle",
           \A p \in job'.left : IsLate(p),
           \A p \in RoleRequests : roleReq[p].op # "idle" /\ job'.phase # "idle" =>
              {roleReq[p].op, "end"} \in met',
           EndsApart => /\ EndFits(q)
                        /\ \A p \in job'.left : EndFits(p)
                        /\ \A p, s \in job'.left :
                             p.step = "save" /\ s.step = "save" /\ p.grant = s.grant => p = s
                        /\ \A p \in job'.left :
                             p.step = "save" /\ q.op = "end" /\ q.step = "save" => q.grant # p.grant
    PROVE  RolesIInv'
<1>1. /\ q \in RoleRequest /\ q.op \in {"idle", "end"}
      /\ q.op = "end" => q.step \in {"save", "sync"}
  BY IdleIsFree DEF RoleRequest, EndToSave, StaffToCheck
<1>2. /\ Job \in WorkingOnRoles /\ Job \notin RoleRequests /\ RoleRequests \subseteq WorkingOnRoles
      /\ roleReq' \in [WorkingOnRoles -> RoleRequest]
      /\ \A p \in WorkingOnRoles : roleReq'[p] = IF p = Job THEN q ELSE roleReq[p]
  BY <1>1, RolesAssumption DEF RolesIInv, RoleTables, WorkingOnRoles
<1>3. AdminsLeft(q) /\ AccessFits(q) /\ StaffFits(q)
  BY <1>1 DEF AdminsLeft, AccessFits, StaffFits
<1>4. /\ AdminsKept' /\ AccessKept' /\ StaffKept'
      /\ EndsApart' => EndsApart
      /\ EndsApart' => \A p \in WorkingOnRoles : EndFits(roleReq[p])'
  BY <1>2, <1>3, RowsAsTheyWere
<1>5. RoleTables'
  <2>1. RoleRows'
    BY DEF RolesIInv, RoleTables, RoleRows
  <2>2. \A p \in WorkingOnRoles : IsLate(roleReq[p])'
    <3>1. \A p \in WorkingOnRoles : IsLate(roleReq'[p])
      BY <1>2 DEF RolesIInv, RoleTables
    <3> QED BY <3>1 DEF IsLate
  <2>3. \A p \in job'.left : IsLate(p)'
    BY DEF IsLate
  <2>4. roleReq'[Job] = q
    BY <1>2
  <2>5. \A p \in RoleRequests : roleReq'[p] = roleReq[p]
    BY <1>2
  <2>6. \A p, s \in RoleRequests :
          p # s /\ roleReq'[p].op # "idle" /\ roleReq'[s].op # "idle" =>
             {roleReq'[p].op, roleReq'[s].op} \in met'
    BY <2>5 DEF RolesIInv, RoleTables
  <2> QED BY <1>1, <1>2, <2>1, <2>2, <2>3, <2>4, <2>5, <2>6 DEF RoleTables
<1>6. EndsKept'
  <2> SUFFICES ASSUME EndsApart, EndsApart' PROVE EndsKept'
    BY <1>4 DEF EndsKept
  <2>1. \A p \in job'.left : EndFits(p)'
    BY DEF EndFits
  <2>2. roleReq'[Job] = q
    BY <1>2
  <2> QED BY <1>4, <2>1, <2>2 DEF EndsKept
<1> QED BY <1>4, <1>5, <1>6 DEF RolesIInv

LEMMA JobStepsKeepRoles ==
    ASSUME RolesIInv, CloseExpired \/ JobStep
    PROVE  RolesIInv'
<1>1. /\ roleReq = [roleReq EXCEPT ![Job] = roleReq[Job]]
      /\ roleReq[Job].op = "idle" => roleReq[Job] = Idle
  <2>1. Job \in WorkingOnRoles /\ roleReq[Job] \in RoleRequest
    BY DEF RolesIInv, RoleTables, WorkingOnRoles
  <2>2. roleReq = [roleReq EXCEPT ![Job] = roleReq[Job]]
    BY DEF RolesIInv, RoleTables
  <2> QED BY <2>1, <2>2, RoleRequestShapes
<1>2. \A p \in job.left : p \in EndToSave \cup StaffToCheck /\ IsLate(p)
  BY DEF RolesIInv, RoleTables
<1>3. CASE CloseExpired
  <2>1. /\ roleReq[Job].op = "idle" /\ job'.phase = "grants"
        /\ job' = [phase |-> "grants", left |-> job'.left]
        /\ job'.left = {EndOf(g, "expired", grant[g].account \in staff) :
                          g \in {g \in Grants : /\ grant[g].account # Nobody
                                                /\ grant[g].end = "open" /\ grant[g].late}}
        /\ met' = met \cup {{"end", op} : op \in UnderWay}
        /\ UNCHANGED <<roles, groups, grant, staff, roleReq>>
    BY <1>3 DEF CloseExpired
  <2>2. ASSUME NEW p \in job'.left
        PROVE  /\ p \in EndToSave /\ grant[p.grant].end = "open" /\ IsLate(p)
               /\ p = EndOf(p.grant, "expired", grant[p.grant].account \in staff)
    <3>1. PICK g \in Grants : /\ p = EndOf(g, "expired", grant[g].account \in staff)
                              /\ grant[g].account # Nobody
                              /\ grant[g].end = "open" /\ grant[g].late
      BY <2>1, <2>2
    <3>2. grant[g].account \in Adults
      BY <3>1 DEF RolesIInv, RoleTables, RoleRows, GrantRow
    <3>3. p \in EndToSave /\ p.grant = g
      BY <3>1, <3>2 DEF EndToSave, EndOf, EndReasons
    <3> QED BY <3>1, <3>3 DEF IsLate
  <2>3. job' \in [phase : {"idle", "grants", "staff"}, left : SUBSET (EndToSave \cup StaffToCheck)]
    BY <2>1, <2>2
  <2>4. \A p, s \in job'.left : p.step = "save" /\ s.step = "save" /\ p.grant = s.grant => p = s
    BY <2>2
  <2>5. \A p \in RoleRequests : roleReq[p].op # "idle" => {roleReq[p].op, "end"} \in met'
    <3>1. \A p \in RoleRequests : roleReq[p].op # "idle" => roleReq[p].op \in UnderWay
      BY DEF UnderWay
    <3>2. \A p \in RoleRequests : {roleReq[p].op, "end"} = {"end", roleReq[p].op}
      OBVIOUS
    <3> QED BY <2>1, <3>1, <3>2
  <2>6. \A p \in job'.left : EndFits(p)
    BY <2>2 DEF EndFits, EndToSave
  <2>7. met \subseteq met'
    BY <2>1
  <2>8. roleReq' = [roleReq EXCEPT ![Job] = Idle] /\ Idle.op = "idle"
    BY <1>1, <2>1, IdleIsFree
  <2> QED BY <2>1, <2>2, <2>3, <2>4, <2>5, <2>6, <2>7, <2>8, IdleIsFree, JobKeepsRoles
<1>4. CASE CloseOne
  <2>1. PICK q \in job.left : /\ job.phase # "idle" /\ GoOn(Job, q)
                              /\ job' = [job EXCEPT !.left = @ \ {q}]
                              /\ UNCHANGED <<roles, groups, grant, staff>>
    BY <1>4 DEF CloseOne
  <2>2. /\ job'.phase = job.phase /\ job'.left = job.left \ {q}
        /\ job' \in [phase : {"idle", "grants", "staff"}, left : SUBSET (EndToSave \cup StaffToCheck)]
    BY <2>1 DEF RolesIInv, RoleTables
  <2>3. q \in EndToSave \cup StaffToCheck /\ IsLate(q) /\ \A p \in job'.left : IsLate(p)
    BY <1>2, <2>2
  <2>4. \A p \in RoleRequests : roleReq[p].op # "idle" /\ job'.phase # "idle" =>
           {roleReq[p].op, "end"} \in met'
    BY <2>1, <2>2 DEF RolesIInv, RoleTables, GoOn
  <2>5. EndsApart => /\ EndFits(q)
                     /\ \A p \in job'.left : EndFits(p)
                     /\ \A p, s \in job'.left :
                          p.step = "save" /\ s.step = "save" /\ p.grant = s.grant => p = s
                     /\ \A p \in job'.left :
                          p.step = "save" /\ q.op = "end" /\ q.step = "save" => q.grant # p.grant
    BY <2>2 DEF RolesIInv, EndsKept
  <2>6. roleReq' = [roleReq EXCEPT ![Job] = q] /\ met \subseteq met'
    BY <2>1 DEF GoOn
  <2> QED BY <2>1, <2>2, <2>3, <2>4, <2>5, <2>6, JobKeepsRoles
<1>5. CASE CheckStaff
  <2>1. /\ roleReq[Job].op = "idle" /\ job.phase = "grants"
        /\ job' = [phase |-> "staff", left |->
                     {[op |-> "end", step |-> "sync", account |-> a, hadStaff |-> TRUE] : a \in staff}]
        /\ UNCHANGED <<roles, groups, grant, staff, roleReq, met>>
    BY <1>5 DEF CheckStaff
  <2>2. ASSUME NEW p \in job'.left PROVE p \in StaffToCheck
    <3>1. PICK a \in staff : p = [op |-> "end", step |-> "sync", account |-> a, hadStaff |-> TRUE]
      BY <2>1
    <3>2. a \in Adults
      BY <3>1 DEF RolesIInv, RoleTables, RoleRows
    <3> QED BY <3>1, <3>2 DEF StaffToCheck
  <2>3. /\ job'.phase = "staff"
        /\ job' \in [phase : {"idle", "grants", "staff"}, left : SUBSET (EndToSave \cup StaffToCheck)]
    BY <2>1, <2>2
  <2>4. \A p \in job'.left : p.op = "end" /\ p.step = "sync"
    BY <2>2 DEF StaffToCheck
  <2>5. \A p \in job'.left : EndFits(p) /\ IsLate(p)
    BY <2>4 DEF EndFits, IsLate
  <2>6. roleReq' = [roleReq EXCEPT ![Job] = Idle]
    BY <1>1, <2>1
  <2>7. \A p \in RoleRequests : roleReq[p].op # "idle" => {roleReq[p].op, "end"} \in met'
    BY <2>1 DEF RolesIInv, RoleTables
  <2>8. met \subseteq met'
    BY <2>1
  <2> QED BY <2>1, <2>3, <2>4, <2>5, <2>6, <2>7, <2>8, IdleIsFree, JobKeepsRoles
<1>6. CASE JobDone
  <2>1. /\ roleReq[Job].op = "idle" /\ job' = JobIdle
        /\ UNCHANGED <<roles, groups, grant, staff, roleReq, met>>
    BY <1>6 DEF JobDone
  <2>2. /\ job'.phase = "idle" /\ job'.left = {}
        /\ job' \in [phase : {"idle", "grants", "staff"}, left : SUBSET (EndToSave \cup StaffToCheck)]
    BY <2>1 DEF JobIdle
  <2>3. roleReq' = [roleReq EXCEPT ![Job] = Idle] /\ met \subseteq met'
    BY <1>1, <2>1
  <2> QED BY <2>1, <2>2, <2>3, IdleIsFree, JobKeepsRoles
<1> QED BY <1>3, <1>4, <1>5, <1>6 DEF JobStep

LEMMA RequestDiesKeepsRoles ==
    ASSUME RolesIInv, NEW r \in WorkingOnRoles, RequestDies(r)
    PROVE  RolesIInv'
<1>1. /\ roleReq[r].op # "idle" /\ roleReq' = [roleReq EXCEPT ![r] = Idle] /\ met' = met
      /\ job' = IF r = Job THEN JobIdle ELSE job
      /\ UNCHANGED <<roles, groups, grant, staff>>
  BY DEF RequestDies, Finish
<1>2. CASE r = Job
  <2>1. /\ job'.phase = "idle" /\ job'.left = {}
        /\ job' \in [phase : {"idle", "grants", "staff"}, left : SUBSET (EndToSave \cup StaffToCheck)]
    BY <1>1, <1>2 DEF JobIdle
  <2> QED BY <1>1, <1>2, <2>1, IdleIsFree, JobKeepsRoles
<1>3. CASE r # Job
  BY <1>1, <1>3, IdleIsFree, GoingOnKeepsRoles
<1> QED BY <1>2, <1>3

LEMMA RolesNextKeeps == RolesIInv /\ [RolesNext]_rolesVars => RolesIInv'
<1>1. ASSUME RolesIInv, RolesNext PROVE RolesIInv'
  <2>1. ASSUME NEW r \in WorkingOnRoles, RolesStep(r) \/ RequestDies(r) PROVE RolesIInv'
    BY <1>1, <2>1, WriteRolesKeeps, CommitRolesKeeps, CommitAccessKeeps, SaveEndKeeps, SyncStaffKeeps,
       SaveStaffKeeps, RequestDiesKeepsRoles DEF RolesStep
  <2>2. ASSUME NEW r \in RoleRequests,
               \/ \E by \in Adults \cup {Superuser}, a \in Adults, wanted \in SUBSET Roles :
                     SetRoles(r, by, a, wanted)
               \/ \E a \in Adults : RequestAccess(r, a)
               \/ \E g \in Grants, by \in Adults \cup {Superuser} : EndAccess(r, g, by)
        PROVE  RolesIInv'
    BY <1>1, <2>2, BeginningKeepsRoles
  <2>3. CASE CloseExpired \/ JobStep
    BY <1>1, <2>3, JobStepsKeepRoles
  <2>4. ASSUME NEW g \in Grants, TimeIsUp(g) PROVE RolesIInv'
    BY <1>1, <2>4, TimeIsUpKeeps
  <2> QED BY <1>1, <2>1, <2>2, <2>3, <2>4 DEF RolesNext, WorkingOnRoles
<1>2. ASSUME RolesIInv, UNCHANGED rolesVars PROVE RolesIInv'
  <2>1. UNCHANGED <<roles, groups, grant, staff, roleReq, job, met>>
    BY <1>2 DEF rolesVars
  <2>2. UNCHANGED <<RolesApart, AccessApart, StaffApart, EndsApart>> /\ \A a : OpenGrants(a)' = OpenGrants(a)
    BY <2>1 DEF RolesApart, AccessApart, StaffApart, EndsApart, OpenGrants, IsOpen
  <2>3. RoleTables'
    BY <1>2, <2>1 DEF RolesIInv, RoleTables, RoleRows, IsLate
  <2>4. AdminsKept'
    BY <1>2, <2>1, <2>2 DEF RolesIInv, AdminsKept, AdminsLeft, OtherAdminThan
  <2>5. AccessKept'
    BY <1>2, <2>1, <2>2 DEF RolesIInv, AccessKept, AccessFits
  <2>6. StaffKept'
    BY <1>2, <2>1, <2>2 DEF RolesIInv, StaffKept, StaffFits
  <2>7. EndsKept'
    BY <1>2, <2>1, <2>2 DEF RolesIInv, EndsKept, EndFits
  <2> QED BY <2>3, <2>4, <2>5, <2>6, <2>7 DEF RolesIInv
<1> QED BY <1>1, <1>2

LEMMA RolesIInvImplies == RolesIInv => RolesInv
<1> SUFFICES ASSUME RolesIInv PROVE RolesInv
  OBVIOUS
<1>1. RolesTypeOK
  <2>1. \A r \in WorkingOnRoles : roleReq[r].op \in {"idle", "roles", "ask", "end"}
    BY RoleRequestShapes DEF RolesIInv, RoleTables
  <2> QED BY <2>1 DEF RolesIInv, RoleTables, RoleRows, GrantRow, RolesTypeOK, WorkingOnRoles
<1>2. AnAdminRemains
  BY DEF RolesIInv, AdminsKept, RolesApart, AnAdminRemains
<1>3. AccessEndsWithTheRole
  BY DEF RolesIInv, AccessKept, AccessApart, AccessEndsWithTheRole
<1>4. OpenAccessWorks
  BY DEF RolesIInv, StaffKept, StaffApart, OpenAccessWorks
<1> QED BY <1>1, <1>2, <1>3, <1>4 DEF RolesInv

\* What a step does to how access ended.
LEMMA EndsStay ==
    ASSUME RolesIInv, RolesNext, EndsApart', NEW g \in Grants, grant[g].end # "open"
    PROVE  grant'[g].end = grant[g].end
<1>1. ASSUME NEW r \in WorkingOnRoles, CommitRoles(r) PROVE grant'[g].end = grant[g].end
  <2>1. /\ roleReq[r].op = "roles" /\ roleReq[r].step = "commit" /\ met' = met
        /\ grant' = [h \in Grants |-> IF h \in roleReq[r].ended
                                      THEN [grant[h] EXCEPT !.end = "role_removed"] ELSE grant[h]]
    BY <1>1 DEF CommitRoles, Finish
  <2>2. \A h \in roleReq[r].ended : grant[h].end \in {"open", "role_removed"}
    BY <2>1 DEF RolesIInv, EndsKept, EndFits, EndsApart
  <2>3. CASE g \in roleReq[r].ended
    <3>1. grant[g] \in GrantRow /\ grant'[g] = [grant[g] EXCEPT !.end = "role_removed"]
      BY <2>1, <2>3 DEF RolesIInv, RoleTables, RoleRows
    <3>2. grant'[g].end = "role_removed"
      BY <3>1 DEF GrantRow
    <3> QED BY <2>2, <2>3, <3>2
  <2>4. CASE g \notin roleReq[r].ended
    BY <2>1, <2>4
  <2> QED BY <2>3, <2>4
<1>2. ASSUME NEW r \in WorkingOnRoles, CommitAccess(r) PROVE grant'[g].end = grant[g].end
  <2>1. PICK n \in Grants : grant' = [grant EXCEPT ![n].account = roleReq[r].account]
    BY <1>2 DEF CommitAccess
  <2>2. grant \in [Grants -> GrantRow]
    BY DEF RolesIInv, RoleTables, RoleRows
  <2> QED BY <2>1, <2>2 DEF GrantRow
<1>3. ASSUME NEW r \in WorkingOnRoles, SaveEnd(r) PROVE grant'[g].end = grant[g].end
  <2>1. /\ roleReq[r].op = "end" /\ roleReq[r].step = "save" /\ met' = met
        /\ \/ grant' = grant
           \/ grant' = [grant EXCEPT ![roleReq[r].grant].end = roleReq[r].reason]
    BY <1>3 DEF SaveEnd, Finish, GoOn
  <2>2. grant[roleReq[r].grant].end = "open"
    BY <2>1 DEF RolesIInv, EndsKept, EndFits, EndsApart
  <2>3. grant \in [Grants -> GrantRow]
    BY DEF RolesIInv, RoleTables, RoleRows
  <2> QED BY <2>1, <2>2, <2>3
<1>4. ASSUME NEW n \in Grants, TimeIsUp(n) PROVE grant'[g].end = grant[g].end
  <2>1. grant' = [grant EXCEPT ![n].late = TRUE] /\ grant \in [Grants -> GrantRow]
    BY <1>4 DEF TimeIsUp, RolesIInv, RoleTables, RoleRows
  <2> QED BY <2>1 DEF GrantRow
<1>5. CASE UNCHANGED grant
  BY <1>5
<1>6. ASSUME NEW r \in WorkingOnRoles, RolesStep(r) \/ RequestDies(r) PROVE grant'[g].end = grant[g].end
  BY <1>1, <1>2, <1>3, <1>5, <1>6 DEF RolesStep, WriteRoles, SyncStaff, SaveStaff, RequestDies
<1> QED BY <1>4, <1>5, <1>6
        DEF RolesNext, WorkingOnRoles, SetRoles, RequestAccess, EndAccess, CloseExpired, JobStep,
            CloseOne, CheckStaff, JobDone

\* Somebody can always give roles, access ends with the last role, and who has
\* access can use it: for any adults, roles, grants and requests, however they
\* overlap and die, with the exceptions the properties name.
\* (accounts.organisation_people:set_roles, accounts.admin_access)
THEOREM RolesAndAccessFit == RolesSpec => []RolesInv
<1>1. RolesIInv /\ [RolesNext]_rolesVars => RolesIInv'
  BY RolesNextKeeps
<1> QED BY <1>1, RolesInitOK, RolesIInvImplies, PTL DEF RolesSpec

\* How access ended is written once, unless two endings overlapped.
\* (accounts.admin_access:end, close_expired)
THEOREM EndsAreFinal == RolesSpec => AnEndIsFinal
<1>1. RolesIInv /\ [RolesNext]_rolesVars => RolesIInv'
  BY RolesNextKeeps
<1>2. RolesIInv /\ [RolesNext]_rolesVars =>
        [{{"end"}, {"end", "roles"}} \cap met' = {} =>
            \A g \in Grants : grant[g].end # "open" => grant'[g].end = grant[g].end]_rolesVars
  BY EndsStay DEF EndsApart
<1> QED BY <1>1, <1>2, RolesInitOK, PTL DEF RolesSpec, AnEndIsFinal

-----------------------------------------------------------------------------
(* The methods of one account *)

AddStep == [op : {"add"}, step : {"save", "count"}, device : Devices, wasOn : BOOLEAN]
AddNamed == [op : {"add"}, step : {"name", "codes"}, device : Devices, wasOn : BOOLEAN,
             first : BOOLEAN]
CodesStep == [op : {"codes"}, step : {"codes"}]
RemoveStep == [op : {"remove"}, step : {"delete", "rest"}, device : Devices, under : Levels]
RemoveCommits == [op : {"remove"}, step : {"commit"}, device : Devices, under : Levels,
                  last : BOOLEAN]
RemoveRenames == [op : {"remove"}, step : {"default"}, device : Devices, under : Levels,
                  oldest : Devices]
OffStep == [op : {"off"}, step : {"off"}, byOthers : BOOLEAN, under : Levels]
OffCommits == [op : {"off"}, step : {"commit"}, byOthers : BOOLEAN, under : Levels,
               gone : SUBSET Devices]

StepRequest == {NoStep} \cup AddStep \cup AddNamed \cup CodesStep \cup RemoveStep
               \cup RemoveCommits \cup RemoveRenames \cup OffStep \cup OffCommits

StepTables ==
    /\ saved \in SUBSET Devices /\ IsFiniteSet(saved)
    /\ default \subseteq saved
    /\ codes \in BOOLEAN /\ unnamed \in BOOLEAN
    /\ level \in Levels
    /\ stepReq \in [SecurityRequests -> StepRequest]

\* What is under way at once was seen to be.
PairsSeen ==
    \A r, p \in SecurityRequests :
        r # p /\ stepReq[r].op # "none" /\ stepReq[p].op # "none" =>
            {stepReq[r].op, stepReq[p].op} \in pairs

\* A deleted row's lock keeps a second removal of the same device waiting.
Holds(q) == q.op = "remove" /\ q.step # "delete"

OneHolds ==
    \A r, p \in SecurityRequests :
        r # p /\ Holds(stepReq[r]) /\ Holds(stepReq[p]) => stepReq[r].device # stepReq[p].device

\* The exceptions of the properties.
AddsApart == Unmet({{"add"}, {"add", "remove"}, {"add", "off"}})
NamesKept == Unmet({{"remove"}}) \/ unnamed = FALSE
CodesApart == Unmet({{"remove"}, {"add", "remove"}, {"codes", "remove"}, {"codes", "off"}, {"add", "off"}})
RemovesApart == Unmet({{"remove"}, {"off", "remove"}})
OneAdds == Unmet({{"add"}})

OneAtMost(S) == \A x, y \in S : x = y

Naming(q) == q.op = "add" /\ q.step \in {"count", "name"}

\* What a request read is still good for what it goes on to do.
FitsDefault(q) ==
    /\ q.op = "add" /\ q.step = "save" => q.device \notin saved
    /\ q.op = "add" /\ q.step = "count" => (saved \ {q.device} # {} => default \ {q.device} # {})
    /\ q.op = "add" /\ q.step = "count" => saved = {} \/ q.device \in saved
    /\ q.op = "add" /\ q.step = "name" => q.first = TRUE \/ saved = {} \/ default \ {q.device} # {}
    /\ q.op = "remove" /\ q.step = "commit" => saved \subseteq {q.device} \/ default \ {q.device} # {}
    /\ q.op = "off" /\ q.step = "commit" => saved \subseteq q.gone

FitsNames(q) ==
    /\ q.op = "add" /\ q.step = "count" => OneAtMost(default \ {q.device})
    /\ q.op = "add" /\ q.step = "name" =>
         IF q.first THEN saved \subseteq {q.device} ELSE OneAtMost(default \ {q.device})
    /\ q.op = "remove" /\ q.step = "default" => default \subseteq {q.device}

FitsCodes(q) ==
    /\ q.op = "add" /\ q.step = "codes" => saved # {}
    /\ q.op = "codes" => saved # {}
    /\ q.op = "remove" /\ q.step = "commit" => q.last = TRUE \/ codes = FALSE \/ saved \ {q.device} # {}

FitsApps(q) == q.op = "add" /\ q.step = "save" /\ q.device \in Apps => saved \cap Apps = {}

Enough(under, left) == under = "password" \/ (IF under = "passkey" THEN left \ Apps ELSE left) # {}

FitsLevel(q) == q.op = "remove" => Enough(q.under, saved \ {q.device})

FitsAlways(q) ==
    /\ q.op = "remove" /\ q.step = "default" => q.oldest # q.device
    /\ q.op = "off" => q.byOthers = TRUE \/ q.under = "password"

Fits(q) ==
    /\ AddsApart /\ NamesKept => FitsDefault(q)
    /\ AddsApart /\ unnamed = FALSE => FitsNames(q)
    /\ CodesApart => FitsCodes(q)
    /\ OneAdds => FitsApps(q)
    /\ RemovesApart => FitsLevel(q)
    /\ FitsAlways(q)

ADefault == AddsApart /\ NamesKept => (saved # {} => default # {})
OneDefault ==
    /\ AddsApart
    /\ unnamed = FALSE
    /\ \A r \in SecurityRequests : ~Naming(stepReq[r])
    => OneAtMost(default)
CodesHaveAMethod == CodesApart => (codes = TRUE => saved # {})
OneAppAtMost == OneAdds => OneAtMost(saved \cap Apps)

MethodsStand == ADefault /\ OneDefault /\ CodesHaveAMethod /\ OneAppAtMost

StepsIInv ==
    /\ StepTables
    /\ PairsSeen
    /\ OneHolds
    /\ MethodsStand
    /\ \A r \in SecurityRequests : Fits(stepReq[r])

LEMMA StepsInitOK == TwoStepInit => StepsIInv
<1> SUFFICES ASSUME TwoStepInit PROVE StepsIInv
  OBVIOUS
<1>1. \A r \in SecurityRequests : stepReq[r].op = "none"
  BY DEF TwoStepInit, NoStep
<1>2. StepTables
  BY FS_EmptySet DEF TwoStepInit, StepTables, StepRequest, Levels
<1>3. PairsSeen /\ OneHolds
  BY <1>1 DEF PairsSeen, OneHolds, Holds
<1>4. saved = {} /\ default = {} /\ codes = FALSE
  BY DEF TwoStepInit
<1>5. ADefault /\ OneDefault /\ CodesHaveAMethod /\ OneAppAtMost
  BY <1>4 DEF ADefault, OneDefault, CodesHaveAMethod, OneAppAtMost, OneAtMost
<1>6. \A r \in SecurityRequests : Fits(stepReq[r])
  BY <1>1 DEF Fits, FitsDefault, FitsNames, FitsCodes, FitsApps, FitsLevel, FitsAlways
<1> QED BY <1>2, <1>3, <1>5, <1>6 DEF StepsIInv, MethodsStand

LEMMA IdleFits == \A q : q.op = "none" => Fits(q)
BY DEF Fits, FitsDefault, FitsNames, FitsCodes, FitsApps, FitsLevel, FitsAlways

LEMMA StepsIInvImplies == StepsIInv => MethodsInv
<1> SUFFICES ASSUME StepsIInv PROVE MethodsInv
  OBVIOUS
<1>1. \A q \in StepRequest : q.op \in {"none", "add", "remove", "off", "codes"}
  BY DEF StepRequest, NoStep, AddStep, AddNamed, CodesStep, RemoveStep, RemoveCommits,
         RemoveRenames, OffStep, OffCommits
<1>2. TwoStepTypeOK
  <2>1. /\ saved \subseteq Devices /\ default \subseteq saved /\ codes \in BOOLEAN /\ level \in Levels
        /\ stepReq \in [SecurityRequests -> StepRequest]
    BY DEF StepsIInv, StepTables
  <2>2. \A r \in SecurityRequests : stepReq[r] \in StepRequest
    BY <2>1
  <2>3. \A r \in SecurityRequests : stepReq[r].op \in {"none", "add", "remove", "off", "codes"}
    BY <2>2, <1>1
  <2> QED BY <2>1, <2>3 DEF TwoStepTypeOK
<1>3. AMethodIsTheDefault
  BY DEF StepsIInv, StepTables, MethodsStand, ADefault, AddsApart, NamesKept, AMethodIsTheDefault
<1>4. CodesGoWithTheLastMethod
  BY DEF StepsIInv, StepTables, MethodsStand, CodesHaveAMethod, CodesApart, CodesGoWithTheLastMethod
<1>5. OneApp
  <2> SUFFICES ASSUME Unmet({{"add"}}) PROVE Cardinality(saved \cap Apps) <= 1
    BY DEF OneApp
  <2>1. OneAtMost(saved \cap Apps)
    BY DEF StepsIInv, MethodsStand, OneAppAtMost, OneAdds
  <2>2. CASE saved \cap Apps = {}
    <3>1. Cardinality(saved \cap Apps) = 0
      BY <2>2, FS_EmptySet
    <3> QED BY <3>1
  <2>3. CASE saved \cap Apps # {}
    <3>1. PICK x : x \in saved \cap Apps
      BY <2>3
    <3>2. saved \cap Apps = {x}
      BY <2>1, <3>1 DEF OneAtMost
    <3>3. Cardinality(saved \cap Apps) = 1
      BY <3>2, FS_Singleton
    <3> QED BY <3>3
  <2> QED BY <2>2, <2>3
<1> QED BY <1>2, <1>3, <1>4, <1>5 DEF MethodsInv

LEMMA ExceptionsStay ==
    ASSUME pairs \subseteq pairs', unnamed' = FALSE => unnamed = FALSE
    PROVE  /\ AddsApart' => AddsApart
           /\ NamesKept' => NamesKept
           /\ CodesApart' => CodesApart
           /\ RemovesApart' => RemovesApart
           /\ OneAdds' => OneAdds
BY DEF AddsApart, NamesKept, CodesApart, RemovesApart, OneAdds, Unmet

\* A request goes on from `stepReq[r]` to q.
Meets(r, q) ==
    \/ q.op \in {"none", stepReq[r].op}
    \/ \A p \in SecurityRequests : p # r /\ stepReq[p].op # "none" => {q.op, stepReq[p].op} \in pairs'

HoldsAlone(r, q) ==
    Holds(q) => \/ Holds(stepReq[r]) /\ q.device = stepReq[r].device
                \/ \A p \in SecurityRequests : p # r /\ Holds(stepReq[p]) => stepReq[p].device # q.device

LEMMA StepKeeps ==
    ASSUME StepsIInv, NEW r \in SecurityRequests, NEW q \in StepRequest,
           stepReq' = [stepReq EXCEPT ![r] = q], pairs \subseteq pairs',
           Meets(r, q), HoldsAlone(r, q),
           saved' \in SUBSET Devices, IsFiniteSet(saved'), default' \subseteq saved',
           codes' \in BOOLEAN, unnamed' \in BOOLEAN, level' \in Levels,
           MethodsStand',
           Fits(stepReq[r])',
           \A p \in SecurityRequests : p # r => Fits(stepReq[p])'
    PROVE  StepsIInv'
<1>1. stepReq \in [SecurityRequests -> StepRequest]
  BY DEF StepsIInv, StepTables
<1>2. StepTables'
  BY <1>1 DEF StepTables
<1>3. stepReq'[r] = q /\ \A p \in SecurityRequests : p # r => stepReq'[p] = stepReq[p]
  BY <1>1
<1>4. PairsSeen'
  <2> SUFFICES ASSUME NEW a \in SecurityRequests, NEW b \in SecurityRequests, a # b,
                      stepReq'[a].op # "none", stepReq'[b].op # "none"
               PROVE  {stepReq'[a].op, stepReq'[b].op} \in pairs'
    BY DEF PairsSeen
  <2>1. \A p \in SecurityRequests : p # r /\ stepReq[p].op # "none" /\ q.op # "none" =>
          {q.op, stepReq[p].op} \in pairs'
    BY DEF Meets, StepsIInv, PairsSeen
  <2>2. CASE a # r /\ b # r
    BY <1>3, <2>2 DEF StepsIInv, PairsSeen
  <2>3. CASE a = r
    BY <1>3, <2>1, <2>3
  <2>4. CASE b = r
    <3>1. {stepReq'[b].op, stepReq'[a].op} \in pairs'
      BY <1>3, <2>1, <2>4
    <3>2. {stepReq'[b].op, stepReq'[a].op} = {stepReq'[a].op, stepReq'[b].op}
      OBVIOUS
    <3> QED BY <3>1, <3>2
  <2> QED BY <2>2, <2>3, <2>4
<1>5. OneHolds'
  BY <1>3 DEF StepsIInv, OneHolds, HoldsAlone, Holds
<1>6. (\A p \in SecurityRequests : Fits(stepReq[p]))'
  <2>1. \A p \in SecurityRequests : Fits(stepReq[p])'
    OBVIOUS
  <2> QED BY <2>1
<1> QED BY <1>2, <1>4, <1>5, <1>6 DEF StepsIInv

LEMMA FitsStays ==
    ASSUME NEW p, NEW x, Fits(x), stepReq'[p] = x,
           UNCHANGED <<saved, default, codes>>,
           pairs \subseteq pairs', unnamed' = FALSE => unnamed = FALSE
    PROVE  Fits(stepReq[p])'
<1>1. /\ AddsApart' => AddsApart
      /\ NamesKept' => NamesKept
      /\ CodesApart' => CodesApart
      /\ RemovesApart' => RemovesApart
      /\ OneAdds' => OneAdds
  BY ExceptionsStay
<1>2. FitsDefault(x) => FitsDefault(stepReq[p])'
  BY DEF FitsDefault
<1>3. FitsNames(x) => FitsNames(stepReq[p])'
  BY DEF FitsNames, OneAtMost
<1>4. FitsCodes(x) => FitsCodes(stepReq[p])'
  BY DEF FitsCodes
<1>5. FitsApps(x) => FitsApps(stepReq[p])'
  BY DEF FitsApps
<1>6. FitsLevel(x) => FitsLevel(stepReq[p])'
  BY DEF FitsLevel, Enough
<1>7. FitsAlways(x) => FitsAlways(stepReq[p])'
  BY DEF FitsAlways
<1> QED BY <1>1, <1>2, <1>3, <1>4, <1>5, <1>6, <1>7 DEF Fits

\* A step that touches no method and no codes.
LEMMA QuietKeeps ==
    ASSUME StepsIInv, NEW r \in SecurityRequests, NEW q \in StepRequest,
           stepReq' = [stepReq EXCEPT ![r] = q], pairs \subseteq pairs',
           UNCHANGED <<saved, default, codes>>, unnamed' \in BOOLEAN, level' \in Levels,
           Meets(r, q), HoldsAlone(r, q),
           unnamed' = FALSE => unnamed = FALSE /\ (Naming(stepReq[r]) => Naming(q)),
           Fits(q)
    PROVE  StepsIInv'
<1>1. stepReq \in [SecurityRequests -> StepRequest]
  BY DEF StepsIInv, StepTables
<1>2. stepReq'[r] = q /\ \A p \in SecurityRequests : p # r => stepReq'[p] = stepReq[p]
  BY <1>1
<1>3. \A p \in SecurityRequests : p # r => Fits(stepReq[p])'
  <2> SUFFICES ASSUME NEW p \in SecurityRequests, p # r PROVE Fits(stepReq[p])'
    OBVIOUS
  <2> DEFINE x == stepReq[p]
  <2>1. Fits(x) /\ stepReq'[p] = x
    BY <1>2 DEF StepsIInv
  <2> HIDE DEF x
  <2> QED BY <2>1, FitsStays
<1>4. Fits(stepReq[r])'
  BY <1>2, FitsStays
<1>5. /\ AddsApart' => AddsApart
      /\ NamesKept' => NamesKept
      /\ CodesApart' => CodesApart
      /\ RemovesApart' => RemovesApart
      /\ OneAdds' => OneAdds
  BY ExceptionsStay
<1>6. ADefault' /\ CodesHaveAMethod' /\ OneAppAtMost'
  BY <1>5 DEF StepsIInv, MethodsStand, ADefault, CodesHaveAMethod, OneAppAtMost, OneAtMost
<1>7. OneDefault'
  <2> SUFFICES ASSUME AddsApart', unnamed' = FALSE,
                      \A p \in SecurityRequests : ~Naming(stepReq'[p])
               PROVE  OneAtMost(default)
    BY DEF OneDefault, OneAtMost, Naming
  <2>1. \A p \in SecurityRequests : ~Naming(stepReq[p])
    BY <1>2
  <2> QED BY <1>5, <2>1 DEF StepsIInv, MethodsStand, OneDefault
<1>8. MethodsStand'
  BY <1>6, <1>7 DEF MethodsStand
<1>9. /\ saved' \in SUBSET Devices /\ IsFiniteSet(saved') /\ default' \subseteq saved'
      /\ codes' \in BOOLEAN
  BY DEF StepsIInv, StepTables
<1> QED BY <1>3, <1>4, <1>8, <1>9, StepKeeps

LEMMA RequestKeeps ==
    ASSUME StepsIInv, NEW r \in SecurityRequests, NEW q \in StepRequest, Request(r, q),
           UNCHANGED <<saved, default, codes, level>>, ~Holds(q), Fits(q)
    PROVE  StepsIInv'
<1>1. /\ stepReq[r].op = "none" /\ stepReq' = [stepReq EXCEPT ![r] = q]
      /\ pairs \subseteq pairs' /\ unnamed' = unnamed
  BY DEF Request
<1>2. \A p \in SecurityRequests : p # r /\ stepReq[p].op # "none" => {q.op, stepReq[p].op} \in pairs'
  BY DEF Request
<1>3. Meets(r, q) /\ HoldsAlone(r, q) /\ ~Naming(stepReq[r])
  BY <1>1, <1>2 DEF Meets, HoldsAlone, Naming
<1>4. level' \in Levels /\ unnamed' \in BOOLEAN
  BY <1>1 DEF StepsIInv, StepTables
<1> QED BY <1>1, <1>3, <1>4, QuietKeeps

LEMMA AddKeeps ==
    ASSUME StepsIInv, NEW r \in SecurityRequests, NEW d \in Devices, Add(r, d)
    PROVE  StepsIInv'
<1> DEFINE q == [op |-> "add", step |-> "save", device |-> d, wasOn |-> saved # {}]
<1>1. /\ Request(r, q) /\ UNCHANGED <<saved, default, codes, level>>
      /\ d \notin saved /\ (d \in Apps => saved \cap Apps = {})
  BY DEF Add, MayAdd
<1>2. q \in AddStep
  BY DEF AddStep
<1>3. q.op = "add" /\ q.step = "save" /\ q.device = d /\ q \in StepRequest
  BY <1>2 DEF StepRequest
<1> HIDE DEF q
<1>4. Fits(q)
  BY <1>1, <1>3 DEF Fits, FitsDefault, FitsNames, FitsCodes, FitsApps, FitsLevel, FitsAlways
<1>5. ~Holds(q)
  BY <1>3 DEF Holds
<1> QED BY <1>1, <1>3, <1>4, <1>5, RequestKeeps

LEMMA AskCodesKeeps ==
    ASSUME StepsIInv, NEW r \in SecurityRequests, AskCodes(r)
    PROVE  StepsIInv'
<1> DEFINE q == [op |-> "codes", step |-> "codes"]
<1>1. Request(r, q) /\ UNCHANGED <<saved, default, codes, level>> /\ saved # {}
  BY DEF AskCodes
<1>2. q \in CodesStep
  BY DEF CodesStep
<1>3. q.op = "codes" /\ q \in StepRequest
  BY <1>2 DEF StepRequest
<1> HIDE DEF q
<1>4. Fits(q)
  BY <1>1, <1>3 DEF Fits, FitsDefault, FitsNames, FitsCodes, FitsApps, FitsLevel, FitsAlways
<1>5. ~Holds(q)
  BY <1>3 DEF Holds
<1> QED BY <1>1, <1>3, <1>4, <1>5, RequestKeeps

LEMMA RemoveKeeps ==
    ASSUME StepsIInv, NEW r \in SecurityRequests, NEW d \in Devices, Remove(r, d)
    PROVE  StepsIInv'
<1> DEFINE q == [op |-> "remove", step |-> "delete", device |-> d, under |-> level]
<1>1. /\ Request(r, q) /\ UNCHANGED <<saved, default, codes, level>>
      /\ Enough(level, saved \ {d})
  BY DEF Remove, BlocksRemoval, Counting, Enough
<1>2. level \in Levels
  BY DEF StepsIInv, StepTables
<1>3. q \in RemoveStep
  BY <1>2 DEF RemoveStep
<1>4. /\ q.op = "remove" /\ q.step = "delete" /\ q.device = d /\ q.under = level
      /\ q \in StepRequest
  BY <1>3 DEF StepRequest
<1> HIDE DEF q
<1>5. FitsLevel(q)
  BY <1>1, <1>4 DEF FitsLevel
<1>6. Fits(q)
  BY <1>4, <1>5 DEF Fits, FitsDefault, FitsNames, FitsCodes, FitsApps, FitsAlways
<1>7. ~Holds(q)
  BY <1>4 DEF Holds
<1> QED BY <1>1, <1>4, <1>6, <1>7, RequestKeeps

LEMMA TurnOffKeeps ==
    ASSUME StepsIInv, NEW r \in SecurityRequests, NEW byOthers \in BOOLEAN, TurnOff(r, byOthers)
    PROVE  StepsIInv'
<1> DEFINE q == [op |-> "off", step |-> "off", byOthers |-> byOthers, under |-> level]
<1>1. Request(r, q) /\ UNCHANGED <<saved, default, codes, level>>
  BY DEF TurnOff
<1>2. byOthers = TRUE \/ level = "password"
  <2>1. (saved \ saved) \ Apps = {} /\ saved \ saved = {}
    OBVIOUS
  <2> QED BY <2>1 DEF TurnOff, BlocksRemoval, Counting
<1>3. level \in Levels
  BY DEF StepsIInv, StepTables
<1>4. q \in OffStep
  BY <1>3 DEF OffStep
<1>5. /\ q.op = "off" /\ q.step = "off" /\ (q.byOthers = TRUE \/ q.under = "password")
      /\ q \in StepRequest
  BY <1>2, <1>4 DEF StepRequest
<1> HIDE DEF q
<1>6. Fits(q)
  BY <1>5 DEF Fits, FitsDefault, FitsNames, FitsCodes, FitsApps, FitsLevel, FitsAlways
<1>7. ~Holds(q)
  BY <1>5 DEF Holds
<1> QED BY <1>1, <1>5, <1>6, <1>7, RequestKeeps

\* A request that reads or deletes goes on with what it found.
LEMMA GoingOnKeeps ==
    ASSUME StepsIInv, NEW r \in SecurityRequests, NEW q \in StepRequest, StepTo(r, q),
           UNCHANGED <<saved, default, codes, level>>, q.op = stepReq[r].op,
           HoldsAlone(r, q), Naming(stepReq[r]) => Naming(q), Fits(q)
    PROVE  StepsIInv'
<1>1. stepReq' = [stepReq EXCEPT ![r] = q] /\ pairs' = pairs /\ unnamed' = unnamed
  BY DEF StepTo
<1>2. Meets(r, q)
  BY DEF Meets
<1>3. level' \in Levels /\ unnamed' \in BOOLEAN
  BY <1>1 DEF StepsIInv, StepTables
<1> QED BY <1>1, <1>2, <1>3, QuietKeeps

LEMMA AtStep ==
    ASSUME StepsIInv, NEW r \in SecurityRequests
    PROVE  LET q == stepReq[r] IN
           /\ q \in StepRequest /\ Fits(q)
           /\ q.op = "add" /\ q.step \in {"save", "count"} => q \in AddStep
           /\ q.op = "add" /\ q.step \in {"name", "codes"} => q \in AddNamed
           /\ q.op = "remove" /\ q.step \in {"delete", "rest"} => q \in RemoveStep
           /\ q.op = "remove" /\ q.step = "commit" => q \in RemoveCommits
           /\ q.op = "remove" /\ q.step = "default" => q \in RemoveRenames
           /\ q.op = "off" /\ q.step = "off" => q \in OffStep
           /\ q.op = "off" /\ q.step = "commit" => q \in OffCommits
<1> DEFINE q == stepReq[r]
<1>1. q \in StepRequest /\ Fits(q)
  BY DEF StepsIInv, StepTables
<1> HIDE DEF q
<1>2. /\ q.op = "add" /\ q.step \in {"save", "count"} => q \in AddStep
      /\ q.op = "add" /\ q.step \in {"name", "codes"} => q \in AddNamed
  BY <1>1 DEF StepRequest, NoStep, AddStep, AddNamed, CodesStep, RemoveStep, RemoveCommits,
              RemoveRenames, OffStep, OffCommits
<1>3. /\ q.op = "remove" /\ q.step \in {"delete", "rest"} => q \in RemoveStep
      /\ q.op = "remove" /\ q.step = "commit" => q \in RemoveCommits
      /\ q.op = "remove" /\ q.step = "default" => q \in RemoveRenames
  BY <1>1 DEF StepRequest, NoStep, AddStep, AddNamed, CodesStep, RemoveStep, RemoveCommits,
              RemoveRenames, OffStep, OffCommits
<1>4. /\ q.op = "off" /\ q.step = "off" => q \in OffStep
      /\ q.op = "off" /\ q.step = "commit" => q \in OffCommits
  BY <1>1 DEF StepRequest, NoStep, AddStep, AddNamed, CodesStep, RemoveStep, RemoveCommits,
              RemoveRenames, OffStep, OffCommits
<1> QED BY <1>1, <1>2, <1>3, <1>4 DEF q

LEMMA CountMethodsKeeps ==
    ASSUME StepsIInv, NEW r \in SecurityRequests, CountMethods(r)
    PROVE  StepsIInv'
<1> DEFINE d == stepReq[r].device
           f == Cardinality(saved) <= 1
           q == [op |-> "add", step |-> "name", device |-> d, wasOn |-> stepReq[r].wasOn, first |-> f]
<1>1. /\ stepReq[r].op = "add" /\ stepReq[r].step = "count" /\ StepTo(r, q)
      /\ UNCHANGED <<saved, default, codes, level>>
  BY DEF CountMethods
<1>2. stepReq[r] \in AddStep /\ Fits(stepReq[r])
  BY <1>1, AtStep
<1>3. d \in Devices /\ stepReq[r].wasOn \in BOOLEAN /\ f \in BOOLEAN
  BY <1>2 DEF AddStep
<1>4. IsFiniteSet(saved) /\ Cardinality(saved) \in Nat
  BY FS_CardinalityType DEF StepsIInv, StepTables
<1>5. saved \subseteq {d} => f = TRUE
  <2>1. CASE saved = {}
    <3>1. Cardinality(saved) = 0
      BY <2>1, FS_EmptySet
    <3> QED BY <3>1
  <2>2. CASE saved = {d}
    <3>1. Cardinality(saved) = 1
      BY <2>2, FS_Singleton
    <3> QED BY <3>1
  <2>3. saved \subseteq {d} => saved = {} \/ saved = {d}
    OBVIOUS
  <2> QED BY <2>1, <2>2, <2>3
<1>6. f = TRUE /\ (saved = {} \/ d \in saved) => saved \subseteq {d}
  <2> SUFFICES ASSUME f = TRUE, saved # {}, d \in saved PROVE saved \subseteq {d}
    OBVIOUS
  <2>1. Cardinality(saved) = 0 \/ Cardinality(saved) = 1
    BY <1>4
  <2>2. Cardinality(saved) # 0
    BY <1>4, FS_EmptySet
  <2>3. \E x : saved = {x}
    BY <1>4, <2>1, <2>2, FS_Singleton
  <2> QED BY <2>3
<1>7. q \in AddNamed
  BY <1>3 DEF AddNamed
<1>8. /\ q.op = "add" /\ q.step = "name" /\ q.device = d /\ q.first = f
      /\ q \in StepRequest
  BY <1>7 DEF StepRequest
<1> HIDE DEF q, f, d
<1>9. AddsApart /\ NamesKept => FitsDefault(q)
  <2> SUFFICES ASSUME AddsApart, NamesKept PROVE FitsDefault(q)
    OBVIOUS
  <2>1. saved \ {d} # {} => default \ {d} # {}
    BY <1>1, <1>2 DEF Fits, FitsDefault, d
  <2> QED BY <1>5, <1>8, <2>1 DEF FitsDefault
<1>10. AddsApart /\ unnamed = FALSE => FitsNames(q)
  <2> SUFFICES ASSUME AddsApart, unnamed = FALSE PROVE FitsNames(q)
    OBVIOUS
  <2>1. OneAtMost(default \ {d}) /\ (saved = {} \/ d \in saved)
    BY <1>1, <1>2 DEF Fits, FitsDefault, FitsNames, NamesKept, d
  <2> QED BY <1>6, <1>8, <2>1, <1>3 DEF FitsNames
<1>11. Fits(q)
  BY <1>8, <1>9, <1>10 DEF Fits, FitsCodes, FitsApps, FitsLevel, FitsAlways
<1>12. ~Holds(q) /\ Naming(q)
  BY <1>8 DEF Holds, Naming
<1> QED BY <1>1, <1>8, <1>11, <1>12, GoingOnKeeps DEF HoldsAlone

LEMMA DeleteDeviceKeeps ==
    ASSUME StepsIInv, NEW r \in SecurityRequests, DeleteDevice(r)
    PROVE  StepsIInv'
<1> DEFINE q == [stepReq[r] EXCEPT !.step = "rest"]
<1>1. /\ stepReq[r].op = "remove" /\ stepReq[r].step = "delete" /\ StepTo(r, q)
      /\ ~RowLocked(r, stepReq[r].device) /\ UNCHANGED <<saved, default, codes, level>>
  BY DEF DeleteDevice
<1>2. stepReq[r] \in RemoveStep /\ Fits(stepReq[r])
  BY <1>1, AtStep
<1>3. q \in RemoveStep /\ q.device = stepReq[r].device /\ q.under = stepReq[r].under
  BY <1>2 DEF RemoveStep
<1>4. q.op = "remove" /\ q.step = "rest" /\ q \in StepRequest
  BY <1>2, <1>3 DEF RemoveStep, StepRequest
<1> HIDE DEF q
<1>5. Fits(q)
  <2>1. RemovesApart => FitsLevel(q)
    BY <1>1, <1>2, <1>3 DEF Fits, FitsLevel
  <2> QED BY <1>4, <2>1 DEF Fits, FitsDefault, FitsNames, FitsCodes, FitsApps, FitsAlways
<1>6. \A p \in SecurityRequests : p # r /\ Holds(stepReq[p]) => stepReq[p].device # q.device
  BY <1>1, <1>3 DEF RowLocked, Deleted, Holds
<1>7. HoldsAlone(r, q) /\ ~Naming(stepReq[r])
  BY <1>1, <1>6 DEF HoldsAlone, Naming
<1> QED BY <1>1, <1>4, <1>5, <1>7, GoingOnKeeps

LEMMA LeaveTheRestKeeps ==
    ASSUME StepsIInv, NEW r \in SecurityRequests, LeaveTheRest(r)
    PROVE  StepsIInv'
<1> DEFINE d == stepReq[r].device
           u == stepReq[r].under
           rest == saved \ {d}
<1>1. /\ stepReq[r].op = "remove" /\ stepReq[r].step = "rest"
      /\ UNCHANGED <<saved, default, codes, level>>
      /\ IF rest = {} \/ ~EnsureDefault(r, rest) THEN StepTo(r, Commits(stepReq[r], rest = {}))
         ELSE \E x \in rest : StepTo(r, MakesDefault(stepReq[r], x))
  BY DEF LeaveTheRest
<1>2. stepReq[r] \in RemoveStep /\ Fits(stepReq[r])
  BY <1>1, AtStep
<1>3. d \in Devices /\ u \in Levels
  BY <1>2 DEF RemoveStep
<1>4. RemovesApart => Enough(u, saved \ {d})
  BY <1>1, <1>2 DEF Fits, FitsLevel
<1>5. Holds(stepReq[r]) /\ ~Naming(stepReq[r])
  BY <1>1 DEF Holds, Naming
<1>6. default \subseteq saved /\ saved \subseteq Devices
  BY DEF StepsIInv, StepTables
<1>7. CASE rest = {} \/ ~EnsureDefault(r, rest)
  <2> DEFINE q == Commits(stepReq[r], rest = {})
  <2>1. StepTo(r, q)
    BY <1>1, <1>7
  <2>2. q \in RemoveCommits
    BY <1>3 DEF RemoveCommits, Commits
  <2>3. /\ q.op = "remove" /\ q.step = "commit" /\ q.device = d /\ q.under = u
        /\ q.last = (rest = {}) /\ q \in StepRequest
    BY <2>2 DEF Commits, StepRequest
  <2> HIDE DEF q
  <2>4. saved \subseteq {d} \/ default \ {d} # {}
    BY <1>7 DEF EnsureDefault
  <2>5. q.last = TRUE \/ saved \ {d} # {}
    BY <2>3
  <2>6. FitsLevel(q) <=> Enough(u, saved \ {d})
    BY <2>3 DEF FitsLevel
  <2>7. Fits(q)
    BY <1>4, <2>3, <2>4, <2>5, <2>6
       DEF Fits, FitsDefault, FitsNames, FitsCodes, FitsApps, FitsAlways
  <2> QED BY <1>1, <1>5, <2>1, <2>3, <2>7, GoingOnKeeps DEF HoldsAlone
<1>8. CASE ~(rest = {} \/ ~EnsureDefault(r, rest))
  <2>1. PICK x \in rest : StepTo(r, MakesDefault(stepReq[r], x))
    BY <1>1, <1>8
  <2> DEFINE q == MakesDefault(stepReq[r], x)
  <2>2. q \in RemoveRenames
    BY <1>3, <1>6 DEF RemoveRenames, MakesDefault
  <2>3. /\ q.op = "remove" /\ q.step = "default" /\ q.device = d /\ q.under = u
        /\ q.oldest # q.device /\ q \in StepRequest /\ StepTo(r, q)
    BY <2>1, <2>2 DEF MakesDefault, StepRequest
  <2> HIDE DEF q
  <2>4. default \subseteq {d}
    BY <1>6, <1>8 DEF EnsureDefault
  <2>5. FitsLevel(q) <=> Enough(u, saved \ {d})
    BY <2>3 DEF FitsLevel
  <2>6. Fits(q)
    BY <1>4, <2>3, <2>4, <2>5 DEF Fits, FitsDefault, FitsNames, FitsCodes, FitsApps, FitsAlways
  <2> QED BY <1>1, <1>5, <2>3, <2>6, GoingOnKeeps DEF HoldsAlone
<1> QED BY <1>7, <1>8

LEMMA DeleteEverythingKeeps ==
    ASSUME StepsIInv, NEW r \in SecurityRequests, DeleteEverything(r)
    PROVE  StepsIInv'
<1> DEFINE q == [op |-> "off", step |-> "commit", byOthers |-> stepReq[r].byOthers,
                 under |-> stepReq[r].under, gone |-> saved]
<1>1. /\ stepReq[r].op = "off" /\ stepReq[r].step = "off" /\ StepTo(r, q)
      /\ UNCHANGED <<saved, default, codes, level>>
  BY DEF DeleteEverything
<1>2. stepReq[r] \in OffStep /\ FitsAlways(stepReq[r])
  BY <1>1, AtStep DEF Fits
<1>3. q \in OffCommits
  BY <1>2 DEF OffCommits, OffStep, StepsIInv, StepTables
<1>4. /\ q.op = "off" /\ q.step = "commit" /\ q.gone = saved /\ q \in StepRequest
      /\ q.byOthers = stepReq[r].byOthers /\ q.under = stepReq[r].under
  BY <1>3 DEF StepRequest
<1> HIDE DEF q
<1>5. FitsAlways(q)
  BY <1>1, <1>2, <1>4 DEF FitsAlways
<1>6. Fits(q)
  BY <1>4, <1>5 DEF Fits, FitsDefault, FitsNames, FitsCodes, FitsApps, FitsLevel
<1>7. HoldsAlone(r, q) /\ ~Naming(stepReq[r])
  BY <1>1, <1>4 DEF HoldsAlone, Holds, Naming
<1> QED BY <1>1, <1>4, <1>6, <1>7, GoingOnKeeps

LEMMA StepRequestDiesKeeps ==
    ASSUME StepsIInv, NEW r \in SecurityRequests, StepRequestDies(r)
    PROVE  StepsIInv'
<1>1. /\ stepReq' = [stepReq EXCEPT ![r] = NoStep] /\ pairs' = pairs
      /\ unnamed' = (unnamed \/ Naming(stepReq[r])) /\ UNCHANGED <<saved, default, codes, level>>
  BY DEF StepRequestDies, Naming
<1>2. NoStep \in StepRequest /\ NoStep.op = "none"
  BY DEF StepRequest, NoStep
<1>3. Meets(r, NoStep) /\ HoldsAlone(r, NoStep) /\ Fits(NoStep)
  BY <1>2, IdleFits DEF Meets, HoldsAlone, Holds
<1>4. unnamed \in BOOLEAN /\ level' \in Levels
  BY <1>1 DEF StepsIInv, StepTables
<1>5. unnamed' \in BOOLEAN
  BY <1>1, <1>4 DEF Naming
<1>6. unnamed' = FALSE => unnamed = FALSE /\ ~Naming(stepReq[r])
  BY <1>1, <1>4
<1> QED BY <1>1, <1>2, <1>3, <1>4, <1>5, <1>6, QuietKeeps

\* What the requests besides r are not, where an exception rules it out.
LEMMA NotMeanwhile ==
    ASSUME StepsIInv, NEW r \in SecurityRequests, NEW p \in SecurityRequests, p # r,
           pairs' = pairs
    PROVE  /\ stepReq[r].op = "add" /\ AddsApart => stepReq[p].op \notin {"add", "remove", "off"}
           /\ stepReq[r].op = "remove" /\ AddsApart => stepReq[p].op # "add"
           /\ stepReq[r].op = "off" /\ AddsApart => stepReq[p].op # "add"
           /\ stepReq[r].op = "add" /\ CodesApart => stepReq[p].op \notin {"remove", "off"}
           /\ stepReq[r].op = "codes" /\ CodesApart => stepReq[p].op \notin {"remove", "off"}
           /\ stepReq[r].op = "remove" /\ CodesApart => stepReq[p].op \notin {"add", "remove", "codes"}
           /\ stepReq[r].op = "off" /\ CodesApart => stepReq[p].op \notin {"add", "codes"}
           /\ stepReq[r].op = "add" /\ OneAdds => stepReq[p].op # "add"
           /\ stepReq[r].op = "remove" /\ RemovesApart => stepReq[p].op # "remove"
           /\ stepReq[r].op = "off" /\ RemovesApart => stepReq[p].op # "remove"
           /\ stepReq[r].op = "remove" /\ Unmet({{"remove"}}) => stepReq[p].op # "remove"
<1> DEFINE a == stepReq[r].op
           b == stepReq[p].op
<1>1. a # "none" /\ b # "none" => {a, b} \in pairs
  BY DEF StepsIInv, PairsSeen
<1> HIDE DEF a, b
<1>2. a = "add" /\ AddsApart => b \notin {"add", "remove", "off"}
  BY <1>1 DEF AddsApart, Unmet
<1>3. a \in {"remove", "off"} /\ AddsApart => b # "add"
  BY <1>1 DEF AddsApart, Unmet
<1>4. a \in {"add", "codes"} /\ CodesApart => b \notin {"remove", "off"}
  BY <1>1 DEF CodesApart, Unmet
<1>5. a = "remove" /\ CodesApart => b \notin {"add", "remove", "codes"}
  BY <1>1 DEF CodesApart, Unmet
<1>6. a = "off" /\ CodesApart => b \notin {"add", "codes"}
  BY <1>1 DEF CodesApart, Unmet
<1>7. a = "add" /\ OneAdds => b # "add"
  BY <1>1 DEF OneAdds, Unmet
<1>8. a \in {"remove", "off"} /\ RemovesApart => b # "remove"
  BY <1>1 DEF RemovesApart, Unmet
<1>9. a = "remove" /\ Unmet({{"remove"}}) => b # "remove"
  BY <1>1 DEF Unmet
<1> QED BY <1>2, <1>3, <1>4, <1>5, <1>6, <1>7, <1>8, <1>9 DEF a, b

LEMMA FinishKeeps ==
    ASSUME StepsIInv, NEW r \in SecurityRequests, NEW q \in StepRequest, StepTo(r, q),
           q.op \in {"none", stepReq[r].op}, ~Holds(q),
           saved' \in SUBSET Devices, IsFiniteSet(saved'), default' \subseteq saved',
           codes' \in BOOLEAN, level' = level,
           MethodsStand',
           Fits(stepReq[r])',
           \A p \in SecurityRequests : p # r => Fits(stepReq[p])'
    PROVE  StepsIInv'
<1>1. stepReq' = [stepReq EXCEPT ![r] = q] /\ pairs' = pairs /\ unnamed' = unnamed
  BY DEF StepTo
<1>2. Meets(r, q) /\ HoldsAlone(r, q)
  BY DEF Meets, HoldsAlone
<1>3. unnamed' \in BOOLEAN /\ level' \in Levels
  BY <1>1 DEF StepsIInv, StepTables
<1> QED BY <1>1, <1>2, <1>3, StepKeeps

LEMMA SameExceptions ==
    ASSUME pairs' = pairs, unnamed' = unnamed
    PROVE  /\ AddsApart' = AddsApart /\ NamesKept' = NamesKept /\ CodesApart' = CodesApart
           /\ RemovesApart' = RemovesApart /\ OneAdds' = OneAdds
BY DEF AddsApart, NamesKept, CodesApart, RemovesApart, OneAdds, Unmet

LEMMA SaveDeviceKeeps ==
    ASSUME StepsIInv, NEW r \in SecurityRequests, SaveDevice(r)
    PROVE  StepsIInv'
<1> DEFINE d == stepReq[r].device
           q == [stepReq[r] EXCEPT !.step = "count"]
<1>1. /\ stepReq[r].op = "add" /\ stepReq[r].step = "save" /\ StepTo(r, q)
      /\ saved' = saved \cup {d} /\ default' = default \cup {d} /\ codes' = codes /\ level' = level
  BY DEF SaveDevice
<1>2. stepReq[r] \in AddStep /\ Fits(stepReq[r])
  BY <1>1, AtStep
<1>3. /\ q.op = "add" /\ q.step = "count" /\ q.device = d /\ q \in StepRequest /\ d \in Devices
  BY <1>1, <1>2 DEF AddStep, StepRequest
<1> HIDE DEF q, d
<1>4. /\ saved \subseteq Devices /\ IsFiniteSet(saved) /\ default \subseteq saved
      /\ codes \in BOOLEAN /\ stepReq \in [SecurityRequests -> StepRequest]
  BY DEF StepsIInv, StepTables
<1>5. /\ saved' \in SUBSET Devices /\ IsFiniteSet(saved') /\ default' \subseteq saved'
      /\ codes' \in BOOLEAN
  BY <1>1, <1>3, <1>4, FS_AddElement
<1>6. /\ stepReq'[r] = q /\ pairs' = pairs /\ unnamed' = unnamed
      /\ \A p \in SecurityRequests : p # r => stepReq'[p] = stepReq[p]
  BY <1>1, <1>4 DEF StepTo
<1>7. /\ AddsApart' = AddsApart /\ NamesKept' = NamesKept /\ CodesApart' = CodesApart
      /\ RemovesApart' = RemovesApart /\ OneAdds' = OneAdds
  BY <1>6, SameExceptions
<1>8. MethodsStand'
  <2>1. ADefault' /\ CodesHaveAMethod'
    BY <1>1 DEF ADefault, CodesHaveAMethod
  <2>2. OneDefault'
    BY <1>3, <1>6 DEF OneDefault, Naming
  <2>3. OneAppAtMost'
    <3>1. OneAdds => OneAtMost(saved \cap Apps) /\ (d \in Apps => saved \cap Apps = {})
      BY <1>1, <1>2 DEF StepsIInv, MethodsStand, OneAppAtMost, Fits, FitsApps, d
    <3> QED BY <1>1, <1>7, <3>1 DEF OneAppAtMost, OneAtMost
  <2> QED BY <2>1, <2>2, <2>3 DEF MethodsStand
<1>9. Fits(stepReq[r])'
  <2>1. AddsApart /\ NamesKept => FitsDefault(stepReq[r])'
    <3> SUFFICES ASSUME AddsApart, NamesKept PROVE FitsDefault(stepReq[r])'
      OBVIOUS
    <3>1. d \notin saved /\ (saved # {} => default # {})
      BY <1>1, <1>2 DEF StepsIInv, MethodsStand, ADefault, Fits, FitsDefault, d
    <3>2. saved' \ {d} = saved /\ default' \ {d} = default /\ d \in saved'
      BY <1>1, <1>4, <3>1
    <3> QED BY <1>3, <1>6, <3>1, <3>2 DEF FitsDefault
  <2>2. AddsApart /\ unnamed = FALSE => FitsNames(stepReq[r])'
    <3> SUFFICES ASSUME AddsApart, unnamed = FALSE PROVE FitsNames(stepReq[r])'
      OBVIOUS
    <3>1. \A p \in SecurityRequests : ~Naming(stepReq[p])
      <4> SUFFICES ASSUME NEW p \in SecurityRequests PROVE ~Naming(stepReq[p])
        OBVIOUS
      <4>1. CASE p = r
        BY <1>1, <4>1 DEF Naming
      <4>2. CASE p # r
        BY <1>1, <1>6, <4>2, NotMeanwhile DEF Naming
      <4> QED BY <4>1, <4>2
    <3>2. OneAtMost(default)
      BY <3>1 DEF StepsIInv, MethodsStand, OneDefault
    <3>3. OneAtMost(default' \ {d})
      BY <1>1, <3>2 DEF OneAtMost
    <3> QED BY <1>3, <1>6, <3>3 DEF FitsNames, OneAtMost
  <2> QED BY <1>3, <1>6, <1>7, <2>1, <2>2 DEF Fits, FitsCodes, FitsApps, FitsLevel, FitsAlways
<1>10. \A p \in SecurityRequests : p # r => Fits(stepReq[p])'
  <2> SUFFICES ASSUME NEW p \in SecurityRequests, p # r PROVE Fits(stepReq[p])'
    OBVIOUS
  <2> DEFINE x == stepReq[p]
  <2>1. Fits(x) /\ stepReq'[p] = x
    BY <1>6 DEF StepsIInv
  <2>2. /\ AddsApart => x.op \notin {"add", "remove", "off"}
        /\ OneAdds => x.op # "add"
    BY <1>1, <1>6, NotMeanwhile
  <2> HIDE DEF x
  <2>3. AddsApart => FitsDefault(stepReq[p])' /\ FitsNames(stepReq[p])'
    BY <2>1, <2>2 DEF FitsDefault, FitsNames
  <2>4. FitsCodes(x) => FitsCodes(stepReq[p])'
    BY <1>1, <2>1 DEF FitsCodes
  <2>5. OneAdds => FitsApps(stepReq[p])'
    BY <2>1, <2>2 DEF FitsApps
  <2>6. FitsLevel(x) => FitsLevel(stepReq[p])'
    BY <1>1, <2>1 DEF FitsLevel, Enough
  <2>7. FitsAlways(x) => FitsAlways(stepReq[p])'
    BY <2>1 DEF FitsAlways
  <2> QED BY <1>7, <2>1, <2>3, <2>4, <2>5, <2>6, <2>7 DEF Fits
<1>11. ~Holds(q) /\ q.op = stepReq[r].op
  BY <1>1, <1>3 DEF Holds
<1> QED BY <1>1, <1>3, <1>5, <1>8, <1>9, <1>10, <1>11, FinishKeeps

LEMMA SaveNameKeeps ==
    ASSUME StepsIInv, NEW r \in SecurityRequests, SaveName(r)
    PROVE  StepsIInv'
<1> DEFINE d == stepReq[r].device
           f == stepReq[r].first
<1>1. /\ stepReq[r].op = "add" /\ stepReq[r].step = "name"
      /\ default' = IF f THEN default \cup ({d} \cap saved) ELSE default \ {d}
      /\ UNCHANGED <<saved, codes, level>>
  BY DEF SaveName
<1>2. stepReq[r] \in AddNamed /\ Fits(stepReq[r])
  BY <1>1, AtStep
<1>3. \E q \in StepRequest : /\ StepTo(r, q) /\ ~Naming(q) /\ ~Holds(q)
                             /\ \/ q.op = "none"
                                \/ q.op = "add" /\ q.step = "codes" /\ saved # {}
  <2>1. CASE Answered(r)
    <3>1. StepTo(r, NoStep) /\ NoStep.op = "none" /\ NoStep \in StepRequest
      BY <2>1 DEF Answered, NoStep, StepRequest
    <3> QED BY <3>1 DEF Naming, Holds
  <2>2. CASE d \in saved /\ StepTo(r, [stepReq[r] EXCEPT !.step = "codes"])
    <3> DEFINE q == [stepReq[r] EXCEPT !.step = "codes"]
    <3>1. q.op = "add" /\ q.step = "codes" /\ q \in StepRequest
      BY <1>2 DEF AddNamed, StepRequest
    <3> HIDE DEF q
    <3> QED BY <2>2, <3>1 DEF Naming, Holds, q
  <2>3. \/ Answered(r)
        \/ d \in saved /\ StepTo(r, [stepReq[r] EXCEPT !.step = "codes"])
    BY DEF SaveName
  <2> QED BY <2>1, <2>2, <2>3
<1>4. PICK q \in StepRequest : /\ StepTo(r, q) /\ ~Naming(q) /\ ~Holds(q)
                               /\ \/ q.op = "none"
                                  \/ q.op = "add" /\ q.step = "codes" /\ saved # {}
  BY <1>3
<1>5. /\ saved \subseteq Devices /\ IsFiniteSet(saved) /\ default \subseteq saved
      /\ codes \in BOOLEAN /\ stepReq \in [SecurityRequests -> StepRequest] /\ f \in BOOLEAN
  BY <1>2 DEF StepsIInv, StepTables, AddNamed
<1> HIDE DEF d, f
<1>6. /\ saved' \in SUBSET Devices /\ IsFiniteSet(saved') /\ default' \subseteq saved'
      /\ codes' \in BOOLEAN
  BY <1>1, <1>5
<1>7. /\ stepReq'[r] = q /\ pairs' = pairs /\ unnamed' = unnamed
      /\ \A p \in SecurityRequests : p # r => stepReq'[p] = stepReq[p]
  BY <1>4, <1>5 DEF StepTo
<1>8. /\ AddsApart' = AddsApart /\ NamesKept' = NamesKept /\ CodesApart' = CodesApart
      /\ RemovesApart' = RemovesApart /\ OneAdds' = OneAdds
  BY <1>7, SameExceptions
<1>9. MethodsStand'
  <2>1. ADefault'
    <3> SUFFICES ASSUME AddsApart, NamesKept, saved # {} PROVE default' # {}
      BY <1>1, <1>8 DEF ADefault
    <3>1. default # {} /\ (f = TRUE \/ default \ {d} # {})
      BY <1>1, <1>2 DEF StepsIInv, MethodsStand, ADefault, Fits, FitsDefault, d, f
    <3> QED BY <1>1, <1>5, <3>1
  <2>2. OneDefault'
    <3> SUFFICES ASSUME AddsApart, unnamed = FALSE PROVE OneAtMost(default')
      BY <1>7, <1>8 DEF OneDefault, OneAtMost
    <3>1. IF f THEN saved \subseteq {d} ELSE OneAtMost(default \ {d})
      BY <1>1, <1>2 DEF Fits, FitsNames, d, f
    <3> QED BY <1>1, <1>5, <3>1 DEF OneAtMost
  <2>3. CodesHaveAMethod' /\ OneAppAtMost'
    BY <1>1, <1>8 DEF StepsIInv, MethodsStand, CodesHaveAMethod, OneAppAtMost, OneAtMost
  <2> QED BY <2>1, <2>2, <2>3 DEF MethodsStand
<1>10. Fits(stepReq[r])'
  BY <1>1, <1>4, <1>7 DEF Fits, FitsDefault, FitsNames, FitsCodes, FitsApps, FitsLevel, FitsAlways
<1>11. \A p \in SecurityRequests : p # r => Fits(stepReq[p])'
  <2> SUFFICES ASSUME NEW p \in SecurityRequests, p # r PROVE Fits(stepReq[p])'
    OBVIOUS
  <2> DEFINE x == stepReq[p]
  <2>1. Fits(x) /\ stepReq'[p] = x
    BY <1>7 DEF StepsIInv
  <2>2. AddsApart => x.op \notin {"add", "remove", "off"}
    BY <1>1, <1>7, NotMeanwhile
  <2> HIDE DEF x
  <2>3. AddsApart => FitsDefault(stepReq[p])' /\ FitsNames(stepReq[p])'
    BY <2>1, <2>2 DEF FitsDefault, FitsNames
  <2>4. FitsCodes(x) => FitsCodes(stepReq[p])'
    BY <1>1, <2>1 DEF FitsCodes
  <2>5. FitsApps(x) => FitsApps(stepReq[p])'
    BY <1>1, <2>1 DEF FitsApps
  <2>6. FitsLevel(x) => FitsLevel(stepReq[p])'
    BY <1>1, <2>1 DEF FitsLevel, Enough
  <2>7. FitsAlways(x) => FitsAlways(stepReq[p])'
    BY <2>1 DEF FitsAlways
  <2> QED BY <1>8, <2>1, <2>3, <2>4, <2>5, <2>6, <2>7 DEF Fits
<1> QED BY <1>1, <1>4, <1>6, <1>9, <1>10, <1>11, FinishKeeps

\* Requests that end with what they wrote.
LEMMA AnswerKeeps ==
    ASSUME StepsIInv, NEW r \in SecurityRequests, Answered(r),
           saved' \in SUBSET saved, default' \subseteq saved', codes' \in BOOLEAN, level' = level,
           MethodsStand',
           \A p \in SecurityRequests : p # r =>
              /\ AddsApart /\ NamesKept => FitsDefault(stepReq[p])'
              /\ AddsApart /\ unnamed = FALSE => FitsNames(stepReq[p])'
              /\ CodesApart => FitsCodes(stepReq[p])'
              /\ RemovesApart => FitsLevel(stepReq[p])'
    PROVE  StepsIInv'
<1>1. /\ StepTo(r, NoStep) /\ NoStep.op = "none" /\ NoStep \in StepRequest /\ ~Holds(NoStep)
  BY DEF Answered, NoStep, StepRequest, Holds
<1>2. stepReq \in [SecurityRequests -> StepRequest] /\ saved \subseteq Devices /\ IsFiniteSet(saved)
  BY DEF StepsIInv, StepTables
<1>3. /\ stepReq'[r].op = "none" /\ pairs' = pairs /\ unnamed' = unnamed
      /\ \A p \in SecurityRequests : p # r => stepReq'[p] = stepReq[p]
  BY <1>1, <1>2 DEF StepTo
<1>4. /\ AddsApart' = AddsApart /\ NamesKept' = NamesKept /\ CodesApart' = CodesApart
      /\ RemovesApart' = RemovesApart /\ OneAdds' = OneAdds
  BY <1>3, SameExceptions
<1>5. Fits(stepReq[r])'
  BY <1>3 DEF Fits, FitsDefault, FitsNames, FitsCodes, FitsApps, FitsLevel, FitsAlways
<1>6. \A p \in SecurityRequests : p # r => Fits(stepReq[p])'
  <2> SUFFICES ASSUME NEW p \in SecurityRequests, p # r PROVE Fits(stepReq[p])'
    OBVIOUS
  <2>1. Fits(stepReq[p]) /\ stepReq'[p] = stepReq[p]
    BY <1>3 DEF StepsIInv
  <2>2. FitsApps(stepReq[p]) => FitsApps(stepReq[p])'
    BY <2>1 DEF FitsApps
  <2>3. FitsAlways(stepReq[p]) => FitsAlways(stepReq[p])'
    BY <2>1 DEF FitsAlways
  <2>4. (unnamed = FALSE)' <=> unnamed = FALSE
    BY <1>3
  <2> QED BY <1>4, <2>1, <2>2, <2>3, <2>4 DEF Fits
<1>7. saved' \in SUBSET Devices /\ IsFiniteSet(saved')
  BY <1>2, FS_Subset
<1> QED BY <1>1, <1>5, <1>6, <1>7, FinishKeeps

LEMMA MakeBackupCodesKeeps ==
    ASSUME StepsIInv, NEW r \in SecurityRequests, MakeBackupCodes(r)
    PROVE  StepsIInv'
<1>1. /\ stepReq[r].op \in {"add", "codes"} /\ stepReq[r].step = "codes"
      /\ codes' = TRUE /\ Answered(r) /\ UNCHANGED <<saved, default, level>>
  BY DEF MakeBackupCodes
<1>2. Fits(stepReq[r]) /\ default \subseteq saved /\ stepReq \in [SecurityRequests -> StepRequest]
  BY DEF StepsIInv, StepTables
<1>3. /\ stepReq'[r].op = "none" /\ pairs' = pairs /\ unnamed' = unnamed
      /\ \A p \in SecurityRequests : p # r => stepReq'[p] = stepReq[p]
  BY <1>1, <1>2 DEF Answered, StepTo, NoStep
<1>4. /\ AddsApart' = AddsApart /\ NamesKept' = NamesKept /\ CodesApart' = CodesApart
      /\ RemovesApart' = RemovesApart /\ OneAdds' = OneAdds
  BY <1>3, SameExceptions
<1>5. MethodsStand'
  <2>1. ADefault' /\ OneAppAtMost'
    BY <1>1, <1>4 DEF StepsIInv, MethodsStand, ADefault, OneAppAtMost, OneAtMost
  <2>2. OneDefault'
    <3> SUFFICES ASSUME AddsApart, unnamed = FALSE,
                        \A p \in SecurityRequests : ~Naming(stepReq'[p])
                 PROVE  OneAtMost(default)
      BY <1>1, <1>3, <1>4 DEF OneDefault, OneAtMost, Naming
    <3>1. \A p \in SecurityRequests : ~Naming(stepReq[p])
      BY <1>1, <1>3 DEF Naming
    <3> QED BY <3>1 DEF StepsIInv, MethodsStand, OneDefault
  <2>3. CodesHaveAMethod'
    BY <1>1, <1>2, <1>4 DEF CodesHaveAMethod, Fits, FitsCodes
  <2> QED BY <2>1, <2>2, <2>3 DEF MethodsStand
<1>6. ASSUME NEW p \in SecurityRequests, p # r
      PROVE  /\ AddsApart /\ NamesKept => FitsDefault(stepReq[p])'
             /\ AddsApart /\ unnamed = FALSE => FitsNames(stepReq[p])'
             /\ CodesApart => FitsCodes(stepReq[p])'
             /\ RemovesApart => FitsLevel(stepReq[p])'
  <2>1. Fits(stepReq[p]) /\ stepReq'[p] = stepReq[p]
    BY <1>3, <1>6 DEF StepsIInv
  <2>2. FitsDefault(stepReq[p]) => FitsDefault(stepReq[p])'
    BY <1>1, <2>1 DEF FitsDefault
  <2>3. FitsNames(stepReq[p]) => FitsNames(stepReq[p])'
    BY <1>1, <2>1 DEF FitsNames, OneAtMost
  <2>4. CodesApart => stepReq[p].op # "remove"
    BY <1>1, <1>3, <1>6, NotMeanwhile
  <2>5. CodesApart /\ FitsCodes(stepReq[p]) => FitsCodes(stepReq[p])'
    BY <1>1, <2>1, <2>4 DEF FitsCodes
  <2>6. FitsLevel(stepReq[p]) => FitsLevel(stepReq[p])'
    BY <1>1, <2>1 DEF FitsLevel, Enough
  <2> QED BY <2>1, <2>2, <2>3, <2>5, <2>6 DEF Fits
<1>7. saved' \in SUBSET saved /\ default' \subseteq saved' /\ codes' \in BOOLEAN
  BY <1>1, <1>2
<1> QED BY <1>1, <1>5, <1>6, <1>7, AnswerKeeps

\* Two removals go on only with different devices, and one that is under way
\* keeps the device it found saved.
LEMMA CommitRemoveKeeps ==
    ASSUME StepsIInv, NEW r \in SecurityRequests, CommitRemove(r)
    PROVE  StepsIInv'
<1> DEFINE d == stepReq[r].device
<1>1. /\ stepReq[r].op = "remove" /\ stepReq[r].step = "commit"
      /\ saved' = saved \ {d} /\ default' = default \ {d}
      /\ codes' = (codes /\ ~stepReq[r].last) /\ Answered(r) /\ level' = level
  BY DEF CommitRemove
<1>2. /\ Fits(stepReq[r]) /\ default \subseteq saved /\ codes \in BOOLEAN
      /\ stepReq \in [SecurityRequests -> StepRequest]
  BY DEF StepsIInv, StepTables
<1>3. /\ stepReq'[r].op = "none" /\ pairs' = pairs /\ unnamed' = unnamed
      /\ \A p \in SecurityRequests : p # r => stepReq'[p] = stepReq[p]
  BY <1>1, <1>2 DEF Answered, StepTo, NoStep
<1>4. /\ AddsApart' = AddsApart /\ NamesKept' = NamesKept /\ CodesApart' = CodesApart
      /\ RemovesApart' = RemovesApart /\ OneAdds' = OneAdds
  BY <1>3, SameExceptions
<1>5. AddsApart /\ NamesKept => saved \subseteq {d} \/ default \ {d} # {}
  BY <1>1, <1>2 DEF Fits, FitsDefault
<1>6. AddsApart /\ unnamed = FALSE => OneAtMost(default)
  <2> SUFFICES ASSUME AddsApart, unnamed = FALSE PROVE OneAtMost(default)
    OBVIOUS
  <2>1. \A p \in SecurityRequests : ~Naming(stepReq[p])
    <3> SUFFICES ASSUME NEW p \in SecurityRequests PROVE ~Naming(stepReq[p])
      OBVIOUS
    <3>1. CASE p = r
      BY <1>1, <3>1 DEF Naming
    <3>2. CASE p # r
      BY <1>1, <1>3, <3>2, NotMeanwhile DEF Naming
    <3> QED BY <3>1, <3>2
  <2> QED BY <2>1 DEF StepsIInv, MethodsStand, OneDefault
<1>7. CodesApart => stepReq[r].last = TRUE \/ codes = FALSE \/ saved \ {d} # {}
  BY <1>1, <1>2 DEF Fits, FitsCodes
<1> HIDE DEF d
<1>8. MethodsStand'
  <2>1. ADefault'
    BY <1>1, <1>2, <1>4, <1>5 DEF ADefault
  <2>2. OneDefault'
    BY <1>1, <1>3, <1>4, <1>6 DEF OneDefault, OneAtMost
  <2>3. CodesHaveAMethod'
    BY <1>1, <1>2, <1>4, <1>7 DEF CodesHaveAMethod
  <2>4. OneAppAtMost'
    BY <1>1, <1>4 DEF StepsIInv, MethodsStand, OneAppAtMost, OneAtMost
  <2> QED BY <2>1, <2>2, <2>3, <2>4 DEF MethodsStand
<1>9. ASSUME NEW p \in SecurityRequests, p # r
      PROVE  /\ AddsApart /\ NamesKept => FitsDefault(stepReq[p])'
             /\ AddsApart /\ unnamed = FALSE => FitsNames(stepReq[p])'
             /\ CodesApart => FitsCodes(stepReq[p])'
             /\ RemovesApart => FitsLevel(stepReq[p])'
  <2> DEFINE x == stepReq[p]
  <2>1. Fits(x) /\ stepReq'[p] = x
    BY <1>3, <1>9 DEF StepsIInv
  <2>2. /\ AddsApart => x.op # "add"
        /\ CodesApart => x.op \notin {"add", "remove", "codes"}
        /\ RemovesApart => x.op # "remove"
        /\ Unmet({{"remove"}}) => x.op # "remove"
    BY <1>1, <1>3, <1>9, NotMeanwhile
  <2>3. Holds(x) => x.device # d
    BY <1>1, <1>9 DEF StepsIInv, OneHolds, Holds, d
  <2> HIDE DEF x
  <2>4. AddsApart /\ NamesKept => FitsDefault(stepReq[p])'
    <3> SUFFICES ASSUME AddsApart, NamesKept PROVE FitsDefault(stepReq[p])'
      OBVIOUS
    <3>1. x.op # "add" /\ FitsDefault(x)
      BY <2>1, <2>2 DEF Fits
    <3>2. x.op = "off" /\ x.step = "commit" => saved' \subseteq x.gone
      BY <1>1, <3>1 DEF FitsDefault
    <3>3. ASSUME x.op = "remove", x.step = "commit"
          PROVE  saved' \subseteq {x.device} \/ default' \ {x.device} # {}
      <4>1. OneAtMost(default)
        BY <1>6, <2>2, <3>3 DEF NamesKept
      <4>2. x.device # d
        BY <2>3, <3>3 DEF Holds
      <4>3. saved \subseteq {x.device} \/ default \ {x.device} # {}
        BY <3>1, <3>3 DEF FitsDefault
      <4>4. CASE saved \subseteq {x.device} \/ saved \subseteq {d}
        BY <1>1, <4>4
      <4>5. CASE default \ {x.device} # {} /\ default \ {d} # {}
        <5>1. PICK a \in default : a # x.device
          BY <4>5
        <5>2. PICK b \in default : b # d
          BY <4>5
        <5>3. a = b
          BY <4>1 DEF OneAtMost
        <5> QED BY <1>1, <5>1, <5>2, <5>3
      <4> QED BY <1>5, <4>3, <4>4, <4>5
    <3> QED BY <2>1, <3>1, <3>2, <3>3 DEF FitsDefault
  <2>5. AddsApart /\ unnamed = FALSE => FitsNames(stepReq[p])'
    BY <1>1, <2>1, <2>2 DEF Fits, FitsNames
  <2>6. CodesApart => FitsCodes(stepReq[p])'
    BY <2>1, <2>2 DEF FitsCodes
  <2>7. RemovesApart => FitsLevel(stepReq[p])'
    BY <2>1, <2>2 DEF FitsLevel
  <2> QED BY <2>4, <2>5, <2>6, <2>7
<1>10. saved' \in SUBSET saved /\ default' \subseteq saved' /\ codes' \in BOOLEAN
  BY <1>1, <1>2
<1> QED BY <1>1, <1>8, <1>9, <1>10, AnswerKeeps

LEMMA SetDefaultKeeps ==
    ASSUME StepsIInv, NEW r \in SecurityRequests, SetDefault(r)
    PROVE  StepsIInv'
<1> DEFINE d == stepReq[r].device
           o == stepReq[r].oldest
<1>1. /\ stepReq[r].op = "remove" /\ stepReq[r].step = "default" /\ ~RowLocked(r, o)
      /\ Answered(r) /\ UNCHANGED <<codes, level>>
      /\ \/ o \in saved /\ saved' = saved \ {d} /\ default' = (default \cup {o}) \ {d}
         \/ UNCHANGED <<saved, default>>
  BY DEF SetDefault
<1>2. /\ Fits(stepReq[r]) /\ default \subseteq saved /\ codes \in BOOLEAN
      /\ stepReq \in [SecurityRequests -> StepRequest]
  BY DEF StepsIInv, StepTables
<1>3. CASE UNCHANGED <<saved, default>>
  <2>1. /\ StepTo(r, NoStep) /\ NoStep.op = "none" /\ NoStep \in StepRequest
    BY <1>1 DEF Answered, NoStep, StepRequest
  <2>2. /\ stepReq' = [stepReq EXCEPT ![r] = NoStep] /\ pairs' = pairs /\ unnamed' = unnamed
    BY <2>1 DEF StepTo
  <2>3. Meets(r, NoStep) /\ HoldsAlone(r, NoStep) /\ Fits(NoStep) /\ ~Naming(stepReq[r])
    BY <1>1, <2>1, IdleFits DEF Meets, HoldsAlone, Holds, Naming
  <2>4. unnamed' \in BOOLEAN /\ level' \in Levels
    BY <1>1, <2>2 DEF StepsIInv, StepTables
  <2> QED BY <1>1, <1>3, <2>1, <2>2, <2>3, <2>4, QuietKeeps
<1>4. CASE o \in saved /\ saved' = saved \ {d} /\ default' = (default \cup {o}) \ {d}
  <2>1. o # d
    BY <1>1, <1>2 DEF Fits, FitsAlways
  <2>2. o \in saved' /\ o \in default'
    BY <1>4, <2>1
  <2>3. /\ stepReq'[r].op = "none" /\ pairs' = pairs /\ unnamed' = unnamed
        /\ \A p \in SecurityRequests : p # r => stepReq'[p] = stepReq[p]
    BY <1>1, <1>2 DEF Answered, StepTo, NoStep
  <2>4. /\ AddsApart' = AddsApart /\ NamesKept' = NamesKept /\ CodesApart' = CodesApart
        /\ RemovesApart' = RemovesApart /\ OneAdds' = OneAdds
    BY <2>3, SameExceptions
  <2>5. AddsApart /\ unnamed = FALSE => default \subseteq {d}
    BY <1>1, <1>2 DEF Fits, FitsNames
  <2>6. AddsApart /\ unnamed = FALSE => default # {}
    BY <1>4 DEF StepsIInv, MethodsStand, ADefault, NamesKept
  <2>7. MethodsStand'
    <3>1. ADefault' /\ CodesHaveAMethod'
      BY <2>2 DEF ADefault, CodesHaveAMethod
    <3>2. OneDefault'
      BY <1>4, <2>3, <2>4, <2>5 DEF OneDefault, OneAtMost
    <3>3. OneAppAtMost'
      BY <1>4, <2>4 DEF StepsIInv, MethodsStand, OneAppAtMost, OneAtMost
    <3> QED BY <3>1, <3>2, <3>3 DEF MethodsStand
  <2>8. ASSUME NEW p \in SecurityRequests, p # r
        PROVE  /\ AddsApart /\ NamesKept => FitsDefault(stepReq[p])'
               /\ AddsApart /\ unnamed = FALSE => FitsNames(stepReq[p])'
               /\ CodesApart => FitsCodes(stepReq[p])'
               /\ RemovesApart => FitsLevel(stepReq[p])'
    <3> DEFINE x == stepReq[p]
    <3>1. Fits(x) /\ stepReq'[p] = x
      BY <2>3, <2>8 DEF StepsIInv
    <3>2. /\ AddsApart => x.op # "add"
          /\ CodesApart => x.op \notin {"add", "remove", "codes"}
          /\ RemovesApart => x.op # "remove"
      BY <1>1, <2>3, <2>8, NotMeanwhile
    <3>3. Holds(x) => x.device # d /\ x.device # o
      <4>1. Holds(x) => x.device # d
        BY <1>1, <2>8 DEF StepsIInv, OneHolds, Holds
      <4>2. Holds(x) => x.device # o
        BY <1>1, <2>8 DEF RowLocked, Deleted, Holds
      <4> QED BY <4>1, <4>2
    <3> HIDE DEF x
    <3>4. AddsApart /\ NamesKept => FitsDefault(stepReq[p])'
      <4> SUFFICES ASSUME AddsApart, NamesKept PROVE FitsDefault(stepReq[p])'
        OBVIOUS
      <4>1. x.op # "add" /\ FitsDefault(x)
        BY <3>1, <3>2 DEF Fits
      <4>2. x.op = "off" /\ x.step = "commit" => saved' \subseteq x.gone
        BY <1>4, <4>1 DEF FitsDefault
      <4>3. x.op = "remove" /\ x.step = "commit" => default' \ {x.device} # {}
        BY <2>2, <3>3 DEF Holds
      <4> QED BY <3>1, <4>1, <4>2, <4>3 DEF FitsDefault
    <3>5. AddsApart /\ unnamed = FALSE => FitsNames(stepReq[p])'
      <4> SUFFICES ASSUME AddsApart, unnamed = FALSE PROVE FitsNames(stepReq[p])'
        OBVIOUS
      <4>1. x.op # "add" /\ FitsNames(x) /\ default \subseteq {d} /\ default # {}
        BY <2>5, <2>6, <3>1, <3>2 DEF Fits
      <4>2. ~(x.op = "remove" /\ x.step = "default")
        BY <3>3, <4>1 DEF FitsNames, Holds
      <4> QED BY <3>1, <4>1, <4>2 DEF FitsNames
    <3>6. CodesApart => FitsCodes(stepReq[p])'
      BY <3>1, <3>2 DEF FitsCodes
    <3>7. RemovesApart => FitsLevel(stepReq[p])'
      BY <3>1, <3>2 DEF FitsLevel
    <3> QED BY <3>4, <3>5, <3>6, <3>7
  <2>9. saved' \in SUBSET saved /\ default' \subseteq saved' /\ codes' \in BOOLEAN
    BY <1>1, <1>2, <1>4, <2>1
  <2> QED BY <1>1, <2>7, <2>8, <2>9, AnswerKeeps
<1> QED BY <1>1, <1>3, <1>4

LEMMA CommitOffKeeps ==
    ASSUME StepsIInv, NEW r \in SecurityRequests, CommitOff(r)
    PROVE  StepsIInv'
<1> DEFINE g == stepReq[r].gone
<1>1. /\ stepReq[r].op = "off" /\ stepReq[r].step = "commit"
      /\ saved' = saved \ g /\ default' = default \ g
      /\ codes' = FALSE /\ Answered(r) /\ level' = level
  BY DEF CommitOff
<1>2. /\ Fits(stepReq[r]) /\ default \subseteq saved
      /\ stepReq \in [SecurityRequests -> StepRequest]
  BY DEF StepsIInv, StepTables
<1>3. /\ stepReq'[r].op = "none" /\ pairs' = pairs /\ unnamed' = unnamed
      /\ \A p \in SecurityRequests : p # r => stepReq'[p] = stepReq[p]
  BY <1>1, <1>2 DEF Answered, StepTo, NoStep
<1>4. /\ AddsApart' = AddsApart /\ NamesKept' = NamesKept /\ CodesApart' = CodesApart
      /\ RemovesApart' = RemovesApart /\ OneAdds' = OneAdds
  BY <1>3, SameExceptions
<1>5. AddsApart /\ NamesKept => saved \subseteq g
  BY <1>1, <1>2 DEF Fits, FitsDefault
<1> HIDE DEF g
<1>6. AddsApart /\ NamesKept => saved' = {} /\ default' = {}
  BY <1>1, <1>2, <1>5
<1>7. MethodsStand'
  <2>1. ADefault' /\ OneDefault' /\ CodesHaveAMethod'
    BY <1>1, <1>3, <1>4, <1>6 DEF ADefault, OneDefault, CodesHaveAMethod, OneAtMost, NamesKept
  <2>2. OneAppAtMost'
    BY <1>1, <1>4 DEF StepsIInv, MethodsStand, OneAppAtMost, OneAtMost
  <2> QED BY <2>1, <2>2 DEF MethodsStand
<1>8. ASSUME NEW p \in SecurityRequests, p # r
      PROVE  /\ AddsApart /\ NamesKept => FitsDefault(stepReq[p])'
             /\ AddsApart /\ unnamed = FALSE => FitsNames(stepReq[p])'
             /\ CodesApart => FitsCodes(stepReq[p])'
             /\ RemovesApart => FitsLevel(stepReq[p])'
  <2> DEFINE x == stepReq[p]
  <2>1. Fits(x) /\ stepReq'[p] = x
    BY <1>3, <1>8 DEF StepsIInv
  <2>2. /\ AddsApart => x.op # "add"
        /\ CodesApart => x.op \notin {"add", "codes"}
        /\ RemovesApart => x.op # "remove"
    BY <1>1, <1>3, <1>8, NotMeanwhile
  <2> HIDE DEF x
  <2>3. AddsApart /\ NamesKept => FitsDefault(stepReq[p])'
    BY <1>6, <2>1, <2>2 DEF FitsDefault
  <2>4. AddsApart /\ unnamed = FALSE => FitsNames(stepReq[p])'
    BY <1>6, <2>1, <2>2 DEF FitsNames, NamesKept
  <2>5. CodesApart => FitsCodes(stepReq[p])'
    BY <1>1, <2>1, <2>2 DEF FitsCodes
  <2>6. RemovesApart => FitsLevel(stepReq[p])'
    BY <2>1, <2>2 DEF FitsLevel
  <2> QED BY <2>3, <2>4, <2>5, <2>6
<1>9. saved' \in SUBSET saved /\ default' \subseteq saved' /\ codes' \in BOOLEAN
  BY <1>1, <1>2
<1> QED BY <1>1, <1>7, <1>8, <1>9, AnswerKeeps

LEMMA RequirementChangesKeeps ==
    ASSUME StepsIInv, UNCHANGED <<saved, default, codes, stepReq, unnamed, pairs>>, level' \in Levels
    PROVE  StepsIInv'
<1>1. StepTables' /\ PairsSeen' /\ OneHolds'
  BY DEF StepsIInv, StepTables, PairsSeen, OneHolds, Holds
<1>2. /\ AddsApart' = AddsApart /\ NamesKept' = NamesKept /\ CodesApart' = CodesApart
      /\ RemovesApart' = RemovesApart /\ OneAdds' = OneAdds
  BY SameExceptions
<1>3. MethodsStand'
  BY <1>2 DEF StepsIInv, MethodsStand, ADefault, OneDefault, CodesHaveAMethod, OneAppAtMost,
              OneAtMost, Naming
<1>4. \A r \in SecurityRequests : Fits(stepReq[r])'
  <2> SUFFICES ASSUME NEW r \in SecurityRequests PROVE Fits(stepReq[r])'
    OBVIOUS
  <2> DEFINE x == stepReq[r]
  <2>1. Fits(x) /\ stepReq'[r] = x
    BY DEF StepsIInv
  <2> HIDE DEF x
  <2> QED BY <2>1, FitsStays
<1>5. (\A r \in SecurityRequests : Fits(stepReq[r]))'
  BY <1>4
<1> QED BY <1>1, <1>3, <1>5 DEF StepsIInv

LEMMA TwoStepNextKeeps == StepsIInv /\ [TwoStepNext]_twoStepVars => StepsIInv'
<1> SUFFICES ASSUME StepsIInv, [TwoStepNext]_twoStepVars PROVE StepsIInv'
  OBVIOUS
<1>1. ASSUME NEW r \in SecurityRequests, NEW d \in Devices, Add(r, d) \/ Remove(r, d)
      PROVE  StepsIInv'
  BY <1>1, AddKeeps, RemoveKeeps
<1>2. ASSUME NEW r \in SecurityRequests,
             AskCodes(r) \/ \E byOthers \in BOOLEAN : TurnOff(r, byOthers)
      PROVE  StepsIInv'
  BY <1>2, AskCodesKeeps, TurnOffKeeps
<1>3. ASSUME NEW r \in SecurityRequests,
             SaveDevice(r) \/ CountMethods(r) \/ SaveName(r) \/ MakeBackupCodes(r)
      PROVE  StepsIInv'
  BY <1>3, SaveDeviceKeeps, CountMethodsKeeps, SaveNameKeeps, MakeBackupCodesKeeps
<1>4. ASSUME NEW r \in SecurityRequests,
             DeleteDevice(r) \/ LeaveTheRest(r) \/ SetDefault(r) \/ CommitRemove(r)
      PROVE  StepsIInv'
  BY <1>4, DeleteDeviceKeeps, LeaveTheRestKeeps, SetDefaultKeeps, CommitRemoveKeeps
<1>5. ASSUME NEW r \in SecurityRequests,
             DeleteEverything(r) \/ CommitOff(r) \/ StepRequestDies(r)
      PROVE  StepsIInv'
  BY <1>5, DeleteEverythingKeeps, CommitOffKeeps, StepRequestDiesKeeps
<1>6. CASE RequirementChanges
  BY <1>6, RequirementChangesKeeps DEF RequirementChanges
<1>7. CASE UNCHANGED twoStepVars
  <2>1. UNCHANGED <<saved, default, codes, stepReq, unnamed, pairs>> /\ level' \in Levels
    BY <1>7 DEF twoStepVars, StepsIInv, StepTables
  <2> QED BY <2>1, RequirementChangesKeeps
<1> QED BY <1>1, <1>2, <1>3, <1>4, <1>5, <1>6, <1>7 DEF TwoStepNext

\* The methods of an account can be signed in with, for any devices and any
\* number of requests, however they overlap and die, with the exceptions the
\* properties name. (accounts.two_step, accounts.security_views)
THEOREM MethodsAreSound == TwoStepSpec => []MethodsInv
<1>1. StepsIInv /\ [TwoStepNext]_twoStepVars => StepsIInv'
  BY TwoStepNextKeeps
<1> QED BY <1>1, StepsInitOK, StepsIInvImplies, PTL DEF TwoStepSpec

\* Nobody takes away their own last method that their role requires, unless two
\* removals were checked at once, or the role came after the check.
\* (accounts.two_step:requirement_blocks_removal)
LEMMA WhatIsTakenIsChecked ==
    ASSUME StepsIInv, TwoStepNext, MeetsLevel, level' = level, RemovesApart,
           \A r \in SecurityRequests :
              stepReq'[r] = NoStep /\ stepReq[r].op \in {"remove", "off"} =>
                ~(stepReq[r].op = "off" /\ stepReq[r].byOthers) /\ stepReq[r].under = level
    PROVE  MeetsLevel'
<1>1. saved \subseteq saved' => MeetsLevel'
  BY DEF MeetsLevel, Counting
<1>2. stepReq \in [SecurityRequests -> StepRequest]
  BY DEF StepsIInv, StepTables
<1>3. ASSUME NEW r \in SecurityRequests, stepReq[r].op = "remove", Answered(r),
             saved' = saved \ {stepReq[r].device}
      PROVE  MeetsLevel'
  <2>1. stepReq'[r] = NoStep
    BY <1>2, <1>3 DEF Answered, StepTo
  <2>2. stepReq[r].under = level
    BY <1>3, <2>1
  <2>3. Enough(level, saved')
    BY <1>3, <2>2 DEF StepsIInv, Fits, FitsLevel
  <2> QED BY <2>3 DEF Enough, MeetsLevel, Counting
<1>4. ASSUME NEW r \in SecurityRequests, CommitOff(r) PROVE MeetsLevel'
  <2>1. stepReq[r].op = "off" /\ stepReq[r].step = "commit" /\ stepReq'[r] = NoStep
    BY <1>2, <1>4 DEF CommitOff, Answered, StepTo
  <2>2. ~stepReq[r].byOthers /\ stepReq[r].under = level
    BY <2>1
  <2>3. stepReq[r].byOthers = TRUE \/ stepReq[r].under = "password"
    BY <2>1 DEF StepsIInv, Fits, FitsAlways
  <2>4. stepReq[r].under = "password"
    BY <2>2, <2>3
  <2> QED BY <2>2, <2>4 DEF MeetsLevel
<1>5. ASSUME NEW r \in SecurityRequests, CommitRemove(r) \/ SetDefault(r) PROVE MeetsLevel'
  <2>1. /\ stepReq[r].op = "remove" /\ Answered(r)
        /\ saved' = saved \/ saved' = saved \ {stepReq[r].device}
    BY <1>5 DEF CommitRemove, SetDefault
  <2> QED BY <1>1, <1>3, <2>1
<1>6. ASSUME NEW r \in SecurityRequests, SaveDevice(r) PROVE MeetsLevel'
  BY <1>1, <1>6 DEF SaveDevice
<1>7. CASE saved' = saved
  BY <1>1, <1>7
<1>8. ASSUME NEW r \in SecurityRequests, NEW d \in Devices, Add(r, d) \/ Remove(r, d)
      PROVE  saved' = saved
  BY <1>8 DEF Add, Remove
<1>9. ASSUME NEW r \in SecurityRequests,
             AskCodes(r) \/ \E byOthers \in BOOLEAN : TurnOff(r, byOthers)
      PROVE  saved' = saved
  BY <1>9 DEF AskCodes, TurnOff
<1>10. ASSUME NEW r \in SecurityRequests,
              \/ CountMethods(r) \/ SaveName(r) \/ MakeBackupCodes(r)
              \/ DeleteDevice(r) \/ LeaveTheRest(r) \/ DeleteEverything(r) \/ StepRequestDies(r)
       PROVE  saved' = saved
  BY <1>10 DEF CountMethods, SaveName, MakeBackupCodes, DeleteDevice, LeaveTheRest,
               DeleteEverything, StepRequestDies
<1>11. RequirementChanges => saved' = saved
  BY DEF RequirementChanges
<1> QED BY <1>4, <1>5, <1>6, <1>7, <1>8, <1>9, <1>10, <1>11 DEF TwoStepNext

\* The same of every behaviour, for any devices, requests and levels.
\* (accounts.two_step:requirement_blocks_removal)
THEOREM WhatIsRequiredIsKept == TwoStepSpec => TheRequiredMethodStays
<1>1. StepsIInv /\ [TwoStepNext]_twoStepVars => StepsIInv'
  BY TwoStepNextKeeps
<1>2. StepsIInv /\ [TwoStepNext]_twoStepVars =>
        [LET took == {r \in SecurityRequests : stepReq'[r] = NoStep /\ stepReq[r].op \in {"remove", "off"}} IN
         (/\ MeetsLevel /\ level' = level
          /\ {{"remove"}, {"off", "remove"}} \cap pairs = {}
          /\ \A r \in took : ~(stepReq[r].op = "off" /\ stepReq[r].byOthers) /\ stepReq[r].under = level)
             => MeetsLevel']_twoStepVars
  BY WhatIsTakenIsChecked DEF RemovesApart, Unmet
<1> QED BY <1>1, <1>2, StepsInitOK, PTL DEF TwoStepSpec, TheRequiredMethodStays

-----------------------------------------------------------------------------
(* Links, addresses and passwords *)

LinkRow == [status : {"none", "active", "disabled"}, method : Methods, usable : BOOLEAN,
            email : Addresses]
MailedLink == [kind : Kinds, account : LinkAccounts, at : Addresses, to : Addresses,
               by : {"holder", "guardian"}, dead : BOOLEAN, uses : 0..2, mixed : BOOLEAN,
               old : BOOLEAN]
LinkRecord == MailedLink \cup {NoLink}

Opened == [op : Kinds, link : Links, account : LinkAccounts, row : LinkRow, checked : BOOLEAN]
Typing == [op : {"password"}, account : LinkAccounts, row : LinkRow]
GivenRow == [status : {"active"}, method : Methods, usable : {FALSE}, email : Addresses]
Giving == [op : {"give"}, account : {Child}, row : GivenRow]
LinkRequest == {Ready} \cup Opened \cup Typing \cup Giving

LinkTables ==
    /\ acct \in [LinkAccounts -> LinkRow]
    /\ guards \in BOOLEAN /\ raced \in BOOLEAN
    /\ link \in [Links -> LinkRecord]
    /\ linkReq \in [LinkRequests -> LinkRequest]

\* What a link stands for is gone once it was used, or its account was removed
\* or went over to links.
LinkFits(l) ==
    LET k == link[l] IN
    /\ k.kind = "change" => k.at # k.to
    /\ k.kind = "reset" => k.dead = TRUE \/ acct[k.account].method = "password"
    /\ k.kind \in {"login", "reset", "switch"} => k.dead = TRUE \/ (k.uses = 0 /\ k.old = FALSE)
    /\ k.kind \in {"login", "reset", "switch"} => k.mixed = TRUE \/ k.uses \in {0, 1}

\* The link a request opened stays, unused while nobody else has it open.
OpenFits(q) ==
    q.op \in Kinds =>
      /\ link[q.link].kind = q.op
      /\ link[q.link].account = q.account
      /\ q.op # "change" => link[q.link].mixed = TRUE \/ (link[q.link].uses = 0 /\ link[q.link].old = FALSE)

RowFits(q) == q.op \in {"reset", "password"} => q.row.method = "password"

\* The address a request is about to write.
Target(q) == IF q.op = "change" THEN link[q.link].to ELSE q.row.email
Writes(q) == q.op \in {"give", "password", "reset"} \/ (q.op = "change" /\ q.checked = TRUE)

NobodyHas(address, a) == \A b \in LinkAccounts : b # a /\ acct[b].status # "none" => acct[b].email # address

TargetFits(q) == raced = FALSE /\ Writes(q) => NobodyHas(Target(q), q.account)

ReqFits(q) == OpenFits(q) /\ RowFits(q) /\ TargetFits(q)

SharedAreMixed ==
    \A r, p \in LinkRequests :
        r # p /\ linkReq[r].op \in Kinds /\ linkReq[p].op \in Kinds /\ linkReq[r].link = linkReq[p].link =>
            link[linkReq[r].link].mixed = TRUE

OneWrites ==
    \A r, p \in LinkRequests :
        r # p /\ Writing(linkReq[r].op) /\ Writing(linkReq[p].op) => raced = TRUE

AllFree == raced = FALSE => \A a \in LinkAccounts : Exists(a) => NobodyHas(acct[a].email, a)

NoPassword == \A a \in LinkAccounts : acct[a].method = "link" => acct[a].usable = FALSE

LinksIInv ==
    /\ LinkTables
    /\ \A l \in Links : LinkFits(l)
    /\ SharedAreMixed
    /\ OneWrites
    /\ AllFree
    /\ NoPassword
    /\ \A r \in LinkRequests : ReqFits(linkReq[r])

LEMMA LinksInitOK == LinksInit => LinksIInv
<1> SUFFICES ASSUME LinksInit PROVE LinksIInv
  OBVIOUS
<1>1. \A r \in LinkRequests : linkReq[r] = Ready
  BY DEF LinksInit
<1>2. \A r \in LinkRequests : linkReq[r].op = "idle"
  BY <1>1 DEF Ready
<1>3. \A l \in Links : link[l].kind = "none"
  BY DEF LinksInit, NoLink
<1>4. acct \in [LinkAccounts -> [status : {"none", "active"}, method : {"password"},
                              usable : BOOLEAN, email : Addresses]]
  BY DEF LinksInit
<1>5. acct \in [LinkAccounts -> LinkRow]
  <2>1. [status : {"none", "active"}, method : {"password"}, usable : BOOLEAN, email : Addresses]
          \subseteq LinkRow
    BY DEF LinkRow, Methods
  <2> QED BY <1>4, <2>1
<1>6. LinkTables
  BY <1>5 DEF LinksInit, LinkTables, LinkRecord, LinkRequest
<1>7. \A l \in Links : LinkFits(l)
  BY <1>3 DEF LinkFits
<1>8. SharedAreMixed /\ OneWrites
  BY <1>2 DEF SharedAreMixed, OneWrites, Kinds, Writing
<1>9. AllFree
  BY DEF LinksInit, AllFree, NobodyHas
<1>10. NoPassword
  BY <1>4 DEF NoPassword
<1>11. \A r \in LinkRequests : ReqFits(linkReq[r])
  BY <1>2 DEF ReqFits, OpenFits, RowFits, TargetFits, Writes, Kinds
<1> QED BY <1>6, <1>7, <1>8, <1>9, <1>10, <1>11 DEF LinksIInv

LEMMA LinksIInvImplies == LinksIInv => LinksInv
<1> SUFFICES ASSUME LinksIInv PROVE LinksInv
  OBVIOUS
<1>1. \A l \in Links : link[l].kind # "none" => link[l] \in MailedLink
  BY DEF LinksIInv, LinkTables, LinkRecord, NoLink
<1>2. LinksTypeOK
  <2>1. ASSUME NEW l \in Links, Mailed(l)
        PROVE  /\ link[l].kind \in Kinds /\ link[l].account \in LinkAccounts
               /\ link[l].at \in Addresses /\ link[l].to \in Addresses
               /\ link[l].kind = "change" => link[l].at # link[l].to
               /\ link[l].uses \in 0..2
    <3>1. link[l] \in MailedLink
      BY <1>1, <2>1 DEF Mailed
    <3>2. link[l].kind = "change" => link[l].at # link[l].to
      BY DEF LinksIInv, LinkFits
    <3> QED BY <3>1, <3>2 DEF MailedLink
  <2>2. ASSUME NEW r \in LinkRequests
        PROVE  linkReq[r].op \in Kinds \cup {"idle", "password", "give"}
    <3>1. linkReq[r] \in LinkRequest
      BY DEF LinksIInv, LinkTables
    <3> QED BY <3>1 DEF LinkRequest, Ready, Opened, Typing, Giving
  <2>3. acct \in [LinkAccounts -> [status : {"none", "active", "disabled"}, method : Methods,
                              usable : BOOLEAN, email : Addresses]]
    BY DEF LinksIInv, LinkTables, LinkRow
  <2> QED BY <2>1, <2>2, <2>3 DEF LinksTypeOK, LinksIInv, LinkTables
<1>3. LinksWorkOnce
  <2> SUFFICES ASSUME NEW l \in Links, Mailed(l), link[l].kind # "change", ~link[l].mixed
               PROVE  link[l].uses <= 1
    BY DEF LinksWorkOnce
  <2>1. link[l] \in MailedLink
    BY <1>1 DEF Mailed
  <2>2. link[l].kind \in {"login", "reset", "switch"} /\ link[l].mixed = FALSE
    BY <2>1 DEF MailedLink, Kinds
  <2>3. link[l].uses \in {0, 1}
    BY <2>2 DEF LinksIInv, LinkFits
  <2> QED BY <2>3
<1>4. AddressesAreDistinct
  BY DEF LinksIInv, LinkTables, AllFree, NobodyHas, AddressesAreDistinct, Exists
<1>5. LinkAccountsHaveNoPassword
  BY DEF LinksIInv, NoPassword, LinkAccountsHaveNoPassword
<1> QED BY <1>2, <1>3, <1>4, <1>5 DEF LinksInv

\* What else a step may do while requests besides those of R are under way: their
\* links stay, and while one of them is to write an address, nobody gets one.
LinksStay(R) ==
    \A p \in LinkRequests \ R :
        linkReq[p].op \in Kinds =>
          LET l == linkReq[p].link IN
          /\ link'[l].kind = link[l].kind /\ link'[l].account = link[l].account
          /\ link'[l].to = link[l].to
          /\ link[l].mixed = TRUE => link'[l].mixed = TRUE
          /\ link'[l].mixed = TRUE \/ (link'[l].uses = link[l].uses /\ link'[l].old = link[l].old)

AddressesStay(R) ==
    \A p \in LinkRequests \ R :
        Writing(linkReq[p].op) /\ raced' = FALSE =>
          \A b \in LinkAccounts : acct'[b].status # "none" =>
            acct[b].status # "none" /\ acct'[b].email = acct[b].email

GoesOnWith(r, q) ==
    /\ q.op \in Kinds =>
         \A p \in LinkRequests : p # r /\ linkReq[p].op \in Kinds /\ linkReq[p].link = q.link =>
             link'[q.link].mixed = TRUE
    /\ Writing(q.op) =>
         \A p \in LinkRequests : p # r /\ Writing(linkReq[p].op) => raced' = TRUE

LEMMA WritesAreWriting == \A q : Writes(q) => Writing(q.op)
BY DEF Writes, Writing

LEMMA OtherRequestsFit ==
    ASSUME NEW R, NEW p \in LinkRequests \ R, ReqFits(linkReq[p]), linkReq'[p] = linkReq[p],
           raced' = FALSE => raced = FALSE, LinksStay(R), AddressesStay(R)
    PROVE  ReqFits(linkReq[p])'
<1> DEFINE x == linkReq[p]
<1>1. ReqFits(x) /\ linkReq'[p] = x
  OBVIOUS
<1>2. x.op \in Kinds =>
        /\ link'[x.link].kind = link[x.link].kind /\ link'[x.link].account = link[x.link].account
        /\ link'[x.link].to = link[x.link].to
        /\ link[x.link].mixed = TRUE => link'[x.link].mixed = TRUE
        /\ \/ link'[x.link].mixed = TRUE
           \/ link'[x.link].uses = link[x.link].uses /\ link'[x.link].old = link[x.link].old
  BY DEF LinksStay
<1>3. Writing(x.op) /\ raced' = FALSE =>
          \A b \in LinkAccounts : acct'[b].status # "none" =>
            acct[b].status # "none" /\ acct'[b].email = acct[b].email
  BY DEF AddressesStay
<1> HIDE DEF x
<1>4. OpenFits(x) => OpenFits(linkReq[p])'
  BY <1>1, <1>2 DEF OpenFits
<1>5. RowFits(x) => RowFits(linkReq[p])'
  BY <1>1 DEF RowFits
<1>6. TargetFits(x) => TargetFits(linkReq[p])'
  <2> SUFFICES ASSUME TargetFits(x), raced' = FALSE, Writes(x)
               PROVE  /\ Target(linkReq[p])' = Target(x)
                      /\ \A b \in LinkAccounts : b # x.account /\ acct'[b].status # "none" =>
                           acct'[b].email # Target(x)
    BY <1>1 DEF TargetFits, NobodyHas, Writes
  <2>1. Target(linkReq[p])' = Target(x)
    BY <1>1, <1>2 DEF Target, Kinds
  <2>2. NobodyHas(Target(x), x.account) /\ Writing(x.op)
    BY WritesAreWriting DEF TargetFits
  <2>3. \A b \in LinkAccounts : b # x.account /\ acct'[b].status # "none" =>
          acct'[b].email # Target(x)
    BY <1>3, <2>2 DEF NobodyHas
  <2> QED BY <2>1, <2>3
<1> QED BY <1>1, <1>4, <1>5, <1>6 DEF ReqFits

LEMMA LinksStepKeeps ==
    ASSUME LinksIInv, NEW R \in SUBSET LinkRequests, \A r, p \in R : r = p,
           linkReq' \in [LinkRequests -> LinkRequest],
           \A p \in LinkRequests \ R : linkReq'[p] = linkReq[p],
           acct' \in [LinkAccounts -> LinkRow], link' \in [Links -> LinkRecord],
           guards' \in BOOLEAN, raced' \in BOOLEAN, raced' = FALSE => raced = FALSE,
           LinksStay(R), AddressesStay(R),
           \A r \in R : GoesOnWith(r, linkReq'[r]) /\ ReqFits(linkReq[r])',
           \A l \in Links : LinkFits(l)',
           AllFree', NoPassword'
    PROVE  LinksIInv'
<1>1. LinkTables'
  BY DEF LinkTables
<1>2. SharedAreMixed'
  <2> SUFFICES ASSUME NEW a \in LinkRequests, NEW b \in LinkRequests, a # b,
                      linkReq'[a].op \in Kinds, linkReq'[b].op \in Kinds,
                      linkReq'[a].link = linkReq'[b].link
               PROVE  link'[linkReq'[a].link].mixed = TRUE
    BY DEF SharedAreMixed
  <2>1. CASE a \in R
    BY <2>1 DEF GoesOnWith
  <2>2. CASE b \in R
    BY <2>2 DEF GoesOnWith
  <2>3. CASE a \notin R /\ b \notin R
    BY <2>3 DEF LinksIInv, SharedAreMixed, LinksStay
  <2> QED BY <2>1, <2>2, <2>3
<1>3. OneWrites'
  <2> SUFFICES ASSUME NEW a \in LinkRequests, NEW b \in LinkRequests, a # b,
                      Writing(linkReq'[a].op), Writing(linkReq'[b].op)
               PROVE  raced' = TRUE
    BY DEF OneWrites, Writing
  <2>1. CASE a \in R
    BY <2>1 DEF GoesOnWith
  <2>2. CASE b \in R
    BY <2>2 DEF GoesOnWith
  <2>3. CASE a \notin R /\ b \notin R
    BY <2>3 DEF LinksIInv, OneWrites
  <2> QED BY <2>1, <2>2, <2>3
<1>4. \A p \in LinkRequests : ReqFits(linkReq[p])'
  <2> SUFFICES ASSUME NEW p \in LinkRequests, p \notin R PROVE ReqFits(linkReq[p])'
    OBVIOUS
  <2>1. ReqFits(linkReq[p])
    BY DEF LinksIInv
  <2> QED BY <2>1, OtherRequestsFit
<1>5. (\A p \in LinkRequests : ReqFits(linkReq[p]))'
  BY <1>4
<1>6. (\A l \in Links : LinkFits(l))'
  OBVIOUS
<1> QED BY <1>1, <1>2, <1>3, <1>5, <1>6 DEF LinksIInv

\* A request that is done.
LEMMA DoneKeeps ==
    ASSUME LinksIInv, NEW r \in LinkRequests, Done(r),
           acct' \in [LinkAccounts -> LinkRow], link' \in [Links -> LinkRecord], guards' = guards,
           LinksStay({r}), AddressesStay({r}),
           \A l \in Links : LinkFits(l)',
           AllFree', NoPassword'
    PROVE  LinksIInv'
<1>1. linkReq \in [LinkRequests -> LinkRequest] /\ Ready \in LinkRequest /\ Ready.op = "idle"
  BY DEF LinksIInv, LinkTables, LinkRequest, Ready
<1>2. /\ linkReq' \in [LinkRequests -> LinkRequest] /\ linkReq'[r] = Ready /\ raced' = raced
      /\ \A p \in LinkRequests \ {r} : linkReq'[p] = linkReq[p]
  BY <1>1 DEF Done
<1>3. GoesOnWith(r, linkReq'[r]) /\ ReqFits(linkReq[r])'
  BY <1>1, <1>2 DEF GoesOnWith, ReqFits, OpenFits, RowFits, TargetFits, Writes, Writing, Kinds
<1>4. guards' \in BOOLEAN /\ raced' \in BOOLEAN
  BY <1>2 DEF LinksIInv, LinkTables
<1> DEFINE R == {r}
<1>5. R \in SUBSET LinkRequests /\ \A a, b \in R : a = b
  OBVIOUS
<1>6. \A a \in R : GoesOnWith(a, linkReq'[a]) /\ ReqFits(linkReq[a])'
  BY <1>3
<1> QED BY <1>2, <1>4, <1>5, <1>6, LinksStepKeeps

LEMMA NoRequestKeeps ==
    ASSUME LinksIInv, linkReq' = linkReq, raced' = raced,
           acct' \in [LinkAccounts -> LinkRow], link' \in [Links -> LinkRecord], guards' \in BOOLEAN,
           LinksStay({}), AddressesStay({}),
           \A l \in Links : LinkFits(l)',
           AllFree', NoPassword'
    PROVE  LinksIInv'
<1>1. linkReq' \in [LinkRequests -> LinkRequest] /\ raced' \in BOOLEAN
  BY DEF LinksIInv, LinkTables
<1> DEFINE R == {}
<1>2. /\ R \in SUBSET LinkRequests /\ \A a, b \in R : a = b
      /\ \A p \in LinkRequests \ R : linkReq'[p] = linkReq[p]
      /\ \A a \in R : GoesOnWith(a, linkReq'[a]) /\ ReqFits(linkReq[a])'
  OBVIOUS
<1> QED BY <1>1, <1>2, LinksStepKeeps

LEMMA LinkTyped ==
    ASSUME LinksIInv
    PROVE  /\ acct \in [LinkAccounts -> LinkRow] /\ link \in [Links -> LinkRecord]
           /\ linkReq \in [LinkRequests -> LinkRequest]
           /\ \A l \in Links : link[l].kind # "none" => link[l] \in MailedLink
           /\ \A r \in LinkRequests :
                /\ linkReq[r].op \in Kinds => linkReq[r] \in Opened
                /\ linkReq[r].op = "password" => linkReq[r] \in Typing
                /\ linkReq[r].op = "give" => linkReq[r] \in Giving
<1>1. /\ acct \in [LinkAccounts -> LinkRow] /\ link \in [Links -> LinkRecord]
      /\ linkReq \in [LinkRequests -> LinkRequest]
  BY DEF LinksIInv, LinkTables
<1>2. \A l \in Links : link[l].kind # "none" => link[l] \in MailedLink
  BY <1>1 DEF LinkRecord, NoLink
<1>3. ASSUME NEW q \in LinkRequest
      PROVE  /\ q.op \in Kinds => q \in Opened
             /\ q.op = "password" => q \in Typing
             /\ q.op = "give" => q \in Giving
  BY <1>3 DEF LinkRequest, Ready, Opened, Typing, Giving, Kinds
<1> QED BY <1>1, <1>2, <1>3

\* An open request's link is mailed.
LEMMA OpenIsMailed ==
    ASSUME LinksIInv, NEW r \in LinkRequests, linkReq[r].op \in Kinds
    PROVE  LET q == linkReq[r]
               k == link[linkReq[r].link]
           IN
           /\ q.link \in Links /\ q.account \in LinkAccounts /\ q.row \in LinkRow
           /\ q.checked \in BOOLEAN
           /\ k \in MailedLink /\ k.kind = q.op /\ k.account = q.account
           /\ q.op # "change" => k.mixed = TRUE \/ (k.uses = 0 /\ k.old = FALSE)
<1>1. linkReq[r] \in Opened
  BY LinkTyped
<1>2. /\ linkReq[r].link \in Links /\ linkReq[r].account \in LinkAccounts /\ linkReq[r].row \in LinkRow
      /\ linkReq[r].checked \in BOOLEAN
  BY <1>1 DEF Opened
<1>3. OpenFits(linkReq[r])
  BY DEF LinksIInv, ReqFits
<1>4. /\ link[linkReq[r].link].kind = linkReq[r].op /\ link[linkReq[r].link].account = linkReq[r].account
      /\ linkReq[r].op # "change" => \/ link[linkReq[r].link].mixed = TRUE
                                     \/ link[linkReq[r].link].uses = 0 /\ link[linkReq[r].link].old = FALSE
  BY <1>3 DEF OpenFits
<1>5. link[linkReq[r].link].kind # "none"
  BY <1>4 DEF Kinds
<1>6. link[linkReq[r].link] \in MailedLink
  BY <1>2, <1>5, LinkTyped
<1> QED BY <1>2, <1>4, <1>6

\* Dead(kinds, a) changes nothing but `dead`.
LEMMA DeadIs ==
    ASSUME LinksIInv, NEW kinds, NEW a
    PROVE  LET d == Dead(kinds, a) IN
           /\ d \in [Links -> LinkRecord]
           /\ \A l \in Links :
                /\ link[l].kind = "none" => d[l] = link[l]
                /\ d[l].kind = link[l].kind
                /\ link[l].kind # "none" =>
                     /\ d[l] \in MailedLink
                     /\ d[l].account = link[l].account /\ d[l].at = link[l].at /\ d[l].to = link[l].to
                     /\ d[l].uses = link[l].uses /\ d[l].mixed = link[l].mixed
                     /\ d[l].old = link[l].old
                     /\ link[l].dead = TRUE => d[l].dead = TRUE
                     /\ link[l].account = a /\ link[l].kind \in kinds => d[l].dead = TRUE
<1> DEFINE d == Dead(kinds, a)
<1>1. ASSUME NEW l \in Links
      PROVE  /\ link[l].kind = "none" => d[l] = link[l]
             /\ d[l] \in LinkRecord
             /\ d[l].kind = link[l].kind
             /\ link[l].kind # "none" =>
                  /\ d[l] \in MailedLink
                  /\ d[l].account = link[l].account /\ d[l].at = link[l].at /\ d[l].to = link[l].to
                  /\ d[l].uses = link[l].uses /\ d[l].mixed = link[l].mixed
                  /\ d[l].old = link[l].old
                  /\ link[l].dead = TRUE => d[l].dead = TRUE
                  /\ link[l].account = a /\ link[l].kind \in kinds => d[l].dead = TRUE
  <2>1. CASE link[l].kind # "none" /\ link[l].account = a /\ link[l].kind \in kinds
    <3>1. d[l] = [link[l] EXCEPT !.dead = TRUE]
      BY <2>1 DEF Dead, Mailed
    <3>2. link[l] \in MailedLink
      BY <2>1, LinkTyped
    <3> HIDE DEF d
    <3>3. d[l] \in MailedLink
      BY <3>1, <3>2 DEF MailedLink
    <3>4. d[l] \in LinkRecord
      BY <3>3 DEF LinkRecord
    <3> QED BY <2>1, <3>1, <3>2, <3>3, <3>4 DEF MailedLink
  <2>2. CASE ~(link[l].kind # "none" /\ link[l].account = a /\ link[l].kind \in kinds)
    <3>1. d[l] = link[l]
      BY <2>2 DEF Dead, Mailed
    <3> HIDE DEF d
    <3> QED BY <2>2, <3>1, LinkTyped
  <2> QED BY <2>1, <2>2
<1>2. d = [l \in Links |-> d[l]]
  BY DEF Dead
<1> HIDE DEF d
<1>3. d \in [Links -> LinkRecord]
  BY <1>1, <1>2
<1> QED BY <1>1, <1>3 DEF d

IsButDead(d, k) ==
    /\ d \in MailedLink
    /\ d.kind = k.kind /\ d.account = k.account /\ d.at = k.at /\ d.to = k.to
    /\ d.uses = k.uses /\ d.mixed = k.mixed /\ d.old = k.old

LEMMA DeadAt ==
    ASSUME LinksIInv, NEW kinds, NEW a, NEW l \in Links, link[l].kind # "none"
    PROVE  /\ IsButDead(Dead(kinds, a)[l], link[l])
           /\ link[l].account = a /\ link[l].kind \in kinds => Dead(kinds, a)[l].dead = TRUE
<1> DEFINE d == Dead(kinds, a)
<1>1. \A m \in Links :
        /\ link[m].kind = "none" => d[m] = link[m]
        /\ d[m].kind = link[m].kind
        /\ link[m].kind # "none" =>
             /\ d[m] \in MailedLink
             /\ d[m].account = link[m].account /\ d[m].at = link[m].at /\ d[m].to = link[m].to
             /\ d[m].uses = link[m].uses /\ d[m].mixed = link[m].mixed
             /\ d[m].old = link[m].old
             /\ link[m].dead = TRUE => d[m].dead = TRUE
             /\ link[m].account = a /\ link[m].kind \in kinds => d[m].dead = TRUE
  BY DeadIs
<1> HIDE DEF d
<1> QED BY <1>1 DEF d, IsButDead

LEMMA UsedIs ==
    ASSUME NEW links \in [Links -> LinkRecord], NEW l \in Links, links[l] \in MailedLink
    PROVE  LET u == Used(links, l) IN
           /\ u \in [Links -> LinkRecord]
           /\ \A m \in Links : m # l => u[m] = links[m]
           /\ u[l] \in MailedLink
           /\ u[l].kind = links[l].kind /\ u[l].account = links[l].account
           /\ u[l].at = links[l].at /\ u[l].to = links[l].to
           /\ u[l].dead = links[l].dead /\ u[l].mixed = links[l].mixed /\ u[l].old = links[l].old
           /\ links[l].uses = 0 => u[l].uses = 1
<1> DEFINE k == links[l]
           n == IF k.uses < 2 THEN k.uses + 1 ELSE 2
           m == [k EXCEPT !.uses = n]
<1>1. Used(links, l) = [links EXCEPT ![l] = m]
  BY DEF Used
<1>2. k.uses \in 0..2
  BY DEF MailedLink
<1>3. n \in 0..2 /\ (k.uses = 0 => n = 1)
  BY <1>2
<1> HIDE DEF n
<1>4. /\ m \in MailedLink
      /\ m.kind = k.kind /\ m.account = k.account /\ m.at = k.at /\ m.to = k.to
      /\ m.dead = k.dead /\ m.mixed = k.mixed /\ m.old = k.old /\ m.uses = n
  BY <1>3 DEF MailedLink
<1>5. m \in LinkRecord
  BY <1>4 DEF LinkRecord
<1> HIDE DEF m
<1>6. /\ Used(links, l) \in [Links -> LinkRecord]
      /\ Used(links, l)[l] = m
      /\ \A x \in Links : x # l => Used(links, l)[x] = links[x]
  BY <1>1, <1>5
<1> QED BY <1>3, <1>4, <1>6

\* Steps that leave the accounts alone.
LEMMA SameAccounts ==
    ASSUME LinksIInv, acct' = acct, raced' = FALSE => raced = FALSE, NEW R
    PROVE  /\ acct' \in [LinkAccounts -> LinkRow]
           /\ AllFree' /\ NoPassword' /\ AddressesStay(R)
BY DEF LinksIInv, LinkTables, AllFree, NobodyHas, Exists, NoPassword, AddressesStay

\* Steps after which an address is only where it was.
LEMMA SameAddresses ==
    ASSUME LinksIInv, raced' = raced, NEW R,
           \A b \in LinkAccounts : acct'[b].status # "none" =>
              acct[b].status # "none" /\ acct'[b].email = acct[b].email
    PROVE  AllFree' /\ AddressesStay(R)
<1>1. AllFree'
  BY DEF LinksIInv, AllFree, NobodyHas, Exists
<1>2. AddressesStay(R)
  BY DEF AddressesStay
<1> QED BY <1>1, <1>2

LEMMA MailKeeps ==
    ASSUME LinksIInv, NEW l \in Links, NEW kind \in Kinds, NEW a \in LinkAccounts,
           NEW to \in Addresses, NEW by \in {"holder", "guardian"}, Mail(l, kind, a, to, by),
           kind = "change" => to # acct[a].email,
           kind = "reset" => acct[a].method = "password"
    PROVE  LinksIInv'
<1> DEFINE k == [kind |-> kind, account |-> a, at |-> acct[a].email, to |-> to, by |-> by,
                 dead |-> FALSE, uses |-> 0, mixed |-> FALSE, old |-> FALSE]
<1>1. /\ link[l].kind = "none" /\ link' = [link EXCEPT ![l] = k]
      /\ UNCHANGED <<acct, guards, linkReq, raced>>
  BY DEF Mail, Mailed
<1>2. acct[a].email \in Addresses
  BY LinkTyped DEF LinkRow
<1>3. k \in MailedLink
  BY <1>2 DEF MailedLink
<1>4. /\ k.kind = kind /\ k.account = a /\ k.at = acct[a].email /\ k.to = to
      /\ k.uses = 0 /\ k.old = FALSE /\ k \in LinkRecord
  BY <1>3 DEF LinkRecord
<1> HIDE DEF k
<1>5. /\ link' \in [Links -> LinkRecord] /\ link'[l] = k
      /\ \A m \in Links : m # l => link'[m] = link[m]
  BY <1>1, <1>4, LinkTyped
<1>6. \A m \in Links : LinkFits(m)'
  <2> SUFFICES ASSUME NEW m \in Links PROVE LinkFits(m)'
    OBVIOUS
  <2>1. CASE m = l
    BY <1>1, <1>4, <1>5, <2>1 DEF LinkFits
  <2>2. CASE m # l
    BY <1>1, <1>5, <2>2 DEF LinksIInv, LinkFits
  <2> QED BY <2>1, <2>2
<1>7. \A p \in LinkRequests : linkReq[p].op \in Kinds => linkReq[p].link \in Links /\ linkReq[p].link # l
  BY <1>1, OpenIsMailed DEF Kinds
<1>8. LinksStay({})
  BY <1>5, <1>7 DEF LinksStay
<1>9. guards' \in BOOLEAN
  BY <1>1 DEF LinksIInv, LinkTables
<1> QED BY <1>1, <1>5, <1>6, <1>8, <1>9, SameAccounts, NoRequestKeeps

LEMMA MailsKeep ==
    ASSUME LinksIInv, NEW l \in Links, NEW a \in LinkAccounts,
           \/ RequestLink(l, a) \/ ResendLoginMail(l) \/ RequestSwitchToLink(l, a)
           \/ \E new \in Addresses : RequestChange(l, a, new)
    PROVE  LinksIInv'
<1>1. \A b \in LinkAccounts : acct[b].email \in Addresses /\ acct[b].method \in Methods
  BY LinkTyped DEF LinkRow
<1>2. Child \in LinkAccounts
  BY LinksAssumption
<1>3. ASSUME NEW b \in LinkAccounts, NEW by \in {"holder", "guardian"},
             Mail(l, IF acct[b].method = "link" THEN "login" ELSE "reset", b, acct[b].email, by)
      PROVE  LinksIInv'
  <2>1. CASE acct[b].method = "link"
    BY <1>1, <1>3, <2>1, MailKeeps DEF Kinds
  <2>2. CASE acct[b].method # "link"
    <3>1. acct[b].method = "password"
      BY <1>1, <2>2 DEF Methods
    <3> QED BY <1>1, <1>3, <2>2, <3>1, MailKeeps DEF Kinds
  <2> QED BY <2>1, <2>2
<1>4. CASE RequestLink(l, a)
  BY <1>3, <1>4 DEF RequestLink
<1>5. CASE ResendLoginMail(l)
  BY <1>2, <1>3, <1>5 DEF ResendLoginMail
<1>6. CASE RequestSwitchToLink(l, a)
  BY <1>1, <1>6, MailKeeps DEF RequestSwitchToLink, Kinds
<1>7. ASSUME NEW new \in Addresses, RequestChange(l, a, new) PROVE LinksIInv'
  <2> DEFINE by == IF a = Child THEN "guardian" ELSE "holder"
  <2>1. Mail(l, "change", a, new, by) /\ new # acct[a].email /\ by \in {"holder", "guardian"}
    BY <1>7 DEF RequestChange
  <2> HIDE DEF by
  <2> QED BY <2>1, MailKeeps DEF Kinds
<1> QED BY <1>4, <1>5, <1>6, <1>7

LEMMA ExpireKeeps ==
    ASSUME LinksIInv, NEW l \in Links, Expire(l)
    PROVE  LinksIInv'
<1>1. /\ \A r \in LinkRequests : linkReq[r].op \in Kinds => linkReq[r].link # l
      /\ link' = [link EXCEPT ![l] = NoLink] /\ UNCHANGED <<acct, guards, linkReq, raced>>
  BY DEF Expire
<1>2. NoLink \in LinkRecord /\ NoLink.kind = "none"
  BY DEF LinkRecord, NoLink
<1>3. /\ link' \in [Links -> LinkRecord] /\ link'[l] = NoLink
      /\ \A m \in Links : m # l => link'[m] = link[m]
  BY <1>1, <1>2, LinkTyped
<1>4. \A m \in Links : LinkFits(m)'
  <2> SUFFICES ASSUME NEW m \in Links PROVE LinkFits(m)'
    OBVIOUS
  <2>1. CASE m = l
    BY <1>2, <1>3, <2>1 DEF LinkFits
  <2>2. CASE m # l
    BY <1>1, <1>3, <2>2 DEF LinksIInv, LinkFits
  <2> QED BY <2>1, <2>2
<1>5. LinksStay({})
  BY <1>1, <1>3, OpenIsMailed DEF LinksStay
<1>6. guards' \in BOOLEAN
  BY <1>1 DEF LinksIInv, LinkTables
<1> QED BY <1>1, <1>3, <1>4, <1>5, <1>6, SameAccounts, NoRequestKeeps

LEMMA StartKeeps ==
    ASSUME LinksIInv, NEW r \in LinkRequests, NEW q \in LinkRequest, Start(r, q),
           acct' = acct, guards' = guards, link' \in [Links -> LinkRecord],
           LinksStay({r}), \A l \in Links : LinkFits(l)',
           q.op \in Kinds =>
             \A p \in LinkRequests : p # r /\ linkReq[p].op \in Kinds /\ linkReq[p].link = q.link =>
                 link'[q.link].mixed = TRUE,
           linkReq'[r] = q => OpenFits(linkReq[r])',
           RowFits(q),
           raced = FALSE /\ Writes(q) => q.op # "change" /\ NobodyHas(q.row.email, q.account)
    PROVE  LinksIInv'
<1>1. /\ linkReq' = [linkReq EXCEPT ![r] = q]
      /\ raced' = (raced \/ (/\ Writing(q.op)
                             /\ \E p \in LinkRequests \ {r} : Writing(linkReq[p].op)))
  BY DEF Start
<1>2. raced \in BOOLEAN /\ linkReq \in [LinkRequests -> LinkRequest] /\ guards' \in BOOLEAN
  BY DEF LinksIInv, LinkTables
<1>3. /\ linkReq' \in [LinkRequests -> LinkRequest] /\ linkReq'[r] = q
      /\ \A p \in LinkRequests \ {r} : linkReq'[p] = linkReq[p]
  BY <1>1, <1>2
<1>4. raced' \in BOOLEAN
  BY <1>1, <1>2 DEF Writing
<1>5. raced' = FALSE => raced = FALSE
  BY <1>1, <1>2
<1>6. Writing(q.op) => \A p \in LinkRequests : p # r /\ Writing(linkReq[p].op) => raced' = TRUE
  BY <1>1, <1>2
<1>7. GoesOnWith(r, linkReq'[r])
  BY <1>3, <1>6 DEF GoesOnWith
<1>8. TargetFits(linkReq[r])'
  <2> SUFFICES ASSUME raced' = FALSE, Writes(q) PROVE NobodyHas(q.row.email, q.account) /\ q.op # "change"
    BY <1>3 DEF TargetFits, Target, Writes, NobodyHas
  <2> QED BY <1>5
<1>9. ReqFits(linkReq[r])'
  BY <1>3, <1>8 DEF ReqFits, RowFits
<1> DEFINE R == {r}
<1>10. /\ R \in SUBSET LinkRequests /\ \A a, b \in R : a = b
       /\ \A a \in R : GoesOnWith(a, linkReq'[a]) /\ ReqFits(linkReq[a])'
  BY <1>7, <1>9
<1>11. acct' \in [LinkAccounts -> LinkRow] /\ AllFree' /\ NoPassword' /\ AddressesStay(R)
  BY <1>5, SameAccounts
<1> QED BY <1>2, <1>3, <1>4, <1>5, <1>10, <1>11, LinksStepKeeps

LEMMA OpenLinkKeeps ==
    ASSUME LinksIInv, NEW r \in LinkRequests, NEW l \in Links, OpenLink(r, l)
    PROVE  LinksIInv'
<1> DEFINE k == link[l]
           a == link[l].account
           q == [op |-> k.kind, link |-> l, account |-> a, row |-> acct[a], checked |-> FALSE]
           m == [k EXCEPT !.mixed = TRUE]
           others == \E p \in LinkRequests : linkReq[p].op \in Kinds /\ linkReq[p].link = l
<1>1. /\ Start(r, q) /\ link' = (IF others THEN [link EXCEPT ![l].mixed = TRUE] ELSE link)
      /\ UNCHANGED <<acct, guards>> /\ Mailed(l) /\ Active(a) /\ ~k.dead
  BY DEF OpenLink, Valid
<1>2. link[l] \in MailedLink
  BY <1>1, LinkTyped DEF Mailed
<1>3. k.kind \in Kinds /\ a \in LinkAccounts /\ k.dead = FALSE
  BY <1>1, <1>2 DEF MailedLink
<1>4. acct[a] \in LinkRow
  BY <1>3, LinkTyped
<1>5. q \in Opened
  BY <1>3, <1>4 DEF Opened
<1>6. /\ q.op = k.kind /\ q.link = l /\ q.account = a /\ q.row = acct[a] /\ q.checked = FALSE
      /\ q \in LinkRequest
  BY <1>5 DEF LinkRequest
<1>7. /\ m \in MailedLink /\ m.kind = k.kind /\ m.account = k.account /\ m.to = k.to /\ m.at = k.at
      /\ m.mixed = TRUE /\ m.uses = k.uses /\ m.dead = k.dead /\ m.old = k.old
  BY <1>2 DEF MailedLink
<1>8. m \in LinkRecord
  BY <1>7 DEF LinkRecord
<1>9. others => link' = [link EXCEPT ![l] = m]
  BY <1>1
<1> HIDE DEF q, m
<1>10. /\ link' \in [Links -> LinkRecord]
       /\ \A x \in Links : x # l => link'[x] = link[x]
       /\ link'[l] = m \/ (link'[l] = k /\ ~others)
  <2>1. CASE others
    BY <1>8, <1>9, <2>1, LinkTyped
  <2>2. CASE ~others
    BY <1>1, <2>2, LinkTyped
  <2> QED BY <2>1, <2>2
<1>11. /\ link'[l].kind = k.kind /\ link'[l].account = a /\ link'[l].to = k.to /\ link'[l].at = k.at
       /\ link'[l].uses = k.uses /\ link'[l].old = k.old /\ link'[l].dead = k.dead
       /\ k.mixed = TRUE => link'[l].mixed = TRUE
       /\ others => link'[l].mixed = TRUE
  BY <1>7, <1>10
<1> HIDE DEF k, a, others
<1>12. \A x \in Links : LinkFits(x)'
  <2> SUFFICES ASSUME NEW x \in Links PROVE LinkFits(x)'
    OBVIOUS
  <2>1. CASE x = l
    <3>1. LinkFits(l)
      BY DEF LinksIInv
    <3> QED BY <1>1, <1>11, <2>1, <3>1 DEF LinkFits, k, a
  <2>2. CASE x # l
    BY <1>1, <1>10, <2>2 DEF LinksIInv, LinkFits
  <2> QED BY <2>1, <2>2
<1>13. \A p \in LinkRequests : linkReq[p].op \in Kinds /\ linkReq[p].link = l => others
  BY DEF others
<1>14. LinksStay({r})
  <2> SUFFICES ASSUME NEW p \in LinkRequests, linkReq[p].op \in Kinds, NEW x \in Links,
                      x = linkReq[p].link
               PROVE  /\ link'[x].kind = link[x].kind /\ link'[x].account = link[x].account
                      /\ link'[x].to = link[x].to
                      /\ link[x].mixed = TRUE => link'[x].mixed = TRUE
                      /\ link'[x].mixed = TRUE \/ (link'[x].uses = link[x].uses /\ link'[x].old = link[x].old)
    BY OpenIsMailed DEF LinksStay
  <2>1. CASE x = l
    BY <1>11, <2>1 DEF k, a
  <2>2. CASE x # l
    BY <1>10, <2>2
  <2> QED BY <2>1, <2>2
<1>15. LinkFits(l)
  BY DEF LinksIInv
<1>16. linkReq'[r] = q => OpenFits(linkReq[r])'
  <2>1. k.kind \in {"login", "reset", "switch"} => k.uses = 0 /\ k.old = FALSE
    BY <1>3, <1>15 DEF LinkFits, k
  <2>2. k.kind # "change" => k.kind \in {"login", "reset", "switch"}
    BY <1>3 DEF Kinds
  <2> QED BY <1>6, <1>11, <2>1, <2>2 DEF OpenFits
<1>17. RowFits(q)
  BY <1>3, <1>6, <1>15 DEF RowFits, LinkFits, Kinds, k, a
<1>18. raced = FALSE /\ Writes(q) => q.op # "change" /\ NobodyHas(q.row.email, q.account)
  <2>1. raced = FALSE => NobodyHas(acct[a].email, a)
    BY <1>1, <1>3 DEF LinksIInv, AllFree, Exists, Active
  <2> QED BY <1>6, <2>1 DEF Writes
<1> QED BY <1>1, <1>6, <1>10, <1>11, <1>12, <1>13, <1>14, <1>16, <1>17, <1>18, StartKeeps

LEMMA ChangePasswordKeeps ==
    ASSUME LinksIInv, NEW r \in LinkRequests, NEW a \in LinkAccounts, ChangePassword(r, a)
    PROVE  LinksIInv'
<1> DEFINE q == [op |-> "password", account |-> a, row |-> acct[a]]
<1>1. /\ Start(r, q) /\ UNCHANGED <<acct, guards, link>>
      /\ Active(a) /\ acct[a].method = "password"
  BY DEF ChangePassword
<1>2. acct[a] \in LinkRow /\ link' \in [Links -> LinkRecord]
  BY <1>1, LinkTyped
<1>3. q \in Typing
  BY <1>2 DEF Typing
<1>4. q.op = "password" /\ q.account = a /\ q.row = acct[a] /\ q \in LinkRequest
  BY <1>3 DEF LinkRequest
<1> HIDE DEF q
<1>5. LinksStay({r}) /\ \A l \in Links : LinkFits(l)'
  BY <1>1 DEF LinksStay, LinksIInv, LinkFits
<1>6. q.op \notin Kinds /\ (linkReq'[r] = q => OpenFits(linkReq[r])') /\ RowFits(q)
  BY <1>1, <1>4 DEF Kinds, OpenFits, RowFits
<1>7. raced = FALSE /\ Writes(q) => q.op # "change" /\ NobodyHas(q.row.email, q.account)
  BY <1>1, <1>4 DEF LinksIInv, AllFree, Exists, Active
<1> QED BY <1>1, <1>2, <1>4, <1>5, <1>6, <1>7, StartKeeps

LEMMA GiveLoginKeeps ==
    ASSUME LinksIInv, NEW r \in LinkRequests, NEW email \in Addresses, NEW method \in Methods,
           GiveLogin(r, email, method)
    PROVE  LinksIInv'
<1> DEFINE q == [op |-> "give", account |-> Child,
                 row |-> [status |-> "active", method |-> method, usable |-> FALSE, email |-> email]]
<1>1. /\ Start(r, q) /\ UNCHANGED <<acct, guards, link>> /\ ~Taken(email, Child)
  BY DEF GiveLogin
<1>2. link' \in [Links -> LinkRecord]
  BY <1>1, LinkTyped
<1>3. q \in Giving
  BY DEF Giving, GivenRow
<1>4. q.op = "give" /\ q.account = Child /\ q.row.email = email /\ q \in LinkRequest
  BY <1>3 DEF LinkRequest
<1>5. NobodyHas(email, Child)
  BY <1>1 DEF Taken, NobodyHas, Exists
<1> HIDE DEF q
<1>6. LinksStay({r}) /\ \A l \in Links : LinkFits(l)'
  BY <1>1 DEF LinksStay, LinksIInv, LinkFits
<1>7. q.op \notin Kinds /\ (linkReq'[r] = q => OpenFits(linkReq[r])') /\ RowFits(q)
  BY <1>1, <1>4 DEF Kinds, OpenFits, RowFits
<1>8. raced = FALSE /\ Writes(q) => q.op # "change" /\ NobodyHas(q.row.email, q.account)
  BY <1>4, <1>5
<1> QED BY <1>1, <1>2, <1>4, <1>6, <1>7, <1>8, StartKeeps

\* An account's method changes only with the end of its reset links.
MethodsMove(a, kinds) ==
    \A b \in LinkAccounts : acct'[b].method = acct[b].method \/ (b = a /\ "reset" \in kinds)

LEMMA DeadLinks ==
    ASSUME LinksIInv, NEW a, NEW kinds, NEW R, link' = Dead(kinds, a), MethodsMove(a, kinds)
    PROVE  /\ link' \in [Links -> LinkRecord] /\ LinksStay(R) /\ \A l \in Links : LinkFits(l)'
<1> DEFINE d == Dead(kinds, a)
<1>1. /\ d \in [Links -> LinkRecord]
      /\ \A l \in Links :
           /\ link[l].kind = "none" => d[l] = link[l]
           /\ d[l].kind = link[l].kind
           /\ link[l].kind # "none" =>
                /\ d[l] \in MailedLink
                /\ d[l].account = link[l].account /\ d[l].at = link[l].at /\ d[l].to = link[l].to
                /\ d[l].uses = link[l].uses /\ d[l].mixed = link[l].mixed
                /\ d[l].old = link[l].old
                /\ link[l].dead = TRUE => d[l].dead = TRUE
                /\ link[l].account = a /\ link[l].kind \in kinds => d[l].dead = TRUE
  BY DeadIs
<1>2. link' = d
  OBVIOUS
<1> HIDE DEF d
<1>3. LinksStay(R)
  <2> SUFFICES ASSUME NEW p \in LinkRequests, linkReq[p].op \in Kinds, NEW x \in Links,
                      x = linkReq[p].link, link[x].kind # "none"
               PROVE  /\ link'[x].kind = link[x].kind /\ link'[x].account = link[x].account
                      /\ link'[x].to = link[x].to
                      /\ link[x].mixed = TRUE => link'[x].mixed = TRUE
                      /\ link'[x].mixed = TRUE \/ (link'[x].uses = link[x].uses /\ link'[x].old = link[x].old)
    BY OpenIsMailed DEF LinksStay, Kinds
  <2> QED BY <1>1, <1>2
<1>4. \A l \in Links : LinkFits(l)'
  <2> SUFFICES ASSUME NEW l \in Links, link[l].kind # "none" PROVE LinkFits(l)'
    BY <1>1, <1>2 DEF LinkFits
  <2>1. LinkFits(l) /\ link[l] \in MailedLink
    BY LinkTyped DEF LinksIInv
  <2>2. link[l].account \in LinkAccounts
    BY <2>1 DEF MailedLink
  <2>3. link[l].kind = "reset" => link'[l].dead = TRUE \/ acct'[link[l].account].method = "password"
    BY <1>1, <1>2, <2>1, <2>2 DEF LinkFits, MethodsMove
  <2> QED BY <1>1, <1>2, <2>1, <2>3 DEF LinkFits
<1> QED BY <1>1, <1>2, <1>3, <1>4

LEMMA UsedLinks ==
    ASSUME LinksIInv, NEW r \in LinkRequests, NEW kinds, linkReq[r].op \in kinds,
           linkReq[r].op \in {"login", "reset", "switch"},
           link' = Used(Dead(kinds, linkReq[r].account), linkReq[r].link),
           MethodsMove(linkReq[r].account, kinds)
    PROVE  /\ link' \in [Links -> LinkRecord] /\ LinksStay({r}) /\ \A l \in Links : LinkFits(l)'
<1> DEFINE a == linkReq[r].account
           n == linkReq[r].link
           d == Dead(kinds, a)
<1>1. /\ d \in [Links -> LinkRecord]
      /\ \A l \in Links :
           /\ link[l].kind = "none" => d[l] = link[l]
           /\ d[l].kind = link[l].kind
           /\ link[l].kind # "none" =>
                /\ d[l] \in MailedLink
                /\ d[l].account = link[l].account /\ d[l].at = link[l].at /\ d[l].to = link[l].to
                /\ d[l].uses = link[l].uses /\ d[l].mixed = link[l].mixed
                /\ d[l].old = link[l].old
                /\ link[l].dead = TRUE => d[l].dead = TRUE
                /\ link[l].account = a /\ link[l].kind \in kinds => d[l].dead = TRUE
  BY DeadIs
<1>2. linkReq[r].op \in Kinds
  BY DEF Kinds
<1>3. /\ n \in Links /\ link[n] \in MailedLink /\ link[n].kind = linkReq[r].op
      /\ link[n].account = a
      /\ link[n].mixed = TRUE \/ (link[n].uses = 0 /\ link[n].old = FALSE)
  BY <1>2, OpenIsMailed
<1>4. link[n].kind # "none"
  BY <1>3
<1>5. link' = Used(d, n) /\ d[n] \in MailedLink
  BY <1>1, <1>3, <1>4
<1> HIDE DEF d, a, n
<1>6. /\ link' \in [Links -> LinkRecord]
      /\ \A m \in Links : m # n => link'[m] = d[m]
      /\ link'[n] \in MailedLink
      /\ link'[n].kind = d[n].kind /\ link'[n].account = d[n].account
      /\ link'[n].at = d[n].at /\ link'[n].to = d[n].to
      /\ link'[n].dead = d[n].dead /\ link'[n].mixed = d[n].mixed /\ link'[n].old = d[n].old
      /\ d[n].uses = 0 => link'[n].uses = 1
  BY <1>1, <1>3, <1>5, UsedIs
<1>7. LinksStay({r})
  <2> SUFFICES ASSUME NEW p \in LinkRequests, p # r, linkReq[p].op \in Kinds, NEW x \in Links,
                      x = linkReq[p].link, link[x].kind # "none"
               PROVE  /\ link'[x].kind = link[x].kind /\ link'[x].account = link[x].account
                      /\ link'[x].to = link[x].to
                      /\ link[x].mixed = TRUE => link'[x].mixed = TRUE
                      /\ link'[x].mixed = TRUE \/ (link'[x].uses = link[x].uses /\ link'[x].old = link[x].old)
    BY OpenIsMailed DEF LinksStay, Kinds
  <2>1. CASE x = n
    <3>1. link[x].mixed = TRUE
      BY <1>2, <2>1 DEF LinksIInv, SharedAreMixed, n
    <3> QED BY <1>1, <1>6, <2>1, <3>1
  <2>2. CASE x # n
    BY <1>1, <1>6, <2>2
  <2> QED BY <2>1, <2>2
<1>8. \A l \in Links : LinkFits(l)'
  <2> SUFFICES ASSUME NEW l \in Links PROVE LinkFits(l)'
    OBVIOUS
  <2>1. LinkFits(l) /\ (link[l].kind # "none" => link[l] \in MailedLink)
    BY LinkTyped DEF LinksIInv
  <2>2. CASE l = n
    <3>1. link'[n].dead = TRUE
      BY <1>1, <1>3, <1>4, <1>6
    <3>2. link'[n].mixed = TRUE \/ link'[n].uses = 1
      BY <1>1, <1>3, <1>4, <1>6
    <3>3. link'[n].kind = "change" => link'[n].at # link'[n].to
      BY <1>1, <1>3, <1>4, <1>6
    <3> QED BY <2>2, <3>1, <3>2, <3>3 DEF LinkFits
  <2>3. CASE l # n /\ link[l].kind = "none"
    BY <1>1, <1>6, <2>3 DEF LinkFits
  <2>4. CASE l # n /\ link[l].kind # "none"
    <3>1. link[l].account \in LinkAccounts
      BY <2>1, <2>4 DEF MailedLink
    <3>2. link[l].kind = "reset" => d[l].dead = TRUE \/ acct'[link[l].account].method = "password"
      BY <1>1, <2>1, <2>4, <3>1 DEF LinkFits, MethodsMove, a
    <3> QED BY <1>1, <1>6, <2>1, <2>4, <3>2 DEF LinkFits
  <2> QED BY <2>2, <2>3, <2>4
<1> QED BY <1>6, <1>7, <1>8

\* Steps that leave the links alone.
LEMMA SameLinks ==
    ASSUME LinksIInv, link' = link, NEW R,
           \A b \in LinkAccounts : acct'[b].method = acct[b].method
    PROVE  /\ link' \in [Links -> LinkRecord] /\ LinksStay(R) /\ \A l \in Links : LinkFits(l)'
<1>1. \A l \in Links : link[l].kind = "reset" => link[l].account \in LinkAccounts
  <2> SUFFICES ASSUME NEW l \in Links, link[l].kind = "reset" PROVE link[l].account \in LinkAccounts
    OBVIOUS
  <2>1. link[l] \in MailedLink
    BY LinkTyped
  <2> QED BY <2>1 DEF MailedLink
<1>2. \A l \in Links : LinkFits(l)'
  BY <1>1 DEF LinksIInv, LinkFits
<1>3. LinksStay(R)
  BY DEF LinksStay
<1> QED BY <1>2, <1>3, LinkTyped

LEMMA CommitLoginKeeps ==
    ASSUME LinksIInv, NEW r \in LinkRequests, CommitLogin(r)
    PROVE  LinksIInv'
<1>1. /\ linkReq[r].op = "login" /\ Done(r) /\ UNCHANGED <<acct, guards>> /\ raced' = raced
      /\ \/ link' = Used(Dead(RestsOnLogin, linkReq[r].account), linkReq[r].link)
         \/ link' = link
  BY DEF CommitLogin, Done
<1>2. linkReq[r].op \in RestsOnLogin
  BY <1>1 DEF RestsOnLogin
<1>3. MethodsMove(linkReq[r].account, RestsOnLogin)
  BY <1>1 DEF MethodsMove
<1>4. link' \in [Links -> LinkRecord] /\ LinksStay({r}) /\ \A l \in Links : LinkFits(l)'
  <2>1. CASE link' = link
    BY <1>1, <2>1, SameLinks
  <2>2. CASE link' = Used(Dead(RestsOnLogin, linkReq[r].account), linkReq[r].link)
    BY <1>1, <1>2, <1>3, <2>2, UsedLinks
  <2> QED BY <1>1, <2>1, <2>2
<1>5. acct' \in [LinkAccounts -> LinkRow] /\ AllFree' /\ NoPassword' /\ AddressesStay({r})
  BY <1>1, SameAccounts
<1> QED BY <1>1, <1>4, <1>5, DoneKeeps

LEMMA RequestFailsKeeps ==
    ASSUME LinksIInv, NEW r \in LinkRequests, Done(r), UNCHANGED <<acct, guards, link>>
    PROVE  LinksIInv'
<1>1. raced' = raced
  BY DEF Done
<1>2. link' \in [Links -> LinkRecord] /\ LinksStay({r}) /\ \A l \in Links : LinkFits(l)'
  BY SameLinks
<1>3. acct' \in [LinkAccounts -> LinkRow] /\ AllFree' /\ NoPassword' /\ AddressesStay({r})
  BY <1>1, SameAccounts
<1> QED BY <1>2, <1>3, DoneKeeps

LEMMA CommitSwitchKeeps ==
    ASSUME LinksIInv, NEW r \in LinkRequests, CommitSwitch(r)
    PROVE  LinksIInv'
<1> DEFINE a == linkReq[r].account
           row == [acct[a] EXCEPT !.method = "link", !.usable = FALSE]
<1>1. /\ linkReq[r].op = "switch" /\ Done(r) /\ guards' = guards /\ raced' = raced
      /\ \/ /\ acct' = [acct EXCEPT ![a].method = "link", ![a].usable = FALSE]
            /\ link' = Used(Dead(RestsOnPassword, a), linkReq[r].link)
         \/ UNCHANGED <<acct, link>>
  BY DEF CommitSwitch, Done
<1>2. CASE UNCHANGED <<acct, link>>
  BY <1>1, <1>2, RequestFailsKeeps
<1>3. CASE /\ acct' = [acct EXCEPT ![a].method = "link", ![a].usable = FALSE]
           /\ link' = Used(Dead(RestsOnPassword, a), linkReq[r].link)
  <2>1. a \in LinkAccounts /\ acct \in [LinkAccounts -> LinkRow] /\ acct[a] \in LinkRow
    BY <1>1, OpenIsMailed, LinkTyped DEF Kinds
  <2>2. acct' = [acct EXCEPT ![a] = row]
    BY <1>3, <2>1
  <2>3. /\ row \in LinkRow /\ row.method = "link" /\ row.usable = FALSE
        /\ row.email = acct[a].email /\ row.status = acct[a].status
    BY <2>1 DEF LinkRow, Methods
  <2> HIDE DEF row
  <2>4. /\ acct' \in [LinkAccounts -> LinkRow] /\ acct'[a] = row
        /\ \A b \in LinkAccounts : b # a => acct'[b] = acct[b]
    BY <2>1, <2>2, <2>3
  <2>5. NoPassword'
    BY <2>3, <2>4 DEF LinksIInv, NoPassword
  <2>6. \A b \in LinkAccounts : acct'[b].status = acct[b].status /\ acct'[b].email = acct[b].email
    BY <2>3, <2>4
  <2>7. AllFree' /\ AddressesStay({r})
    BY <1>1, <2>6, SameAddresses
  <2>8. linkReq[r].op \in RestsOnPassword /\ MethodsMove(linkReq[r].account, RestsOnPassword)
    BY <1>1, <2>4 DEF RestsOnPassword, MethodsMove
  <2>9. link' \in [Links -> LinkRecord] /\ LinksStay({r}) /\ \A l \in Links : LinkFits(l)'
    BY <1>1, <1>3, <2>8, UsedLinks
  <2> QED BY <1>1, <2>4, <2>5, <2>7, <2>9, DoneKeeps
<1> QED BY <1>1, <1>2, <1>3

\* A row that is written with an address that was free, by the one writer.
LEMMA RowWritten ==
    ASSUME LinksIInv, NEW r \in LinkRequests, Writing(linkReq[r].op), raced' = raced,
           NEW a \in LinkAccounts, NEW row \in LinkRow, acct' = [acct EXCEPT ![a] = row],
           raced = FALSE => NobodyHas(row.email, a),
           row.method = "link" => row.usable = FALSE
    PROVE  /\ acct' \in [LinkAccounts -> LinkRow]
           /\ AllFree' /\ NoPassword' /\ AddressesStay({r})
<1>1. /\ acct' \in [LinkAccounts -> LinkRow] /\ acct'[a] = row
      /\ \A b \in LinkAccounts : b # a => acct'[b] = acct[b]
  BY LinkTyped
<1>2. AllFree'
  <2> SUFFICES ASSUME raced = FALSE, NEW c \in LinkAccounts, acct'[c].status # "none",
                      NEW b \in LinkAccounts, b # c, acct'[b].status # "none"
               PROVE  acct'[b].email # acct'[c].email
    BY DEF AllFree, NobodyHas, Exists
  <2>1. NobodyHas(row.email, a)
    OBVIOUS
  <2>2. CASE c = a
    BY <1>1, <2>1, <2>2 DEF NobodyHas
  <2>3. CASE b = a
    BY <1>1, <2>1, <2>3 DEF NobodyHas
  <2>4. CASE b # a /\ c # a
    BY <1>1, <2>4 DEF LinksIInv, AllFree, NobodyHas, Exists
  <2> QED BY <2>2, <2>3, <2>4
<1>3. NoPassword'
  BY <1>1 DEF LinksIInv, NoPassword
<1>4. AddressesStay({r})
  BY DEF LinksIInv, OneWrites, AddressesStay
<1> QED BY <1>1, <1>2, <1>3, <1>4

LEMMA RowSavedKeeps ==
    ASSUME LinksIInv, NEW r \in LinkRequests, linkReq[r].op \in {"reset", "password"}, Done(r),
           acct' = RowSaved(linkReq[r]), guards' = guards,
           link' \in [Links -> LinkRecord], LinksStay({r}), \A l \in Links : LinkFits(l)'
    PROVE  LinksIInv'
<1> DEFINE q == linkReq[r]
           row == [q.row EXCEPT !.usable = TRUE]
<1>1. raced' = raced
  BY DEF Done
<1>2. q \in Opened \/ q \in Typing
  BY LinkTyped DEF Kinds
<1>3. q.account \in LinkAccounts /\ q.row \in LinkRow
  BY <1>2 DEF Opened, Typing
<1>4. ReqFits(q)
  BY DEF LinksIInv
<1>5. q.row.method = "password" /\ (raced = FALSE => NobodyHas(q.row.email, q.account))
  BY <1>4 DEF ReqFits, RowFits, TargetFits, Writes, Target
<1>6. row \in LinkRow /\ row.email = q.row.email /\ row.method = "password"
  BY <1>3, <1>5 DEF LinkRow
<1>7. acct' = [acct EXCEPT ![q.account] = row]
  BY DEF RowSaved
<1>8. Writing(q.op)
  BY DEF Writing
<1> HIDE DEF row, q
<1>9. /\ acct' \in [LinkAccounts -> LinkRow]
      /\ AllFree' /\ NoPassword' /\ AddressesStay({r})
  BY <1>1, <1>3, <1>5, <1>6, <1>7, <1>8, RowWritten DEF q
<1> QED BY <1>9, DoneKeeps

LEMMA CommitPasswordsKeep ==
    ASSUME LinksIInv, NEW r \in LinkRequests, CommitReset(r) \/ CommitPassword(r)
    PROVE  LinksIInv'
<1> DEFINE q == linkReq[r]
<1>1. /\ q.op \in {"reset", "password"} /\ Done(r) /\ acct' = RowSaved(q) /\ guards' = guards
  BY DEF CommitReset, CommitPassword
<1>2. \A kinds : "reset" \in kinds => MethodsMove(q.account, kinds)
  <2> SUFFICES ASSUME NEW b \in LinkAccounts, b # q.account PROVE acct'[b].method = acct[b].method
    BY DEF MethodsMove
  <2> QED BY <1>1, LinkTyped DEF RowSaved
<1>3. link' \in [Links -> LinkRecord] /\ LinksStay({r}) /\ \A l \in Links : LinkFits(l)'
  <2>1. CASE CommitReset(r)
    <3>1. q.op = "reset" /\ link' = Used(Dead(RestsOnPassword \cup RestsOnLogin, q.account), q.link)
      BY <2>1 DEF CommitReset
    <3>2. "reset" \in RestsOnPassword \cup RestsOnLogin
      BY DEF RestsOnPassword
    <3> QED BY <1>2, <3>1, <3>2, UsedLinks
  <2>2. CASE CommitPassword(r)
    <3>1. link' = Dead(RestsOnPassword, q.account) /\ "reset" \in RestsOnPassword
      BY <2>2 DEF CommitPassword, RestsOnPassword
    <3> QED BY <1>2, <3>1, DeadLinks
  <2> QED BY <2>1, <2>2
<1> QED BY <1>1, <1>3, RowSavedKeeps

LEMMA CommitLoginGivenKeeps ==
    ASSUME LinksIInv, NEW r \in LinkRequests, CommitLoginGiven(r)
    PROVE  LinksIInv'
<1> DEFINE q == linkReq[r]
<1>1. /\ q.op = "give" /\ Done(r) /\ acct' = [acct EXCEPT ![Child] = q.row]
      /\ link' = Dead(RestsOnPassword, Child) /\ guards' = guards /\ raced' = raced
  BY DEF CommitLoginGiven, Done
<1>2. q \in Giving /\ ReqFits(q)
  BY <1>1, LinkTyped DEF LinksIInv
<1>3. q.account = Child /\ q.row \in GivenRow /\ Child \in LinkAccounts
  BY <1>2, LinksAssumption DEF Giving
<1>4. raced = FALSE => NobodyHas(q.row.email, Child)
  BY <1>1, <1>2, <1>3 DEF ReqFits, TargetFits, Writes, Target
<1>5. Writing(q.op)
  BY <1>1 DEF Writing
<1>6. MethodsMove(Child, RestsOnPassword)
  <2> SUFFICES ASSUME NEW b \in LinkAccounts, b # Child PROVE acct'[b].method = acct[b].method
    BY DEF MethodsMove, RestsOnPassword
  <2> QED BY <1>1, LinkTyped
<1>7. link' \in [Links -> LinkRecord] /\ LinksStay({r}) /\ \A l \in Links : LinkFits(l)'
  BY <1>1, <1>6, DeadLinks
<1>8. q.row \in LinkRow /\ q.row.usable = FALSE
  BY <1>3 DEF GivenRow, LinkRow
<1>9. /\ acct' \in [LinkAccounts -> LinkRow]
      /\ AllFree' /\ NoPassword' /\ AddressesStay({r})
  BY <1>1, <1>3, <1>4, <1>5, <1>8, RowWritten
<1> QED BY <1>1, <1>7, <1>9, DoneKeeps

LEMMA CheckChangeKeeps ==
    ASSUME LinksIInv, NEW r \in LinkRequests, CheckChange(r)
    PROVE  LinksIInv'
<1> DEFINE q == linkReq[r]
           q2 == [q EXCEPT !.checked = TRUE]
<1>1. /\ q.op = "change" /\ UNCHANGED <<acct, guards, link>>
      /\ \/ Done(r)
         \/ /\ linkReq' = [linkReq EXCEPT ![r].checked = TRUE] /\ raced' = raced
            /\ ~Taken(link[q.link].to, q.account)
  BY DEF CheckChange
<1>2. CASE Done(r)
  BY <1>1, <1>2, RequestFailsKeeps
<1>3. CASE /\ linkReq' = [linkReq EXCEPT ![r].checked = TRUE] /\ raced' = raced
           /\ ~Taken(link[q.link].to, q.account)
  <2>1. q \in Opened /\ ReqFits(q) /\ q.op \in Kinds
    BY <1>1, LinkTyped DEF LinksIInv, Kinds
  <2>2. /\ q2 \in Opened /\ q2.op = "change" /\ q2.link = q.link /\ q2.account = q.account
        /\ q2.checked = TRUE
    BY <1>1, <2>1 DEF Opened
  <2>3. q2 \in LinkRequest
    BY <2>2 DEF LinkRequest
  <2>4. linkReq' = [linkReq EXCEPT ![r] = q2]
    BY <1>3
  <2>5. NobodyHas(link[q.link].to, q.account)
    BY <1>3 DEF Taken, NobodyHas, Exists
  <2>6. \A p \in LinkRequests : p # r /\ linkReq[p].op \in Kinds /\ linkReq[p].link = q.link =>
             link[q.link].mixed = TRUE
    BY <2>1 DEF LinksIInv, SharedAreMixed
  <2>7. \A p \in LinkRequests : p # r /\ Writing(linkReq[p].op) => raced = TRUE
    BY <1>1 DEF LinksIInv, OneWrites, Writing
  <2> HIDE DEF q2
  <2>8. /\ linkReq' \in [LinkRequests -> LinkRequest] /\ linkReq'[r] = q2
        /\ \A p \in LinkRequests \ {r} : linkReq'[p] = linkReq[p]
    BY <2>3, <2>4, LinkTyped
  <2>9. GoesOnWith(r, linkReq'[r])
    BY <1>1, <1>3, <2>2, <2>6, <2>7, <2>8 DEF GoesOnWith
  <2>10. ReqFits(linkReq[r])'
    <3>1. OpenFits(linkReq[r])'
      BY <1>1, <2>1, <2>2, <2>8 DEF ReqFits, OpenFits
    <3>2. RowFits(linkReq[r])'
      BY <2>2, <2>8 DEF RowFits
    <3>3. TargetFits(linkReq[r])'
      BY <1>1, <2>2, <2>5, <2>8 DEF TargetFits, Target, NobodyHas
    <3> QED BY <3>1, <3>2, <3>3 DEF ReqFits
  <2>11. link' \in [Links -> LinkRecord] /\ LinksStay({r}) /\ \A l \in Links : LinkFits(l)'
    BY <1>1, SameLinks
  <2>12. acct' \in [LinkAccounts -> LinkRow] /\ AllFree' /\ NoPassword' /\ AddressesStay({r})
    BY <1>1, <1>3, SameAccounts
  <2>13. guards' \in BOOLEAN /\ raced' \in BOOLEAN /\ (raced' = FALSE => raced = FALSE)
    BY <1>1, <1>3 DEF LinksIInv, LinkTables
  <2> DEFINE R == {r}
  <2>14. /\ R \in SUBSET LinkRequests /\ \A a, b \in R : a = b
         /\ \A a \in R : GoesOnWith(a, linkReq'[a]) /\ ReqFits(linkReq[a])'
    BY <2>9, <2>10
  <2> QED BY <2>8, <2>11, <2>12, <2>13, <2>14, LinksStepKeeps
<1> QED BY <1>1, <1>2, <1>3

LEMMA CommitChangeKeeps ==
    ASSUME LinksIInv, NEW r \in LinkRequests, CommitChange(r)
    PROVE  LinksIInv'
<1> DEFINE q == linkReq[r]
           n == linkReq[r].link
           a == linkReq[r].account
           row == [acct[a] EXCEPT !.email = link[n].to]
<1>1. /\ q.op = "change" /\ q.checked /\ Done(r) /\ raced' = raced /\ guards' = guards
      /\ acct' = [acct EXCEPT ![a].email = link[n].to] /\ link' = Used(link, n)
  BY DEF CommitChange, HoldsLock, Done
<1>2. q.op \in Kinds
  BY <1>1 DEF Kinds
<1>3. /\ n \in Links /\ a \in LinkAccounts /\ q.checked = TRUE
      /\ link[n] \in MailedLink /\ link[n].kind = "change"
  BY <1>1, <1>2, OpenIsMailed
<1>4. raced = FALSE => NobodyHas(link[n].to, a)
  BY <1>1, <1>3 DEF LinksIInv, ReqFits, TargetFits, Writes, Target
<1>5. acct[a] \in LinkRow /\ link[n].to \in Addresses
  BY <1>3, LinkTyped DEF MailedLink
<1>6. acct' = [acct EXCEPT ![a] = row]
  BY <1>1, <1>3, LinkTyped
<1>7. row \in LinkRow /\ row.email = link[n].to /\ row.method = acct[a].method /\ row.usable = acct[a].usable
  BY <1>5 DEF LinkRow
<1>8. Writing(q.op)
  BY <1>1 DEF Writing
<1>9. row.method = "link" => row.usable = FALSE
  BY <1>3, <1>7 DEF LinksIInv, NoPassword
<1> HIDE DEF q, n, a, row
<1>10. /\ acct' \in [LinkAccounts -> LinkRow]
       /\ AllFree' /\ NoPassword' /\ AddressesStay({r})
  BY <1>1, <1>3, <1>4, <1>6, <1>7, <1>8, <1>9, RowWritten DEF q
<1>11. \A b \in LinkAccounts : acct'[b].method = acct[b].method
  BY <1>3, <1>6, <1>7, LinkTyped
<1>12. /\ link' \in [Links -> LinkRecord]
       /\ \A m \in Links : m # n => link'[m] = link[m]
       /\ link'[n] \in MailedLink
       /\ link'[n].kind = "change" /\ link'[n].account = link[n].account
       /\ link'[n].at = link[n].at /\ link'[n].to = link[n].to
       /\ link'[n].dead = link[n].dead /\ link'[n].mixed = link[n].mixed
       /\ link'[n].old = link[n].old
  BY <1>1, <1>3, LinkTyped, UsedIs
<1>13. LinksStay({r})
  <2> SUFFICES ASSUME NEW p \in LinkRequests, p # r, linkReq[p].op \in Kinds, NEW x \in Links,
                      x = linkReq[p].link
               PROVE  /\ link'[x].kind = link[x].kind /\ link'[x].account = link[x].account
                      /\ link'[x].to = link[x].to
                      /\ link[x].mixed = TRUE => link'[x].mixed = TRUE
                      /\ link'[x].mixed = TRUE \/ (link'[x].uses = link[x].uses /\ link'[x].old = link[x].old)
    BY OpenIsMailed DEF LinksStay
  <2>1. CASE x = n
    <3>1. link[x].mixed = TRUE
      BY <1>2, <2>1 DEF LinksIInv, SharedAreMixed, n, q
    <3> QED BY <1>3, <1>12, <2>1, <3>1
  <2>2. CASE x # n
    BY <1>12, <2>2
  <2> QED BY <2>1, <2>2
<1>14. \A l \in Links : LinkFits(l)'
  <2> SUFFICES ASSUME NEW l \in Links PROVE LinkFits(l)'
    OBVIOUS
  <2>1. LinkFits(l)
    BY DEF LinksIInv
  <2>2. CASE l = n
    BY <1>3, <1>12, <2>1, <2>2 DEF LinkFits
  <2>3. CASE l # n
    <3>1. link[l].kind = "reset" => link[l].account \in LinkAccounts
      BY LinkTyped DEF MailedLink
    <3> QED BY <1>11, <1>12, <2>1, <2>3, <3>1 DEF LinkFits
  <2> QED BY <2>2, <2>3
<1> QED BY <1>1, <1>10, <1>12, <1>13, <1>14, DoneKeeps

LEMMA SwitchToPasswordKeeps ==
    ASSUME LinksIInv, NEW a \in LinkAccounts, NEW usable \in BOOLEAN, SwitchToPassword(a, usable)
    PROVE  LinksIInv'
<1> DEFINE row == [acct[a] EXCEPT !.method = "password", !.usable = usable]
<1>1. /\ acct' = [acct EXCEPT ![a].method = "password", ![a].usable = usable]
      /\ link' = Dead(RestsOnPassword, a) /\ UNCHANGED <<guards, linkReq, raced>>
  BY DEF SwitchToPassword
<1>2. acct \in [LinkAccounts -> LinkRow] /\ acct[a] \in LinkRow
  BY LinkTyped
<1>3. acct' = [acct EXCEPT ![a] = row]
  BY <1>1, <1>2
<1>4. /\ row \in LinkRow /\ row.method = "password"
      /\ row.email = acct[a].email /\ row.status = acct[a].status
  BY <1>2 DEF LinkRow, Methods
<1> HIDE DEF row
<1>5. /\ acct' \in [LinkAccounts -> LinkRow] /\ acct'[a] = row
      /\ \A b \in LinkAccounts : b # a => acct'[b] = acct[b]
  BY <1>2, <1>3, <1>4
<1>6. NoPassword'
  BY <1>4, <1>5 DEF LinksIInv, NoPassword
<1>7. \A b \in LinkAccounts : acct'[b].status = acct[b].status /\ acct'[b].email = acct[b].email
  BY <1>4, <1>5
<1>8. AllFree' /\ AddressesStay({})
  BY <1>1, <1>7, SameAddresses
<1>9. MethodsMove(a, RestsOnPassword)
  BY <1>5 DEF RestsOnPassword, MethodsMove
<1>10. link' \in [Links -> LinkRecord] /\ LinksStay({}) /\ \A l \in Links : LinkFits(l)'
  BY <1>1, <1>9, DeadLinks
<1>11. guards' \in BOOLEAN
  BY <1>1 DEF LinksIInv, LinkTables
<1> QED BY <1>1, <1>5, <1>6, <1>8, <1>10, <1>11, NoRequestKeeps

\* What the end of the child's login makes of a link.
LEMMA RemovedLinks ==
    ASSUME LinksIInv, NEW disable \in BOOLEAN, RemoveLogin(disable)
    PROVE  /\ link' \in [Links -> LinkRecord]
           /\ \A l \in Links :
                \/ link'[l] = link[l] /\ (link[l].kind = "none" \/ link[l].account # Child)
                \/ /\ link[l] \in MailedLink /\ link'[l] \in MailedLink
                   /\ link'[l].kind = link[l].kind /\ link'[l].account = link[l].account
                   /\ link'[l].at = link[l].at /\ link'[l].to = link[l].to
                   /\ link'[l].uses = link[l].uses
                   /\ link[l].mixed = TRUE => link'[l].mixed = TRUE
                   /\ (\E r \in LinkRequests : linkReq[r].op \in Kinds /\ linkReq[r].link = l)
                        => link'[l].mixed = TRUE
                   /\ link[l].kind \in RestsOnPassword => link'[l].dead = TRUE
<1> DEFINE d == Dead(RestsOnPassword, Child)
           open(l) == \E r \in LinkRequests : linkReq[r].op \in Kinds /\ linkReq[r].link = l
           ended(l) == [d[l] EXCEPT !.dead = @ \/ ~disable, !.old = TRUE, !.mixed = @ \/ open(l)]
<1>1. link' = [l \in Links |-> IF ~Mailed(l) \/ link[l].account # Child THEN link[l] ELSE ended(l)]
  BY DEF RemoveLogin
<1>2. ASSUME NEW l \in Links
      PROVE  /\ link'[l] \in LinkRecord
             /\ \/ link'[l] = link[l] /\ (link[l].kind = "none" \/ link[l].account # Child)
                \/ /\ link[l] \in MailedLink /\ link'[l] \in MailedLink
                   /\ link'[l].kind = link[l].kind /\ link'[l].account = link[l].account
                   /\ link'[l].at = link[l].at /\ link'[l].to = link[l].to
                   /\ link'[l].uses = link[l].uses
                   /\ link[l].mixed = TRUE => link'[l].mixed = TRUE
                   /\ open(l) => link'[l].mixed = TRUE
                   /\ link[l].kind \in RestsOnPassword => link'[l].dead = TRUE
  <2>1. CASE ~Mailed(l) \/ link[l].account # Child
    <3>1. link'[l] = link[l]
      BY <1>1, <2>1
    <3> QED BY <2>1, <3>1, LinkTyped DEF Mailed
  <2>2. CASE Mailed(l) /\ link[l].account = Child
    <3>1. link'[l] = ended(l)
      BY <1>1, <2>2
    <3>2. /\ d[l] \in MailedLink /\ d[l].kind = link[l].kind
          /\ d[l].account = link[l].account /\ d[l].at = link[l].at /\ d[l].to = link[l].to
          /\ d[l].uses = link[l].uses /\ d[l].mixed = link[l].mixed
          /\ link[l].account = Child /\ link[l].kind \in RestsOnPassword => d[l].dead = TRUE
      <4>1. /\ IsButDead(d[l], link[l])
            /\ link[l].account = Child /\ link[l].kind \in RestsOnPassword => d[l].dead = TRUE
        BY <2>2, DeadAt DEF Mailed
      <4> QED BY <4>1 DEF IsButDead
    <3> DEFINE dd == d[l].dead \/ ~disable
               mm == d[l].mixed \/ open(l)
    <3>3. ended(l) = [d[l] EXCEPT !.dead = dd, !.old = TRUE, !.mixed = mm]
      BY <3>2 DEF MailedLink
    <3>4. /\ dd \in BOOLEAN /\ mm \in BOOLEAN /\ (d[l].dead = TRUE => dd = TRUE)
          /\ d[l].mixed = TRUE => mm = TRUE
          /\ open(l) => mm = TRUE
      BY DEF dd, mm
    <3> HIDE DEF d, ended, open, dd, mm
    <3>5. /\ ended(l) \in MailedLink
          /\ ended(l).kind = d[l].kind /\ ended(l).account = d[l].account /\ ended(l).at = d[l].at
          /\ ended(l).to = d[l].to /\ ended(l).uses = d[l].uses
          /\ ended(l).dead = dd /\ ended(l).mixed = mm
      BY <3>2, <3>3, <3>4 DEF MailedLink
    <3>6. ended(l) \in LinkRecord
      BY <3>5 DEF LinkRecord
    <3>7. link[l] \in MailedLink
      BY <2>2, LinkTyped DEF Mailed
    <3> QED BY <2>2, <3>1, <3>2, <3>4, <3>5, <3>6, <3>7
  <2> QED BY <2>1, <2>2
<1>3. link' = [l \in Links |-> link'[l]]
  BY <1>1
<1> HIDE DEF open
<1>4. link' \in [Links -> LinkRecord]
  BY <1>2, <1>3
<1> QED BY <1>2, <1>4 DEF open

LEMMA RemoveLoginKeeps ==
    ASSUME LinksIInv, NEW disable \in BOOLEAN, RemoveLogin(disable)
    PROVE  LinksIInv'
<1> DEFINE row == [acct[Child] EXCEPT !.status = IF disable THEN "disabled" ELSE "none",
                                      !.usable = FALSE]
<1>1. /\ Active(Child) /\ UNCHANGED <<guards, linkReq, raced>>
      /\ acct' = [acct EXCEPT ![Child].status = IF disable THEN "disabled" ELSE "none",
                              ![Child].usable = FALSE]
  BY DEF RemoveLogin
<1>2. Child \in LinkAccounts /\ acct \in [LinkAccounts -> LinkRow] /\ acct[Child] \in LinkRow
  BY LinksAssumption, LinkTyped
<1>3. acct' = [acct EXCEPT ![Child] = row]
  BY <1>1, <1>2
<1>4. /\ row \in LinkRow /\ row.method = acct[Child].method /\ row.usable = FALSE
      /\ row.email = acct[Child].email
  BY <1>2 DEF LinkRow
<1> HIDE DEF row
<1>5. /\ acct' \in [LinkAccounts -> LinkRow] /\ acct'[Child] = row
      /\ \A b \in LinkAccounts : b # Child => acct'[b] = acct[b]
  BY <1>2, <1>3, <1>4
<1>6. NoPassword'
  BY <1>4, <1>5 DEF LinksIInv, NoPassword
<1>7. \A b \in LinkAccounts : acct'[b].status # "none" =>
        acct[b].status # "none" /\ acct'[b].email = acct[b].email
  BY <1>1, <1>4, <1>5 DEF Active
<1>8. AllFree' /\ AddressesStay({})
  BY <1>1, <1>7, SameAddresses
<1>9. \A b \in LinkAccounts : acct'[b].method = acct[b].method
  BY <1>4, <1>5
<1>10. /\ link' \in [Links -> LinkRecord]
       /\ \A l \in Links :
            \/ link'[l] = link[l] /\ (link[l].kind = "none" \/ link[l].account # Child)
            \/ /\ link[l] \in MailedLink /\ link'[l] \in MailedLink
               /\ link'[l].kind = link[l].kind /\ link'[l].account = link[l].account
               /\ link'[l].at = link[l].at /\ link'[l].to = link[l].to
               /\ link'[l].uses = link[l].uses
               /\ link[l].mixed = TRUE => link'[l].mixed = TRUE
               /\ (\E r \in LinkRequests : linkReq[r].op \in Kinds /\ linkReq[r].link = l)
                    => link'[l].mixed = TRUE
               /\ link[l].kind \in RestsOnPassword => link'[l].dead = TRUE
  BY RemovedLinks
<1>11. \A l \in Links : LinkFits(l)'
  <2> SUFFICES ASSUME NEW l \in Links PROVE LinkFits(l)'
    OBVIOUS
  <2>1. LinkFits(l) /\ (link[l].kind # "none" => link[l] \in MailedLink)
    BY LinkTyped DEF LinksIInv
  <2>2. CASE link'[l] = link[l]
    <3>1. link[l].kind = "reset" => link[l].account \in LinkAccounts
      BY <2>1 DEF MailedLink
    <3> QED BY <1>9, <2>1, <2>2, <3>1 DEF LinkFits
  <2>3. CASE link'[l] # link[l]
    <3>1. /\ link'[l].kind = link[l].kind /\ link'[l].at = link[l].at /\ link'[l].to = link[l].to
          /\ link'[l].uses = link[l].uses
          /\ link[l].mixed = TRUE => link'[l].mixed = TRUE
          /\ link[l].kind \in RestsOnPassword => link'[l].dead = TRUE
      BY <1>10, <2>3
    <3> QED BY <2>1, <3>1 DEF LinkFits, RestsOnPassword
  <2> QED BY <2>2, <2>3
<1>12. LinksStay({})
  <2> SUFFICES ASSUME NEW p \in LinkRequests, linkReq[p].op \in Kinds, NEW x \in Links,
                      x = linkReq[p].link
               PROVE  /\ link'[x].kind = link[x].kind /\ link'[x].account = link[x].account
                      /\ link'[x].to = link[x].to
                      /\ link[x].mixed = TRUE => link'[x].mixed = TRUE
                      /\ link'[x].mixed = TRUE \/ (link'[x].uses = link[x].uses /\ link'[x].old = link[x].old)
    BY OpenIsMailed DEF LinksStay
  <2> QED BY <1>10
<1>13. guards' \in BOOLEAN
  BY <1>1 DEF LinksIInv, LinkTables
<1> QED BY <1>1, <1>5, <1>6, <1>8, <1>10, <1>11, <1>12, <1>13, NoRequestKeeps

LEMMA GuardianLeavesKeeps ==
    ASSUME LinksIInv, GuardianLeaves
    PROVE  LinksIInv'
<1>1. guards' = FALSE /\ UNCHANGED <<acct, link, linkReq, raced>>
  BY DEF GuardianLeaves
<1>2. link' \in [Links -> LinkRecord] /\ LinksStay({}) /\ \A l \in Links : LinkFits(l)'
  BY <1>1, SameLinks
<1>3. acct' \in [LinkAccounts -> LinkRow] /\ AllFree' /\ NoPassword' /\ AddressesStay({})
  BY <1>1, SameAccounts
<1> QED BY <1>1, <1>2, <1>3, NoRequestKeeps

LEMMA LinksNextKeeps == LinksIInv /\ [LinksNext]_linksVars => LinksIInv'
<1> SUFFICES ASSUME LinksIInv, [LinksNext]_linksVars PROVE LinksIInv'
  OBVIOUS
<1>1. ASSUME NEW l \in Links, NEW a \in LinkAccounts,
             \/ RequestLink(l, a) \/ RequestSwitchToLink(l, a)
             \/ \E new \in Addresses : RequestChange(l, a, new)
      PROVE  LinksIInv'
  BY <1>1, MailsKeep
<1>2. ASSUME NEW l \in Links, ResendLoginMail(l) PROVE LinksIInv'
  BY <1>2, LinksAssumption, MailsKeep
<1>3. ASSUME NEW l \in Links, Expire(l) PROVE LinksIInv'
  BY <1>3, ExpireKeeps
<1>4. ASSUME NEW r \in LinkRequests, NEW l \in Links, OpenLink(r, l) PROVE LinksIInv'
  BY <1>4, OpenLinkKeeps
<1>5. ASSUME NEW r \in LinkRequests, NEW a \in LinkAccounts, ChangePassword(r, a) PROVE LinksIInv'
  BY <1>5, ChangePasswordKeeps
<1>6. ASSUME NEW r \in LinkRequests, NEW email \in Addresses, NEW method \in Methods,
             GiveLogin(r, email, method)
      PROVE  LinksIInv'
  BY <1>6, GiveLoginKeeps
<1>7. ASSUME NEW r \in LinkRequests,
             \/ CommitLogin(r) \/ CommitSwitch(r) \/ CommitReset(r) \/ CheckChange(r)
             \/ CommitChange(r) \/ CommitPassword(r) \/ CommitLoginGiven(r)
      PROVE  LinksIInv'
  BY <1>7, CommitLoginKeeps, CommitSwitchKeeps, CommitPasswordsKeep, CheckChangeKeeps,
     CommitChangeKeeps, CommitLoginGivenKeeps
<1>8. ASSUME NEW r \in LinkRequests, RequestFails(r) PROVE LinksIInv'
  BY <1>8, RequestFailsKeeps DEF RequestFails
<1>9. ASSUME NEW a \in LinkAccounts, NEW usable \in BOOLEAN, SwitchToPassword(a, usable)
      PROVE  LinksIInv'
  BY <1>9, SwitchToPasswordKeeps
<1>10. ASSUME NEW disable \in BOOLEAN, RemoveLogin(disable) PROVE LinksIInv'
  BY <1>10, RemoveLoginKeeps
<1>11. CASE GuardianLeaves
  BY <1>11, GuardianLeavesKeeps
<1>12. CASE UNCHANGED linksVars
  <2>1. UNCHANGED <<acct, guards, link, linkReq, raced>>
    BY <1>12 DEF linksVars
  <2>2. link' \in [Links -> LinkRecord] /\ LinksStay({}) /\ \A l \in Links : LinkFits(l)'
    BY <2>1, SameLinks
  <2>3. acct' \in [LinkAccounts -> LinkRow] /\ AllFree' /\ NoPassword' /\ AddressesStay({})
    BY <2>1, SameAccounts
  <2>4. guards' \in BOOLEAN
    BY <2>1 DEF LinksIInv, LinkTables
  <2> QED BY <2>1, <2>2, <2>3, <2>4, NoRequestKeeps
<1>13. ASSUME LinksNext PROVE LinksIInv'
  BY <1>1, <1>2, <1>3, <1>4, <1>5, <1>6, <1>7, <1>8, <1>9, <1>10, <1>11, <1>13 DEF LinksNext
<1> QED BY <1>12, <1>13

\* Whatever requests, links and accounts there are: no link works twice unless it
\* was posted twice at once, no two accounts have one address unless writers
\* overlapped, and an account on a link has no password.
\* (accounts.login_links, accounts.email_change, accounts.child_accounts)
THEOREM LinksAreSound == LinksSpec => []LinksInv
<1>1. LinksInit => LinksIInv
  BY LinksInitOK
<1>2. LinksIInv /\ [LinksNext]_linksVars => LinksIInv'
  BY LinksNextKeeps
<1>3. LinksIInv => LinksInv
  BY LinksIInvImplies
<1> QED BY <1>1, <1>2, <1>3, PTL DEF LinksSpec

LinksEnd(l) ==
    link[l].kind # "none" /\ link[l].old /\ ~link[l].mixed /\ link[l].kind # "change"
      /\ link'[l].kind # "none"

\* A step counts a use of the link its own request opened, and of no other.
LEMMA UsesStay ==
    ASSUME LinksIInv, LinksNext, NEW l \in Links, LinksEnd(l)
    PROVE  link'[l].uses = link[l].uses
<1>1. /\ link[l].kind # "none" /\ link[l].old = TRUE /\ link[l].mixed = FALSE
      /\ link[l].kind # "change" /\ link'[l].kind # "none" /\ link[l] \in MailedLink
  <2>1. link[l] \in MailedLink
    BY LinkTyped DEF LinksEnd
  <2> QED BY <2>1 DEF LinksEnd, MailedLink
<1>2. ASSUME NEW m \in Links, NEW kind, NEW a, NEW to, NEW by, Mail(m, kind, a, to, by)
      PROVE  link'[l].uses = link[l].uses
  BY <1>1, <1>2, LinkTyped DEF Mail, Mailed
<1>3. ASSUME NEW m \in Links, Expire(m) PROVE link'[l].uses = link[l].uses
  <2>1. CASE m = l
    BY <1>1, <1>3, <2>1, LinkTyped DEF Expire, NoLink
  <2>2. CASE m # l
    BY <1>3, <2>2, LinkTyped DEF Expire
  <2> QED BY <2>1, <2>2
<1>4. ASSUME NEW r \in LinkRequests, NEW m \in Links, OpenLink(r, m)
      PROVE  link'[l].uses = link[l].uses
  <2>1. link' = link \/ link' = [link EXCEPT ![m].mixed = TRUE]
    BY <1>4 DEF OpenLink
  <2>2. link[l].uses = [link[l] EXCEPT !.mixed = TRUE].uses
    BY <1>1 DEF MailedLink
  <2> QED BY <2>1, <2>2, LinkTyped
<1>5. ASSUME NEW kinds, NEW a, link' = Dead(kinds, a) PROVE link'[l].uses = link[l].uses
  <2>1. IsButDead(Dead(kinds, a)[l], link[l])
    BY <1>1, DeadAt
  <2> QED BY <1>5, <2>1 DEF IsButDead
<1>6. ASSUME NEW r \in LinkRequests, linkReq[r].op \in {"login", "reset", "switch"}, NEW kinds,
             NEW a, link' = Used(Dead(kinds, a), linkReq[r].link)
      PROVE  link'[l].uses = link[l].uses
  <2> DEFINE n == linkReq[r].link
             d == Dead(kinds, a)
  <2>1. /\ n \in Links /\ link[n].kind # "none"
        /\ link[n].mixed = TRUE \/ link[n].old = FALSE
    BY <1>6, OpenIsMailed DEF Kinds
  <2>2. n # l
    BY <1>1, <2>1
  <2>3. d \in [Links -> LinkRecord] /\ d[n] \in MailedLink /\ d[l].uses = link[l].uses
    <3>1. d \in [Links -> LinkRecord]
      BY DeadIs
    <3>2. IsButDead(d[n], link[n]) /\ IsButDead(d[l], link[l])
      BY <1>1, <2>1, DeadAt
    <3> QED BY <3>1, <3>2 DEF IsButDead
  <2> HIDE DEF d
  <2> QED BY <1>6, <2>1, <2>2, <2>3, UsedIs DEF d
<1>7. ASSUME NEW r \in LinkRequests, CommitChange(r) PROVE link'[l].uses = link[l].uses
  <2> DEFINE n == linkReq[r].link
  <2>1. linkReq[r].op = "change" /\ link' = Used(link, n)
    BY <1>7 DEF CommitChange, HoldsLock
  <2>2. n \in Links /\ link[n] \in MailedLink /\ link[n].kind = "change"
    BY <2>1, OpenIsMailed DEF Kinds
  <2> QED BY <1>1, <2>1, <2>2, LinkTyped, UsedIs
<1>8. ASSUME NEW disable \in BOOLEAN, RemoveLogin(disable) PROVE link'[l].uses = link[l].uses
  BY <1>8, RemovedLinks
<1>9. ASSUME NEW r \in LinkRequests, CommitLogin(r) \/ CommitSwitch(r) \/ CommitReset(r)
      PROVE  link'[l].uses = link[l].uses
  <2>1. linkReq[r].op \in {"login", "reset", "switch"}
    BY <1>9 DEF CommitLogin, CommitSwitch, CommitReset
  <2>2. link' = link \/ \E kinds, a : link' = Used(Dead(kinds, a), linkReq[r].link)
    BY <1>9 DEF CommitLogin, CommitSwitch, CommitReset
  <2> QED BY <1>6, <2>1, <2>2
<1>10. ASSUME NEW r \in LinkRequests, CommitPassword(r) \/ CommitLoginGiven(r)
       PROVE  link'[l].uses = link[l].uses
  BY <1>5, <1>10 DEF CommitPassword, CommitLoginGiven
<1>11. ASSUME NEW a \in LinkAccounts, NEW usable \in BOOLEAN, SwitchToPassword(a, usable)
       PROVE  link'[l].uses = link[l].uses
  BY <1>5, <1>11 DEF SwitchToPassword
<1>12. ASSUME NEW m \in Links, NEW a \in LinkAccounts,
              \/ RequestLink(m, a) \/ RequestSwitchToLink(m, a)
              \/ \E new \in Addresses : RequestChange(m, a, new)
       PROVE  link'[l].uses = link[l].uses
  BY <1>2, <1>12 DEF RequestLink, RequestSwitchToLink, RequestChange
<1>13. ASSUME NEW m \in Links, ResendLoginMail(m) PROVE link'[l].uses = link[l].uses
  BY <1>2, <1>13 DEF ResendLoginMail
<1>14. ASSUME NEW r \in LinkRequests,
              \/ \E a \in LinkAccounts : ChangePassword(r, a)
              \/ \E email \in Addresses, method \in Methods : GiveLogin(r, email, method)
              \/ CheckChange(r) \/ RequestFails(r)
       PROVE  link'[l].uses = link[l].uses
  BY <1>14 DEF ChangePassword, GiveLogin, CheckChange, RequestFails
<1>15. CASE GuardianLeaves
  BY <1>15 DEF GuardianLeaves
<1> QED BY <1>3, <1>4, <1>7, <1>8, <1>9, <1>10, <1>11, <1>12, <1>13, <1>14, <1>15 DEF LinksNext

\* No step uses a link from before the child's login was removed, unless it was
\* being posted then. (accounts.child_accounts:remove_login, give_login)
THEOREM RemovedLoginsStayRemoved == LinksSpec => OldLinksStayDead
<1> DEFINE Unused == \A l \in Links :
             (Mailed(l) /\ link[l].old /\ ~link[l].mixed /\ link[l].kind # "change" /\ link'[l].kind # "none")
                => link'[l].uses = link[l].uses
<1>1. LinksInit => LinksIInv
  BY LinksInitOK
<1>2. LinksIInv /\ [LinksNext]_linksVars => LinksIInv'
  BY LinksNextKeeps
<1>3. LinksIInv /\ [LinksNext]_linksVars => [Unused]_linksVars
  <2>1. ASSUME LinksIInv, LinksNext PROVE Unused
    BY <2>1, UsesStay DEF LinksEnd, Mailed
  <2> QED BY <2>1
<1>4. OldLinksStayDead <=> [][Unused]_linksVars
  BY DEF OldLinksStayDead
<1> HIDE DEF Unused
<1> QED BY <1>1, <1>2, <1>3, <1>4, PTL DEF LinksSpec

-----------------------------------------------------------------------------
(* The retention job *)

Days == 0..Cap \cup {Never}
NoticeAges == 0..Notice \cup {Never}

PlanRecord ==
    [account : Accounts, since : Sources \cup {"past"},
     outcome : {"first", "second", "erased", "cleaned", "nothing"}]

RunRecord == [on : BOOLEAN, left : SUBSET Accounts, plan : SUBSET PlanRecord]

\* The job holds one account at a time, and none between its runs.
OneAtATime ==
    /\ run \in RunRecord
    /\ run.plan = {} \/ \E p \in PlanRecord : run.plan = {p}
    /\ ~run.on => run.left = {} /\ run.plan = {}

OwnIsKnown == \A a \in Accounts : idle[a]["own"] # Never

\* A reminder that has its notice was mailed, and the date the latest mail
\* named is not later than the one that the notice gives.
ToldInTime(a) ==
    \A s \in Sources :
        /\ mailed[a][s] # {} => told[a][s] # Never
        /\ idle[a][s] # Never /\ told[a][s] # Never => told[a][s] <= Date(idle[a][s], Never)
        /\ notice[a][s][Second] # Never => Second \in mailed[a][s]
        /\ notice[a][s][First] # Never =>
              /\ First \in mailed[a][s]
              /\ idle[a][s] # Never => told[a][s] <= Date(idle[a][s], notice[a][s][First])

AllToldInTime == \A a \in Accounts : stirred[a] # "underway" => ToldInTime(a)

\* A plan is what the account's rows still say, unless something happened to
\* the account since.
PlansHold ==
    \A p \in run.plan : stirred[p.account] # "underway" =>
        p.since = Since(p.account) /\ p.outcome = Outcome(p.account)

\* Nobody the run listed has got a role since, unless it is noted.
ListedHaveNoRole ==
    \A a \in Accounts :
        /\ a \in run.left \/ \E p \in run.plan : p.account = a
        /\ stirred[a] = "no"
        => a \notin role

RetentionIInv ==
    /\ RetentionTypeOK /\ OneAtATime /\ OwnIsKnown
    /\ AllToldInTime /\ PlansHold /\ ListedHaveNoRole

-----------------------------------------------------------------------------
(* The operators *)

LEMMA Numbers ==
    /\ Period \in Nat /\ First \in Nat /\ Second \in Nat /\ Notice \in Nat
    /\ First # Second /\ Never \notin Int
    /\ Cap \in Nat /\ Cap = Period + Notice
    /\ \A n \in Days : n # Never => n \in 0..Cap
    /\ \A n \in NoticeAges : n # Never => n \in 0..Notice
BY RetentionAssumption DEF Cap, Days, NoticeAges

\* The date is in 0..Cap days, later without a notice than with one, and the
\* same as with a new one; when it has come the period is over.
LEMMA DateBounds ==
    ASSUME NEW days \in 0..Cap, NEW age \in NoticeAges
    PROVE  /\ Date(days, age) \in 0..Cap /\ Date(days, age) <= Date(days, Never)
           /\ Date(days, Never) \in 0..Cap /\ Date(days, 0) = Date(days, Never)
           /\ Date(days, age) <= 0 => days >= Period
<1>1. age = Never \/ age \in 0..Notice
  BY Numbers
<1> QED BY <1>1, Numbers DEF Date, Later

\* A day later the date is a day nearer, or has come.
LEMMA DateADayLater ==
    ASSUME NEW days \in 0..Cap, NEW age \in NoticeAges, NEW left \in 0..Cap,
           left <= Date(days, age)
    PROVE  (IF left = 0 THEN 0 ELSE left - 1) <= Date(Older(days, Cap), Older(age, Notice))
<1>1. CASE age = Never
  BY <1>1, Numbers DEF Date, Later, Older
<1>2. CASE age \in 0..Notice
  BY <1>2, Numbers DEF Date, Later, Older
<1> QED BY <1>1, <1>2, Numbers

LEMMA OlderIsOfItsKind ==
    /\ \A n \in Days : Older(n, Cap) \in Days /\ (Older(n, Cap) = Never <=> n = Never)
    /\ \A n \in NoticeAges : Older(n, Notice) \in NoticeAges /\ (Older(n, Notice) = Never <=> n = Never)
BY Numbers DEF Older, Days, NoticeAges

LEMMA SinceIsKnown ==
    ASSUME RetentionTypeOK, OwnIsKnown, NEW a \in Accounts
    PROVE  Since(a) \in Sources /\ idle[a][Since(a)] \in 0..Cap
<1>1. /\ idle[a] \in [Sources -> Days] /\ idle[a]["own"] # Never
  BY DEF RetentionTypeOK, OwnIsKnown, Days
<1>2. Since(a) = "own" \/ (Since(a) = "child" /\ idle[a]["child"] # Never)
  BY DEF Since
<1> QED BY <1>1, <1>2, Numbers DEF Sources

\* One entry of a table in a table.
LEMMA OneEntry ==
    ASSUME NEW A, NEW S, NEW T, NEW f \in [A -> [S -> T]], NEW a \in A, NEW s \in S, NEW v \in T,
           NEW g, g = [f EXCEPT ![a][s] = v]
    PROVE  /\ g \in [A -> [S -> T]]
           /\ \A b \in A, t \in S : g[b][t] = IF b = a /\ t = s THEN v ELSE f[b][t]
           /\ \A b \in A \ {a} : g[b] = f[b]
<1>1. g = [f EXCEPT ![a] = [f[a] EXCEPT ![s] = v]]
  OBVIOUS
<1>2. [f[a] EXCEPT ![s] = v] \in [S -> T]
  OBVIOUS
<1> QED BY <1>1, <1>2

LEMMA Tables ==
    ASSUME RetentionTypeOK
    PROVE  /\ idle \in [Accounts -> [Sources -> Days]]
           /\ notice \in [Accounts -> [Sources -> [Reminders -> NoticeAges]]]
           /\ mailed \in [Accounts -> [Sources -> SUBSET Reminders]]
           /\ told \in [Accounts -> [Sources -> Days]]
           /\ role \subseteq Accounts
           /\ team \in [Accounts -> {"none", "former", "champion"}]
           /\ state \in [Accounts -> {"open", "deleted", "erased", "cleaned"}]
           /\ stirred \in [Accounts -> {"no", "listed", "underway"}]
BY DEF RetentionTypeOK, Days, NoticeAges

LEMMA OnePlan ==
    ASSUME NEW plan, plan = {} \/ \E p \in PlanRecord : plan = {p}
    PROVE  Cardinality(plan) <= 1
<1>1. CASE plan = {}
  BY <1>1, FS_EmptySet
<1>2. ASSUME NEW p, plan = {p} PROVE Cardinality(plan) <= 1
  <2>1. Cardinality({p}) = 1
    BY FS_Singleton
  <2> QED BY <1>2, <2>1
<1> QED BY <1>1, <1>2

LEMMA NoNoticeIsNone ==
    NoNotice \in [Reminders -> NoticeAges] /\ NoNotice[First] = Never /\ NoNotice[Second] = Never
BY DEF NoNotice, Reminders, NoticeAges

-----------------------------------------------------------------------------
(* The invariant *)

LEMMA InitRetention == RetentionInit => RetentionIInv
<1> SUFFICES ASSUME RetentionInit PROVE RetentionIInv
  OBVIOUS
<1>1. OneAtATime
  BY DEF RetentionInit, NoRun, OneAtATime, RunRecord
<1>2. RetentionTypeOK
  <2>1. idle \in [Accounts -> [Sources -> Days]]
    BY Numbers DEF RetentionInit, Days
  <2>2. notice \in [Accounts -> [Sources -> [Reminders -> NoticeAges]]]
    BY NoNoticeIsNone DEF RetentionInit
  <2>3. mailed \in [Accounts -> [Sources -> SUBSET Reminders]]
    BY DEF RetentionInit
  <2>4. told \in [Accounts -> [Sources -> Days]]
    BY DEF RetentionInit, Days
  <2>5. /\ role \subseteq Accounts
        /\ team \in [Accounts -> {"none", "former", "champion"}]
        /\ state \in [Accounts -> {"open", "deleted", "erased", "cleaned"}]
        /\ stirred \in [Accounts -> {"no", "listed", "underway"}]
    BY DEF RetentionInit
  <2>6. run.left \subseteq Accounts /\ Cardinality(run.plan) <= 1
    BY <1>1, OnePlan DEF OneAtATime, RunRecord
  <2> QED BY <2>1, <2>2, <2>3, <2>4, <2>5, <2>6 DEF RetentionTypeOK, Days, NoticeAges
<1>3. OwnIsKnown
  BY Numbers DEF RetentionInit, OwnIsKnown, Sources
<1>4. AllToldInTime
  BY NoNoticeIsNone DEF RetentionInit, AllToldInTime, ToldInTime
<1>5. PlansHold /\ ListedHaveNoRole
  BY DEF RetentionInit, NoRun, PlansHold, ListedHaveNoRole
<1> QED BY <1>1, <1>2, <1>3, <1>4, <1>5 DEF RetentionIInv

\* The job goes on to an account, or stops.
LEMMA JobKeepsRetention ==
    ASSUME RetentionIInv, (\E a \in Accounts : Plan(a)) \/ HandleFails \/ EndRun
    PROVE  RetentionIInv'
<1>1. UNCHANGED <<accountVars, stirred>> /\ run \in RunRecord
  BY DEF Plan, HandleFails, EndRun, RetentionIInv, OneAtATime
<1>2. /\ run' \in RunRecord
      /\ run'.plan = {} \/ \E p \in PlanRecord : run'.plan = {p}
      /\ ~run'.on => run'.left = {} /\ run'.plan = {}
      /\ \A p \in run'.plan : p.since = Since(p.account) /\ p.outcome = Outcome(p.account)
      /\ \A a \in Accounts : (a \in run'.left \/ \E p \in run'.plan : p.account = a) => a \in run.left
  <2>1. PICK s \in RunRecord : s = run
    BY <1>1
  <2>2. ASSUME NEW a \in Accounts, Plan(a) PROVE <1>2!:
    <3> DEFINE p == [account |-> a, since |-> Since(a), outcome |-> Outcome(a)]
               row == [s EXCEPT !.left = s.left \ {a}, !.plan = {p}]
    <3>1. Outcome(a) \in {"first", "second", "erased", "cleaned", "nothing"}
      BY DEF Outcome
    <3>2. Since(a) \in Sources
      BY DEF Since, Sources
    <3>3. /\ p \in PlanRecord /\ p.account = a /\ p.since = Since(p.account)
          /\ p.outcome = Outcome(p.account)
      BY <3>1, <3>2 DEF PlanRecord
    <3> HIDE DEF p
    <3>4. row \in RunRecord /\ row.on = s.on /\ row.left = s.left \ {a} /\ row.plan = {p}
      BY <3>3 DEF RunRecord
    <3>5. run' = row /\ a \in s.left
      BY <2>1, <2>2 DEF Plan, p
    <3> HIDE DEF row
    <3>6. s.on
      BY <2>1, <3>5 DEF RetentionIInv, OneAtATime, RunRecord
    <3> QED BY <2>1, <3>3, <3>4, <3>5, <3>6
  <2>3. CASE HandleFails
    <3> DEFINE row == [s EXCEPT !.plan = {}]
    <3>1. row \in RunRecord /\ row.on = s.on /\ row.left = s.left /\ row.plan = {} /\ run' = row
      BY <2>1, <2>3 DEF RunRecord, HandleFails
    <3> HIDE DEF row
    <3> QED BY <2>1, <3>1 DEF RetentionIInv, OneAtATime
  <2>4. CASE EndRun
    <3>1. run' = [on |-> FALSE, left |-> {}, plan |-> {}]
      BY <2>4 DEF EndRun, NoRun
    <3> QED BY <3>1 DEF RunRecord
  <2> QED BY <2>2, <2>3, <2>4
<1>3. RetentionTypeOK' /\ OneAtATime'
  <2>1. OneAtATime'
    BY <1>2 DEF OneAtATime
  <2>2. RetentionTypeOK'
    <3>1. UNCHANGED <<idle, notice, mailed, told, role, team, state, stirred>>
      BY <1>1 DEF accountVars
    <3>2. run'.left \subseteq Accounts /\ Cardinality(run'.plan) <= 1
      BY <1>2, OnePlan DEF RunRecord
    <3> QED BY <3>1, <3>2 DEF RetentionIInv, RetentionTypeOK
  <2> QED BY <2>1, <2>2
<1>4. OwnIsKnown' /\ AllToldInTime'
  BY <1>1 DEF accountVars, RetentionIInv, OwnIsKnown, AllToldInTime, ToldInTime
<1>5. PlansHold'
  <2>1. \A a \in Accounts : Since(a)' = Since(a) /\ Outcome(a)' = Outcome(a)
    BY <1>1 DEF accountVars, Since, Outcome, AgeOf, DaysLeft, IdleDays
  <2>2. \A p \in run'.plan : p.account \in Accounts
    BY <1>2 DEF PlanRecord, RunRecord
  <2> QED BY <1>1, <1>2, <2>1, <2>2 DEF PlansHold
<1>6. ListedHaveNoRole'
  BY <1>1, <1>2 DEF accountVars, RetentionIInv, ListedHaveNoRole
<1> QED BY <1>3, <1>4, <1>5, <1>6 DEF RetentionIInv

\* A step of one account leaves the tables of their kind, the others' rows
\* alone, and of the plan nothing but what it says of the others.
TablesStay ==
    /\ idle' \in [Accounts -> [Sources -> Days]]
    /\ notice' \in [Accounts -> [Sources -> [Reminders -> NoticeAges]]]
    /\ mailed' \in [Accounts -> [Sources -> SUBSET Reminders]]
    /\ told' \in [Accounts -> [Sources -> Days]]
    /\ role' \subseteq Accounts
    /\ team' \in [Accounts -> {"none", "former", "champion"}]
    /\ state' \in [Accounts -> {"open", "deleted", "erased", "cleaned"}]
    /\ stirred' \in [Accounts -> {"no", "listed", "underway"}]

OthersStay(a) ==
    \A b \in Accounts \ {a} :
        /\ idle'[b] = idle[b] /\ notice'[b] = notice[b] /\ mailed'[b] = mailed[b]
        /\ told'[b] = told[b] /\ team'[b] = team[b] /\ stirred'[b] = stirred[b]
        /\ b \in role' <=> b \in role

PlanStays(a) ==
    /\ run' \in RunRecord /\ run'.on = run.on /\ run'.left = run.left
    /\ run'.plan = {} \/ \E p \in PlanRecord : run'.plan = {p}
    /\ run.plan = {} => run'.plan = {}
    /\ \A p \in run'.plan :
         /\ p.account # a => p \in run.plan
         /\ p.account = a => stirred'[a] = "underway"
    /\ (a \in run.left \/ \E p \in run'.plan : p.account = a) /\ stirred'[a] = "no" =>
         a \notin role'

LEMMA AccountKeepsRetention ==
    ASSUME RetentionIInv, NEW a \in Accounts, TablesStay, OthersStay(a), PlanStays(a),
           idle'[a]["own"] # Never,
           stirred'[a] # "underway" => ToldInTime(a)'
    PROVE  RetentionIInv'
<1>1. OneAtATime'
  BY DEF RetentionIInv, OneAtATime, PlanStays
<1>2. RetentionTypeOK'
  <2>1. run'.left \subseteq Accounts /\ Cardinality(run'.plan) <= 1
    BY OnePlan DEF RunRecord, PlanStays
  <2> QED BY <2>1 DEF RetentionTypeOK, TablesStay, Days, NoticeAges
<1>3. OwnIsKnown'
  BY DEF RetentionIInv, OwnIsKnown, OthersStay
<1>4. AllToldInTime'
  <2>1. \A b \in Accounts \ {a} : ToldInTime(b) => ToldInTime(b)'
    BY DEF ToldInTime, OthersStay
  <2> QED BY <2>1 DEF RetentionIInv, AllToldInTime, OthersStay
<1>5. PlansHold'
  <2> SUFFICES ASSUME NEW p \in run'.plan, stirred'[p.account] # "underway"
               PROVE  p.since = Since(p.account)' /\ p.outcome = Outcome(p.account)'
    BY DEF PlansHold
  <2>1. p.account \in Accounts \ {a} /\ p \in run.plan
    BY DEF RunRecord, PlanRecord, PlanStays
  <2>2. PICK b \in Accounts \ {a} : b = p.account
    BY <2>1
  <2>3. Since(b)' = Since(b) /\ Outcome(b)' = Outcome(b)
    BY DEF Since, Outcome, AgeOf, DaysLeft, IdleDays, OthersStay
  <2>4. p.since = Since(b) /\ p.outcome = Outcome(b)
    BY <2>1, <2>2 DEF RetentionIInv, PlansHold, OthersStay
  <2> QED BY <2>2, <2>3, <2>4
<1>6. ListedHaveNoRole'
  <2> SUFFICES ASSUME NEW b \in Accounts, b \in run'.left \/ \E p \in run'.plan : p.account = b,
                      stirred'[b] = "no"
               PROVE  b \notin role'
    BY DEF ListedHaveNoRole
  <2>1. CASE b = a
    BY <2>1 DEF PlanStays
  <2>2. CASE b # a
    <3>1. b \in run.left \/ \E p \in run.plan : p.account = b
      BY <2>2 DEF PlanStays
    <3> QED BY <2>2, <3>1 DEF RetentionIInv, ListedHaveNoRole, OthersStay
  <2> QED BY <2>1, <2>2
<1> QED BY <1>1, <1>2, <1>3, <1>4, <1>5, <1>6 DEF RetentionIInv

\* Whoever does something while a reminder to them is under way is noted.
LEMMA Stirring ==
    ASSUME RetentionIInv, NEW a \in Accounts, Stir(a)
    PROVE  /\ state[a] = "open"
           /\ stirred' \in [Accounts -> {"no", "listed", "underway"}]
           /\ \A b \in Accounts \ {a} : stirred'[b] = stirred[b]
           /\ (\E p \in run.plan : p.account = a) => stirred'[a] = "underway"
           /\ a \in run.left => stirred'[a] # "no"
           /\ stirred'[a] # "underway" => stirred[a] # "underway"
<1>1. stirred \in [Accounts -> {"no", "listed", "underway"}]
  BY Tables DEF RetentionIInv
<1>2. /\ state[a] = "open"
      /\ stirred' = [stirred EXCEPT ![a] =
                       IF \E p \in run.plan : p.account = a THEN "underway"
                       ELSE IF run.on /\ stirred[a] = "no" THEN "listed" ELSE stirred[a]]
  BY DEF Stir
<1>3. a \in run.left => run.on
  BY DEF RetentionIInv, OneAtATime
<1>4. PICK v \in {"no", "listed", "underway"} :
        v = IF \E p \in run.plan : p.account = a THEN "underway"
            ELSE IF run.on /\ stirred[a] = "no" THEN "listed" ELSE stirred[a]
  BY <1>1
<1>5. stirred' = [stirred EXCEPT ![a] = v]
  BY <1>2, <1>4
<1> QED BY <1>1, <1>2, <1>3, <1>4, <1>5

LEMMA PlansAreOfAccounts ==
    ASSUME RetentionIInv
    PROVE  /\ run \in RunRecord
           /\ run.plan = {} \/ \E p \in PlanRecord : run.plan = {p}
BY DEF RetentionIInv, OneAtATime

\* What the family and the organisation do.
LEMMA RenewingKeepsRetention ==
    ASSUME RetentionIInv, NEW a \in Accounts, NEW s \in Sources, Stir(a), Renew(a, s)
    PROVE  RetentionIInv'
<1>1. /\ idle \in [Accounts -> [Sources -> Days]]
      /\ notice \in [Accounts -> [Sources -> [Reminders -> NoticeAges]]]
      /\ mailed \in [Accounts -> [Sources -> SUBSET Reminders]]
      /\ told \in [Accounts -> [Sources -> Days]]
  BY Tables DEF RetentionIInv
<1>2. /\ idle' = [idle EXCEPT ![a][s] = 0] /\ notice' = [notice EXCEPT ![a][s] = NoNotice]
      /\ mailed' = [mailed EXCEPT ![a][s] = {}] /\ told' = [told EXCEPT ![a][s] = Never]
      /\ UNCHANGED <<role, team, state>>
  BY DEF Renew
<1>3. 0 \in Days /\ 0 # Never /\ Never \in Days
  BY Numbers DEF Days
<1>4. /\ idle' \in [Accounts -> [Sources -> Days]]
      /\ \A b \in Accounts, t \in Sources : idle'[b][t] = IF b = a /\ t = s THEN 0 ELSE idle[b][t]
      /\ \A b \in Accounts \ {a} : idle'[b] = idle[b]
  BY <1>1, <1>2, <1>3, OneEntry
<1>5. /\ notice' \in [Accounts -> [Sources -> [Reminders -> NoticeAges]]]
      /\ \A b \in Accounts, t \in Sources :
           notice'[b][t] = IF b = a /\ t = s THEN NoNotice ELSE notice[b][t]
      /\ \A b \in Accounts \ {a} : notice'[b] = notice[b]
  BY <1>1, <1>2, NoNoticeIsNone, OneEntry
<1>6. /\ mailed' \in [Accounts -> [Sources -> SUBSET Reminders]]
      /\ \A b \in Accounts, t \in Sources : mailed'[b][t] = IF b = a /\ t = s THEN {} ELSE mailed[b][t]
      /\ \A b \in Accounts \ {a} : mailed'[b] = mailed[b]
  BY <1>1, <1>2, OneEntry
<1>7. /\ told' \in [Accounts -> [Sources -> Days]]
      /\ \A b \in Accounts, t \in Sources : told'[b][t] = IF b = a /\ t = s THEN Never ELSE told[b][t]
      /\ \A b \in Accounts \ {a} : told'[b] = told[b]
  BY <1>1, <1>2, <1>3, OneEntry
<1>8. /\ run' \in RunRecord /\ run'.on = run.on /\ run'.left = run.left
      /\ run'.plan = {} \/ \E p \in PlanRecord : run'.plan = {p}
      /\ run.plan = {} => run'.plan = {}
      /\ \A q \in run'.plan :
           /\ q.account # a => q \in run.plan
           /\ q.account = a => \E p \in run.plan : p.account = a
  <2>1. PICK r \in RunRecord : r = run
    BY PlansAreOfAccounts
  <2> DEFINE later(p) == IF p.account = a /\ p.since = s THEN [p EXCEPT !.since = "past"] ELSE p
             plan == {later(p) : p \in r.plan}
             row == [r EXCEPT !.plan = plan]
  <2>2. ASSUME NEW p \in PlanRecord
        PROVE  /\ later(p) \in PlanRecord /\ later(p).account = p.account
               /\ p.account # a => later(p) = p
    BY DEF PlanRecord
  <2>3. run' = row
    BY <2>1 DEF Renew
  <2> HIDE DEF later
  <2>4. plan \in SUBSET PlanRecord
    BY <2>2 DEF RunRecord
  <2>5. r.plan = {} => plan = {}
    OBVIOUS
  <2>6. \A p \in PlanRecord : r.plan = {p} => plan = {later(p)}
    OBVIOUS
  <2>7. \A q \in plan :
           /\ q.account # a => q \in r.plan
           /\ q.account = a => \E p \in r.plan : p.account = a
    BY <2>2 DEF RunRecord
  <2> HIDE DEF plan
  <2>8. row \in RunRecord /\ row.on = r.on /\ row.left = r.left /\ row.plan = plan
    BY <2>4 DEF RunRecord
  <2> HIDE DEF row
  <2>9. plan = {} \/ \E p \in PlanRecord : plan = {p}
    BY <2>1, <2>2, <2>5, <2>6, PlansAreOfAccounts
  <2> QED BY <2>1, <2>3, <2>5, <2>7, <2>8, <2>9
<1>9. idle'[a]["own"] # Never
  BY <1>3, <1>4 DEF RetentionIInv, OwnIsKnown, Sources
<1>10. stirred'[a] # "underway" => ToldInTime(a)'
  <2> SUFFICES ASSUME stirred'[a] # "underway", NEW t \in Sources
               PROVE  /\ mailed'[a][t] # {} => told'[a][t] # Never
                      /\ idle'[a][t] # Never /\ told'[a][t] # Never =>
                            told'[a][t] <= Date(idle'[a][t], Never)
                      /\ notice'[a][t][Second] # Never => Second \in mailed'[a][t]
                      /\ notice'[a][t][First] # Never =>
                            /\ First \in mailed'[a][t]
                            /\ idle'[a][t] # Never =>
                                  told'[a][t] <= Date(idle'[a][t], notice'[a][t][First])
    BY DEF ToldInTime, Date, Later
  <2>1. CASE t = s
    BY <1>4, <1>5, <1>6, <1>7, <2>1, NoNoticeIsNone
  <2>2. CASE t # s
    <3>1. ToldInTime(a)
      BY Stirring DEF RetentionIInv, AllToldInTime
    <3> QED BY <1>4, <1>5, <1>6, <1>7, <2>2, <3>1 DEF ToldInTime
  <2> QED BY <2>1, <2>2
<1>11. /\ role' \subseteq Accounts
       /\ team' \in [Accounts -> {"none", "former", "champion"}]
       /\ state' \in [Accounts -> {"open", "deleted", "erased", "cleaned"}]
  BY <1>2, Tables DEF RetentionIInv
<1>12. stirred' \in [Accounts -> {"no", "listed", "underway"}]
  BY Stirring
<1>13. \A b \in Accounts \ {a} :
         /\ idle'[b] = idle[b] /\ notice'[b] = notice[b] /\ mailed'[b] = mailed[b]
         /\ told'[b] = told[b] /\ team'[b] = team[b] /\ stirred'[b] = stirred[b]
         /\ b \in role' <=> b \in role
  BY <1>2, <1>4, <1>5, <1>6, <1>7, Stirring
<1>14. /\ \A p \in run'.plan :
           /\ p.account # a => p \in run.plan
           /\ p.account = a => stirred'[a] = "underway"
       /\ (a \in run.left \/ \E p \in run'.plan : p.account = a) /\ stirred'[a] = "no" =>
            a \notin role'
  BY <1>8, Stirring
<1>15. TablesStay
  BY <1>4, <1>5, <1>6, <1>7, <1>11, <1>12 DEF TablesStay
<1>16. OthersStay(a)
  BY <1>13 DEF OthersStay
<1>17. PlanStays(a)
  BY <1>8, <1>14 DEF PlanStays
<1> QED BY <1>9, <1>10, <1>15, <1>16, <1>17, AccountKeepsRetention

LEMMA StirringKeepsRetention ==
    ASSUME RetentionIInv, NEW a \in Accounts, Stir(a),
           UNCHANGED <<notice, mailed, told, run>>,
           idle' = idle \/ idle' = [idle EXCEPT ![a]["child"] = Never],
           role' \subseteq Accounts, \A b \in Accounts \ {a} : b \in role' <=> b \in role,
           NEW c \in {"none", "former", "champion"}, team' = [team EXCEPT ![a] = c],
           NEW d \in {"open", "deleted", "erased", "cleaned"}, state' = [state EXCEPT ![a] = d]
    PROVE  RetentionIInv'
<1>1. /\ idle \in [Accounts -> [Sources -> Days]]
      /\ team \in [Accounts -> {"none", "former", "champion"}]
      /\ state \in [Accounts -> {"open", "deleted", "erased", "cleaned"}]
  BY Tables DEF RetentionIInv
<1>2. /\ notice' \in [Accounts -> [Sources -> [Reminders -> NoticeAges]]]
      /\ mailed' \in [Accounts -> [Sources -> SUBSET Reminders]]
      /\ told' \in [Accounts -> [Sources -> Days]]
  BY Tables DEF RetentionIInv
<1>3. /\ idle' \in [Accounts -> [Sources -> Days]]
      /\ \A b \in Accounts \ {a} : idle'[b] = idle[b]
      /\ idle'[a]["own"] = idle[a]["own"]
      /\ \A t \in Sources : idle'[a][t] = idle[a][t] \/ idle'[a][t] = Never
  <2>1. CASE idle' = idle
    BY <1>1, <2>1
  <2>2. CASE idle' = [idle EXCEPT ![a]["child"] = Never]
    <3>1. "child" \in Sources /\ "own" \in Sources /\ Never \in Days
      BY DEF Sources, Days
    <3>2. /\ idle' \in [Accounts -> [Sources -> Days]]
          /\ \A b \in Accounts, t \in Sources :
               idle'[b][t] = IF b = a /\ t = "child" THEN Never ELSE idle[b][t]
          /\ \A b \in Accounts \ {a} : idle'[b] = idle[b]
      BY <1>1, <2>2, <3>1, OneEntry
    <3> QED BY <3>1, <3>2
  <2> QED BY <2>1, <2>2
<1>4. /\ team' \in [Accounts -> {"none", "former", "champion"}]
      /\ state' \in [Accounts -> {"open", "deleted", "erased", "cleaned"}]
      /\ \A b \in Accounts \ {a} : team'[b] = team[b]
  BY <1>1
<1>5. stirred' \in [Accounts -> {"no", "listed", "underway"}]
  BY Stirring
<1>6. \A b \in Accounts \ {a} :
         /\ idle'[b] = idle[b] /\ notice'[b] = notice[b] /\ mailed'[b] = mailed[b]
         /\ told'[b] = told[b] /\ team'[b] = team[b] /\ stirred'[b] = stirred[b]
         /\ b \in role' <=> b \in role
  BY <1>3, <1>4, Stirring
<1>7. /\ run' \in RunRecord /\ run'.on = run.on /\ run'.left = run.left
      /\ run'.plan = {} \/ \E p \in PlanRecord : run'.plan = {p}
      /\ run.plan = {} => run'.plan = {}
  BY PlansAreOfAccounts
<1>8. /\ \A p \in run'.plan :
           /\ p.account # a => p \in run.plan
           /\ p.account = a => stirred'[a] = "underway"
      /\ (a \in run.left \/ \E p \in run'.plan : p.account = a) /\ stirred'[a] = "no" =>
           a \notin role'
  BY Stirring
<1>9. idle'[a]["own"] # Never
  BY <1>3 DEF RetentionIInv, OwnIsKnown
<1>10. stirred'[a] # "underway" => ToldInTime(a)'
  <2> SUFFICES ASSUME stirred'[a] # "underway" PROVE ToldInTime(a)'
    OBVIOUS
  <2>1. ToldInTime(a)
    BY Stirring DEF RetentionIInv, AllToldInTime
  <2>2. \A t \in Sources : idle'[a][t] # Never => idle'[a][t] = idle[a][t]
    BY <1>3
  <2>3. notice' = notice /\ mailed' = mailed /\ told' = told
    OBVIOUS
  <2> QED BY <2>1, <2>2, <2>3 DEF ToldInTime, Date, Later
<1>11. TablesStay
  BY <1>2, <1>3, <1>4, <1>5 DEF TablesStay
<1>12. OthersStay(a)
  BY <1>6 DEF OthersStay
<1>13. PlanStays(a)
  BY <1>7, <1>8 DEF PlanStays
<1> QED BY <1>9, <1>10, <1>11, <1>12, <1>13, AccountKeepsRetention

LEMMA AccountsKeepRetention ==
    ASSUME RetentionIInv, NEW a \in Accounts,
           \/ Login(a) \/ SessionStarts(a) \/ MarkAbsent(a)
           \/ ChangeRole(a) \/ ChangeTeam(a) \/ DeleteOwnAccount(a)
    PROVE  RetentionIInv'
<1>1. "own" \in Sources /\ "child" \in Sources
  BY DEF Sources
<1>2. CASE Login(a) \/ SessionStarts(a)
  BY <1>1, <1>2, RenewingKeepsRetention DEF Login, SessionStarts
<1>3. /\ role \subseteq Accounts
      /\ team \in [Accounts -> {"none", "former", "champion"}]
      /\ state \in [Accounts -> {"open", "deleted", "erased", "cleaned"}]
  BY Tables DEF RetentionIInv
<1>4. /\ team = [team EXCEPT ![a] = team[a]] /\ team[a] \in {"none", "former", "champion"}
      /\ state = [state EXCEPT ![a] = state[a]]
      /\ state[a] \in {"open", "deleted", "erased", "cleaned"}
  BY <1>3
<1>5. CASE MarkAbsent(a)
  <2>1. /\ Stir(a) /\ idle' = [idle EXCEPT ![a]["child"] = Never]
        /\ UNCHANGED <<notice, mailed, told, run>> /\ role' = role /\ team' = team /\ state' = state
    BY <1>5 DEF MarkAbsent
  <2> QED BY <1>3, <1>4, <2>1, StirringKeepsRetention
<1>6. CASE ChangeRole(a)
  <2>1. /\ Stir(a) /\ role' = IF a \in role THEN role \ {a} ELSE role \cup {a}
        /\ UNCHANGED <<notice, mailed, told, run>> /\ idle' = idle /\ team' = team /\ state' = state
    BY <1>6 DEF ChangeRole
  <2>2. role' \subseteq Accounts /\ \A b \in Accounts \ {a} : b \in role' <=> b \in role
    BY <1>3, <2>1
  <2> QED BY <1>4, <2>1, <2>2, StirringKeepsRetention
<1>7. CASE ChangeTeam(a)
  <2> DEFINE c == IF team[a] = "champion" THEN "former" ELSE "champion"
  <2>1. /\ Stir(a) /\ team' = [team EXCEPT ![a] = c] /\ c \in {"none", "former", "champion"}
        /\ UNCHANGED <<notice, mailed, told, run>> /\ idle' = idle /\ role' = role /\ state' = state
    BY <1>7 DEF ChangeTeam
  <2> HIDE DEF c
  <2> QED BY <1>3, <1>4, <2>1, StirringKeepsRetention
<1>8. CASE DeleteOwnAccount(a)
  <2>1. /\ Stir(a) /\ state' = [state EXCEPT ![a] = "deleted"]
        /\ UNCHANGED <<notice, mailed, told, run>> /\ idle' = idle /\ role' = role /\ team' = team
    BY <1>8 DEF DeleteOwnAccount
  <2> QED BY <1>3, <1>4, <2>1, StirringKeepsRetention
<1> QED BY <1>2, <1>5, <1>6, <1>7, <1>8

\* The nightly run starts: a notice about a time that has passed goes.
LEMMA StartKeepsRetention ==
    ASSUME RetentionIInv, StartRun
    PROVE  RetentionIInv'
<1>1. /\ notice \in [Accounts -> [Sources -> [Reminders -> NoticeAges]]]
      /\ stirred \in [Accounts -> {"no", "listed", "underway"}]
  BY Tables DEF RetentionIInv
<1>2. UNCHANGED <<idle, mailed, told, role, team, state>>
  BY DEF StartRun
<1>3. /\ run' \in RunRecord /\ run'.on /\ run'.plan = {}
      /\ run'.left \subseteq Accounts \ role
  <2>1. Candidates \subseteq Accounts \ role
    BY DEF Candidates
  <2>2. run' = [on |-> TRUE, left |-> Candidates, plan |-> {}]
    BY DEF StartRun
  <2> QED BY <2>1, <2>2 DEF RunRecord
<1>4. /\ notice' \in [Accounts -> [Sources -> [Reminders -> NoticeAges]]]
      /\ \A a \in Accounts, s \in Sources :
           notice'[a][s] = notice[a][s] \/ notice'[a][s] = NoNotice
  <2> DEFINE kept(a, s) == IF s = Since(a) THEN notice[a][s] ELSE NoNotice
  <2>1. \A a \in Accounts, s \in Sources :
          /\ kept(a, s) \in [Reminders -> NoticeAges]
          /\ kept(a, s) = notice[a][s] \/ kept(a, s) = NoNotice
    BY <1>1, NoNoticeIsNone
  <2>2. notice' = [a \in Accounts |-> [s \in Sources |-> kept(a, s)]]
    BY DEF StartRun
  <2> HIDE DEF kept
  <2> QED BY <2>1, <2>2
<1>5. /\ stirred' \in [Accounts -> {"no", "listed", "underway"}]
      /\ \A a \in Accounts : stirred'[a] # "underway" => stirred[a] # "underway"
  BY <1>1 DEF StartRun
<1>6. OneAtATime'
  BY <1>3 DEF OneAtATime
<1>7. RetentionTypeOK'
  <2>1. /\ idle' \in [Accounts -> [Sources -> Days]]
        /\ mailed' \in [Accounts -> [Sources -> SUBSET Reminders]]
        /\ told' \in [Accounts -> [Sources -> Days]]
    BY <1>2, Tables DEF RetentionIInv
  <2>2. /\ role' \subseteq Accounts
        /\ team' \in [Accounts -> {"none", "former", "champion"}]
        /\ state' \in [Accounts -> {"open", "deleted", "erased", "cleaned"}]
    BY <1>2, Tables DEF RetentionIInv
  <2>3. run'.left \subseteq Accounts /\ Cardinality(run'.plan) <= 1
    BY <1>3, OnePlan
  <2> QED BY <1>4, <1>5, <2>1, <2>2, <2>3 DEF RetentionTypeOK, Days, NoticeAges
<1>8. OwnIsKnown'
  BY <1>2 DEF RetentionIInv, OwnIsKnown
<1>9. AllToldInTime'
  <2> SUFFICES ASSUME NEW a \in Accounts, stirred'[a] # "underway" PROVE ToldInTime(a)'
    BY DEF AllToldInTime
  <2>1. ToldInTime(a)
    BY <1>5 DEF RetentionIInv, AllToldInTime
  <2>2. idle' = idle /\ mailed' = mailed /\ told' = told
    BY <1>2
  <2> QED BY <1>4, <2>1, <2>2, NoNoticeIsNone DEF ToldInTime, Date, Later
<1>10. PlansHold' /\ ListedHaveNoRole'
  BY <1>2, <1>3 DEF PlansHold, ListedHaveNoRole
<1> QED BY <1>6, <1>7, <1>8, <1>9, <1>10 DEF RetentionIInv

\* Midnight.
LEMMA MidnightKeepsRetention ==
    ASSUME RetentionIInv, NextDay
    PROVE  RetentionIInv'
<1>1. /\ idle \in [Accounts -> [Sources -> Days]]
      /\ notice \in [Accounts -> [Sources -> [Reminders -> NoticeAges]]]
      /\ told \in [Accounts -> [Sources -> Days]]
  BY Tables DEF RetentionIInv
<1>2. UNCHANGED <<mailed, role, team, state, run, stirred>> /\ ~run.on
  BY DEF NextDay
<1>3. run'.left = {} /\ run'.plan = {} /\ run' = run
  BY <1>2 DEF RetentionIInv, OneAtATime
<1>4. /\ idle' \in [Accounts -> [Sources -> Days]]
      /\ \A a \in Accounts, s \in Sources : idle'[a][s] = Older(idle[a][s], Cap)
  <2>1. \A a \in Accounts, s \in Sources : Older(idle[a][s], Cap) \in Days
    BY <1>1, OlderIsOfItsKind
  <2> QED BY <2>1 DEF NextDay
<1>5. /\ notice' \in [Accounts -> [Sources -> [Reminders -> NoticeAges]]]
      /\ \A a \in Accounts, s \in Sources, d \in Reminders :
           notice'[a][s][d] = Older(notice[a][s][d], Notice)
  <2>1. \A a \in Accounts, s \in Sources, d \in Reminders :
          Older(notice[a][s][d], Notice) \in NoticeAges
    BY <1>1, OlderIsOfItsKind
  <2> QED BY <2>1 DEF NextDay
<1>6. /\ told' \in [Accounts -> [Sources -> Days]]
      /\ \A a \in Accounts, s \in Sources :
           told'[a][s] = IF told[a][s] \in {Never, 0} THEN told[a][s] ELSE told[a][s] - 1
  <2> DEFINE nearer(a, s) == IF told[a][s] \in {Never, 0} THEN told[a][s] ELSE told[a][s] - 1
  <2>1. ASSUME NEW a \in Accounts, NEW s \in Sources PROVE nearer(a, s) \in Days
    <3>1. told[a][s] \in Days
      BY <1>1
    <3> QED BY <3>1, Numbers DEF Days
  <2>2. told' = [a \in Accounts |-> [s \in Sources |-> nearer(a, s)]]
    BY DEF NextDay
  <2> HIDE DEF nearer
  <2>3. /\ told' \in [Accounts -> [Sources -> Days]]
        /\ \A a \in Accounts, s \in Sources : told'[a][s] = nearer(a, s)
    BY <2>1, <2>2
  <2> QED BY <2>3 DEF nearer
<1>7. RetentionTypeOK' /\ OneAtATime'
  <2>1. mailed' \in [Accounts -> [Sources -> SUBSET Reminders]]
    BY <1>2, Tables DEF RetentionIInv
  <2>2. /\ role' \subseteq Accounts
        /\ team' \in [Accounts -> {"none", "former", "champion"}]
        /\ state' \in [Accounts -> {"open", "deleted", "erased", "cleaned"}]
        /\ stirred' \in [Accounts -> {"no", "listed", "underway"}]
    BY <1>2, Tables DEF RetentionIInv
  <2>3. run'.left \subseteq Accounts /\ Cardinality(run'.plan) <= 1
    BY <1>3, OnePlan
  <2>4. OneAtATime'
    BY <1>2 DEF RetentionIInv, OneAtATime
  <2> QED BY <1>4, <1>5, <1>6, <2>1, <2>2, <2>3, <2>4 DEF RetentionTypeOK, Days, NoticeAges
<1>8. OwnIsKnown'
  <2> SUFFICES ASSUME NEW a \in Accounts PROVE idle'[a]["own"] # Never
    BY DEF OwnIsKnown
  <2>1. "own" \in Sources /\ idle[a]["own"] # Never
    BY DEF RetentionIInv, OwnIsKnown, Sources
  <2>2. idle[a]["own"] \in Days
    BY <1>1, <2>1
  <2> QED BY <1>4, <2>1, <2>2, OlderIsOfItsKind
<1>9. AllToldInTime'
  <2> SUFFICES ASSUME NEW a \in Accounts, stirred'[a] # "underway", NEW s \in Sources
               PROVE  /\ mailed'[a][s] # {} => told'[a][s] # Never
                      /\ idle'[a][s] # Never /\ told'[a][s] # Never =>
                            told'[a][s] <= Date(idle'[a][s], Never)
                      /\ notice'[a][s][Second] # Never => Second \in mailed'[a][s]
                      /\ notice'[a][s][First] # Never =>
                            /\ First \in mailed'[a][s]
                            /\ idle'[a][s] # Never =>
                                  told'[a][s] <= Date(idle'[a][s], notice'[a][s][First])
    BY DEF AllToldInTime, ToldInTime, Date, Later
  <2>1. ToldInTime(a)
    BY <1>2 DEF RetentionIInv, AllToldInTime
  <2>2. idle[a][s] \in Days /\ told[a][s] \in Days
    BY <1>1
  <2>3. notice[a][s][First] \in NoticeAges /\ notice[a][s][Second] \in NoticeAges
    BY <1>1 DEF Reminders
  <2>4. mailed'[a][s] = mailed[a][s]
    BY <1>2
  <2>5. /\ idle'[a][s] = Older(idle[a][s], Cap) /\ (idle'[a][s] = Never <=> idle[a][s] = Never)
        /\ notice'[a][s][First] = Older(notice[a][s][First], Notice)
        /\ notice'[a][s][First] = Never <=> notice[a][s][First] = Never
        /\ notice'[a][s][Second] = Never <=> notice[a][s][Second] = Never
    BY <1>4, <1>5, <2>2, <2>3, OlderIsOfItsKind DEF Reminders
  <2>6. told'[a][s] = Never <=> told[a][s] = Never
    BY <1>6, <2>2, Numbers
  <2>7. ASSUME told[a][s] # Never
        PROVE  /\ told[a][s] \in 0..Cap
               /\ told'[a][s] = IF told[a][s] = 0 THEN 0 ELSE told[a][s] - 1
    BY <1>6, <2>2, <2>7, Numbers
  <2>8. ASSUME idle[a][s] # Never, told[a][s] # Never,
               NEW age \in NoticeAges, told[a][s] <= Date(idle[a][s], age)
        PROVE  told'[a][s] <= Date(idle'[a][s], Older(age, Notice))
    <3>1. idle[a][s] \in 0..Cap
      BY <2>2, <2>8, Numbers
    <3> QED BY <2>5, <2>7, <2>8, <3>1, DateADayLater
  <2>9. Never \in NoticeAges /\ Older(Never, Notice) = Never
    BY DEF NoticeAges, Older
  <2>10. idle'[a][s] # Never /\ told'[a][s] # Never => told'[a][s] <= Date(idle'[a][s], Never)
    BY <2>1, <2>5, <2>6, <2>8, <2>9 DEF ToldInTime
  <2>11. ASSUME notice'[a][s][First] # Never
         PROVE  /\ First \in mailed'[a][s]
                /\ idle'[a][s] # Never =>
                      told'[a][s] <= Date(idle'[a][s], notice'[a][s][First])
    <3>1. First \in mailed[a][s] /\ told[a][s] # Never
      BY <2>1, <2>5, <2>11 DEF ToldInTime
    <3>2. idle[a][s] # Never => told[a][s] <= Date(idle[a][s], notice[a][s][First])
      BY <2>1, <2>5, <2>11 DEF ToldInTime
    <3> QED BY <2>3, <2>4, <2>5, <2>8, <3>1, <3>2
  <2> QED BY <2>1, <2>4, <2>5, <2>6, <2>10, <2>11 DEF ToldInTime
<1>10. PlansHold' /\ ListedHaveNoRole'
  BY <1>3 DEF PlansHold, ListedHaveNoRole
<1> QED BY <1>7, <1>8, <1>9, <1>10 DEF RetentionIInv

\* What is behind what a plan says, when nothing happened to the account.
LEMMA OutcomesMean ==
    ASSUME NEW a
    PROVE  /\ Outcome(a) = "first" => AgeOf(a, First) = Never
           /\ Outcome(a) = "second" => AgeOf(a, First) # Never
           /\ Outcome(a) \in {"erased", "cleaned"} =>
                 /\ AgeOf(a, First) # Never /\ AgeOf(a, Second) # Never
                 /\ ~(DaysLeft(a) > 0) /\ team[a] # "champion"
                 /\ Outcome(a) = "cleaned" <=> team[a] = "former"
BY DEF Outcome

\* A reminder: its notice, its mail, and the date the mail names.
LEMMA RemindingKeepsRetention ==
    ASSUME RetentionIInv, NEW p \in run.plan, NEW d \in Reminders,
           (d = First /\ p.outcome = "first") \/ (d = Second /\ p.outcome = "second"),
           Remind(p.account, p, d),
           run' = [run EXCEPT !.plan = {}], UNCHANGED <<idle, role, team, stirred>>
    PROVE  RetentionIInv'
<1>1. run \in RunRecord /\ p \in PlanRecord
  BY PlansAreOfAccounts DEF RunRecord
<1>2. PICK a \in Accounts : a = p.account
  BY <1>1 DEF PlanRecord
<1>3. PICK s \in Sources : s = Since(a)
  BY <1>2, SinceIsKnown DEF RetentionIInv
<1>4. idle[a][s] \in 0..Cap /\ idle'[a][s] = idle[a][s]
  BY <1>3, SinceIsKnown DEF RetentionIInv
<1>5. /\ notice \in [Accounts -> [Sources -> [Reminders -> NoticeAges]]]
      /\ mailed \in [Accounts -> [Sources -> SUBSET Reminders]]
      /\ told \in [Accounts -> [Sources -> Days]]
  BY Tables DEF RetentionIInv
<1>6. /\ notice' = IF p.since = "past" THEN notice ELSE [notice EXCEPT ![a][p.since][d] = 0]
      /\ mailed' = [mailed EXCEPT ![a][s] = @ \cup {d}]
      /\ told' = IF d \in mailed[a][s] THEN told
                 ELSE [told EXCEPT ![a][s] = Date(idle[a][s], notice'[a][s][First])]
      /\ state' = state
  BY <1>2, <1>3 DEF Remind
<1>7. /\ notice' \in [Accounts -> [Sources -> [Reminders -> NoticeAges]]]
      /\ \A b \in Accounts \ {a} : notice'[b] = notice[b]
      /\ p.since = s => /\ \A t \in Sources \ {s} : notice'[a][t] = notice[a][t]
                        /\ \A e \in Reminders :
                             notice'[a][s][e] = IF e = d THEN 0 ELSE notice[a][s][e]
  <2>1. CASE p.since = "past"
    <3>1. s # "past"
      BY DEF Sources
    <3> QED BY <1>5, <1>6, <2>1, <3>1
  <2>2. CASE p.since # "past"
    <3>1. PICK z \in Sources : z = p.since
      BY <1>1, <2>2 DEF PlanRecord
    <3> DEFINE row == [notice[a][z] EXCEPT ![d] = 0]
    <3>2. 0 \in NoticeAges
      BY Numbers DEF NoticeAges
    <3>3. /\ row \in [Reminders -> NoticeAges]
          /\ \A e \in Reminders : row[e] = IF e = d THEN 0 ELSE notice[a][z][e]
      BY <1>5, <3>2
    <3>4. notice' = [notice EXCEPT ![a][z] = row]
      BY <1>6, <2>2, <3>1
    <3> HIDE DEF row
    <3>5. /\ notice' \in [Accounts -> [Sources -> [Reminders -> NoticeAges]]]
          /\ \A b \in Accounts, t \in Sources :
               notice'[b][t] = IF b = a /\ t = z THEN row ELSE notice[b][t]
          /\ \A b \in Accounts \ {a} : notice'[b] = notice[b]
      BY <1>5, <3>3, <3>4, OneEntry
    <3> QED BY <3>1, <3>3, <3>5
  <2> QED BY <2>1, <2>2
<1>8. /\ mailed' \in [Accounts -> [Sources -> SUBSET Reminders]]
      /\ \A b \in Accounts, t \in Sources :
           mailed'[b][t] = IF b = a /\ t = s THEN mailed[a][s] \cup {d} ELSE mailed[b][t]
      /\ \A b \in Accounts \ {a} : mailed'[b] = mailed[b]
  <2>1. mailed[a][s] \cup {d} \in SUBSET Reminders
    BY <1>5
  <2>2. mailed' = [mailed EXCEPT ![a][s] = mailed[a][s] \cup {d}]
    BY <1>5, <1>6
  <2> QED BY <1>5, <2>1, <2>2, OneEntry
<1>9. notice'[a][s][First] \in NoticeAges
  BY <1>7 DEF Reminders
<1>10. /\ told' \in [Accounts -> [Sources -> Days]]
       /\ \A b \in Accounts \ {a} : told'[b] = told[b]
       /\ \A t \in Sources \ {s} : told'[a][t] = told[a][t]
       /\ told'[a][s] = IF d \in mailed[a][s] THEN told[a][s]
                        ELSE Date(idle[a][s], notice'[a][s][First])
  <2>1. CASE d \in mailed[a][s]
    BY <1>5, <1>6, <2>1
  <2>2. CASE d \notin mailed[a][s]
    <3>1. PICK v \in Days : v = Date(idle[a][s], notice'[a][s][First])
      BY <1>4, <1>9, DateBounds DEF Days
    <3>2. told' = [told EXCEPT ![a][s] = v]
      BY <1>6, <2>2, <3>1
    <3>3. /\ told' \in [Accounts -> [Sources -> Days]]
          /\ \A b \in Accounts, t \in Sources : told'[b][t] = IF b = a /\ t = s THEN v ELSE told[b][t]
          /\ \A b \in Accounts \ {a} : told'[b] = told[b]
      BY <1>5, <3>2, OneEntry
    <3> QED BY <2>2, <3>1, <3>3
  <2> QED BY <2>1, <2>2
<1>11. TablesStay
  <2>1. idle' \in [Accounts -> [Sources -> Days]]
    BY Tables DEF RetentionIInv
  <2>2. /\ role' \subseteq Accounts
        /\ team' \in [Accounts -> {"none", "former", "champion"}]
        /\ state' \in [Accounts -> {"open", "deleted", "erased", "cleaned"}]
        /\ stirred' \in [Accounts -> {"no", "listed", "underway"}]
    BY <1>6, Tables DEF RetentionIInv
  <2> QED BY <1>7, <1>8, <1>10, <2>1, <2>2 DEF TablesStay
<1>12. OthersStay(a)
  BY <1>7, <1>8, <1>10 DEF OthersStay
<1>13. PlanStays(a)
  <2>1. run' \in RunRecord /\ run'.on = run.on /\ run'.left = run.left /\ run'.plan = {}
    BY <1>1 DEF RunRecord
  <2>2. stirred[a] = "no" => a \notin role
    BY <1>2 DEF RetentionIInv, ListedHaveNoRole
  <2> QED BY <2>1, <2>2 DEF PlanStays
<1>14. idle'[a]["own"] # Never
  BY DEF RetentionIInv, OwnIsKnown
<1>15. stirred'[a] # "underway" => ToldInTime(a)'
  <2> SUFFICES ASSUME stirred[a] # "underway", NEW t \in Sources
               PROVE  /\ mailed'[a][t] # {} => told'[a][t] # Never
                      /\ idle'[a][t] # Never /\ told'[a][t] # Never =>
                            told'[a][t] <= Date(idle'[a][t], Never)
                      /\ notice'[a][t][Second] # Never => Second \in mailed'[a][t]
                      /\ notice'[a][t][First] # Never =>
                            /\ First \in mailed'[a][t]
                            /\ idle'[a][t] # Never =>
                                  told'[a][t] <= Date(idle'[a][t], notice'[a][t][First])
    BY DEF ToldInTime, Date, Later
  <2>1. ToldInTime(a)
    BY DEF RetentionIInv, AllToldInTime
  <2>2. p.since = s /\ p.outcome = Outcome(a)
    BY <1>2, <1>3 DEF RetentionIInv, PlansHold
  <2>3. CASE t # s
    <3>1. /\ notice'[a][t] = notice[a][t] /\ mailed'[a][t] = mailed[a][t]
          /\ told'[a][t] = told[a][t] /\ idle'[a][t] = idle[a][t]
      BY <1>7, <1>8, <1>10, <2>2, <2>3
    <3> QED BY <2>1, <3>1 DEF ToldInTime
  <2>4. CASE t = s
    <3>1. /\ mailed'[a][s] = mailed[a][s] \cup {d}
          /\ d = First => notice[a][s][First] = Never /\ notice'[a][s][First] = 0
          /\ d = Second => /\ notice[a][s][First] # Never
                           /\ notice'[a][s][First] = notice[a][s][First]
          /\ d # Second => notice'[a][s][Second] = notice[a][s][Second]
      BY <1>3, <1>7, <1>8, <2>2, OutcomesMean, Numbers DEF AgeOf, Reminders
    <3>2. /\ \A age \in NoticeAges :
              /\ Date(idle[a][s], age) \in 0..Cap
              /\ Date(idle[a][s], age) <= Date(idle[a][s], Never)
          /\ Date(idle[a][s], 0) = Date(idle[a][s], Never)
      BY <1>4, DateBounds DEF NoticeAges
    <3>3. idle[a][s] # Never
      BY <1>4, Numbers
    <3>4. told'[a][s] # Never /\ First \in mailed'[a][s]
          /\ (notice'[a][s][Second] # Never => Second \in mailed'[a][s])
      BY <1>9, <1>10, <2>1, <3>1, <3>2, Numbers DEF ToldInTime, Reminders
    <3>5. told'[a][s] <= Date(idle[a][s], notice'[a][s][First])
      <4>1. CASE d \notin mailed[a][s]
        BY <1>9, <1>10, <3>2, <4>1
      <4>2. CASE d \in mailed[a][s] /\ d = First
        BY <1>10, <2>1, <3>1, <3>2, <3>3, <3>4, <4>2 DEF ToldInTime
      <4>3. CASE d \in mailed[a][s] /\ d = Second
        BY <1>10, <2>1, <3>1, <3>3, <4>3 DEF ToldInTime
      <4> QED BY <4>1, <4>2, <4>3 DEF Reminders
    <3>6. told'[a][s] <= Date(idle[a][s], Never)
      <4>1. told'[a][s] \in 0..Cap
        BY <1>10, <3>4, Numbers
      <4>2. /\ Date(idle[a][s], notice'[a][s][First]) \in 0..Cap
            /\ Date(idle[a][s], notice'[a][s][First]) <= Date(idle[a][s], Never)
            /\ Never \in NoticeAges
        BY <1>9, <3>2 DEF NoticeAges
      <4>3. Date(idle[a][s], Never) \in 0..Cap
        BY <3>2, <4>2
      <4> QED BY <3>5, <4>1, <4>2, <4>3
    <3> QED BY <1>4, <2>4, <3>4, <3>5, <3>6
  <2> QED BY <2>3, <2>4
<1> QED BY <1>11, <1>12, <1>13, <1>14, <1>15, AccountKeepsRetention

LEMMA HandlingKeepsRetention ==
    ASSUME RetentionIInv, HandleAccount
    PROVE  RetentionIInv'
<1>1. PICK p \in run.plan :
        /\ CASE p.outcome = "first" -> Remind(p.account, p, First)
             [] p.outcome = "second" -> Remind(p.account, p, Second)
             [] p.outcome \in {"erased", "cleaned"} -> Erase(p.account, p.outcome)
             [] OTHER -> UNCHANGED <<notice, mailed, told, state>>
        /\ run' = [run EXCEPT !.plan = {}]
        /\ UNCHANGED <<idle, role, team, stirred>>
  BY DEF HandleAccount
<1>2. run \in RunRecord /\ p \in PlanRecord
  BY PlansAreOfAccounts DEF RunRecord
<1>3. PICK a \in Accounts : a = p.account
  BY <1>2 DEF PlanRecord
<1>4. First \in Reminders /\ Second \in Reminders
  BY DEF Reminders
<1>5. CASE p.outcome = "first"
  <2>1. Remind(p.account, p, First)
    BY <1>1, <1>5
  <2> QED BY <1>1, <1>4, <1>5, <2>1, RemindingKeepsRetention
<1>6. CASE p.outcome = "second"
  <2>1. Remind(p.account, p, Second)
    BY <1>1, <1>6
  <2> QED BY <1>1, <1>4, <1>6, <2>1, RemindingKeepsRetention
<1>7. CASE p.outcome \in {"erased", "cleaned", "nothing"}
  <2>1. \/ p.outcome \in {"erased", "cleaned"} /\ Erase(a, p.outcome)
        \/ UNCHANGED <<notice, mailed, told, state>>
    BY <1>1, <1>3, <1>7
  <2>2. /\ UNCHANGED <<idle, notice, mailed, told, role, team, stirred>>
        /\ state' \in [Accounts -> {"open", "deleted", "erased", "cleaned"}]
    <3>1. state \in [Accounts -> {"open", "deleted", "erased", "cleaned"}]
      BY Tables DEF RetentionIInv
    <3>2. UNCHANGED <<idle, notice, mailed, told, role, team, stirred>>
      BY <1>1, <2>1 DEF Erase
    <3>3. state' = state \/ \E o \in {"erased", "cleaned"} : state' = [state EXCEPT ![a] = o]
      BY <2>1 DEF Erase
    <3> QED BY <3>1, <3>2, <3>3
  <2>3. TablesStay
    BY <2>2, Tables DEF TablesStay, RetentionIInv
  <2>4. OthersStay(a)
    BY <2>2 DEF OthersStay
  <2>5. PlanStays(a)
    <3>1. run' \in RunRecord /\ run'.on = run.on /\ run'.left = run.left /\ run'.plan = {}
      BY <1>1, <1>2 DEF RunRecord
    <3>2. stirred[a] = "no" => a \notin role
      BY <1>3 DEF RetentionIInv, ListedHaveNoRole
    <3> QED BY <2>2, <3>1, <3>2 DEF PlanStays
  <2>6. idle'[a]["own"] # Never
    BY <2>2 DEF RetentionIInv, OwnIsKnown
  <2>7. stirred'[a] # "underway" => ToldInTime(a)'
    BY <2>2 DEF RetentionIInv, AllToldInTime, ToldInTime, Date, Later
  <2> QED BY <2>3, <2>4, <2>5, <2>6, <2>7, AccountKeepsRetention
<1> QED BY <1>2, <1>5, <1>6, <1>7 DEF PlanRecord

LEMMA NextRetention == RetentionIInv /\ [RetentionNext]_retentionVars => RetentionIInv'
<1> SUFFICES ASSUME RetentionIInv, [RetentionNext]_retentionVars PROVE RetentionIInv'
  OBVIOUS
<1>1. CASE StartRun
  BY <1>1, StartKeepsRetention
<1>2. CASE HandleAccount
  BY <1>2, HandlingKeepsRetention
<1>3. CASE HandleFails \/ EndRun \/ \E a \in Accounts : Plan(a)
  BY <1>3, JobKeepsRetention
<1>4. CASE NextDay
  BY <1>4, MidnightKeepsRetention
<1>5. CASE \E a \in Accounts :
             \/ Login(a) \/ SessionStarts(a) \/ MarkAbsent(a)
             \/ ChangeRole(a) \/ ChangeTeam(a) \/ DeleteOwnAccount(a)
  BY <1>5, AccountsKeepRetention
<1>6. CASE UNCHANGED retentionVars
  <2>1. UNCHANGED <<idle, notice, mailed, told, role, team, state, run, stirred>>
    BY <1>6 DEF retentionVars
  <2>2. \A a \in Accounts : Since(a)' = Since(a) /\ Outcome(a)' = Outcome(a)
    BY <2>1 DEF Since, Outcome, AgeOf, DaysLeft, IdleDays
  <2>3. PlansHold'
    <3>1. \A p \in run.plan : p.account \in Accounts
      BY PlansAreOfAccounts DEF RunRecord, PlanRecord
    <3> QED BY <2>1, <2>2, <3>1 DEF RetentionIInv, PlansHold
  <2> QED BY <2>1, <2>3 DEF RetentionIInv, RetentionTypeOK, OneAtATime, OwnIsKnown, AllToldInTime,
                            ToldInTime, ListedHaveNoRole
<1> QED BY <1>1, <1>2, <1>3, <1>4, <1>5, <1>6 DEF RetentionNext

-----------------------------------------------------------------------------
(* The rule *)

\* Who the job erases is an account whose plan still holds, and all that the
\* rule asks for is what the plan was made on.
LEMMA WhoIsErased ==
    ASSUME RetentionIInv, [RetentionNext]_retentionVars,
           NEW a \in Accounts, ErasedByJob(a), stirred[a] = "no"
    PROVE  /\ told[a][Since(a)] = 0 /\ mailed[a][Since(a)] = Reminders /\ IdleDays(a) >= Period
           /\ a \notin role /\ team[a] # "champion"
           /\ state'[a] = "cleaned" <=> team[a] # "none"
<1>1. state[a] = "open" /\ state'[a] \in {"erased", "cleaned"}
  BY DEF ErasedByJob
<1>2. state \in [Accounts -> {"open", "deleted", "erased", "cleaned"}]
  BY Tables DEF RetentionIInv
<1>3. HandleAccount
  <2>1. ASSUME NEW b \in Accounts, DeleteOwnAccount(b) PROVE FALSE
    BY <1>1, <1>2, <2>1 DEF DeleteOwnAccount
  <2>2. ASSUME state' = state PROVE FALSE
    BY <1>1, <2>2
  <2> QED BY <2>1, <2>2
          DEF RetentionNext, retentionVars, accountVars, StartRun, HandleFails, EndRun, NextDay,
              Plan, Login, SessionStarts, Renew, MarkAbsent, ChangeRole, ChangeTeam
<1>4. PICK p \in run.plan :
        CASE p.outcome = "first" -> Remind(p.account, p, First)
          [] p.outcome = "second" -> Remind(p.account, p, Second)
          [] p.outcome \in {"erased", "cleaned"} -> Erase(p.account, p.outcome)
          [] OTHER -> UNCHANGED <<notice, mailed, told, state>>
  BY <1>3 DEF HandleAccount
<1>5. p \in PlanRecord
  BY PlansAreOfAccounts DEF RunRecord
<1>6. p.outcome \in {"erased", "cleaned"} /\ Erase(p.account, p.outcome)
  BY <1>1, <1>4, <1>5 DEF PlanRecord, Remind
<1>7. p.account = a /\ state'[a] = p.outcome
  BY <1>1, <1>2, <1>5, <1>6 DEF Erase, PlanRecord
<1>8. p.outcome = Outcome(a)
  BY <1>7 DEF RetentionIInv, PlansHold
<1>9. PICK s \in Sources : s = Since(a)
  BY SinceIsKnown DEF RetentionIInv
<1>10. /\ notice[a][s][First] # Never /\ notice[a][s][Second] # Never
       /\ ~(Date(idle[a][s], notice[a][s][First]) > 0) /\ team[a] # "champion"
       /\ Outcome(a) = "cleaned" <=> team[a] = "former"
  BY <1>6, <1>8, <1>9, OutcomesMean DEF AgeOf, DaysLeft, IdleDays
<1>11. idle[a][s] \in 0..Cap /\ idle[a][s] # Never
  BY <1>9, SinceIsKnown, Numbers DEF RetentionIInv
<1>12. ToldInTime(a)
  BY DEF RetentionIInv, AllToldInTime
<1>13. notice[a][s][First] \in NoticeAges /\ mailed[a][s] \subseteq Reminders /\ told[a][s] \in Days
  BY Tables DEF RetentionIInv, Reminders
<1>14. mailed[a][s] = Reminders
  BY <1>10, <1>12, <1>13 DEF ToldInTime, Reminders
<1>15. told[a][s] \in 0..Cap /\ told[a][s] <= Date(idle[a][s], notice[a][s][First])
  <2>1. told[a][s] # Never
    BY <1>14, <1>12 DEF ToldInTime, Reminders
  <2> QED BY <1>10, <1>11, <1>12, <1>13, <2>1, Numbers DEF ToldInTime
<1>16. Date(idle[a][s], notice[a][s][First]) \in 0..Cap
  BY <1>11, <1>13, DateBounds
<1>17. told[a][s] = 0 /\ Date(idle[a][s], notice[a][s][First]) <= 0
  BY <1>10, <1>15, <1>16, Numbers
<1>18. idle[a][s] >= Period
  BY <1>11, <1>13, <1>17, DateBounds
<1>19. a \notin role
  BY <1>7 DEF RetentionIInv, ListedHaveNoRole
<1>20. state'[a] = "cleaned" <=> team[a] # "none"
  <2>1. team[a] \in {"none", "former", "champion"}
    BY Tables DEF RetentionIInv
  <2> QED BY <1>7, <1>8, <1>10, <2>1
<1> QED BY <1>9, <1>10, <1>14, <1>17, <1>18, <1>19, <1>20 DEF IdleDays

\* In every reachable state the tables are of their kinds, and the job holds
\* one account at a time.
THEOREM RetentionTypeCorrect == RetentionSpec => []RetentionTypeOK
<1>1. RetentionIInv => RetentionTypeOK
  BY DEF RetentionIInv
<1> QED BY <1>1, InitRetention, NextRetention, PTL DEF RetentionSpec

\* The job erases an account only as the rule says: not before the date the
\* latest mail named, both mails and the whole period; no role, no champion;
\* a volunteer's name stays. (privacy.retention)
THEOREM TheJobKeepsToTheRule == RetentionSpec => TheJobErasesByTheRule
<1>1. RetentionIInv /\ [RetentionNext]_retentionVars =>
        [\A a \in Accounts : ErasedByJob(a) /\ stirred[a] = "no" =>
            /\ told[a][Since(a)] = 0
            /\ mailed[a][Since(a)] = Reminders
            /\ IdleDays(a) >= Period]_retentionVars
  BY WhoIsErased
<1>2. RetentionIInv /\ [RetentionNext]_retentionVars =>
        [\A a \in Accounts : ErasedByJob(a) /\ stirred[a] = "no" =>
            /\ a \notin role /\ team[a] # "champion"
            /\ state'[a] = "cleaned" <=> team[a] # "none"]_retentionVars
  BY WhoIsErased
<1> QED BY <1>1, <1>2, InitRetention, NextRetention, PTL
        DEF RetentionSpec, TheJobErasesByTheRule, NeverBeforeTheDateTold, TheJobSparesWhoItMust

-----------------------------------------------------------------------------
(* The sign-in policy: what a pass over its rows finds *)

LEMMA PolicyNumbers ==
    /\ Len(RoleOrder) \in Nat /\ LastDay \in Nat /\ Everyone \in PolicyRoles
    /\ \A n \in 1..Len(RoleOrder) : RoleOrder[n] \in PolicyRoles
    /\ \A r \in PolicyRoles : \E n \in 1..Len(RoleOrder) : RoleOrder[n] = r
<1>1. RoleOrder \in Seq(PolicyRoles)
  BY SignInAssumption
<1> QED BY <1>1, SignInAssumption DEF PolicyRoles

LEMMA PolicyRows ==
    ASSUME SignInTypeOK, NEW r \in PolicyRoles
    PROVE  /\ rule[r].level \in {Password, SecondStep, PasskeyStep} /\ rule[r].level \in Nat
           /\ rule[r].from \in 0..LastDay /\ rule[r].from \in Nat
           /\ rule[r].level # Password =>
                 rule[r] \in [level : {SecondStep, PasskeyStep}, from : 0..LastDay]
<1>1. rule[r] \in Rules
  BY DEF SignInTypeOK
<1>2. CASE rule[r] = NoRule
  BY <1>2, PolicyNumbers DEF NoRule, Password
<1>3. CASE rule[r] # NoRule
  BY <1>1, <1>3, PolicyNumbers DEF Rules, Password, SecondStep, PasskeyStep
<1> QED BY <1>2, <1>3

\* A finite, non-empty set of naturals has a smallest element.
LEMMA LeastNatural ==
    ASSUME NEW S \in SUBSET Nat, IsFiniteSet(S), S # {}
    PROVE  \E x \in S : \A y \in S : x <= y
<1> DEFINE Below(x) == {y \in S : y < x}
           T == {Below(x) : x \in S}
<1>1. T \subseteq FiniteSubsetsOf(S) /\ T # {}
  <2>1. ASSUME NEW x \in S PROVE Below(x) \in FiniteSubsetsOf(S)
    <3>1. Below(x) \in SUBSET S
      OBVIOUS
    <3>2. IsFiniteSet(Below(x))
      <4> HIDE DEF Below
      <4> QED BY <3>1, FS_Subset
    <3> QED BY <3>1, <3>2 DEF FiniteSubsetsOf
  <2>2. PICK w \in S : TRUE
    OBVIOUS
  <2>3. Below(w) \in T
    BY <2>2
  <2> QED BY <2>1, <2>3
<1>2. PICK A \in T : \A B \in T : ~(<<B, A>> \in StrictSubsetOrdering(S))
  <2> HIDE DEF T
  <2> QED BY <1>1, FS_StrictSubsetOrderingWellFounded, WFMin
<1>3. PICK x \in S : A = Below(x)
  BY <1>2
<1>4. \A y \in S : x <= y
  <2> SUFFICES ASSUME NEW y \in S, y < x
               PROVE  FALSE
    OBVIOUS
  <2>1. Below(y) \subseteq Below(x) /\ y \in Below(x) /\ y \notin Below(y)
    <3>1. \A z \in S : z \in Nat
      OBVIOUS
    <3>2. \A z \in S : z < y => z < x
      BY <3>1
    <3>3. ~(y < y)
      BY <3>1
    <3> QED BY <3>2, <3>3
  <2>2. Below(y) \in T /\ Below(y) \in SUBSET S /\ Below(x) \in SUBSET S
    OBVIOUS
  <2>3. <<Below(y), Below(x)>> \in StrictSubsetOrdering(S)
    <3> HIDE DEF Below
    <3> QED BY <2>1, <2>2 DEF StrictSubsetOrdering
  <2> QED BY <1>2, <1>3, <2>2, <2>3
<1> QED BY <1>4

\* A set with 0, and with each number its successor, has all of them.
LEMMA UpTo ==
    ASSUME NEW N \in Nat, NEW S, 0 \in S, \A n \in 1..N : n - 1 \in S => n \in S
    PROVE  \A n \in 0..N : n \in S
<1> SUFFICES ASSUME NEW m \in 0..N, m \notin S PROVE FALSE
  OBVIOUS
<1> DEFINE Bad == {n \in 0..N : n \notin S}
<1>1. Bad \in SUBSET Nat /\ IsFiniteSet(Bad) /\ Bad # {}
  <2>1. IsFiniteSet(0..N)
    BY FS_Interval
  <2>2. Bad \subseteq 0..N
    OBVIOUS
  <2> HIDE DEF Bad
  <2>3. IsFiniteSet(Bad)
    BY <2>1, <2>2, FS_Subset
  <2> USE DEF Bad
  <2> QED BY <2>3
<1>2. PICK b \in Bad : \A n \in Bad : b <= n
  <2> HIDE DEF Bad
  <2> QED BY <1>1, LeastNatural
<1>3. b \in 1..N /\ b - 1 \in 0..N
  BY <1>2
<1>4. b - 1 \in S
  BY <1>2, <1>3
<1> QED BY <1>2, <1>3, <1>4

\* What one pass has found after n rows: the strongest level of those that have
\* come ...
Counts(i, day) == Asks(RoleOrder[i]) /\ HasCome(RoleOrder[i], day)

IsStrongest(day, n, most) ==
    /\ most \in Nat
    /\ most = Password \/ \E i \in 1..n : Counts(i, day) /\ rule[RoleOrder[i]].level = most
    /\ \A i \in 1..n : Counts(i, day) => rule[RoleOrder[i]].level <= most

\* ... and the other: of those that come, the first of the strongest.
Waits(i, day) ==
    Asks(RoleOrder[i]) /\ ~HasCome(RoleOrder[i], day) /\ ~(rule[RoleOrder[i]].level <= Enforced(day))

IsFirst(soon, other) == other.level < soon.level \/ (other.level = soon.level /\ soon.from <= other.from)

IsSoonest(day, n, soon) ==
    \/ soon = Nothing /\ \A i \in 1..n : ~Waits(i, day)
    \/ /\ \E i \in 1..n : Waits(i, day) /\ rule[RoleOrder[i]] = soon
       /\ \A i \in 1..n : Waits(i, day) => IsFirst(soon, rule[RoleOrder[i]])

LEMMA StrongerIsStrongest ==
    ASSUME SignInTypeOK, NEW day, NEW n \in 1..Len(RoleOrder), NEW most,
           IsStrongest(day, n - 1, most)
    PROVE  IsStrongest(day, n, Stronger(RoleOrder[n], most, day))
<1> DEFINE next == Stronger(RoleOrder[n], most, day)
           mine == rule[RoleOrder[n]].level
<1>1. /\ n \in Nat /\ n \in 1..n /\ \A i \in 1..n : i = n \/ i \in 1..(n - 1)
      /\ \A i \in 1..(n - 1) : i \in 1..n
      /\ \A i \in 1..n : rule[RoleOrder[i]].level \in Nat
  BY PolicyNumbers, PolicyRows
<1>2. CASE Counts(n, day) /\ mine > most
  <2>1. next = mine
    BY <1>2 DEF Stronger, Counts
  <2>2. \A i \in 1..n : Counts(i, day) => rule[RoleOrder[i]].level <= mine
    BY <1>1, <1>2 DEF IsStrongest
  <2> QED BY <1>1, <1>2, <2>1, <2>2 DEF IsStrongest
<1>3. CASE ~(Counts(n, day) /\ mine > most)
  <2>1. next = most
    BY <1>3 DEF Stronger, Counts
  <2>2. \A i \in 1..n : Counts(i, day) => rule[RoleOrder[i]].level <= most
    BY <1>1, <1>3 DEF IsStrongest
  <2> QED BY <1>1, <2>1, <2>2 DEF IsStrongest
<1> QED BY <1>2, <1>3

LEMMA StrongestIsOne ==
    ASSUME SignInTypeOK, NEW day, NEW n \in 0..Len(RoleOrder), NEW one, NEW other,
           IsStrongest(day, n, one), IsStrongest(day, n, other)
    PROVE  one = other
<1>1. \A i \in 1..n : rule[RoleOrder[i]].level \in Nat
  BY PolicyNumbers, PolicyRows
<1>2. one <= other
  BY <1>1 DEF IsStrongest, Password
<1>3. other <= one
  BY <1>1 DEF IsStrongest, Password
<1> QED BY <1>2, <1>3 DEF IsStrongest

LEMMA EnforcedIsStrongest ==
    ASSUME SignInTypeOK, NEW day
    PROVE  IsStrongest(day, Len(RoleOrder), Enforced(day))
<1> DEFINE N == Len(RoleOrder)
           Found == {n \in 0..N : \E most : IsStrongest(day, n, most)}
           best == [n \in 0..N |-> CHOOSE most : IsStrongest(day, n, most)]
           Pass(p) == p = [n \in 0..N |->
               IF n = 0 THEN Password ELSE Stronger(RoleOrder[n], p[n - 1], day)]
<1>1. N \in Nat
  BY PolicyNumbers
<1>2. IsStrongest(day, 0, Password)
  BY DEF IsStrongest, Password
<1>3. \A n \in 0..N : n \in Found
  <2>1. 0 \in Found
    BY <1>1, <1>2
  <2>2. \A n \in 1..N : n - 1 \in Found => n \in Found
    BY <1>1, StrongerIsStrongest
  <2> HIDE DEF Found, N
  <2> QED BY <1>1, <2>1, <2>2, UpTo
<1>4. \A n \in 0..N : IsStrongest(day, n, best[n])
  BY <1>3
<1>5. best[0] = Password
  BY <1>1, <1>2, <1>4, StrongestIsOne
<1>6. \A n \in 1..N : best[n] = Stronger(RoleOrder[n], best[n - 1], day)
  <2> SUFFICES ASSUME NEW n \in 1..N PROVE best[n] = Stronger(RoleOrder[n], best[n - 1], day)
    OBVIOUS
  <2>1. n - 1 \in 0..N /\ n \in 0..N
    BY <1>1
  <2>2. IsStrongest(day, n - 1, best[n - 1]) /\ IsStrongest(day, n, best[n])
    BY <1>4, <2>1
  <2> HIDE DEF best
  <2>3. IsStrongest(day, n, Stronger(RoleOrder[n], best[n - 1], day))
    BY <2>2, StrongerIsStrongest
  <2> QED BY <2>1, <2>2, <2>3, StrongestIsOne
<1>7. Pass(best)
  <2> DEFINE step == [n \in 0..N |->
                IF n = 0 THEN Password ELSE Stronger(RoleOrder[n], best[n - 1], day)]
  <2>1. \A n \in 0..N : best[n] = IF n = 0 THEN Password ELSE Stronger(RoleOrder[n], best[n - 1], day)
    <3>1. \A n \in 0..N : n = 0 \/ n \in 1..N
      BY <1>1
    <3> HIDE DEF best, N
    <3> QED BY <1>5, <1>6, <3>1
  <2>2. best = [n \in 0..N |-> best[n]]
    OBVIOUS
  <2> HIDE DEF best
  <2>3. best = step
    BY <2>1, <2>2
  <2> QED BY <2>3
<1>8. Enforced(day) = (CHOOSE p : Pass(p))[N]
  BY DEF Enforced
<1> HIDE DEF best
<1>9. PICK p : Pass(p) /\ Enforced(day) = p[N]
  BY <1>7, <1>8
<1> DEFINE Right == {n \in 0..N : IsStrongest(day, n, p[n])}
<1>10. 0 \in Right
  BY <1>1, <1>2, <1>9
<1>11. ASSUME NEW n \in 1..N, n - 1 \in Right PROVE n \in Right
  <2>1. n \in 0..N /\ n # 0
    BY <1>1
  <2>2. p[n] = Stronger(RoleOrder[n], p[n - 1], day)
    BY <1>9, <2>1
  <2> QED BY <1>11, <2>1, <2>2, StrongerIsStrongest
<1>12. N \in Right
  <2> HIDE DEF Right, N
  <2>1. N \in 0..N
    BY <1>1
  <2> QED BY <1>1, <1>10, <1>11, <2>1, UpTo
<1> QED BY <1>9, <1>12

\* A row of the second pass: how what was found so far is replaced.
LEMMA SoonerIsSoonest ==
    ASSUME SignInTypeOK, NEW day, NEW n \in 1..Len(RoleOrder), NEW soon,
           IsSoonest(day, n - 1, soon)
    PROVE  IsSoonest(day, n, Sooner(RoleOrder[n], soon, day))
<1> DEFINE next == Sooner(RoleOrder[n], soon, day)
           mine == rule[RoleOrder[n]]
           Row(i) == rule[RoleOrder[i]]
<1>1. /\ n \in Nat /\ n \in 1..n /\ \A i \in 1..n : i = n \/ i \in 1..(n - 1)
      /\ \A i \in 1..(n - 1) : i \in 1..n
      /\ mine = Row(n)
  BY PolicyNumbers
<1>2. \A i \in 1..n : Row(i).level \in Nat /\ Row(i).from \in Nat
  BY PolicyNumbers, PolicyRows
<1>3. \A i \in 1..n : Waits(i, day) =>
          /\ Row(i).level # Password
          /\ Row(i) \in [level : {SecondStep, PasskeyStep}, from : 0..LastDay]
  BY PolicyNumbers, PolicyRows DEF Waits, Asks
<1>4. \/ soon = Nothing /\ \A i \in 1..(n - 1) : ~Waits(i, day)
      \/ /\ \E i \in 1..(n - 1) : Waits(i, day) /\ Row(i) = soon
         /\ \A i \in 1..(n - 1) : Waits(i, day) => IsFirst(soon, Row(i))
  BY DEF IsSoonest
<1>5. soon # Nothing => /\ soon \in [level : {SecondStep, PasskeyStep}, from : 0..LastDay]
                        /\ soon.level \in Nat /\ soon.from \in Nat
                        /\ \E i \in 1..(n - 1) : Waits(i, day) /\ Row(i) = soon
                        /\ \A i \in 1..(n - 1) : Waits(i, day) => IsFirst(soon, Row(i))
  BY <1>1, <1>2, <1>3, <1>4
<1>6. next = IF ~Waits(n, day) THEN soon
             ELSE IF soon = Nothing \/ mine.level > soon.level THEN mine
             ELSE IF mine.level = soon.level
                  THEN [soon EXCEPT !.from = EarlierDate(@, mine.from)]
             ELSE soon
  BY DEF Sooner, Waits
<1> HIDE DEF next, Row, mine
<1>7. CASE ~Waits(n, day)
  BY <1>1, <1>4, <1>6, <1>7 DEF IsSoonest, Row, next
<1>8. CASE Waits(n, day) /\ soon = Nothing
  <2>1. next = Row(n) /\ \A i \in 1..(n - 1) : ~Waits(i, day)
    <3>1. \A i \in 1..(n - 1) : Waits(i, day) => Row(i) # Nothing
      BY <1>1, <1>3 DEF Nothing, NoRule
    <3> QED BY <1>1, <1>4, <1>6, <1>8, <3>1
  <2>2. IsFirst(Row(n), Row(n))
    BY <1>1, <1>2 DEF IsFirst
  <2> QED BY <1>1, <1>8, <2>1, <2>2 DEF IsSoonest, Row, next
<1>9. CASE Waits(n, day) /\ soon # Nothing /\ mine.level > soon.level
  <2>1. next = Row(n)
    BY <1>1, <1>6, <1>9
  <2>2. IsFirst(Row(n), Row(n))
    BY <1>1, <1>2 DEF IsFirst
  <2>3. \A i \in 1..(n - 1) : Waits(i, day) => IsFirst(Row(n), Row(i))
    BY <1>1, <1>2, <1>5, <1>9 DEF IsFirst
  <2> QED BY <1>1, <1>9, <2>1, <2>2, <2>3 DEF IsSoonest, Row, next
<1>10. CASE Waits(n, day) /\ soon # Nothing /\ mine.level = soon.level
  <2>1. mine \in [level : {SecondStep, PasskeyStep}, from : 0..LastDay]
    BY <1>1, <1>3, <1>10
  <2>2. next = [soon EXCEPT !.from = EarlierDate(soon.from, mine.from)]
    BY <1>2, <1>5, <1>6, <1>10, <1>1
  <2>3. CASE mine.from < soon.from
    <3>1. next = mine
      BY <1>5, <1>10, <2>1, <2>2, <2>3 DEF EarlierDate
    <3>2. IsFirst(Row(n), Row(n))
      BY <1>1, <1>2 DEF IsFirst
    <3>3. \A i \in 1..(n - 1) : Waits(i, day) => IsFirst(Row(n), Row(i))
      BY <1>1, <1>2, <1>5, <1>10, <2>3 DEF IsFirst
    <3> QED BY <1>1, <1>10, <3>1, <3>2, <3>3 DEF IsSoonest, Row, next
  <2>4. CASE ~(mine.from < soon.from)
    <3>1. next = soon
      BY <1>5, <1>10, <2>1, <2>2, <2>4 DEF EarlierDate
    <3>2. IsFirst(soon, Row(n))
      BY <1>1, <1>2, <1>5, <1>10, <2>4 DEF IsFirst
    <3> QED BY <1>1, <1>5, <1>10, <3>1, <3>2 DEF IsSoonest, Row, next
  <2> QED BY <2>3, <2>4
<1>11. CASE Waits(n, day) /\ soon # Nothing /\ mine.level < soon.level
  <2>1. next = soon /\ IsFirst(soon, Row(n))
    BY <1>1, <1>2, <1>5, <1>6, <1>11 DEF IsFirst
  <2> QED BY <1>1, <1>5, <1>11, <2>1 DEF IsSoonest, Row, next
<1>12. mine.level \in Nat
  BY <1>1, <1>2
<1> QED BY <1>5, <1>7, <1>8, <1>9, <1>10, <1>11, <1>12 DEF next

LEMMA SoonestIsOne ==
    ASSUME SignInTypeOK, NEW day, NEW n \in 0..Len(RoleOrder), NEW one, NEW other,
           IsSoonest(day, n, one), IsSoonest(day, n, other)
    PROVE  one = other
<1>1. \A i \in 1..n : Waits(i, day) =>
          rule[RoleOrder[i]] \in [level : {SecondStep, PasskeyStep}, from : 0..LastDay]
  BY PolicyNumbers, PolicyRows DEF Waits, Asks
<1>2. CASE \A i \in 1..n : ~Waits(i, day)
  BY <1>2 DEF IsSoonest
<1>3. CASE \E i \in 1..n : Waits(i, day)
  <2>1. /\ {one, other} \subseteq [level : {SecondStep, PasskeyStep}, from : 0..LastDay]
        /\ IsFirst(one, other) /\ IsFirst(other, one)
    BY <1>1, <1>3 DEF IsSoonest
  <2>2. \A x \in {one, other} : x.level \in Nat /\ x.from \in Nat
    BY <2>1, PolicyNumbers DEF SecondStep, PasskeyStep
  <2>3. one.level = other.level /\ one.from = other.from
    BY <2>1, <2>2 DEF IsFirst
  <2> QED BY <2>1, <2>3
<1> QED BY <1>2, <1>3

LEMMA UpcomingIsSoonest ==
    ASSUME SignInTypeOK, NEW day
    PROVE  IsSoonest(day, Len(RoleOrder), Upcoming(day))
<1> DEFINE N == Len(RoleOrder)
           Found == {n \in 0..N : \E soon : IsSoonest(day, n, soon)}
           best == [n \in 0..N |-> CHOOSE soon : IsSoonest(day, n, soon)]
           Pass(p) == p = [n \in 0..N |->
               IF n = 0 THEN Nothing ELSE Sooner(RoleOrder[n], p[n - 1], day)]
<1>1. N \in Nat
  BY PolicyNumbers
<1>2. IsSoonest(day, 0, Nothing)
  BY DEF IsSoonest
<1>3. \A n \in 0..N : n \in Found
  <2>1. 0 \in Found
    BY <1>1, <1>2
  <2>2. \A n \in 1..N : n - 1 \in Found => n \in Found
    BY <1>1, SoonerIsSoonest
  <2> HIDE DEF Found, N
  <2> QED BY <1>1, <2>1, <2>2, UpTo
<1>4. \A n \in 0..N : IsSoonest(day, n, best[n])
  BY <1>3
<1>5. best[0] = Nothing
  BY <1>1, <1>2, <1>4, SoonestIsOne
<1>6. \A n \in 1..N : best[n] = Sooner(RoleOrder[n], best[n - 1], day)
  <2> SUFFICES ASSUME NEW n \in 1..N PROVE best[n] = Sooner(RoleOrder[n], best[n - 1], day)
    OBVIOUS
  <2>1. n - 1 \in 0..N /\ n \in 0..N
    BY <1>1
  <2>2. IsSoonest(day, n - 1, best[n - 1]) /\ IsSoonest(day, n, best[n])
    BY <1>4, <2>1
  <2> HIDE DEF best
  <2>3. IsSoonest(day, n, Sooner(RoleOrder[n], best[n - 1], day))
    BY <2>2, SoonerIsSoonest
  <2> QED BY <2>1, <2>2, <2>3, SoonestIsOne
<1>7. Pass(best)
  <2> DEFINE step == [n \in 0..N |->
                IF n = 0 THEN Nothing ELSE Sooner(RoleOrder[n], best[n - 1], day)]
  <2>1. \A n \in 0..N : best[n] = IF n = 0 THEN Nothing ELSE Sooner(RoleOrder[n], best[n - 1], day)
    <3>1. \A n \in 0..N : n = 0 \/ n \in 1..N
      BY <1>1
    <3> HIDE DEF best, N
    <3> QED BY <1>5, <1>6, <3>1
  <2>2. best = [n \in 0..N |-> best[n]]
    OBVIOUS
  <2> HIDE DEF best
  <2>3. best = step
    BY <2>1, <2>2
  <2> QED BY <2>3
<1>8. Upcoming(day) = (CHOOSE p : Pass(p))[N]
  BY DEF Upcoming
<1> HIDE DEF best
<1>9. PICK p : Pass(p) /\ Upcoming(day) = p[N]
  BY <1>7, <1>8
<1> DEFINE Right == {n \in 0..N : IsSoonest(day, n, p[n])}
<1>10. 0 \in Right
  BY <1>1, <1>2, <1>9
<1>11. ASSUME NEW n \in 1..N, n - 1 \in Right PROVE n \in Right
  <2>1. n \in 0..N /\ n # 0
    BY <1>1
  <2>2. p[n] = Sooner(RoleOrder[n], p[n - 1], day)
    BY <1>9, <2>1
  <2> QED BY <1>11, <2>1, <2>2, SoonerIsSoonest
<1>12. N \in Right
  <2> HIDE DEF Right, N
  <2>1. N \in 0..N
    BY <1>1
  <2> QED BY <1>1, <1>10, <1>11, <2>1, UpTo
<1> QED BY <1>9, <1>12

-----------------------------------------------------------------------------
(* The sign-in policy: what that means *)

\* A level that applies on a day is some row's, and no row's that came is higher.
LEMMA EnforcedRows ==
    ASSUME SignInTypeOK, NEW day
    PROVE  /\ Enforced(day) \in {Password, SecondStep, PasskeyStep} /\ Enforced(day) \in Nat
           /\ \A r \in PolicyRoles : Asks(r) /\ HasCome(r, day) => rule[r].level <= Enforced(day)
           /\ Enforced(day) # Password =>
                 \E r \in PolicyRoles : Asks(r) /\ HasCome(r, day) /\ rule[r].level = Enforced(day)
<1>1. IsStrongest(day, Len(RoleOrder), Enforced(day))
  BY EnforcedIsStrongest
<1>2. \A r \in PolicyRoles : Asks(r) /\ HasCome(r, day) => rule[r].level <= Enforced(day)
  BY <1>1, PolicyNumbers DEF IsStrongest, Counts
<1>3. Enforced(day) # Password =>
        \E r \in PolicyRoles : Asks(r) /\ HasCome(r, day) /\ rule[r].level = Enforced(day)
  BY <1>1, PolicyNumbers DEF IsStrongest, Counts
<1>4. Enforced(day) \in {Password, SecondStep, PasskeyStep}
  BY <1>3, PolicyRows
<1> QED BY <1>1, <1>2, <1>3, <1>4 DEF IsStrongest

LEMMA UpcomingRows ==
    ASSUME SignInTypeOK, NEW day
    PROVE  /\ Upcoming(day) = Nothing \/
                 /\ \E r \in PolicyRoles :
                       /\ Asks(r) /\ ~HasCome(r, day) /\ rule[r] = Upcoming(day)
                       /\ rule[r].level > Enforced(day)
                 /\ Upcoming(day).level \in {SecondStep, PasskeyStep}
                 /\ Upcoming(day).from \in 0..LastDay
           /\ \A r \in PolicyRoles :
                 Asks(r) /\ ~HasCome(r, day) /\ rule[r].level > Enforced(day) =>
                    /\ Upcoming(day) # Nothing
                    /\ \/ rule[r].level < Upcoming(day).level
                       \/ /\ rule[r].level = Upcoming(day).level
                          /\ Upcoming(day).from <= rule[r].from
<1> DEFINE soon == Upcoming(day)
<1>1. IsSoonest(day, Len(RoleOrder), soon)
  BY UpcomingIsSoonest
<1>2. Enforced(day) \in Nat /\ \A r \in PolicyRoles : rule[r].level \in Nat
  BY EnforcedRows, PolicyRows
<1> HIDE DEF soon
<1>3. \A i \in 1..Len(RoleOrder) : Waits(i, day) <=>
         /\ Asks(RoleOrder[i]) /\ ~HasCome(RoleOrder[i], day)
         /\ rule[RoleOrder[i]].level > Enforced(day)
  BY <1>2, PolicyNumbers DEF Waits
<1>4. CASE soon = Nothing /\ \A i \in 1..Len(RoleOrder) : ~Waits(i, day)
  BY <1>3, <1>4, PolicyNumbers DEF soon
<1>5. CASE /\ \E i \in 1..Len(RoleOrder) : Waits(i, day) /\ rule[RoleOrder[i]] = soon
           /\ \A i \in 1..Len(RoleOrder) : Waits(i, day) => IsFirst(soon, rule[RoleOrder[i]])
  <2>1. PICK r \in PolicyRoles :
           Asks(r) /\ ~HasCome(r, day) /\ rule[r] = soon /\ rule[r].level > Enforced(day)
    BY <1>3, <1>5, PolicyNumbers
  <2>2. soon.level \in {SecondStep, PasskeyStep} /\ soon.from \in 0..LastDay /\ soon # Nothing
    BY <2>1, PolicyRows DEF Asks, Nothing, NoRule
  <2>3. \A q \in PolicyRoles :
          Asks(q) /\ ~HasCome(q, day) /\ rule[q].level > Enforced(day) => IsFirst(soon, rule[q])
    BY <1>3, <1>5, PolicyNumbers
  <2> QED BY <2>1, <2>2, <2>3 DEF IsFirst, soon
<1> QED BY <1>1, <1>4, <1>5 DEF IsSoonest

LEMMA StrongestApplies == SignInTypeOK => TheStrongestApplies
<1> SUFFICES ASSUME SignInTypeOK, NEW day \in 0..LastDay
             PROVE  LET come == {rule[r].level : r \in {r \in held : rule[r].from <= day}} IN
                    /\ \A one \in come : one <= Enforced(day)
                    /\ Enforced(day) \in come \cup {Password}
  BY DEF TheStrongestApplies
<1>1. held \subseteq PolicyRoles
  BY DEF SignInTypeOK
<1>2. ASSUME NEW r \in held, rule[r].from <= day PROVE rule[r].level <= Enforced(day)
  <2>1. CASE rule[r].level = Password
    BY <1>1, <2>1, EnforcedRows DEF Password
  <2>2. CASE rule[r].level # Password
    BY <1>1, <1>2, <2>2, EnforcedRows DEF Asks, HasCome
  <2> QED BY <2>1, <2>2
<1>3. Enforced(day) # Password => \E r \in held : rule[r].from <= day /\ rule[r].level = Enforced(day)
  BY EnforcedRows DEF Asks, HasCome
<1> QED BY <1>2, <1>3

LEMMA AnnouncedComes == SignInTypeOK => WhatIsAnnouncedComesThen
<1> DEFINE soon == Upcoming(today)
<1> SUFFICES ASSUME SignInTypeOK, soon # Nothing
             PROVE  /\ soon.from > today
                    /\ Enforced(soon.from) = soon.level
                    /\ \A day \in today..(soon.from - 1) : Enforced(day) < soon.level
  BY DEF WhatIsAnnouncedComesThen
<1>1. today \in Nat /\ soon.from \in Nat /\ soon.level \in Nat /\ soon.level # Password
  BY UpcomingRows, PolicyNumbers DEF SignInTypeOK, Password, SecondStep, PasskeyStep
<1>2. PICK r \in PolicyRoles : /\ Asks(r) /\ ~HasCome(r, today) /\ rule[r] = soon
                              /\ rule[r].level > Enforced(today)
  BY UpcomingRows
<1>3. \A q \in PolicyRoles : rule[q].level \in Nat /\ rule[q].from \in Nat
  BY PolicyRows
<1>4. /\ Enforced(today) \in Nat
      /\ \A q \in PolicyRoles : Asks(q) /\ HasCome(q, today) => rule[q].level <= Enforced(today)
  BY EnforcedRows
<1>5. \A q \in PolicyRoles :
         Asks(q) /\ ~HasCome(q, today) /\ rule[q].level > Enforced(today) =>
            \/ rule[q].level < soon.level
            \/ rule[q].level = soon.level /\ soon.from <= rule[q].from
  BY UpcomingRows
<1> HIDE DEF soon
<1>6. soon.from > today
  BY <1>1, <1>2, <1>3 DEF HasCome
\* Whoever asks for as much by then is not asking yet, and asks no earlier.
<1>7. ASSUME NEW day \in Nat, Enforced(day) >= soon.level
      PROVE  soon.from <= day /\ Enforced(day) = soon.level
  <2>1. Enforced(day) \in Nat /\ Enforced(day) # Password
    BY <1>1, <1>7, EnforcedRows DEF Password
  <2>2. PICK q \in PolicyRoles : Asks(q) /\ HasCome(q, day) /\ rule[q].level = Enforced(day)
    BY <2>1, EnforcedRows
  <2>3. rule[q].level > Enforced(today)
    BY <1>1, <1>2, <1>3, <1>4, <1>7, <2>1, <2>2
  <2>4. ~HasCome(q, today)
    BY <1>3, <1>4, <2>2, <2>3
  <2>5. rule[q].level = soon.level /\ soon.from <= rule[q].from
    BY <1>1, <1>3, <1>5, <1>7, <2>1, <2>2, <2>3, <2>4
  <2> QED BY <1>1, <1>3, <2>2, <2>5 DEF HasCome
<1>8. Enforced(soon.from) >= soon.level /\ Enforced(soon.from) \in Nat
  BY <1>1, <1>2, EnforcedRows DEF HasCome
<1>9. ASSUME NEW day \in today..(soon.from - 1) PROVE Enforced(day) < soon.level
  <2>1. day \in Nat /\ ~(soon.from <= day) /\ Enforced(day) \in Nat
    BY <1>1, EnforcedRows
  <2> QED BY <1>1, <1>7, <2>1
<1> QED BY <1>1, <1>6, <1>7, <1>8, <1>9

LEMMA NobodySurprised == SignInTypeOK => NobodyIsSurprised
<1> SUFFICES ASSUME SignInTypeOK, NoticeShown = Nothing, NEW day \in today..LastDay,
                    SignInStatus(day) = "needs_setup"
             PROVE  SignInStatus(today) = "needs_setup"
  BY DEF NobodyIsSurprised
<1>1. HasDevice(Upcoming(today).level)
  BY DEF NoticeShown, HasDevice, Nothing, NoRule
<1>2. Enforced(day) # Password /\ ~HasDevice(Enforced(day))
  BY DEF SignInStatus
<1>3. Enforced(day) \in Nat /\ Enforced(today) \in Nat /\ today \in Nat /\ day \in Nat /\ today <= day
  BY EnforcedRows, PolicyNumbers DEF SignInTypeOK
<1>4. PICK r \in PolicyRoles : Asks(r) /\ HasCome(r, day) /\ rule[r].level = Enforced(day)
  BY <1>2, EnforcedRows
<1>5. CASE Enforced(today) = Enforced(day)
  BY <1>2, <1>5 DEF SignInStatus
<1>6. CASE Enforced(today) > Enforced(day)
  <2>1. Enforced(today) # Password
    BY <1>3, <1>6 DEF Password
  <2>2. PICK q \in PolicyRoles : Asks(q) /\ HasCome(q, today) /\ rule[q].level = Enforced(today)
    BY <2>1, EnforcedRows
  <2>3. HasCome(q, day)
    BY <1>3, <2>2, PolicyRows DEF HasCome
  <2> QED BY <1>3, <1>6, <2>2, <2>3, EnforcedRows
<1>7. CASE Enforced(today) < Enforced(day)
  <2>1. ~HasCome(r, today)
    BY <1>3, <1>4, <1>7, EnforcedRows
  <2>2. Upcoming(today) # Nothing /\ Upcoming(today).level >= Enforced(day)
    BY <1>3, <1>4, <1>7, <2>1, UpcomingRows DEF SecondStep, PasskeyStep
  <2>3. Upcoming(today).level \in {SecondStep, PasskeyStep}
    BY <2>2, UpcomingRows
  <2>4. Enforced(day) \in {SecondStep, PasskeyStep}
    BY <1>2, EnforcedRows
  <2> QED BY <1>1, <1>2, <2>2, <2>3, <2>4 DEF HasDevice, Password, SecondStep, PasskeyStep
<1> QED BY <1>3, <1>5, <1>6, <1>7

LEMMA SignInTypes == SignInSpec => []SignInTypeOK
<1>1. SignInInit => SignInTypeOK
  BY PolicyNumbers DEF SignInInit, SignInTypeOK, Rules
<1>2. SignInTypeOK /\ [SignInNext]_signInVars => SignInTypeOK'
  <2> SUFFICES ASSUME SignInTypeOK, [SignInNext]_signInVars PROVE SignInTypeOK'
    OBVIOUS
  <2>1. CASE \E r \in PolicyRoles : GiveOrTakeRole(r)
    BY <2>1, PolicyNumbers DEF GiveOrTakeRole, SignInTypeOK
  <2>2. CASE \E r \in PolicyRoles : \E new \in Rules : SetRule(r, new)
    BY <2>2 DEF SetRule, SignInTypeOK
  <2>3. CASE ADayPasses
    BY <2>3, PolicyNumbers DEF ADayPasses, SignInTypeOK
  <2>4. CASE OrganisationTurnsOff \/ LogIn \/ LogOut \/ Visit \/ GoToSecurity \/ ConfirmFirst
    <3>1. UNCHANGED <<rule, today, held>> /\ devices' \subseteq MethodKinds
      BY <2>4 DEF OrganisationTurnsOff, LogIn, LogOut, Visit, GoToSecurity, ConfirmFirst, SignInTypeOK
    <3>2. session' \in MethodKinds \cup {"out", "plain", "backup"}
      BY <2>4 DEF OrganisationTurnsOff, LogIn, LogOut, Visit, GoToSecurity, ConfirmFirst, SignInTypeOK
    <3>3. at' \in {"page", "security"}
      BY <2>4 DEF OrganisationTurnsOff, LogIn, LogOut, Visit, GoToSecurity, ConfirmFirst, SignInTypeOK
    <3> QED BY <3>1, <3>2, <3>3 DEF SignInTypeOK
  <2>5. CASE \E d \in MethodKinds : AddDevice(d)
    BY <2>5 DEF AddDevice, SignInTypeOK
  <2>6. CASE \E gone \in SUBSET MethodKinds : RemoveDevices(gone)
    BY <2>6 DEF RemoveDevices, SignInTypeOK
  <2>7. CASE UNCHANGED signInVars
    BY <2>7 DEF signInVars, SignInTypeOK
  <2> QED BY <2>1, <2>2, <2>3, <2>4, <2>5, <2>6, <2>7 DEF SignInNext
<1> QED BY <1>1, <1>2, PTL DEF SignInSpec

\* On any day the strongest of the account's rows that have come is what the
\* site asks for; what it announces comes on that day and not before; and nobody
\* is sent to set up a method unannounced, for any roles, in any order of the
\* policy's rows (accounts.sign_in:requirements_for, sign_in_notice).
THEOREM ThePolicyIsAnnounced == SignInSpec => []SignInInv
<1>1. SignInTypeOK => SignInInv
  BY StrongestApplies, AnnouncedComes, NobodySurprised DEF SignInInv
<1> QED BY <1>1, SignInTypes, PTL

=============================================================================

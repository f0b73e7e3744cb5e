---------------------------- MODULE FamiliesProofs ----------------------------
(***************************************************************************)
(* What happens to a family beside the bookings: a child's guardians, the  *)
(* look-ups at Nominatim, the uploaded images, a child's attendance,       *)
(* milestones and belts, what the nightly snapshot says of the attendance, *)
(* and the erasing of its people, for any number of adults, processes and  *)
(* requests, whatever they race to do. That a withdrawn invitation stays   *)
(* withdrawn rests on the lock an acceptance holds on its row. That the    *)
(* child keeps a parent or legal guardian is proved for guardians who      *)
(* leave one at a time; a run shows that two of them at once can leave it  *)
(* without.                                                                *)
(***************************************************************************)
EXTENDS Guardians, Geocoding, Uploads, Awards, Engagement, Erasure, FiniteSetTheorems,
        SequenceTheorems, TLAPS

-----------------------------------------------------------------------------
(* Guardians: the inductive invariants *)

\* An acceptance under way has its invitation for itself: nobody withdraws
\* it or deletes it meanwhile.
AcceptedIsOpen ==
    \A r \in Joiners : joiner[r].step = "accept" =>
        /\ invited[joiner[r].of].to # NoRelative
        /\ ~invited[joiner[r].of].withdrawn

InvitesInv == GuardiansTypeOK /\ AcceptedIsOpen

\* What a leaving request found out still holds: the others it counted are
\* still there.
OthersAreLeft ==
    \A r \in Leavers :
        /\ leaver[r].step = "remove" =>
              leaver[r].takes = {leaver[r].who} /\ ~leaver[r].child
        /\ leaver[r].step # "idle" /\ ~leaver[r].child => Responsible \ leaver[r].takes # {}

ChildInv == erased \/ (Responsible # {} /\ OthersAreLeft)

InviteRecord ==
    [to : Relatives \cup {NoRelative}, by : Relatives \cup {NoRelative}, relation : Relation,
     accepted : BOOLEAN, withdrawn : BOOLEAN, expired : BOOLEAN]

JoinerRecord == {IdleJoiner} \cup [step : {"withdraw", "accept"}, of : Invites]

LeaverRecord ==
    {IdleLeaver}
    \cup [step : {"remove", "erase"}, who : Relatives, takes : SUBSET Relatives, child : BOOLEAN]

-----------------------------------------------------------------------------
(* Invitations *)

LEMMA InitInvites == GuardiansInit => InvitesInv
<1> SUFFICES ASSUME GuardiansInit PROVE InvitesInv
  OBVIOUS
<1>1. NoInvitation \in InviteRecord
  BY DEF NoInvitation, InviteRecord, Relation
<1>2. links \in [Relatives -> Relation \cup {"none"}]
  BY DEF GuardiansInit, Relation
<1>3. GuardiansTypeOK
  BY <1>1, <1>2 DEF GuardiansInit, GuardiansTypeOK, InviteRecord
<1>4. AcceptedIsOpen
  BY DEF GuardiansInit, AcceptedIsOpen, IdleJoiner
<1> QED BY <1>3, <1>4 DEF InvitesInv

\* One invitation becomes another row: it still is one, and open if somebody
\* accepts it.
LEMMA OneInvitation ==
    ASSUME InvitesInv, NEW i \in Invites, NEW row \in InviteRecord,
           invited' = [invited EXCEPT ![i] = row],
           row.to # NoRelative \/ row = NoInvitation,
           ~InvitationLocked(i) \/ (row.to # NoRelative /\ ~row.withdrawn),
           UNCHANGED <<links, erased, deleted, joiner, leaver>>
    PROVE  InvitesInv'
<1>1. invited' \in [Invites -> InviteRecord] /\ invited'[i] = row
      /\ \A j \in Invites : j # i => invited'[j] = invited[j]
  BY DEF InvitesInv, GuardiansTypeOK, InviteRecord
<1>2. GuardiansTypeOK'
  <2>1. \A j \in Invites : invited'[j].to = NoRelative => invited'[j] = NoInvitation
    BY <1>1 DEF InvitesInv, GuardiansTypeOK
  <2> QED BY <1>1, <2>1 DEF InvitesInv, GuardiansTypeOK, InviteRecord
<1>3. \A r \in Joiners : joiner[r].step = "accept" => joiner[r].of \in Invites
  BY DEF InvitesInv, GuardiansTypeOK, IdleJoiner
<1>4. AcceptedIsOpen'
  BY <1>1, <1>3 DEF InvitesInv, AcceptedIsOpen, InvitationLocked
<1> QED BY <1>2, <1>4 DEF InvitesInv

LEMMA InvitationSteps ==
    ASSUME InvitesInv, NEW i \in Invites,
           \/ \E by, to \in Relatives, relation \in Relation : Invite(i, by, to, relation)
           \/ InviteExpires(i)
           \/ Resend(i)
    PROVE  InvitesInv' /\ UNCHANGED <<links, erased, leaver>>
<1>0. UNCHANGED <<links, erased, deleted, joiner, leaver>>
  BY DEF Invite, InviteExpires, Resend
<1>1. ASSUME NEW by \in Relatives, NEW to \in Relatives, NEW relation \in Relation,
             Invite(i, by, to, relation)
      PROVE  InvitesInv'
  <2> DEFINE row == [to |-> to, by |-> by, relation |-> relation, accepted |-> FALSE,
                     withdrawn |-> FALSE, expired |-> FALSE]
  <2>1. invited' = [invited EXCEPT ![i] = row]
    BY <1>1 DEF Invite
  <2>2. row \in InviteRecord /\ row.to # NoRelative /\ ~row.withdrawn
    BY ConstantsAssumption DEF InviteRecord
  <2> HIDE DEF row
  <2> QED BY <1>0, <2>1, <2>2, OneInvitation
<1>2. ASSUME invited[i].to # NoRelative, ~invited[i].withdrawn,
             NEW expired \in BOOLEAN, invited' = [invited EXCEPT ![i].expired = expired]
      PROVE  InvitesInv'
  <2> DEFINE row == [invited[i] EXCEPT !.expired = expired]
  <2>1. invited' = [invited EXCEPT ![i] = row]
    BY <1>2
  <2>2. row \in InviteRecord /\ row.to # NoRelative /\ ~row.withdrawn
    BY <1>2 DEF InvitesInv, GuardiansTypeOK, InviteRecord
  <2> HIDE DEF row
  <2> QED BY <1>0, <2>1, <2>2, OneInvitation
<1>3. CASE InviteExpires(i) \/ Resend(i)
  <2>1. invited[i].to # NoRelative /\ ~invited[i].withdrawn
    BY <1>3 DEF InviteExpires, Resend, IsPending
  <2>2. PICK expired \in BOOLEAN : invited' = [invited EXCEPT ![i].expired = expired]
    BY <1>3 DEF InviteExpires, Resend
  <2>3. InvitesInv'
    BY <1>2, <2>1, <2>2
  <2> QED BY <1>0, <2>3
<1> QED BY <1>0, <1>1, <1>3

\* One request's transaction begins or ends.
LEMMA JoinerSteps ==
    ASSUME InvitesInv, NEW r \in Joiners,
           \/ \E i \in Invites : LoadToWithdraw(r, i) \/ LockToAccept(r, i)
           \/ Withdraw(r) \/ CommitAccept(r)
    PROVE  InvitesInv'
<1>0. /\ joiner \in [Joiners -> JoinerRecord] /\ invited \in [Invites -> InviteRecord]
      /\ \A j \in Invites : invited[j].to = NoRelative => invited[j] = NoInvitation
      /\ \A o \in Joiners : joiner[o].step # "idle" => joiner[o].of \in Invites
  BY DEF InvitesInv, GuardiansTypeOK, JoinerRecord, InviteRecord, IdleJoiner
<1>1. ASSUME NEW i \in Invites, LoadToWithdraw(r, i) \/ LockToAccept(r, i) PROVE InvitesInv'
  <2>1. PICK step \in {"withdraw", "accept"} : joiner' = [joiner EXCEPT ![r] = [step |-> step, of |-> i]]
    BY <1>1 DEF LoadToWithdraw, LockToAccept
  <2>2. joiner' \in [Joiners -> JoinerRecord]
    BY <1>0, <2>1 DEF JoinerRecord
  <2>3. UNCHANGED <<links, erased, deleted, invited, leaver>>
    BY <1>1 DEF LoadToWithdraw, LockToAccept
  <2>4. GuardiansTypeOK'
    BY <2>2, <2>3 DEF InvitesInv, GuardiansTypeOK, JoinerRecord
  <2>5. invited[i].to # NoRelative /\ ~invited[i].withdrawn
    BY <1>1 DEF LoadToWithdraw, LockToAccept, Acceptable, IsPending
  <2>6. AcceptedIsOpen'
    BY <1>0, <2>1, <2>3, <2>5 DEF InvitesInv, AcceptedIsOpen
  <2> QED BY <2>4, <2>6 DEF InvitesInv
<1>2. ASSUME joiner' = [joiner EXCEPT ![r] = IdleJoiner]
      PROVE  /\ joiner' \in [Joiners -> JoinerRecord]
             /\ \A o \in Joiners : joiner'[o].step = "accept" => o # r /\ joiner'[o] = joiner[o]
  BY <1>0, <1>2 DEF JoinerRecord, IdleJoiner
<1>3. CASE Withdraw(r)
  <2> DEFINE i == joiner[r].of
             row == [invited[i] EXCEPT !.withdrawn = TRUE]
  <2>1. /\ i \in Invites /\ ~InvitationLocked(i)
        /\ invited' = (IF invited[i].to = NoRelative THEN invited ELSE [invited EXCEPT ![i] = row])
        /\ joiner' = [joiner EXCEPT ![r] = IdleJoiner]
        /\ UNCHANGED <<links, erased, deleted, leaver>>
    BY <1>0, <1>3 DEF Withdraw
  <2>2. row \in InviteRecord /\ row.to = invited[i].to
    BY <1>0, <2>1 DEF InviteRecord
  <2> HIDE DEF row
  <2>3. /\ invited' \in [Invites -> InviteRecord]
        /\ \A j \in Invites : j # i => invited'[j] = invited[j]
        /\ \A j \in Invites : invited'[j].to = NoRelative => invited'[j] = NoInvitation
    BY <1>0, <2>1, <2>2
  <2>4. GuardiansTypeOK'
    BY <1>2, <2>1, <2>3 DEF InvitesInv, GuardiansTypeOK, JoinerRecord, InviteRecord
  <2>5. AcceptedIsOpen'
    <3>1. ASSUME NEW o \in Joiners, joiner'[o].step = "accept"
          PROVE  invited'[joiner'[o].of] = invited[joiner[o].of] /\ joiner[o].step = "accept"
                 /\ joiner'[o] = joiner[o]
      <4>1. joiner'[o] = joiner[o] /\ joiner[o].step = "accept"
        BY <1>2, <2>1, <3>1
      <4>2. joiner[o].of \in Invites /\ joiner[o].of # i
        BY <1>0, <2>1, <4>1 DEF InvitationLocked
      <4> QED BY <2>3, <4>1, <4>2
    <3> QED BY <3>1 DEF InvitesInv, AcceptedIsOpen
  <2> QED BY <2>4, <2>5 DEF InvitesInv
<1>4. CASE CommitAccept(r)
  <2> DEFINE i == joiner[r].of
             a == invited[i].to
             row == [invited[i] EXCEPT !.accepted = TRUE]
  <2>1. /\ i \in Invites /\ joiner[r].step = "accept"
        /\ joiner' = [joiner EXCEPT ![r] = IdleJoiner]
        /\ UNCHANGED <<erased, deleted, leaver>>
        /\ \/ UNCHANGED <<links, invited>>
           \/ links' = [links EXCEPT ![a] = invited[i].relation] /\ invited' = [invited EXCEPT ![i] = row]
    BY <1>0, <1>4 DEF CommitAccept
  <2>2. row \in InviteRecord /\ row.to = a /\ row.withdrawn = invited[i].withdrawn
    BY <1>0, <2>1 DEF InviteRecord
  <2>3. a # NoRelative /\ invited[i].relation \in Relation
    BY <1>0, <2>1 DEF InvitesInv, AcceptedIsOpen, InviteRecord
  <2>4. links' \in [Relatives -> Relation \cup {"none"}]
    BY <2>1, <2>3 DEF InvitesInv, GuardiansTypeOK
  <2> HIDE DEF row
  <2>5. /\ invited' \in [Invites -> InviteRecord]
        /\ \A j \in Invites : invited'[j].to = invited[j].to /\ invited'[j].withdrawn = invited[j].withdrawn
        /\ \A j \in Invites : invited'[j].to = NoRelative => invited'[j] = NoInvitation
    BY <1>0, <2>1, <2>2, <2>3
  <2>6. GuardiansTypeOK'
    BY <1>2, <2>1, <2>4, <2>5 DEF InvitesInv, GuardiansTypeOK, JoinerRecord, InviteRecord
  <2>7. AcceptedIsOpen'
    BY <1>0, <1>2, <2>1, <2>5 DEF InvitesInv, AcceptedIsOpen
  <2> QED BY <2>6, <2>7 DEF InvitesInv
<1> QED BY <1>1, <1>3, <1>4

-----------------------------------------------------------------------------
(* Guardians who leave *)

LEMMA LeaverSteps ==
    ASSUME InvitesInv, NEW r \in Leavers,
           \/ \E a, by \in Relatives : LockToRemove(r, a, by)
           \/ \E a \in Relatives : StartErase(r, a)
           \/ CommitRemove(r) \/ CommitErase(r)
    PROVE  InvitesInv'
<1>0. /\ leaver \in [Leavers -> LeaverRecord] /\ invited \in [Invites -> InviteRecord]
      /\ links \in [Relatives -> Relation \cup {"none"}]
      /\ \A j \in Invites : invited[j].to = NoRelative => invited[j] = NoInvitation
      /\ \A o \in Joiners : joiner[o].step = "accept" => joiner[o].of \in Invites
  BY DEF InvitesInv, GuardiansTypeOK, LeaverRecord, InviteRecord, IdleJoiner
<1>1. IdleLeaver \in LeaverRecord
  BY DEF LeaverRecord
<1>2. CASE (\E a, by \in Relatives : LockToRemove(r, a, by)) \/ (\E a \in Relatives : StartErase(r, a))
  <2>1. PICK s \in LeaverRecord : leaver' = [leaver EXCEPT ![r] = s]
    <3>1. ASSUME NEW a \in Relatives, NEW by \in Relatives, LockToRemove(r, a, by)
          PROVE  \E s \in LeaverRecord : leaver' = [leaver EXCEPT ![r] = s]
      <4>1. [step |-> "remove", who |-> a, takes |-> {a}, child |-> FALSE] \in LeaverRecord
        BY DEF LeaverRecord
      <4> QED BY <3>1, <4>1 DEF LockToRemove
    <3>2. ASSUME NEW a \in Relatives, StartErase(r, a)
          PROVE  \E s \in LeaverRecord : leaver' = [leaver EXCEPT ![r] = s]
      <4> DEFINE sole == a \in Responsible /\ ~OtherResponsibleLeft(a)
                 s == [step |-> "erase", who |-> a, child |-> sole,
                       takes |-> IF sole THEN Guardian ELSE {a} \cap Guardian]
      <4>1. sole \in BOOLEAN /\ Guardian \subseteq Relatives
        BY DEF Guardian
      <4>2. s \in LeaverRecord
        BY <4>1 DEF LeaverRecord
      <4>3. leaver' = [leaver EXCEPT ![r] = s]
        BY <3>2 DEF StartErase
      <4> QED BY <4>2, <4>3
    <3> QED BY <1>2, <3>1, <3>2
  <2>2. leaver' \in [Leavers -> LeaverRecord]
    BY <1>0, <2>1
  <2>3. UNCHANGED <<links, erased, deleted, invited, joiner>>
    BY <1>2 DEF LockToRemove, StartErase
  <2> QED BY <2>2, <2>3 DEF InvitesInv, GuardiansTypeOK, AcceptedIsOpen, LeaverRecord
<1>3. CASE CommitRemove(r)
  <2>1. leaver' \in [Leavers -> LeaverRecord] /\ links' \in [Relatives -> Relation \cup {"none"}]
    BY <1>0, <1>1, <1>3 DEF CommitRemove
  <2> QED BY <1>3, <2>1 DEF CommitRemove, InvitesInv, GuardiansTypeOK, AcceptedIsOpen, LeaverRecord
<1>4. CASE CommitErase(r)
  <2> DEFINE a == leaver[r].who
  <2>1. leaver' \in [Leavers -> LeaverRecord] /\ links' \in [Relatives -> Relation \cup {"none"}]
    BY <1>0, <1>1, <1>4 DEF CommitErase
  <2>2. a \in Relatives /\ leaver[r].child \in BOOLEAN
    BY <1>0, <1>4 DEF CommitErase, LeaverRecord, IdleLeaver
  <2>3. ASSUME NEW j \in Invites
        PROVE  /\ invited'[j] \in InviteRecord
               /\ invited'[j].to = NoRelative => invited'[j] = NoInvitation
               /\ \/ invited'[j].to = invited[j].to /\ invited'[j].withdrawn = invited[j].withdrawn
                  \/ ~InvitationLocked(j)
    <3>1. CASE leaver[r].child \/ invited[j].to = a
      <4>1. invited'[j] = NoInvitation /\ ~InvitationLocked(j)
        BY <1>4, <3>1 DEF CommitErase
      <4>2. NoInvitation \in InviteRecord
        BY DEF NoInvitation, InviteRecord, Relation
      <4> QED BY <4>1, <4>2
    <3>2. CASE ~(leaver[r].child \/ invited[j].to = a) /\ invited[j].by = a
      <4>1. invited'[j] = [invited[j] EXCEPT !.by = NoRelative] /\ ~InvitationLocked(j)
        BY <1>4, <3>2 DEF CommitErase
      <4>2. invited[j].to # NoRelative
        BY <1>0, <2>2, <3>2, ConstantsAssumption DEF NoInvitation
      <4>3. invited'[j] \in InviteRecord /\ invited'[j].to = invited[j].to
        BY <1>0, <4>1 DEF InviteRecord
      <4> QED BY <4>1, <4>2, <4>3
    <3>3. CASE ~(leaver[r].child \/ invited[j].to = a) /\ invited[j].by # a
      <4>1. invited'[j] = invited[j]
        BY <1>4, <3>3 DEF CommitErase
      <4> QED BY <1>0, <4>1
    <3> QED BY <3>1, <3>2, <3>3
  <2>4. invited' \in [Invites -> InviteRecord]
    <3>1. DOMAIN invited' = Invites /\ invited' = [j \in Invites |-> invited'[j]]
      BY <1>4 DEF CommitErase
    <3> QED BY <2>3, <3>1
  <2>5. GuardiansTypeOK'
    BY <1>4, <2>1, <2>2, <2>3, <2>4
       DEF CommitErase, InvitesInv, GuardiansTypeOK, LeaverRecord, InviteRecord
  <2>6. AcceptedIsOpen'
    <3>1. UNCHANGED joiner
      BY <1>4 DEF CommitErase
    <3> QED BY <1>0, <2>3, <3>1 DEF InvitesInv, AcceptedIsOpen, InvitationLocked
  <2> QED BY <2>5, <2>6 DEF InvitesInv
<1> QED BY <1>2, <1>3, <1>4

LEMMA NextInvites == InvitesInv /\ [GuardiansNext]_guardianVars => InvitesInv'
<1> SUFFICES ASSUME InvitesInv, [GuardiansNext]_guardianVars PROVE InvitesInv'
  OBVIOUS
<1>1. CASE UNCHANGED guardianVars
  BY <1>1 DEF guardianVars, InvitesInv, GuardiansTypeOK, AcceptedIsOpen
<1> QED BY <1>1, InvitationSteps, JoinerSteps, LeaverSteps DEF GuardiansNext

\* Only an acceptance makes an invitation accepted, and it holds the row of
\* one that nobody withdrew.
LEMMA AcceptancesAreOfOpenInvitations ==
    ASSUME InvitesInv, [GuardiansNext]_guardianVars, NEW i \in Invites,
           invited[i].withdrawn, ~invited[i].accepted
    PROVE  ~invited'[i].accepted
<1>0. /\ invited \in [Invites -> InviteRecord]
      /\ \A o \in Joiners : joiner[o].step # "idle" => joiner[o].of \in Invites
  BY DEF InvitesInv, GuardiansTypeOK, InviteRecord, IdleJoiner
<1>1. ASSUME NEW r \in Joiners, CommitAccept(r) PROVE ~invited'[i].accepted
  <2>1. joiner[r].of # i
    BY <1>1 DEF CommitAccept, InvitesInv, AcceptedIsOpen
  <2> QED BY <1>0, <1>1, <2>1 DEF CommitAccept
<1>2. ASSUME NEW r \in Leavers, CommitErase(r) PROVE ~invited'[i].accepted
  <2>1. \/ invited'[i] = NoInvitation
        \/ invited'[i] = [invited[i] EXCEPT !.by = NoRelative]
        \/ invited'[i] = invited[i]
    BY <1>2 DEF CommitErase
  <2> QED BY <1>0, <2>1 DEF NoInvitation, InviteRecord
<1>3. ASSUME NEW j \in Invites, NEW by \in Relatives, NEW to \in Relatives, NEW relation \in Relation,
             Invite(j, by, to, relation)
      PROVE  ~invited'[i].accepted
  BY <1>0, <1>3 DEF Invite, NoInvitation
<1>4. ASSUME NEW j \in Invites, InviteExpires(j) \/ Resend(j) PROVE ~invited'[i].accepted
  BY <1>0, <1>4 DEF InviteExpires, Resend, InviteRecord
<1>5. ASSUME NEW r \in Joiners, Withdraw(r) PROVE ~invited'[i].accepted
  <2>1. joiner[r].of \in Invites
    BY <1>0, <1>5 DEF Withdraw
  <2>2. \/ invited' = invited
        \/ invited' = [invited EXCEPT ![joiner[r].of].withdrawn = TRUE]
    BY <1>5 DEF Withdraw
  <2> QED BY <1>0, <2>1, <2>2 DEF InviteRecord
<1>6. ASSUME UNCHANGED invited PROVE ~invited'[i].accepted
  BY <1>6
<1>7. CASE UNCHANGED guardianVars
  BY <1>6, <1>7 DEF guardianVars
<1>8. ASSUME NEW r \in Joiners, NEW j \in Invites, LoadToWithdraw(r, j) \/ LockToAccept(r, j)
      PROVE  ~invited'[i].accepted
  BY <1>6, <1>8 DEF LoadToWithdraw, LockToAccept
<1>9. ASSUME NEW r \in Leavers,
             \/ \E a, by \in Relatives : LockToRemove(r, a, by)
             \/ \E a \in Relatives : StartErase(r, a)
             \/ CommitRemove(r)
      PROVE  ~invited'[i].accepted
  BY <1>6, <1>9 DEF LockToRemove, StartErase, CommitRemove
<1> QED BY <1>1, <1>2, <1>3, <1>4, <1>5, <1>7, <1>8, <1>9 DEF GuardiansNext

\* However acceptances, withdrawals and deletions cross each other: nobody
\* becomes a guardian by an invitation that was withdrawn.
THEOREM AWithdrawalIsFinal == GuardiansSpec => WithdrawnIsFinal
<1>1. InvitesInv /\ [GuardiansNext]_guardianVars =>
        [\A i \in Invites :
            invited[i].withdrawn /\ ~invited[i].accepted => ~invited'[i].accepted]_guardianVars
  BY AcceptancesAreOfOpenInvitations
<1> QED BY <1>1, InitInvites, NextInvites, PTL DEF GuardiansSpec, WithdrawnIsFinal

-----------------------------------------------------------------------------
(* The child's parent or legal guardian *)

OneLeaves == \A r, o \in Leavers : r = o

\* The steps that take nobody away.
LEMMA NobodyLeaves ==
    ASSUME ChildInv, UNCHANGED <<erased, leaver>>, Responsible \subseteq Responsible'
    PROVE  ChildInv'
<1>1. CASE erased
  BY <1>1 DEF ChildInv
<1>2. CASE ~erased
  <2>1. \A r \in Leavers : Responsible \ leaver[r].takes # {} => Responsible' \ leaver'[r].takes # {}
    OBVIOUS
  <2>2. OthersAreLeft'
    BY <1>2, <2>1 DEF ChildInv, OthersAreLeft
  <2> QED BY <1>2, <2>2 DEF ChildInv
<1> QED BY <1>1, <1>2

LEMMA LeaverKeepsOthers ==
    ASSUME OneLeaves, InvitesInv, ChildInv, NEW r \in Leavers,
           \/ \E a, by \in Relatives : LockToRemove(r, a, by)
           \/ \E a \in Relatives : StartErase(r, a)
           \/ CommitRemove(r) \/ CommitErase(r)
    PROVE  ChildInv'
<1>0. /\ leaver \in [Leavers -> LeaverRecord]
      /\ links \in [Relatives -> Relation \cup {"none"}]
      /\ \A o \in Leavers : o = r
  BY DEF OneLeaves, InvitesInv, GuardiansTypeOK, LeaverRecord
<1>1. CASE erased
  BY <1>1 DEF ChildInv, LockToRemove, StartErase, CommitRemove, CommitErase
<1>2. CASE ~erased
  <2>0. Responsible # {} /\ OthersAreLeft
    BY <1>2 DEF ChildInv
  <2>1. ASSUME NEW a \in Relatives, NEW by \in Relatives, LockToRemove(r, a, by) PROVE ChildInv'
    <3>1. Responsible' = Responsible /\ UNCHANGED erased
      BY <2>1 DEF LockToRemove, Responsible
    <3>2. leaver'[r] = [step |-> "remove", who |-> a, takes |-> {a}, child |-> FALSE]
      BY <1>0, <2>1 DEF LockToRemove
    <3>3. Responsible \ {a} # {}
      BY <2>0, <2>1 DEF LockToRemove, OtherResponsibleLeft
    <3> QED BY <1>0, <2>0, <3>1, <3>2, <3>3 DEF ChildInv, OthersAreLeft
  <2>2. ASSUME NEW a \in Relatives, StartErase(r, a) PROVE ChildInv'
    <3> DEFINE sole == a \in Responsible /\ ~OtherResponsibleLeft(a)
    <3>1. Responsible' = Responsible /\ UNCHANGED erased
      BY <2>2 DEF StartErase, Responsible
    <3>2. /\ leaver'[r].step = "erase" /\ leaver'[r].child = sole
          /\ ~sole => leaver'[r].takes \subseteq {a}
      BY <1>0, <2>2 DEF StartErase
    <3>3. ~sole => Responsible \ {a} # {}
      BY <2>0 DEF OtherResponsibleLeft
    <3> QED BY <1>0, <2>0, <3>1, <3>2, <3>3 DEF ChildInv, OthersAreLeft
  <2>3. CASE CommitRemove(r)
    <3>1. leaver[r].takes = {leaver[r].who} /\ Responsible \ leaver[r].takes # {}
      BY <2>0, <2>3 DEF CommitRemove, OthersAreLeft
    <3>2. Responsible' = Responsible \ {leaver[r].who}
      BY <1>0, <2>3 DEF CommitRemove, Responsible
    <3>3. leaver'[r] = IdleLeaver /\ UNCHANGED erased
      BY <1>0, <2>3 DEF CommitRemove
    <3> QED BY <1>0, <3>1, <3>2, <3>3 DEF ChildInv, OthersAreLeft, IdleLeaver
  <2>4. CASE CommitErase(r)
    <3>1. leaver[r].child \/ Responsible \ leaver[r].takes # {}
      BY <2>0, <2>4 DEF CommitErase, OthersAreLeft
    <3>2. Responsible' = Responsible \ leaver[r].takes
      BY <2>4 DEF CommitErase, Responsible
    <3>3. leaver'[r] = IdleLeaver
      BY <1>0, <2>4 DEF CommitErase
    <3>4. leaver[r].child => erased'
      BY <2>4 DEF CommitErase
    <3> QED BY <1>0, <3>1, <3>2, <3>3, <3>4 DEF ChildInv, OthersAreLeft, IdleLeaver
  <2> QED BY <2>1, <2>2, <2>3, <2>4
<1> QED BY <1>1, <1>2

LEMMA InitChild == GuardiansInit => ChildInv
BY DEF GuardiansInit, ChildInv, Responsible, OthersAreLeft, IdleLeaver

LEMMA NextChild ==
    ASSUME OneLeaves
    PROVE  InvitesInv /\ ChildInv /\ [GuardiansNext]_guardianVars => ChildInv'
<1> SUFFICES ASSUME InvitesInv, ChildInv, [GuardiansNext]_guardianVars PROVE ChildInv'
  OBVIOUS
<1>1. ASSUME NEW r \in Leavers,
             \/ \E a, by \in Relatives : LockToRemove(r, a, by)
             \/ \E a \in Relatives : StartErase(r, a)
             \/ CommitRemove(r) \/ CommitErase(r)
      PROVE  ChildInv'
  BY <1>1, LeaverKeepsOthers
<1>2. ASSUME NEW i \in Invites,
             \/ \E by, to \in Relatives, relation \in Relation : Invite(i, by, to, relation)
             \/ InviteExpires(i)
             \/ Resend(i)
      PROVE  ChildInv'
  <2>1. UNCHANGED <<links, erased, leaver>>
    BY <1>2, InvitationSteps
  <2> QED BY <2>1, NobodyLeaves DEF Responsible
<1>3. ASSUME NEW r \in Joiners,
             \/ \E i \in Invites : LoadToWithdraw(r, i) \/ LockToAccept(r, i)
             \/ Withdraw(r)
      PROVE  ChildInv'
  <2>1. UNCHANGED <<links, erased, leaver>>
    BY <1>3 DEF LoadToWithdraw, LockToAccept, Withdraw
  <2> QED BY <2>1, NobodyLeaves DEF Responsible
<1>4. ASSUME NEW r \in Joiners, CommitAccept(r) PROVE ChildInv'
  <2>1. Responsible \subseteq Responsible' /\ UNCHANGED <<erased, leaver>>
    BY <1>4 DEF CommitAccept, Responsible, Guardian, InvitesInv, GuardiansTypeOK
  <2> QED BY <2>1, NobodyLeaves
<1>5. CASE UNCHANGED guardianVars
  BY <1>5, NobodyLeaves DEF guardianVars, Responsible
<1> QED BY <1>1, <1>2, <1>3, <1>4, <1>5 DEF GuardiansNext

\* As long as guardians leave one at a time, whatever is invited, accepted
\* and withdrawn meanwhile: the child keeps a parent or legal guardian, or
\* goes along with the last one's account.
THEOREM TheChildKeepsAGuardian ==
    ASSUME OneLeaves
    PROVE  GuardiansSpec => []GuardiansInv
<1>1. InvitesInv /\ ChildInv => GuardiansInv
  BY DEF InvitesInv, ChildInv, GuardiansInv, ChildKeepsAResponsibleGuardian
<1>2. InvitesInv /\ ChildInv /\ [GuardiansNext]_guardianVars => InvitesInv' /\ ChildInv'
  BY NextInvites, NextChild
<1> QED BY <1>1, <1>2, InitInvites, InitChild, PTL DEF GuardiansSpec

-----------------------------------------------------------------------------
(* Geocoding: the inductive invariant *)

\* The slot's key is there until whoever took it has had its second.
SlotOutlivesItsHolder ==
    \A p \in Seekers : HasSlot(p) => MinInterval <= age[p] + slot

\* The back-off lasts as long as the silence Nominatim asked for, unless a
\* shorter one was written over it.
SilenceIsBackedOff == silence <= backOff \/ cut

\* From its look for a back-off on: a process that found none looked before
\* it was asked for.
WentAheadBefore ==
    \A p \in Seekers :
        seek[p].at \in {"clear", "holding", "asking"} /\ silence > 0 => p \in early \/ cut

CacheIsTrue == \A t \in Texts : cached[t] \in {"missing", Answer(t)}

\* A process that took a slot when the answer was there still finds it there,
\* or its text was forgotten meanwhile.
KnownIsFound ==
    \A p \in Seekers : p \in knew =>
        /\ seek[p].at \notin {"waiting", "clear", "asleep", "asking"}
        /\ seek[p].at = "holding" => cached[seek[p].text] # "missing"

GeocodingIInv ==
    /\ GeocodingTypeOK
    /\ OneSlotASecond /\ SlotOutlivesItsHolder
    /\ SilenceIsBackedOff /\ WentAheadBefore
    /\ PagesWaitNoLonger
    /\ CacheIsTrue /\ KnownIsFound

SeekRecord ==
    [at : {"idle", "waiting", "clear", "asleep", "holding", "asking"},
     text : Texts, sleep : 0..Max({LongestBackOff, MinInterval}), left : 0..WebWait]

LEMMA LargerOfTwo ==
    ASSUME NEW a \in Nat, NEW b \in Nat
    PROVE  Max({a, b}) = IF a >= b THEN a ELSE b
BY DEF Max

LEMMA SeekNumbers ==
    /\ MinInterval \in Nat \ {0} /\ WebWait \in Nat \ {0} /\ LongestBackOff \in Nat \ {0}
    /\ Max({LongestBackOff, MinInterval}) \in Nat
    /\ LongestBackOff <= Max({LongestBackOff, MinInterval})
    /\ MinInterval <= Max({LongestBackOff, MinInterval})
<1>1. MinInterval \in Nat \ {0} /\ WebWait \in Nat \ {0} /\ LongestBackOff \in Nat \ {0}
  BY GeocodingAssumption
<1> QED BY <1>1, LargerOfTwo

LEMMA RestIsSeek == AtRest \in SeekRecord /\ AtRest.at = "idle"
<1>1. (CHOOSE t \in Texts : TRUE) \in Texts
  BY GeocodingAssumption
<1> QED BY <1>1, SeekNumbers DEF AtRest, SeekRecord

LEMMA InitGeocoding == GeocodingInit => GeocodingIInv
<1> SUFFICES ASSUME GeocodingInit PROVE GeocodingIInv
  OBVIOUS
<1>1. GeocodingTypeOK
  <2>1. seek \in [Seekers -> SeekRecord]
    BY RestIsSeek DEF GeocodingInit
  <2>2. cached \in [Texts -> Answers] /\ cut \in BOOLEAN
    BY DEF GeocodingInit, Answers
  <2>3. slot \in 0..MinInterval /\ backOff \in 0..LongestBackOff /\ silence \in 0..LongestBackOff
    BY SeekNumbers DEF GeocodingInit
  <2>4. age \in [Seekers -> 0..MinInterval] /\ early \subseteq Seekers /\ knew \subseteq Seekers
    BY SeekNumbers DEF GeocodingInit
  <2> QED BY <2>1, <2>2, <2>3, <2>4 DEF GeocodingTypeOK, SeekRecord
<1>2. \A p \in Seekers : seek[p].at = "idle"
  BY RestIsSeek DEF GeocodingInit
<1> QED BY <1>1, <1>2 DEF GeocodingInit, GeocodingIInv, OneSlotASecond, SlotOutlivesItsHolder,
        SilenceIsBackedOff, WentAheadBefore, PagesWaitNoLonger, CacheIsTrue, KnownIsFound,
        HasSlot, Seekers

\* What a step does to one process, with nothing else in Redis than the slot
\* and its history touched.
LEMMA OneSeeks ==
    ASSUME GeocodingIInv, NEW p \in Seekers, NEW row \in SeekRecord,
           seek' = [seek EXCEPT ![p] = row],
           UNCHANGED <<cached, backOff, silence, cut>>,
           slot' \in 0..MinInterval, age' \in [Seekers -> 0..MinInterval],
           early' \in {early, early \ {p}}, knew' \in {knew, knew \ {p}, knew \cup {p}},
           \A q \in Seekers \ {p} :
               age'[q] = age[q] /\ (HasSlot(q) => MinInterval <= age[q] + slot'),
           row.at \in {"holding", "asking"} =>
               /\ MinInterval <= age'[p] + slot'
               /\ \A q \in Seekers \ {p} : HasSlot(q) =>
                     age'[p] = MinInterval \/ age[q] = MinInterval,
           row.at \in {"clear", "holding", "asking"} /\ silence > 0 => p \in early' \/ cut,
           row.at = "asleep" /\ p \in Pages => row.sleep <= row.left,
           p \in knew' =>
               /\ row.at \notin {"waiting", "clear", "asleep", "asking"}
               /\ row.at = "holding" => cached[row.text] # "missing"
    PROVE  GeocodingIInv'
<1>1. /\ seek \in [Seekers -> SeekRecord]
      /\ age \in [Seekers -> 0..MinInterval] /\ early \subseteq Seekers /\ knew \subseteq Seekers
  BY DEF GeocodingIInv, GeocodingTypeOK, SeekRecord
<1>2. seek'[p] = row /\ \A q \in Seekers \ {p} : seek'[q] = seek[q]
  BY <1>1
<1>3. seek' \in [Seekers -> SeekRecord]
  BY <1>1
<1>4. early' \subseteq Seekers /\ knew' \subseteq Seekers
  BY <1>1
<1>5. GeocodingTypeOK'
  <2>1. /\ cached' \in [Texts -> Answers] /\ backOff' \in 0..LongestBackOff
        /\ silence' \in 0..LongestBackOff /\ cut' \in BOOLEAN
    BY DEF GeocodingIInv, GeocodingTypeOK
  <2> QED BY <1>3, <1>4, <2>1 DEF GeocodingTypeOK, SeekRecord
<1>6. OneSlotASecond'
  <2> SUFFICES ASSUME NEW a \in Seekers, NEW b \in Seekers, a # b, HasSlot(a)', HasSlot(b)'
               PROVE  age'[a] = MinInterval \/ age'[b] = MinInterval
    BY DEF OneSlotASecond, HasSlot
  <2>1. CASE a # p /\ b # p
    <3>1. HasSlot(a) /\ HasSlot(b)
      BY <1>2, <2>1 DEF HasSlot
    <3> QED BY <2>1, <3>1 DEF GeocodingIInv, OneSlotASecond
  <2>2. CASE a = p
    BY <1>2, <2>2 DEF HasSlot
  <2>3. CASE b = p
    BY <1>2, <2>3 DEF HasSlot
  <2> QED BY <2>1, <2>2, <2>3
<1>7. SlotOutlivesItsHolder'
  BY <1>2 DEF SlotOutlivesItsHolder, HasSlot
<1>8. WentAheadBefore'
  BY <1>2 DEF GeocodingIInv, WentAheadBefore
<1>9. KnownIsFound'
  BY <1>2 DEF GeocodingIInv, KnownIsFound
<1>10. PagesWaitNoLonger'
  BY <1>2 DEF GeocodingIInv, PagesWaitNoLonger, Seekers
<1>11. SilenceIsBackedOff' /\ CacheIsTrue'
  BY DEF GeocodingIInv, SilenceIsBackedOff, CacheIsTrue
<1> QED BY <1>5, <1>6, <1>7, <1>8, <1>9, <1>10, <1>11 DEF GeocodingIInv

LEMMA WaitingKeepsGeocoding ==
    ASSUME GeocodingIInv, NEW p \in Seekers,
           (\E t \in Texts : Search(p, t)) \/ ReadBackOff(p) \/ SlotTaken(p) \/ Wake(p)
               \/ RedisFails(p)
    PROVE  GeocodingIInv'
<1>1. /\ seek \in [Seekers -> SeekRecord] /\ seek[p] \in SeekRecord
      /\ slot \in 0..MinInterval /\ backOff \in 0..LongestBackOff /\ silence \in 0..LongestBackOff
      /\ age \in [Seekers -> 0..MinInterval] /\ early \subseteq Seekers /\ knew \subseteq Seekers
  BY DEF GeocodingIInv, GeocodingTypeOK, SeekRecord
<1>2. \A q \in Seekers \ {p} : HasSlot(q) => MinInterval <= age[q] + slot
  BY DEF GeocodingIInv, SlotOutlivesItsHolder
<1>3. p \in Pages /\ seek[p].at = "asleep" => seek[p].sleep <= seek[p].left
  BY DEF GeocodingIInv, PagesWaitNoLonger
<1>4. p \in knew => seek[p].at \notin {"waiting", "clear", "asleep"}
  BY DEF GeocodingIInv, KnownIsFound
<1>5. CASE \E t \in Texts : Search(p, t)
  <2>1. PICK t \in Texts : Search(p, t)
    BY <1>5
  <2>2. PICK row \in SeekRecord : row.at = "waiting" /\ seek' = [seek EXCEPT ![p] = row]
    <3> DEFINE row == [at |-> "waiting", text |-> t, sleep |-> 0,
                       left |-> IF p \in Pages THEN WebWait ELSE 0]
    <3>1. row \in SeekRecord
      BY SeekNumbers DEF SeekRecord
    <3> QED BY <2>1, <3>1 DEF Search
  <2>3. /\ UNCHANGED <<cached, slot, backOff, age, silence, cut>>
        /\ early' = early \ {p} /\ knew' = knew \ {p}
    BY <2>1 DEF Search
  <2> QED BY <1>1, <1>2, <2>2, <2>3, OneSeeks
<1>6. ASSUME NEW pause \in 1..Max({LongestBackOff, MinInterval}), SleepOrGiveUp(p, pause)
      PROVE  \E row \in SeekRecord :
                /\ seek' = [seek EXCEPT ![p] = row]
                /\ row.at \in {"asleep", "idle"}
                /\ row.at = "asleep" /\ p \in Pages => row.sleep <= row.left
  <2>1. pause \in 0..Max({LongestBackOff, MinInterval})
    BY SeekNumbers
  <2>2. CASE MayWait(p, pause)
    <3> DEFINE row == [seek[p] EXCEPT !.at = "asleep", !.sleep = pause]
    <3>1. row \in SeekRecord /\ row.at = "asleep" /\ row.sleep = pause /\ row.left = seek[p].left
      BY <1>1, <2>1 DEF SeekRecord
    <3>2. seek' = [seek EXCEPT ![p] = row]
      BY <1>6, <2>2 DEF SleepOrGiveUp
    <3>3. p \in Pages => pause <= seek[p].left
      BY <2>2, GeocodingAssumption DEF MayWait
    <3> HIDE DEF row
    <3> QED BY <3>1, <3>2, <3>3
  <2>3. CASE ~MayWait(p, pause)
    <3>1. seek' = [seek EXCEPT ![p] = AtRest]
      BY <1>6, <2>3 DEF SleepOrGiveUp
    <3> QED BY <3>1, RestIsSeek
  <2> QED BY <2>2, <2>3
<1>7. CASE ReadBackOff(p)
  <2>1. /\ seek[p].at = "waiting" /\ UNCHANGED <<cached, slot, backOff, age, silence, cut, knew>>
        /\ early' = early \ {p}
    BY <1>7 DEF ReadBackOff
  <2>2. CASE backOff > 0
    <3>1. backOff \in 1..Max({LongestBackOff, MinInterval}) /\ SleepOrGiveUp(p, backOff)
      BY <1>1, <1>7, <2>2, SeekNumbers DEF ReadBackOff
    <3> QED BY <1>1, <1>2, <1>4, <1>6, <2>1, <3>1, OneSeeks
  <2>3. CASE ~(backOff > 0)
    <3>1. PICK row \in SeekRecord : row.at = "clear" /\ seek' = [seek EXCEPT ![p] = row]
      <4>1. [seek[p] EXCEPT !.at = "clear"] \in SeekRecord /\ [seek[p] EXCEPT !.at = "clear"].at = "clear"
        BY <1>1 DEF SeekRecord
      <4>2. seek' = [seek EXCEPT ![p] = [seek[p] EXCEPT !.at = "clear"]]
        BY <1>7, <2>3 DEF ReadBackOff
      <4> QED BY <4>1, <4>2
    <3>2. silence > 0 => cut
      BY <1>1, <2>3, GeocodingAssumption DEF GeocodingIInv, SilenceIsBackedOff
    <3> QED BY <1>1, <1>2, <1>4, <2>1, <3>1, <3>2, OneSeeks
  <2> QED BY <2>2, <2>3
<1>8. CASE SlotTaken(p)
  <2>1. /\ seek[p].at = "clear" /\ slot > 0 /\ SleepOrGiveUp(p, slot)
        /\ UNCHANGED <<cached, slot, backOff, age, early, silence, cut, knew>>
    BY <1>8 DEF SlotTaken, historyVars
  <2>2. slot \in 1..Max({LongestBackOff, MinInterval})
    BY <1>1, <2>1, SeekNumbers
  <2> QED BY <1>1, <1>2, <1>4, <1>6, <2>1, <2>2, OneSeeks
<1>9. CASE Wake(p)
  <2>1. /\ seek[p].at = "asleep"
        /\ UNCHANGED <<cached, slot, backOff, age, early, silence, cut, knew>>
    BY <1>9 DEF Wake, historyVars
  <2>2. PICK row \in SeekRecord : row.at = "waiting" /\ seek' = [seek EXCEPT ![p] = row]
    <3>1. [seek[p] EXCEPT !.at = "waiting"] \in SeekRecord
          /\ [seek[p] EXCEPT !.at = "waiting"].at = "waiting"
      BY <1>1 DEF SeekRecord
    <3>2. seek' = [seek EXCEPT ![p] = [seek[p] EXCEPT !.at = "waiting"]]
      BY <1>9 DEF Wake
    <3> QED BY <3>1, <3>2
  <2> QED BY <1>1, <1>2, <1>4, <2>1, <2>2, OneSeeks
<1>10. CASE RedisFails(p)
  <2>1. /\ seek' = [seek EXCEPT ![p] = AtRest] /\ seek[p].at \in {"waiting", "clear"}
        /\ UNCHANGED <<cached, slot, backOff, age, early, silence, cut, knew>>
    BY <1>10 DEF RedisFails, historyVars
  <2> QED BY <1>1, <1>2, <1>4, <2>1, RestIsSeek, OneSeeks
<1> QED BY <1>5, <1>7, <1>8, <1>9, <1>10

LEMMA CallingKeepsGeocoding ==
    ASSUME GeocodingIInv, NEW p \in Seekers, TakeSlot(p) \/ LookAgain(p) \/ Failed(p)
    PROVE  GeocodingIInv'
<1>1. /\ seek \in [Seekers -> SeekRecord] /\ seek[p] \in SeekRecord
      /\ slot \in 0..MinInterval /\ backOff \in 0..LongestBackOff /\ silence \in 0..LongestBackOff
      /\ age \in [Seekers -> 0..MinInterval] /\ early \subseteq Seekers /\ knew \subseteq Seekers
  BY DEF GeocodingIInv, GeocodingTypeOK, SeekRecord
<1>2. \A q \in Seekers : HasSlot(q) => MinInterval <= age[q] + slot
  BY DEF GeocodingIInv, SlotOutlivesItsHolder
<1>3. seek[p].at \in {"clear", "holding", "asking"} /\ silence > 0 => p \in early \/ cut
  BY DEF GeocodingIInv, WentAheadBefore
<1>4. p \in knew =>
        /\ seek[p].at \notin {"waiting", "clear", "asleep"}
        /\ seek[p].at = "holding" => cached[seek[p].text] # "missing"
  BY DEF GeocodingIInv, KnownIsFound
<1>5. CASE TakeSlot(p)
  <2>1. /\ seek[p].at = "clear" /\ slot = 0 /\ slot' = MinInterval
        /\ age' = [age EXCEPT ![p] = 0]
        /\ knew' = IF cached[seek[p].text] # "missing" THEN knew \cup {p} ELSE knew
        /\ UNCHANGED <<cached, backOff, early, silence, cut>>
    BY <1>5 DEF TakeSlot, Hold
  <2>2. PICK row \in SeekRecord :
          row.at = "holding" /\ row.text = seek[p].text /\ seek' = [seek EXCEPT ![p] = row]
    <3> DEFINE row == [seek[p] EXCEPT !.at = "holding"]
    <3>1. row \in SeekRecord /\ row.at = "holding" /\ row.text = seek[p].text
      BY <1>1 DEF SeekRecord
    <3>2. seek' = [seek EXCEPT ![p] = row]
      BY <1>5 DEF TakeSlot, Hold
    <3> HIDE DEF row
    <3> QED BY <3>1, <3>2
  <2>3. \A q \in Seekers \ {p} : age'[q] = age[q]
    BY <1>1, <2>1
  <2>4. age' \in [Seekers -> 0..MinInterval] /\ age'[p] = 0 /\ slot' \in 0..MinInterval
    BY <1>1, <2>1, SeekNumbers
  <2>5. \A q \in Seekers \ {p} : HasSlot(q) => age[q] = MinInterval
    BY <1>1, <1>2, <2>1, SeekNumbers
  <2>6. \A q \in Seekers \ {p} : HasSlot(q) => MinInterval <= age[q] + slot'
    BY <1>1, <2>1, <2>5, SeekNumbers
  <2>7. p \in knew' => cached[row.text] # "missing"
    BY <1>4, <2>1, <2>2
  <2>8. knew' \in {knew, knew \cup {p}} /\ MinInterval <= age'[p] + slot'
    BY <2>1, <2>4, SeekNumbers
  <2> QED BY <1>3, <2>1, <2>2, <2>3, <2>4, <2>5, <2>6, <2>7, <2>8, OneSeeks
<1>6. CASE LookAgain(p)
  <2>1. /\ seek[p].at = "holding"
        /\ UNCHANGED <<cached, slot, backOff, age, early, silence, cut, knew>>
    BY <1>6 DEF LookAgain, historyVars
  <2>2. CASE cached[seek[p].text] = "missing"
    <3>1. PICK row \in SeekRecord : row.at = "asking" /\ seek' = [seek EXCEPT ![p] = row]
      <4>1. [seek[p] EXCEPT !.at = "asking"] \in SeekRecord
            /\ [seek[p] EXCEPT !.at = "asking"].at = "asking"
        BY <1>1 DEF SeekRecord
      <4>2. seek' = [seek EXCEPT ![p] = [seek[p] EXCEPT !.at = "asking"]]
        BY <1>6, <2>2 DEF LookAgain
      <4> QED BY <4>1, <4>2
    <3>2. \A q \in Seekers \ {p} : HasSlot(q) => age[p] = MinInterval \/ age[q] = MinInterval
      BY <2>1 DEF GeocodingIInv, OneSlotASecond, HasSlot
    <3>3. MinInterval <= age[p] + slot
      BY <1>2, <2>1 DEF HasSlot
    <3> QED BY <1>1, <1>2, <1>3, <1>4, <2>1, <2>2, <3>1, <3>2, <3>3, OneSeeks
  <2>3. CASE cached[seek[p].text] # "missing"
    <3>1. seek' = [seek EXCEPT ![p] = AtRest]
      BY <1>6, <2>3 DEF LookAgain
    <3> QED BY <1>1, <1>2, <2>1, <3>1, RestIsSeek, OneSeeks
  <2> QED BY <2>2, <2>3
<1>7. CASE Failed(p)
  <2>1. /\ seek' = [seek EXCEPT ![p] = AtRest]
        /\ UNCHANGED <<cached, slot, backOff, age, early, silence, cut, knew>>
    BY <1>7 DEF Failed, historyVars
  <2> QED BY <1>1, <1>2, <2>1, RestIsSeek, OneSeeks
<1> QED BY <1>5, <1>6, <1>7

LEMMA AnswerKeepsGeocoding ==
    ASSUME GeocodingIInv, NEW p \in Seekers, Answered(p)
    PROVE  GeocodingIInv'
<1>1. /\ seek \in [Seekers -> SeekRecord] /\ seek[p].text \in Texts
      /\ cached \in [Texts -> Answers] /\ seek' = [seek EXCEPT ![p] = AtRest]
      /\ cached' = [cached EXCEPT ![seek[p].text] = Answer(seek[p].text)]
      /\ UNCHANGED <<slot, backOff, age, early, silence, cut, knew>>
  BY DEF GeocodingIInv, GeocodingTypeOK, SeekRecord, Answered, historyVars
<1>2. \A t \in Texts : Answer(t) \in Answers \ {"missing"}
  BY DEF Answer, Answers
<1>3. \A t \in Texts : cached'[t] = Answer(t) \/ cached'[t] = cached[t]
  BY <1>1
<1>4. /\ seek'[p].at = "idle" /\ \A q \in Seekers : q # p => seek'[q] = seek[q]
      /\ seek' \in [Seekers -> SeekRecord]
  BY <1>1, RestIsSeek
<1>5. GeocodingTypeOK'
  <2>1. cached' \in [Texts -> Answers]
    BY <1>1, <1>2
  <2>2. /\ slot' \in 0..MinInterval /\ backOff' \in 0..LongestBackOff
        /\ silence' \in 0..LongestBackOff /\ age' \in [Seekers -> 0..MinInterval]
        /\ early' \subseteq Seekers /\ knew' \subseteq Seekers
    BY <1>1 DEF GeocodingIInv, GeocodingTypeOK
  <2>3. cut' \in BOOLEAN
    BY <1>1 DEF GeocodingIInv, GeocodingTypeOK
  <2> QED BY <1>4, <2>1, <2>2, <2>3 DEF GeocodingTypeOK, SeekRecord
<1>6. OneSlotASecond' /\ SlotOutlivesItsHolder'
  BY <1>1, <1>4 DEF GeocodingIInv, OneSlotASecond, SlotOutlivesItsHolder, HasSlot
<1>7. SilenceIsBackedOff' /\ WentAheadBefore'
  BY <1>1, <1>4 DEF GeocodingIInv, SilenceIsBackedOff, WentAheadBefore
<1>8. PagesWaitNoLonger'
  BY <1>4 DEF GeocodingIInv, PagesWaitNoLonger, Seekers
<1>9. CacheIsTrue'
  BY <1>3 DEF GeocodingIInv, CacheIsTrue
<1>10. KnownIsFound'
  <2> SUFFICES ASSUME NEW q \in Seekers, q \in knew'
               PROVE  /\ seek'[q].at \notin {"waiting", "clear", "asleep", "asking"}
                      /\ seek'[q].at = "holding" => cached'[seek'[q].text] # "missing"
    BY DEF KnownIsFound
  <2>1. CASE q = p
    BY <1>4, <2>1
  <2>2. CASE q # p
    <3>1. seek'[q] = seek[q] /\ seek[q].text \in Texts
      BY <1>1, <1>4, <2>2 DEF SeekRecord
    <3>2. /\ seek[q].at \notin {"waiting", "clear", "asleep", "asking"}
          /\ seek[q].at = "holding" => cached[seek[q].text] # "missing"
      BY <1>1 DEF GeocodingIInv, KnownIsFound
    <3> QED BY <1>2, <1>3, <3>1, <3>2
  <2> QED BY <2>1, <2>2
<1> QED BY <1>5, <1>6, <1>7, <1>8, <1>9, <1>10 DEF GeocodingIInv

LEMMA BackOffKeepsGeocoding ==
    ASSUME GeocodingIInv, NEW p \in Seekers, NEW ticks \in BackOffs, ToldToSlowDown(p, ticks)
    PROVE  GeocodingIInv'
<1>1. /\ seek \in [Seekers -> SeekRecord] /\ silence \in 0..LongestBackOff
      /\ ticks \in 1..LongestBackOff /\ LongestBackOff \in Nat
  BY GeocodingAssumption DEF GeocodingIInv, GeocodingTypeOK, SeekRecord
<1>2. /\ backOff' = ticks /\ seek' = [seek EXCEPT ![p] = AtRest]
      /\ early' = {q \in Seekers : seek[q].at \in {"clear", "holding", "asking"}}
      /\ silence' = Max({silence, ticks}) /\ cut' = (ticks < silence)
      /\ UNCHANGED <<cached, slot, age, knew>>
  BY DEF ToldToSlowDown
<1>3. silence' = IF silence >= ticks THEN silence ELSE ticks
  <2>1. silence \in Nat /\ ticks \in Nat
    BY <1>1
  <2> QED BY <1>2, <2>1, LargerOfTwo
<1>4. /\ seek'[p].at = "idle" /\ \A q \in Seekers : q # p => seek'[q] = seek[q]
      /\ seek' \in [Seekers -> SeekRecord]
  BY <1>1, <1>2, RestIsSeek
<1>5. GeocodingTypeOK'
  <2>1. backOff' \in 0..LongestBackOff /\ silence' \in 0..LongestBackOff
    BY <1>1, <1>2, <1>3
  <2>2. /\ cached' \in [Texts -> Answers] /\ slot' \in 0..MinInterval
        /\ age' \in [Seekers -> 0..MinInterval]
        /\ early' \subseteq Seekers /\ knew' \subseteq Seekers
    BY <1>2 DEF GeocodingIInv, GeocodingTypeOK
  <2>3. cut' \in BOOLEAN
    BY <1>2
  <2> QED BY <1>4, <2>1, <2>2, <2>3 DEF GeocodingTypeOK, SeekRecord
<1>6. OneSlotASecond' /\ SlotOutlivesItsHolder'
  BY <1>2, <1>4 DEF GeocodingIInv, OneSlotASecond, SlotOutlivesItsHolder, HasSlot
<1>7. SilenceIsBackedOff'
  <2>1. CASE ticks < silence
    BY <1>2, <2>1 DEF SilenceIsBackedOff
  <2>2. CASE ~(ticks < silence)
    <3>1. silence' <= backOff'
      BY <1>1, <1>2, <1>3, <2>2
    <3> QED BY <3>1 DEF SilenceIsBackedOff
  <2> QED BY <2>1, <2>2
<1>8. WentAheadBefore'
  BY <1>2, <1>4 DEF WentAheadBefore
<1>9. PagesWaitNoLonger'
  BY <1>4 DEF GeocodingIInv, PagesWaitNoLonger, Seekers
<1>10. CacheIsTrue' /\ KnownIsFound'
  BY <1>2, <1>4 DEF GeocodingIInv, CacheIsTrue, KnownIsFound
<1> QED BY <1>5, <1>6, <1>7, <1>8, <1>9, <1>10 DEF GeocodingIInv

LEMMA ForgettingKeepsGeocoding ==
    ASSUME GeocodingIInv, NEW t \in Texts, Forget(t)
    PROVE  GeocodingIInv'
<1>1. /\ cached' = [cached EXCEPT ![t] = "missing"] /\ cached \in [Texts -> Answers]
      /\ knew' = {p \in knew : seek[p].text # t} /\ knew \subseteq Seekers
      /\ UNCHANGED <<slot, backOff, seek, age, early, silence, cut>>
      /\ \A p \in Seekers : seek[p].text \in Texts
  BY DEF Forget, GeocodingIInv, GeocodingTypeOK
<1>2. cached' \in [Texts -> Answers] /\ knew' \subseteq Seekers
  BY <1>1 DEF Answers
<1>3. GeocodingTypeOK'
  BY <1>1, <1>2 DEF GeocodingIInv, GeocodingTypeOK
<1>4. OneSlotASecond' /\ SlotOutlivesItsHolder' /\ SilenceIsBackedOff' /\ WentAheadBefore'
      /\ PagesWaitNoLonger'
  BY <1>1 DEF GeocodingIInv, OneSlotASecond, SlotOutlivesItsHolder, HasSlot,
              SilenceIsBackedOff, WentAheadBefore, PagesWaitNoLonger
<1>5. CacheIsTrue' /\ KnownIsFound'
  BY <1>1 DEF GeocodingIInv, CacheIsTrue, KnownIsFound
<1> QED BY <1>3, <1>4, <1>5 DEF GeocodingIInv

LEMMA TickKeepsGeocoding ==
    ASSUME GeocodingIInv, Tick
    PROVE  GeocodingIInv'
<1>1. /\ seek \in [Seekers -> SeekRecord] /\ age \in [Seekers -> 0..MinInterval]
      /\ slot \in 0..MinInterval /\ backOff \in 0..LongestBackOff /\ silence \in 0..LongestBackOff
      /\ cut \in BOOLEAN
  BY DEF GeocodingIInv, GeocodingTypeOK, SeekRecord
<1>2. /\ slot' = Less(slot) /\ backOff' = Less(backOff) /\ silence' = Less(silence)
      /\ cut' = (cut /\ silence > 1)
      /\ seek' = [p \in Seekers |-> [seek[p] EXCEPT !.sleep = Less(@), !.left = Less(@)]]
      /\ age' = [p \in Seekers |-> IF age[p] = MinInterval THEN MinInterval ELSE age[p] + 1]
      /\ UNCHANGED <<cached, early, knew>>
  BY DEF Tick
<1>3. \A p \in Seekers :
        /\ seek'[p] \in SeekRecord
        /\ seek'[p].at = seek[p].at /\ seek'[p].text = seek[p].text
        /\ seek'[p].sleep = Less(seek[p].sleep) /\ seek'[p].left = Less(seek[p].left)
  <2> SUFFICES ASSUME NEW p \in Seekers
               PROVE  /\ seek'[p] \in SeekRecord
                      /\ seek'[p].at = seek[p].at /\ seek'[p].text = seek[p].text
                      /\ seek'[p].sleep = Less(seek[p].sleep)
                      /\ seek'[p].left = Less(seek[p].left)
    OBVIOUS
  <2>1. seek[p] \in SeekRecord
    BY <1>1
  <2>2. PICK s \in SeekRecord : s = seek[p]
    BY <2>1
  <2>3. /\ Less(s.sleep) \in 0..Max({LongestBackOff, MinInterval})
        /\ Less(s.left) \in 0..WebWait
    BY SeekNumbers DEF Less, SeekRecord
  <2>4. seek'[p] = [s EXCEPT !.sleep = Less(@), !.left = Less(@)]
    BY <1>2, <2>2
  <2>5. /\ seek'[p].at = s.at /\ seek'[p].text = s.text
        /\ seek'[p].sleep = Less(s.sleep) /\ seek'[p].left = Less(s.left)
        /\ seek'[p] \in SeekRecord
    BY <2>3, <2>4 DEF SeekRecord
  <2> QED BY <2>2, <2>5
<1>4. \A p \in Seekers :
        age'[p] = IF age[p] = MinInterval THEN MinInterval ELSE age[p] + 1
  BY <1>2
<1>4a. /\ slot' = IF slot = 0 THEN 0 ELSE slot - 1
       /\ backOff' = IF backOff = 0 THEN 0 ELSE backOff - 1
       /\ silence' = IF silence = 0 THEN 0 ELSE silence - 1
  BY <1>2 DEF Less
<1>5. GeocodingTypeOK'
  <2>1. seek' \in [Seekers -> SeekRecord]
    BY <1>2, <1>3
  <2>2. age' \in [Seekers -> 0..MinInterval]
    <3>1. \A p \in Seekers : age'[p] \in 0..MinInterval
      BY <1>1, <1>4, SeekNumbers
    <3>2. age' = [p \in Seekers |-> age'[p]]
      BY <1>2
    <3> QED BY <3>1, <3>2
  <2>3. /\ slot' \in 0..MinInterval /\ backOff' \in 0..LongestBackOff
        /\ silence' \in 0..LongestBackOff
    BY <1>1, <1>4a, SeekNumbers
  <2>4. cut' \in BOOLEAN
    BY <1>2
  <2>5. /\ cached' \in [Texts -> Answers] /\ early' \subseteq Seekers /\ knew' \subseteq Seekers
    BY <1>2 DEF GeocodingIInv, GeocodingTypeOK
  <2> QED BY <2>1, <2>2, <2>3, <2>4, <2>5 DEF GeocodingTypeOK, SeekRecord
<1>6. OneSlotASecond'
  BY <1>3, <1>4 DEF GeocodingIInv, OneSlotASecond, HasSlot
<1>7. SlotOutlivesItsHolder'
  <2> SUFFICES ASSUME NEW p \in Seekers, HasSlot(p)
               PROVE  MinInterval <= age'[p] + slot'
    BY <1>3 DEF SlotOutlivesItsHolder, HasSlot
  <2>1. MinInterval <= age[p] + slot
    BY DEF GeocodingIInv, SlotOutlivesItsHolder
  <2>2. age[p] \in 0..MinInterval
    BY <1>1
  <2> QED BY <1>1, <1>4a, <1>4, <2>1, <2>2, SeekNumbers
<1>8. SilenceIsBackedOff'
  <2>1. CASE silence > 1 /\ cut
    BY <1>2, <2>1 DEF SilenceIsBackedOff
  <2>2. CASE ~(silence > 1)
    <3>1. silence' <= backOff'
      BY <1>1, <1>4a, <2>2, SeekNumbers
    <3> QED BY <3>1 DEF SilenceIsBackedOff
  <2>3. CASE ~cut
    <3>1. silence <= backOff
      BY <2>3 DEF GeocodingIInv, SilenceIsBackedOff
    <3>2. silence' <= backOff'
      BY <1>1, <1>4a, <3>1, SeekNumbers
    <3> QED BY <3>2 DEF SilenceIsBackedOff
  <2> QED BY <2>1, <2>2, <2>3
<1>9. WentAheadBefore'
  <2> SUFFICES ASSUME NEW p \in Seekers, seek'[p].at \in {"clear", "holding", "asking"}, silence' > 0
               PROVE  p \in early' \/ cut'
    BY DEF WentAheadBefore
  <2>1. silence > 1
    BY <1>1, <1>4a, SeekNumbers
  <2>2. silence > 0
    BY <1>1, <2>1, SeekNumbers
  <2>3. p \in early \/ cut
    BY <1>3, <2>2 DEF GeocodingIInv, WentAheadBefore
  <2> QED BY <1>2, <2>1, <2>3
<1>10. PagesWaitNoLonger'
  <2> SUFFICES ASSUME NEW p \in Pages, seek[p].at = "asleep"
               PROVE  seek'[p].sleep <= seek'[p].left
    BY <1>3 DEF PagesWaitNoLonger, Seekers
  <2>1. seek[p].sleep <= seek[p].left /\ p \in Seekers
    BY DEF GeocodingIInv, PagesWaitNoLonger, Seekers
  <2>2. seek[p].sleep \in Nat /\ seek[p].left \in Nat
    BY <1>1, <2>1, SeekNumbers DEF SeekRecord
  <2> QED BY <1>3, <2>1, <2>2 DEF Less
<1>11. CacheIsTrue' /\ KnownIsFound'
  BY <1>2, <1>3 DEF GeocodingIInv, CacheIsTrue, KnownIsFound
<1> QED BY <1>5, <1>6, <1>7, <1>8, <1>9, <1>10, <1>11 DEF GeocodingIInv

LEMMA NextGeocoding == GeocodingIInv /\ [GeocodingNext]_geocodingVars => GeocodingIInv'
<1> SUFFICES ASSUME GeocodingIInv, [GeocodingNext]_geocodingVars
             PROVE  GeocodingIInv'
  OBVIOUS
<1>1. CASE UNCHANGED geocodingVars
  BY <1>1 DEF geocodingVars, GeocodingIInv, GeocodingTypeOK, OneSlotASecond,
        SlotOutlivesItsHolder, HasSlot, SilenceIsBackedOff, WentAheadBefore, PagesWaitNoLonger,
        CacheIsTrue, KnownIsFound
<1>2. CASE GeocodingNext
  BY <1>2, WaitingKeepsGeocoding, CallingKeepsGeocoding, AnswerKeepsGeocoding,
     BackOffKeepsGeocoding, ForgettingKeepsGeocoding, TickKeepsGeocoding DEF GeocodingNext
<1> QED BY <1>1, <1>2

\* For any processes, texts, waits and back-offs: never two calls on slots of
\* one second, none in a silence Nominatim asked for but by who had looked
\* before or after a shorter back-off, no page longer than it may, and only
\* true answers cached (GeocodingInv; geocoding.py:4, 18, 20).
THEOREM NominatimIsSpared == GeocodingSpec => []GeocodingInv
<1>1. GeocodingIInv => GeocodingInv
  BY DEF GeocodingIInv, GeocodingInv, WentAheadBefore, BackOffIsKept, HasSlot, CacheIsTrue,
         KnownIsFound, CacheIsTrueAndUsed
<1> QED BY <1>1, InitGeocoding, NextGeocoding, PTL DEF GeocodingSpec

-----------------------------------------------------------------------------
(* Uploads: the inductive invariant *)

\* What a request that saves or deletes the row has seen of it is what the
\* row still says, unless it was overtaken.
SeesTheRow ==
    \A u \in Uploaders : ~uploading[u].overtaken =>
        /\ uploading[u].at = "loaded" => image = uploading[u].loaded
        /\ uploading[u].at \in {"remembered", "written"} => uploading[u].old = StoredName(u)

\* A request brings its own new name, or deletes an old one.
Brings(u, name) ==
    uploading[u].at = "written" /\ ~uploading[u].kept /\ uploading[u].new = name

Disposes(u, name) ==
    uploading[u].at \in {"saved", "unused"} /\ uploading[u].old = name

Owns(u, name) == Brings(u, name) \/ Disposes(u, name)

OnlyUploadsGo ==
    \A u \in Uploaders :
        /\ uploading[u].at \in {"saved", "unused"} => uploading[u].old \in Names
        /\ uploading[u].at \in {"loaded", "remembered"} => ~uploading[u].kept

\* Every file is the row's, some request's, or one nobody will look at again.
EveryFileIsAccountedFor ==
    \A name \in files \cap Names :
        name = image \/ name \in abandoned \/ \E u \in Uploaders : Owns(u, name)

\* A file on its way to the row is there, unless its name was given out while
\* it was being deleted.
BroughtIsThere ==
    \A u \in Uploaders, name \in Names : Brings(u, name) => name \in files \cup reused

\* What was found unused did not come into use again but in the excepted ways.
StaysUnused ==
    \A v \in Uploaders : uploading[v].at = "unused" =>
        /\ image = uploading[v].old => restored \/ uploading[v].old \in reused
        /\ \A u \in Uploaders : Brings(u, uploading[v].old) => uploading[v].old \in reused

UploadsIInv ==
    /\ UploadsTypeOK
    /\ SeesTheRow /\ OnlyUploadsGo /\ EveryFileIsAccountedFor
    /\ BroughtIsThere /\ StaysUnused /\ FilesAreThere

UploadRecord ==
    [at : {"idle", "loaded", "remembered", "written", "saved", "unused"},
     loaded : RowNames, new : RowNames, old : RowNames, kept : BOOLEAN, overtaken : BOOLEAN]

LEMMA NamesApart ==
    /\ Library \notin Names /\ NoName \notin Names /\ NoImageRow \notin Names
    /\ NoImageRow \notin RowNames
<1>1. NoImageRow # Library /\ NoImageRow # NoName
  <2>1. Cardinality({Library, NoName, NoImageRow}) = 3
    BY UploadsAssumption
  <2>2. ASSUME NoImageRow \in {Library, NoName} PROVE FALSE
    <3>1. {Library, NoName, NoImageRow} = {Library, NoName}
      BY <2>2
    <3>2. Cardinality({Library, NoName}) <= 2
      <4>1. Cardinality({Library}) = 1 /\ IsFiniteSet({Library})
        BY FS_Singleton
      <4>2. {Library, NoName} = {Library} \cup {NoName}
        OBVIOUS
      <4> QED BY <4>1, <4>2, FS_AddElement
    <3> QED BY <2>1, <3>1, <3>2
  <2> QED BY <2>2
<1> QED BY <1>1, UploadsAssumption DEF RowNames

LEMMA AwayIsIdle ==
    /\ Away \in UploadRecord /\ Away.at = "idle"
    /\ \A name \in RowNames :
         /\ [Away EXCEPT !.at = "loaded", !.loaded = name] \in UploadRecord
         /\ [Away EXCEPT !.at = "loaded", !.loaded = name].at = "loaded"
         /\ [Away EXCEPT !.at = "loaded", !.loaded = name].loaded = name
         /\ [Away EXCEPT !.at = "loaded", !.loaded = name].kept = FALSE
BY DEF Away, UploadRecord, RowNames

LEMMA InitUploads == UploadsInit => UploadsIInv
<1> SUFFICES ASSUME UploadsInit PROVE UploadsIInv
  OBVIOUS
<1>1. uploading \in [Uploaders -> UploadRecord] /\ \A u \in Uploaders : uploading[u].at = "idle"
  BY AwayIsIdle DEF UploadsInit
<1>2. UploadsTypeOK
  <2>1. restored \in BOOLEAN
    BY DEF UploadsInit
  <2> QED BY <1>1, <2>1 DEF UploadsInit, UploadsTypeOK, UploadRecord, RowNames
<1>3. EveryFileIsAccountedFor /\ FilesAreThere
  BY UploadsAssumption DEF UploadsInit, EveryFileIsAccountedFor, FilesAreThere
<1>4. SeesTheRow /\ OnlyUploadsGo /\ BroughtIsThere /\ StaysUnused
  BY <1>1 DEF SeesTheRow, OnlyUploadsGo, BroughtIsThere, StaysUnused, Brings
<1> QED BY <1>2, <1>3, <1>4 DEF UploadsIInv

\* A step of one request that leaves the row alone.
LEMMA OneUploads ==
    ASSUME UploadsIInv, NEW u \in Uploaders, NEW row \in UploadRecord,
           uploading' = [uploading EXCEPT ![u] = row],
           UNCHANGED <<image, restored>>,
           files' \subseteq Names \cup {Library}, reused' \subseteq Names, abandoned' \subseteq Names,
           Library \in files'
    PROVE  /\ UploadsTypeOK'
           /\ uploading'[u] = row /\ \A v \in Uploaders \ {u} : uploading'[v] = uploading[v]
           /\ (/\ row.at = "loaded" /\ ~row.overtaken => image = row.loaded
               /\ row.at \in {"remembered", "written"} /\ ~row.overtaken => row.old = StoredName(u))
              => SeesTheRow'
           /\ (/\ row.at \in {"saved", "unused"} => row.old \in Names
               /\ row.at \in {"loaded", "remembered"} => ~row.kept)
              => OnlyUploadsGo'
<1>1. uploading \in [Uploaders -> UploadRecord]
  BY DEF UploadsIInv, UploadsTypeOK, UploadRecord
<1>2. /\ uploading' \in [Uploaders -> UploadRecord]
      /\ uploading'[u] = row /\ \A v \in Uploaders \ {u} : uploading'[v] = uploading[v]
  BY <1>1
<1>3. UploadsTypeOK'
  <2>1. image' \in RowNames \cup {NoImageRow} /\ restored' \in BOOLEAN
    BY DEF UploadsIInv, UploadsTypeOK
  <2> QED BY <1>2, <2>1 DEF UploadsTypeOK, UploadRecord
<1>4. \A v \in Uploaders : StoredName(v)' = StoredName(v)
  BY DEF StoredName
<1> QED BY <1>2, <1>3, <1>4 DEF UploadsIInv, SeesTheRow, OnlyUploadsGo

LEMMA StartingKeepsUploads ==
    ASSUME UploadsIInv, NEW u \in Uploaders,
           LoadImageRow(u) \/ (\E new \in RowNames : Remember(u, new)) \/ RememberForUpload(u)
    PROVE  UploadsIInv'
<1>1. /\ uploading \in [Uploaders -> UploadRecord] /\ uploading[u] \in UploadRecord
      /\ files \subseteq Names \cup {Library} /\ reused \subseteq Names /\ abandoned \subseteq Names
      /\ image \in RowNames \cup {NoImageRow} /\ Library \in files
  BY DEF UploadsIInv, UploadsTypeOK, UploadRecord, FilesAreThere
<1>2. /\ UNCHANGED <<image, files, restored, reused, abandoned>>
      /\ uploading[u].at \in {"idle", "loaded"}
      /\ uploading[u].at = "loaded" => ~uploading[u].kept
  BY DEF LoadImageRow, Remember, RememberForUpload, UploadsIInv, OnlyUploadsGo
<1>3. StoredName(u) \in RowNames
  BY <1>1 DEF StoredName, RowNames
<1>4. PICK row \in UploadRecord :
        /\ uploading' = [uploading EXCEPT ![u] = row]
        /\ row.at \in {"loaded", "remembered", "written"}
        /\ row.at = "loaded" => image = row.loaded /\ ~row.kept
        /\ row.at \in {"remembered", "written"} => row.old = StoredName(u)
        /\ row.at = "remembered" => ~row.kept
        /\ row.at = "written" => row.kept \/ row.new \notin Names
  <2>1. CASE LoadImageRow(u)
    <3>1. image \in RowNames
      BY <1>1, <2>1 DEF LoadImageRow
    <3> DEFINE row == [Away EXCEPT !.at = "loaded", !.loaded = image]
    <3>2. row \in UploadRecord /\ row.at = "loaded" /\ row.loaded = image /\ row.kept = FALSE
      BY <3>1, AwayIsIdle
    <3>3. uploading' = [uploading EXCEPT ![u] = row]
      BY <2>1 DEF LoadImageRow
    <3> HIDE DEF row
    <3> QED BY <3>2, <3>3
  <2>2. CASE \E new \in RowNames : Remember(u, new)
    <3>1. PICK new \in RowNames : Remember(u, new)
      BY <2>2
    <3>2. new \in {uploading[u].loaded, NoName, Library}
      BY <3>1 DEF Remember
    <3>3. PICK s \in UploadRecord : s = uploading[u]
      BY <1>1
    <3>4. PICK kept \in BOOLEAN : kept = (new = s.loaded)
      OBVIOUS
    <3> DEFINE row == [s EXCEPT !.at = "written", !.new = new, !.old = StoredName(u),
                                !.overtaken = FALSE, !.kept = kept]
    <3>5. /\ row \in UploadRecord /\ row.at = "written" /\ row.new = new
          /\ row.old = StoredName(u) /\ row.kept = kept
      BY <1>3 DEF UploadRecord
    <3>6. uploading' = [uploading EXCEPT ![u] = row]
      BY <1>1, <3>1, <3>3, <3>4 DEF Remember
    <3>7. kept \/ new \notin Names
      BY <3>2, <3>3, <3>4, NamesApart
    <3> HIDE DEF row
    <3> QED BY <3>5, <3>6, <3>7
  <2>3. CASE RememberForUpload(u)
    <3>1. PICK s \in UploadRecord : s = uploading[u]
      BY <1>1
    <3> DEFINE row == [s EXCEPT !.at = "remembered", !.old = StoredName(u), !.overtaken = FALSE]
    <3>2. /\ row \in UploadRecord /\ row.at = "remembered" /\ row.old = StoredName(u)
          /\ row.kept = s.kept
      BY <1>3 DEF UploadRecord
    <3>3. uploading' = [uploading EXCEPT ![u] = row]
      BY <1>1, <2>3, <3>1 DEF RememberForUpload
    <3>4. ~s.kept
      BY <1>2, <2>3, <3>1 DEF RememberForUpload
    <3> HIDE DEF row
    <3> QED BY <3>2, <3>3, <3>4
  <2> QED BY <2>1, <2>2, <2>3
<1>5. /\ UploadsTypeOK' /\ SeesTheRow' /\ OnlyUploadsGo'
      /\ uploading'[u] = row /\ \A v \in Uploaders \ {u} : uploading'[v] = uploading[v]
  BY <1>1, <1>2, <1>4, OneUploads
<1>6. \A v \in Uploaders, name \in Names :
        /\ Brings(v, name)' <=> Brings(v, name)
        /\ Disposes(v, name)' <=> Disposes(v, name)
  <2>1. ASSUME NEW name \in Names PROVE ~Brings(u, name) /\ ~Brings(u, name)'
    BY <1>2, <1>4, <1>5 DEF Brings
  <2>2. ASSUME NEW name \in Names PROVE ~Disposes(u, name) /\ ~Disposes(u, name)'
    BY <1>2, <1>4, <1>5 DEF Disposes
  <2> QED BY <1>5, <2>1, <2>2 DEF Brings, Disposes
<1>7. EveryFileIsAccountedFor' /\ BroughtIsThere'
  BY <1>2, <1>6 DEF UploadsIInv, EveryFileIsAccountedFor, BroughtIsThere, Owns
<1>8. StaysUnused'
  <2> SUFFICES ASSUME NEW v \in Uploaders, uploading'[v].at = "unused"
               PROVE  /\ image' = uploading'[v].old => restored' \/ uploading'[v].old \in reused'
                      /\ \A w \in Uploaders : Brings(w, uploading[v].old)' =>
                            uploading'[v].old \in reused'
                      /\ uploading'[v].old = uploading[v].old
    BY DEF StaysUnused, Brings
  <2>1. uploading'[v] = uploading[v] /\ uploading[v].old \in Names
    BY <1>4, <1>5 DEF UploadsIInv, OnlyUploadsGo
  <2> QED BY <1>2, <1>6, <2>1 DEF UploadsIInv, StaysUnused
<1>9. FilesAreThere'
  BY <1>2 DEF UploadsIInv, FilesAreThere
<1> QED BY <1>5, <1>7, <1>8, <1>9 DEF UploadsIInv

LEMMA WritingKeepsUploads ==
    ASSUME UploadsIInv, NEW u \in Uploaders, NEW name \in Names, WriteFile(u, name)
    PROVE  UploadsIInv'
<1>1. /\ uploading \in [Uploaders -> UploadRecord] /\ uploading[u] \in UploadRecord
      /\ files \subseteq Names \cup {Library} /\ reused \subseteq Names /\ abandoned \subseteq Names
      /\ Library \in files
  BY DEF UploadsIInv, UploadsTypeOK, UploadRecord, FilesAreThere
<1>2. /\ uploading[u].at = "remembered" /\ name \notin files
      /\ files' = files \cup {name}
      /\ reused' = IF Deleting(name) THEN reused \cup {name} ELSE reused \ {name}
      /\ abandoned' = abandoned \ {name}
      /\ UNCHANGED <<image, restored>>
      /\ uploading' = [uploading EXCEPT ![u].at = "written", ![u].new = name]
  BY DEF WriteFile
<1>3. PICK row \in UploadRecord :
        /\ uploading' = [uploading EXCEPT ![u] = row]
        /\ row.at = "written" /\ row.new = name /\ ~row.kept
        /\ ~row.overtaken => row.old = StoredName(u)
  <2>1. PICK s \in UploadRecord : s = uploading[u]
    BY <1>1
  <2> DEFINE row == [s EXCEPT !.at = "written", !.new = name]
  <2>2. /\ row \in UploadRecord /\ row.at = "written" /\ row.new = name /\ row.kept = s.kept
        /\ row.old = s.old /\ row.overtaken = s.overtaken
    BY DEF UploadRecord, RowNames
  <2>3. ~s.kept /\ (~s.overtaken => s.old = StoredName(u))
    BY <1>2, <2>1 DEF UploadsIInv, SeesTheRow, OnlyUploadsGo
  <2>4. uploading' = [uploading EXCEPT ![u] = row]
    BY <1>1, <1>2, <2>1
  <2> HIDE DEF row
  <2> QED BY <2>2, <2>3, <2>4
<1>4. /\ UploadsTypeOK' /\ SeesTheRow' /\ OnlyUploadsGo'
      /\ uploading'[u] = row /\ \A v \in Uploaders \ {u} : uploading'[v] = uploading[v]
  <2>1. /\ files' \subseteq Names \cup {Library} /\ reused' \subseteq Names
        /\ abandoned' \subseteq Names /\ Library \in files'
    BY <1>1, <1>2
  <2> QED BY <1>2, <1>3, <2>1, OneUploads
<1>5. /\ \A v \in Uploaders \ {u}, n \in Names : Brings(v, n)' <=> Brings(v, n)
      /\ \A n \in Names : Brings(u, n)' <=> n = name
      /\ \A v \in Uploaders, n \in Names : Disposes(v, n)' <=> Disposes(v, n)
  <2>1. \A v \in Uploaders \ {u}, n \in Names :
          (Brings(v, n)' <=> Brings(v, n)) /\ (Disposes(v, n)' <=> Disposes(v, n))
    BY <1>4 DEF Brings, Disposes
  <2>2. \A n \in Names : (Brings(u, n)' <=> n = name) /\ ~Disposes(u, n) /\ ~Disposes(u, n)'
    BY <1>2, <1>3, <1>4 DEF Brings, Disposes
  <2> QED BY <2>1, <2>2
<1>6. \A n \in Names : ~Brings(u, n)
  BY <1>2 DEF Brings
<1>7. EveryFileIsAccountedFor'
  <2> SUFFICES ASSUME NEW n \in files' \cap Names
               PROVE  n = image' \/ n \in abandoned' \/ \E v \in Uploaders : Owns(v, n)'
    BY DEF EveryFileIsAccountedFor
  <2>1. CASE n = name
    BY <1>5, <2>1 DEF Owns
  <2>2. CASE n # name
    <3>1. n = image \/ n \in abandoned \/ \E v \in Uploaders : Owns(v, n)
      BY <1>2, <2>2 DEF UploadsIInv, EveryFileIsAccountedFor
    <3> QED BY <1>2, <1>5, <1>6, <2>2, <3>1 DEF Owns
  <2> QED BY <2>1, <2>2
<1>8. BroughtIsThere'
  <2> SUFFICES ASSUME NEW v \in Uploaders, NEW n \in Names, Brings(v, n)'
               PROVE  n \in files' \cup reused'
    BY DEF BroughtIsThere
  <2>1. CASE n = name
    BY <1>2, <2>1
  <2>2. CASE n # name
    BY <1>2, <1>5, <2>2 DEF UploadsIInv, BroughtIsThere
  <2> QED BY <2>1, <2>2
<1>9. StaysUnused'
  <2> SUFFICES ASSUME NEW v \in Uploaders, uploading'[v].at = "unused"
               PROVE  /\ image' = uploading'[v].old => restored' \/ uploading'[v].old \in reused'
                      /\ \A w \in Uploaders : Brings(w, uploading[v].old)' =>
                            uploading'[v].old \in reused'
                      /\ uploading'[v].old = uploading[v].old
    BY DEF StaysUnused, Brings
  <2>1. uploading'[v] = uploading[v] /\ uploading[v].old \in Names /\ uploading[v].at = "unused"
    BY <1>3, <1>4 DEF UploadsIInv, OnlyUploadsGo
  <2>2. CASE uploading[v].old = name
    <3>1. Deleting(name)
      BY <2>1, <2>2 DEF Deleting
    <3>2. name \in reused'
      BY <1>2, <3>1
    <3> QED BY <2>1, <2>2, <3>2
  <2>3. CASE uploading[v].old # name
    <3>1. uploading[v].old \in reused => uploading[v].old \in reused'
      BY <1>2, <2>3
    <3> QED BY <1>2, <1>5, <2>1, <2>3, <3>1 DEF UploadsIInv, StaysUnused
  <2> QED BY <2>2, <2>3
<1>10. FilesAreThere'
  BY <1>1, <1>2 DEF UploadsIInv, FilesAreThere
<1> QED BY <1>4, <1>7, <1>8, <1>9, <1>10 DEF UploadsIInv

\* The row gets another name, or goes: the file it named is somebody's to
\* delete or was overwritten unseen, and the file it names now is there.
LEMMA RowChanges ==
    ASSUME UploadsIInv, NEW u \in Uploaders, uploading[u].at \in {"loaded", "written"},
           NEW name \in RowNames \cup {NoImageRow},
           NEW next \in UploadRecord, next.at \in {"saved", "idle"},
           next.at = "saved" => next.old \in Names,
           Writes(u, name, next), UNCHANGED <<files, reused>>, restored' \in BOOLEAN,
           image \in Names /\ image # name =>
               image \in abandoned' \/ (next.at = "saved" /\ next.old = image),
           name \in Names =>
               restored' \/ Brings(u, name) \/ (name = image /\ (restored => restored')),
           \A n \in Names : Brings(u, n) => n = name
    PROVE  UploadsIInv'
<1>1. /\ uploading \in [Uploaders -> UploadRecord]
      /\ files \subseteq Names \cup {Library} /\ reused \subseteq Names /\ abandoned \subseteq Names
      /\ Library \in files
  BY DEF UploadsIInv, UploadsTypeOK, UploadRecord, FilesAreThere
<1>2. image' = name /\ abandoned \subseteq abandoned' /\ abandoned' \subseteq Names
  BY <1>1 DEF Writes
<1>3. uploading'[u] = next /\ uploading' = [v \in Uploaders |-> uploading'[v]]
  BY DEF Writes
<1>4. \A v \in Uploaders \ {u} :
        /\ uploading'[v] \in UploadRecord
        /\ uploading'[v].at = uploading[v].at /\ uploading'[v].loaded = uploading[v].loaded
        /\ uploading'[v].new = uploading[v].new /\ uploading'[v].old = uploading[v].old
        /\ uploading'[v].kept = uploading[v].kept
        /\ ~uploading'[v].overtaken =>
              /\ ~uploading[v].overtaken
              /\ uploading[v].at \in {"loaded", "remembered", "written"} => image = name
  <2> SUFFICES ASSUME NEW v \in Uploaders \ {u}
               PROVE  /\ uploading'[v] \in UploadRecord
                      /\ uploading'[v].at = uploading[v].at
                      /\ uploading'[v].loaded = uploading[v].loaded
                      /\ uploading'[v].new = uploading[v].new
                      /\ uploading'[v].old = uploading[v].old
                      /\ uploading'[v].kept = uploading[v].kept
                      /\ ~uploading'[v].overtaken =>
                            /\ ~uploading[v].overtaken
                            /\ uploading[v].at \in {"loaded", "remembered", "written"} => image = name
    OBVIOUS
  <2>1. PICK s \in UploadRecord : s = uploading[v]
    BY <1>1
  <2>2. CASE s.at \in {"loaded", "remembered", "written"} /\ image # name
    <3>1. uploading'[v] = [s EXCEPT !.overtaken = TRUE]
      BY <2>1, <2>2 DEF Writes
    <3>2. /\ [s EXCEPT !.overtaken = TRUE] \in UploadRecord
          /\ [s EXCEPT !.overtaken = TRUE].at = s.at /\ [s EXCEPT !.overtaken = TRUE].new = s.new
          /\ [s EXCEPT !.overtaken = TRUE].old = s.old
          /\ [s EXCEPT !.overtaken = TRUE].loaded = s.loaded
          /\ [s EXCEPT !.overtaken = TRUE].kept = s.kept
          /\ [s EXCEPT !.overtaken = TRUE].overtaken = TRUE
      BY DEF UploadRecord
    <3> QED BY <2>1, <3>1, <3>2
  <2>3. CASE ~(s.at \in {"loaded", "remembered", "written"} /\ image # name)
    <3>1. uploading'[v] = s
      BY <2>1, <2>3 DEF Writes
    <3> QED BY <2>1, <2>3, <3>1
  <2> QED BY <2>2, <2>3
<1>5. UploadsTypeOK'
  <2>1. \A v \in Uploaders : uploading'[v] \in UploadRecord
    BY <1>3, <1>4
  <2>2. uploading' \in [Uploaders -> UploadRecord]
    BY <1>3, <2>1
  <2> QED BY <1>1, <1>2, <2>2 DEF UploadsTypeOK, UploadRecord
<1>6. SeesTheRow'
  <2> SUFFICES ASSUME NEW v \in Uploaders, ~uploading'[v].overtaken
               PROVE  /\ uploading'[v].at = "loaded" => image' = uploading'[v].loaded
                      /\ uploading'[v].at \in {"remembered", "written"} =>
                            uploading'[v].old = StoredName(v)'
    BY DEF SeesTheRow
  <2>1. CASE v = u
    BY <1>3, <2>1
  <2>2. CASE v # u /\ uploading[v].at \in {"loaded", "remembered", "written"}
    <3>1. image = name /\ ~uploading[v].overtaken
      BY <1>4, <2>2
    <3>2. StoredName(v)' = StoredName(v)
      BY <1>2, <3>1 DEF StoredName
    <3> QED BY <1>2, <1>4, <2>2, <3>1, <3>2 DEF UploadsIInv, SeesTheRow
  <2>3. CASE v # u /\ uploading[v].at \notin {"loaded", "remembered", "written"}
    BY <1>4, <2>3
  <2> QED BY <2>1, <2>2, <2>3
<1>7. OnlyUploadsGo'
  BY <1>3, <1>4 DEF UploadsIInv, OnlyUploadsGo
<1>8. /\ \A v \in Uploaders \ {u}, n \in Names :
            (Brings(v, n)' <=> Brings(v, n)) /\ (Disposes(v, n)' <=> Disposes(v, n))
      /\ \A n \in Names : ~Brings(u, n)' /\ ~Disposes(u, n)
      /\ \A n \in Names : Disposes(u, n)' <=> next.at = "saved" /\ next.old = n
  <2>1. \A v \in Uploaders \ {u}, n \in Names :
            (Brings(v, n)' <=> Brings(v, n)) /\ (Disposes(v, n)' <=> Disposes(v, n))
    BY <1>4 DEF Brings, Disposes
  <2>2. \A n \in Names : ~Brings(u, n)' /\ ~Disposes(u, n)
    BY <1>3 DEF Brings, Disposes
  <2>3. \A n \in Names : Disposes(u, n)' <=> next.at = "saved" /\ next.old = n
    BY <1>3 DEF Disposes
  <2> QED BY <2>1, <2>2, <2>3
<1>9. EveryFileIsAccountedFor'
  <2> SUFFICES ASSUME NEW n \in files \cap Names
               PROVE  n = name \/ n \in abandoned' \/ \E v \in Uploaders : Owns(v, n)'
    BY <1>2 DEF EveryFileIsAccountedFor
  <2>1. n = image \/ n \in abandoned \/ \E v \in Uploaders : Owns(v, n)
    BY DEF UploadsIInv, EveryFileIsAccountedFor
  <2>2. CASE n = image
    BY <1>8, <2>2 DEF Owns
  <2>3. CASE n \in abandoned
    BY <1>2, <2>3
  <2>4. CASE \E v \in Uploaders : Owns(v, n)
    BY <1>8, <2>4 DEF Owns
  <2> QED BY <2>1, <2>2, <2>3, <2>4
<1>10. BroughtIsThere'
  BY <1>8 DEF UploadsIInv, BroughtIsThere
<1>11. FilesAreThere'
  BY <1>1, <1>2 DEF UploadsIInv, BroughtIsThere, FilesAreThere
<1>12. StaysUnused'
  <2> SUFFICES ASSUME NEW v \in Uploaders, uploading'[v].at = "unused"
               PROVE  /\ name = uploading[v].old => restored' \/ uploading[v].old \in reused
                      /\ \A w \in Uploaders : Brings(w, uploading[v].old)' =>
                            uploading[v].old \in reused
                      /\ uploading'[v].old = uploading[v].old
    BY <1>2 DEF StaysUnused, Brings
  <2>1. v # u
    BY <1>3
  <2>2. uploading[v].at = "unused" /\ uploading'[v].old = uploading[v].old
    BY <1>4, <2>1
  <2>3. uploading[v].old \in Names
    BY <2>2 DEF UploadsIInv, OnlyUploadsGo
  <2>4. /\ image = uploading[v].old => restored \/ uploading[v].old \in reused
        /\ \A w \in Uploaders : Brings(w, uploading[v].old) => uploading[v].old \in reused
    BY <2>2 DEF UploadsIInv, StaysUnused
  <2> QED BY <1>8, <2>2, <2>3, <2>4
<1> QED BY <1>5, <1>6, <1>7, <1>9, <1>10, <1>11, <1>12 DEF UploadsIInv

LEMMA SavingKeepsUploads ==
    ASSUME UploadsIInv, NEW u \in Uploaders, SaveImageRow(u)
    PROVE  UploadsIInv'
<1>1. PICK q \in UploadRecord : q = uploading[u]
  BY DEF UploadsIInv, UploadsTypeOK, UploadRecord
<1> DEFINE replaced == Cleans(q.old) /\ q.old # q.new
           next == IF replaced THEN [q EXCEPT !.at = "saved"] ELSE Away
<1>2. /\ q.at = "written" /\ Writes(u, q.new, next)
      /\ restored' = (q.kept /\ (restored \/ image # q.new))
      /\ UNCHANGED <<files, reused>>
  BY <1>1 DEF SaveImageRow
<1>3. /\ next \in UploadRecord
      /\ replaced => next.at = "saved" /\ next.old = q.old
      /\ ~replaced => next.at = "idle"
  <2>1. /\ [q EXCEPT !.at = "saved"] \in UploadRecord /\ [q EXCEPT !.at = "saved"].at = "saved"
        /\ [q EXCEPT !.at = "saved"].old = q.old
    BY DEF UploadRecord
  <2> QED BY <2>1, AwayIsIdle
<1>4. q.new \in RowNames \cup {NoImageRow} /\ q.kept \in BOOLEAN /\ restored' \in BOOLEAN
  BY <1>2 DEF UploadRecord
<1>5. image \in Names /\ image # q.new => image \in abandoned' \/ (replaced /\ q.old = image)
  <2> SUFFICES ASSUME image \in Names, image # q.new, image \notin abandoned'
               PROVE  Cleans(q.old) /\ q.old # q.new /\ q.old = image
    OBVIOUS
  <2>1. ~uploading[u].overtaken
    BY <1>2 DEF Writes
  <2>2. q.old = StoredName(u)
    BY <1>1, <1>2, <2>1 DEF UploadsIInv, SeesTheRow
  <2>3. q.old = image
    BY <2>2, NamesApart DEF StoredName
  <2> QED BY <2>3 DEF Cleans
<1>6. q.new \in Names =>
        restored' \/ Brings(u, q.new) \/ (q.new = image /\ (restored => restored'))
  <2>1. CASE q.kept
    BY <1>2, <2>1
  <2>2. CASE ~q.kept
    BY <1>1, <1>2, <2>2 DEF Brings
  <2> QED BY <2>1, <2>2
<1>7. \A n \in Names : Brings(u, n) => n = q.new
  BY <1>1 DEF Brings
<1>8. next.at \in {"saved", "idle"} /\ (next.at = "saved" => next.old \in Names)
  BY <1>3 DEF Cleans
<1>9. image \in Names /\ image # q.new =>
        image \in abandoned' \/ (next.at = "saved" /\ next.old = image)
  BY <1>3, <1>5
<1> HIDE DEF next, replaced
<1> QED BY <1>1, <1>2, <1>3, <1>4, <1>6, <1>7, <1>8, <1>9, RowChanges

LEMMA DeletingKeepsUploads ==
    ASSUME UploadsIInv, NEW u \in Uploaders, DeleteImageRow(u)
    PROVE  UploadsIInv'
<1>1. PICK q \in UploadRecord : q = uploading[u]
  BY DEF UploadsIInv, UploadsTypeOK, UploadRecord
<1> DEFINE next == IF Cleans(q.loaded) THEN [q EXCEPT !.at = "saved", !.old = q.loaded] ELSE Away
<1>2. /\ q.at = "loaded" /\ image # NoImageRow /\ Writes(u, NoImageRow, next)
      /\ restored' = FALSE
      /\ UNCHANGED <<files, reused>>
  BY <1>1 DEF DeleteImageRow
<1>3. /\ next \in UploadRecord
      /\ Cleans(q.loaded) => next.at = "saved" /\ next.old = q.loaded
      /\ ~Cleans(q.loaded) => next.at = "idle"
  <2>1. /\ [q EXCEPT !.at = "saved", !.old = q.loaded] \in UploadRecord
        /\ [q EXCEPT !.at = "saved", !.old = q.loaded].at = "saved"
        /\ [q EXCEPT !.at = "saved", !.old = q.loaded].old = q.loaded
    BY DEF UploadRecord
  <2> QED BY <2>1, AwayIsIdle
<1>4. image \in Names => image \in abandoned' \/ (Cleans(q.loaded) /\ q.loaded = image)
  <2> SUFFICES ASSUME image \in Names, image \notin abandoned'
               PROVE  Cleans(q.loaded) /\ q.loaded = image
    OBVIOUS
  <2>1. ~uploading[u].overtaken
    BY <1>2 DEF Writes
  <2>2. q.loaded = image
    BY <1>1, <1>2, <2>1 DEF UploadsIInv, SeesTheRow
  <2> QED BY <2>2 DEF Cleans
<1>5. next.at \in {"saved", "idle"} /\ (next.at = "saved" => next.old \in Names)
  BY <1>3 DEF Cleans
<1>6. image \in Names => image \in abandoned' \/ (next.at = "saved" /\ next.old = image)
  BY <1>3, <1>4
<1>7. \A n \in Names : ~Brings(u, n)
  BY <1>1, <1>2 DEF Brings
<1>8. restored' \in BOOLEAN /\ NoImageRow \in RowNames \cup {NoImageRow} /\ NoImageRow \notin Names
  BY <1>2, NamesApart
<1> HIDE DEF next
<1> QED BY <1>1, <1>2, <1>3, <1>5, <1>6, <1>7, <1>8, RowChanges

\* A request looks at its old file, deletes it, or ends.
LEMMA EndingKeepsUploads ==
    ASSUME UploadsIInv, NEW u \in Uploaders,
           CheckUnused(u) \/ DeleteFile(u) \/ Abandon(u)
    PROVE  UploadsIInv'
<1>1. PICK q \in UploadRecord : q = uploading[u]
  BY DEF UploadsIInv, UploadsTypeOK, UploadRecord
<1>2. /\ files \subseteq Names \cup {Library} /\ reused \subseteq Names /\ abandoned \subseteq Names
      /\ Library \in files
  BY DEF UploadsIInv, UploadsTypeOK, FilesAreThere
<1>3. q.at \in {"saved", "unused"} => q.old \in Names
  BY <1>1 DEF UploadsIInv, OnlyUploadsGo
<1>4. [q EXCEPT !.at = "unused"] \in UploadRecord /\ [q EXCEPT !.at = "unused"].at = "unused"
      /\ [q EXCEPT !.at = "unused"].old = q.old
  BY DEF UploadRecord
<1>5. UNCHANGED <<image, restored>>
  BY DEF CheckUnused, DeleteFile, Abandon
\* Ended, or found unused: what becomes of the files it owned.
<1>6. PICK row \in UploadRecord :
        /\ uploading' = [uploading EXCEPT ![u] = row]
        /\ row.at \in {"idle", "unused"}
        /\ row.at = "unused" => /\ q.at = "saved" /\ row.old = q.old /\ image # q.old
                                /\ OnItsWay(q.old) => q.old \in reused'
        /\ files' = files \/ (q.at = "unused" /\ files' = files \ {q.old})
        /\ reused \subseteq reused' /\ reused' \subseteq reused \cup {q.old}
        /\ reused' = reused \/ q.at = "saved"
        /\ abandoned' \subseteq Names
        /\ \A n \in abandoned : n \in abandoned' \/ n \notin files'
        /\ \A n \in Names : Owns(u, n) =>
              n = image \/ n \in abandoned' \/ n \notin files' \/ (row.at = "unused" /\ row.old = n)
  <2>1. CASE CheckUnused(u) /\ Unused(u)
    <3>1. /\ q.at = "saved" /\ image # q.old
          /\ uploading' = [uploading EXCEPT ![u] = [q EXCEPT !.at = "unused"]]
          /\ reused' = IF OnItsWay(q.old) THEN reused \cup {q.old} ELSE reused
          /\ UNCHANGED <<files, abandoned>>
      BY <1>1, <2>1 DEF CheckUnused, Unused
    <3>2. \A n \in Names : Owns(u, n) => n = q.old
      BY <1>1, <3>1 DEF Owns, Brings, Disposes
    <3> DEFINE row == [q EXCEPT !.at = "unused"]
    <3>3. /\ row \in UploadRecord /\ row.at = "unused" /\ row.old = q.old
          /\ uploading' = [uploading EXCEPT ![u] = row]
      BY <1>4, <3>1
    <3>4. /\ reused \subseteq reused' /\ reused' \subseteq reused \cup {q.old}
          /\ OnItsWay(q.old) => q.old \in reused'
      BY <3>1
    <3> HIDE DEF row
    <3> QED BY <1>2, <3>1, <3>2, <3>3, <3>4
  <2>2. CASE CheckUnused(u) /\ ~Unused(u)
    <3>1. /\ q.at = "saved" /\ image = q.old
          /\ uploading' = [uploading EXCEPT ![u] = Away]
          /\ UNCHANGED <<files, abandoned, reused>>
      BY <1>1, <2>2 DEF CheckUnused, Unused
    <3>2. \A n \in Names : Owns(u, n) => n = q.old
      BY <1>1, <3>1 DEF Owns, Brings, Disposes
    <3> QED BY <1>2, <3>1, <3>2, AwayIsIdle
  <2>3. CASE DeleteFile(u)
    <3>1. /\ q.at = "unused" /\ files' = files \ {q.old} /\ abandoned' = abandoned \ {q.old}
          /\ uploading' = [uploading EXCEPT ![u] = Away] /\ UNCHANGED reused
      BY <1>1, <2>3 DEF DeleteFile
    <3>2. \A n \in Names : Owns(u, n) => n = q.old
      BY <1>1, <3>1 DEF Owns, Brings, Disposes
    <3> QED BY <1>2, <3>1, <3>2, AwayIsIdle
  <2>4. CASE Abandon(u)
    <3>1. /\ uploading' = [uploading EXCEPT ![u] = Away]
          /\ UNCHANGED <<files, reused>>
          /\ abandoned' = abandoned \cup
                (Names \cap IF q.at = "written" /\ ~q.kept THEN {q.new}
                            ELSE IF q.at \in {"saved", "unused"} THEN {q.old}
                            ELSE {})
      BY <1>1, <2>4 DEF Abandon
    <3>2. \A n \in Names : Owns(u, n) => n \in abandoned'
      BY <1>1, <3>1 DEF Owns, Brings, Disposes
    <3>3. abandoned \subseteq abandoned' /\ abandoned' \subseteq Names
      BY <1>2, <3>1
    <3> QED BY <3>1, <3>2, <3>3, AwayIsIdle
  <2> QED BY <2>1, <2>2, <2>3, <2>4
<1>7. Library \in files' /\ files' \subseteq Names \cup {Library} /\ reused' \subseteq Names
  BY <1>2, <1>3, <1>6, NamesApart
<1>8. /\ UploadsTypeOK' /\ SeesTheRow' /\ OnlyUploadsGo'
      /\ uploading'[u] = row /\ \A v \in Uploaders \ {u} : uploading'[v] = uploading[v]
  BY <1>3, <1>5, <1>6, <1>7, OneUploads
<1>9. /\ \A v \in Uploaders \ {u}, n \in Names :
            (Brings(v, n)' <=> Brings(v, n)) /\ (Disposes(v, n)' <=> Disposes(v, n))
      /\ \A n \in Names : ~Brings(u, n)'
      /\ \A n \in Names : Disposes(u, n)' <=> row.at = "unused" /\ row.old = n
  <2>1. \A v \in Uploaders \ {u}, n \in Names :
            (Brings(v, n)' <=> Brings(v, n)) /\ (Disposes(v, n)' <=> Disposes(v, n))
    BY <1>8 DEF Brings, Disposes
  <2>2. \A n \in Names : ~Brings(u, n)'
    BY <1>6, <1>8 DEF Brings
  <2>3. \A n \in Names : Disposes(u, n)' <=> row.at = "unused" /\ row.old = n
    BY <1>6, <1>8 DEF Disposes
  <2> QED BY <2>1, <2>2, <2>3
<1>10. EveryFileIsAccountedFor'
  <2> SUFFICES ASSUME NEW n \in files' \cap Names
               PROVE  n = image \/ n \in abandoned' \/ \E v \in Uploaders : Owns(v, n)'
    BY <1>5 DEF EveryFileIsAccountedFor
  <2>1. n \in files
    BY <1>6
  <2>2. n = image \/ n \in abandoned \/ \E v \in Uploaders : Owns(v, n)
    BY <2>1 DEF UploadsIInv, EveryFileIsAccountedFor
  <2>3. CASE n \in abandoned
    BY <1>6, <2>3
  <2>4. ASSUME NEW v \in Uploaders, Owns(v, n)
        PROVE  n = image \/ n \in abandoned' \/ \E w \in Uploaders : Owns(w, n)'
    <3>1. CASE v = u
      BY <1>6, <1>9, <2>4, <3>1 DEF Owns
    <3>2. CASE v # u
      BY <1>9, <2>4, <3>2 DEF Owns
    <3> QED BY <3>1, <3>2
  <2> QED BY <2>2, <2>3, <2>4
\* A file that is deleted is not in use, or was excepted.
<1>11. \A n \in files : n \in files' \/ (q.at = "unused" /\ n = q.old)
  BY <1>6
<1>12. BroughtIsThere'
  <2> SUFFICES ASSUME NEW v \in Uploaders, NEW n \in Names, Brings(v, n)'
               PROVE  n \in files' \cup reused'
    BY DEF BroughtIsThere
  <2>1. v # u /\ Brings(v, n)
    BY <1>9
  <2>2. n \in files \cup reused
    BY <2>1 DEF UploadsIInv, BroughtIsThere
  <2>3. q.at = "unused" /\ n = q.old => n \in reused
    BY <1>1, <2>1 DEF UploadsIInv, StaysUnused
  <2> QED BY <1>6, <1>11, <2>2, <2>3
<1>13. FilesAreThere'
  <2> SUFFICES ASSUME image \in Names
               PROVE  image \in files' \/ restored \/ image \in reused'
    BY <1>5, <1>7 DEF FilesAreThere
  <2>1. image \in files \/ restored \/ image \in reused
    BY DEF UploadsIInv, FilesAreThere
  <2>2. q.at = "unused" /\ image = q.old => restored \/ image \in reused
    BY <1>1 DEF UploadsIInv, StaysUnused
  <2> QED BY <1>6, <1>11, <2>1, <2>2
<1>14. StaysUnused'
  <2> SUFFICES ASSUME NEW v \in Uploaders, uploading'[v].at = "unused",
                      NEW name, name = uploading'[v].old
               PROVE  /\ image = name => restored \/ name \in reused'
                      /\ \A w \in Uploaders : Brings(w, name)' => name \in reused'
    BY <1>5 DEF StaysUnused, Brings
  <2>1. CASE v = u
    <3>1. q.at = "saved" /\ name = q.old /\ image # name /\ (OnItsWay(name) => name \in reused')
      BY <1>6, <1>8, <2>1
    <3>2. ASSUME NEW w \in Uploaders, Brings(w, name)' PROVE OnItsWay(name)
      <4>1. w # u /\ Brings(w, name)
        BY <1>3, <1>9, <3>1, <3>2
      <4> QED BY <4>1 DEF OnItsWay, Brings
    <3> QED BY <3>1, <3>2
  <2>2. CASE v # u
    <3>1. name = uploading[v].old /\ uploading[v].at = "unused"
      BY <1>8, <2>2
    <3>2. name \in Names
      BY <3>1 DEF UploadsIInv, OnlyUploadsGo
    <3>3. /\ image = name => restored \/ name \in reused
          /\ \A w \in Uploaders : Brings(w, name) => name \in reused
      BY <3>1 DEF UploadsIInv, StaysUnused
    <3>4. \A w \in Uploaders : Brings(w, name)' => Brings(w, name)
      BY <1>9, <3>2
    <3> QED BY <1>6, <3>3, <3>4
  <2> QED BY <2>1, <2>2
<1> QED BY <1>8, <1>10, <1>12, <1>13, <1>14 DEF UploadsIInv

LEMMA NextUploads == UploadsIInv /\ [UploadsNext]_uploadVars => UploadsIInv'
<1> SUFFICES ASSUME UploadsIInv, [UploadsNext]_uploadVars
             PROVE  UploadsIInv'
  OBVIOUS
<1>1. CASE UNCHANGED uploadVars
  BY <1>1 DEF uploadVars, UploadsIInv, UploadsTypeOK, SeesTheRow, StoredName, OnlyUploadsGo,
        EveryFileIsAccountedFor, Owns, Brings, Disposes, BroughtIsThere, StaysUnused, FilesAreThere
<1>2. CASE UploadsNext
  BY <1>2, StartingKeepsUploads, WritingKeepsUploads, SavingKeepsUploads, DeletingKeepsUploads,
     EndingKeepsUploads DEF UploadsNext
<1> QED BY <1>1, <1>2

\* For any requests and names: but for the overlaps that FilesAreThere and
\* NothingIsLeftBehind except, the row's file is there and a file nobody uses is
\* deleted (UploadsInv; uploads.py:8-11).
THEOREM TheImageIsThere == UploadsSpec => []UploadsInv
<1>1. UploadsIInv => UploadsInv
  <2> SUFFICES ASSUME UploadsIInv, \A u \in Uploaders : uploading[u].at = "idle"
               PROVE  files \cap Names \subseteq {image} \cup abandoned
    BY DEF UploadsIInv, UploadsInv, NothingIsLeftBehind
  <2>1. \A u \in Uploaders, name \in Names : ~Owns(u, name)
    BY DEF Owns, Brings, Disposes
  <2> QED BY <2>1 DEF UploadsIInv, EveryFileIsAccountedFor
<1> QED BY <1>1, InitUploads, NextUploads, PTL DEF UploadsSpec

-----------------------------------------------------------------------------
(* Awards: the inductive invariant *)

\* Belts: who is about to award one is the only one, and has seen that the
\* child does not have it.
OneAwardsANewBelt ==
    /\ \A r \in Marks : mark[r].at = "award" => mark[r].belt \in Levels
    /\ ~together =>
          /\ \A q, r \in Marks : mark[q].belt > 0 /\ mark[r].belt > 0 => q = r
          /\ \A r \in Marks : mark[r].belt > 0 => belts[mark[r].belt] = 0

\* Milestones: a sync that runs alone works with what is there, one that does
\* not is remembered.
AloneSeesAll ==
    \A r \in Syncing :
        IF mark[r].alone
        THEN /\ Syncing = {r}
             /\ mark[r].at # "marked" => mark[r].count = Present
             /\ mark[r].at \notin {"marked", "counted"} => mark[r].rows = badge
        ELSE broken

AwardsIInv ==
    /\ AwardsTypeOK
    /\ OneAwardsANewBelt /\ BeltsGoUp
    /\ AloneSeesAll /\ MilestonesFollowAttendance

MarkRecord ==
    [at : {"idle", "loaded", "marked", "counted", "read", "saved", "granted", "award"},
     place : SUBSET Places, saw : Attendance, count : 0..Cardinality(Places),
     rows : [Thresholds -> Badge], alone : BOOLEAN, belt : 0..TopBelt]

SyncSteps == {"marked", "counted", "read", "saved", "granted"}

LEMMA PresentFits == Cardinality(Places) \in Nat /\ Present \in 0..Cardinality(Places)
<1>1. {p \in Places : attended[p] = "present"} \in SUBSET Places
  OBVIOUS
<1> QED BY <1>1, AwardsAssumption, FS_Subset, FS_CardinalityType DEF Present

LEMMA NoMarkIsIdle ==
    NoMark \in MarkRecord /\ NoMark.at = "idle" /\ NoMark.belt = 0 /\ NoMark.alone = FALSE
<1>1. [t \in Thresholds |-> "none"] \in [Thresholds -> Badge] /\ "unmarked" \in Attendance
  BY DEF Badge, Attendance
<1>2. 0 \in 0..Cardinality(Places) /\ 0 \in 0..TopBelt
  BY PresentFits, AwardsAssumption
<1> QED BY <1>1, <1>2 DEF NoMark, MarkRecord

LEMMA InitAwards == AwardsInit => AwardsIInv
<1> SUFFICES ASSUME AwardsInit PROVE AwardsIInv
  OBVIOUS
<1>1. mark \in [Marks -> MarkRecord] /\ \A r \in Marks : mark[r].at = "idle" /\ mark[r].belt = 0
  BY NoMarkIsIdle DEF AwardsInit
<1>2. AwardsTypeOK
  <2>1. /\ attended \in [Places -> Attendance] /\ badge \in [Thresholds -> Badge]
        /\ belts \in [Levels -> 0..MaxBelts]
    BY AwardsAssumption DEF AwardsInit, Attendance, Badge, Levels
  <2>2. broken \in BOOLEAN /\ together \in BOOLEAN
    BY DEF AwardsInit
  <2> QED BY <1>1, <2>1, <2>2 DEF AwardsTypeOK, MarkRecord
<1>3. OneAwardsANewBelt /\ BeltsGoUp
  BY <1>1 DEF AwardsInit, OneAwardsANewBelt, BeltsGoUp
<1>4. AloneSeesAll
  BY <1>1 DEF AloneSeesAll, Syncing
<1>5. Present = 0
  <2>1. {p \in Places : attended[p] = "present"} = {}
    BY DEF AwardsInit
  <2> QED BY <2>1, FS_EmptySet DEF Present
<1>6. MilestonesFollowAttendance
  BY <1>5, AwardsAssumption DEF MilestonesFollowAttendance
<1> QED BY <1>2, <1>3, <1>4, <1>6 DEF AwardsIInv

\* A step of one request that awards nothing yet.
LEMMA BeltsStay ==
    ASSUME AwardsIInv, AwardsTypeOK', NEW r \in Marks, belts' = belts, together => together',
           \A q \in Marks \ {r} : mark'[q].at = mark[q].at /\ mark'[q].belt = mark[q].belt,
           mark'[r].at = "award" => mark'[r].belt \in Levels,
           \/ mark'[r].belt \in {0, mark[r].belt}
           \/ /\ mark'[r].belt \in Levels /\ AboveTheirs(mark'[r].belt)
              /\ ~together' => ~OthersAward(r)
    PROVE  OneAwardsANewBelt' /\ BeltsGoUp'
<1>1. \A q \in Marks : mark[q].belt \in 0..TopBelt /\ mark'[q].belt \in 0..TopBelt
  BY DEF AwardsIInv, AwardsTypeOK
<1>2. \A l \in Levels : belts[l] \in 0..MaxBelts
  BY DEF AwardsIInv, AwardsTypeOK
<1>3. TopBelt \in Nat /\ MaxBelts \in Nat
  BY AwardsAssumption
<1>4. BeltsGoUp'
  BY DEF AwardsIInv, BeltsGoUp
<1>5. \A q \in Marks : mark'[q].at = "award" => mark'[q].belt \in Levels
  BY DEF AwardsIInv, OneAwardsANewBelt
<1>6. ASSUME ~together'
      PROVE  /\ \A q, s \in Marks : mark'[q].belt > 0 /\ mark'[s].belt > 0 => q = s
             /\ \A q \in Marks : mark'[q].belt > 0 => belts'[mark'[q].belt] = 0
  <2>1. /\ \A q, s \in Marks : mark[q].belt > 0 /\ mark[s].belt > 0 => q = s
        /\ \A q \in Marks : mark[q].belt > 0 => belts[mark[q].belt] = 0
    BY <1>6 DEF AwardsIInv, OneAwardsANewBelt
  <2>2. CASE mark'[r].belt = 0 \/ mark'[r].belt = mark[r].belt
    BY <1>1, <1>3, <2>1, <2>2
  <2>3. CASE mark'[r].belt \in Levels /\ AboveTheirs(mark'[r].belt) /\ ~OthersAward(r)
    <3>1. \A q \in Marks \ {r} : ~(mark'[q].belt > 0)
      BY <2>3 DEF OthersAward
    <3>2. belts[mark'[r].belt] = 0
      <4>1. PICK l \in Levels : l = mark'[r].belt
        BY <2>3
      <4>2. ~(belts[l] > 0)
        BY <2>3, <4>1, <1>3 DEF AboveTheirs, Levels
      <4> QED BY <1>2, <1>3, <4>1, <4>2
    <3> QED BY <3>1, <3>2
  <2> QED BY <1>6, <2>2, <2>3
<1> QED BY <1>4, <1>5, <1>6 DEF OneAwardsANewBelt

\* A step of one request that leaves the milestones alone.
LEMMA SyncGoesOn ==
    ASSUME AwardsIInv, NEW r \in Marks, UNCHANGED <<attended, badge, broken>>,
           \A q \in Marks \ {r} : mark'[q] = mark[q],
           mark'[r].at \in SyncSteps <=> mark[r].at \in SyncSteps,
           mark[r].at \in SyncSteps =>
               /\ mark'[r].alone = mark[r].alone
               /\ mark[r].alone =>
                     /\ mark'[r].at # "marked" => mark'[r].count = Present
                     /\ mark'[r].at \notin {"marked", "counted"} => mark'[r].rows = badge
    PROVE  AloneSeesAll' /\ MilestonesFollowAttendance'
<1>1. Syncing' = Syncing /\ \A q \in Syncing : mark[q].at \in SyncSteps
  BY DEF Syncing, SyncSteps
<1>2. Present' = Present
  BY DEF Present
<1>3. AloneSeesAll'
  <2> SUFFICES ASSUME NEW q \in Syncing
               PROVE  IF mark'[q].alone
                      THEN /\ Syncing = {q}
                           /\ mark'[q].at # "marked" => mark'[q].count = Present
                           /\ mark'[q].at \notin {"marked", "counted"} => mark'[q].rows = badge
                      ELSE broken
    BY <1>1, <1>2 DEF AloneSeesAll
  <2>1. IF mark[q].alone
        THEN /\ Syncing = {q}
             /\ mark[q].at # "marked" => mark[q].count = Present
             /\ mark[q].at \notin {"marked", "counted"} => mark[q].rows = badge
        ELSE broken
    BY DEF AwardsIInv, AloneSeesAll
  <2>2. CASE q = r
    BY <1>1, <2>1, <2>2
  <2>3. CASE q # r
    <3>1. mark'[q] = mark[q]
      BY <2>3 DEF Syncing
    <3> QED BY <2>1, <3>1
  <2> QED BY <2>2, <2>3
<1>4. MilestonesFollowAttendance'
  BY <1>1, <1>2 DEF AwardsIInv, MilestonesFollowAttendance
<1> QED BY <1>3, <1>4

\* A request that ends without a commit of its milestones, remembered if it
\* was about to bring them in line.
LEMMA SyncEnds ==
    ASSUME AwardsIInv, NEW r \in Marks, UNCHANGED <<attended, badge>>,
           broken' = (broken \/ r \in Syncing),
           \A q \in Marks \ {r} : mark'[q] = mark[q], mark'[r].at = "idle"
    PROVE  AloneSeesAll' /\ MilestonesFollowAttendance'
<1>1. Syncing' = Syncing \ {r}
  BY DEF Syncing
<1>2. Present' = Present
  BY DEF Present
<1>3. AloneSeesAll'
  <2> SUFFICES ASSUME NEW q \in Syncing \ {r}
               PROVE  IF mark'[q].alone
                      THEN /\ Syncing' = {q}
                           /\ mark'[q].at # "marked" => mark'[q].count = Present
                           /\ mark'[q].at \notin {"marked", "counted"} => mark'[q].rows = badge
                      ELSE broken'
    BY <1>1, <1>2 DEF AloneSeesAll
  <2>1. IF mark[q].alone
        THEN /\ Syncing = {q}
             /\ mark[q].at # "marked" => mark[q].count = Present
             /\ mark[q].at \notin {"marked", "counted"} => mark[q].rows = badge
        ELSE broken
    BY DEF AwardsIInv, AloneSeesAll
  <2>2. mark'[q] = mark[q]
    BY DEF Syncing
  <2> QED BY <1>1, <2>1, <2>2
<1>4. MilestonesFollowAttendance'
  <2>1. CASE r \in Syncing
    BY <2>1 DEF MilestonesFollowAttendance
  <2>2. CASE r \notin Syncing
    <3>1. Syncing' = Syncing /\ (broken' <=> broken)
      BY <1>1, <2>2
    <3> QED BY <1>2, <3>1 DEF AwardsIInv, MilestonesFollowAttendance
  <2> QED BY <2>1, <2>2
<1> QED BY <1>3, <1>4

\* Steps that change one request and neither the places nor the badges.
LEMMA MarkingKeepsAwards ==
    ASSUME AwardsIInv, NEW r \in Marks,
           \/ \E p \in Places : LoadPlace(r, p)
           \/ CountAttended(r) \/ LoadBadges(r) \/ SaveBadges(r) \/ GrantBelt(r)
           \/ \E level \in Levels : CheckBelt(r, level)
           \/ AbandonMark(r)
    PROVE  AwardsIInv'
<1>1. PICK s \in MarkRecord : s = mark[r]
  BY DEF AwardsIInv, AwardsTypeOK, MarkRecord
<1>2. /\ mark \in [Marks -> MarkRecord] /\ badge \in [Thresholds -> Badge]
      /\ attended \in [Places -> Attendance]
  BY DEF AwardsIInv, AwardsTypeOK, MarkRecord
<1>3. s.at \in SyncSteps /\ s.alone =>
        /\ s.at # "marked" => s.count = Present
        /\ s.at \notin {"marked", "counted"} => s.rows = badge
  BY <1>1 DEF AwardsIInv, AloneSeesAll, Syncing, SyncSteps
\* What every one of them does, or it ends.
<1>4. ASSUME NEW row \in MarkRecord, mark' = [mark EXCEPT ![r] = row],
             UNCHANGED <<attended, badge, belts>>,
             together' \in BOOLEAN, together => together', broken' \in BOOLEAN,
             row.at = "award" => row.belt \in Levels,
             \/ row.belt \in {0, s.belt}
             \/ /\ row.belt \in Levels /\ AboveTheirs(row.belt)
                /\ ~together' => ~OthersAward(r),
             \/ /\ broken' = broken /\ (row.at \in SyncSteps <=> s.at \in SyncSteps)
                /\ s.at \in SyncSteps =>
                      /\ row.alone = s.alone
                      /\ s.alone => /\ row.at # "marked" => row.count = Present
                                    /\ row.at \notin {"marked", "counted"} => row.rows = badge
             \/ broken' = (broken \/ r \in Syncing) /\ row.at = "idle"
      PROVE  AwardsIInv'
  <2>1. /\ mark' \in [Marks -> MarkRecord] /\ mark'[r] = row
        /\ \A q \in Marks \ {r} : mark'[q] = mark[q]
    BY <1>2, <1>4
  <2>2. AwardsTypeOK'
    <3>1. belts' \in [Levels -> 0..MaxBelts]
      BY <1>4 DEF AwardsIInv, AwardsTypeOK
    <3> QED BY <1>2, <1>4, <2>1, <3>1 DEF AwardsTypeOK, MarkRecord
  <2>3. OneAwardsANewBelt' /\ BeltsGoUp'
    BY <1>1, <1>4, <2>1, <2>2, BeltsStay
  <2>4. AloneSeesAll' /\ MilestonesFollowAttendance'
    <3>1. CASE /\ broken' = broken /\ (row.at \in SyncSteps <=> s.at \in SyncSteps)
               /\ s.at \in SyncSteps =>
                     /\ row.alone = s.alone
                     /\ s.alone => /\ row.at # "marked" => row.count = Present
                                   /\ row.at \notin {"marked", "counted"} => row.rows = badge
      BY <1>1, <1>4, <2>1, <3>1, SyncGoesOn
    <3>2. CASE broken' = (broken \/ r \in Syncing) /\ row.at = "idle"
      BY <1>4, <2>1, <3>2, SyncEnds
    <3> QED BY <1>4, <3>1, <3>2
  <2> QED BY <2>2, <2>3, <2>4 DEF AwardsIInv
<1>5. together \in BOOLEAN /\ broken \in BOOLEAN
  BY DEF AwardsIInv, AwardsTypeOK
<1>6. s.at # "award" => s.at \in SyncSteps \cup {"idle", "loaded"}
  BY DEF MarkRecord, SyncSteps
<1>7. ASSUME NEW p \in Places, LoadPlace(r, p) PROVE AwardsIInv'
  <2> DEFINE row == [s EXCEPT !.at = "loaded", !.place = {p}, !.saw = attended[p]]
  <2>1. row \in MarkRecord /\ row.at = "loaded" /\ row.belt = s.belt
    BY <1>2 DEF MarkRecord
  <2>2. /\ mark' = [mark EXCEPT ![r] = row] /\ s.at = "idle"
        /\ UNCHANGED <<attended, badge, belts, broken, together>>
    BY <1>1, <1>2, <1>7 DEF LoadPlace
  <2> HIDE DEF row
  <2> QED BY <1>4, <1>5, <2>1, <2>2 DEF SyncSteps
<1>8. CASE CountAttended(r)
  <2> DEFINE row == [s EXCEPT !.at = "counted", !.count = Present]
  <2>1. /\ row \in MarkRecord /\ row.at = "counted" /\ row.belt = s.belt /\ row.alone = s.alone
        /\ row.count = Present
    BY PresentFits DEF MarkRecord
  <2>2. /\ mark' = [mark EXCEPT ![r] = row] /\ s.at = "marked"
        /\ UNCHANGED <<attended, badge, belts, broken, together>>
    BY <1>1, <1>2, <1>8 DEF CountAttended
  <2> HIDE DEF row
  <2> QED BY <1>4, <1>5, <2>1, <2>2 DEF SyncSteps
<1>9. CASE LoadBadges(r)
  <2> DEFINE row == [s EXCEPT !.at = "read", !.rows = badge]
  <2>1. /\ row \in MarkRecord /\ row.at = "read" /\ row.belt = s.belt /\ row.alone = s.alone
        /\ row.count = s.count /\ row.rows = badge
    BY <1>2 DEF MarkRecord
  <2>2. /\ mark' = [mark EXCEPT ![r] = row] /\ s.at = "counted"
        /\ UNCHANGED <<attended, badge, belts, broken, together>>
    BY <1>1, <1>2, <1>9 DEF LoadBadges
  <2> HIDE DEF row
  <2> QED BY <1>3, <1>4, <1>5, <2>1, <2>2 DEF SyncSteps
<1>10. CASE SaveBadges(r)
  <2> DEFINE fails == \E t \in Saves(mark[r]) : mark[r].rows[t] = "none" /\ badge[t] # "none"
             row == [s EXCEPT !.at = "saved"]
  <2>1. /\ row \in MarkRecord /\ row.at = "saved" /\ row.belt = s.belt /\ row.alone = s.alone
        /\ row.count = s.count /\ row.rows = s.rows
    BY DEF MarkRecord
  <2>2. s.at = "read" /\ UNCHANGED <<attended, badge, belts, together>>
    BY <1>1, <1>10 DEF SaveBadges
  <2>3. broken' = (broken \/ fails) /\ r \in Syncing
    BY <1>1, <1>10, <2>2 DEF SaveBadges, Syncing
  <2>4. fails => mark' = [mark EXCEPT ![r] = NoMark]
    BY <1>10 DEF SaveBadges
  <2>5. ~fails => mark' = [mark EXCEPT ![r] = row]
    BY <1>1, <1>10 DEF SaveBadges
  <2> HIDE DEF row, fails
  <2>6. CASE fails
    <3>1. broken' = TRUE /\ (broken \/ r \in Syncing) = TRUE
      BY <2>3, <2>6
    <3>2. broken' = (broken \/ r \in Syncing) /\ broken' \in BOOLEAN
      BY <3>1
    <3> QED BY <1>4, <1>5, <2>2, <2>4, <2>6, <3>2, NoMarkIsIdle
  <2>7. CASE ~fails
    <3>1. broken' = broken
      BY <1>5, <2>3, <2>7
    <3> QED BY <1>3, <1>4, <1>5, <2>1, <2>2, <2>5, <2>7, <3>1 DEF SyncSteps
  <2> QED BY <2>6, <2>7
<1>11. together' = (together \/ OthersAward(r)) =>
         together' \in BOOLEAN /\ (together => together') /\ (~together' => ~OthersAward(r))
  BY DEF OthersAward
<1>12. CASE GrantBelt(r)
  <2>1. PICK belt \in {0, 1} :
          /\ mark' = [mark EXCEPT ![r].at = "granted", ![r].belt = belt]
          /\ belt = 1 => AboveTheirs(1)
    <3>1. PICK may \in BOOLEAN :
            mark' = [mark EXCEPT ![r].at = "granted",
                        ![r].belt = IF may /\ Granting \in EarnedNow(mark[r]) /\ AboveTheirs(1)
                                    THEN 1 ELSE 0]
      BY <1>12 DEF GrantBelt
    <3>2. PICK belt \in {0, 1} :
            belt = IF may /\ Granting \in EarnedNow(mark[r]) /\ AboveTheirs(1) THEN 1 ELSE 0
      OBVIOUS
    <3>3. belt = 1 => AboveTheirs(1)
      BY <3>2
    <3>4. mark' = [mark EXCEPT ![r].at = "granted", ![r].belt = belt]
      BY <3>1, <3>2
    <3> QED BY <3>3, <3>4
  <2>2. /\ s.at = "saved" /\ together' = (together \/ OthersAward(r))
        /\ UNCHANGED <<attended, badge, belts, broken>>
    BY <1>1, <1>12 DEF GrantBelt
  <2>3. 1 \in Levels /\ belt \in 0..TopBelt
    BY AwardsAssumption DEF Levels
  <2> DEFINE row == [s EXCEPT !.at = "granted", !.belt = belt]
  <2>4. /\ row \in MarkRecord /\ row.at = "granted" /\ row.belt = belt /\ row.alone = s.alone
        /\ row.count = s.count /\ row.rows = s.rows
    BY <2>3 DEF MarkRecord
  <2>5. mark' = [mark EXCEPT ![r] = row]
    BY <1>1, <1>2, <2>1
  <2> HIDE DEF row
  <2>6. row.belt \in {0, s.belt} \/ (row.belt \in Levels /\ AboveTheirs(row.belt))
    BY <2>1, <2>3, <2>4
  <2> QED BY <1>3, <1>4, <1>5, <1>11, <2>2, <2>4, <2>5, <2>6 DEF SyncSteps
<1>13. ASSUME NEW level \in Levels, CheckBelt(r, level) PROVE AwardsIInv'
  <2>1. level \in 0..TopBelt
    BY AwardsAssumption DEF Levels
  <2> DEFINE row == [s EXCEPT !.at = "award", !.belt = level]
  <2>2. row \in MarkRecord /\ row.at = "award" /\ row.belt = level
    BY <2>1 DEF MarkRecord
  <2>3. /\ s.at = "idle" /\ together' = (together \/ OthersAward(r)) /\ AboveTheirs(level)
        /\ UNCHANGED <<attended, badge, belts, broken>> /\ mark' = [mark EXCEPT ![r] = row]
    BY <1>1, <1>2, <1>13 DEF CheckBelt
  <2> HIDE DEF row
  <2> QED BY <1>4, <1>5, <1>11, <2>2, <2>3 DEF SyncSteps
<1>14. CASE AbandonMark(r)
  <2>1. /\ broken' = (broken \/ r \in Syncing) /\ mark' = [mark EXCEPT ![r] = NoMark]
        /\ UNCHANGED <<attended, badge, belts, together>>
    BY <1>14 DEF AbandonMark
  <2>2. broken' \in BOOLEAN
    BY <2>1
  <2> QED BY <1>4, <1>5, <2>1, <2>2, NoMarkIsIdle
<1> QED BY <1>7, <1>8, <1>9, <1>10, <1>12, <1>13, <1>14

LEMMA AttendanceKeepsAwards ==
    ASSUME AwardsIInv, NEW r \in Marks, NEW value \in Attendance, SaveAttended(r, value)
    PROVE  AwardsIInv'
<1>1. /\ mark \in [Marks -> MarkRecord] /\ attended \in [Places -> Attendance]
      /\ mark[r].at = "loaded"
  BY DEF AwardsIInv, AwardsTypeOK, MarkRecord, SaveAttended
<1>2. /\ attended' = [p \in Places |-> IF p \in mark[r].place /\ mark[r].saw # value
                                       THEN value ELSE attended[p]]
      /\ mark' = [q \in Marks |-> IF q = r THEN [NoMark EXCEPT !.at = "marked", !.alone = (Syncing = {})]
                                  ELSE [mark[q] EXCEPT !.alone = FALSE]]
      /\ broken' = (broken \/ Syncing # {})
      /\ UNCHANGED <<badge, belts, together>>
  BY DEF SaveAttended
<1>3. /\ mark'[r] \in MarkRecord /\ mark'[r].at = "marked" /\ mark'[r].belt = 0
      /\ mark'[r].alone = (Syncing = {})
  <2>1. PICK m \in MarkRecord : m = NoMark
    BY NoMarkIsIdle
  <2>2. PICK alone \in BOOLEAN : alone = (Syncing = {})
    OBVIOUS
  <2>3. mark'[r] = [m EXCEPT !.at = "marked", !.alone = alone]
    BY <1>2, <2>1, <2>2
  <2>4. /\ [m EXCEPT !.at = "marked", !.alone = alone] \in MarkRecord
        /\ [m EXCEPT !.at = "marked", !.alone = alone].at = "marked"
        /\ [m EXCEPT !.at = "marked", !.alone = alone].belt = m.belt
        /\ [m EXCEPT !.at = "marked", !.alone = alone].alone = alone
    BY DEF MarkRecord
  <2> QED BY <2>1, <2>2, <2>3, <2>4, NoMarkIsIdle
<1>4. \A q \in Marks \ {r} :
        /\ mark'[q] \in MarkRecord /\ mark'[q].at = mark[q].at /\ mark'[q].belt = mark[q].belt
        /\ mark'[q].alone = FALSE
  <2> SUFFICES ASSUME NEW q \in Marks \ {r}
               PROVE  /\ mark'[q] \in MarkRecord /\ mark'[q].at = mark[q].at
                      /\ mark'[q].belt = mark[q].belt /\ mark'[q].alone = FALSE
    OBVIOUS
  <2>1. PICK m \in MarkRecord : m = mark[q]
    BY <1>1
  <2>2. mark'[q] = [m EXCEPT !.alone = FALSE]
    BY <1>2, <2>1
  <2>3. /\ [m EXCEPT !.alone = FALSE] \in MarkRecord /\ [m EXCEPT !.alone = FALSE].at = m.at
        /\ [m EXCEPT !.alone = FALSE].belt = m.belt /\ [m EXCEPT !.alone = FALSE].alone = FALSE
    BY DEF MarkRecord
  <2> QED BY <2>1, <2>2, <2>3
<1>5. AwardsTypeOK'
  <2>1. mark' \in [Marks -> MarkRecord]
    <3>1. mark' = [q \in Marks |-> mark'[q]]
      BY <1>2
    <3> QED BY <1>3, <1>4, <3>1
  <2>2. attended' \in [Places -> Attendance]
    BY <1>1, <1>2
  <2>3. broken' \in BOOLEAN
    BY <1>2
  <2>4. /\ badge' \in [Thresholds -> Badge] /\ belts' \in [Levels -> 0..MaxBelts]
        /\ together' \in BOOLEAN
    BY <1>2 DEF AwardsIInv, AwardsTypeOK
  <2> QED BY <2>1, <2>2, <2>3, <2>4 DEF AwardsTypeOK, MarkRecord
<1>6. OneAwardsANewBelt' /\ BeltsGoUp'
  <2>1. belts' = belts /\ together' = together
    BY <1>2
  <2> QED BY <1>3, <1>4, <1>5, <2>1, BeltsStay
<1>7. r \notin Syncing /\ Syncing' = Syncing \cup {r}
  BY <1>1, <1>3, <1>4 DEF Syncing
<1>8. AloneSeesAll'
  <2> SUFFICES ASSUME NEW q \in Syncing'
               PROVE  IF mark'[q].alone
                      THEN /\ Syncing' = {q}
                           /\ mark'[q].at # "marked" => mark'[q].count = Present'
                           /\ mark'[q].at \notin {"marked", "counted"} => mark'[q].rows = badge'
                      ELSE broken'
    BY DEF AloneSeesAll
  <2>1. CASE q = r
    BY <1>2, <1>3, <1>7, <2>1
  <2>2. CASE q # r
    <3>1. Syncing # {} /\ mark'[q].alone = FALSE
      BY <1>4, <1>7, <2>2 DEF Syncing
    <3> QED BY <1>2, <3>1
  <2> QED BY <2>1, <2>2
<1>9. MilestonesFollowAttendance'
  BY <1>7 DEF MilestonesFollowAttendance
<1> QED BY <1>5, <1>6, <1>8, <1>9 DEF AwardsIInv

\* A request that ends with the belt it was about to award, if any.
LEMMA TheBeltIsAwarded ==
    ASSUME AwardsIInv, NEW r \in Marks, together' = together,
           mark' = [mark EXCEPT ![r] = NoMark],
           mark[r].belt > 0 => belts[mark[r].belt] < MaxBelts,
           belts' = [l \in Levels |-> belts[l] + IF l = mark[r].belt THEN 1 ELSE 0]
    PROVE  /\ mark' \in [Marks -> MarkRecord] /\ belts' \in [Levels -> 0..MaxBelts]
           /\ OneAwardsANewBelt' /\ BeltsGoUp'
<1>1. /\ mark \in [Marks -> MarkRecord] /\ TopBelt \in Nat /\ MaxBelts \in Nat
      /\ \A q \in Marks : mark[q].belt \in 0..TopBelt
      /\ \A l \in Levels : belts[l] \in 0..MaxBelts
  BY AwardsAssumption DEF AwardsIInv, AwardsTypeOK, MarkRecord
<1>2. /\ mark' \in [Marks -> MarkRecord] /\ mark'[r].at = "idle" /\ mark'[r].belt = 0
      /\ \A q \in Marks \ {r} : mark'[q] = mark[q]
  BY <1>1, NoMarkIsIdle
<1>3. PICK b \in 0..TopBelt : b = mark[r].belt
  BY <1>1
<1>4. \A l \in Levels : belts'[l] = IF l = b THEN belts[l] + 1 ELSE belts[l]
  BY <1>1, <1>3
<1>5. b > 0 => b \in Levels /\ belts[b] < MaxBelts
  BY <1>1, <1>3 DEF Levels
<1>6. belts' \in [Levels -> 0..MaxBelts]
  <2>1. \A l \in Levels : belts'[l] \in 0..MaxBelts
    BY <1>1, <1>4, <1>5 DEF Levels
  <2> QED BY <2>1
<1>7. \A q \in Marks : mark'[q].at = "award" => mark'[q].belt \in Levels
  BY <1>2 DEF AwardsIInv, OneAwardsANewBelt
<1>8. ASSUME ~together'
      PROVE  /\ \A q, s \in Marks : mark'[q].belt > 0 /\ mark'[s].belt > 0 => q = s
             /\ \A q \in Marks : mark'[q].belt > 0 => belts'[mark'[q].belt] = 0
             /\ \A l \in Levels : belts'[l] <= 1
  <2>1. /\ \A q, s \in Marks : mark[q].belt > 0 /\ mark[s].belt > 0 => q = s
        /\ \A q \in Marks : mark[q].belt > 0 => belts[mark[q].belt] = 0
        /\ \A l \in Levels : belts[l] <= 1
    BY <1>8 DEF AwardsIInv, OneAwardsANewBelt, BeltsGoUp
  <2>2. \A q, s \in Marks : mark'[q].belt > 0 /\ mark'[s].belt > 0 => q = s
    BY <1>2, <2>1
  <2>3. \A l \in Levels : belts'[l] <= 1
    BY <1>1, <1>3, <1>4, <2>1 DEF Levels
  <2>4. ASSUME NEW q \in Marks, mark'[q].belt > 0 PROVE belts'[mark'[q].belt] = 0
    <3>1. q # r /\ mark'[q] = mark[q]
      BY <1>2, <2>4
    <3>2. ~(b > 0)
      BY <1>3, <2>1, <2>4, <3>1
    <3>3. PICK l \in Levels : l = mark[q].belt
      BY <1>1, <2>4, <3>1 DEF Levels
    <3>4. l # b /\ belts[l] = 0
      BY <1>1, <2>1, <2>4, <3>1, <3>2, <3>3 DEF Levels
    <3> QED BY <1>4, <3>1, <3>3, <3>4
  <2> QED BY <2>2, <2>3, <2>4
<1>9. OneAwardsANewBelt'
  BY <1>7, <1>8 DEF OneAwardsANewBelt
<1>10. BeltsGoUp'
  BY <1>8 DEF BeltsGoUp
<1> QED BY <1>2, <1>6, <1>9, <1>10

LEMMA CommitKeepsAwards ==
    ASSUME AwardsIInv, NEW r \in Marks, CommitSync(r)
    PROVE  AwardsIInv'
<1>1. /\ mark[r].at = "granted" /\ attended' = attended /\ together' = together
      /\ mark[r].belt > 0 => belts[mark[r].belt] < MaxBelts
      /\ belts' = [l \in Levels |-> belts[l] + IF l = mark[r].belt THEN 1 ELSE 0]
      /\ badge' = [t \in Thresholds |-> IF t \in EarnedNow(mark[r]) THEN "earned"
                                        ELSE IF t \in NextUp(mark[r]) THEN "progress"
                                        ELSE badge[t]]
      /\ broken' = (broken /\ ~mark[r].alone)
      /\ mark' = [mark EXCEPT ![r] = NoMark]
  BY DEF CommitSync
<1>2. /\ mark' \in [Marks -> MarkRecord] /\ belts' \in [Levels -> 0..MaxBelts]
      /\ OneAwardsANewBelt' /\ BeltsGoUp'
  BY <1>1, TheBeltIsAwarded
<1>3. badge' \in [Thresholds -> Badge]
  <2>1. \A t \in Thresholds : badge[t] \in Badge
    BY DEF AwardsIInv, AwardsTypeOK
  <2> QED BY <1>1, <2>1 DEF Badge
<1>4. AwardsTypeOK'
  <2>1. broken' \in BOOLEAN
    BY <1>1
  <2>2. attended' \in [Places -> Attendance] /\ together' \in BOOLEAN
    BY <1>1 DEF AwardsIInv, AwardsTypeOK
  <2> QED BY <1>2, <1>3, <2>1, <2>2 DEF AwardsTypeOK, MarkRecord
<1>5. r \in Syncing /\ Syncing' = Syncing \ {r}
  <2>1. /\ mark \in [Marks -> MarkRecord] /\ mark'[r].at = "idle"
        /\ \A q \in Marks \ {r} : mark'[q] = mark[q]
    BY <1>1, NoMarkIsIdle DEF AwardsIInv, AwardsTypeOK, MarkRecord
  <2> QED BY <1>1, <2>1 DEF Syncing
<1>6. IF mark[r].alone
      THEN Syncing = {r} /\ mark[r].count = Present /\ mark[r].rows = badge
      ELSE broken
  BY <1>1, <1>5 DEF AwardsIInv, AloneSeesAll
<1>7. CASE mark[r].alone
  <2>1. Syncing' = {}
    BY <1>5, <1>6, <1>7
  <2>2. AloneSeesAll'
    BY <2>1 DEF AloneSeesAll
  <2>3. MilestonesFollowAttendance'
    <3> SUFFICES ASSUME NEW t \in Thresholds, t <= Present' PROVE badge'[t] = "earned"
      BY DEF MilestonesFollowAttendance
    <3>1. t <= Present
      BY <1>1 DEF Present
    <3>2. CASE badge[t] = "earned"
      <4>1. t \notin EarnedNow(mark[r]) /\ t \notin NextUp(mark[r])
        BY <1>6, <1>7, <3>2 DEF EarnedNow, NextUp, Unearned
      <4> QED BY <1>1, <3>2, <4>1
    <3>3. CASE badge[t] # "earned"
      <4>1. t \in EarnedNow(mark[r])
        BY <1>6, <1>7, <3>1, <3>3 DEF EarnedNow, Unearned
      <4> QED BY <1>1, <4>1
    <3> QED BY <3>2, <3>3
  <2> QED BY <1>2, <1>4, <2>2, <2>3 DEF AwardsIInv
<1>8. CASE ~mark[r].alone
  <2>1. broken'
    BY <1>1, <1>6, <1>8
  <2>2. \A q \in Syncing' : mark'[q].alone = mark[q].alone /\ ~mark[q].alone
    <3> SUFFICES ASSUME NEW q \in Syncing \ {r}
                 PROVE  mark'[q].alone = mark[q].alone /\ ~mark[q].alone
      BY <1>5
    <3>1. mark[q].alone => Syncing = {q}
      BY DEF AwardsIInv, AloneSeesAll
    <3>2. mark'[q] = mark[q]
      BY <1>1 DEF Syncing, AwardsIInv, AwardsTypeOK
    <3> QED BY <1>5, <3>1, <3>2
  <2>3. AloneSeesAll'
    BY <2>1, <2>2 DEF AloneSeesAll
  <2>4. MilestonesFollowAttendance'
    BY <2>1 DEF MilestonesFollowAttendance
  <2> QED BY <1>2, <1>4, <2>3, <2>4 DEF AwardsIInv
<1> QED BY <1>7, <1>8

LEMMA AwardingKeepsAwards ==
    ASSUME AwardsIInv, NEW r \in Marks, AwardBelt(r)
    PROVE  AwardsIInv'
<1>1. /\ mark[r].at = "award" /\ belts[mark[r].belt] < MaxBelts
      /\ belts' = [belts EXCEPT ![mark[r].belt] = @ + 1]
      /\ mark' = [mark EXCEPT ![r] = NoMark]
      /\ UNCHANGED <<attended, badge, broken, together>>
  BY DEF AwardBelt
<1>2. PICK b \in Levels : b = mark[r].belt
  BY <1>1 DEF AwardsIInv, OneAwardsANewBelt
<1>3. belts' = [l \in Levels |-> belts[l] + IF l = mark[r].belt THEN 1 ELSE 0]
  <2>1. belts \in [Levels -> 0..MaxBelts] /\ MaxBelts \in Nat
    BY AwardsAssumption DEF AwardsIInv, AwardsTypeOK
  <2>2. belts' = [belts EXCEPT ![b] = @ + 1]
    BY <1>1, <1>2
  <2>3. \A l \in Levels : belts[l] \in Int /\ belts[l] + 0 = belts[l]
    BY <2>1
  <2>4. belts' = [l \in Levels |-> IF l = b THEN belts[l] + 1 ELSE belts[l]]
    BY <2>1, <2>2
  <2>5. [l \in Levels |-> IF l = b THEN belts[l] + 1 ELSE belts[l]]
         = [l \in Levels |-> belts[l] + IF l = b THEN 1 ELSE 0]
    BY <2>3
  <2> QED BY <1>2, <2>4, <2>5
<1>4. /\ mark' \in [Marks -> MarkRecord] /\ belts' \in [Levels -> 0..MaxBelts]
      /\ OneAwardsANewBelt' /\ BeltsGoUp'
  BY <1>1, <1>3, TheBeltIsAwarded
<1>5. AwardsTypeOK'
  BY <1>1, <1>4 DEF AwardsIInv, AwardsTypeOK, MarkRecord
<1>6. AloneSeesAll' /\ MilestonesFollowAttendance'
  <2>1. r \notin Syncing
    BY <1>1 DEF Syncing
  <2>2. broken' = (broken \/ r \in Syncing)
    BY <1>1, <2>1 DEF AwardsIInv, AwardsTypeOK
  <2>3. mark'[r].at = "idle" /\ \A q \in Marks \ {r} : mark'[q] = mark[q]
    BY <1>1, NoMarkIsIdle DEF AwardsIInv, AwardsTypeOK
  <2> QED BY <1>1, <2>2, <2>3, SyncEnds
<1> QED BY <1>4, <1>5, <1>6 DEF AwardsIInv

LEMMA NextAwards == AwardsIInv /\ [AwardsNext]_awardVars => AwardsIInv'
<1> SUFFICES ASSUME AwardsIInv, [AwardsNext]_awardVars PROVE AwardsIInv'
  OBVIOUS
<1>1. CASE UNCHANGED awardVars
  BY <1>1 DEF awardVars, AwardsIInv, AwardsTypeOK, OneAwardsANewBelt, BeltsGoUp, AloneSeesAll,
       MilestonesFollowAttendance, Syncing, Present
<1>2. ASSUME NEW r \in Marks,
             \/ \E p \in Places : LoadPlace(r, p)
             \/ CountAttended(r) \/ LoadBadges(r) \/ SaveBadges(r) \/ GrantBelt(r)
             \/ \E level \in Levels : CheckBelt(r, level)
             \/ AbandonMark(r)
      PROVE  AwardsIInv'
  BY <1>2, MarkingKeepsAwards
<1>3. ASSUME NEW r \in Marks, NEW value \in Attendance, SaveAttended(r, value) PROVE AwardsIInv'
  BY <1>3, AttendanceKeepsAwards
<1>4. ASSUME NEW r \in Marks, CommitSync(r) PROVE AwardsIInv'
  BY <1>4, CommitKeepsAwards
<1>5. ASSUME NEW r \in Marks, AwardBelt(r) PROVE AwardsIInv'
  BY <1>5, AwardingKeepsAwards
<1> QED BY <1>1, <1>2, <1>3, <1>4, <1>5 DEF AwardsNext

\* What the child wears and has earned is what its history says (mark_child,
\* sync_milestones and award_belt), for any number of places, of milestones
\* and of requests of the team at one time.
THEOREM MilestonesAndBeltsAreKept == AwardsSpec => []AwardsInv
<1>1. AwardsIInv => AwardsInv
  BY DEF AwardsIInv, AwardsInv
<1> QED BY InitAwards, NextAwards, <1>1, PTL DEF AwardsSpec

-----------------------------------------------------------------------------
(* Erasure, the log and the replay *)

\* A database in which the rows that are found of who was erased are empty, and
\* a volunteer is cleaned where another is erased; the child's rows do not outlive it.
SoundDb(d) ==
    /\ d \in Databases
    /\ \A p \in d.guards \cup d.asked \cup d.mails : d.person[p] = "whole"
    /\ \A p \in Logins : /\ d.person[p] = "erased" => d.profile[p] = "none"
                         /\ d.person[p] = "cleaned" => d.profile[p] # "hidden"
    /\ d.person[Kid] # "whole" =>
         d.guards = {} /\ d.asked = {} /\ d.person[KidLogin] # "whole"
    /\ \A a \in Parents : /\ d.person[a] = "cleaned" => a \in Volunteers
                          /\ d.person[a] = "erased" => a \notin Volunteers

\* Everyone of `who` is erased, and nobody else but by an erasure.
Erases(d, e, who) ==
    /\ SoundDb(e)
    /\ \A p \in People : e.person[p] = d.person[p] \/ e.person[p] \in {"erased", "cleaned"}
    /\ \A p \in who : e.person[p] \in {"erased", "cleaned"}

Record == [who : People, visible : BOOLEAN]

\* A volunteer's record says that its name stays.
RecordFits(r) == r.who \in Parents => (r.visible = TRUE <=> r.who \in Volunteers)

\* Who is erased since the last restore at the latest, the child's login with
\* the child: nobody is recorded twice in that time.
Closed ==
    {a \in Parents : db.person[a] \in {"erased", "cleaned"}}
        \cup (IF db.person[Kid] \in {"erased", "cleaned"} THEN {Kid, KidLogin} ELSE {})

Settled(p) == db.person[p] # "whole" \/ p \in fresh

\* Who is in the log before the replay's next record, or came to it since the
\* replay began, is erased.
ReplayFits ==
    replay # NoReplay =>
        /\ replay \in [next : Nat, last : Nat]
        /\ 1 <= replay.next /\ replay.next <= replay.last /\ replay.last <= Len(records)
        /\ \A i \in DOMAIN records :
              i < replay.next \/ i > replay.last => Settled(records[i].who)

LogFits ==
    /\ records \in Seq(Record)
    /\ \A i \in DOMAIN records : RecordFits(records[i]) /\ records[i].who \in taken
    /\ \A p \in taken : Recorded(p)
    /\ Len(records) <= restores * Cardinality(People) + Cardinality(Closed)

ErasureIInv ==
    /\ SoundDb(db)
    /\ \A d \in backup : SoundDb(d)
    /\ backup = {} \/ \E d \in Databases : backup = {d}
    /\ restores \in 0..MaxRestores
    /\ taken \subseteq People /\ fresh \subseteq taken /\ caughtUp \in BOOLEAN
    /\ LogFits
    /\ ReplayFits
    /\ caughtUp = TRUE => \A p \in taken : Settled(p)

LEMMA PeopleApart ==
    /\ People = Parents \cup {Kid, KidLogin} /\ Logins = Parents \cup {KidLogin}
    /\ Kid # KidLogin /\ Kid \notin Parents /\ KidLogin \notin Parents /\ Kid \notin Logins
    /\ Logins \subseteq People /\ Volunteers \subseteq Parents /\ MaxRestores \in Nat
BY ErasureAssumption DEF People, Logins

LEMMA PeopleAreFinite == IsFiniteSet(People) /\ Cardinality(People) \in Nat
<1>1. IsFiniteSet(Parents \cup {Kid})
  BY ErasureAssumption, FS_AddElement
<1>2. IsFiniteSet((Parents \cup {Kid}) \cup {KidLogin})
  BY <1>1, FS_AddElement
<1>3. People = (Parents \cup {Kid}) \cup {KidLogin}
  BY DEF People
<1> QED BY <1>2, <1>3, FS_CardinalityType

LEMMA ClosedIsFinite ==
    /\ Closed \subseteq People /\ IsFiniteSet(Closed)
    /\ Cardinality(Closed) \in Nat /\ Cardinality(Closed) <= Cardinality(People)
<1>1. Closed \subseteq People
  BY PeopleApart DEF Closed
<1> QED BY <1>1, PeopleAreFinite, FS_Subset, FS_CardinalityType

LEMMA ErasureInitOK == ErasureInit => ErasureIInv
<1> SUFFICES ASSUME ErasureInit PROVE ErasureIInv
  OBVIOUS
<1>1. /\ db = [person |-> [p \in People |-> "absent"], profile |-> [p \in Logins |-> "none"],
               guards |-> {}, mails |-> {}, asked |-> {}]
      /\ backup = {} /\ records = <<>> /\ replay = NoReplay
      /\ restores = 0 /\ taken = {} /\ fresh = {} /\ caughtUp = TRUE
  BY DEF ErasureInit
<1>2. db \in Databases
  BY <1>1 DEF Databases
<1>3. /\ db.guards = {} /\ db.asked = {} /\ db.mails = {}
      /\ \A p \in People : db.person[p] = "absent"
  BY <1>1
<1>4. SoundDb(db)
  BY <1>2, <1>3, PeopleApart DEF SoundDb
<1>5. records \in Seq(Record) /\ Len(records) = 0 /\ DOMAIN records = {}
  BY <1>1
<1>6. LogFits
  <2>1. restores * Cardinality(People) = 0
    BY <1>1, PeopleAreFinite
  <2> QED BY <1>1, <1>5, <2>1, ClosedIsFinite DEF LogFits
<1> QED BY <1>1, <1>4, <1>6, PeopleApart DEF ErasureIInv, ReplayFits

LEMMA ErasureIInvImplies == ErasureIInv => ErasureInv
<1> SUFFICES ASSUME ErasureIInv PROVE ErasureInv
  OBVIOUS
<1>1. SoundDb(db) /\ db \in Databases
  BY DEF ErasureIInv, SoundDb
<1>2. Len(records) \in Nat /\ Len(records) <= MaxRecords
  <2>1. /\ Len(records) \in Nat /\ restores \in Nat /\ restores <= MaxRestores
        /\ Len(records) <= restores * Cardinality(People) + Cardinality(Closed)
    BY PeopleApart DEF ErasureIInv, LogFits
  <2>2. /\ Cardinality(Closed) \in Nat /\ Cardinality(People) \in Nat
        /\ Cardinality(Closed) <= Cardinality(People)
    BY ClosedIsFinite, PeopleAreFinite
  <2>3. ASSUME NEW c \in Nat, NEW r \in Nat, NEW m \in Nat, r <= m
        PROVE  r * c + c <= (m + 1) * c /\ r * c \in Nat /\ (m + 1) * c \in Nat
    BY <2>3
  <2>4. /\ restores * Cardinality(People) + Cardinality(People) <= (MaxRestores + 1) * Cardinality(People)
        /\ restores * Cardinality(People) \in Nat /\ (MaxRestores + 1) * Cardinality(People) \in Nat
    BY <2>1, <2>2, <2>3, PeopleApart
  <2> QED BY <2>1, <2>2, <2>4 DEF MaxRecords
<1>3. ErasureTypeOK
  <2>1. backup \subseteq Databases /\ Cardinality(backup) <= 1
    <3>1. CASE backup = {}
      BY <3>1, FS_EmptySet
    <3>2. CASE \E d \in Databases : backup = {d}
      BY <3>2, FS_Singleton
    <3> QED BY <3>1, <3>2 DEF ErasureIInv
  <2>2. replay \in [next : 0..MaxRecords, last : 0..MaxRecords]
    <3>0. MaxRecords \in Nat
      BY PeopleAreFinite, PeopleApart DEF MaxRecords
    <3>1. CASE replay = NoReplay
      BY <3>0, <3>1 DEF NoReplay
    <3>2. CASE replay # NoReplay
      <4>1. /\ replay \in [next : Nat, last : Nat] /\ replay.next \in Nat /\ replay.last \in Nat
            /\ 1 <= replay.next /\ replay.next <= replay.last /\ replay.last <= Len(records)
        BY <3>2 DEF ErasureIInv, ReplayFits
      <4>2. replay.next \in 0..MaxRecords /\ replay.last \in 0..MaxRecords
        BY <1>2, <3>0, <4>1
      <4> QED BY <4>1, <4>2
    <3> QED BY <3>1, <3>2
  <2>3. records \in Seq([who : People, visible : BOOLEAN])
    BY DEF ErasureIInv, LogFits, Record
  <2> QED BY <1>1, <1>2, <2>1, <2>2, <2>3 DEF ErasureTypeOK, ErasureIInv
<1>4. FoundRowsAreEmptied
  BY <1>1, PeopleApart DEF FoundRowsAreEmptied, SoundDb, Gone, Whole
<1>5. ErasedStaysErased
  BY DEF ErasedStaysErased, ErasureIInv, Settled, Whole
<1>6. ReplayLeavesTheSame
  BY <1>1 DEF ReplayLeavesTheSame, SoundDb, Gone
<1> QED BY <1>3, <1>4, <1>5, <1>6 DEF ErasureInv

LEMMA DatabaseFields ==
    ASSUME NEW d \in Databases
    PROVE  /\ d.person \in [People -> {"absent", "whole", "erased", "cleaned"}]
           /\ d.profile \in [Logins -> {"none", "hidden", "shown"}]
           /\ d.guards \subseteq Parents /\ d.mails \subseteq Logins /\ d.asked \subseteq Parents
BY DEF Databases

LEMMA DatabaseAgain ==
    ASSUME NEW person \in [People -> {"absent", "whole", "erased", "cleaned"}],
           NEW profile \in [Logins -> {"none", "hidden", "shown"}],
           NEW guards \in SUBSET Parents, NEW mails \in SUBSET Logins, NEW asked \in SUBSET Parents,
           NEW d, d = [person |-> person, profile |-> profile, guards |-> guards,
                       mails |-> mails, asked |-> asked]
    PROVE  d \in Databases
BY DEF Databases

\* _Erasure.run empties the rows it finds of whom it erases, given that the
\* child's login goes with the child and that only a volunteer keeps its name.
LEMMA RunErases ==
    ASSUME NEW d, SoundDb(d), NEW accounts \in SUBSET Logins, NEW kids \in SUBSET {Kid},
           NEW visible \in BOOLEAN,
           \A a \in accounts \cap Parents : visible = TRUE <=> a \in Volunteers,
           Kid \in kids => KidLogin \in accounts \/ d.person[KidLogin] # "whole"
    PROVE  Erases(d, Erased(d, accounts, kids, visible), accounts \cup kids)
<1> DEFINE e == Erased(d, accounts, kids, visible)
           gone == AddressesOf(d, accounts)
           person == [p \in People |-> IF p \in accounts THEN Remains(d, p, visible)
                                       ELSE IF p \in kids THEN "erased" ELSE d.person[p]]
           profile == [p \in Logins |-> IF p \in accounts THEN ProfileLeft(d, p, visible)
                                        ELSE d.profile[p]]
           guards == IF kids # {} THEN {} ELSE d.guards \ accounts
           mails == d.mails \ accounts
           asked == IF kids # {} THEN {} ELSE d.asked \ gone
<1>1. e = [person |-> person, profile |-> profile, guards |-> guards, mails |-> mails, asked |-> asked]
  BY DEF Erased
<1>2. /\ e.person = person /\ e.profile = profile /\ e.guards = guards
      /\ e.mails = mails /\ e.asked = asked
  BY <1>1
<1>3. d \in Databases
  BY DEF SoundDb
<1>4. \A p \in People : Remains(d, p, visible) \in {"erased", "cleaned"}
  BY DEF Remains
<1>5. person \in [People -> {"absent", "whole", "erased", "cleaned"}]
  BY <1>3, <1>4, DatabaseFields
<1>6. \A p \in Logins : ProfileLeft(d, p, visible) \in {"none", "shown"}
  BY DEF ProfileLeft
<1>7. profile \in [Logins -> {"none", "hidden", "shown"}]
  BY <1>3, <1>6, DatabaseFields
<1>8. guards \in SUBSET Parents /\ mails \in SUBSET Logins /\ asked \in SUBSET Parents
  BY <1>3, DatabaseFields
<1>9. e \in Databases
  BY <1>1, <1>5, <1>7, <1>8, DatabaseAgain
<1>10. \A p \in People : /\ p \in accounts => e.person[p] = Remains(d, p, visible)
                         /\ p \notin accounts /\ p \in kids => e.person[p] = "erased"
                         /\ p \notin accounts \cup kids => e.person[p] = d.person[p]
  BY <1>2
<1>11. \A p \in Logins : e.profile[p] = IF p \in accounts THEN ProfileLeft(d, p, visible)
                                        ELSE d.profile[p]
  BY <1>2
<1>12. \A p \in accounts : d.person[p] = "whole" => p \in gone
  BY DEF AddressesOf
<1>13. /\ \A p \in e.guards : p \in d.guards /\ p \notin accounts
       /\ \A p \in e.mails : p \in d.mails /\ p \notin accounts
       /\ \A p \in e.asked : p \in d.asked /\ p \notin gone
       /\ kids # {} => e.guards = {} /\ e.asked = {}
       /\ kids = {} => e.guards \subseteq d.guards /\ e.asked \subseteq d.asked
  BY <1>2
<1> HIDE DEF e, gone, person, profile, guards, mails, asked
<1>14. \A p \in e.guards \cup e.asked \cup e.mails : e.person[p] = "whole"
  <2> SUFFICES ASSUME NEW p \in e.guards \cup e.asked \cup e.mails PROVE e.person[p] = "whole"
    OBVIOUS
  <2>1. p \in d.guards \cup d.asked \cup d.mails /\ p \in Logins
    BY <1>3, <1>13, DatabaseFields, PeopleApart
  <2>2. d.person[p] = "whole"
    BY <2>1 DEF SoundDb
  <2>3. p \notin accounts /\ p \notin kids /\ p \in People
    BY <1>12, <1>13, <2>1, <2>2, PeopleApart
  <2> QED BY <1>10, <2>2, <2>3
<1>15. ASSUME NEW p \in Logins
       PROVE  /\ e.person[p] = "erased" => e.profile[p] = "none"
              /\ e.person[p] = "cleaned" => e.profile[p] # "hidden"
  <2>1. CASE p \in accounts
    <3>1. e.person[p] = Remains(d, p, visible) /\ e.profile[p] = ProfileLeft(d, p, visible)
      BY <1>10, <1>11, <2>1, PeopleApart
    <3>2. d.person[p] = "erased" => d.profile[p] = "none"
      BY DEF SoundDb
    <3> QED BY <3>1, <3>2 DEF Remains, ProfileLeft
  <2>2. CASE p \notin accounts
    <3>1. p \notin kids /\ p \in People
      BY PeopleApart
    <3>2. e.person[p] = d.person[p] /\ e.profile[p] = d.profile[p]
      BY <1>10, <1>11, <2>2, <3>1
    <3> QED BY <3>2 DEF SoundDb
  <2> QED BY <2>1, <2>2
<1>16. e.person[Kid] # "whole" =>
         e.guards = {} /\ e.asked = {} /\ e.person[KidLogin] # "whole"
  <2> SUFFICES ASSUME e.person[Kid] # "whole"
               PROVE  e.guards = {} /\ e.asked = {} /\ e.person[KidLogin] # "whole"
    OBVIOUS
  <2>0. Kid \in People /\ KidLogin \in People /\ Kid \notin accounts /\ KidLogin \notin kids
    BY PeopleApart
  <2>1. CASE Kid \in kids
    BY <1>4, <1>10, <1>13, <2>0, <2>1
  <2>2. CASE Kid \notin kids
    <3>1. d.person[Kid] # "whole" /\ kids = {}
      BY <1>10, <2>0, <2>2
    <3>2. d.guards = {} /\ d.asked = {} /\ d.person[KidLogin] # "whole"
      BY <3>1 DEF SoundDb
    <3> QED BY <1>4, <1>10, <1>13, <2>0, <3>1, <3>2
  <2> QED BY <2>1, <2>2
<1>17. ASSUME NEW a \in Parents
       PROVE  /\ e.person[a] = "cleaned" => a \in Volunteers
              /\ e.person[a] = "erased" => a \notin Volunteers
  <2>0. a \in People /\ a \notin kids
    BY PeopleApart
  <2>1. /\ d.person[a] = "cleaned" => a \in Volunteers
        /\ d.person[a] = "erased" => a \notin Volunteers
    BY DEF SoundDb
  <2>2. CASE a \in accounts
    <3>1. e.person[a] = Remains(d, a, visible) /\ (visible = TRUE <=> a \in Volunteers)
      BY <1>10, <2>0, <2>2
    <3> QED BY <2>1, <3>1 DEF Remains
  <2>3. CASE a \notin accounts
    BY <1>10, <2>0, <2>1, <2>3
  <2> QED BY <2>2, <2>3
<1>18. SoundDb(e)
  BY <1>9, <1>14, <1>15, <1>16, <1>17 DEF SoundDb
<1>19. /\ \A p \in People : e.person[p] = d.person[p] \/ e.person[p] \in {"erased", "cleaned"}
       /\ \A p \in accounts \cup kids : e.person[p] \in {"erased", "cleaned"}
  BY <1>4, <1>10, PeopleApart
<1>20. Erases(d, e, accounts \cup kids)
  BY <1>18, <1>19 DEF Erases
<1> QED BY <1>20 DEF e

\* Whose account is erased: with its child only if it is the last guardian.
LEMMA PersonErases ==
    ASSUME SoundDb(db), NEW a \in Logins, NEW visible \in BOOLEAN,
           a \in Parents => (visible = TRUE <=> a \in Volunteers)
    PROVE  /\ ErasedWith(a) \subseteq {Kid} /\ LoginsOf(db, ErasedWith(a)) \subseteq {KidLogin}
           /\ ErasedWith(a) # {} => db.person[Kid] = "whole"
           /\ Erases(db, PersonErased(a, visible), {a} \cup LoginsOf(db, ErasedWith(a)) \cup ErasedWith(a))
<1> DEFINE kids == ErasedWith(a)
           logins == LoginsOf(db, kids)
<1>1. kids \subseteq {Kid} /\ (kids # {} => db.guards = {a})
  BY DEF ErasedWith, SoleChildren
<1>2. logins \subseteq {KidLogin}
  BY DEF LoginsOf
<1>3. kids # {} => db.person[Kid] = "whole"
  BY <1>1 DEF SoundDb
<1>4. Kid \in kids => KidLogin \in logins \/ db.person[KidLogin] # "whole"
  BY <1>3 DEF LoginsOf
<1>5. {a} \cup logins \in SUBSET Logins
  BY <1>2, PeopleApart
<1>6. \A b \in ({a} \cup logins) \cap Parents : visible = TRUE <=> b \in Volunteers
  BY <1>2, PeopleApart
<1>7. PersonErased(a, visible) = Erased(db, {a} \cup logins, kids, visible)
  BY DEF PersonErased
<1> HIDE DEF kids, logins
<1>8. Erases(db, Erased(db, {a} \cup logins, kids, visible), ({a} \cup logins) \cup kids)
  BY <1>1, <1>4, <1>5, <1>6, RunErases
<1>9. Erases(db, PersonErased(a, visible), {a} \cup logins \cup kids)
  BY <1>7, <1>8
<1> QED BY <1>1, <1>2, <1>3, <1>9 DEF kids, logins

LEMMA ChildErases ==
    ASSUME SoundDb(db)
    PROVE  /\ LoginsOf(db, {Kid}) \subseteq {KidLogin}
           /\ Erases(db, ChildErased, LoginsOf(db, {Kid}) \cup {Kid})
<1> DEFINE logins == LoginsOf(db, {Kid})
<1>1. logins \subseteq {KidLogin}
  BY DEF LoginsOf
<1>2. KidLogin \in logins \/ db.person[KidLogin] # "whole"
  BY DEF LoginsOf, SoundDb
<1>3. logins \in SUBSET Logins /\ \A b \in logins \cap Parents : FALSE = TRUE <=> b \in Volunteers
  BY <1>1, PeopleApart
<1>4. ChildErased = Erased(db, logins, {Kid}, FALSE)
  BY DEF ChildErased
<1> HIDE DEF logins
<1>5. Erases(db, Erased(db, logins, {Kid}, FALSE), logins \cup {Kid})
  BY <1>2, <1>3, RunErases
<1> QED BY <1>1, <1>4, <1>5 DEF logins

-----------------------------------------------------------------------------
(* The log *)

\* Records of everyone of `who`, and of nobody else.
Grown(R, who) ==
    /\ R \in Seq(Record)
    /\ \A i \in DOMAIN R : RecordFits(R[i]) /\ R[i].who \in who
    /\ \A p \in who : \E i \in DOMAIN R : R[i].who = p

LEMMA OneRecord ==
    ASSUME NEW r \in Record, RecordFits(r)
    PROVE  Grown(<<r>>, {r.who}) /\ Len(<<r>>) = 1
BY DEF Grown

LEMMA GrownTogether ==
    ASSUME NEW R, NEW A, Grown(R, A), NEW S, NEW B, Grown(S, B)
    PROVE  Grown(R \o S, A \cup B) /\ Len(R \o S) = Len(R) + Len(S)
<1>1. R \in Seq(Record) /\ S \in Seq(Record) /\ Len(R) \in Nat /\ Len(S) \in Nat
  BY LenProperties DEF Grown
<1>2. /\ R \o S \in Seq(Record) /\ Len(R \o S) = Len(R) + Len(S)
      /\ \A i \in 1..Len(R) + Len(S) : (R \o S)[i] = IF i <= Len(R) THEN R[i] ELSE S[i - Len(R)]
  BY <1>1, ConcatProperties
<1>3. DOMAIN R = 1..Len(R) /\ DOMAIN S = 1..Len(S) /\ DOMAIN (R \o S) = 1..Len(R) + Len(S)
  BY <1>1, <1>2, LenProperties
<1>4. ASSUME NEW i \in DOMAIN (R \o S)
      PROVE  RecordFits((R \o S)[i]) /\ (R \o S)[i].who \in A \cup B
  <2>1. CASE i <= Len(R)
    <3>1. i \in DOMAIN R /\ (R \o S)[i] = R[i]
      BY <1>1, <1>2, <1>3, <2>1
    <3> QED BY <3>1 DEF Grown
  <2>2. CASE ~(i <= Len(R))
    <3>1. i - Len(R) \in DOMAIN S /\ (R \o S)[i] = S[i - Len(R)]
      BY <1>1, <1>2, <1>3, <2>2
    <3> QED BY <3>1 DEF Grown
  <2> QED BY <2>1, <2>2
<1>5. ASSUME NEW p \in A \cup B PROVE \E i \in DOMAIN (R \o S) : (R \o S)[i].who = p
  <2>1. CASE p \in A
    <3>1. PICK i \in DOMAIN R : R[i].who = p
      BY <2>1 DEF Grown
    <3>2. i \in DOMAIN (R \o S) /\ (R \o S)[i] = R[i]
      BY <1>1, <1>2, <1>3
    <3> QED BY <3>1, <3>2
  <2>2. CASE p \in B
    <3>1. PICK i \in DOMAIN S : S[i].who = p
      BY <2>2 DEF Grown
    <3>2. i + Len(R) \in DOMAIN (R \o S) /\ (R \o S)[i + Len(R)] = S[i]
      BY <1>1, <1>2, <1>3
    <3> QED BY <3>1, <3>2
  <2> QED BY <2>1, <2>2
<1> QED BY <1>2, <1>4, <1>5 DEF Grown

LEMMA ListOfOne ==
    ASSUME NEW x, NEW S, S \subseteq {x}
    PROVE  SetToList(S) = IF S = {} THEN <<>> ELSE <<x>>
<1>1. CASE S = {}
  BY <1>1 DEF SetToList
<1>2. CASE S # {}
  <2>1. S = {x}
    BY <1>2
  <2>2. (CHOOSE p \in S : TRUE) = x
    BY <2>1
  <2> QED BY <1>2, <2>2 DEF SetToList
<1> QED BY <1>1, <1>2

LEMMA ListIsLogged ==
    ASSUME NEW w \in Seq({Kid, KidLogin}), NEW R,
           R = [i \in DOMAIN w |-> [who |-> w[i], visible |-> FALSE]],
           NEW who, \A i \in 1..Len(w) : w[i] \in who, \A p \in who : \E i \in 1..Len(w) : w[i] = p
    PROVE  Grown(R, who) /\ Len(R) = Len(w)
<1>1. Len(w) \in Nat /\ DOMAIN w = 1..Len(w) /\ \A i \in 1..Len(w) : w[i] \in {Kid, KidLogin}
  BY LenProperties, ElementOfSeq
<1>2. \A p \in {Kid, KidLogin} : /\ [who |-> p, visible |-> FALSE] \in Record
                                 /\ RecordFits([who |-> p, visible |-> FALSE])
  BY PeopleApart DEF Record, RecordFits
<1>3. \A i \in 1..Len(w) : R[i] \in Record /\ RecordFits(R[i]) /\ R[i].who = w[i]
  BY <1>1, <1>2
<1>4. R \in [1..Len(w) -> Record]
  BY <1>1, <1>3
<1>5. R \in Seq(Record) /\ Len(R) = Len(w) /\ DOMAIN R = 1..Len(w)
  BY <1>1, <1>4, SeqDef
<1> QED BY <1>3, <1>5 DEF Grown

\* The records of the child, and its login, that went with someone.
LEMMA WhatIsLogged ==
    ASSUME NEW logins \in SUBSET {KidLogin}, NEW kids \in SUBSET {Kid}
    PROVE  /\ Grown(RecordsOf(logins, kids), logins \cup kids)
           /\ Len(RecordsOf(logins, kids)) =
                (IF logins = {} THEN 0 ELSE 1) + (IF kids = {} THEN 0 ELSE 1)
<1> DEFINE w == SetToList(logins) \o SetToList(kids)
<1>1. RecordsOf(logins, kids) = [i \in DOMAIN w |-> [who |-> w[i], visible |-> FALSE]]
  BY DEF RecordsOf
<1>2. /\ SetToList(logins) = IF logins = {} THEN <<>> ELSE <<KidLogin>>
      /\ SetToList(kids) = IF kids = {} THEN <<>> ELSE <<Kid>>
  BY ListOfOne
<1>3. SetToList(logins) \in Seq({Kid, KidLogin}) /\ SetToList(kids) \in Seq({Kid, KidLogin})
  <2>1. <<>> \in Seq({Kid, KidLogin}) /\ <<Kid>> \in Seq({Kid, KidLogin})
        /\ <<KidLogin>> \in Seq({Kid, KidLogin})
    OBVIOUS
  <2>2. /\ SetToList(logins) = <<>> \/ SetToList(logins) = <<KidLogin>>
        /\ SetToList(kids) = <<>> \/ SetToList(kids) = <<Kid>>
    BY <1>2
  <2> HIDE DEF w
  <2> QED BY <2>1, <2>2
<1>4. /\ Len(SetToList(logins)) = (IF logins = {} THEN 0 ELSE 1)
      /\ Len(SetToList(kids)) = (IF kids = {} THEN 0 ELSE 1)
      /\ \A i \in 1..Len(SetToList(logins)) : SetToList(logins)[i] \in logins
      /\ \A i \in 1..Len(SetToList(kids)) : SetToList(kids)[i] \in kids
      /\ \A p \in logins : 1 \in 1..Len(SetToList(logins)) /\ SetToList(logins)[1] = p
      /\ \A p \in kids : 1 \in 1..Len(SetToList(kids)) /\ SetToList(kids)[1] = p
  BY <1>2
<1>5. /\ w \in Seq({Kid, KidLogin}) /\ Len(w) = Len(SetToList(logins)) + Len(SetToList(kids))
      /\ \A i \in 1..Len(SetToList(logins)) + Len(SetToList(kids)) :
           w[i] = IF i <= Len(SetToList(logins)) THEN SetToList(logins)[i]
                  ELSE SetToList(kids)[i - Len(SetToList(logins))]
  BY <1>3, ConcatProperties
<1> DEFINE l == Len(SetToList(logins))
           k == Len(SetToList(kids))
<1>6. l \in 0..1 /\ k \in 0..1
  BY <1>4
<1>7. ASSUME NEW i \in 1..Len(w) PROVE w[i] \in logins \cup kids
  <2>1. CASE i <= l
    <3>1. i \in 1..l /\ w[i] = SetToList(logins)[i]
      BY <1>5, <1>6, <2>1
    <3> QED BY <1>4, <3>1
  <2>2. CASE ~(i <= l)
    <3>1. i - l \in 1..k /\ w[i] = SetToList(kids)[i - l]
      BY <1>5, <1>6, <2>2
    <3> QED BY <1>4, <3>1
  <2> QED BY <2>1, <2>2
<1>8. ASSUME NEW p \in logins \cup kids PROVE \E i \in 1..Len(w) : w[i] = p
  <2>1. CASE p \in logins
    <3>1. 1 \in 1..Len(w) /\ w[1] = SetToList(logins)[1]
      BY <1>4, <1>5, <1>6, <2>1
    <3> QED BY <1>4, <2>1, <3>1
  <2>2. CASE p \in kids
    <3>1. /\ l + 1 \in 1..Len(w) /\ w[l + 1] = SetToList(kids)[l + 1 - l] /\ l + 1 - l = 1
      BY <1>4, <1>5, <1>6, <2>2
    <3> QED BY <1>4, <2>2, <3>1
  <2> QED BY <2>1, <2>2
<1> HIDE DEF w
<1>9. Grown(RecordsOf(logins, kids), logins \cup kids) /\ Len(RecordsOf(logins, kids)) = Len(w)
  BY <1>1, <1>5, <1>7, <1>8, ListIsLogged
<1> QED BY <1>4, <1>5, <1>9

\* Who is closed stays so in an erasure, and who is erased becomes so.
LEMMA ClosedGrows ==
    ASSUME SoundDb(db), NEW who \in SUBSET People, Erases(db, db', who)
    PROVE  /\ Closed \subseteq Closed'
           /\ \A a \in who \cap Parents : a \in Closed'
           /\ Kid \in who => Kid \in Closed' /\ KidLogin \in Closed'
<1>1. \A p \in People : db.person[p] \in {"erased", "cleaned"} => db'.person[p] \in {"erased", "cleaned"}
  BY DEF Erases
<1>2. \A p \in who : db'.person[p] \in {"erased", "cleaned"}
  BY DEF Erases
<1> QED BY <1>1, <1>2, PeopleApart DEF Closed

LEMMA EraseStep ==
    ASSUME ErasureIInv, NEW who \in SUBSET People, Erases(db, db', who),
           NEW R, Grown(R, who), records' = records \o R, taken' = taken \cup who,
           UNCHANGED <<backup, replay, restores, fresh, caughtUp>>,
           Len(R) + Cardinality(Closed) <= Cardinality(Closed')
    PROVE  ErasureIInv'
<1>1. SoundDb(db') /\ \A p \in who : db'.person[p] # "whole"
  BY DEF Erases
<1>2. /\ records \in Seq(Record) /\ R \in Seq(Record) /\ Len(records) \in Nat /\ Len(R) \in Nat
  BY LenProperties DEF Grown, ErasureIInv, LogFits
<1>3. /\ records' \in Seq(Record) /\ Len(records') = Len(records) + Len(R)
      /\ \A i \in 1..Len(records) + Len(R) :
           records'[i] = IF i <= Len(records) THEN records[i] ELSE R[i - Len(records)]
  BY <1>2, ConcatProperties
<1>4. /\ DOMAIN records = 1..Len(records) /\ DOMAIN R = 1..Len(R)
      /\ DOMAIN records' = 1..Len(records) + Len(R)
  BY <1>2, <1>3, LenProperties
<1>5. ASSUME NEW i \in DOMAIN records'
      PROVE  \/ i \in DOMAIN records /\ i <= Len(records) /\ records'[i] = records[i]
             \/ /\ i > Len(records) /\ i - Len(records) \in DOMAIN R
                /\ records'[i] = R[i - Len(records)]
  BY <1>2, <1>3, <1>4
<1>6. \A i \in DOMAIN records : i \in DOMAIN records' /\ records'[i] = records[i]
  BY <1>2, <1>3, <1>4
<1>7. \A p \in who : Recorded(p)'
  <2> SUFFICES ASSUME NEW p \in who PROVE \E i \in DOMAIN records' : records'[i].who = p
    BY DEF Recorded
  <2>1. PICK i \in DOMAIN R : R[i].who = p
    BY DEF Grown
  <2>2. i + Len(records) \in DOMAIN records' /\ records'[i + Len(records)] = R[i]
    BY <1>2, <1>3, <1>4
  <2> QED BY <2>1, <2>2
<1>8. \A p \in taken : Recorded(p)'
  BY <1>6 DEF Recorded, ErasureIInv, LogFits
<1>9. \A i \in DOMAIN records' : RecordFits(records'[i]) /\ records'[i].who \in taken'
  BY <1>5 DEF Grown, ErasureIInv, LogFits
<1>10. Len(records') <= restores' * Cardinality(People) + Cardinality(Closed')
  <2>1. /\ Len(records) <= restores * Cardinality(People) + Cardinality(Closed)
        /\ restores' = restores /\ restores \in Nat
    BY DEF ErasureIInv, LogFits
  <2>2. restores * Cardinality(People) \in Nat
    BY <2>1, PeopleAreFinite
  <2>3. Cardinality(Closed) \in Nat /\ Cardinality(Closed') \in Nat
    <3>1. Closed' \subseteq People
      BY PeopleApart DEF Closed
    <3> QED BY <3>1, ClosedIsFinite, PeopleAreFinite, FS_Subset, FS_CardinalityType
  <2> QED BY <1>2, <1>3, <2>1, <2>2, <2>3
<1>11. LogFits'
  <2>1. Cardinality(Closed)' = Cardinality(Closed')
    OBVIOUS
  <2> QED BY <1>3, <1>7, <1>8, <1>9, <1>10, <2>1 DEF LogFits
<1>12. \A p \in People : Settled(p) => Settled(p)'
  BY DEF Erases, Settled
<1>13. \A p \in who : Settled(p)'
  BY <1>1 DEF Settled
<1>14. ReplayFits'
  <2> DEFINE Ok(p) == db'.person[p] # "whole" \/ p \in fresh'
  <2> SUFFICES ASSUME replay # NoReplay
               PROVE  /\ replay \in [next : Nat, last : Nat]
                      /\ 1 <= replay.next /\ replay.next <= replay.last
                      /\ replay.last <= Len(records')
                      /\ \A i \in DOMAIN records' :
                           i < replay.next \/ i > replay.last => Ok(records'[i].who)
    BY DEF ReplayFits, Settled
  <2>1. /\ replay \in [next : Nat, last : Nat] /\ replay.last \in Nat
        /\ 1 <= replay.next /\ replay.next <= replay.last /\ replay.last <= Len(records)
        /\ \A i \in DOMAIN records :
             i < replay.next \/ i > replay.last => Settled(records[i].who)
    BY DEF ErasureIInv, ReplayFits
  <2>2. \A i \in DOMAIN records : records[i].who \in People
    BY DEF ErasureIInv, LogFits
  <2>3. ASSUME NEW i \in DOMAIN records', i < replay.next \/ i > replay.last
        PROVE  Ok(records'[i].who)
    <3>1. CASE i \in DOMAIN records /\ records'[i] = records[i]
      BY <1>12, <2>1, <2>2, <2>3, <3>1 DEF Settled
    <3>2. CASE i - Len(records) \in DOMAIN R /\ records'[i] = R[i - Len(records)]
      BY <1>13, <3>2 DEF Grown, Settled
    <3> QED BY <1>5, <3>1, <3>2
  <2>4. replay.last <= Len(records')
    BY <1>2, <1>3, <2>1
  <2> QED BY <2>1, <2>3, <2>4
<1>15. caughtUp' = TRUE => \A p \in taken' : Settled(p)'
  BY <1>12, <1>13 DEF ErasureIInv
<1>16. /\ \A d \in backup' : SoundDb(d)
       /\ backup' = {} \/ \E d \in Databases : backup' = {d}
       /\ restores' \in 0..MaxRestores
       /\ taken' \subseteq People /\ fresh' \subseteq taken' /\ caughtUp' \in BOOLEAN
  BY DEF ErasureIInv
<1> QED BY <1>1, <1>11, <1>14, <1>15, <1>16 DEF ErasureIInv

LEMMA DeletePersonKeeps ==
    ASSUME ErasureIInv, NEW a \in Parents, DeletePerson(a)
    PROVE  ErasureIInv'
<1> DEFINE kids == ErasedWith(a)
           logins == LoginsOf(db, kids)
           keep == a \in Volunteers
           r == [who |-> a, visible |-> keep]
           R == <<r>> \o RecordsOf(logins, kids)
           who == {a} \cup (logins \cup kids)
<1>1. /\ db.person[a] = "whole" /\ db' = PersonErased(a, keep)
      /\ records' = Append(records, r) \o RecordsOf(logins, kids)
      /\ taken' = taken \cup {a} \cup logins \cup kids
      /\ UNCHANGED <<backup, replay, restores, fresh, caughtUp>>
  BY DEF DeletePerson, Whole
<1>2. SoundDb(db) /\ a \in Logins
  BY PeopleApart DEF ErasureIInv
<1>3. keep \in BOOLEAN /\ (keep = TRUE <=> a \in Volunteers)
  OBVIOUS
<1> HIDE DEF keep
<1>4. /\ kids \subseteq {Kid} /\ logins \subseteq {KidLogin}
      /\ kids # {} => db.person[Kid] = "whole"
      /\ Erases(db, PersonErased(a, keep), {a} \cup logins \cup kids)
  BY <1>3, <1>2, PersonErases
<1>5. kids = {} => logins = {}
  BY DEF LoginsOf
<1>6. r \in Record /\ RecordFits(r) /\ r.who = a
  BY <1>3, PeopleApart DEF Record, RecordFits
<1> HIDE DEF kids, logins, r
<1>7. {a} \cup logins \cup kids = who /\ taken \cup {a} \cup logins \cup kids = taken \cup who
  OBVIOUS
<1>8. Erases(db, db', who) /\ taken' = taken \cup who /\ who \in SUBSET People
  BY <1>1, <1>4, <1>7, PeopleApart
<1>9. /\ Grown(RecordsOf(logins, kids), logins \cup kids)
      /\ Len(RecordsOf(logins, kids)) =
           (IF logins = {} THEN 0 ELSE 1) + (IF kids = {} THEN 0 ELSE 1)
  BY <1>4, WhatIsLogged
<1>10. Grown(<<r>>, {a}) /\ Len(<<r>>) = 1
  BY <1>6, OneRecord
<1>11. Grown(R, who) /\ Len(R) = 1 + Len(RecordsOf(logins, kids))
  BY <1>9, <1>10, GrownTogether
<1>12. records' = records \o R
  <2>1. records \in Seq(Record) /\ <<r>> \in Seq(Record) /\ RecordsOf(logins, kids) \in Seq(Record)
    BY <1>9, <1>10 DEF Grown, ErasureIInv, LogFits
  <2>2. Append(records, r) = records \o <<r>>
    BY <1>6, <2>1
  <2> QED BY <1>1, <2>1, <2>2, ConcatAssociative
<1>13. a \in who /\ (kids # {} => Kid \in who)
  BY <1>4
<1> HIDE DEF R, who
<1>14. Len(R) + Cardinality(Closed) <= Cardinality(Closed')
  <2>1. Closed \subseteq Closed' /\ a \in Closed' /\ (Kid \in who => Kid \in Closed' /\ KidLogin \in Closed')
    BY <1>2, <1>8, <1>13, ClosedGrows
  <2>2. IsFiniteSet(Closed') /\ Cardinality(Closed') \in Nat
    <3>1. Closed' \subseteq People
      BY PeopleApart DEF Closed
    <3> QED BY <3>1, PeopleAreFinite, FS_Subset, FS_CardinalityType
  <2>3. a \notin Closed
    BY <1>1, PeopleApart DEF Closed
  <2>4. /\ IsFiniteSet(Closed \cup {a}) /\ Cardinality(Closed \cup {a}) = Cardinality(Closed) + 1
        /\ Cardinality(Closed) \in Nat
    BY <2>3, ClosedIsFinite, FS_AddElement
  <2>5. CASE kids = {}
    <3>1. Len(R) = 1
      BY <1>5, <1>9, <1>11, <2>5
    <3>2. Cardinality(Closed \cup {a}) <= Cardinality(Closed')
      BY <2>1, <2>2, FS_Subset
    <3> QED BY <2>2, <2>4, <3>1, <3>2
  <2>6. CASE kids # {}
    <3>1. Kid \in who /\ Len(R) \in Nat /\ Len(R) <= 3
      BY <1>9, <1>11, <1>13, <2>6
    <3>2. Kid \notin Closed \cup {a} /\ KidLogin \notin (Closed \cup {a}) \cup {Kid}
      BY <1>4, <2>6, PeopleApart DEF Closed
    <3>3. /\ IsFiniteSet((Closed \cup {a}) \cup {Kid})
          /\ Cardinality((Closed \cup {a}) \cup {Kid}) = Cardinality(Closed) + 2
      BY <2>4, <3>2, FS_AddElement
    <3>4. Cardinality(((Closed \cup {a}) \cup {Kid}) \cup {KidLogin}) = Cardinality(Closed) + 3
      <4> DEFINE S == (Closed \cup {a}) \cup {Kid}
      <4>1. IsFiniteSet(S) /\ Cardinality(S) = Cardinality(Closed) + 2 /\ KidLogin \notin S
        BY <3>2, <3>3
      <4> HIDE DEF S
      <4>2. Cardinality(S \cup {KidLogin}) = Cardinality(S) + 1
        BY <4>1, FS_AddElement
      <4>3. Cardinality(S \cup {KidLogin}) = Cardinality(Closed) + 3
        BY <2>4, <4>1, <4>2
      <4> QED BY <4>3 DEF S
    <3>5. Cardinality(((Closed \cup {a}) \cup {Kid}) \cup {KidLogin}) <= Cardinality(Closed')
      BY <2>1, <2>2, <3>1, FS_Subset
    <3> QED BY <2>2, <2>4, <3>1, <3>4, <3>5
  <2> QED BY <2>5, <2>6
<1> QED BY <1>1, <1>8, <1>11, <1>12, <1>14, EraseStep

LEMMA EraseOldChildKeeps ==
    ASSUME ErasureIInv, EraseOldChild
    PROVE  ErasureIInv'
<1> DEFINE logins == LoginsOf(db, {Kid})
           R == RecordsOf(logins, {Kid})
           who == logins \cup {Kid}
<1>1. /\ db.person[Kid] = "whole" /\ db' = ChildErased
      /\ records' = records \o R
      /\ taken' = taken \cup logins \cup {Kid}
      /\ UNCHANGED <<backup, replay, restores, fresh, caughtUp>>
  BY DEF EraseOldChild, Whole
<1>2. SoundDb(db)
  BY DEF ErasureIInv
<1>3. logins \subseteq {KidLogin} /\ Erases(db, ChildErased, logins \cup {Kid})
  BY <1>2, ChildErases
<1> HIDE DEF logins
<1>4. Erases(db, db', who) /\ taken' = taken \cup who /\ who \in SUBSET People
  BY <1>1, <1>3, PeopleApart
<1>5. Grown(R, who) /\ Len(R) = (IF logins = {} THEN 0 ELSE 1) + 1
  BY <1>3, WhatIsLogged
<1>6. Len(R) + Cardinality(Closed) <= Cardinality(Closed')
  <2>1. Closed \subseteq Closed' /\ Kid \in Closed' /\ KidLogin \in Closed'
    BY <1>2, <1>4, ClosedGrows
  <2>2. IsFiniteSet(Closed') /\ Cardinality(Closed') \in Nat
    <3>1. Closed' \subseteq People
      BY PeopleApart DEF Closed
    <3> QED BY <3>1, PeopleAreFinite, FS_Subset, FS_CardinalityType
  <2>3. Kid \notin Closed /\ KidLogin \notin Closed \cup {Kid}
    BY <1>1, PeopleApart DEF Closed
  <2>4. /\ IsFiniteSet(Closed \cup {Kid}) /\ Cardinality(Closed \cup {Kid}) = Cardinality(Closed) + 1
        /\ Cardinality(Closed) \in Nat
    BY <2>3, ClosedIsFinite, FS_AddElement
  <2>5. Cardinality((Closed \cup {Kid}) \cup {KidLogin}) = Cardinality(Closed) + 2
    BY <2>3, <2>4, FS_AddElement
  <2>6. Cardinality((Closed \cup {Kid}) \cup {KidLogin}) <= Cardinality(Closed')
    BY <2>1, <2>2, FS_Subset
  <2> QED BY <1>5, <2>2, <2>4, <2>5, <2>6
<1> HIDE DEF R, who
<1> QED BY <1>1, <1>4, <1>5, <1>6, EraseStep

-----------------------------------------------------------------------------
(* Everything else *)

LEMMA ClosedAgain ==
    ASSUME Closed \subseteq Closed'
    PROVE  /\ Cardinality(Closed) <= Cardinality(Closed') /\ Cardinality(Closed) \in Nat
           /\ Cardinality(Closed') \in Nat
<1>1. Closed' \subseteq People
  BY PeopleApart DEF Closed
<1>2. IsFiniteSet(Closed')
  BY <1>1, PeopleAreFinite, FS_Subset
<1> QED BY <1>2, ClosedIsFinite, FS_Subset, FS_CardinalityType

LEMMA LogKeeps ==
    ASSUME ErasureIInv, UNCHANGED <<records, restores, taken>>, Closed \subseteq Closed'
    PROVE  LogFits'
<1>1. LogFits /\ restores \in Nat
  BY DEF ErasureIInv
<1>2. Len(records) \in Nat /\ restores * Cardinality(People) \in Nat
  BY <1>1, PeopleAreFinite, LenProperties DEF LogFits
<1>3. Len(records) <= restores * Cardinality(People) + Cardinality(Closed)
  BY <1>1 DEF LogFits
<1>4. Len(records) <= restores * Cardinality(People) + Cardinality(Closed')
  BY <1>2, <1>3, ClosedAgain
<1>5. Cardinality(Closed)' = Cardinality(Closed')
  OBVIOUS
<1> QED BY <1>1, <1>4, <1>5 DEF LogFits, Recorded

\* What people do makes nobody whole whose rows are there; a row that is made
\* again for an id that was erased is another person's.
LEMMA PeopleStep ==
    ASSUME ErasureIInv, SoundDb(db'), fresh \subseteq fresh', fresh' \subseteq taken,
           UNCHANGED <<backup, records, replay, restores, taken, caughtUp>>,
           \A p \in People : \/ db'.person[p] = db.person[p]
                             \/ db.person[p] = "absent" /\ (p \in taken => p \in fresh')
    PROVE  ErasureIInv'
<1>1. \A p \in People : db.person[p] \in {"erased", "cleaned"} => db'.person[p] = db.person[p]
  OBVIOUS
<1>2. Closed \subseteq Closed'
  BY <1>1, PeopleApart DEF Closed
<1>3. LogFits'
  BY <1>2, LogKeeps
<1>4. taken \subseteq People /\ \A p \in taken : Settled(p) => Settled(p)'
  BY DEF ErasureIInv, Settled
<1>5. ReplayFits'
  <2>1. \A i \in DOMAIN records : records[i].who \in taken
    BY DEF ErasureIInv, LogFits
  <2> QED BY <1>4, <2>1 DEF ErasureIInv, ReplayFits, Settled
<1>6. caughtUp' = TRUE => \A p \in taken' : Settled(p)'
  BY <1>4 DEF ErasureIInv
<1> QED BY <1>3, <1>5, <1>6 DEF ErasureIInv

LEMMA NewKeeps ==
    ASSUME ErasureIInv, NEW p \in People, NEW d \in Databases, New(p, d),
           d.person = db.person, d.profile = db.profile, d.mails = db.mails, d.asked = db.asked,
           \A q \in d.guards : db.person[q] = "whole",
           d.guards # db.guards => p = Kid,
           p = KidLogin => db.person[Kid] = "whole"
    PROVE  ErasureIInv'
<1> DEFINE mails == d.mails \cup ({p} \cap Logins)
           person == [d.person EXCEPT ![p] = "whole"]
<1>1. /\ db.person[p] = "absent"
      /\ db' = [d EXCEPT !.person[p] = "whole", !.mails = mails]
      /\ fresh' = fresh \cup ({p} \cap taken)
      /\ UNCHANGED <<backup, records, replay, restores, taken, caughtUp>>
  BY DEF New
<1>2. SoundDb(db) /\ db \in Databases
  BY DEF ErasureIInv, SoundDb
<1>3. db' = [person |-> person, profile |-> d.profile, guards |-> d.guards,
             mails |-> mails, asked |-> d.asked]
  BY <1>1 DEF Databases
<1>4. person \in [People -> {"absent", "whole", "erased", "cleaned"}] /\ mails \subseteq Logins
  BY DatabaseFields
<1>5. db' \in Databases
  BY <1>3, <1>4, DatabaseFields DEF Databases
<1>6. /\ db'.person = person /\ db'.profile = d.profile /\ db'.guards = d.guards
      /\ db'.mails = mails /\ db'.asked = d.asked
  BY <1>3
<1>7. /\ db'.person[p] = "whole" /\ \A q \in People : q # p => db'.person[q] = d.person[q]
      /\ d.person[p] = "absent"
  BY <1>1, <1>6, DatabaseFields
<1>8. SoundDb(db')
  <2>1. \A q \in db'.guards \cup db'.asked \cup db'.mails : db'.person[q] = "whole"
    <3> SUFFICES ASSUME NEW q \in db'.guards \cup db'.asked \cup db'.mails, q # p
                 PROVE  db'.person[q] = "whole"
      BY <1>7
    <3>1. q \in d.guards \cup d.asked \cup d.mails /\ q \in People
      BY <1>6, DatabaseFields, PeopleApart
    <3> QED BY <1>2, <1>7, <3>1 DEF SoundDb
  <2>2. \A q \in Logins : /\ db'.person[q] = "erased" => db'.profile[q] = "none"
                          /\ db'.person[q] = "cleaned" => db'.profile[q] # "hidden"
    BY <1>2, <1>6, <1>7, PeopleApart DEF SoundDb
  <2>3. db'.person[Kid] # "whole" =>
          db'.guards = {} /\ db'.asked = {} /\ db'.person[KidLogin] # "whole"
    BY <1>2, <1>6, <1>7, PeopleApart DEF SoundDb
  <2>4. \A a \in Parents : /\ db'.person[a] = "cleaned" => a \in Volunteers
                           /\ db'.person[a] = "erased" => a \notin Volunteers
    BY <1>2, <1>7, PeopleApart DEF SoundDb
  <2> QED BY <1>5, <2>1, <2>2, <2>3, <2>4 DEF SoundDb
<1> HIDE DEF mails, person
<1>9. fresh \subseteq taken /\ fresh \subseteq fresh' /\ fresh' \subseteq taken
  BY <1>1 DEF ErasureIInv
<1>10. \A q \in People : \/ db'.person[q] = db.person[q]
                         \/ db.person[q] = "absent" /\ (q \in taken => q \in fresh')
  BY <1>1, <1>7
<1> QED BY <1>1, <1>8, <1>9, <1>10, PeopleStep

LEMMA NewPeopleKeep ==
    ASSUME ErasureIInv,
           (\E a \in Parents : SignUpAccount(a) \/ AddKid(a)) \/ GiveKidLogin
    PROVE  ErasureIInv'
<1>1. SoundDb(db) /\ db \in Databases
  BY DEF ErasureIInv, SoundDb
<1>2. \A q \in db.guards : db.person[q] = "whole"
  BY <1>1 DEF SoundDb
<1>3. ASSUME NEW a \in Parents, SignUpAccount(a) PROVE ErasureIInv'
  <2>1. New(a, db) /\ a \in People /\ a # KidLogin
    BY <1>3, PeopleApart DEF SignUpAccount
  <2> QED BY <1>1, <1>2, <2>1, NewKeeps
<1>4. ASSUME NEW a \in Parents, AddKid(a) PROVE ErasureIInv'
  <2> DEFINE d == [db EXCEPT !.guards = {a}]
  <2>1. New(Kid, d) /\ db.person[a] = "whole" /\ Kid \in People /\ Kid # KidLogin
    BY <1>4, PeopleApart DEF AddKid, Whole
  <2>2. /\ d \in Databases /\ d.person = db.person /\ d.profile = db.profile
        /\ d.mails = db.mails /\ d.asked = db.asked /\ d.guards = {a}
    BY <1>1 DEF Databases
  <2> HIDE DEF d
  <2>3. \A q \in d.guards : db.person[q] = "whole"
    BY <2>1, <2>2
  <2> QED BY <2>1, <2>2, <2>3, NewKeeps
<1>5. ASSUME GiveKidLogin PROVE ErasureIInv'
  <2>1. New(KidLogin, db) /\ db.person[Kid] = "whole" /\ KidLogin \in People
    BY <1>5, PeopleApart DEF GiveKidLogin, Whole
  <2> QED BY <1>1, <1>2, <2>1, NewKeeps
<1> QED BY <1>3, <1>4, <1>5

\* Steps that make and erase nobody.
LEMMA SamePeopleKeep ==
    ASSUME ErasureIInv, NEW p,
           \/ p \in Parents /\ (AskGuardian(p) \/ BecomeGuardian(p) \/ LeaveKid(p))
           \/ p \in Logins /\ \E shown \in {"hidden", "shown"} : EditProfile(p, shown)
    PROVE  ErasureIInv'
<1>1. SoundDb(db) /\ db \in Databases
  BY DEF ErasureIInv, SoundDb
<1>2. ASSUME SoundDb(db'), db'.person = db.person, UNCHANGED Keeps
      PROVE  ErasureIInv'
  <2>1. UNCHANGED <<backup, records, replay, restores, taken, fresh, caughtUp>>
    BY <1>2 DEF Keeps
  <2>2. fresh \subseteq taken
    BY DEF ErasureIInv
  <2> QED BY <1>2, <2>1, <2>2, PeopleStep
<1>3. ASSUME NEW guards \in SUBSET Parents, NEW asked \in SUBSET Parents,
             db' = [person |-> db.person, profile |-> db.profile, guards |-> guards,
                    mails |-> db.mails, asked |-> asked],
             \A q \in guards \cup asked : db.person[q] = "whole",
             guards # {} \/ asked # {} => db.guards # {} \/ db.asked # {},
             UNCHANGED Keeps
      PROVE  ErasureIInv'
  <2>1. db' \in Databases
    BY <1>1, <1>3, DatabaseFields, DatabaseAgain
  <2>2. /\ db'.person = db.person /\ db'.profile = db.profile /\ db'.guards = guards
        /\ db'.mails = db.mails /\ db'.asked = asked
    BY <1>3
  <2>3. \A q \in db'.guards \cup db'.asked \cup db'.mails : db'.person[q] = "whole"
    BY <1>1, <1>3, <2>2 DEF SoundDb
  <2>4. db'.person[Kid] # "whole" =>
          db'.guards = {} /\ db'.asked = {} /\ db'.person[KidLogin] # "whole"
    BY <1>1, <1>3, <2>2 DEF SoundDb
  <2>5. SoundDb(db')
    BY <1>1, <2>1, <2>2, <2>3, <2>4 DEF SoundDb
  <2> QED BY <1>2, <1>3, <2>2, <2>5
<1>4. ASSUME p \in Parents, AskGuardian(p) PROVE ErasureIInv'
  <2>1. /\ db.guards # {} /\ db.person[p] = "whole" /\ UNCHANGED Keeps
        /\ db' = [db EXCEPT !.asked = @ \cup {p}]
    BY <1>4 DEF AskGuardian, Whole
  <2>2. db' = [person |-> db.person, profile |-> db.profile, guards |-> db.guards,
               mails |-> db.mails, asked |-> db.asked \cup {p}]
    BY <1>1, <2>1 DEF Databases
  <2>3. /\ db.guards \in SUBSET Parents /\ db.asked \cup {p} \in SUBSET Parents
        /\ \A q \in db.guards \cup (db.asked \cup {p}) : db.person[q] = "whole"
    BY <1>1, <1>4, <2>1, DatabaseFields DEF SoundDb
  <2> QED BY <1>3, <2>1, <2>2, <2>3
<1>5. ASSUME p \in Parents, BecomeGuardian(p) PROVE ErasureIInv'
  <2>1. /\ p \in db.asked /\ db.person[p] = "whole" /\ UNCHANGED Keeps
        /\ db' = [db EXCEPT !.asked = @ \ {p}, !.guards = @ \cup {p}]
    BY <1>5 DEF BecomeGuardian, Whole
  <2>2. db' = [person |-> db.person, profile |-> db.profile, guards |-> db.guards \cup {p},
               mails |-> db.mails, asked |-> db.asked \ {p}]
    BY <1>1, <2>1 DEF Databases
  <2>3. /\ db.guards \cup {p} \in SUBSET Parents /\ db.asked \ {p} \in SUBSET Parents
        /\ \A q \in (db.guards \cup {p}) \cup (db.asked \ {p}) : db.person[q] = "whole"
        /\ db.asked # {}
    BY <1>1, <1>5, <2>1, DatabaseFields DEF SoundDb
  <2> QED BY <1>3, <2>1, <2>2, <2>3
<1>6. ASSUME p \in Parents, LeaveKid(p) PROVE ErasureIInv'
  <2>1. /\ p \in db.guards /\ UNCHANGED Keeps
        /\ db' = [db EXCEPT !.guards = @ \ {p}]
    BY <1>6 DEF LeaveKid
  <2>2. db' = [person |-> db.person, profile |-> db.profile, guards |-> db.guards \ {p},
               mails |-> db.mails, asked |-> db.asked]
    BY <1>1, <2>1 DEF Databases
  <2>3. /\ db.guards \ {p} \in SUBSET Parents /\ db.asked \in SUBSET Parents
        /\ \A q \in (db.guards \ {p}) \cup db.asked : db.person[q] = "whole"
        /\ db.guards # {}
    BY <1>1, <2>1, DatabaseFields DEF SoundDb
  <2> QED BY <1>3, <2>1, <2>2, <2>3
<1>7. ASSUME p \in Logins, NEW shown \in {"hidden", "shown"}, EditProfile(p, shown) PROVE ErasureIInv'
  <2> DEFINE profile == [db.profile EXCEPT ![p] = shown]
  <2>1. /\ db.person[p] = "whole" /\ UNCHANGED Keeps /\ db' = [db EXCEPT !.profile[p] = shown]
    BY <1>7 DEF EditProfile, Whole
  <2>2. db' = [person |-> db.person, profile |-> profile, guards |-> db.guards,
               mails |-> db.mails, asked |-> db.asked]
    BY <1>1, <2>1 DEF Databases
  <2>3. profile \in [Logins -> {"none", "hidden", "shown"}]
    BY <1>1, <1>7, DatabaseFields
  <2>4. db' \in Databases
    BY <1>1, <2>2, <2>3, DatabaseFields, DatabaseAgain
  <2>5. /\ db'.person = db.person /\ db'.guards = db.guards
        /\ db'.mails = db.mails /\ db'.asked = db.asked /\ db'.profile = profile
    BY <2>2
  <2>6. \A q \in Logins : q # p => db'.profile[q] = db.profile[q]
    BY <1>1, <2>5, DatabaseFields
  <2>7. SoundDb(db')
    BY <1>1, <2>1, <2>4, <2>5, <2>6 DEF SoundDb
  <2> QED BY <1>2, <2>1, <2>5, <2>7
<1> QED BY <1>4, <1>5, <1>6, <1>7

LEMMA ReplayErases ==
    ASSUME SoundDb(db), NEW r \in Record, RecordFits(r)
    PROVE  \/ Replayed(r) = db /\ db.person[r.who] = "absent"
           \/ \E who \in SUBSET People : r.who \in who /\ Erases(db, Replayed(r), who)
<1>1. CASE db.person[r.who] = "absent"
  BY <1>1 DEF Replayed
<1>2. CASE db.person[r.who] # "absent" /\ r.who = Kid
  <2>1. Replayed(r) = ChildErased
    BY <1>2 DEF Replayed
  <2>2. /\ LoginsOf(db, {Kid}) \cup {Kid} \in SUBSET People
        /\ Erases(db, ChildErased, LoginsOf(db, {Kid}) \cup {Kid})
    BY ChildErases, PeopleApart
  <2> QED BY <1>2, <2>1, <2>2
<1>3. CASE db.person[r.who] # "absent" /\ r.who # Kid
  <2>1. Replayed(r) = PersonErased(r.who, r.visible)
    BY <1>3 DEF Replayed
  <2>2. r.who \in Logins /\ r.visible \in BOOLEAN /\ r.who \in People
    BY <1>3, PeopleApart DEF Record
  <2>3. r.who \in Parents => (r.visible = TRUE <=> r.who \in Volunteers)
    BY DEF RecordFits
  <2> DEFINE kids == ErasedWith(r.who)
             who == {r.who} \cup LoginsOf(db, kids) \cup kids
  <2>4. /\ kids \subseteq {Kid} /\ LoginsOf(db, kids) \subseteq {KidLogin}
        /\ Erases(db, PersonErased(r.who, r.visible), who)
    BY <2>2, <2>3, PersonErases
  <2>5. who \in SUBSET People /\ r.who \in who
    BY <2>2, <2>4, PeopleApart
  <2> HIDE DEF who, kids
  <2> QED BY <2>1, <2>4, <2>5
<1> QED BY <1>1, <1>2, <1>3

LEMMA ReplayStepKeeps ==
    ASSUME ErasureIInv, ReplayStep
    PROVE  ErasureIInv'
<1> DEFINE r == records[replay.next]
           Ok(p) == db'.person[p] # "whole" \/ p \in fresh'
<1>1. /\ replay # NoReplay /\ db' = Replayed(r)
      /\ IF replay.next < replay.last
         THEN replay' = [replay EXCEPT !.next = replay.next + 1] /\ UNCHANGED caughtUp
         ELSE replay' = NoReplay /\ caughtUp' = TRUE
      /\ UNCHANGED <<backup, records, restores, taken, fresh>>
  BY DEF ReplayStep
<1>2. /\ replay \in [next : Nat, last : Nat] /\ replay.next \in Nat /\ replay.last \in Nat
      /\ 1 <= replay.next /\ replay.next <= replay.last /\ replay.last <= Len(records)
      /\ \A i \in DOMAIN records :
           i < replay.next \/ i > replay.last => Settled(records[i].who)
  BY <1>1 DEF ErasureIInv, ReplayFits
<1>3. /\ records \in Seq(Record) /\ DOMAIN records = 1..Len(records) /\ Len(records) \in Nat
      /\ \A i \in DOMAIN records : RecordFits(records[i]) /\ records[i].who \in taken
      /\ \A p \in taken : Recorded(p)
  BY LenProperties DEF ErasureIInv, LogFits
<1>4. r \in Record /\ RecordFits(r)
  BY <1>2, <1>3
<1>5. SoundDb(db) /\ taken \subseteq People
  BY DEF ErasureIInv
<1>6. /\ SoundDb(db') /\ db'.person[r.who] # "whole" /\ Closed \subseteq Closed'
      /\ \A p \in People : db'.person[p] = db.person[p] \/ db'.person[p] \in {"erased", "cleaned"}
  <2>1. CASE Replayed(r) = db /\ db.person[r.who] = "absent"
    BY <1>1, <1>5, <2>1 DEF Closed
  <2>2. CASE \E who \in SUBSET People : r.who \in who /\ Erases(db, Replayed(r), who)
    <3>1. PICK who \in SUBSET People : r.who \in who /\ Erases(db, db', who)
      BY <1>1, <2>2
    <3>2. Closed \subseteq Closed'
      BY <1>5, <3>1, ClosedGrows
    <3> QED BY <3>1, <3>2 DEF Erases
  <2> QED BY <1>4, <1>5, <2>1, <2>2, ReplayErases
<1>7. LogFits'
  BY <1>1, <1>6, LogKeeps
<1>8. \A p \in taken : Settled(p) => Ok(p)
  BY <1>1, <1>5, <1>6 DEF Settled
<1>9. Ok(r.who)
  BY <1>6
<1>10. \A i \in DOMAIN records : i < replay.next + 1 \/ i > replay.last => Ok(records[i].who)
  <2> SUFFICES ASSUME NEW i \in DOMAIN records, i < replay.next + 1 \/ i > replay.last
               PROVE  Ok(records[i].who)
    OBVIOUS
  <2>1. CASE i = replay.next
    BY <1>9, <2>1
  <2>2. CASE i # replay.next
    <3>1. i < replay.next \/ i > replay.last
      BY <1>2, <1>3, <2>2
    <3> QED BY <1>2, <1>3, <1>8, <3>1
  <2> QED BY <2>1, <2>2
<1> HIDE DEF r
<1>11. CASE replay.next < replay.last
  <2>1. /\ replay' \in [next : Nat, last : Nat] /\ replay'.next = replay.next + 1
        /\ replay'.last = replay.last /\ caughtUp' = caughtUp
    BY <1>1, <1>2, <1>11
  <2>2. ReplayFits'
    BY <1>1, <1>2, <1>10, <1>11, <2>1 DEF ReplayFits, Settled
  <2>3. caughtUp' = TRUE => \A p \in taken' : Settled(p)'
    BY <1>1, <1>8, <2>1 DEF ErasureIInv, Settled
  <2> QED BY <1>1, <1>6, <1>7, <2>1, <2>2, <2>3 DEF ErasureIInv
<1>12. CASE ~(replay.next < replay.last)
  <2>1. replay' = NoReplay /\ caughtUp' = TRUE /\ replay.next = replay.last
    BY <1>1, <1>2, <1>12
  <2>2. ReplayFits'
    BY <2>1 DEF ReplayFits
  <2>3. \A p \in taken' : Settled(p)'
    <3> SUFFICES ASSUME NEW p \in taken PROVE Ok(p)
      BY <1>1 DEF Settled
    <3>1. PICK i \in DOMAIN records : records[i].who = p
      BY <1>3 DEF Recorded
    <3>2. i < replay.next + 1 \/ i > replay.last
      BY <1>2, <1>3, <2>1
    <3> QED BY <1>10, <3>1, <3>2
  <2> QED BY <1>1, <1>6, <1>7, <2>1, <2>2, <2>3 DEF ErasureIInv
<1> QED BY <1>11, <1>12

LEMMA RestoreKeeps ==
    ASSUME ErasureIInv, Restore
    PROVE  ErasureIInv'
<1>1. /\ restores < MaxRestores /\ restores' = restores + 1 /\ db' \in backup
      /\ replay' = NoReplay /\ fresh' = {} /\ caughtUp' = FALSE
      /\ UNCHANGED <<backup, records, taken>>
  BY DEF Restore
<1>2. SoundDb(db') /\ restores \in Nat /\ restores' \in 0..MaxRestores /\ restores' \in Nat
  BY <1>1, PeopleApart DEF ErasureIInv
<1>3. LogFits'
  <2>1. Len(records) \in Nat /\ Len(records) <= restores * Cardinality(People) + Cardinality(Closed)
    BY LenProperties DEF ErasureIInv, LogFits
  <2>2. ASSUME NEW c \in Nat, NEW n \in Nat PROVE (n + 1) * c = n * c + c /\ n * c \in Nat
    BY <2>2
  <2>3. /\ restores' * Cardinality(People) = restores * Cardinality(People) + Cardinality(People)
        /\ restores * Cardinality(People) \in Nat
    BY <1>1, <1>2, <2>2, PeopleAreFinite
  <2>4. Closed' \subseteq People
    BY PeopleApart DEF Closed
  <2>5. Cardinality(Closed') \in Nat
    BY <2>4, PeopleAreFinite, FS_Subset, FS_CardinalityType
  <2>6. Len(records) <= restores' * Cardinality(People) + Cardinality(Closed')
    BY <2>1, <2>3, <2>5, ClosedIsFinite, PeopleAreFinite
  <2>7. Cardinality(Closed)' = Cardinality(Closed')
    OBVIOUS
  <2> QED BY <1>1, <2>6, <2>7 DEF LogFits, Recorded, ErasureIInv
<1>4. ReplayFits'
  BY <1>1 DEF ReplayFits
<1> QED BY <1>1, <1>2, <1>3, <1>4 DEF ErasureIInv

LEMMA CommandsKeep ==
    ASSUME ErasureIInv, BackUp \/ StartReplay \/ ReplayDies \/ UNCHANGED erasureVars
    PROVE  ErasureIInv'
<1>1. ASSUME UNCHANGED <<db, records, restores, taken, fresh, caughtUp>>, ReplayFits',
             UNCHANGED backup \/ backup' = {db}
      PROVE  ErasureIInv'
  <2>1. Closed' = Closed
    BY <1>1 DEF Closed
  <2>2. LogFits'
    BY <1>1, <2>1, LogKeeps
  <2>3. db \in Databases
    BY DEF ErasureIInv, SoundDb
  <2>4. /\ \A d \in backup' : SoundDb(d)
        /\ backup' = {} \/ \E d \in Databases : backup' = {d}
    BY <1>1, <2>3 DEF ErasureIInv
  <2> QED BY <1>1, <2>2, <2>4 DEF ErasureIInv, Settled
<1>2. CASE BackUp
  <2>1. UNCHANGED <<db, records, replay, restores, taken, fresh, caughtUp>> /\ backup' = {db}
    BY <1>2 DEF BackUp
  <2>2. ReplayFits'
    BY <2>1 DEF ErasureIInv, ReplayFits, Settled
  <2> QED BY <1>1, <2>1, <2>2
<1>3. CASE StartReplay
  <2>1. /\ UNCHANGED <<db, backup, records, restores, taken, fresh, caughtUp>> /\ records # <<>>
        /\ replay' = [next |-> 1, last |-> Len(records)]
    BY <1>3 DEF StartReplay
  <2>2. /\ Len(records) \in Nat /\ Len(records) >= 1 /\ DOMAIN records = 1..Len(records)
    BY <2>1, EmptySeq, LenProperties DEF ErasureIInv, LogFits
  <2>3. ReplayFits'
    BY <2>1, <2>2 DEF ReplayFits
  <2> QED BY <1>1, <2>1, <2>3
<1>4. CASE ReplayDies
  <2>1. UNCHANGED <<db, backup, records, restores, taken, fresh, caughtUp>> /\ replay' = NoReplay
    BY <1>4 DEF ReplayDies
  <2>2. ReplayFits'
    BY <2>1 DEF ReplayFits
  <2> QED BY <1>1, <2>1, <2>2
<1>5. CASE UNCHANGED erasureVars
  <2>1. UNCHANGED <<db, backup, records, replay, restores, taken, fresh, caughtUp>>
    BY <1>5 DEF erasureVars
  <2>2. ReplayFits'
    BY <2>1 DEF ErasureIInv, ReplayFits, Settled
  <2> QED BY <1>1, <2>1, <2>2
<1> QED BY <1>2, <1>3, <1>4, <1>5

\* Of who is erased no mail names the account, nobody is guarded, no address is
\* invited and only a profile the site showed is kept; whoever was erased is
\* erased again once the log was replayed over a restored backup, however often
\* the command was stopped and whatever people did meanwhile (privacy.erasure,
\* the command privacy_replay_erasures).  The mails an erasure does not find,
\* sent to an address without its account, are not spoken of.
THEOREM ErasedPeopleStayErased == ErasureSpec => []ErasureInv
<1>1. ErasureIInv /\ [ErasureNext]_erasureVars => ErasureIInv'
  <2> SUFFICES ASSUME ErasureIInv, [ErasureNext]_erasureVars PROVE ErasureIInv'
    OBVIOUS
  <2>1. CASE \E a \in Parents :
               \/ SignUpAccount(a) \/ AddKid(a) \/ AskGuardian(a) \/ BecomeGuardian(a) \/ LeaveKid(a)
               \/ DeletePerson(a)
    BY <2>1, NewPeopleKeep, SamePeopleKeep, DeletePersonKeeps
  <2>2. CASE \E p \in Logins, shown \in {"hidden", "shown"} : EditProfile(p, shown)
    BY <2>2, SamePeopleKeep
  <2>3. CASE GiveKidLogin
    BY <2>3, NewPeopleKeep
  <2>4. CASE EraseOldChild
    BY <2>4, EraseOldChildKeeps
  <2>5. CASE Restore
    BY <2>5, RestoreKeeps
  <2>6. CASE ReplayStep
    BY <2>6, ReplayStepKeeps
  <2>7. CASE BackUp \/ StartReplay \/ ReplayDies \/ UNCHANGED erasureVars
    BY <2>7, CommandsKeep
  <2> QED BY <2>1, <2>2, <2>3, <2>4, <2>5, <2>6, <2>7 DEF ErasureNext
<1> QED BY <1>1, ErasureInitOK, ErasureIInvImplies, PTL DEF ErasureSpec

-----------------------------------------------------------------------------
(* Engagement: the inductive invariant *)

StageRow == [Dojos \cup {Overall} -> Stage \cup {"none"}]
JobRecord == [next : 0..Len(Batches), known : SUBSET Sessions, marked : SUBSET Sessions]

\* A child's changes: one a day until today, each from where the one before led
\* to, and the last to the stage its row has.
ChangesFit(k) ==
    /\ \A c \in changes[k] : c.on <= today
    /\ changes[k] # {} => rows[k][Overall] # "none"
    /\ \A c \in changes[k] : (\A other \in changes[k] : other.on <= c.on) => c.to = rows[k][Overall]
    /\ \A c, next \in changes[k] :
          /\ c.on = next.on => c = next
          /\ /\ c.on < next.on /\ next.on \notin twice[k]
             /\ ~\E other \in changes[k] : c.on < other.on /\ other.on < next.on
             => next.from = c.to

\* Attendance is taken at sessions that started.
MarksFit == \A k \in Ninjas, s \in Sessions : place[k][s] \in {"present", "absent"} => Started(s)

\* What is up to date was worked out by a run that knew what is marked: one that
\* goes on beside it knows that too.
Fresh == job.marked = Marked /\ job.known = {s \in Sessions : held[s] = "open"}

JobFits == current # {} => job = NoJob \/ Fresh

EngagementIInv ==
    /\ EngagementTypeOK
    /\ job = NoJob \/ job.next \in 1..Len(Batches)
    /\ MarksFit
    /\ JobFits
    /\ \A k \in Ninjas : ChangesFit(k)
    /\ NobodyIsMissedWhoCame

LEMMA EngagementNumbers ==
    /\ Len(Batches) \in Nat /\ Len(Batches) >= 1 /\ DOMAIN Batches = 1..Len(Batches)
    /\ IsFiniteSet(Sessions)
    /\ Overall \notin Dojos /\ DayOf \in [Sessions -> Nat] /\ HomeDojo \in [Ninjas -> Dojos]
    /\ AimedAt \in [Ninjas -> SUBSET Sessions]
    /\ LastDay \in Nat /\ WindowDays \in Nat /\ HistoryDays \in Nat /\ WindowDays <= HistoryDays
    /\ MaxRuns \in Nat /\ RegularMinVisits \in Nat /\ RegularMinVisits > 0
    /\ AtRiskMissed \in Nat /\ AtRiskMissed > 0
BY EngagementAssumption

LEMMA BatchesAreOfNinjas ==
    ASSUME NEW i \in 1..Len(Batches)
    PROVE  Batches[i] \subseteq Ninjas
BY EngagementNumbers DEF Ninjas

LEMMA StagesAreStages ==
    ASSUME NEW k, NEW d, NEW overall
    PROVE  StageAt(k, d, overall) \in Stage
BY DEF StageAt, Stage

LEMMA RowsAreStages ==
    ASSUME NEW k
    PROVE  RowsOf(k) \in StageRow /\ RowsOf(k)[Overall] = StageAt(k, HomeDojo[k], TRUE)
           /\ RowsOf(k)[Overall] \in Stage /\ "none" \notin Stage
<1>1. RowsOf(k)[Overall] = StageAt(k, HomeDojo[k], TRUE)
  BY DEF RowsOf
<1>2. \A d \in Dojos \cup {Overall} : RowsOf(k)[d] \in Stage \cup {"none"}
  BY StagesAreStages DEF RowsOf
<1>3. RowsOf(k) = [d \in Dojos \cup {Overall} |-> RowsOf(k)[d]]
  BY DEF RowsOf
<1>4. RowsOf(k) \in StageRow
  <2> DEFINE row == RowsOf(k)
  <2>1. /\ row = [d \in Dojos \cup {Overall} |-> row[d]]
        /\ \A d \in Dojos \cup {Overall} : row[d] \in Stage \cup {"none"}
    BY <1>2, <1>3
  <2> HIDE DEF row
  <2>2. row \in StageRow
    BY <2>1 DEF StageRow
  <2> QED BY <2>2 DEF row
<1>5. "none" \notin Stage
  BY DEF Stage
<1> QED BY <1>1, <1>4, <1>5, StagesAreStages

LEMMA EngagementInitOK == EngagementInit => EngagementIInv
<1> SUFFICES ASSUME EngagementInit PROVE EngagementIInv
  OBVIOUS
<1>1. /\ today = 0 /\ runs = 0 /\ current = {} /\ job = NoJob
      /\ \A k \in Ninjas : changes[k] = {}
      /\ \A k \in Ninjas, s \in Sessions : place[k][s] \in {"none", "unmarked"}
  BY DEF EngagementInit
<1>2. EngagementTypeOK
  <2>1. held \in [Sessions -> {"draft", "open", "cancelled"}]
    BY DEF EngagementInit
  <2>2. place \in [Ninjas -> [Sessions -> Registered]]
    BY DEF EngagementInit, Registered
  <2>3. rows \in [Ninjas -> [Dojos \cup {Overall} -> Stage \cup {"none"}]]
    BY DEF EngagementInit, Stage
  <2>4. NoJob \in JobRecord
    BY EngagementNumbers DEF NoJob, JobRecord
  <2>5. changes \in [Ninjas -> SUBSET Change] /\ twice \in [Ninjas -> SUBSET (0..LastDay)]
    BY DEF EngagementInit
  <2>6. today \in 0..LastDay /\ runs \in 0..MaxRuns /\ job \in JobRecord
    BY <1>1, <2>4, EngagementNumbers
  <2> QED BY <1>1, <2>1, <2>2, <2>3, <2>5, <2>6 DEF EngagementTypeOK, JobRecord
<1> QED BY <1>1, <1>2 DEF EngagementIInv, MarksFit, JobFits, ChangesFit, NobodyIsMissedWhoCame

LEMMA EngagementIInvImplies == EngagementIInv => EngagementInv
BY DEF EngagementIInv, EngagementInv, ChangesFit, LatestChangeIsTheStage, ChangesFollowOn

LEMMA EngagementTyped ==
    ASSUME EngagementIInv
    PROVE  /\ today \in Nat /\ today <= LastDay
           /\ held \in [Sessions -> {"draft", "open", "cancelled"}]
           /\ place \in [Ninjas -> [Sessions -> Registered]]
           /\ rows \in [Ninjas -> StageRow]
           /\ changes \in [Ninjas -> SUBSET Change]
           /\ \A k \in Ninjas : \A c \in changes[k] : c \in Change /\ c.on \in Nat
           /\ job \in JobRecord
           /\ runs \in 0..MaxRuns
           /\ twice \in [Ninjas -> SUBSET (0..LastDay)]
           /\ current \in SUBSET Ninjas
<1>1. EngagementTypeOK
  BY DEF EngagementIInv
<1>2. today \in Nat /\ today <= LastDay
  BY <1>1, EngagementNumbers DEF EngagementTypeOK
<1>3. \A c \in Change : c.on \in Nat
  BY EngagementNumbers DEF Change
<1> QED BY <1>1, <1>2, <1>3 DEF EngagementTypeOK, StageRow, JobRecord

\* What else changes, the log that is not written stands.
LEMMA LogStands ==
    ASSUME EngagementIInv, NEW k \in Ninjas, changes'[k] = changes[k],
           today' \in Nat, today <= today', twice[k] \subseteq twice'[k],
           changes[k] # {} => rows'[k][Overall] = rows[k][Overall]
    PROVE  ChangesFit(k)'
<1>1. ChangesFit(k)
  BY DEF EngagementIInv
<1>2. \A c \in changes[k] : c.on <= today'
  BY <1>1, EngagementTyped DEF ChangesFit
<1>3. \A c \in changes[k] : (\A other \in changes[k] : other.on <= c.on) => c.to = rows'[k][Overall]
  BY <1>1 DEF ChangesFit
<1>4. \A c, next \in changes[k] :
        /\ c.on = next.on => c = next
        /\ /\ c.on < next.on /\ next.on \notin twice'[k]
           /\ ~\E other \in changes[k] : c.on < other.on /\ other.on < next.on
           => next.from = c.to
  BY <1>1 DEF ChangesFit
<1>5. changes[k] # {} => rows'[k][Overall] # "none"
  BY <1>1 DEF ChangesFit
<1> QED BY <1>2, <1>3, <1>4, <1>5 DEF ChangesFit

\* A child that moves: today's change is replaced, and the new one goes on from
\* the last, unless it replaced one.
LEMMA MovedChangesFit ==
    ASSUME EngagementIInv, NEW k \in Ninjas, NEW st, st \in Stage,
           rows[k][Overall] # "none", rows'[k][Overall] = st, today' = today,
           NEW n, n = [from |-> rows[k][Overall], to |-> st, on |-> today],
           changes'[k] = Without(changes[k], today) \cup {n},
           twice[k] \subseteq twice'[k],
           (\E c \in changes[k] : c.on = today) => today \in twice'[k]
    PROVE  ChangesFit(k)'
<1> DEFINE old == changes[k]
           new == changes'[k]
<1>1. /\ n.from = rows[k][Overall] /\ n.to = st /\ n.on = today /\ today \in Nat
      /\ \A c \in old : c.on \in Nat /\ c.on <= today
      /\ ChangesFit(k)
  BY EngagementTyped DEF EngagementIInv, ChangesFit
<1>2. \A c : c \in new <=> ((c \in old /\ c.on # today) \/ c = n)
  BY DEF Without
<1>3. \A c \in new : c = n \/ (c \in old /\ c.on \in Nat /\ c.on < today)
  BY <1>1, <1>2
<1>4. st # "none"
  BY DEF Stage
<1> HIDE DEF old, new
<1>5. \A c \in new : c.on <= today'
  BY <1>1, <1>3
<1>6. \A c \in new : (\A other \in new : other.on <= c.on) => c.to = rows'[k][Overall]
  <2> SUFFICES ASSUME NEW c \in new, \A other \in new : other.on <= c.on
               PROVE  c = n
    BY <1>1
  <2>1. today <= c.on
    BY <1>1, <1>2
  <2> QED BY <1>1, <1>3, <2>1
<1>7. ASSUME NEW c \in new, NEW next \in new, c.on = next.on PROVE c = next
  <2>1. CASE c = n \/ next = n
    BY <1>1, <1>3, <1>7, <2>1
  <2>2. CASE c # n /\ next # n
    <3>1. c \in changes[k] /\ next \in changes[k]
      BY <1>3, <2>2 DEF old
    <3> QED BY <1>1, <1>7, <3>1 DEF ChangesFit
  <2> QED BY <2>1, <2>2
<1>8. ASSUME NEW c \in new, NEW next \in new, c.on < next.on, next.on \notin twice'[k],
             ~\E other \in new : c.on < other.on /\ other.on < next.on
      PROVE  next.from = c.to
  <2>1. c # n
    BY <1>1, <1>3, <1>8
  <2>2. c \in old /\ c.on \in Nat /\ c.on < today
    BY <1>3, <2>1
  <2>3. CASE next = n
    <3>1. \A d \in old : d.on # today
      BY <1>1, <1>8, <2>3 DEF old
    <3>2. \A d \in old : d.on <= c.on
      <4> SUFFICES ASSUME NEW d \in old, ~(d.on <= c.on) PROVE FALSE
        OBVIOUS
      <4>1. d.on \in Nat /\ d.on < today /\ d \in new
        BY <1>1, <1>2, <3>1
      <4>2. c.on < d.on /\ d.on < next.on
        BY <1>1, <2>2, <2>3, <4>1
      <4> QED BY <1>8, <4>1, <4>2
    <3>3. c.to = rows[k][Overall]
      BY <1>1, <2>2, <3>2 DEF ChangesFit, old
    <3> QED BY <1>1, <2>3, <3>3
  <2>4. CASE next # n
    <3>1. next \in old /\ next.on \in Nat /\ next.on < today
      BY <1>3, <2>4
    <3>2. ~\E other \in old : c.on < other.on /\ other.on < next.on
      <4> SUFFICES ASSUME NEW d \in old, c.on < d.on, d.on < next.on PROVE FALSE
        OBVIOUS
      <4>1. d \in new
        BY <1>1, <1>2, <3>1
      <4> QED BY <1>8, <4>1
    <3>3. next.on \notin twice[k]
      BY <1>8
    <3> QED BY <1>1, <1>8, <2>2, <3>1, <3>2, <3>3 DEF ChangesFit, old
  <2> QED BY <2>3, <2>4
<1> QED BY <1>4, <1>5, <1>6, <1>7, <1>8 DEF ChangesFit, new

LEMMA RebuildKeepsTheLogs ==
    ASSUME EngagementIInv, RebuildBatch, NEW k \in Ninjas
    PROVE  ChangesFit(k)'
<1> DEFINE batch == Batches[job.next]
<1>1. /\ rows' = [c \in Ninjas |-> IF c \in batch THEN RowsOf(c) ELSE rows[c]]
      /\ changes' = ChangesWith(batch)
      /\ twice' = [c \in Ninjas |->
            IF c \in StageChanges(batch) /\ \E row \in changes[c] : row.on = today
            THEN twice[c] \cup {today} ELSE twice[c]]
      /\ today' = today /\ today \in Nat
  BY EngagementTyped DEF RebuildBatch
<1> HIDE DEF batch
<1>2. /\ rows'[k] = IF k \in batch THEN RowsOf(k) ELSE rows[k]
      /\ twice'[k] = IF k \in StageChanges(batch) /\ \E row \in changes[k] : row.on = today
                     THEN twice[k] \cup {today} ELSE twice[k]
      /\ changes'[k] = IF k \in StageChanges(batch) THEN Without(changes[k], today) \cup {Moved(k)}
                       ELSE changes[k]
  BY <1>1 DEF ChangesWith
<1>3. RowsOf(k)[Overall] \in Stage
  BY RowsAreStages
<1>4. CASE k \in StageChanges(batch)
  <2>1. k \in batch /\ rows[k][Overall] # "none"
    BY <1>4 DEF StageChanges
  <2>2. Moved(k) = [from |-> rows[k][Overall], to |-> RowsOf(k)[Overall], on |-> today]
    BY DEF Moved
  <2>3. /\ rows'[k][Overall] = RowsOf(k)[Overall]
        /\ changes'[k] = Without(changes[k], today) \cup {Moved(k)}
        /\ twice[k] \subseteq twice'[k]
        /\ (\E c \in changes[k] : c.on = today) => today \in twice'[k]
    BY <1>2, <1>4, <2>1
  <2> QED BY <1>1, <1>3, <2>1, <2>2, <2>3, MovedChangesFit
<1>5. CASE k \notin StageChanges(batch)
  <2>1. changes[k] # {} => rows[k][Overall] # "none"
    BY DEF EngagementIInv, ChangesFit
  <2>2. changes[k] # {} => rows'[k][Overall] = rows[k][Overall]
    BY <1>2, <1>5, <2>1 DEF StageChanges
  <2>3. changes'[k] = changes[k] /\ twice[k] \subseteq twice'[k] /\ today' \in Nat /\ today <= today'
    BY <1>1, <1>2, <1>5
  <2> QED BY <2>2, <2>3, LogStands
<1> QED BY <1>4, <1>5

\* What a child's visits come to, as NobodyIsMissedWhoCame says it.
Missed(k) ==
    {s \in AimedAt[k] \cap At(HomeDojo[k]) :
        held[s] = "open" /\ Started(s) /\ ~\E v \in CameTo(k) : DayOf[v] >= DayOf[s]}

Lately(k) == CameTo(k) \cap Since(WindowDays)

StageIsRight(k, stage) ==
    /\ stage = "at_risk" => Cardinality(Missed(k)) >= AtRiskMissed /\ Lately(k) # {}
    /\ stage = "lapsed" => CameTo(k) # {} /\ Lately(k) = {}
    /\ stage = "never_attended" => CameTo(k) = {}
    /\ stage = "regular" => Cardinality(Lately(k)) >= RegularMinVisits
                            /\ Cardinality(Missed(k)) < AtRiskMissed

RowIsRight(k) == StageIsRight(k, rows[k][Overall])

LEMMA NobodyIsMissedByRow == NobodyIsMissedWhoCame <=> \A k \in current : RowIsRight(k)
BY DEF NobodyIsMissedWhoCame, RowIsRight, StageIsRight, Missed, Lately

\* With the sessions and the marks as they are, the stage worked out is right.
LEMMA FreshStageIsRight ==
    ASSUME EngagementIInv, NEW k \in Ninjas, Registrations(k) \subseteq job.known,
           Fresh
    PROVE  StageIsRight(k, StageAt(k, HomeDojo[k], TRUE))
<1> DEFINE home == HomeDojo[k]
           visits == Counted(k, home, TRUE)
           recent == RecentVisits(k, home, TRUE)
           offered == Offered(k, home, TRUE)
           missed == MissedInARow(k, home, TRUE)
           came == Cardinality(offered \cap recent)
<1>1. Visits(k) = CameTo(k)
  <2>1. \A s \in Sessions : place[k][s] = "present" => s \in Marked
    BY DEF Marked
  <2> QED BY <2>1 DEF Visits, CameTo, Registrations, Fresh
<1>2. visits = CameTo(k) /\ recent = Lately(k)
  BY <1>1 DEF Counted, RecentVisits, Lately
<1>3. recent \subseteq offered
  BY DEF Offered
<1>4. came = Cardinality(recent)
  <2>1. offered \cap recent = recent
    BY <1>3
  <2> QED BY <2>1
<1>5. /\ IsFiniteSet(CameTo(k)) /\ IsFiniteSet(Lately(k)) /\ IsFiniteSet(Missed(k))
      /\ IsFiniteSet(missed)
  <2>1. CameTo(k) \subseteq Sessions /\ Lately(k) \subseteq Sessions /\ Missed(k) \subseteq Sessions
    BY EngagementNumbers DEF CameTo, Lately, Missed, At
  <2>2. missed \subseteq Sessions
    BY EngagementTyped DEF MissedInARow, AimedSessions, JobRecord
  <2> HIDE DEF missed
  <2> QED BY <2>1, <2>2, EngagementNumbers, FS_Subset
<1>6. missed \subseteq Missed(k)
  <2> SUFFICES ASSUME NEW s \in missed PROVE s \in Missed(k)
    OBVIOUS
  <2>1. /\ s \in AimedSessions(k, home) /\ \A v \in CameTo(k) : DayOf[v] < DayOf[s]
    BY <1>2 DEF MissedInARow
  <2>2. /\ s \in Sessions /\ s \in AimedAt[k] /\ DojoOf[s] = home /\ Started(s) /\ held[s] = "open"
    BY <2>1 DEF AimedSessions, Fresh
  <2>3. \A v \in CameTo(k) : v \in Sessions /\ DayOf[v] \in Nat /\ DayOf[s] \in Nat
    BY <2>2, EngagementNumbers DEF CameTo
  <2>4. ~\E v \in CameTo(k) : DayOf[v] >= DayOf[s]
    BY <2>1, <2>3
  <2> QED BY <2>2, <2>4 DEF Missed, At
<1>7. Lately(k) # {} => Missed(k) \subseteq missed
  <2> SUFFICES ASSUME NEW v \in Lately(k), NEW s \in Missed(k) PROVE s \in missed
    OBVIOUS
  <2>1. /\ v \in CameTo(k) /\ v \in Sessions /\ DayOf[v] >= today - WindowDays
    BY DEF Lately, Since, CameTo
  <2>2. /\ s \in Sessions /\ s \in AimedAt[k] /\ DojoOf[s] = home /\ Started(s) /\ held[s] = "open"
        /\ \A u \in CameTo(k) : ~(DayOf[u] >= DayOf[s])
    BY EngagementNumbers DEF Missed, At
  <2>3. \A u \in CameTo(k) : DayOf[u] \in Nat /\ DayOf[s] \in Nat
    BY <2>2, EngagementNumbers DEF CameTo
  <2>4. \A u \in CameTo(k) : DayOf[u] < DayOf[s]
    BY <2>2, <2>3
  <2>5. DayOf[s] >= today - HistoryDays
    BY <2>1, <2>3, <2>4, EngagementNumbers, EngagementTyped
  <2>6. s \in AimedSessions(k, home)
    BY <2>2, <2>5 DEF AimedSessions, Since, Fresh
  <2> QED BY <1>2, <2>4, <2>6 DEF MissedInARow
<1>8. /\ Cardinality(missed) \in Nat /\ Cardinality(Missed(k)) \in Nat
      /\ Cardinality(missed) <= Cardinality(Missed(k))
      /\ Lately(k) # {} => Cardinality(missed) = Cardinality(Missed(k))
  <2> HIDE DEF missed
  <2>1. Cardinality(missed) <= Cardinality(Missed(k))
    BY <1>5, <1>6, FS_Subset
  <2>2. Lately(k) # {} => missed = Missed(k)
    BY <1>6, <1>7
  <2> QED BY <1>5, <2>1, <2>2, FS_CardinalityType
<1>9. /\ came = Cardinality(Lately(k)) /\ came \in Nat /\ (came = 0 <=> Lately(k) = {})
  BY <1>2, <1>4, <1>5, FS_CardinalityType, FS_EmptySet
<1> DEFINE days == {DayOf[s] : s \in visits}
           isNew == \/ Min(days) >= today - NewDays
                    \/ Cardinality(visits) <= NewMaxVisits /\ Max(days) >= today - WindowDays
           often == /\ came >= RegularMinVisits
                    /\ 100 * came >= RegularMinPercent * Cardinality(offered)
<1>10. StageAt(k, home, TRUE) =
         IF today >= TooOldFrom[k][home] THEN "aged_out"
         ELSE IF visits = {} THEN "never_attended"
         ELSE IF isNew THEN "new"
         ELSE IF came = 0 THEN "lapsed"
         ELSE IF Cardinality(missed) >= AtRiskMissed THEN "at_risk"
         ELSE IF often THEN "regular"
         ELSE "occasional"
  BY DEF StageAt
<1>11. often => came >= RegularMinVisits
  OBVIOUS
<1> HIDE DEF visits, recent, offered, missed, came, days, isNew, often
<1>12. CASE StageAt(k, home, TRUE) = "at_risk"
  <2>1. Cardinality(missed) >= AtRiskMissed /\ came # 0
    BY <1>10, <1>12
  <2> QED BY <1>8, <1>9, <1>12, <2>1, EngagementNumbers DEF StageIsRight
<1>13. CASE StageAt(k, home, TRUE) = "lapsed"
  BY <1>2, <1>9, <1>10, <1>13 DEF StageIsRight
<1>14. CASE StageAt(k, home, TRUE) = "never_attended"
  BY <1>2, <1>10, <1>14 DEF StageIsRight
<1>15. CASE StageAt(k, home, TRUE) = "regular"
  <2>1. ~(Cardinality(missed) >= AtRiskMissed) /\ came # 0 /\ came >= RegularMinVisits
    BY <1>10, <1>11, <1>15
  <2>2. Cardinality(missed) = Cardinality(Missed(k))
    BY <1>8, <1>9, <2>1
  <2>3. Cardinality(Missed(k)) < AtRiskMissed /\ Cardinality(Lately(k)) >= RegularMinVisits
    BY <1>8, <1>9, <2>1, <2>2, EngagementNumbers
  <2> QED BY <1>15, <2>3 DEF StageIsRight
<1> QED BY <1>12, <1>13, <1>14, <1>15 DEF StageIsRight

\* Where sessions, days and what was marked stand, the children's visits do.
LEMMA VisitsStand ==
    ASSUME UNCHANGED <<today, held>>,
           \A k \in Ninjas, s \in Sessions :
              Started(s) \/ place[k][s] \in {"present", "absent"}
                         \/ place'[k][s] \in {"present", "absent"} => place'[k][s] = place[k][s]
    PROVE  /\ Marked' = Marked
           /\ \A k \in Ninjas : /\ CameTo(k)' = CameTo(k)
                               /\ Missed(k)' = Missed(k) /\ Lately(k)' = Lately(k)
<1>1. Marked' = Marked
  BY DEF Marked
<1>2. \A k \in Ninjas : CameTo(k)' = CameTo(k)
  BY <1>1 DEF CameTo, Started
<1>3. \A k \in Ninjas : Missed(k)' = Missed(k) /\ Lately(k)' = Lately(k)
  BY <1>2 DEF Missed, Lately, Started, At, Since
<1> QED BY <1>1, <1>2, <1>3

LEMMA RightRowsAreNobodyMissed ==
    ASSUME \A k \in current' : RowIsRight(k)'
    PROVE  NobodyIsMissedWhoCame'
BY DEF NobodyIsMissedWhoCame, RowIsRight, StageIsRight, Missed, Lately

\* Where the rows stand too, nobody is missed still.
LEMMA RightRowsStand ==
    ASSUME EngagementIInv, UNCHANGED <<rows, current>>,
           \A k \in Ninjas : /\ CameTo(k)' = CameTo(k)
                           /\ Missed(k)' = Missed(k) /\ Lately(k)' = Lately(k)
    PROVE  NobodyIsMissedWhoCame'
<1>1. \A k \in current' : RowIsRight(k)'
  BY EngagementTyped, NobodyIsMissedByRow DEF EngagementIInv, RowIsRight, StageIsRight
<1> QED BY <1>1, RightRowsAreNobodyMissed

\* A step after which no row is known to be up to date.
LEMMA OutdatedKeepsEngagementIInv ==
    ASSUME EngagementIInv, current' = {}, UNCHANGED <<rows, changes, job, runs, twice>>,
           today' \in today..LastDay, held' \in [Sessions -> {"draft", "open", "cancelled"}],
           place' \in [Ninjas -> [Sessions -> Registered]], MarksFit'
    PROVE  EngagementIInv'
<1>1. today' \in Nat /\ today <= today' /\ today' \in 0..LastDay
  BY EngagementTyped, EngagementNumbers
<1>2. EngagementTypeOK'
  BY <1>1 DEF EngagementIInv, EngagementTypeOK
<1>3. \A k \in Ninjas : ChangesFit(k)'
  BY <1>1, LogStands
<1>4. NobodyIsMissedWhoCame'
  BY DEF NobodyIsMissedWhoCame
<1>5. JobFits'
  BY DEF JobFits
<1> QED BY <1>2, <1>3, <1>4, <1>5 DEF EngagementIInv, NoJob

LEMMA TeamsKeepEngagementIInv ==
    ASSUME EngagementIInv,
           \/ NextDay
           \/ \E s \in Sessions, status \in {"open", "cancelled"} : SetHeld(s, status)
           \/ \E k \in Ninjas, s \in Sessions, value \in {"present", "absent"} : Mark(k, s, value)
    PROVE  EngagementIInv'
<1>1. CASE NextDay
  <2>1. today' \in today..LastDay /\ today < today' /\ today \in Nat /\ today' \in Nat
    BY <1>1, EngagementTyped, EngagementNumbers DEF NextDay
  <2>2. MarksFit'
    <3>1. \A s \in Sessions : Started(s) => Started(s)'
      BY <2>1, EngagementNumbers DEF Started
    <3> QED BY <1>1, <3>1 DEF EngagementIInv, MarksFit, NextDay
  <2> QED BY <1>1, <2>1, <2>2, EngagementTyped, OutdatedKeepsEngagementIInv DEF NextDay
<1>2. CASE \E s \in Sessions, status \in {"open", "cancelled"} : SetHeld(s, status)
  <2>1. PICK s \in Sessions, status \in {"open", "cancelled"} : SetHeld(s, status)
    BY <1>2
  <2>2. held' \in [Sessions -> {"draft", "open", "cancelled"}] /\ today' \in today..LastDay
    BY <2>1, EngagementTyped, EngagementNumbers DEF SetHeld
  <2>3. MarksFit'
    BY <2>1 DEF EngagementIInv, MarksFit, SetHeld, Started
  <2> QED BY <2>1, <2>2, <2>3, EngagementTyped, OutdatedKeepsEngagementIInv DEF SetHeld
<1>3. CASE \E k \in Ninjas, s \in Sessions, value \in {"present", "absent"} : Mark(k, s, value)
  <2>1. PICK k \in Ninjas, s \in Sessions, value \in {"present", "absent"} : Mark(k, s, value)
    BY <1>3
  <2>2. /\ place' = [place EXCEPT ![k][s] = value] /\ Started(s) /\ value \in Registered
        /\ today' = today /\ held' = held /\ today' \in today..LastDay
    BY <2>1, EngagementTyped, EngagementNumbers DEF Mark, Registered
  <2>3. /\ place' \in [Ninjas -> [Sessions -> Registered]]
        /\ \A j \in Ninjas, x \in Sessions : x # s => place'[j][x] = place[j][x]
    BY <2>2, EngagementTyped
  <2>4. MarksFit'
    BY <2>2, <2>3 DEF EngagementIInv, MarksFit, Started
  <2> QED BY <2>1, <2>2, <2>3, <2>4, EngagementTyped, OutdatedKeepsEngagementIInv DEF Mark
<1> QED BY <1>1, <1>2, <1>3

\* A sign-up is for a session to come.
LEMMA SignUpKeepsEngagementIInv ==
    ASSUME EngagementIInv, NEW k \in Ninjas, NEW s \in Sessions, NEW as \in {"unmarked", "waiting"},
           SignUp(k, s, as)
    PROVE  EngagementIInv'
<1>1. /\ place' = [place EXCEPT ![k][s] = as] /\ ~Started(s) /\ as \in Registered
      /\ place[k][s] \notin {"present", "absent"} /\ as \notin {"present", "absent"}
      /\ UNCHANGED <<today, held, rows, changes, job, runs, twice, current>>
  BY DEF SignUp, Registered
<1>2. /\ place' \in [Ninjas -> [Sessions -> Registered]]
      /\ \A j \in Ninjas, x \in Sessions :
            \/ place'[j][x] = place[j][x]
            \/ j = k /\ x = s /\ place'[j][x] = as
  BY <1>1, EngagementTyped
<1>3. MarksFit'
  BY <1>1, <1>2 DEF EngagementIInv, MarksFit, Started
<1>4. EngagementTypeOK'
  BY <1>1, <1>2 DEF EngagementIInv, EngagementTypeOK
<1>5. \A j \in Ninjas : ChangesFit(j)'
  BY <1>1, EngagementTyped, LogStands
<1>6. /\ Marked' = Marked
      /\ \A j \in Ninjas : /\ CameTo(j)' = CameTo(j)
                          /\ Missed(j)' = Missed(j) /\ Lately(j)' = Lately(j)
  BY <1>1, <1>2, VisitsStand
<1>7. JobFits'
  BY <1>1, <1>6 DEF EngagementIInv, JobFits, Fresh, NoJob
<1>8. NobodyIsMissedWhoCame'
  BY <1>1, <1>6, RightRowsStand
<1> QED BY <1>1, <1>3, <1>4, <1>5, <1>7, <1>8 DEF EngagementIInv, NoJob

LEMMA RunKeepsEngagementIInv ==
    ASSUME EngagementIInv, StartRun \/ RunDies
    PROVE  EngagementIInv'
<1>1. UNCHANGED <<today, held, place, rows, changes, twice, current>>
  BY DEF StartRun, RunDies
<1>2. job' \in JobRecord /\ (job' = NoJob \/ job'.next \in 1..Len(Batches)) /\ runs' \in 0..MaxRuns
  <2>1. CASE StartRun
    <3>1. Marked \subseteq Sessions
      BY DEF Marked
    <3>2. job' = [next |-> 1, known |-> {s \in Sessions : held[s] = "open"}, marked |-> Marked]
      BY <2>1 DEF StartRun
    <3>3. runs' \in 0..MaxRuns
      BY <2>1, EngagementTyped, EngagementNumbers DEF StartRun
    <3> QED BY <3>1, <3>2, <3>3, EngagementNumbers DEF JobRecord
  <2>2. CASE RunDies
    BY <2>2, EngagementTyped, EngagementNumbers DEF RunDies, NoJob, JobRecord
  <2> QED BY <2>1, <2>2
<1>3. EngagementTypeOK'
  BY <1>1, <1>2 DEF EngagementIInv, EngagementTypeOK, JobRecord
<1>4. \A j \in Ninjas : ChangesFit(j)'
  BY <1>1, EngagementTyped, LogStands
<1>5. MarksFit' /\ NobodyIsMissedWhoCame'
  <2>1. MarksFit'
    BY <1>1 DEF EngagementIInv, MarksFit, Started
  <2> QED BY <1>1, <2>1, VisitsStand, RightRowsStand
<1>6. JobFits'
  <2>1. Marked' = Marked
    BY <1>1 DEF Marked
  <2>2. job' = NoJob \/ Fresh'
    BY <1>1, <2>1 DEF StartRun, RunDies, Fresh
  <2> QED BY <2>2 DEF JobFits, NoJob
<1> QED BY <1>2, <1>3, <1>4, <1>5, <1>6 DEF EngagementIInv, NoJob

LEMMA RebuildKeepsEngagementIInv ==
    ASSUME EngagementIInv, RebuildBatch
    PROVE  EngagementIInv'
<1> DEFINE batch == Batches[job.next]
<1>1. /\ job # NoJob /\ job.next \in 1..Len(Batches) /\ job \in JobRecord
      /\ batch \subseteq Ninjas
  BY EngagementTyped, BatchesAreOfNinjas DEF EngagementIInv, RebuildBatch
<1>2. /\ \A k \in batch : Registrations(k) \subseteq job.known
      /\ rows' = [k \in Ninjas |-> IF k \in batch THEN RowsOf(k) ELSE rows[k]]
      /\ changes' = ChangesWith(batch)
      /\ twice' = [k \in Ninjas |->
            IF k \in StageChanges(batch) /\ \E c \in changes[k] : c.on = today
            THEN twice[k] \cup {today} ELSE twice[k]]
      /\ current' = IF Fresh THEN current \cup batch ELSE current
      /\ job' = IF job.next = Len(Batches) THEN NoJob ELSE [job EXCEPT !.next = job.next + 1]
      /\ UNCHANGED <<today, held, place, runs>>
  BY DEF RebuildBatch, Fresh
<1> HIDE DEF batch
<1>3. job' \in JobRecord /\ (job' = NoJob \/ job'.next \in 1..Len(Batches))
  BY <1>1, <1>2, EngagementNumbers DEF JobRecord, NoJob
<1>4. rows' \in [Ninjas -> StageRow]
  BY <1>2, EngagementTyped, RowsAreStages
<1>5. changes' \in [Ninjas -> SUBSET Change]
  <2>1. \A k \in StageChanges(batch) \cap Ninjas : Moved(k) \in Change
    <3> SUFFICES ASSUME NEW k \in StageChanges(batch), k \in Ninjas PROVE Moved(k) \in Change
      OBVIOUS
    <3>1. rows[k] \in StageRow /\ rows[k][Overall] # "none"
      BY EngagementTyped DEF StageChanges
    <3>2. rows[k][Overall] \in Stage
      BY <3>1 DEF StageRow
    <3>3. RowsOf(k)[Overall] \in Stage
      BY RowsAreStages
    <3>4. today \in 0..LastDay
      BY EngagementTyped, EngagementNumbers
    <3> QED BY <3>2, <3>3, <3>4 DEF Moved, Change
  <2>2. \A k \in Ninjas : changes[k] \subseteq Change
    BY EngagementTyped
  <2> QED BY <1>2, <2>1, <2>2 DEF ChangesWith, Without
<1>6. twice' \in [Ninjas -> SUBSET (0..LastDay)] /\ current' \in SUBSET Ninjas
  <2>1. today \in 0..LastDay
    BY EngagementTyped, EngagementNumbers
  <2> QED BY <1>1, <1>2, <2>1, EngagementTyped
<1>7. EngagementTypeOK'
  BY <1>2, <1>3, <1>4, <1>5, <1>6 DEF EngagementIInv, EngagementTypeOK, JobRecord, StageRow
<1>8. MarksFit'
  BY <1>2 DEF EngagementIInv, MarksFit, Started
<1>9. \A k \in Ninjas : ChangesFit(k)'
  BY RebuildKeepsTheLogs
<1>10. /\ Marked' = Marked
       /\ \A k \in Ninjas : /\ CameTo(k)' = CameTo(k)
                           /\ Missed(k)' = Missed(k) /\ Lately(k)' = Lately(k)
  BY <1>2, VisitsStand
<1>11. JobFits'
  <2>1. current' # {} => Fresh
    BY <1>1, <1>2 DEF EngagementIInv, JobFits
  <2>2. job' = NoJob \/ (job'.marked = job.marked /\ job'.known = job.known)
    BY <1>1, <1>2 DEF JobRecord
  <2> QED BY <1>2, <1>10, <2>1, <2>2 DEF JobFits, Fresh, NoJob
<1>12. NobodyIsMissedWhoCame'
  <2>1. ASSUME NEW k \in current' PROVE RowIsRight(k)'
    <3>1. k \in Ninjas
      BY <1>6, <2>1
    <3>2. CASE k \in batch
      <4>1. Fresh
        BY <1>1, <1>2, <2>1, <3>2 DEF EngagementIInv, JobFits
      <4>2. rows'[k][Overall] = StageAt(k, HomeDojo[k], TRUE)
        BY <1>2, <3>1, <3>2, RowsAreStages
      <4>3. StageIsRight(k, StageAt(k, HomeDojo[k], TRUE))
        BY <1>2, <3>1, <3>2, <4>1, FreshStageIsRight
      <4> HIDE DEF StageAt
      <4> QED BY <1>10, <3>1, <4>2, <4>3 DEF RowIsRight, StageIsRight
    <3>3. CASE k \notin batch
      <4>1. k \in current /\ rows'[k] = rows[k]
        BY <1>2, <2>1, <3>1, <3>3
      <4>2. RowIsRight(k)
        BY <4>1, NobodyIsMissedByRow DEF EngagementIInv
      <4> QED BY <1>10, <3>1, <4>1, <4>2 DEF RowIsRight, StageIsRight
    <3> QED BY <3>2, <3>3
  <2>2. \A k \in current' : RowIsRight(k)'
    BY <2>1
  <2> QED BY <2>2, RightRowsAreNobodyMissed
<1> QED BY <1>3, <1>7, <1>8, <1>9, <1>11, <1>12 DEF EngagementIInv, NoJob

LEMMA EngagementStutterKeeps ==
    ASSUME EngagementIInv, UNCHANGED engagementVars
    PROVE  EngagementIInv'
<1>1. UNCHANGED <<today, held, place, rows, changes, job, runs, twice, current>>
  BY DEF engagementVars
<1>2. NobodyIsMissedWhoCame'
  BY <1>1, VisitsStand, RightRowsStand
<1>3. \A k \in Ninjas : ChangesFit(k)'
  BY <1>1, EngagementTyped, LogStands
<1> QED BY <1>1, <1>2, <1>3 DEF EngagementIInv, EngagementTypeOK, MarksFit, Started, JobFits, Fresh,
                                Marked, NoJob

LEMMA EngagementStepKeeps ==
    EngagementIInv /\ [EngagementNext]_engagementVars => EngagementIInv'
<1> SUFFICES ASSUME EngagementIInv, [EngagementNext]_engagementVars PROVE EngagementIInv'
  OBVIOUS
<1>1. CASE NextDay
  BY <1>1, TeamsKeepEngagementIInv
<1>2. CASE \E s \in Sessions, status \in {"open", "cancelled"} : SetHeld(s, status)
  BY <1>2, TeamsKeepEngagementIInv
<1>3. CASE \E k \in Ninjas, s \in Sessions, as \in {"unmarked", "waiting"} : SignUp(k, s, as)
  BY <1>3, SignUpKeepsEngagementIInv
<1>4. CASE \E k \in Ninjas, s \in Sessions, value \in {"present", "absent"} : Mark(k, s, value)
  BY <1>4, TeamsKeepEngagementIInv
<1>5. CASE StartRun \/ RunDies
  BY <1>5, RunKeepsEngagementIInv
<1>6. CASE RebuildBatch
  BY <1>6, RebuildKeepsEngagementIInv
<1>7. CASE UNCHANGED engagementVars
  BY <1>7, EngagementStutterKeeps
<1> QED BY <1>1, <1>2, <1>3, <1>4, <1>5, <1>6, <1>7 DEF EngagementNext

\* Whatever runs of the nightly job die, are repeated or race the teams' marking,
\* the changes it records tell a child's way to the stage its row has, and an up
\* to date row calls no child away, lapsed or at risk that came (events.engagement).
THEOREM TheSnapshotTellsWhoCame == EngagementSpec => []EngagementInv
<1>1. EngagementIInv => EngagementInv
  BY EngagementIInvImplies
<1> QED BY <1>1, EngagementInitOK, EngagementStepKeeps, PTL DEF EngagementSpec

=============================================================================

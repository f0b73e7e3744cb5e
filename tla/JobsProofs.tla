------------------------------ MODULE JobsProofs ------------------------------
(***************************************************************************)
(* What workers do on their own, for any number of them and of families:   *)
(* the mails of the journeys, the mail about new sessions, the reading of  *)
(* the bounce mailbox, and a cache key that all requests share. Their runs *)
(* may overlap, stop anywhere and be repeated; each is invariant because a *)
(* run has noted, or still holds, what it has done.                        *)
(***************************************************************************)
EXTENDS Journeys, SessionNews, BounceMailbox, SharedCache, FiniteSetTheorems, TLAPS

-----------------------------------------------------------------------------
(* Journeys: the inductive invariant *)

\* A mail is queued on the day in its key or later.
KeysComeFirst == \A u \in Readers : \A m \in mailed[u] : m.queued <= m.key

\* A run writes the row of somebody it has on its list.
RowsAreOfTheList == \A w \in Workers : run[w].user \subseteq run[w].left

\* Who is on the lists of two days' runs is counted among the slipped.
OneDaysLists ==
    \A v, w \in Workers : run[v].day # run[w].day => run[v].left \cap run[w].left \subseteq slipped

\* A mail has its row, not older than the mail, or the run of its key's day is
\* about to write it.
MailsHaveRows ==
    \A u \in Readers \ slipped : \A m \in mailed[u] :
        \/ \E a \in delivered[u] : a <= m.queued
        \/ \E w \in Workers : run[w].at = "row" /\ u \in run[w].user /\ run[w].day = m.key

\* Who is on a run's list has had its mail a cool-down ago, or this day's.
ListedAreDue ==
    \A w \in Workers : \A u \in run[w].left \ slipped : \A m \in mailed[u] :
        m.key = run[w].day \/ m.queued = Cooldown

JourneysIInv ==
    /\ JourneysTypeOK /\ KeysComeFirst /\ RowsAreOfTheList
    /\ OneDaysLists /\ MailsHaveRows /\ ListedAreDue
    /\ CooldownKept

RunRecord == [at : {"idle", "mail", "row"}, day : 0..1, left : SUBSET Readers, user : SUBSET Readers]

Mails == [key : Ages, queued : Ages]

LEMMA NoRunIsIdle ==
    NoRun \in RunRecord /\ NoRun.at = "idle" /\ NoRun.day = 0 /\ NoRun.left = {} /\ NoRun.user = {}
BY DEF NoRun, RunRecord

LEMMA AgesAreNumbers ==
    Cooldown \in Nat /\ Cooldown > 0 /\ 0 \in Ages /\ (\A a \in Ages : a \in Nat /\ a <= Cooldown)
BY JourneysAssumption DEF Ages

LEMMA InitJourneys == JourneysInit => JourneysIInv
<1> SUFFICES ASSUME JourneysInit PROVE JourneysIInv
  OBVIOUS
<1>1. run \in [Workers -> RunRecord] /\ \A w \in Workers : run[w] = NoRun
  BY NoRunIsIdle DEF JourneysInit
<1>2. JourneysTypeOK
  <2>1. mailed \in [Readers -> SUBSET Mails]
    BY DEF JourneysInit
  <2>2. delivered \in [Readers -> SUBSET (Ages \cup {Older})]
    BY DEF JourneysInit
  <2>3. faults \in 0..MaxFaults
    BY JourneysAssumption DEF JourneysInit
  <2>4. active \in BOOLEAN /\ ready \in BOOLEAN /\ ran \in BOOLEAN
    BY DEF JourneysInit
  <2>5. editing = "no" /\ matching = {} /\ slipped = {}
    BY DEF JourneysInit
  <2> QED BY <1>1, <2>1, <2>2, <2>3, <2>4, <2>5 DEF JourneysTypeOK, RunRecord, Mails
<1>3. KeysComeFirst /\ MailsHaveRows /\ ListedAreDue /\ CooldownKept
  BY DEF JourneysInit, KeysComeFirst, MailsHaveRows, ListedAreDue, CooldownKept, NoRun
<1>4. RowsAreOfTheList /\ OneDaysLists
  BY <1>1, NoRunIsIdle DEF RowsAreOfTheList, OneDaysLists
<1> QED BY <1>2, <1>3, <1>4 DEF JourneysIInv

\* Staff and the audience touch neither mails nor runs.
LEMMA StaffKeepJourneys ==
    ASSUME JourneysIInv,
           Activate \/ Pause \/ LoadForm \/ SaveForm \/ \E u \in Readers : ChangeAudience(u)
    PROVE  JourneysIInv'
<1>1. UNCHANGED <<mailed, delivered, ran, run, faults, slipped>>
  BY DEF Activate, Pause, LoadForm, SaveForm, ChangeAudience
<1>2. /\ active' \in BOOLEAN /\ ready' \in BOOLEAN /\ editing' \in {"no", "active", "paused"}
      /\ matching' \subseteq Readers
  BY DEF JourneysIInv, JourneysTypeOK, Activate, Pause, LoadForm, SaveForm, ChangeAudience
<1> QED BY <1>1, <1>2 DEF JourneysIInv, JourneysTypeOK, KeysComeFirst, RowsAreOfTheList,
        OneDaysLists, MailsHaveRows, ListedAreDue, CooldownKept

\* A step of one run that queues nothing: it lists who is due, notes a
\* delivery, or ends; a row it does not write makes its account slip.
LEMMA RunKeepsJourneys ==
    ASSUME JourneysIInv, NEW w \in Workers, NEW row \in RunRecord,
           run' = [run EXCEPT ![w] = row], mailed' = mailed,
           UNCHANGED <<active, ready, editing, matching>>,
           ran' \in BOOLEAN, faults' \in 0..MaxFaults,
           slipped \subseteq slipped', slipped' \subseteq Readers,
           delivered' \in [Readers -> SUBSET (Ages \cup {Older})],
           \A u \in Readers : delivered[u] \subseteq delivered'[u],
           row.at # "row", row.user = {},
           \A u \in run[w].user : run[w].at = "row" => u \in slipped' \/ 0 \in delivered'[u],
           \A v \in Workers \ {w} : run[v].day # row.day => run[v].left \cap row.left \subseteq slipped',
           \A u \in row.left \ slipped' : \A m \in mailed[u] : m.key = row.day \/ m.queued = Cooldown
    PROVE  JourneysIInv'
<1>1. /\ run \in [Workers -> RunRecord] /\ mailed \in [Readers -> SUBSET Mails]
  BY DEF JourneysIInv, JourneysTypeOK, RunRecord, Mails
<1>2. /\ run' \in [Workers -> RunRecord] /\ run'[w] = row
      /\ \A v \in Workers \ {w} : run'[v] = run[v]
  BY <1>1
<1>3. JourneysTypeOK'
  BY <1>2 DEF JourneysIInv, JourneysTypeOK, RunRecord
<1>4. KeysComeFirst' /\ CooldownKept'
  BY DEF JourneysIInv, KeysComeFirst, CooldownKept
<1>5. RowsAreOfTheList'
  BY <1>2 DEF JourneysIInv, RowsAreOfTheList
<1>6. OneDaysLists'
  <2> SUFFICES ASSUME NEW u \in Workers, NEW v \in Workers, run'[u].day # run'[v].day
               PROVE  run'[u].left \cap run'[v].left \subseteq slipped'
    BY DEF OneDaysLists
  <2>1. CASE u = w \/ v = w
    BY <1>2, <2>1
  <2>2. CASE u # w /\ v # w
    <3>1. run[u].left \cap run[v].left \subseteq slipped
      BY <1>2, <2>2 DEF JourneysIInv, OneDaysLists
    <3> QED BY <1>2, <2>2, <3>1
  <2> QED BY <2>1, <2>2
<1>7. MailsHaveRows'
  <2> SUFFICES ASSUME NEW u \in Readers \ slipped', NEW m \in mailed[u]
               PROVE  \/ \E a \in delivered'[u] : a <= m.queued
                      \/ \E v \in Workers : run'[v].at = "row" /\ u \in run'[v].user /\ run'[v].day = m.key
    BY DEF MailsHaveRows
  <2>1. CASE \E a \in delivered[u] : a <= m.queued
    BY <2>1
  <2>2. ASSUME NEW v \in Workers, run[v].at = "row", u \in run[v].user, run[v].day = m.key
        PROVE  \/ \E a \in delivered'[u] : a <= m.queued
               \/ run'[v].at = "row" /\ u \in run'[v].user /\ run'[v].day = m.key
    <3>1. CASE v = w
      <4>1. 0 \in delivered'[u]
        BY <2>2, <3>1
      <4>2. m.queued \in Ages
        BY <1>1 DEF Mails
      <4> QED BY <4>1, <4>2, AgesAreNumbers
    <3>2. CASE v # w
      BY <1>2, <2>2, <3>2
    <3> QED BY <3>1, <3>2
  <2> QED BY <2>1, <2>2 DEF JourneysIInv, MailsHaveRows
<1>8. ListedAreDue'
  <2> SUFFICES ASSUME NEW v \in Workers, NEW u \in run'[v].left \ slipped', NEW m \in mailed[u]
               PROVE  m.key = run'[v].day \/ m.queued = Cooldown
    BY DEF ListedAreDue
  <2>1. CASE v = w
    BY <1>2, <2>1
  <2>2. CASE v # w
    BY <1>2, <2>2 DEF JourneysIInv, ListedAreDue
  <2> QED BY <2>1, <2>2
<1> QED BY <1>3, <1>4, <1>5, <1>6, <1>7, <1>8 DEF JourneysIInv

LEMMA BeginningKeepsJourneys ==
    ASSUME JourneysIInv, NEW w \in Workers, BeginRun(w), ran' \in BOOLEAN, faults' \in 0..MaxFaults,
           UNCHANGED <<active, ready, editing, matching, mailed, delivered>>
    PROVE  JourneysIInv'
<1>1. /\ run \in [Workers -> RunRecord] /\ matching \subseteq Readers /\ slipped \subseteq Readers
      /\ mailed \in [Readers -> SUBSET Mails]
      /\ delivered \in [Readers -> SUBSET (Ages \cup {Older})]
  BY DEF JourneysIInv, JourneysTypeOK, RunRecord, Mails
<1>2. PICK atTheHour \in SUBSET OnTheLastDay, list \in SUBSET Readers :
        /\ list \subseteq Due(atTheHour)
        /\ run' = [run EXCEPT ![w] = [NoRun EXCEPT !.at = "mail", !.left = list]]
        /\ slipped' = slipped \cup (list \cap ListedElsewhere)
  <2>1. PICK atTheHour \in SUBSET OnTheLastDay :
          LET list == IF active /\ ready THEN Due(atTheHour) ELSE {}
          IN  /\ run' = [run EXCEPT ![w] = [NoRun EXCEPT !.at = "mail", !.left = list]]
              /\ slipped' = slipped \cup (list \cap ListedElsewhere)
    BY DEF BeginRun
  <2>2. Due(atTheHour) \subseteq Readers
    BY <1>1 DEF Due
  <2>3. PICK list \in SUBSET Readers : list = IF active /\ ready THEN Due(atTheHour) ELSE {}
    BY <2>2
  <2> QED BY <2>1, <2>3
<1>3. PICK i \in RunRecord : i = NoRun
  BY NoRunIsIdle
<1> DEFINE row == [i EXCEPT !.at = "mail", !.left = list]
<1>4. row \in RunRecord /\ row.at = "mail" /\ row.day = 0 /\ row.left = list /\ row.user = {}
  BY <1>3, NoRunIsIdle DEF RunRecord
<1>5. run' = [run EXCEPT ![w] = row]
  BY <1>2, <1>3
<1> HIDE DEF row
<1>6. \A v \in Workers : run[v].day # 0 => run[v].left \cap list \subseteq slipped'
  <2> SUFFICES ASSUME NEW v \in Workers, run[v].day # 0, NEW u \in list, u \in run[v].left
               PROVE  u \in slipped'
    OBVIOUS
  <2>1. run[v].day = 1
    BY <1>1 DEF RunRecord
  <2>2. u \in ListedElsewhere
    BY <2>1 DEF ListedElsewhere
  <2> QED BY <1>2, <2>2
<1>7. ASSUME NEW u \in list \ slipped', NEW m \in mailed[u]
      PROVE  m.key = 0 \/ m.queued = Cooldown
  <2>1. u \in Readers \ slipped /\ m \in Mails /\ m.queued \in Ages
    BY <1>1, <1>2 DEF Mails
  <2>2. ASSUME NEW a \in delivered[u], a <= m.queued PROVE m.queued = Cooldown
    <3>1. ~(a < Cooldown)
      BY <1>2, <2>1 DEF Due, Recent
    <3>2. a \in Ages \cup {Older} /\ Older = Cooldown + 1
      BY <1>1, <2>1 DEF Older
    <3> QED BY <2>1, <2>2, <3>1, <3>2, AgesAreNumbers
  <2>3. ASSUME NEW v \in Workers, u \in run[v].user, run[v].day = m.key PROVE m.key = 0
    <3>1. u \in run[v].left
      BY <2>3 DEF JourneysIInv, RowsAreOfTheList
    <3> QED BY <1>6, <2>3, <3>1
  <2> QED BY <2>1, <2>2, <2>3 DEF JourneysIInv, MailsHaveRows
<1>8. slipped \subseteq slipped' /\ slipped' \subseteq Readers
  BY <1>1, <1>2
<1>9. run[w].at # "row"
  BY DEF BeginRun
<1>10. /\ \A u \in Readers : delivered[u] \subseteq delivered'[u]
       /\ delivered' \in [Readers -> SUBSET (Ages \cup {Older})]
  BY <1>1
<1> QED BY <1>4, <1>5, <1>6, <1>7, <1>8, <1>9, <1>10, RunKeepsJourneys

\* A mail goes only to who has none of this day and none within the cool-down.
LEMMA QueueingKeepsJourneys ==
    ASSUME JourneysIInv, NEW w \in Workers, QueueMail(w)
    PROVE  JourneysIInv'
<1>1. /\ run \in [Workers -> RunRecord] /\ mailed \in [Readers -> SUBSET Mails]
      /\ run[w].at = "mail"
      /\ UNCHANGED <<active, ready, editing, matching, delivered, ran, faults, slipped>>
  BY DEF JourneysIInv, JourneysTypeOK, RunRecord, Mails, QueueMail
<1>2. PICK s \in RunRecord : s = run[w]
  BY <1>1
<1>3. PICK u \in s.left :
        /\ mailed' = IF \E m \in mailed[u] : m.key = s.day THEN mailed
                     ELSE [mailed EXCEPT ![u] = @ \cup {[key |-> s.day, queued |-> 0]}]
        /\ run' = [run EXCEPT ![w].at = "row", ![w].user = {u}]
  BY <1>2 DEF QueueMail
<1>4. u \in Readers /\ s.day \in Ages
  BY JourneysAssumption DEF RunRecord, Ages
<1> DEFINE row == [s EXCEPT !.at = "row", !.user = {u}]
           mail == [key |-> s.day, queued |-> 0]
<1>5. /\ row \in RunRecord /\ row.at = "row" /\ row.user = {u} /\ row.day = s.day
      /\ row.left = s.left
  BY <1>4 DEF RunRecord
<1>6. run' = [run EXCEPT ![w] = row]
  BY <1>1, <1>2, <1>3
<1>7. mail \in Mails /\ mail.key = s.day /\ mail.queued = 0
  BY <1>4, AgesAreNumbers DEF Mails
<1>8. \/ mailed' = mailed /\ \E m \in mailed[u] : m.key = s.day
      \/ /\ mailed' = [mailed EXCEPT ![u] = mailed[u] \cup {mail}]
         /\ \A m \in mailed[u] : m.key # s.day
  BY <1>3
<1> HIDE DEF row, mail
<1>9. /\ run' \in [Workers -> RunRecord] /\ run'[w] = row
      /\ \A v \in Workers \ {w} : run'[v] = run[v]
      /\ \A v \in Workers : run'[v].day = run[v].day /\ run'[v].left = run[v].left
  BY <1>1, <1>2, <1>5, <1>6
<1>10. /\ mailed' \in [Readers -> SUBSET Mails]
       /\ \A r \in Readers \ {u} : mailed'[r] = mailed[r]
       /\ mailed'[u] \subseteq mailed[u] \cup {mail}
       /\ mail \in mailed'[u] => mailed'[u] = mailed[u] \/ \A m \in mailed[u] : m.key # s.day
  BY <1>1, <1>4, <1>7, <1>8
<1>11. JourneysTypeOK'
  BY <1>1, <1>9, <1>10 DEF JourneysIInv, JourneysTypeOK, RunRecord, Mails
<1>12. KeysComeFirst'
  <2> SUFFICES ASSUME NEW r \in Readers, NEW m \in mailed'[r] PROVE m.queued <= m.key
    BY DEF KeysComeFirst
  <2>1. CASE m \in mailed[r]
    BY <2>1 DEF JourneysIInv, KeysComeFirst
  <2>2. CASE m = mail
    BY <1>4, <1>7, <2>2, AgesAreNumbers
  <2> QED BY <1>10, <2>1, <2>2
<1>13. RowsAreOfTheList' /\ OneDaysLists'
  BY <1>1, <1>5, <1>9 DEF JourneysIInv, RowsAreOfTheList, OneDaysLists
<1>14. MailsHaveRows'
  <2> SUFFICES ASSUME NEW r \in Readers \ slipped, NEW m \in mailed'[r]
               PROVE  \/ \E a \in delivered[r] : a <= m.queued
                      \/ \E v \in Workers : run'[v].at = "row" /\ r \in run'[v].user /\ run'[v].day = m.key
    BY <1>1 DEF MailsHaveRows
  <2>1. CASE m \in mailed[r]
    <3>1. ASSUME NEW v \in Workers, run[v].at = "row", r \in run[v].user, run[v].day = m.key
          PROVE  run'[v].at = "row" /\ r \in run'[v].user /\ run'[v].day = m.key
      <4>1. v # w
        BY <1>1, <3>1
      <4> QED BY <1>9, <3>1, <4>1
    <3> QED BY <2>1, <3>1 DEF JourneysIInv, MailsHaveRows
  <2>2. CASE m = mail /\ r = u
    BY <1>5, <1>7, <1>9, <2>2
  <2> QED BY <1>10, <2>1, <2>2
<1>15. ListedAreDue'
  <2> SUFFICES ASSUME NEW v \in Workers, NEW r \in run[v].left \ slipped, NEW m \in mailed'[r]
               PROVE  m.key = run[v].day \/ m.queued = Cooldown
    BY <1>1, <1>9 DEF ListedAreDue
  <2>1. CASE m \in mailed[r]
    BY <2>1 DEF JourneysIInv, ListedAreDue
  <2>2. CASE m = mail /\ r = u
    <3>1. run[v].day = s.day
      BY <1>2, <2>2 DEF JourneysIInv, OneDaysLists
    <3> QED BY <1>7, <2>2, <3>1
  <2>3. r \in Readers
    BY <1>1 DEF RunRecord
  <2> QED BY <1>10, <2>1, <2>2, <2>3
<1>16. CooldownKept'
  <2> SUFFICES ASSUME NEW r \in Readers \ slipped, NEW m \in mailed'[r], NEW n \in mailed'[r],
                      m.queued < n.queued
               PROVE  n.queued - m.queued >= Cooldown
    BY <1>1 DEF CooldownKept
  <2>1. CASE m \in mailed[r] /\ n \in mailed[r]
    BY <2>1 DEF JourneysIInv, CooldownKept
  <2>2. m \in Mails /\ n \in Mails
    BY <1>10
  <2>3. m.queued \in Nat /\ n.queued \in Nat
    BY <2>2, AgesAreNumbers DEF Mails
  <2>4. n # mail
    BY <1>7, <2>3
  <2>5. CASE m = mail /\ m \notin mailed[r] /\ r = u
    <3>1. \A k \in mailed[u] : k.key # s.day
      BY <1>10, <2>5
    <3>2. n \in mailed[u]
      BY <1>10, <2>4, <2>5
    <3>3. n.queued = Cooldown
      BY <1>2, <2>5, <3>1, <3>2 DEF JourneysIInv, ListedAreDue
    <3> QED BY <1>7, <2>5, <3>3, AgesAreNumbers
  <2> QED BY <1>10, <2>1, <2>4, <2>5
<1> QED BY <1>11, <1>12, <1>13, <1>14, <1>15, <1>16 DEF JourneysIInv

\* The day ends: what is kept of mails and rows grows a day older together.
LEMMA MidnightKeepsJourneys ==
    ASSUME JourneysIInv, Midnight
    PROVE  JourneysIInv'
<1>1. /\ run \in [Workers -> RunRecord] /\ mailed \in [Readers -> SUBSET Mails]
      /\ delivered \in [Readers -> SUBSET (Ages \cup {Older})]
      /\ \A w \in Workers : run[w].day = 0
      /\ run' = [w \in Workers |-> IF run[w].at = "idle" THEN NoRun ELSE [run[w] EXCEPT !.day = 1]]
      /\ mailed' = [u \in Readers |->
           {[key |-> m.key + 1, queued |-> m.queued + 1] : m \in {m \in mailed[u] : m.key < Cooldown}}]
      /\ delivered' = [u \in Readers |-> {IF a = Older THEN a ELSE a + 1 : a \in delivered[u]}]
      /\ ran' = FALSE /\ UNCHANGED <<active, ready, editing, matching, faults, slipped>>
  BY DEF JourneysIInv, JourneysTypeOK, RunRecord, Mails, Midnight
<1>2. \A w \in Workers :
        /\ run'[w] \in RunRecord
        /\ run'[w].left # {} => /\ run'[w].day = 1 /\ run'[w].left = run[w].left
                                /\ run'[w].user = run[w].user /\ run'[w].at = run[w].at
        /\ run'[w].user \subseteq run'[w].left
        /\ run[w].at = "row" => /\ run'[w].day = 1 /\ run'[w].at = "row"
                                /\ run'[w].user = run[w].user
  <2> SUFFICES ASSUME NEW w \in Workers
               PROVE  /\ run'[w] \in RunRecord
                      /\ run'[w].left # {} => /\ run'[w].day = 1 /\ run'[w].left = run[w].left
                                              /\ run'[w].user = run[w].user /\ run'[w].at = run[w].at
                      /\ run'[w].user \subseteq run'[w].left
                      /\ run[w].at = "row" => /\ run'[w].day = 1 /\ run'[w].at = "row"
                                              /\ run'[w].user = run[w].user
    OBVIOUS
  <2>1. PICK s \in RunRecord : s = run[w]
    BY <1>1
  <2> DEFINE row == [s EXCEPT !.day = 1]
  <2>2. /\ row \in RunRecord /\ row.day = 1 /\ row.at = s.at /\ row.left = s.left
        /\ row.user = s.user
    BY DEF RunRecord
  <2>3. run'[w] = IF s.at = "idle" THEN NoRun ELSE row
    BY <1>1, <2>1
  <2> HIDE DEF row
  <2>4. s.user \subseteq s.left
    BY <2>1 DEF JourneysIInv, RowsAreOfTheList
  <2>5. CASE s.at = "idle"
    BY <2>1, <2>3, <2>5, NoRunIsIdle
  <2>6. CASE s.at # "idle"
    BY <2>1, <2>2, <2>3, <2>4, <2>6
  <2> QED BY <2>5, <2>6
\* Every mail there is now was one the day before.
<1>3. ASSUME NEW u \in Readers, NEW n \in mailed'[u]
      PROVE  \E m \in mailed[u] : /\ m.key < Cooldown /\ n.key = m.key + 1
                                  /\ n.queued = m.queued + 1 /\ n \in Mails
                                  /\ m.queued <= m.key /\ m.key \in Nat /\ m.queued \in Nat
  <2>1. PICK m \in mailed[u] : m.key < Cooldown /\ n = [key |-> m.key + 1, queued |-> m.queued + 1]
    BY <1>1, <1>3
  <2>2. PICK key \in Ages, queued \in Ages : key = m.key /\ queued = m.queued
    BY <1>1 DEF Mails
  <2>3. m.queued <= m.key
    BY DEF JourneysIInv, KeysComeFirst
  <2>4. key + 1 \in Ages /\ queued + 1 \in Ages /\ key \in Nat /\ queued \in Nat
    BY <2>1, <2>2, <2>3, AgesAreNumbers DEF Ages
  <2>5. n = [key |-> key + 1, queued |-> queued + 1]
    BY <2>1, <2>2
  <2>6. n \in Mails /\ n.key = key + 1 /\ n.queued = queued + 1
    BY <2>4, <2>5 DEF Mails
  <2> QED BY <2>1, <2>2, <2>3, <2>4, <2>6
<1>4. JourneysTypeOK'
  <2>1. run' \in [Workers -> RunRecord]
    BY <1>1, <1>2
  <2>2. mailed' \in [Readers -> SUBSET Mails]
    <3>1. \A u \in Readers : mailed'[u] \subseteq Mails
      BY <1>3
    <3>2. mailed' = [u \in Readers |-> mailed'[u]]
      BY <1>1
    <3> QED BY <3>1, <3>2
  <2>3. delivered' \in [Readers -> SUBSET (Ages \cup {Older})]
    <3>1. ASSUME NEW a \in Ages \cup {Older} PROVE (IF a = Older THEN a ELSE a + 1) \in Ages \cup {Older}
      BY AgesAreNumbers DEF Ages, Older
    <3> QED BY <1>1, <3>1
  <2> QED BY <1>1, <2>1, <2>2, <2>3 DEF JourneysIInv, JourneysTypeOK, RunRecord, Mails
<1>5. KeysComeFirst'
  <2> SUFFICES ASSUME NEW u \in Readers, NEW n \in mailed'[u] PROVE n.queued <= n.key
    BY DEF KeysComeFirst
  <2> QED BY <1>3
<1>6. RowsAreOfTheList' /\ OneDaysLists'
  <2>1. RowsAreOfTheList'
    BY <1>2 DEF RowsAreOfTheList
  <2>2. OneDaysLists'
    <3> SUFFICES ASSUME NEW v \in Workers, NEW w \in Workers, run'[v].day # run'[w].day
                 PROVE  run'[v].left \cap run'[w].left = {}
      BY DEF OneDaysLists
    <3> QED BY <1>2
  <2> QED BY <2>1, <2>2
<1>7. MailsHaveRows'
  <2> SUFFICES ASSUME NEW u \in Readers \ slipped, NEW n \in mailed'[u]
               PROVE  \/ \E a \in delivered'[u] : a <= n.queued
                      \/ \E w \in Workers : run'[w].at = "row" /\ u \in run'[w].user /\ run'[w].day = n.key
    BY <1>1 DEF MailsHaveRows
  <2>1. PICK m \in mailed[u] : /\ n.key = m.key + 1 /\ n.queued = m.queued + 1
                               /\ m.key \in Nat /\ m.queued \in Nat /\ m.queued <= m.key
                               /\ m.key < Cooldown
    BY <1>3
  <2>2. ASSUME NEW a \in delivered[u], a <= m.queued PROVE \E b \in delivered'[u] : b <= n.queued
    <3>1. a \in Ages \cup {Older} /\ Older = Cooldown + 1
      BY <1>1 DEF Older
    <3>2. a \in Nat /\ a # Older
      BY <2>1, <2>2, <3>1, AgesAreNumbers
    <3>3. a + 1 \in delivered'[u]
      BY <1>1, <3>2
    <3>4. a + 1 <= n.queued
      BY <2>1, <2>2, <3>2
    <3> QED BY <3>3, <3>4
  <2>3. ASSUME NEW w \in Workers, run[w].at = "row", u \in run[w].user, run[w].day = m.key
        PROVE  run'[w].at = "row" /\ u \in run'[w].user /\ run'[w].day = n.key
    BY <1>1, <1>2, <2>1, <2>3
  <2> QED BY <2>2, <2>3 DEF JourneysIInv, MailsHaveRows
<1>8. ListedAreDue'
  <2> SUFFICES ASSUME NEW w \in Workers, NEW u \in run'[w].left \ slipped, NEW n \in mailed'[u]
               PROVE  n.key = run'[w].day
    <3>1. slipped' = slipped
      BY <1>1
    <3> QED BY <3>1 DEF ListedAreDue
  <2>1. run'[w].day = 1 /\ u \in run[w].left /\ u \in Readers
    BY <1>2 DEF RunRecord
  <2>2. PICK m \in mailed[u] : /\ n.key = m.key + 1 /\ m.key \in Nat /\ m.queued \in Nat
                               /\ m.queued <= m.key /\ m.key < Cooldown
    BY <1>3, <2>1
  <2>3. m.key = 0 \/ m.queued = Cooldown
    BY <1>1, <2>1 DEF JourneysIInv, ListedAreDue
  <2> QED BY <2>1, <2>2, <2>3, AgesAreNumbers
<1>9. CooldownKept'
  <2> SUFFICES ASSUME NEW u \in Readers \ slipped, NEW m \in mailed'[u], NEW n \in mailed'[u],
                      m.queued < n.queued
               PROVE  n.queued - m.queued >= Cooldown
    BY <1>1 DEF CooldownKept
  <2>1. PICK m0 \in mailed[u] : m.queued = m0.queued + 1 /\ m0.queued \in Nat
    BY <1>3
  <2>2. PICK n0 \in mailed[u] : n.queued = n0.queued + 1 /\ n0.queued \in Nat
    BY <1>3
  <2>3. m0.queued < n0.queued
    BY <2>1, <2>2
  <2>4. n0.queued - m0.queued >= Cooldown
    BY <2>3 DEF JourneysIInv, CooldownKept
  <2> QED BY <2>1, <2>2, <2>4, AgesAreNumbers
<1> QED BY <1>4, <1>5, <1>6, <1>7, <1>8, <1>9 DEF JourneysIInv

LEMMA WorkerKeepsJourneys ==
    ASSUME JourneysIInv, NEW w \in Workers,
           WorkerStep(w) \/ StartAgain(w) \/ WorkerDies(w)
    PROVE  JourneysIInv'
<1>1. /\ run \in [Workers -> RunRecord] /\ slipped \subseteq Readers /\ ran \in BOOLEAN
      /\ faults \in 0..MaxFaults /\ MaxFaults \in Nat
      /\ delivered \in [Readers -> SUBSET (Ages \cup {Older})]
  BY JourneysAssumption DEF JourneysIInv, JourneysTypeOK, RunRecord
<1>2. PICK s \in RunRecord : s = run[w]
  BY <1>1
<1>3. CASE StartRun(w)
  <2>1. ran' \in BOOLEAN /\ faults' \in 0..MaxFaults
    BY <1>1, <1>3 DEF StartRun
  <2> QED BY <1>3, <2>1, BeginningKeepsJourneys DEF StartRun
<1>4. CASE StartAgain(w)
  <2>1. ran' \in BOOLEAN /\ faults' \in 0..MaxFaults
    BY <1>1, <1>4 DEF StartAgain
  <2> QED BY <1>4, <2>1, BeginningKeepsJourneys DEF StartAgain
<1>5. CASE QueueMail(w)
  BY <1>5, QueueingKeepsJourneys
\* What the run's list was, and no longer.
<1>6. /\ s.user \subseteq s.left /\ s.left \subseteq Readers
      /\ \A v \in Workers \ {w} : run[v].day # s.day => run[v].left \cap s.left \subseteq slipped
      /\ \A u \in s.left \ slipped : \A m \in mailed[u] : m.key = s.day \/ m.queued = Cooldown
  BY <1>2 DEF JourneysIInv, RowsAreOfTheList, OneDaysLists, ListedAreDue, RunRecord
<1>7. CASE NoteDelivery(w)
  <2> DEFINE row == [s EXCEPT !.at = "mail", !.user = {}, !.left = s.left \ s.user]
  <2>1. /\ row \in RunRecord /\ row.at = "mail" /\ row.user = {} /\ row.day = s.day
        /\ row.left \subseteq s.left
    BY DEF RunRecord
  <2>2. /\ run' = [run EXCEPT ![w] = row]
        /\ delivered' = [u \in Readers |-> IF u \in s.user THEN delivered[u] \cup {0} ELSE delivered[u]]
        /\ UNCHANGED <<active, ready, editing, matching, mailed, ran, faults, slipped>>
    BY <1>1, <1>2, <1>7 DEF NoteDelivery
  <2> HIDE DEF row
  <2>3. /\ delivered' \in [Readers -> SUBSET (Ages \cup {Older})]
        /\ \A u \in Readers : delivered[u] \subseteq delivered'[u]
        /\ \A u \in s.user : 0 \in delivered'[u]
    BY <1>1, <1>6, <2>2, AgesAreNumbers
  <2>4. /\ \A v \in Workers \ {w} : run[v].day # row.day => run[v].left \cap row.left \subseteq slipped
        /\ \A u \in row.left \ slipped : \A m \in mailed[u] : m.key = row.day \/ m.queued = Cooldown
    BY <1>6, <2>1
  <2> QED BY <1>1, <1>2, <2>1, <2>2, <2>3, <2>4, RunKeepsJourneys
<1>8. CASE EndRun(w)
  <2>1. /\ run' = [run EXCEPT ![w] = NoRun] /\ run[w].at = "mail"
        /\ UNCHANGED <<active, ready, editing, matching, mailed, delivered, ran, faults, slipped>>
    BY <1>8 DEF EndRun
  <2> QED BY <1>1, <2>1, NoRunIsIdle, RunKeepsJourneys
<1>9. CASE WorkerDies(w)
  <2>1. /\ run' = [run EXCEPT ![w] = NoRun] /\ slipped' = slipped \cup s.user
        /\ faults' = faults + 1 /\ faults < MaxFaults /\ ran' = FALSE
        /\ UNCHANGED <<active, ready, editing, matching, mailed, delivered>>
    BY <1>2, <1>9 DEF WorkerDies
  <2>2. faults' \in 0..MaxFaults
    BY <1>1, <2>1
  <2> QED BY <1>1, <1>2, <1>6, <2>1, <2>2, NoRunIsIdle, RunKeepsJourneys
<1> QED BY <1>3, <1>4, <1>5, <1>7, <1>8, <1>9 DEF WorkerStep

LEMMA NextJourneys == JourneysIInv /\ [JourneysNext]_journeyVars => JourneysIInv'
<1>1. JourneysIInv /\ UNCHANGED journeyVars => JourneysIInv'
  BY DEF journeyVars, JourneysIInv, JourneysTypeOK, KeysComeFirst, RowsAreOfTheList, OneDaysLists,
     MailsHaveRows, ListedAreDue, CooldownKept
<1> QED BY <1>1, StaffKeepJourneys, WorkerKeepsJourneys, MidnightKeepsJourneys DEF JourneysNext

\* At most one mail per account within the cool-down of a journey, unless a
\* worker died between the mail and its row or two days' runs had the account
\* on their lists, for any cool-down, audience and number of runs at one time
\* (campaigns.journeys.run_journey).
THEOREM JourneysKeepTheCooldown == JourneysSpec => []JourneysInv
<1>1. JourneysIInv => JourneysInv
  BY DEF JourneysIInv, JourneysInv
<1> QED BY InitJourneys, NextJourneys, <1>1, PTL DEF JourneysSpec

-----------------------------------------------------------------------------
(* The mail about new sessions: the inductive invariant *)

\* Whoever waits for a session belongs to the dojo, and only what was published
\* is listed.
WaitersBelong == \A e \in Sessions : waits[e] \subseteq belongs

ListsArePublished == \A w \in NewsWorkers : newsRun[w].list \subseteq published

\* A run that mails has left whom it has not mailed; it lists only sessions
\* that no family has been told of yet, unless they are unsettled.
RunsLeaveNobodyOut ==
    \A w \in NewsWorkers : newsRun[w].at = "mailing" =>
        \A e \in newsRun[w].list : \A f \in waits[e] :
            f \in newsRun[w].left \/ [family |-> f, list |-> newsRun[w].list] \in news

\* The form that is open is of a published session, and saves the announced_at
\* of now.
PageIsTrue ==
    /\ page.session \subseteq published
    /\ page.loaded = "announced" => page.session \subseteq announced

\* A settled session of a list is on no other run's and not announced.
ListsAreApart ==
    /\ \A w \in NewsWorkers : newsRun[w].list \cap announced \subseteq unsettled
    /\ \A w, v \in NewsWorkers : w # v => newsRun[w].list \cap newsRun[v].list \subseteq unsettled

\* A settled session somebody was told of is announced, or a run with the
\* same list is still at it.
ToldIsUnderWay ==
    \A m \in news : \A e \in m.list :
        \/ e \in unsettled \/ e \in announced
        \/ \E w \in NewsWorkers : newsRun[w].at = "mailing" /\ newsRun[w].list = m.list

NewsIInv ==
    /\ NewsTypeOK
    /\ WaitersBelong /\ ListsArePublished
    /\ RunsLeaveNobodyOut /\ AnnouncedMeansTold
    /\ PageIsTrue /\ ListsAreApart /\ ToldIsUnderWay /\ ToldOnce

NewsRecord == [at : {"idle", "listed", "mailing"}, list : SUBSET Sessions, left : SUBSET Families]

Mail == [family : Families, list : SUBSET Sessions]

LEMMA IdleNewsIsIdle ==
    IdleNews \in NewsRecord /\ IdleNews.at = "idle" /\ IdleNews.list = {} /\ IdleNews.left = {}
BY DEF IdleNews, NewsRecord

LEMMA InitNews == NewsInit => NewsIInv
<1> SUFFICES ASSUME NewsInit PROVE NewsIInv
  OBVIOUS
<1>1. /\ newsRun \in [NewsWorkers -> NewsRecord]
      /\ \A w \in NewsWorkers : newsRun[w].at = "idle" /\ newsRun[w].list = {}
  BY IdleNewsIsIdle DEF NewsInit
<1>2. NewsTypeOK
  BY <1>1, SessionNewsAssumption DEF NewsInit, NewsTypeOK, NewsRecord, NoPage
<1>3. WaitersBelong /\ ListsArePublished /\ RunsLeaveNobodyOut /\ AnnouncedMeansTold
  BY <1>1 DEF NewsInit, WaitersBelong, ListsArePublished, RunsLeaveNobodyOut, AnnouncedMeansTold
<1>4. PageIsTrue /\ ListsAreApart /\ ToldIsUnderWay /\ ToldOnce
  BY <1>1 DEF NewsInit, NoPage, PageIsTrue, ListsAreApart, ToldIsUnderWay, ToldOnce
<1> QED BY <1>2, <1>3, <1>4 DEF NewsIInv

\* The team and its families: no run goes on and nobody is mailed.
LEMMA TeamKeepsNews ==
    ASSUME NewsIInv,
           \/ \E e \in Sessions : OpenSession(e) \/ CloseSession(e) \/ StartTimePasses(e)
                                  \/ LoadSessionForm(e)
           \/ SaveSessionForm \/ \E f \in Families : MoveFamily(f)
    PROVE  NewsIInv'
<1>1. newsRun' = newsRun /\ news' = news /\ newsFaults' = newsFaults
  BY DEF OpenSession, CloseSession, StartTimePasses, LoadSessionForm, SaveSessionForm, MoveFamily
<1>2. /\ upcoming \subseteq published /\ announced \subseteq published
      /\ published \subseteq Sessions /\ unsettled \subseteq Sessions
      /\ page \in [loaded : {"no", "announced", "new"}, session : SUBSET Sessions]
      /\ belongs \subseteq Families /\ waits \in [Sessions -> SUBSET Families]
      /\ newsRun \in [NewsWorkers -> NewsRecord]
  BY DEF NewsIInv, NewsTypeOK, NewsRecord
<1>3. /\ upcoming' \subseteq published' /\ announced' \subseteq published'
      /\ published \subseteq published' /\ published' \subseteq Sessions
      /\ unsettled \subseteq unsettled' /\ unsettled' \subseteq Sessions
      /\ page' \in [loaded : {"no", "announced", "new"}, session : SUBSET Sessions]
      /\ belongs' \subseteq Families /\ waits' \in [Sessions -> SUBSET Families]
      /\ \A e \in Sessions : waits'[e] \subseteq belongs'
      /\ \A e \in published : waits'[e] \subseteq waits[e]
      /\ announced' \subseteq announced /\ announced \ announced' \subseteq unsettled'
      /\ page'.session \subseteq published'
      /\ page'.loaded = "announced" => page'.session \subseteq announced'
  <2>1. ASSUME NEW e \in Sessions, OpenSession(e) PROVE <1>3!:
    <3>1. \A d \in Sessions : waits'[d] = IF d = e /\ e \notin published THEN belongs ELSE waits[d]
      BY <1>2, <2>1 DEF OpenSession
    <3>2. waits' \in [Sessions -> SUBSET Families]
      BY <1>2, <2>1 DEF OpenSession
    <3> QED BY <1>2, <2>1, <3>1, <3>2 DEF OpenSession, NewsIInv, WaitersBelong, PageIsTrue
  <2>2. ASSUME NEW e \in Sessions, CloseSession(e) \/ StartTimePasses(e) PROVE <1>3!:
    BY <1>2, <2>2 DEF CloseSession, StartTimePasses, NewsIInv, WaitersBelong, PageIsTrue
  <2>3. ASSUME NEW e \in Sessions, LoadSessionForm(e) PROVE <1>3!:
    BY <1>2, <2>3 DEF LoadSessionForm, NewsIInv, WaitersBelong
  <2>4. CASE SaveSessionForm
    <3>1. page' = [loaded |-> "no", session |-> {}]
      BY <2>4 DEF SaveSessionForm, NoPage
    <3>2. announced' \subseteq announced
      BY <1>2, <2>4 DEF SaveSessionForm, NewsIInv, PageIsTrue
    <3>3. upcoming' \subseteq published /\ published' = published
      BY <1>2, <2>4 DEF SaveSessionForm, NewsIInv, PageIsTrue
    <3>4. /\ UNCHANGED <<belongs, waits>>
          /\ announced \ announced' \subseteq unsettled'
          /\ unsettled \subseteq unsettled' /\ unsettled' \subseteq Sessions
      BY <1>2, <2>4 DEF SaveSessionForm
    <3> QED BY <1>2, <2>4, <3>1, <3>2, <3>3, <3>4 DEF NewsIInv, WaitersBelong
  <2>5. ASSUME NEW f \in Families, MoveFamily(f) PROVE <1>3!:
    <3>1. belongs' \subseteq Families
      BY <1>2, <2>5 DEF MoveFamily
    <3>2. \A e \in Sessions : waits'[e] = waits[e] \cap belongs'
      BY <2>5 DEF MoveFamily
    <3>3. waits' \in [Sessions -> SUBSET Families]
      BY <1>2, <2>5 DEF MoveFamily
    <3> QED BY <1>2, <2>5, <3>1, <3>2, <3>3 DEF MoveFamily, NewsIInv, PageIsTrue
  <2> QED BY <2>1, <2>2, <2>3, <2>4, <2>5
<1>4. NewsTypeOK'
  BY <1>1, <1>3 DEF NewsIInv, NewsTypeOK
<1>5. WaitersBelong' /\ ListsArePublished' /\ PageIsTrue'
  BY <1>1, <1>3 DEF NewsIInv, WaitersBelong, ListsArePublished, PageIsTrue
<1>6. RunsLeaveNobodyOut'
  <2>1. \A w \in NewsWorkers : \A e \in newsRun[w].list : waits'[e] \subseteq waits[e]
    BY <1>3 DEF NewsIInv, ListsArePublished
  <2> QED BY <1>1, <2>1 DEF NewsIInv, RunsLeaveNobodyOut
<1>7. AnnouncedMeansTold'
  BY <1>1, <1>2, <1>3 DEF NewsIInv, AnnouncedMeansTold, Told
<1>8. ListsAreApart'
  <2>1. /\ \A w \in NewsWorkers : newsRun[w].list \cap announced' \subseteq unsettled'
        /\ \A w, v \in NewsWorkers : w # v =>
              newsRun[w].list \cap newsRun[v].list \subseteq unsettled'
    BY <1>3 DEF NewsIInv, ListsAreApart
  <2> QED BY <1>1, <2>1 DEF ListsAreApart
<1>9. ToldIsUnderWay' /\ ToldOnce'
  <2>1. ASSUME NEW m \in news, NEW e \in m.list
        PROVE  \/ e \in unsettled' \/ e \in announced'
               \/ \E w \in NewsWorkers : newsRun[w].at = "mailing" /\ newsRun[w].list = m.list
    BY <1>3, <2>1 DEF NewsIInv, ToldIsUnderWay
  <2>2. ToldIsUnderWay'
    BY <1>1, <2>1 DEF ToldIsUnderWay
  <2>3. ToldOnce'
    BY <1>1, <1>3 DEF NewsIInv, ToldOnce
  <2> QED BY <2>2, <2>3
<1> QED BY <1>4, <1>5, <1>6, <1>7, <1>8, <1>9 DEF NewsIInv

\* A run that lists the sessions and then the families.
LEMMA ListingKeepsNews ==
    ASSUME NewsIInv, NEW w \in NewsWorkers, ListSessions(w) \/ ListFamilies(w)
    PROVE  NewsIInv'
<1>1. /\ upcoming \subseteq published /\ published \subseteq Sessions /\ unsettled \subseteq Sessions
      /\ belongs \subseteq Families /\ newsRun \in [NewsWorkers -> NewsRecord]
      /\ UNCHANGED <<upcoming, published, announced, page, belongs, news, newsFaults, waits>>
  BY DEF NewsIInv, NewsTypeOK, NewsRecord, ListSessions, ListFamilies
<1>2. PICK s \in NewsRecord : s = newsRun[w]
  BY <1>1
<1>3. PICK row \in NewsRecord :
        /\ newsRun' = [newsRun EXCEPT ![w] = row]
        /\ unsettled \subseteq unsettled' /\ unsettled' \subseteq Sessions
        /\ row.list \subseteq published
        /\ s.at # "mailing"
        /\ row.at = "mailing" => row.left = belongs
        /\ row.list \cap announced \subseteq unsettled'
        /\ \A v \in NewsWorkers \ {w} : row.list \cap newsRun[v].list \subseteq unsettled'
  <2>1. CASE ListSessions(w)
    <3>1. PICK i \in NewsRecord : i = IdleNews
      BY IdleNewsIsIdle
    <3> DEFINE row == [i EXCEPT !.at = "listed", !.list = New]
    <3>2. row \in NewsRecord /\ row.at = "listed" /\ row.list = New
      BY <1>1 DEF NewsRecord, New
    <3>3. newsRun' = [newsRun EXCEPT ![w] = row] /\ s.at = "idle"
      BY <1>1, <1>2, <2>1, <3>1 DEF ListSessions
    <3>4. unsettled' = unsettled \cup (New \cap UNION {newsRun[v].list : v \in NewsWorkers})
      BY <2>1 DEF ListSessions
    <3>5. New \subseteq Sessions /\ New \subseteq published /\ New \cap announced = {}
      BY <1>1 DEF New
    <3> HIDE DEF row
    <3> QED BY <3>2, <3>3, <3>4, <3>5, <1>1
  <2>2. CASE ListFamilies(w)
    <3> DEFINE row == [s EXCEPT !.at = "mailing", !.left = belongs]
    <3>1. row \in NewsRecord /\ row.at = "mailing" /\ row.list = s.list /\ row.left = belongs
      BY <1>1 DEF NewsRecord
    <3>2. newsRun' = [newsRun EXCEPT ![w] = row] /\ s.at = "listed" /\ unsettled' = unsettled
      BY <1>1, <1>2, <2>2 DEF ListFamilies
    <3>3. /\ s.list \subseteq published /\ s.list \cap announced \subseteq unsettled
          /\ \A v \in NewsWorkers \ {w} : s.list \cap newsRun[v].list \subseteq unsettled
      BY <1>2 DEF NewsIInv, ListsArePublished, ListsAreApart
    <3> HIDE DEF row
    <3> QED BY <1>1, <3>1, <3>2, <3>3
  <2> QED BY <2>1, <2>2
<1>4. /\ newsRun' \in [NewsWorkers -> NewsRecord] /\ newsRun'[w] = row
      /\ \A v \in NewsWorkers \ {w} : newsRun'[v] = newsRun[v]
  BY <1>1, <1>3
<1>5. NewsTypeOK'
  BY <1>1, <1>3, <1>4 DEF NewsIInv, NewsTypeOK, NewsRecord
<1>6. WaitersBelong' /\ PageIsTrue' /\ AnnouncedMeansTold' /\ ToldOnce'
  BY <1>1, <1>3 DEF NewsIInv, WaitersBelong, PageIsTrue, AnnouncedMeansTold, Told, ToldOnce
<1>7. ListsArePublished'
  BY <1>1, <1>3, <1>4 DEF NewsIInv, ListsArePublished
<1>8. RunsLeaveNobodyOut'
  <2> SUFFICES ASSUME NEW v \in NewsWorkers, newsRun'[v].at = "mailing",
                      NEW e \in newsRun'[v].list, NEW f \in waits[e]
               PROVE  f \in newsRun'[v].left \/ [family |-> f, list |-> newsRun'[v].list] \in news
    BY <1>1 DEF RunsLeaveNobodyOut
  <2>1. CASE v = w
    <3>1. e \in Sessions /\ f \in belongs
      BY <1>1, <1>3, <1>4, <2>1 DEF NewsIInv, WaitersBelong
    <3> QED BY <1>3, <1>4, <2>1, <3>1
  <2>2. CASE v # w
    BY <1>4, <2>2 DEF NewsIInv, RunsLeaveNobodyOut
  <2> QED BY <2>1, <2>2
<1>9. ListsAreApart'
  <2>1. \A v \in NewsWorkers \ {w} : newsRun[v].list \cap announced \subseteq unsettled'
    BY <1>3 DEF NewsIInv, ListsAreApart
  <2>2. \A u, v \in NewsWorkers \ {w} : u # v =>
          newsRun[u].list \cap newsRun[v].list \subseteq unsettled'
    BY <1>3 DEF NewsIInv, ListsAreApart
  <2>3. \A v \in NewsWorkers : newsRun'[v].list \cap announced \subseteq unsettled'
    BY <1>3, <1>4, <2>1
  <2>4. \A u, v \in NewsWorkers : u # v =>
          newsRun'[u].list \cap newsRun'[v].list \subseteq unsettled'
    BY <1>3, <1>4, <2>2
  <2> QED BY <1>1, <2>3, <2>4 DEF ListsAreApart
<1>10. ToldIsUnderWay'
  <2> SUFFICES ASSUME NEW m \in news, NEW e \in m.list
               PROVE  \/ e \in unsettled' \/ e \in announced
                      \/ \E v \in NewsWorkers : newsRun'[v].at = "mailing" /\ newsRun'[v].list = m.list
    BY <1>1 DEF ToldIsUnderWay
  <2>1. CASE e \in unsettled \/ e \in announced
    BY <1>3, <2>1
  <2>2. ASSUME NEW v \in NewsWorkers, newsRun[v].at = "mailing", newsRun[v].list = m.list
        PROVE  newsRun'[v].at = "mailing" /\ newsRun'[v].list = m.list
    BY <1>2, <1>3, <1>4, <2>2
  <2> QED BY <2>1, <2>2 DEF NewsIInv, ToldIsUnderWay
<1> QED BY <1>5, <1>6, <1>7, <1>8, <1>9, <1>10 DEF NewsIInv

\* A family gets its mail: another mail about one of its sessions would be of a
\* run that overlapped, or about a session announced since.
LEMMA MailingKeepsNews ==
    ASSUME NewsIInv, NEW w \in NewsWorkers, MailFamily(w)
    PROVE  NewsIInv'
<1>1. /\ newsRun \in [NewsWorkers -> NewsRecord] /\ news \subseteq Mail
      /\ newsRun[w].at = "mailing"
      /\ UNCHANGED <<upcoming, published, announced, page, belongs, newsFaults, waits, unsettled>>
  BY DEF NewsIInv, NewsTypeOK, NewsRecord, Mail, MailFamily
<1>2. PICK s \in NewsRecord : s = newsRun[w]
  BY <1>1
<1>3. PICK f \in s.left :
        /\ news' = news \cup {[family |-> f, list |-> s.list]}
        /\ newsRun' = [newsRun EXCEPT ![w].left = @ \ {f}]
  BY <1>2 DEF MailFamily
<1> DEFINE row == [s EXCEPT !.left = s.left \ {f}]
           mail == [family |-> f, list |-> s.list]
<1>4. row \in NewsRecord /\ row.at = "mailing" /\ row.list = s.list /\ row.left = s.left \ {f}
  BY <1>1, <1>2 DEF NewsRecord
<1>5. newsRun' = [newsRun EXCEPT ![w] = row]
  BY <1>1, <1>2, <1>3
<1>6. mail \in Mail /\ mail.family = f /\ mail.list = s.list /\ news' = news \cup {mail}
  BY <1>3 DEF Mail, NewsRecord
<1> HIDE DEF row, mail
<1>7. /\ newsRun' \in [NewsWorkers -> NewsRecord] /\ newsRun'[w] = row
      /\ \A v \in NewsWorkers \ {w} : newsRun'[v] = newsRun[v]
      /\ \A v \in NewsWorkers : newsRun'[v].at = newsRun[v].at /\ newsRun'[v].list = newsRun[v].list
  BY <1>1, <1>2, <1>4, <1>5
<1>8. NewsTypeOK'
  BY <1>1, <1>6, <1>7 DEF NewsIInv, NewsTypeOK, NewsRecord, Mail
<1>9. WaitersBelong' /\ PageIsTrue' /\ ListsArePublished' /\ ListsAreApart'
  BY <1>1, <1>7 DEF NewsIInv, WaitersBelong, PageIsTrue, ListsArePublished, ListsAreApart
<1>10. AnnouncedMeansTold'
  BY <1>1, <1>6 DEF NewsIInv, AnnouncedMeansTold, Told
<1>11. RunsLeaveNobodyOut'
  <2> SUFFICES ASSUME NEW v \in NewsWorkers, newsRun[v].at = "mailing",
                      NEW e \in newsRun[v].list, NEW g \in waits[e]
               PROVE  \/ g \in newsRun'[v].left
                      \/ [family |-> g, list |-> newsRun[v].list] \in news'
    BY <1>1, <1>7 DEF RunsLeaveNobodyOut
  <2>1. g \in newsRun[v].left \/ [family |-> g, list |-> newsRun[v].list] \in news
    BY DEF NewsIInv, RunsLeaveNobodyOut
  <2>2. CASE v = w /\ g = f
    BY <1>2, <1>3, <2>2
  <2>3. CASE v = w /\ g # f
    BY <1>2, <1>4, <1>6, <1>7, <2>1, <2>3
  <2>4. CASE v # w
    BY <1>6, <1>7, <2>1, <2>4
  <2> QED BY <2>2, <2>3, <2>4
<1>12. ToldIsUnderWay'
  <2> SUFFICES ASSUME NEW m \in news', NEW e \in m.list
               PROVE  \/ e \in unsettled \/ e \in announced
                      \/ \E v \in NewsWorkers : newsRun[v].at = "mailing" /\ newsRun[v].list = m.list
    BY <1>1, <1>7 DEF ToldIsUnderWay
  <2>1. CASE m \in news
    BY <2>1 DEF NewsIInv, ToldIsUnderWay
  <2>2. CASE m = mail
    BY <1>1, <1>2, <1>6, <2>2
  <2> QED BY <1>6, <2>1, <2>2
<1>13. ToldOnce'
  <2>1. ASSUME NEW n \in news, n # mail, n.family = f, NEW e \in n.list, e \in s.list
        PROVE  e \in unsettled
    <3>1. n.list # s.list
      BY <1>1, <1>6, <2>1 DEF Mail
    <3>2. CASE e \in announced
      BY <1>2, <2>1, <3>2 DEF NewsIInv, ListsAreApart
    <3>3. ASSUME NEW v \in NewsWorkers, newsRun[v].list = n.list PROVE e \in unsettled
      BY <1>2, <2>1, <3>1, <3>3 DEF NewsIInv, ListsAreApart
    <3> QED BY <3>2, <3>3 DEF NewsIInv, ToldIsUnderWay
  <2>2. \A m, n \in news : m # n /\ m.family = n.family => m.list \cap n.list \subseteq unsettled
    BY DEF NewsIInv, ToldOnce
  <2>3. \A n \in news : n # mail /\ mail.family = n.family =>
          mail.list \cap n.list \subseteq unsettled /\ n.list \cap mail.list \subseteq unsettled
    BY <1>6, <2>1
  <2> QED BY <1>1, <1>6, <2>2, <2>3 DEF ToldOnce
<1> QED BY <1>8, <1>9, <1>10, <1>11, <1>12, <1>13 DEF NewsIInv

\* A run ends: with its sessions announced once nobody is left, or unsettled.
LEMMA EndingKeepsNews ==
    ASSUME NewsIInv, NEW w \in NewsWorkers, MarkAnnounced(w) \/ StopHalfway(w)
    PROVE  NewsIInv'
<1>1. /\ newsRun \in [NewsWorkers -> NewsRecord] /\ news \subseteq Mail
      /\ announced \subseteq published /\ published \subseteq Sessions
      /\ unsettled \subseteq Sessions /\ newsRun[w].list \subseteq published
      /\ newsRun' = [newsRun EXCEPT ![w] = IdleNews]
      /\ UNCHANGED <<upcoming, published, page, belongs, news, waits>>
  BY DEF NewsIInv, NewsTypeOK, ListsArePublished, NewsRecord, Mail, MarkAnnounced, StopHalfway
<1>2. /\ newsRun' \in [NewsWorkers -> NewsRecord]
      /\ newsRun'[w].at = "idle" /\ newsRun'[w].list = {}
      /\ \A v \in NewsWorkers \ {w} : newsRun'[v] = newsRun[v]
  BY <1>1, IdleNewsIsIdle
<1>3. /\ announced \subseteq announced' /\ announced' \subseteq announced \cup newsRun[w].list
      /\ unsettled \subseteq unsettled' /\ unsettled' \subseteq Sessions
      /\ newsRun[w].list \subseteq announced' \/ newsRun[w].list \subseteq unsettled'
      /\ newsFaults' \in 0..MaxNewsFaults
  <2>1. newsFaults \in 0..MaxNewsFaults /\ MaxNewsFaults \in Nat
    BY SessionNewsAssumption DEF NewsIInv, NewsTypeOK
  <2>2. CASE MarkAnnounced(w)
    BY <1>1, <2>1, <2>2 DEF MarkAnnounced
  <2>3. CASE StopHalfway(w)
    BY <1>1, <2>1, <2>3 DEF StopHalfway
  <2> QED BY <2>2, <2>3
<1>4. NewsTypeOK'
  BY <1>1, <1>2, <1>3 DEF NewsIInv, NewsTypeOK, NewsRecord
<1>5. WaitersBelong' /\ PageIsTrue' /\ ToldOnce'
  BY <1>1, <1>3 DEF NewsIInv, WaitersBelong, PageIsTrue, ToldOnce
<1>6. ListsArePublished' /\ RunsLeaveNobodyOut'
  <2>1. ListsArePublished'
    BY <1>1, <1>2 DEF NewsIInv, ListsArePublished
  <2>2. RunsLeaveNobodyOut'
    <3> SUFFICES ASSUME NEW v \in NewsWorkers, newsRun'[v].at = "mailing",
                        NEW e \in newsRun'[v].list, NEW f \in waits[e]
                 PROVE  f \in newsRun'[v].left \/ [family |-> f, list |-> newsRun'[v].list] \in news
      BY <1>1 DEF RunsLeaveNobodyOut
    <3>1. v # w /\ newsRun'[v] = newsRun[v]
      BY <1>2
    <3> QED BY <3>1 DEF NewsIInv, RunsLeaveNobodyOut
  <2> QED BY <2>1, <2>2
<1>7. AnnouncedMeansTold'
  <2>1. CASE MarkAnnounced(w)
    <3> SUFFICES ASSUME NEW e \in announced', NEW f \in waits[e] PROVE Told(f, e)
      BY <1>1 DEF AnnouncedMeansTold, Told
    <3>1. CASE e \in announced
      BY <3>1 DEF NewsIInv, AnnouncedMeansTold
    <3>2. CASE e \in newsRun[w].list
      <4>1. newsRun[w].at = "mailing" /\ newsRun[w].left = {}
        BY <2>1 DEF MarkAnnounced
      <4>2. [family |-> f, list |-> newsRun[w].list] \in news
        BY <3>2, <4>1 DEF NewsIInv, RunsLeaveNobodyOut
      <4>3. PICK m \in news : m = [family |-> f, list |-> newsRun[w].list]
        BY <4>2
      <4> QED BY <3>2, <4>3 DEF Told
    <3> QED BY <1>3, <3>1, <3>2
  <2>2. CASE StopHalfway(w)
    BY <1>1, <2>2 DEF StopHalfway, NewsIInv, AnnouncedMeansTold, Told
  <2> QED BY <2>1, <2>2
<1>8. ListsAreApart'
  <2>1. ASSUME NEW v \in NewsWorkers
        PROVE  newsRun'[v].list \cap announced' \subseteq unsettled'
    <3>1. CASE v = w
      BY <1>2, <3>1
    <3>2. CASE v # w
      <4>1. newsRun[v].list \cap announced \subseteq unsettled
        BY DEF NewsIInv, ListsAreApart
      <4>2. newsRun[v].list \cap newsRun[w].list \subseteq unsettled
        BY <3>2 DEF NewsIInv, ListsAreApart
      <4> QED BY <1>2, <1>3, <3>2, <4>1, <4>2
    <3> QED BY <3>1, <3>2
  <2>2. ASSUME NEW u \in NewsWorkers, NEW v \in NewsWorkers, u # v
        PROVE  newsRun'[u].list \cap newsRun'[v].list \subseteq unsettled'
    <3>1. CASE u = w \/ v = w
      BY <1>2, <3>1
    <3>2. CASE u # w /\ v # w
      <4>1. newsRun[u].list \cap newsRun[v].list \subseteq unsettled
        BY <2>2 DEF NewsIInv, ListsAreApart
      <4> QED BY <1>2, <1>3, <3>2, <4>1
    <3> QED BY <3>1, <3>2
  <2> QED BY <2>1, <2>2 DEF ListsAreApart
<1>9. ToldIsUnderWay'
  <2> SUFFICES ASSUME NEW m \in news, NEW e \in m.list
               PROVE  \/ e \in unsettled' \/ e \in announced'
                      \/ \E v \in NewsWorkers : newsRun'[v].at = "mailing" /\ newsRun'[v].list = m.list
    BY <1>1 DEF ToldIsUnderWay
  <2>1. CASE e \in unsettled \/ e \in announced
    BY <1>3, <2>1
  <2>2. ASSUME NEW v \in NewsWorkers, newsRun[v].at = "mailing", newsRun[v].list = m.list
        PROVE  \/ e \in unsettled' \/ e \in announced'
               \/ newsRun'[v].at = "mailing" /\ newsRun'[v].list = m.list
    <3>1. CASE v = w
      BY <1>3, <2>2, <3>1
    <3>2. CASE v # w
      BY <1>2, <2>2, <3>2
    <3> QED BY <3>1, <3>2
  <2> QED BY <2>1, <2>2 DEF NewsIInv, ToldIsUnderWay
<1> QED BY <1>4, <1>5, <1>6, <1>7, <1>8, <1>9 DEF NewsIInv

LEMMA NextNews == NewsIInv /\ [NewsNext]_newsVars => NewsIInv'
<1>1. NewsIInv /\ UNCHANGED newsVars => NewsIInv'
  BY DEF newsVars, NewsIInv, NewsTypeOK, WaitersBelong, ListsArePublished, RunsLeaveNobodyOut,
     AnnouncedMeansTold, Told, PageIsTrue, ListsAreApart, ToldIsUnderWay, ToldOnce
<1> QED BY <1>1, TeamKeepsNews, ListingKeepsNews, MailingKeepsNews, EndingKeepsNews
        DEF NewsNext, NewsStep

\* An announced session was told to every family of the dojo, and to none of
\* them twice unless runs stopped, overlapped or were undone, for any number of
\* sessions, families and runs (mailing.automated.announce_new_sessions).
THEOREM NewsReachesEveryFamilyOnce == NewsSpec => []NewsInv
<1>1. NewsIInv => NewsInv
  BY DEF NewsIInv, NewsInv
<1> QED BY InitNews, NextNews, <1>1, PTL DEF NewsSpec

-----------------------------------------------------------------------------
(* Shared caches: the inductive invariant *)

\* What a request has read and what is stored was the version of its table.
NothingIsNewer ==
    /\ \A v \in Visitors : \A t \in DOMAIN visit[v].read : visit[v].read[t] <= version[t]
    /\ \A t \in DOMAIN cached : cached[t] <= version[t]

\* A value is stored when every table was read.
WholeValues == cached = Nothing \/ DOMAIN cached = Tables

\* A request that holds an old value has been passed by the last delete.
OldOnesArePassed == \A v \in Visitors : Outdated(v) /\ Settled /\ ~skipped => v \in late

CacheIInv ==
    /\ CacheTypeOK
    /\ NothingIsNewer /\ WholeValues
    /\ OldOnesArePassed /\ StaleOnlyWhenStoredLate

Edit == [at : {"idle", "saved", "committed"}, table : SUBSET Tables]

Visit == [builds : BOOLEAN, read : Values(Tables)]

LEMMA ValuesAreFunctions ==
    ASSUME NEW f
    PROVE  f \in Values(Tables) <=> \E T \in SUBSET Tables : f \in [T -> 0..MaxVersion]
BY DEF Values

LEMMA NothingIsEmpty == Nothing \in Values(Tables) /\ DOMAIN Nothing = {}
<1>1. Nothing \in [{} -> 0..MaxVersion]
  BY DEF Nothing
<1> QED BY <1>1, ValuesAreFunctions

LEMMA InitCache == CacheInit => CacheIInv
<1> SUFFICES ASSUME CacheInit PROVE CacheIInv
  OBVIOUS
<1>1. CacheTypeOK
  <2>1. [builds |-> FALSE, read |-> Nothing] \in Visit /\ [at |-> "idle", table |-> {}] \in Edit
    BY NothingIsEmpty DEF Visit, Edit
  <2>2. visit \in [Visitors -> Visit] /\ edit \in [Editors -> Edit]
    BY <2>1 DEF CacheInit
  <2>3. version \in [Tables -> 0..MaxVersion]
    BY SharedCacheAssumption DEF CacheInit
  <2>4. cached \in Values(Tables) /\ skipped \in BOOLEAN /\ late \subseteq Visitors \cup {Key}
    BY NothingIsEmpty DEF CacheInit
  <2> QED BY <2>2, <2>3, <2>4 DEF CacheTypeOK, Visit, Edit
<1>2. NothingIsNewer /\ WholeValues /\ OldOnesArePassed
  BY NothingIsEmpty DEF CacheInit, NothingIsNewer, WholeValues, OldOnesArePassed, Outdated
<1>3. StaleOnlyWhenStoredLate
  BY DEF CacheInit, StaleOnlyWhenStoredLate, Stale
<1> QED BY <1>1, <1>2, <1>3 DEF CacheIInv

\* A request that goes on building.
LEMMA BuildingKeepsCache ==
    ASSUME CacheIInv, NEW v \in Visitors, Miss(v) \/ \E t \in Tables : ReadTable(v, t)
    PROVE  CacheIInv'
<1>1. /\ visit \in [Visitors -> Visit] /\ version \in [Tables -> 0..MaxVersion]
      /\ UNCHANGED <<version, cached, edit, skipped, late>>
  BY DEF CacheIInv, CacheTypeOK, Visit, Miss, ReadTable
<1>2. PICK s \in Visit : s = visit[v]
  BY <1>1
<1>3. PICK T \in SUBSET Tables : s.read \in [T -> 0..MaxVersion]
  BY ValuesAreFunctions DEF Visit
<1>4. PICK row \in Visit :
        /\ visit' = [visit EXCEPT ![v] = row]
        /\ \A u \in DOMAIN row.read :
             row.read[u] = version[u] \/ (u \in DOMAIN s.read /\ row.read[u] = s.read[u])
  <2>1. CASE Miss(v)
    <3> DEFINE row == [s EXCEPT !.builds = TRUE]
    <3>1. row \in Visit /\ row.read = s.read
      BY DEF Visit
    <3>2. visit' = [visit EXCEPT ![v] = row]
      BY <1>1, <1>2, <2>1 DEF Miss
    <3> HIDE DEF row
    <3> QED BY <3>1, <3>2
  <2>2. ASSUME NEW t \in Tables, ReadTable(v, t)
        PROVE  \E row \in Visit :
                 /\ visit' = [visit EXCEPT ![v] = row]
                 /\ \A u \in DOMAIN row.read :
                      row.read[u] = version[u] \/ (u \in DOMAIN s.read /\ row.read[u] = s.read[u])
    <3> DEFINE read == [u \in T \cup {t} |-> IF u = t THEN version[t] ELSE s.read[u]]
               row == [s EXCEPT !.read = read]
    <3>1. read \in [T \cup {t} -> 0..MaxVersion] /\ T \cup {t} \in SUBSET Tables
      BY <1>1, <1>3
    <3>2. read \in Values(Tables)
      BY <3>1, ValuesAreFunctions
    <3>3. row \in Visit /\ row.read = read
      BY <3>2 DEF Visit
    <3>4. visit' = [visit EXCEPT ![v] = row]
      BY <1>1, <1>2, <1>3, <2>2 DEF ReadTable
    <3>5. \A u \in DOMAIN read :
            read[u] = version[u] \/ (u \in DOMAIN s.read /\ read[u] = s.read[u])
      BY <1>3
    <3> HIDE DEF read, row
    <3> QED BY <3>3, <3>4, <3>5
  <2> QED BY <2>1, <2>2
<1>5. /\ visit' \in [Visitors -> Visit] /\ visit'[v] = row
      /\ \A w \in Visitors \ {v} : visit'[w] = visit[w]
  BY <1>1, <1>4
<1>6. CacheTypeOK'
  BY <1>1, <1>5 DEF CacheIInv, CacheTypeOK, Visit
<1>7. PICK U \in SUBSET Tables : row.read \in [U -> 0..MaxVersion]
  BY ValuesAreFunctions DEF Visit
<1>8. \A u \in Tables : version[u] <= version[u]
  BY <1>1, SharedCacheAssumption
<1>9. NothingIsNewer'
  <2>1. \A u \in DOMAIN row.read : row.read[u] <= version[u]
    BY <1>2, <1>4, <1>7, <1>8 DEF CacheIInv, NothingIsNewer
  <2> QED BY <1>1, <1>5, <2>1 DEF CacheIInv, NothingIsNewer
<1>10. WholeValues' /\ StaleOnlyWhenStoredLate' /\ (Settled' <=> Settled)
  BY <1>1 DEF CacheIInv, WholeValues, StaleOnlyWhenStoredLate, Stale, Settled
<1>11. OldOnesArePassed'
  <2> SUFFICES ASSUME NEW w \in Visitors, Outdated(w)', Settled, ~skipped PROVE w \in late
    BY <1>1, <1>10 DEF OldOnesArePassed
  <2>1. Outdated(w)
    <3>1. CASE w = v
      <4>1. PICK u \in DOMAIN row.read : row.read[u] < version[u]
        BY <1>1, <1>5, <3>1 DEF Outdated
      <4>2. ~(row.read[u] = version[u])
        BY <1>1, <1>7, <4>1, SharedCacheAssumption
      <4> QED BY <1>2, <1>4, <3>1, <4>1, <4>2 DEF Outdated
    <3>2. CASE w # v
      BY <1>1, <1>5, <3>2 DEF Outdated
    <3> QED BY <3>1, <3>2
  <2> QED BY <2>1 DEF CacheIInv, OldOnesArePassed
<1> QED BY <1>6, <1>9, <1>10, <1>11 DEF CacheIInv

\* A request that stores what it read: an old value only when the last delete
\* has passed it.
LEMMA StoringKeepsCache ==
    ASSUME CacheIInv, NEW v \in Visitors, Store(v)
    PROVE  CacheIInv'
<1> DEFINE rest == [builds |-> FALSE, read |-> Nothing]
<1>1. /\ visit \in [Visitors -> Visit] /\ version \in [Tables -> 0..MaxVersion]
      /\ DOMAIN visit[v].read = Tables /\ cached' = visit[v].read
      /\ visit' = [visit EXCEPT ![v] = rest]
      /\ late' = (IF v \in late THEN (late \ {v}) \cup {Key} ELSE late \ {Key})
      /\ UNCHANGED <<version, edit, skipped>>
      /\ late \subseteq Visitors \cup {Key}
  BY DEF CacheIInv, CacheTypeOK, Visit, Store
<1>2. rest \in Visit /\ DOMAIN rest.read = {}
  BY NothingIsEmpty DEF Visit
<1> HIDE DEF rest
<1>3. visit' \in [Visitors -> Visit] /\ visit'[v] = rest /\ \A w \in Visitors \ {v} : visit'[w] = visit[w]
  BY <1>1, <1>2
<1>4. CacheTypeOK'
  <2>1. cached' \in Values(Tables)
    BY <1>1 DEF Visit
  <2>2. late' \subseteq Visitors \cup {Key}
    BY <1>1
  <2> QED BY <1>1, <1>3, <2>1, <2>2 DEF CacheIInv, CacheTypeOK, Visit
<1>5. NothingIsNewer' /\ WholeValues'
  BY <1>1, <1>2, <1>3 DEF CacheIInv, NothingIsNewer, WholeValues
<1>6. Settled' <=> Settled
  BY <1>1 DEF Settled
<1>7. OldOnesArePassed'
  <2> SUFFICES ASSUME NEW w \in Visitors, Outdated(w)', Settled, ~skipped PROVE w \in late'
    BY <1>1, <1>6 DEF OldOnesArePassed
  <2>1. w # v /\ Outdated(w)
    BY <1>1, <1>2, <1>3 DEF Outdated
  <2>2. w \in late
    BY <2>1 DEF CacheIInv, OldOnesArePassed
  <2> QED BY <1>1, <2>1, <2>2, SharedCacheAssumption
<1>8. StaleOnlyWhenStoredLate'
  <2> SUFFICES ASSUME Stale', Settled, ~skipped PROVE Key \in late'
    BY <1>1, <1>6 DEF StaleOnlyWhenStoredLate
  <2>1. PICK t \in Tables : visit[v].read[t] # version[t]
    <3>1. PICK T \in SUBSET Tables : visit[v].read \in [T -> 0..MaxVersion]
      BY <1>1, ValuesAreFunctions DEF Visit
    <3> QED BY <1>1, <3>1 DEF Stale
  <2>2. visit[v].read[t] < version[t]
    <3>1. PICK T \in SUBSET Tables : visit[v].read \in [T -> 0..MaxVersion]
      BY <1>1, ValuesAreFunctions DEF Visit
    <3>2. visit[v].read[t] <= version[t]
      BY <1>1 DEF CacheIInv, NothingIsNewer
    <3> QED BY <1>1, <2>1, <3>1, <3>2, SharedCacheAssumption
  <2>3. v \in late
    BY <1>1, <2>2 DEF CacheIInv, OldOnesArePassed, Outdated
  <2> QED BY <1>1, <2>3
<1> QED BY <1>4, <1>5, <1>7, <1>8 DEF CacheIInv

\* A step that empties the key, or touches neither the key nor what requests
\* have read; the versions only go up, and a change that is committed is either
\* still to delete the key again, or skipped its delete, or passed by.
LEMMA EditingKeepsCache ==
    ASSUME CacheIInv, visit' = visit,
           version' \in [Tables -> 0..MaxVersion], edit' \in [Editors -> Edit],
           \A t \in Tables : version[t] <= version'[t],
           skipped' \in BOOLEAN, skipped => skipped',
           late' \subseteq Visitors \cup {Key}, late \cap Visitors \subseteq late',
           \/ cached' = Nothing
           \/ cached' = cached /\ (Key \in late => Key \in late'),
           \/ ~Settled' \/ skipped'
           \/ version' = version /\ (Settled \/ cached' = Nothing)
              /\ (Settled \/ \A v \in Visitors : Outdated(v) => v \in late')
    PROVE  CacheIInv'
<1>1. /\ visit \in [Visitors -> Visit] /\ version \in [Tables -> 0..MaxVersion]
      /\ cached \in Values(Tables)
  BY DEF CacheIInv, CacheTypeOK, Visit
<1>2. CacheTypeOK'
  BY <1>1, NothingIsEmpty DEF CacheIInv, CacheTypeOK, Edit
<1>3. NothingIsNewer'
  <2>1. ASSUME NEW f \in Values(Tables), NEW t \in DOMAIN f, f[t] <= version[t]
        PROVE  f[t] <= version'[t]
    <3>1. PICK T \in SUBSET Tables : f \in [T -> 0..MaxVersion]
      BY ValuesAreFunctions
    <3>2. PICK a \in 0..MaxVersion, b \in 0..MaxVersion, c \in 0..MaxVersion :
            a = f[t] /\ b = version[t] /\ c = version'[t]
      BY <1>1, <3>1
    <3>3. a <= b /\ b <= c
      BY <2>1, <3>1, <3>2
    <3> QED BY <3>2, <3>3, SharedCacheAssumption
  <2>2. \A v \in Visitors : visit[v].read \in Values(Tables)
    BY <1>1 DEF Visit
  <2>3. \A v \in Visitors : \A t \in DOMAIN visit[v].read : visit[v].read[t] <= version'[t]
    BY <2>1, <2>2 DEF CacheIInv, NothingIsNewer
  <2>4. \A t \in DOMAIN cached : cached[t] <= version'[t]
    BY <1>1, <2>1 DEF CacheIInv, NothingIsNewer
  <2> QED BY <2>3, <2>4, NothingIsEmpty DEF NothingIsNewer
<1>4. WholeValues'
  BY DEF CacheIInv, WholeValues
<1>5. OldOnesArePassed' /\ StaleOnlyWhenStoredLate'
  <2>1. CASE ~Settled' \/ skipped'
    BY <2>1 DEF OldOnesArePassed, StaleOnlyWhenStoredLate
  <2>2. CASE /\ version' = version /\ (Settled \/ cached' = Nothing) /\ ~skipped'
             /\ (Settled \/ \A v \in Visitors : Outdated(v) => v \in late')
    <3>1. ~skipped
      BY <2>2
    <3>2. \A v \in Visitors : Outdated(v)' <=> Outdated(v)
      BY <2>2 DEF Outdated
    <3>3. OldOnesArePassed'
      BY <2>2, <3>1, <3>2 DEF CacheIInv, OldOnesArePassed
    <3>4. StaleOnlyWhenStoredLate'
      BY <2>2, <3>1 DEF CacheIInv, StaleOnlyWhenStoredLate, Stale
    <3> QED BY <3>3, <3>4
  <2> QED BY <2>1, <2>2
<1> QED BY <1>2, <1>3, <1>4, <1>5 DEF CacheIInv

LEMMA NextCache == CacheIInv /\ [CacheNext]_cacheVars => CacheIInv'
<1> SUFFICES ASSUME CacheIInv, [CacheNext]_cacheVars PROVE CacheIInv'
  OBVIOUS
<1>1. /\ visit \in [Visitors -> Visit] /\ version \in [Tables -> 0..MaxVersion]
      /\ edit \in [Editors -> Edit] /\ skipped \in BOOLEAN
      /\ late \subseteq Visitors \cup {Key} /\ Key \notin Visitors /\ MaxVersion \in Nat
  BY SharedCacheAssumption DEF CacheIInv, CacheTypeOK, Visit, Edit
<1>2. \A t \in Tables : version[t] <= version[t]
  BY <1>1
\* A change goes from one stage to another.
<1>3. ASSUME NEW e \in Editors, NEW row \in Edit, edit' = [edit EXCEPT ![e] = row]
      PROVE  /\ edit' \in [Editors -> Edit]
             /\ row.at = "committed" => ~Settled'
             /\ edit[e].at # "committed" /\ Settled' => Settled
  <2>1. edit' \in [Editors -> Edit] /\ edit'[e] = row /\ \A d \in Editors \ {e} : edit'[d] = edit[d]
    BY <1>1, <1>3
  <2> QED BY <2>1 DEF Settled
<1>4. [at |-> "idle", table |-> {}] \in Edit
  BY DEF Edit
<1>5. ASSUME NEW v \in Visitors, Miss(v) \/ \E t \in Tables : ReadTable(v, t) PROVE CacheIInv'
  BY <1>5, BuildingKeepsCache
<1>6. ASSUME NEW v \in Visitors, Store(v) PROVE CacheIInv'
  BY <1>6, StoringKeepsCache
<1>7. CASE Expire
  <2>1. /\ cached' = Nothing /\ late' = late \ {Key} /\ UNCHANGED <<version, visit, edit, skipped>>
    BY <1>7 DEF Expire
  <2>2. Settled' <=> Settled
    BY <2>1 DEF Settled
  <2> QED BY <1>1, <1>2, <2>1, <2>2, EditingKeepsCache
<1>8. ASSUME NEW e \in Editors, NEW t \in Tables, Save(e, t) PROVE CacheIInv'
  <2>1. /\ edit[e].at = "idle" /\ edit' = [edit EXCEPT ![e] = [at |-> "saved", table |-> {t}]]
        /\ cached' = Nothing /\ late' = late \ {Key} /\ UNCHANGED <<version, visit, skipped>>
    BY <1>8 DEF Save
  <2>2. [at |-> "saved", table |-> {t}] \in Edit
    BY DEF Edit
  <2>3. edit' \in [Editors -> Edit] /\ (Settled' => Settled)
    BY <1>3, <2>1, <2>2
  <2> QED BY <1>1, <1>2, <2>1, <2>3, EditingKeepsCache
<1>9. ASSUME NEW e \in Editors, CommitEdit(e) PROVE CacheIInv'
  <2>1. PICK s \in Edit : s = edit[e]
    BY <1>1
  <2> DEFINE row == [s EXCEPT !.at = "committed"]
  <2>2. row \in Edit /\ row.at = "committed"
    BY DEF Edit
  <2>3. /\ edit' = [edit EXCEPT ![e] = row] /\ UNCHANGED <<cached, visit, skipped, late>>
        /\ \A t \in s.table : version[t] < MaxVersion
        /\ version' = [t \in Tables |-> version[t] + IF t \in s.table THEN 1 ELSE 0]
    BY <1>1, <1>9, <2>1 DEF CommitEdit
  <2> HIDE DEF row
  <2>4. \A t \in Tables : version'[t] \in 0..MaxVersion /\ version[t] <= version'[t]
    <3> SUFFICES ASSUME NEW t \in Tables
                 PROVE  version'[t] \in 0..MaxVersion /\ version[t] <= version'[t]
      OBVIOUS
    <3>1. PICK n \in 0..MaxVersion : n = version[t]
      BY <1>1
    <3>2. version'[t] = n + IF t \in s.table THEN 1 ELSE 0
      BY <2>3, <3>1
    <3>3. t \in s.table => n < MaxVersion
      BY <2>3, <3>1
    <3> QED BY <1>1, <3>1, <3>2, <3>3
  <2>5. version' \in [Tables -> 0..MaxVersion]
    BY <2>3, <2>4
  <2>6. edit' \in [Editors -> Edit] /\ ~Settled'
    BY <1>3, <2>2, <2>3
  <2> QED BY <1>1, <2>3, <2>4, <2>5, <2>6, EditingKeepsCache
<1>10. ASSUME NEW e \in Editors, RollBack(e) PROVE CacheIInv'
  <2>1. /\ edit[e].at = "saved" /\ edit' = [edit EXCEPT ![e] = [at |-> "idle", table |-> {}]]
        /\ UNCHANGED <<version, cached, visit, skipped, late>>
    BY <1>10 DEF RollBack
  <2>2. edit' \in [Editors -> Edit] /\ (Settled' => Settled)
    BY <1>3, <1>4, <2>1
  <2> QED BY <1>1, <1>2, <2>1, <2>2, EditingKeepsCache
<1>11. ASSUME NEW e \in Editors, ClearAgain(e) PROVE CacheIInv'
  <2>1. /\ edit' = [edit EXCEPT ![e] = [at |-> "idle", table |-> {}]] /\ cached' = Nothing
        /\ late' = (late \ {Key}) \cup {v \in Visitors : Outdated(v)}
        /\ UNCHANGED <<version, visit, skipped>>
    BY <1>11 DEF ClearAgain
  <2>2. edit' \in [Editors -> Edit]
    BY <1>3, <1>4, <2>1
  <2>3. /\ late' \subseteq Visitors \cup {Key} /\ late \cap Visitors \subseteq late'
        /\ \A v \in Visitors : Outdated(v) => v \in late'
    BY <1>1, <2>1
  <2> QED BY <1>1, <1>2, <2>1, <2>2, <2>3, EditingKeepsCache
<1>12. ASSUME NEW e \in Editors, SkipClear(e) PROVE CacheIInv'
  <2>1. /\ edit' = [edit EXCEPT ![e] = [at |-> "idle", table |-> {}]] /\ skipped' = TRUE
        /\ UNCHANGED <<version, cached, visit, late>>
    BY <1>12 DEF SkipClear
  <2>2. edit' \in [Editors -> Edit]
    BY <1>3, <1>4, <2>1
  <2> QED BY <1>1, <1>2, <2>1, <2>2, EditingKeepsCache
<1>13. ASSUME NEW t \in Tables, ChangeInBulk(t) PROVE CacheIInv'
  <2>1. /\ version[t] < MaxVersion /\ version' = [version EXCEPT ![t] = @ + 1]
        /\ skipped' = TRUE /\ UNCHANGED <<cached, visit, edit, late>>
    BY <1>13 DEF ChangeInBulk
  <2>2. PICK n \in 0..MaxVersion : n = version[t]
    BY <1>1
  <2>3. n + 1 \in 0..MaxVersion /\ n <= n + 1
    BY <1>1, <2>1, <2>2
  <2>4. version' = [version EXCEPT ![t] = n + 1]
    BY <2>1, <2>2
  <2>5. version' \in [Tables -> 0..MaxVersion] /\ \A u \in Tables : version[u] <= version'[u]
    BY <1>1, <1>2, <2>2, <2>3, <2>4
  <2> QED BY <1>1, <2>1, <2>5, EditingKeepsCache
<1>14. CASE UNCHANGED cacheVars
  BY <1>14 DEF cacheVars, CacheIInv, CacheTypeOK, NothingIsNewer, WholeValues, OldOnesArePassed,
       Outdated, Settled, StaleOnlyWhenStoredLate, Stale
<1> QED BY <1>5, <1>6, <1>7, <1>8, <1>9, <1>10, <1>11, <1>12, <1>13, <1>14
        DEF CacheNext, VisitorStep, EditorStep

\* An old value stays under a key of the shared caches only when a request had
\* read it before the change and stored it after the change's last delete, for
\* any number of tables, requests and changes (core.caching).
THEOREM OldValuesWereStoredLate == CacheSpec => []CacheInv
<1>1. CacheIInv => CacheInv
  BY DEF CacheIInv, CacheInv
<1> QED BY InitCache, NextCache, <1>1, PTL DEF CacheSpec

-----------------------------------------------------------------------------
(* The bounce mailbox: the inductive invariant *)

Reading ==
    [at : {"idle", "fetch", "fetched", "open", "counted"}, key : 1..MaxNumberings,
     todo : SUBSET Messages, soft : 0..(MaxMessages * MaxNumberings)]

Opens(q) == q.at \in {"open", "counted"}

\* A run knows what it may still handle: whatever lies below one of its messages
\* is on its list or handled.  While its transaction is open its message is not,
\* and what it counted is what there is.
RunFits(q) ==
    q.at # "idle" =>
        /\ q.key <= numbering /\ q.todo \subseteq DOMAIN inbox
        /\ \A m \in q.todo : \A n \in 1..m : n \in q.todo \/ <<q.key, n>> \in processed
        /\ q.at # "fetch" => q.todo # {}
        /\ Opens(q) => <<q.key, Min(q.todo)>> \notin processed
        /\ numbering = 1 /\ q.at = "counted" => q.soft = SoftInWindow + 1

\* One numbering's messages are handled one at a time, however many runs there are.
OneOpens ==
    \A v, w \in Readings :
        Opens(reading[v]) /\ Opens(reading[w]) /\ reading[v].key = reading[w].key => v = w

KeysOf(m) == {k \in 1..numbering : <<k, m>> \in processed}

IsReport(m) == m \in DOMAIN inbox /\ inbox[m] # "other"

\* The mailbox has no gaps; a report has as many records as the log has rows of it.
MailboxFits ==
    /\ \E n \in 0..MaxMessages : DOMAIN inbox = 1..n
    /\ \A m \in DOMAIN inbox : inbox[m] \in Kinds
    /\ processed \subseteq (1..numbering) \X DOMAIN inbox
    /\ records \in [Messages -> Nat]
    /\ \A m \in Messages : records[m] = IF IsReport(m) THEN Cardinality(KeysOf(m)) ELSE 0
    /\ inWindow \subseteq Messages \X (1..MaxNumberings)
    /\ \A row \in inWindow : row[2] <= records[row[1]]

NoneIsSkipped ==
    \A k \in 1..numbering, m \in DOMAIN inbox :
        <<k, m>> \in processed => \A n \in 1..m : <<k, n>> \in processed

BounceIInv ==
    /\ numbering \in 1..MaxNumberings
    /\ suppressed \in BOOLEAN /\ subscribed \in BOOLEAN /\ lifted \in BOOLEAN
    /\ reading \in [Readings -> Reading]
    /\ failures \in 0..MaxReadFailures
    /\ MailboxFits
    /\ NoneIsSkipped
    /\ \A w \in Readings : RunFits(reading[w])
    /\ OneOpens
    /\ numbering = 1 /\ SoftInWindow >= SoftLimit /\ lifted = FALSE => suppressed = TRUE

LEMMA BounceNumbers ==
    /\ MaxMessages \in Nat /\ MaxNumberings \in Nat /\ MaxNumberings >= 1
    /\ MaxReadFailures \in Nat /\ Batch \in Nat /\ Batch > 0 /\ SoftLimit \in Nat /\ SoftLimit > 0
    /\ MaxMessages * MaxNumberings \in Nat
BY BounceMailboxAssumption

\* A finite, non-empty set of naturals has a smallest element.
LEMMA MinOfNaturals ==
    ASSUME NEW S \in SUBSET Nat, IsFiniteSet(S), S # {}
    PROVE  Min(S) \in S /\ \A y \in S : Min(S) <= y
<1> DEFINE Below(x) == {y \in S : y < x}
           T == {Below(x) : x \in S}
<1>1. T \subseteq FiniteSubsetsOf(S) /\ T # {}
  <2>1. ASSUME NEW x \in S PROVE Below(x) \in FiniteSubsetsOf(S)
    <3>1. Below(x) \in SUBSET S
      OBVIOUS
    <3>2. IsFiniteSet(Below(x))
      <4> HIDE DEF Below
      <4> QED BY <3>1, FS_Subset
    <3> QED BY <3>1, <3>2 DEF FiniteSubsetsOf
  <2>2. PICK w \in S : TRUE
    OBVIOUS
  <2>3. Below(w) \in T
    BY <2>2
  <2> QED BY <2>1, <2>3
<1>2. PICK A \in T : \A B \in T : ~(<<B, A>> \in StrictSubsetOrdering(S))
  <2> HIDE DEF T
  <2> QED BY <1>1, FS_StrictSubsetOrderingWellFounded, WFMin
<1>3. PICK x \in S : A = Below(x)
  BY <1>2
<1>4. \A y \in S : x <= y
  <2> SUFFICES ASSUME NEW y \in S, y < x
               PROVE  FALSE
    OBVIOUS
  <2>1. Below(y) \subseteq Below(x) /\ y \in Below(x) /\ y \notin Below(y)
    <3>1. \A z \in S : z \in Nat
      OBVIOUS
    <3>2. \A z \in S : z < y => z < x
      BY <3>1
    <3>3. ~(y < y)
      BY <3>1
    <3> QED BY <3>2, <3>3
  <2>2. Below(y) \in T /\ Below(y) \in SUBSET S /\ Below(x) \in SUBSET S
    OBVIOUS
  <2>3. <<Below(y), Below(x)>> \in StrictSubsetOrdering(S)
    <3> HIDE DEF Below
    <3> QED BY <2>1, <2>2 DEF StrictSubsetOrdering
  <2> QED BY <1>2, <1>3, <2>2, <2>3
<1> QED BY <1>4 DEF Min

LEMMA MessagesAreFinite ==
    /\ IsFiniteSet(Messages) /\ Messages \subseteq Nat
    /\ IsFiniteSet(Messages \X (1..MaxNumberings))
    /\ Cardinality(Messages \X (1..MaxNumberings)) = MaxMessages * MaxNumberings
<1>1. IsFiniteSet(1..MaxMessages) /\ Cardinality(1..MaxMessages) = MaxMessages
  BY BounceNumbers, FS_Interval
<1>2. IsFiniteSet(1..MaxNumberings) /\ Cardinality(1..MaxNumberings) = MaxNumberings
  BY BounceNumbers, FS_Interval
<1>3. /\ IsFiniteSet((1..MaxMessages) \X (1..MaxNumberings))
      /\ Cardinality((1..MaxMessages) \X (1..MaxNumberings))
           = Cardinality(1..MaxMessages) * Cardinality(1..MaxNumberings)
  BY <1>1, <1>2, FS_Product
<1> QED BY <1>1, <1>2, <1>3, BounceNumbers DEF Messages

LEMMA NextMessage ==
    ASSUME NEW S \in SUBSET Messages, S # {}
    PROVE  Min(S) \in S /\ \A n \in S : Min(S) <= n
BY MessagesAreFinite, FS_Subset, MinOfNaturals

LEMMA KeysAreFinite ==
    ASSUME BounceIInv, NEW m
    PROVE  /\ IsFiniteSet(KeysOf(m)) /\ Cardinality(KeysOf(m)) \in Nat
           /\ Cardinality(KeysOf(m)) <= numbering
           /\ \A k \in 1..numbering : <<k, m>> \notin processed => Cardinality(KeysOf(m)) < numbering
<1>1. numbering \in Nat /\ numbering >= 1
  BY DEF BounceIInv
<1>2. IsFiniteSet(1..numbering) /\ Cardinality(1..numbering) = numbering
  BY <1>1, FS_Interval
<1>3. KeysOf(m) \subseteq 1..numbering
  BY DEF KeysOf
<1>4. /\ IsFiniteSet(KeysOf(m)) /\ Cardinality(KeysOf(m)) \in Nat
      /\ Cardinality(KeysOf(m)) <= numbering
      /\ Cardinality(KeysOf(m)) = numbering => KeysOf(m) = 1..numbering
  BY <1>2, <1>3, FS_Subset, FS_CardinalityType
<1>5. ASSUME NEW k \in 1..numbering, <<k, m>> \notin processed
      PROVE  Cardinality(KeysOf(m)) < numbering
  <2>1. KeysOf(m) # 1..numbering
    BY <1>5 DEF KeysOf
  <2> QED BY <1>1, <1>4, <2>1
<1> QED BY <1>4, <1>5

LEMMA BounceTyped ==
    ASSUME BounceIInv
    PROVE  /\ numbering \in 1..MaxNumberings /\ numbering \in Nat
           /\ suppressed \in BOOLEAN /\ subscribed \in BOOLEAN /\ lifted \in BOOLEAN
           /\ reading \in [Readings -> Reading] /\ failures \in 0..MaxReadFailures
           /\ DOMAIN inbox \subseteq Messages
           /\ \A m \in DOMAIN inbox : inbox[m] \in Kinds /\ m \in Nat /\ 1..m \subseteq DOMAIN inbox
           /\ processed \subseteq (1..numbering) \X DOMAIN inbox
           /\ records \in [Messages -> Nat]
           /\ inWindow \subseteq Messages \X (1..MaxNumberings)
           /\ \A w \in Readings : RunFits(reading[w])
<1>1. PICK n \in 0..MaxMessages : DOMAIN inbox = 1..n
  BY DEF BounceIInv, MailboxFits
<1>2. /\ DOMAIN inbox \subseteq Messages
      /\ \A m \in DOMAIN inbox : m \in Nat /\ 1..m \subseteq DOMAIN inbox
  BY <1>1, BounceNumbers DEF Messages
<1>3. \A m \in DOMAIN inbox : inbox[m] \in Kinds
  BY DEF BounceIInv, MailboxFits
<1> QED BY <1>2, <1>3, BounceNumbers DEF BounceIInv, MailboxFits

SoftRows == {row \in inWindow : inbox[row[1]] = "soft"}

LEMMA SoftIsCounted ==
    ASSUME inWindow \subseteq Messages \X (1..MaxNumberings)
    PROVE  /\ SoftInWindow = Cardinality(SoftRows) /\ SoftInWindow \in Nat
           /\ IsFiniteSet(SoftRows) /\ SoftInWindow <= MaxMessages * MaxNumberings
           /\ SoftRows \subseteq inWindow
<1>1. SoftInWindow = Cardinality(SoftRows) /\ SoftRows \subseteq inWindow
  BY DEF SoftInWindow, SoftRows
<1>2. SoftRows \subseteq Messages \X (1..MaxNumberings)
  BY <1>1
<1>3. /\ IsFiniteSet(SoftRows) /\ Cardinality(SoftRows) \in Nat
      /\ Cardinality(SoftRows) <= MaxMessages * MaxNumberings
  BY <1>2, MessagesAreFinite, FS_Subset, FS_CardinalityType
<1> QED BY <1>1, <1>3

LEMMA BounceInitOK == BounceInit => BounceIInv
<1> SUFFICES ASSUME BounceInit PROVE BounceIInv
  OBVIOUS
<1>1. /\ inbox = <<>> /\ DOMAIN inbox = {} /\ numbering = 1 /\ processed = {} /\ inWindow = {}
      /\ records \in [Messages -> Nat] /\ \A m \in Messages : records[m] = 0
      /\ suppressed = FALSE /\ subscribed = TRUE /\ failures = 0 /\ lifted = FALSE
      /\ reading = [w \in Readings |-> IdleReading]
  BY DEF BounceInit
<1>2. IdleReading \in Reading /\ IdleReading.at = "idle"
  BY BounceNumbers DEF IdleReading, Reading
<1>3. MailboxFits
  <2>1. 0 \in 0..MaxMessages /\ DOMAIN inbox = 1..0
    BY <1>1, BounceNumbers
  <2>2. \A m \in Messages : ~IsReport(m)
    BY <1>1 DEF IsReport
  <2> QED BY <1>1, <2>1, <2>2 DEF MailboxFits
<1>4. \A w \in Readings : reading[w] = IdleReading
  BY <1>1
<1>5. (\A w \in Readings : RunFits(reading[w])) /\ OneOpens /\ NoneIsSkipped
  BY <1>1, <1>2, <1>4 DEF RunFits, OneOpens, Opens, NoneIsSkipped
<1>6. SoftInWindow = 0
  <2>1. SoftRows = {}
    BY <1>1 DEF SoftRows
  <2> QED BY <1>1, <2>1, SoftIsCounted, FS_EmptySet
<1>7. numbering \in 1..MaxNumberings /\ failures \in 0..MaxReadFailures
  BY <1>1, BounceNumbers
<1>8. ~(SoftInWindow >= SoftLimit)
  BY <1>6, BounceNumbers
<1>9. reading \in [Readings -> Reading]
  BY <1>1, <1>2
<1> QED BY <1>1, <1>3, <1>5, <1>7, <1>8, <1>9 DEF BounceIInv

LEMMA BounceIInvImplies == BounceIInv => BounceInv
<1> SUFFICES ASSUME BounceIInv PROVE BounceInv
  OBVIOUS
<1>1. BounceTypeOK
  <2>1. records \in [Messages -> 0..MaxNumberings]
    <3> SUFFICES ASSUME NEW m \in Messages PROVE records[m] \in 0..MaxNumberings
      BY BounceTyped
    <3>1. records[m] = IF IsReport(m) THEN Cardinality(KeysOf(m)) ELSE 0
      BY DEF BounceIInv, MailboxFits
    <3> QED BY <3>1, KeysAreFinite, BounceTyped, BounceNumbers
  <2>2. processed \subseteq (1..MaxNumberings) \X DOMAIN inbox
    BY BounceTyped, BounceNumbers
  <2> QED BY <2>1, <2>2, BounceTyped DEF BounceTypeOK, Reading
<1>2. NothingIsSkipped
  <2> SUFFICES ASSUME NEW k \in 1..numbering, NEW m \in HandledUids(k), NEW n \in 1..m
               PROVE  n \in HandledUids(k)
    BY DEF NothingIsSkipped
  <2>1. <<k, m>> \in processed /\ m \in DOMAIN inbox
    BY BounceTyped DEF HandledUids
  <2>2. <<k, n>> \in processed /\ n \in Messages
    BY <2>1, BounceTyped DEF BounceIInv, NoneIsSkipped
  <2> QED BY <2>2 DEF HandledUids
<1>3. RecordedAsLogged
  <2> SUFFICES ASSUME NEW m \in DOMAIN inbox, inbox[m] # "other"
               PROVE  records[m] = Cardinality({k \in 1..numbering : m \in HandledUids(k)})
    BY DEF RecordedAsLogged
  <2>1. m \in Messages /\ IsReport(m)
    BY BounceTyped DEF IsReport
  <2>2. records[m] = Cardinality(KeysOf(m))
    BY <2>1 DEF BounceIInv, MailboxFits
  <2>3. KeysOf(m) = {k \in 1..numbering : m \in HandledUids(k)}
    BY <2>1 DEF KeysOf, HandledUids
  <2> QED BY <2>2, <2>3
<1>4. TheSoftLimitBlocks
  <2>1. numbering = 1 /\ SoftInWindow >= SoftLimit /\ lifted = FALSE => suppressed = TRUE
    BY DEF BounceIInv
  <2>2. lifted \in BOOLEAN
    BY DEF BounceIInv
  <2> QED BY <2>1, <2>2 DEF TheSoftLimitBlocks
<1> QED BY <1>1, <1>2, <1>3, <1>4 DEF BounceInv

\* A step of one run that touches only that run keeps the invariant, if the run
\* still fits and does not open beside another.
LEMMA ReadingKeepsBounceIInv ==
    ASSUME BounceIInv,
           UNCHANGED <<inbox, numbering, processed, records, inWindow, suppressed, subscribed,
                       lifted>>,
           failures' \in 0..MaxReadFailures,
           NEW w \in Readings, NEW q \in Reading, reading' = [reading EXCEPT ![w] = q], RunFits(q),
           Opens(q) => \A v \in Readings \ {w} : ~(Opens(reading[v]) /\ reading[v].key = q.key)
    PROVE  BounceIInv'
<1>1. /\ reading' \in [Readings -> Reading] /\ reading'[w] = q
      /\ \A v \in Readings \ {w} : reading'[v] = reading[v]
  BY BounceTyped
<1>2. MailboxFits' /\ NoneIsSkipped'
  BY DEF BounceIInv, MailboxFits, NoneIsSkipped, IsReport, KeysOf
<1>3. SoftInWindow' = SoftInWindow
  BY DEF SoftInWindow
<1>4. ASSUME NEW v \in Readings PROVE RunFits(reading[v])'
  <2>1. PICK p \in Reading : p = reading'[v] /\ RunFits(p)
    BY <1>1, BounceTyped
  <2> QED BY <2>1, <1>3 DEF RunFits, Opens
<1>5. OneOpens'
  <2> SUFFICES ASSUME NEW u \in Readings, NEW v \in Readings, Opens(reading'[u]),
                      Opens(reading'[v]), reading'[u].key = reading'[v].key
               PROVE  u = v
    BY DEF OneOpens, Opens
  <2> QED BY <1>1 DEF BounceIInv, OneOpens
<1>6. (numbering = 1 /\ SoftInWindow >= SoftLimit /\ lifted = FALSE => suppressed = TRUE)'
  BY <1>3 DEF BounceIInv
<1> QED BY <1>1, <1>2, <1>4, <1>5, <1>6 DEF BounceIInv

\* Of two runs under one numbering, neither is ahead of a message not yet handled.
LEMMA NotAhead ==
    ASSUME NEW p \in Reading, NEW q \in Reading, RunFits(p), RunFits(q),
           p.at \notin {"idle", "fetch"}, q.at \notin {"idle", "fetch"}, p.key = q.key,
           <<p.key, Min(p.todo)>> \notin processed
    PROVE  Min(q.todo) <= Min(p.todo)
<1>1. /\ p.todo \in SUBSET Messages /\ p.todo # {} /\ q.todo \in SUBSET Messages /\ q.todo # {}
      /\ \A m \in q.todo : \A n \in 1..m : n \in q.todo \/ <<q.key, n>> \in processed
  BY DEF Reading, RunFits
<1>2. /\ Min(p.todo) \in p.todo /\ Min(q.todo) \in q.todo
      /\ \A n \in q.todo : Min(q.todo) <= n
  BY <1>1, NextMessage
<1>3. Min(p.todo) \in Nat /\ Min(p.todo) >= 1 /\ Min(q.todo) \in Nat
  BY <1>1, <1>2, BounceNumbers DEF Messages
<1>4. ASSUME Min(p.todo) < Min(q.todo) PROVE FALSE
  <2>1. Min(p.todo) \in 1..Min(q.todo)
    BY <1>3, <1>4
  <2>2. Min(p.todo) \in q.todo
    BY <1>1, <1>2, <2>1
  <2> QED BY <1>2, <1>3, <1>4, <2>2
<1> QED BY <1>3, <1>4

\* The message of an open transaction, and the record that it will make.
LEMMA RoomForTheRecord ==
    ASSUME BounceIInv, NEW w \in Readings, Opens(reading[w])
    PROVE  /\ reading[w].todo \in SUBSET Messages /\ NextUid(w) \in reading[w].todo
           /\ \A n \in reading[w].todo : NextUid(w) <= n
           /\ NextUid(w) \in DOMAIN inbox /\ NextUid(w) \in Messages
           /\ reading[w].key \in 1..numbering /\ <<reading[w].key, NextUid(w)>> \notin processed
           /\ records[NextUid(w)] \in Nat
           /\ <<NextUid(w), records[NextUid(w)] + 1>> \in Messages \X (1..MaxNumberings)
           /\ <<NextUid(w), records[NextUid(w)] + 1>> \notin inWindow
           /\ SoftInWindow + 1 \in 0..(MaxMessages * MaxNumberings)
<1> DEFINE m == NextUid(w)
           row == <<m, records[m] + 1>>
<1>1. /\ reading[w] \in Reading /\ RunFits(reading[w]) /\ reading[w].at \notin {"idle", "fetch"}
  BY BounceTyped DEF Opens
<1>2. /\ reading[w].todo \in SUBSET Messages /\ reading[w].todo # {}
      /\ reading[w].todo \subseteq DOMAIN inbox
      /\ reading[w].key <= numbering /\ reading[w].key \in 1..MaxNumberings
      /\ <<reading[w].key, m>> \notin processed
  BY <1>1 DEF RunFits, Reading, NextUid
<1>3. m \in reading[w].todo /\ \A n \in reading[w].todo : m <= n
  BY <1>2, NextMessage DEF NextUid
<1>4. m \in DOMAIN inbox /\ m \in Messages /\ reading[w].key \in 1..numbering
  BY <1>2, <1>3, BounceTyped
<1> HIDE DEF m
<1>5. Cardinality(KeysOf(m)) < numbering /\ Cardinality(KeysOf(m)) \in Nat
  BY <1>2, <1>4, KeysAreFinite
<1>6. records[m] = IF IsReport(m) THEN Cardinality(KeysOf(m)) ELSE 0
  BY <1>4 DEF BounceIInv, MailboxFits
<1>7. records[m] \in Nat /\ records[m] + 1 \in 1..MaxNumberings
  BY <1>5, <1>6, BounceTyped, BounceNumbers
<1>8. row \notin inWindow
  <2>1. \A r \in inWindow : r[2] <= records[r[1]]
    BY DEF BounceIInv, MailboxFits
  <2>2. row[1] = m /\ row[2] = records[m] + 1
    OBVIOUS
  <2>3. ~(records[m] + 1 <= records[m])
    BY <1>7
  <2> HIDE DEF row
  <2> QED BY <2>1, <2>2, <2>3
<1>9. SoftInWindow + 1 \in 0..(MaxMessages * MaxNumberings)
  <2> DEFINE S == SoftRows \cup {row}
  <2>1. inWindow \subseteq Messages \X (1..MaxNumberings)
    BY BounceTyped
  <2>2. /\ IsFiniteSet(SoftRows) /\ SoftInWindow = Cardinality(SoftRows) /\ SoftInWindow \in Nat
        /\ SoftRows \subseteq inWindow
    BY <2>1, SoftIsCounted
  <2>3. row \in Messages \X (1..MaxNumberings)
    BY <1>4, <1>7
  <2>4. row \notin SoftRows
    BY <1>8, <2>2
  <2> HIDE DEF row
  <2>5. S \subseteq Messages \X (1..MaxNumberings)
    BY <2>1, <2>2, <2>3
  <2>6. Cardinality(S) = Cardinality(SoftRows) + 1
    BY <2>2, <2>4, FS_AddElement
  <2> HIDE DEF S
  <2>7. Cardinality(S) <= MaxMessages * MaxNumberings
    BY <2>5, MessagesAreFinite, FS_Subset
  <2> QED BY <2>2, <2>6, <2>7, BounceNumbers
<1> QED BY <1>2, <1>3, <1>4, <1>7, <1>8, <1>9 DEF m

\* The batch is taken from below: what it leaves out below one of its messages
\* is handled.
LEMMA BatchFromBelow ==
    ASSUME BounceIInv, NEW m \in FirstBatch(UnprocessedUids(numbering)), NEW n \in 1..m
    PROVE  /\ m \in DOMAIN inbox
           /\ n \in FirstBatch(UnprocessedUids(numbering)) \/ <<numbering, n>> \in processed
<1> DEFINE U == UnprocessedUids(numbering)
           Below(x) == {y \in U : y < x}
<1>1. m \in U /\ Cardinality(Below(m)) < Batch /\ U \subseteq DOMAIN inbox
  BY DEF FirstBatch, UnprocessedUids
<1>2. m \in DOMAIN inbox /\ n \in DOMAIN inbox /\ m \in Nat /\ n \in Nat /\ n <= m
  BY <1>1, BounceTyped
<1>3. \A x \in U : x \in Messages /\ x \in Nat
  BY <1>1, BounceTyped
<1>4. CASE n \in U
  <2>1. Below(n) \subseteq Below(m)
    BY <1>2, <1>3
  <2>2. Below(m) \subseteq Messages
    BY <1>3
  <2> HIDE DEF Below
  <2>3. IsFiniteSet(Below(m))
    BY <2>2, MessagesAreFinite, FS_Subset
  <2>4. /\ Cardinality(Below(n)) <= Cardinality(Below(m))
        /\ Cardinality(Below(n)) \in Nat /\ Cardinality(Below(m)) \in Nat
    BY <2>1, <2>3, FS_Subset, FS_CardinalityType
  <2>5. Cardinality(Below(n)) < Batch
    BY <1>1, <2>4, BounceNumbers
  <2> QED BY <1>2, <1>4, <2>5 DEF FirstBatch, Below
<1>5. CASE n \notin U
  <2>1. PICK h \in HandledUids(numbering) : ~(n > h)
    BY <1>2, <1>5 DEF UnprocessedUids
  <2>2. <<numbering, h>> \in processed /\ h \in DOMAIN inbox /\ h \in Nat
    BY <2>1, BounceTyped DEF HandledUids
  <2>3. n \in 1..h
    BY <1>2, <2>1, <2>2
  <2>4. numbering \in 1..numbering
    BY BounceTyped
  <2> QED BY <1>2, <2>2, <2>3, <2>4 DEF BounceIInv, NoneIsSkipped
<1> QED BY <1>2, <1>4, <1>5

LEMMA ConnectKeepsBounceIInv ==
    ASSUME BounceIInv, NEW w \in Readings, Connect(w)
    PROVE  BounceIInv'
<1> DEFINE todo == FirstBatch(UnprocessedUids(numbering))
<1>1. PICK q : q = [IdleReading EXCEPT !.at = "fetch", !.key = numbering, !.todo = todo]
  OBVIOUS
<1>2. /\ q.at = "fetch" /\ q.key = numbering /\ q.todo = todo /\ q.soft = 0
      /\ q = [at |-> "fetch", key |-> numbering, todo |-> todo, soft |-> 0]
  BY <1>1 DEF IdleReading
<1>3. reading' = [reading EXCEPT ![w] = q]
  BY <1>1 DEF Connect
<1> HIDE DEF todo
<1>4. \A m \in todo : m \in DOMAIN inbox /\ \A n \in 1..m : n \in todo \/ <<numbering, n>> \in processed
  <2> SUFFICES ASSUME NEW m \in todo
               PROVE  m \in DOMAIN inbox /\ \A n \in 1..m : n \in todo \/ <<numbering, n>> \in processed
    OBVIOUS
  <2>1. m \in UnprocessedUids(numbering)
    BY DEF todo, FirstBatch
  <2>2. m \in DOMAIN inbox
    BY <2>1 DEF UnprocessedUids
  <2> QED BY <2>2, BatchFromBelow DEF todo
<1>5. q \in Reading
  <2>1. todo \in SUBSET Messages
    BY <1>4, BounceTyped
  <2> QED BY <1>2, <2>1, BounceTyped, BounceNumbers DEF Reading
<1>6. RunFits(q)
  BY <1>2, <1>4, BounceTyped DEF RunFits, Opens
<1>7. ~Opens(q)
  BY <1>2 DEF Opens
<1>8. /\ UNCHANGED <<inbox, numbering, processed, records, inWindow, suppressed, subscribed, lifted>>
      /\ failures' \in 0..MaxReadFailures
  BY BounceTyped DEF Connect
<1> QED BY <1>3, <1>5, <1>6, <1>7, <1>8, ReadingKeepsBounceIInv

LEMMA FetchKeepsBounceIInv ==
    ASSUME BounceIInv, NEW w \in Readings, Fetch(w)
    PROVE  BounceIInv'
<1>1. PICK q : q = [reading[w] EXCEPT !.at = "fetched"]
  OBVIOUS
<1>2. reading[w] \in Reading /\ RunFits(reading[w]) /\ reading[w].at = "fetch" /\ reading[w].todo # {}
  BY BounceTyped DEF Fetch
<1>3. q \in Reading /\ q.at = "fetched" /\ q.key = reading[w].key /\ q.todo = reading[w].todo
  BY <1>1, <1>2 DEF Reading
<1>4. RunFits(q) /\ ~Opens(q)
  BY <1>2, <1>3 DEF RunFits, Opens
<1>5. /\ UNCHANGED <<inbox, numbering, processed, records, inWindow, suppressed, subscribed, lifted>>
      /\ failures' \in 0..MaxReadFailures
      /\ reading' = [reading EXCEPT ![w] = q]
  BY <1>1, BounceTyped DEF Fetch
<1> QED BY <1>3, <1>4, <1>5, ReadingKeepsBounceIInv

\* A handled message leaves the list of its run.
LEMMA HandledLeavesTheList ==
    ASSUME NEW q \in Reading, RunFits(q), q.at \notin {"idle", "fetch"},
           NEW r \in Reading, r.at = "fetch", r.key = q.key, r.todo = q.todo \ {Min(q.todo)},
           NEW log, processed \subseteq log, <<q.key, Min(q.todo)>> \in log
    PROVE  /\ r.key <= numbering /\ r.todo \subseteq DOMAIN inbox
           /\ \A m \in r.todo : \A n \in 1..m : n \in r.todo \/ <<r.key, n>> \in log
BY DEF RunFits

LEMMA LogMessageKeepsBounceIInv ==
    ASSUME BounceIInv, NEW w \in Readings, LogMessage(w)
    PROVE  BounceIInv'
<1>1. /\ reading[w] \in Reading /\ RunFits(reading[w]) /\ reading[w].at = "fetched"
  BY BounceTyped DEF LogMessage
<1>2. /\ UNCHANGED <<inbox, numbering, processed, records, inWindow, suppressed, subscribed, lifted>>
      /\ failures' \in 0..MaxReadFailures
  BY BounceTyped DEF LogMessage
<1>3. CASE <<reading[w].key, NextUid(w)>> \in processed
  <2>1. PICK q : q = [reading[w] EXCEPT !.at = "fetch", !.todo = @ \ {NextUid(w)}]
    OBVIOUS
  <2>2. /\ q \in Reading /\ q.at = "fetch" /\ q.key = reading[w].key
        /\ q.todo = reading[w].todo \ {Min(reading[w].todo)}
    BY <1>1, <2>1 DEF Reading, NextUid
  <2>3. reading' = [reading EXCEPT ![w] = q]
    BY <1>1, <1>3, <2>1, BounceTyped DEF LogMessage
  <2>4. /\ q.key <= numbering /\ q.todo \subseteq DOMAIN inbox
        /\ \A m \in q.todo : \A n \in 1..m : n \in q.todo \/ <<q.key, n>> \in processed
    BY <1>1, <1>3, <2>2, HandledLeavesTheList DEF NextUid
  <2>5. RunFits(q) /\ ~Opens(q)
    BY <2>2, <2>4 DEF RunFits, Opens
  <2> QED BY <1>2, <2>2, <2>3, <2>5, ReadingKeepsBounceIInv
<1>4. CASE <<reading[w].key, NextUid(w)>> \notin processed
  <2>1. PICK q : q = [reading[w] EXCEPT !.at = "open"]
    OBVIOUS
  <2>2. q \in Reading /\ q.at = "open" /\ q.key = reading[w].key /\ q.todo = reading[w].todo
    BY <1>1, <2>1 DEF Reading
  <2>3. reading' = [reading EXCEPT ![w] = q]
    BY <1>4, <2>1 DEF LogMessage
  <2>4. RunFits(q)
    BY <1>1, <1>4, <2>2 DEF RunFits, Opens, NextUid
  <2>5. ASSUME NEW v \in Readings \ {w}, Opens(reading[v]), reading[v].key = q.key PROVE FALSE
    <3>1. /\ reading[v] \in Reading /\ RunFits(reading[v]) /\ reading[v].at \in {"open", "counted"}
          /\ <<reading[v].key, Min(reading[v].todo)>> \notin processed
          /\ reading[v].key = reading[w].key
      BY <2>2, <2>5, BounceTyped DEF Opens, RunFits
    <3>2. NextUid(v) # NextUid(w)
      BY <3>1 DEF LogMessage
    <3>3. NextUid(v) <= NextUid(w) /\ NextUid(w) <= NextUid(v)
      BY <1>1, <1>4, <3>1, NotAhead DEF NextUid
    <3>4. NextUid(v) \in Nat /\ NextUid(w) \in Nat
      <4>1. /\ reading[v].todo \in SUBSET Messages /\ reading[v].todo # {}
            /\ reading[w].todo \in SUBSET Messages /\ reading[w].todo # {}
        BY <1>1, <3>1 DEF RunFits, Reading
      <4> QED BY <4>1, NextMessage, MessagesAreFinite DEF NextUid
    <3> QED BY <3>2, <3>3, <3>4
  <2> QED BY <1>2, <2>2, <2>3, <2>4, <2>5, ReadingKeepsBounceIInv
<1> QED BY <1>3, <1>4

LEMMA CountSoftKeepsBounceIInv ==
    ASSUME BounceIInv, NEW w \in Readings, CountSoft(w)
    PROVE  BounceIInv'
<1>1. PICK q : q = [reading[w] EXCEPT !.at = "counted", !.soft = SoftInWindow + 1]
  OBVIOUS
<1>2. reading[w] \in Reading /\ RunFits(reading[w]) /\ reading[w].at = "open" /\ Opens(reading[w])
  BY BounceTyped DEF CountSoft, Opens
<1>3. SoftInWindow + 1 \in 0..(MaxMessages * MaxNumberings)
  BY <1>2, RoomForTheRecord
<1>4. /\ q \in Reading /\ q.at = "counted" /\ q.key = reading[w].key /\ q.todo = reading[w].todo
      /\ q.soft = SoftInWindow + 1
  BY <1>1, <1>2, <1>3 DEF Reading
<1>5. RunFits(q)
  BY <1>2, <1>4 DEF RunFits, Opens
<1>6. \A v \in Readings \ {w} : ~(Opens(reading[v]) /\ reading[v].key = q.key)
  BY <1>2, <1>4 DEF BounceIInv, OneOpens
<1>7. /\ UNCHANGED <<inbox, numbering, processed, records, inWindow, suppressed, subscribed, lifted>>
      /\ failures' \in 0..MaxReadFailures
      /\ reading' = [reading EXCEPT ![w] = q]
  BY <1>1, BounceTyped DEF CountSoft
<1> QED BY <1>4, <1>5, <1>6, <1>7, ReadingKeepsBounceIInv

LEMMA EndOfARunKeepsBounceIInv ==
    ASSUME BounceIInv, NEW w \in Readings, Disconnect(w) \/ StopReading(w)
    PROVE  BounceIInv'
<1>1. IdleReading \in Reading /\ RunFits(IdleReading) /\ ~Opens(IdleReading)
  BY BounceNumbers DEF IdleReading, Reading, RunFits, Opens
<1>2. /\ UNCHANGED <<inbox, numbering, processed, records, inWindow, suppressed, subscribed, lifted>>
      /\ reading' = [reading EXCEPT ![w] = IdleReading]
  BY DEF Disconnect, StopReading
<1>3. failures' \in 0..MaxReadFailures
  BY BounceTyped, BounceNumbers DEF Disconnect, StopReading
<1> QED BY <1>1, <1>2, <1>3, ReadingKeepsBounceIInv

LEMMA ArriveKeepsBounceIInv ==
    ASSUME BounceIInv, Arrive
    PROVE  BounceIInv'
<1>1. PICK n \in 0..MaxMessages : DOMAIN inbox = 1..n
  BY DEF BounceIInv, MailboxFits
<1>2. n \in Nat /\ Cardinality(DOMAIN inbox) = n
  BY <1>1, BounceNumbers, FS_Interval
<1>3. n + 1 \in 0..MaxMessages
  BY <1>2, BounceNumbers DEF Arrive
<1>4. PICK kind \in Kinds :
        inbox' = [m \in 1..(n + 1) |-> IF m \in DOMAIN inbox THEN inbox[m] ELSE kind]
  BY <1>2 DEF Arrive
<1>5. /\ DOMAIN inbox' = 1..(n + 1) /\ DOMAIN inbox \subseteq DOMAIN inbox'
      /\ \A m \in DOMAIN inbox : inbox'[m] = inbox[m]
      /\ \A m \in DOMAIN inbox' : inbox'[m] \in Kinds
  BY <1>1, <1>2, <1>4, BounceTyped
<1>6. UNCHANGED <<numbering, processed, records, inWindow, suppressed, subscribed, reading,
                  failures, lifted>>
  BY DEF Arrive
<1>7. \A m \in Messages : m \notin DOMAIN inbox => KeysOf(m) = {} /\ ~IsReport(m)
  BY BounceTyped DEF KeysOf, IsReport
<1>8. MailboxFits'
  <2>1. processed' \subseteq (1..numbering') \X DOMAIN inbox'
    BY <1>5, <1>6, BounceTyped
  <2>2. ASSUME NEW m \in Messages
        PROVE  records'[m] = IF IsReport(m)' THEN Cardinality(KeysOf(m))' ELSE 0
    <3>1. records[m] = IF IsReport(m) THEN Cardinality(KeysOf(m)) ELSE 0
      BY DEF BounceIInv, MailboxFits
    <3>2. KeysOf(m)' = KeysOf(m)
      BY <1>6 DEF KeysOf
    <3>3. CASE m \in DOMAIN inbox
      <4>1. IsReport(m)' <=> IsReport(m)
        BY <1>5, <3>3 DEF IsReport
      <4> QED BY <1>6, <3>1, <3>2, <4>1
    <3>4. CASE m \notin DOMAIN inbox
      <4>1. records[m] = 0 /\ Cardinality(KeysOf(m)') = 0
        BY <1>7, <3>1, <3>2, <3>4, FS_EmptySet
      <4> QED BY <1>6, <4>1
    <3> QED BY <3>3, <3>4
  <2>3. /\ records' \in [Messages -> Nat] /\ inWindow' \subseteq Messages \X (1..MaxNumberings)
        /\ \A row \in inWindow' : row[2] <= records'[row[1]]
    BY <1>6 DEF BounceIInv, MailboxFits
  <2>4. (\E k \in 0..MaxMessages : DOMAIN inbox = 1..k)'
    BY <1>3, <1>5
  <2> QED BY <1>5, <2>1, <2>2, <2>3, <2>4 DEF MailboxFits
<1>9. NoneIsSkipped'
  <2> SUFFICES ASSUME NEW k \in 1..numbering, NEW m, <<k, m>> \in processed, NEW i \in 1..m
               PROVE  <<k, i>> \in processed
    BY <1>6 DEF NoneIsSkipped
  <2>1. m \in DOMAIN inbox
    BY BounceTyped
  <2> QED BY <2>1 DEF BounceIInv, NoneIsSkipped
<1>10. SoftInWindow' = SoftInWindow
  <2>1. ASSUME NEW row \in inWindow PROVE row[1] \in DOMAIN inbox
    <3>1. /\ row[1] \in Messages /\ row[2] \in 1..MaxNumberings /\ row[2] <= records[row[1]]
          /\ records[row[1]] = IF IsReport(row[1]) THEN Cardinality(KeysOf(row[1])) ELSE 0
      BY DEF BounceIInv, MailboxFits
    <3>2. records[row[1]] # 0
      BY <3>1, BounceNumbers
    <3> QED BY <3>1, <3>2 DEF IsReport
  <2>2. \A row \in inWindow : inbox'[row[1]] = inbox[row[1]]
    BY <1>5, <2>1
  <2>3. {row \in inWindow' : inbox'[row[1]] = "soft"} = {row \in inWindow : inbox[row[1]] = "soft"}
    BY <1>6, <2>2
  <2> QED BY <2>3 DEF SoftInWindow
<1>11. ASSUME NEW v \in Readings PROVE RunFits(reading[v])'
  <2>1. PICK p \in Reading : p = reading[v] /\ RunFits(p)
    BY BounceTyped
  <2>2. reading'[v] = p
    BY <1>6, <2>1
  <2> QED BY <2>1, <2>2, <1>5, <1>6, <1>10 DEF RunFits, Opens
<1>12. OneOpens'
  BY <1>6 DEF BounceIInv, OneOpens, Opens
<1>13. /\ (numbering = 1 /\ SoftInWindow >= SoftLimit /\ lifted = FALSE => suppressed = TRUE)'
       /\ (numbering \in 1..MaxNumberings)' /\ (failures \in 0..MaxReadFailures)'
       /\ (suppressed \in BOOLEAN /\ subscribed \in BOOLEAN /\ lifted \in BOOLEAN)'
       /\ (reading \in [Readings -> Reading])'
  BY <1>6, <1>10 DEF BounceIInv
<1> QED BY <1>8, <1>9, <1>11, <1>12, <1>13 DEF BounceIInv

LEMMA RenumberKeepsBounceIInv ==
    ASSUME BounceIInv, Renumber
    PROVE  BounceIInv'
<1>1. /\ numbering \in Nat /\ numbering >= 1 /\ numbering < MaxNumberings
      /\ numbering' = numbering + 1
      /\ UNCHANGED <<inbox, processed, records, inWindow, suppressed, subscribed, reading,
                     failures, lifted>>
  BY BounceTyped DEF Renumber
<1>2. /\ numbering' \in 1..MaxNumberings /\ numbering' # 1 /\ numbering' >= numbering
      /\ 1..numbering \subseteq 1..numbering'
  BY <1>1, BounceNumbers
<1>3. \A row \in processed : row[1] \in 1..numbering
  BY BounceTyped
<1>4. \A m : KeysOf(m)' = KeysOf(m) /\ (IsReport(m)' <=> IsReport(m))
  BY <1>1, <1>2, <1>3 DEF KeysOf, IsReport
<1>5. MailboxFits'
  <2>1. processed' \subseteq (1..numbering') \X DOMAIN inbox'
    BY <1>1, <1>2, BounceTyped
  <2>2. \A m \in Messages : records'[m] = IF IsReport(m)' THEN Cardinality(KeysOf(m)') ELSE 0
    BY <1>1, <1>4 DEF BounceIInv, MailboxFits
  <2> QED BY <1>1, <2>1, <2>2 DEF BounceIInv, MailboxFits
<1>6. NoneIsSkipped'
  BY <1>1, <1>3 DEF BounceIInv, NoneIsSkipped
<1>7. ASSUME NEW v \in Readings PROVE RunFits(reading[v])'
  <2>1. PICK p \in Reading : p = reading[v] /\ RunFits(p)
    BY BounceTyped
  <2>2. reading'[v] = p /\ p.key \in 1..MaxNumberings
    BY <1>1, <2>1 DEF Reading
  <2>3. p.key <= numbering => p.key <= numbering'
    BY <1>1, <2>2, BounceNumbers
  <2> QED BY <2>1, <2>2, <2>3, <1>1, <1>2 DEF RunFits, Opens
<1>8. OneOpens'
  BY <1>1 DEF BounceIInv, OneOpens, Opens
<1> QED BY <1>1, <1>2, <1>5, <1>6, <1>7, <1>8 DEF BounceIInv

\* What the account, staff and the clock do leaves the log and the runs alone.
LEMMA AroundKeepsBounceIInv ==
    ASSUME BounceIInv, WindowPasses \/ Unblock \/ Subscribe
    PROVE  BounceIInv'
<1>1. /\ UNCHANGED <<inbox, numbering, processed, records, reading, failures>>
      /\ inWindow' = inWindow \/ (inWindow' = {} /\ \A w \in Readings : reading[w].at # "counted")
  BY DEF WindowPasses, Unblock, Subscribe
<1>2. MailboxFits'
  <2>1. inWindow' \subseteq inWindow
    BY <1>1
  <2> QED BY <1>1, <2>1 DEF BounceIInv, MailboxFits, IsReport, KeysOf
<1>3. NoneIsSkipped' /\ OneOpens'
  BY <1>1 DEF BounceIInv, NoneIsSkipped, OneOpens, Opens
<1>4. inWindow' = inWindow => SoftInWindow' = SoftInWindow
  BY <1>1 DEF SoftInWindow
<1>5. ASSUME NEW v \in Readings PROVE RunFits(reading[v])'
  <2>1. PICK p \in Reading : p = reading[v] /\ RunFits(p)
    BY BounceTyped
  <2>2. reading'[v] = p
    BY <1>1, <2>1
  <2> QED BY <2>1, <2>2, <1>1, <1>4 DEF RunFits, Opens
<1>6. inWindow' = {} => SoftInWindow' = 0
  <2>1. inWindow' = {} => {row \in inWindow' : inbox'[row[1]] = "soft"} = {}
    OBVIOUS
  <2> QED BY <2>1, FS_EmptySet DEF SoftInWindow
<1>7. (suppressed \in BOOLEAN /\ subscribed \in BOOLEAN /\ lifted \in BOOLEAN)'
  BY DEF BounceIInv, WindowPasses, Unblock, Subscribe
<1>8. (numbering = 1 /\ SoftInWindow >= SoftLimit /\ lifted = FALSE => suppressed = TRUE)'
  <2>1. CASE WindowPasses
    <3>1. SoftInWindow' = 0
      BY <1>6, <2>1 DEF WindowPasses
    <3> QED BY <3>1, BounceNumbers
  <2>2. CASE Unblock
    BY <2>2 DEF Unblock
  <2>3. CASE Subscribe
    <3>1. inWindow' = inWindow /\ suppressed' = suppressed /\ lifted' = lifted
      BY <2>3 DEF Subscribe
    <3> QED BY <1>1, <1>4, <3>1 DEF BounceIInv
  <2> QED BY <2>1, <2>2, <2>3
<1> QED BY <1>1, <1>2, <1>3, <1>5, <1>7, <1>8 DEF BounceIInv

\* Of the open runs one commits: its message is logged and, if it is a report,
\* recorded, both or neither.
LEMMA CommitKeepsBounceIInv ==
    ASSUME BounceIInv, NEW w \in Readings, Commit(w)
    PROVE  BounceIInv'
<1> DEFINE m == NextUid(w)
           key == reading[w].key
           row == <<m, records[m] + 1>>
           kind == inbox[m]
           soft == reading[w].soft
<1>1. /\ reading[w] \in Reading /\ RunFits(reading[w]) /\ reading[w].at = "counted"
      /\ Opens(reading[w])
  BY BounceTyped DEF Commit, Opens
<1>2. /\ \A n \in reading[w].todo : m <= n
      /\ m \in DOMAIN inbox /\ m \in Messages /\ m \in reading[w].todo
      /\ key \in 1..numbering /\ <<key, m>> \notin processed
      /\ records[m] \in Nat /\ row \in Messages \X (1..MaxNumberings) /\ row \notin inWindow
  BY <1>1, RoomForTheRecord
<1>3. m \in Nat /\ 1..m \subseteq DOMAIN inbox /\ kind \in Kinds
  BY <1>2, BounceTyped
<1>4. /\ processed' = processed \cup {<<key, m>>}
      /\ reading' = [reading EXCEPT ![w].at = "fetch", ![w].todo = @ \ {m}]
      /\ inbox' = inbox /\ numbering' = numbering /\ failures' = failures
      /\ records' = IF kind = "other" THEN records ELSE [records EXCEPT ![m] = @ + 1]
      /\ inWindow' = IF kind = "other" THEN inWindow ELSE inWindow \cup {row}
      /\ suppressed' = (suppressed \/ Blocks(kind, soft))
      /\ lifted' = (lifted /\ ~Blocks(kind, soft))
      /\ subscribed' = (subscribed /\ kind # "complaint")
  BY DEF Commit, Act
<1>5. PICK q : q = [reading[w] EXCEPT !.at = "fetch", !.todo = @ \ {m}]
  OBVIOUS
<1>6. /\ q \in Reading /\ q.at = "fetch" /\ q.key = key /\ q.todo = reading[w].todo \ {m}
  BY <1>1, <1>5 DEF Reading
<1>7. /\ reading' \in [Readings -> Reading] /\ reading'[w] = q
      /\ \A v \in Readings \ {w} : reading'[v] = reading[v]
  <2>1. reading' = [reading EXCEPT ![w] = q]
    BY <1>4, <1>5, BounceTyped
  <2> QED BY <2>1, <1>6, BounceTyped
<1>8. \A v \in Readings \ {w} : ~(Opens(reading[v]) /\ reading[v].key = key)
  BY <1>1 DEF BounceIInv, OneOpens
<1>9. \A x \in DOMAIN inbox : x \in Messages
  BY BounceTyped
<1>10. \A x \in Messages : IsReport(x)' <=> IsReport(x)
  BY <1>4 DEF IsReport
<1>11. /\ inWindow \subseteq Messages \X (1..MaxNumberings)
       /\ \A r \in inWindow : r[2] <= records[r[1]]
       /\ records \in [Messages -> Nat]
  BY DEF BounceIInv, MailboxFits
<1>12. row[1] = m /\ row[2] = records[m] + 1
  OBVIOUS
<1>13. m = Min(reading[w].todo)
  BY DEF NextUid
<1> HIDE DEF m, key, row, kind, soft
<1>14. processed' \subseteq (1..numbering') \X DOMAIN inbox'
  BY <1>2, <1>4, BounceTyped
<1>15. \A x \in Messages : records'[x] = IF IsReport(x)' THEN Cardinality(KeysOf(x)') ELSE 0
  <2> SUFFICES ASSUME NEW x \in Messages
               PROVE  records'[x] = IF IsReport(x)' THEN Cardinality(KeysOf(x)') ELSE 0
    OBVIOUS
  <2>1. records[x] = IF IsReport(x) THEN Cardinality(KeysOf(x)) ELSE 0
    BY DEF BounceIInv, MailboxFits
  <2>2. CASE x # m
    <3>1. KeysOf(x)' = KeysOf(x)
      BY <1>4, <2>2 DEF KeysOf
    <3>2. records'[x] = records[x]
      BY <1>4, <1>11, <2>2
    <3> QED BY <2>1, <3>1, <3>2, <1>10
  <2>3. CASE x = m /\ kind = "other"
    <3>1. ~IsReport(x)
      BY <2>3 DEF IsReport, kind
    <3>2. records'[x] = records[x]
      BY <1>4, <2>3
    <3> QED BY <2>1, <3>1, <3>2, <1>10
  <2>4. CASE x = m /\ kind # "other"
    <3>1. IsReport(x)
      BY <2>4, <1>2 DEF IsReport, kind
    <3>2. KeysOf(x)' = KeysOf(x) \cup {key} /\ key \notin KeysOf(x)
      BY <1>2, <1>4, <2>4 DEF KeysOf
    <3>3. Cardinality(KeysOf(x) \cup {key}) = Cardinality(KeysOf(x)) + 1
      BY <3>2, KeysAreFinite, FS_AddElement
    <3>4. records'[x] = records[x] + 1
      BY <1>4, <1>11, <2>4
    <3> QED BY <2>1, <3>1, <3>2, <3>3, <3>4, <1>10
  <2> QED BY <2>2, <2>3, <2>4
<1>16. /\ records' \in [Messages -> Nat] /\ inWindow' \subseteq Messages \X (1..MaxNumberings)
       /\ \A r \in inWindow' : r[2] <= records'[r[1]]
  <2>1. CASE kind = "other"
    BY <1>4, <1>11, <2>1
  <2>2. CASE kind # "other"
    <3>1. /\ records' = [records EXCEPT ![m] = @ + 1] /\ inWindow' = inWindow \cup {row}
      BY <1>4, <2>2
    <3>2. /\ records' \in [Messages -> Nat] /\ records'[m] = records[m] + 1
          /\ \A x \in Messages \ {m} : records'[x] = records[x]
      BY <1>2, <1>11, <3>1
    <3>3. ASSUME NEW r \in inWindow PROVE r[2] <= records'[r[1]]
      <4>1. /\ r[1] \in Messages /\ r[2] \in Nat /\ r[2] <= records[r[1]]
            /\ records[r[1]] \in Nat
        BY <1>11, BounceNumbers
      <4>2. records'[r[1]] = records[r[1]] \/ records'[r[1]] = records[r[1]] + 1
        BY <3>2, <4>1
      <4> QED BY <4>1, <4>2
    <3>4. row[2] <= records'[row[1]]
      BY <1>2, <1>12, <3>2
    <3> QED BY <1>2, <1>11, <3>1, <3>2, <3>3, <3>4
  <2> QED BY <2>1, <2>2
<1>17. MailboxFits'
  <2>1. /\ (\E n \in 0..MaxMessages : DOMAIN inbox = 1..n)'
        /\ (\A x \in DOMAIN inbox : inbox[x] \in Kinds)'
    BY <1>4 DEF BounceIInv, MailboxFits
  <2> QED BY <2>1, <1>14, <1>15, <1>16 DEF MailboxFits
<1>18. \A n \in 1..m : n = m \/ <<key, n>> \in processed
  <2> SUFFICES ASSUME NEW n \in 1..m, <<key, n>> \notin processed PROVE n = m
    OBVIOUS
  <2>1. n \in reading[w].todo
    BY <1>1, <1>2 DEF RunFits, key
  <2> QED BY <1>2, <1>3, <2>1
<1>19. NoneIsSkipped'
  <2> SUFFICES ASSUME NEW k \in 1..numbering, NEW x \in DOMAIN inbox, <<k, x>> \in processed',
                      NEW n \in 1..x
               PROVE  <<k, n>> \in processed'
    BY <1>4 DEF NoneIsSkipped
  <2>1. CASE <<k, x>> \in processed
    BY <1>4, <2>1 DEF BounceIInv, NoneIsSkipped
  <2>2. CASE k = key /\ x = m
    BY <1>4, <1>18, <2>2
  <2> QED BY <1>4, <2>1, <2>2
<1>20. RunFits(q)'
  <2>1. /\ q.key <= numbering /\ q.todo \subseteq DOMAIN inbox
        /\ \A x \in q.todo : \A n \in 1..x : n \in q.todo \/ <<q.key, n>> \in processed'
    <3>1. /\ processed \subseteq processed' /\ <<key, m>> \in processed'
          /\ key = reading[w].key /\ reading[w].at \notin {"idle", "fetch"}
      BY <1>1, <1>4 DEF key
    <3> QED BY <3>1, <1>1, <1>6, <1>13, HandledLeavesTheList
  <2> QED BY <2>1, <1>4, <1>6 DEF RunFits, Opens
<1>21. ASSUME NEW v \in Readings PROVE RunFits(reading[v])'
  <2>1. CASE v = w
    BY <2>1, <1>7, <1>20 DEF RunFits, Opens
  <2>2. CASE v # w
    <3>1. PICK p \in Reading : p = reading[v] /\ RunFits(p)
      BY BounceTyped
    <3>2. reading'[v] = p
      BY <1>7, <2>2, <3>1
    <3>3. ~(Opens(p) /\ p.key = key)
      BY <1>8, <2>2, <3>1
    <3>4. Opens(p) => <<p.key, Min(p.todo)>> \notin processed'
      BY <1>4, <3>1, <3>3 DEF RunFits, Opens
    <3>5. ~(numbering = 1 /\ p.at = "counted")
      <4>1. p.at # "idle" => p.key <= numbering /\ p.key \in 1..MaxNumberings
        BY <3>1 DEF RunFits, Reading
      <4>2. numbering = 1 /\ p.at = "counted" => p.key = 1 /\ key = 1
        BY <4>1, <1>2, BounceNumbers
      <4> QED BY <3>3, <4>2 DEF Opens
    <3>6. processed \subseteq processed'
      BY <1>4
    <3> QED BY <3>1, <3>2, <3>4, <3>5, <3>6, <1>4 DEF RunFits, Opens
  <2> QED BY <2>1, <2>2
<1>22. OneOpens'
  <2> SUFFICES ASSUME NEW u \in Readings, NEW v \in Readings, Opens(reading'[u]),
                      Opens(reading'[v]), reading'[u].key = reading'[v].key
               PROVE  u = v
    BY DEF OneOpens, Opens
  <2>1. u # w /\ v # w
    BY <1>6, <1>7 DEF Opens
  <2> QED BY <2>1, <1>7 DEF BounceIInv, OneOpens
<1>23. kind # "soft" => SoftInWindow' = SoftInWindow
  <2> SUFFICES ASSUME kind # "soft" PROVE SoftInWindow' = SoftInWindow
    OBVIOUS
  <2>1. inbox[row[1]] = kind
    BY <1>12 DEF kind
  <2>2. {r \in inWindow' : inbox'[r[1]] = "soft"} = {r \in inWindow : inbox[r[1]] = "soft"}
    BY <1>4, <2>1
  <2> QED BY <2>2 DEF SoftInWindow
<1>24. kind = "soft" => SoftInWindow' = SoftInWindow + 1
  <2> SUFFICES ASSUME kind = "soft" PROVE SoftInWindow' = SoftInWindow + 1
    OBVIOUS
  <2>1. inbox[row[1]] = kind
    BY <1>12 DEF kind
  <2>2. {r \in inWindow' : inbox'[r[1]] = "soft"} = SoftRows \cup {row} /\ row \notin SoftRows
    BY <1>2, <1>4, <2>1 DEF SoftRows
  <2>3. /\ IsFiniteSet(SoftRows) /\ SoftInWindow = Cardinality(SoftRows)
    BY <1>11, SoftIsCounted
  <2>4. Cardinality(SoftRows \cup {row}) = Cardinality(SoftRows) + 1
    BY <2>2, <2>3, FS_AddElement
  <2> QED BY <2>2, <2>3, <2>4 DEF SoftInWindow
<1>25. ASSUME numbering' = 1, SoftInWindow' >= SoftLimit, lifted' = FALSE
       PROVE  suppressed' = TRUE
  <2>1. CASE Blocks(kind, soft)
    BY <1>4, <2>1
  <2>2. CASE ~Blocks(kind, soft)
    <3>1. numbering = 1 /\ soft = SoftInWindow + 1
      BY <1>1, <1>4, <1>25 DEF RunFits, soft
    <3>2. kind # "soft"
      BY <1>24, <1>25, <2>2, <3>1 DEF Blocks
    <3>3. SoftInWindow >= SoftLimit
      BY <1>23, <1>25, <3>2
    <3>4. lifted = FALSE
      BY <1>4, <1>25, <2>2, BounceTyped
    <3>5. suppressed = TRUE
      BY <3>1, <3>3, <3>4 DEF BounceIInv
    <3> QED BY <1>4, <3>5
  <2> QED BY <2>1, <2>2
<1>26. (suppressed \in BOOLEAN /\ subscribed \in BOOLEAN /\ lifted \in BOOLEAN)'
  BY <1>4
<1>27. (numbering \in 1..MaxNumberings)' /\ (failures \in 0..MaxReadFailures)'
  BY <1>4, BounceTyped
<1> QED BY <1>7, <1>17, <1>19, <1>21, <1>22, <1>25, <1>26, <1>27 DEF BounceIInv

\* Whatever overlaps, stops and is renumbered, the log of handled messages skips
\* none and the records match it, and the limit of soft bounces blocks
\* (mailing.bounce).
THEOREM TheMailboxIsReadSoundly == BounceSpec => []BounceInv
<1>1. BounceIInv /\ [BounceNext]_bounceVars => BounceIInv'
  <2> SUFFICES ASSUME BounceIInv, [BounceNext]_bounceVars PROVE BounceIInv'
    OBVIOUS
  <2>1. CASE Arrive
    BY <2>1, ArriveKeepsBounceIInv
  <2>2. CASE Renumber
    BY <2>2, RenumberKeepsBounceIInv
  <2>3. CASE WindowPasses \/ Unblock \/ Subscribe
    BY <2>3, AroundKeepsBounceIInv
  <2>4. ASSUME NEW w \in Readings, ReadingStep(w) \/ StopReading(w) PROVE BounceIInv'
    BY <2>4, ConnectKeepsBounceIInv, FetchKeepsBounceIInv, LogMessageKeepsBounceIInv,
       CountSoftKeepsBounceIInv, CommitKeepsBounceIInv, EndOfARunKeepsBounceIInv DEF ReadingStep
  <2>5. CASE UNCHANGED bounceVars
    BY <2>5 DEF bounceVars, BounceIInv, MailboxFits, NoneIsSkipped, RunFits, OneOpens, Opens,
                KeysOf, IsReport, SoftInWindow
  <2> QED BY <2>1, <2>2, <2>3, <2>4, <2>5 DEF BounceNext
<1> QED BY <1>1, BounceInitOK, BounceIInvImplies, PTL DEF BounceSpec

=============================================================================

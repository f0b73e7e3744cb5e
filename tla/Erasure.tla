------------------------------ MODULE Erasure ------------------------------
(***************************************************************************)
(* Erasing people, and erasing them again after a backup was restored      *)
(* (privacy.erasure, privacy.deletion, ErasureRecord, and the command      *)
(* privacy_replay_erasures).  An erasure is one transaction: it finds the  *)
(* person's rows, empties or deletes each as it is classified              *)
(* (core.privacy_registry), and adds to the erasure log, which outlives a  *)
(* restore.  The replay is one transaction per record of the log, while    *)
(* the site is open.                                                       *)
(*                                                                         *)
(* One child, who may have a login of its own.  A person's rows are told   *)
(* apart by how they are found: the account and child rows themselves, the *)
(* team-page profile on the account row, guardianships (by account or      *)
(* child), the mails sent to the account (by EmailMessage.user), and       *)
(* invitations to be a guardian (by the address on the account row).       *)
(*                                                                         *)
(* The mail that carries an invitation is sent to an address, with an      *)
(* empty `user`, also when the address has an account: no erasure finds    *)
(* it, and it keeps address and text until all mail loses them after a     *)
(* year.  Such mails are left out, and no property speaks of them.         *)
(*                                                                         *)
(* Left out too: what keeps an account from being deleted, when the        *)
(* retention job is due (Retention), the audit log, and other writes in    *)
(* the midst of an erasure (Guardians).                                    *)
(***************************************************************************)
EXTENDS Integers, Sequences, FiniteSets

CONSTANTS
    Parents,      \* ids of adults' accounts
    Volunteers,   \* those ever a champion or mentor
    Kid,          \* the child ...
    KidLogin,     \* ... and its own account
    MaxRestores   \* bound: restores of a backup

ASSUME ErasureAssumption ==
    /\ IsFiniteSet(Parents)
    /\ Volunteers \subseteq Parents /\ Kid # KidLogin
    /\ Parents \cap {Kid, KidLogin} = {} /\ MaxRestores \in Nat

People == Parents \cup {Kid, KidLogin}
Logins == Parents \cup {KidLogin}

VARIABLES
    db,       \* the database, without the erasure log
    backup,   \* a backup of it, in a set of at most one
    records,  \* the ErasureRecord rows, oldest first
    replay,   \* the command: the next record, and the last it listed
    restores, \* how often a backup was restored
    taken,    \* history: who was ever erased, not counting replays
    fresh,    \* history: of their ids, those given out again since a restore
    caughtUp  \* history: a replay ran to its end since the last restore

erasureVars == <<db, backup, records, replay, restores, taken, fresh, caughtUp>>

\* cleaned: erased but for the name past sessions show (keep_visible).
Databases ==
    [person : [People -> {"absent", "whole", "erased", "cleaned"}],
     profile : [Logins -> {"none", "hidden", "shown"}],
     guards : SUBSET Parents, \* the child's guardians
     mails : SUBSET Logins,   \* accounts with mails in the log that name them as `user`
     asked : SUBSET Parents]  \* addresses invited to be a guardian

NoReplay == [next |-> 0, last |-> 0]

MaxRecords == (MaxRestores + 1) * Cardinality(People)

ErasureTypeOK ==
    /\ db \in Databases
    /\ backup \subseteq Databases /\ Cardinality(backup) <= 1
    /\ records \in Seq([who : People, visible : BOOLEAN]) /\ Len(records) <= MaxRecords
    /\ replay \in [next : 0..MaxRecords, last : 0..MaxRecords]
    /\ restores \in 0..MaxRestores
    /\ taken \subseteq People /\ fresh \subseteq taken /\ caughtUp \in BOOLEAN

ErasureInit ==
    /\ db = [person |-> [p \in People |-> "absent"], profile |-> [p \in Logins |-> "none"],
             guards |-> {}, mails |-> {}, asked |-> {}]
    /\ backup = {} /\ records = <<>> /\ replay = NoReplay
    /\ restores = 0 /\ taken = {} /\ fresh = {} /\ caughtUp = TRUE

Whole(p) == db.person[p] = "whole"

\* is_erased, and what candidates and children_to_erase leave out.
Recorded(p) == \E i \in DOMAIN records : records[i].who = p

-----------------------------------------------------------------------------
(* What people do *)

\* A new row; the ids handed out since the backup are handed out again.  An
\* account gets its first mail at once.
New(p, d) ==
    /\ db.person[p] = "absent"
    /\ db' = [d EXCEPT !.person[p] = "whole", !.mails = @ \cup ({p} \cap Logins)]
    /\ fresh' = fresh \cup ({p} \cap taken)
    /\ UNCHANGED <<backup, records, replay, restores, taken, caughtUp>>

SignUpAccount(a) == New(a, db)
AddKid(a) == Whole(a) /\ New(Kid, [db EXCEPT !.guards = {a}])
GiveKidLogin == Whole(Kid) /\ db.guards # {} /\ New(KidLogin, db)

Keeps == <<backup, records, replay, restores, taken, fresh, caughtUp>>

\* The team-page profile of a champion, a mentor or a youth mentor, which the
\* organisation fills in (UserAdmin).
EditProfile(p, shown) ==
    /\ Whole(p) /\ p \in Volunteers \cup {KidLogin}
    /\ db' = [db EXCEPT !.profile[p] = shown]
    /\ UNCHANGED Keeps

AskGuardian(a) ==
    /\ Whole(Kid) /\ db.guards # {}
    /\ Whole(a) /\ a \notin db.guards
    /\ db' = [db EXCEPT !.asked = @ \cup {a}]
    /\ UNCHANGED Keeps

BecomeGuardian(a) ==
    /\ Whole(a) /\ a \in db.asked
    /\ db' = [db EXCEPT !.asked = @ \ {a}, !.guards = @ \cup {a}]
    /\ UNCHANGED Keeps

LeaveKid(a) ==
    /\ db.guards \ {a} # {} /\ a \in db.guards
    /\ db' = [db EXCEPT !.guards = @ \ {a}]
    /\ UNCHANGED Keeps

-----------------------------------------------------------------------------
(* Erasing *)

\* sole_children: at most the one child.
SoleChildren(d, a) == IF d.guards = {a} THEN {Kid} ELSE {}

\* The children's own logins.
LoginsOf(d, kids) ==
    {p \in {KidLogin} : Kid \in kids /\ d.person[Kid] = "whole" /\ d.person[p] # "absent"}

\* Mutant: the addresses are read once the account rows were emptied.
NoAddresses(d, accounts) == {}

\* The addresses on the account rows: those of an erased account are empty.
AddressesOf(d, accounts) == {p \in accounts : d.person[p] = "whole"}

\* What an account row keeps: with keep_visible the name, and the profile if
\* it is on the site.  An erased row has nothing left to keep.
Remains(d, p, visible) == IF visible /\ d.person[p] # "erased" THEN "cleaned" ELSE "erased"

\* Mutant: a cleaned account keeps its profile, shown or not.
AnyProfile(d, p, visible) == IF visible THEN d.profile[p] ELSE "none"

ProfileLeft(d, p, visible) == IF visible /\ d.profile[p] = "shown" THEN "shown" ELSE "none"

\* _Erasure.run: every row is found before anything changes.
Erased(d, accounts, kids, visible) ==
    LET addresses == AddressesOf(d, accounts)
    IN [person |-> [p \in People |-> IF p \in accounts THEN Remains(d, p, visible)
                                     ELSE IF p \in kids THEN "erased" ELSE d.person[p]],
        profile |-> [p \in Logins |-> IF p \in accounts THEN ProfileLeft(d, p, visible)
                                      ELSE d.profile[p]],
        guards |-> IF kids # {} THEN {} ELSE d.guards \ accounts,
        mails |-> d.mails \ accounts,
        asked |-> IF kids # {} THEN {} ELSE d.asked \ addresses]

ErasedWith(a) == IF a = KidLogin THEN {} ELSE SoleChildren(db, a)

\* erase_person, but for the log.
PersonErased(a, visible) ==
    LET kids == ErasedWith(a)
    IN Erased(db, {a} \cup LoginsOf(db, kids), kids, visible)

\* erase_child, but for the log.
ChildErased == Erased(db, LoginsOf(db, {Kid}), {Kid}, FALSE)

SetToList(S) == IF S = {} THEN <<>> ELSE <<CHOOSE p \in S : TRUE>>

\* Mutant: the child erased with its guardian is not in the log.
RecordsOfAccounts(logins, kids) ==
    LET who == SetToList(logins)
    IN [i \in DOMAIN who |-> [who |-> who[i], visible |-> FALSE]]

\* _record, for the accounts and children that went with someone.
RecordsOf(logins, kids) ==
    LET who == SetToList(logins) \o SetToList(kids)
    IN [i \in DOMAIN who |-> [who |-> who[i], visible |-> FALSE]]

\* delete_account, or the retention job: a champion's or mentor's account is
\* cleaned.
DeletePerson(a) ==
    /\ Whole(a) /\ ~Recorded(a)
    /\ db' = PersonErased(a, a \in Volunteers)
    /\ LET kids == ErasedWith(a)
       IN  /\ records' = Append(records, [who |-> a, visible |-> a \in Volunteers])
                            \o RecordsOf(LoginsOf(db, kids), kids)
           /\ taken' = taken \cup {a} \cup LoginsOf(db, kids) \cup kids
    /\ UNCHANGED <<backup, replay, restores, fresh, caughtUp>>

\* erase_old_children.
EraseOldChild ==
    /\ Whole(Kid) /\ ~Recorded(Kid)
    /\ db' = ChildErased
    /\ records' = records \o RecordsOf(LoginsOf(db, {Kid}), {Kid})
    /\ taken' = taken \cup LoginsOf(db, {Kid}) \cup {Kid}
    /\ UNCHANGED <<backup, replay, restores, fresh, caughtUp>>

-----------------------------------------------------------------------------
(* Backups, and the replay *)

\* Bound: one backup.
BackUp ==
    /\ backup = {}
    /\ backup' = {db}
    /\ UNCHANGED <<db, records, replay, restores, taken, fresh, caughtUp>>

Restore ==
    /\ restores < MaxRestores
    /\ \E d \in backup : db' = d
    /\ restores' = restores + 1
    /\ replay' = NoReplay /\ fresh' = {} /\ caughtUp' = FALSE
    /\ UNCHANGED <<backup, records, taken>>

StartReplay ==
    /\ replay = NoReplay
    /\ records # <<>>
    /\ replay' = [next |-> 1, last |-> Len(records)]
    /\ UNCHANGED <<db, backup, records, restores, taken, fresh, caughtUp>>

\* Mutant: the replay erases a volunteer's account like any other.
ReplayedPlainly(r) ==
    IF db.person[r.who] = "absent" THEN db
    ELSE IF r.who = Kid THEN ChildErased ELSE PersonErased(r.who, FALSE)

\* A row that no longer exists is skipped.
Replayed(r) ==
    IF db.person[r.who] = "absent" THEN db
    ELSE IF r.who = Kid THEN ChildErased ELSE PersonErased(r.who, r.visible)

ReplayStep ==
    /\ replay # NoReplay
    /\ db' = Replayed(records[replay.next])
    /\ IF replay.next < replay.last
       THEN replay' = [replay EXCEPT !.next = @ + 1] /\ UNCHANGED caughtUp
       ELSE replay' = NoReplay /\ caughtUp' = TRUE
    /\ UNCHANGED <<backup, records, restores, taken, fresh>>

\* The command is stopped, and may be run again.
ReplayDies ==
    /\ replay # NoReplay
    /\ replay' = NoReplay
    /\ UNCHANGED <<db, backup, records, restores, taken, fresh, caughtUp>>

ErasureNext ==
    \/ \E a \in Parents :
         \/ SignUpAccount(a) \/ AddKid(a) \/ AskGuardian(a) \/ BecomeGuardian(a) \/ LeaveKid(a)
         \/ DeletePerson(a)
    \/ \E p \in Logins, shown \in {"hidden", "shown"} : EditProfile(p, shown)
    \/ GiveKidLogin \/ EraseOldChild
    \/ BackUp \/ Restore \/ StartReplay \/ ReplayStep \/ ReplayDies

ErasureSpec == ErasureInit /\ [][ErasureNext]_erasureVars

-----------------------------------------------------------------------------
(* Properties *)

Gone == {p \in People : db.person[p] \in {"erased", "cleaned"}}

\* No mail names who is erased as its account, no child has them as guardian and
\* no invitation is addressed to them, however these rows are found; of who is
\* cleaned only the profile the site showed stays; a child's login never
\* outlives it (erasure.py:171-174).  Mails sent to the address alone are not
\* among these rows.
FoundRowsAreEmptied ==
    /\ Gone \cap (db.mails \cup db.guards \cup db.asked) = {}
    /\ \A p \in Gone \cap Logins :
         db.profile[p] # "hidden" /\ (db.person[p] = "erased" => db.profile[p] = "none")
    /\ Kid \in Gone => ~Whole(KidLogin) /\ db.guards = {} /\ db.asked = {}

\* Who was erased is erased again once the log was replayed after a restore,
\* also the child that has another guardian in the backup, whatever people did
\* in between and however often the command was stopped; an id given out a
\* second time is another person's. (erasure.py:30-32)
ErasedStaysErased ==
    caughtUp => \A p \in taken \ fresh : ~Whole(p)

\* A replay leaves an adult's account as the erasure did: a volunteer's name
\* stays, also when it runs twice (privacy_replay_erasures: "Safe to run twice").
ReplayLeavesTheSame ==
    \A a \in Parents \cap Gone : db.person[a] = "cleaned" <=> a \in Volunteers

\* An erasure empties what it finds, and that holds after a restore too.
ErasureInv == ErasureTypeOK /\ FoundRowsAreEmptied /\ ErasedStaysErased /\ ReplayLeavesTheSame

=============================================================================

----------------------------- MODULE AccountLinks -----------------------------
(***************************************************************************)
(* How accounts are logged in to and by which address: login links         *)
(* (accounts.login_links), passwords, changes of the address               *)
(* (accounts.email_change) and the login a guardian gives a child          *)
(* (accounts.child_accounts).                                              *)
(*                                                                         *)
(* No link is stored: it is a token over columns of the account, and what  *)
(* it stands for is compared when it is opened.  A password column holds a *)
(* fresh hash every time it is written, and a login a later last_login, so *)
(* of those the model keeps whether a link's value is gone (dead); an      *)
(* address can come back, and is kept.                                     *)
(*                                                                         *)
(* Opening a link checks the token and then acts, in two steps, as does    *)
(* what loads an account and saves all of it.  What is done under the      *)
(* account's row lock, or by one UPDATE, is one step.  Left out: two-step  *)
(* login, throttling, and a guardian who gives a child two logins at once. *)
(***************************************************************************)
EXTENDS Naturals, FiniteSets, TLC

CONSTANTS
    LinkAccounts,
    Child,      \* the account that is a child's own login
    Addresses,
    Links,      \* bound: the links mailed in one behaviour
    LinkRequests    \* requests under way at once

ASSUME LinksAssumption == Child \in LinkAccounts /\ Cardinality(Addresses) >= Cardinality(LinkAccounts)

Methods == {"password", "link"}
Kinds == {"login", "reset", "switch", "change"}

VARIABLES
    acct,      \* the rows: status, login method, usable password?, address
    guards,    \* is who gave the child its login still a guardian
    link,      \* the links that were mailed
    linkReq,   \* what each request read and goes on with
    raced      \* observation: two requests that write an address overlapped

linksVars == <<acct, guards, link, linkReq, raced>>

NoLink == [kind |-> "none"]
Ready == [op |-> "idle"]

Mailed(l) == link[l].kind # "none"
Exists(a) == acct[a].status # "none"
Active(a) == acct[a].status = "active"

LinksTypeOK ==
    /\ acct \in [LinkAccounts -> [status : {"none", "active", "disabled"}, method : Methods,
                              usable : BOOLEAN, email : Addresses]]
    /\ guards \in BOOLEAN
    /\ \A l \in Links : Mailed(l) =>
         /\ link[l].kind \in Kinds /\ link[l].account \in LinkAccounts
         /\ link[l].at \in Addresses /\ link[l].to \in Addresses
         /\ link[l].kind = "change" => link[l].at # link[l].to
         /\ link[l].uses \in 0..2
    /\ \A r \in LinkRequests : linkReq[r].op \in Kinds \cup {"idle", "password", "give"}
    /\ raced \in BOOLEAN

\* Adults have made their account; the child has no login yet.
LinksInit ==
    /\ acct \in [LinkAccounts -> [status : {"none", "active"}, method : {"password"},
                              usable : BOOLEAN, email : Addresses]]
    /\ \A a \in LinkAccounts : Active(a) <=> a # Child
    /\ \A a \in LinkAccounts : acct[a].usable <=> Active(a)
    /\ \A a, b \in LinkAccounts : a # b => acct[a].email # acct[b].email
    /\ guards = TRUE
    /\ link = [l \in Links |-> NoLink]
    /\ linkReq = [r \in LinkRequests |-> Ready]
    /\ raced = FALSE

-----------------------------------------------------------------------------
(* What links rest on *)

\* Mutant: a login link's token without the last login.
RestsOnLoginButLogin == {"reset"}

\* The columns each kind's token is over, besides the address.
RestsOnLogin == {"login", "reset"}

\* Mutant: a login link's token without the password.
RestsOnPasswordButLogin == {"reset", "switch"}

RestsOnPassword == {"login", "reset", "switch"}

Dead(kinds, a) ==
    [l \in Links |-> IF Mailed(l) /\ link[l].account = a /\ link[l].kind \in kinds
                     THEN [link[l] EXCEPT !.dead = TRUE] ELSE link[l]]

Valid(l) ==
    LET k == link[l] IN
    /\ Mailed(l) /\ Active(k.account) /\ ~k.dead
    /\ acct[k.account].email = k.at
    /\ k.kind = "login" => acct[k.account].method = "link"
    /\ k.kind = "switch" => acct[k.account].method = "password"

\* Mutant: only accounts that can log in have an address.
TakenByActive(address, a) == \E b \in LinkAccounts \ {a} : Active(b) /\ acct[b].email = address

\* check_new_address: nobody else has it, an account that is off included.
Taken(address, a) == \E b \in LinkAccounts \ {a} : Exists(b) /\ acct[b].email = address

\* An address two accounts have gets no mail about either.
SoleMatch(a) == Active(a) /\ \A b \in LinkAccounts \ {a} : Active(b) => acct[b].email # acct[a].email

-----------------------------------------------------------------------------
(* LinkRequests *)

Writing(op) == op \in {"change", "give", "password", "reset"}

Start(r, request) ==
    /\ linkReq[r].op = "idle"
    /\ linkReq' = [linkReq EXCEPT ![r] = request]
    /\ raced' = (raced \/ (/\ Writing(request.op)
                           /\ \E q \in LinkRequests \ {r} : Writing(linkReq[q].op)))

Done(r) == linkReq' = [linkReq EXCEPT ![r] = Ready] /\ UNCHANGED raced

\* A mailed link.
Mail(l, kind, a, to, by) ==
    /\ ~Mailed(l)
    /\ link' = [link EXCEPT ![l] = [kind |-> kind, account |-> a, at |-> acct[a].email, to |-> to,
                                    by |-> by, dead |-> FALSE, uses |-> 0, mixed |-> FALSE, old |-> FALSE]]
    /\ UNCHANGED <<acct, guards, linkReq, raced>>

\* Asking for a login: a link, or for an account on a password a reset.
RequestLink(l, a) ==
    /\ SoleMatch(a)
    /\ Mail(l, IF acct[a].method = "link" THEN "login" ELSE "reset", a, acct[a].email, "holder")

\* The guardian's "send it again".
ResendLoginMail(l) ==
    /\ Active(Child) /\ guards
    /\ Mail(l, IF acct[Child].method = "link" THEN "login" ELSE "reset", Child, acct[Child].email, "guardian")

RequestSwitchToLink(l, a) ==
    /\ Active(a) /\ acct[a].method = "password"
    /\ Mail(l, "switch", a, acct[a].email, "holder")

\* Mutant: the address it already has is not refused.
RequestAnyChange(l, a, new) ==
    /\ Active(a) /\ ~Taken(new, a)
    /\ a = Child => guards
    /\ Mail(l, "change", a, new, IF a = Child THEN "guardian" ELSE "holder")

\* The holder of an adult's account, or the child's guardian.
RequestChange(l, a, new) ==
    /\ Active(a) /\ new # acct[a].email /\ ~Taken(new, a)
    /\ a = Child => guards
    /\ Mail(l, "change", a, new, IF a = Child THEN "guardian" ELSE "holder")

Expire(l) ==
    /\ Mailed(l) /\ \A r \in LinkRequests : linkReq[r].op \in Kinds => linkReq[r].link # l
    /\ link' = [link EXCEPT ![l] = NoLink]
    /\ UNCHANGED <<acct, guards, linkReq, raced>>

\* A link is posted: the token is checked against the account as loaded.
OpenLink(r, l) ==
    LET k == link[l] IN
    /\ Valid(l)
    /\ Start(r, [op |-> k.kind, link |-> l, account |-> k.account, row |-> acct[k.account],
                 checked |-> FALSE])
    /\ link' = IF \E q \in LinkRequests : linkReq[q].op \in Kinds /\ linkReq[q].link = l
               THEN [link EXCEPT ![l].mixed = TRUE] ELSE link
    /\ UNCHANGED <<acct, guards>>

\* Bound: once or more often is what is counted.
Used(links, l) == [links EXCEPT ![l].uses = IF @ < 2 THEN @ + 1 ELSE 2]

\* login(): saves last_login only.
CommitLogin(r) ==
    LET q == linkReq[r] IN
    /\ q.op = "login" /\ Done(r)
    /\ link' = IF Exists(q.account) THEN Used(Dead(RestsOnLogin, q.account), q.link) ELSE link
    /\ UNCHANGED <<acct, guards>>

\* Mutant: the switch leaves the password.
CommitSwitchOnly(r) ==
    LET q == linkReq[r] IN
    /\ q.op = "switch" /\ Done(r)
    /\ IF Exists(q.account) /\ acct[q.account].method = "password"
       THEN /\ acct' = [acct EXCEPT ![q.account].method = "link"]
            /\ link' = Used(Dead(RestsOnPassword, q.account), q.link)
       ELSE UNCHANGED <<acct, link>>
    /\ UNCHANGED guards

\* switch_to_link: looked at again under the row's lock.
CommitSwitch(r) ==
    LET q == linkReq[r] IN
    /\ q.op = "switch" /\ Done(r)
    /\ IF Exists(q.account) /\ acct[q.account].method = "password"
       THEN /\ acct' = [acct EXCEPT ![q.account].method = "link", ![q.account].usable = FALSE]
            /\ link' = Used(Dead(RestsOnPassword, q.account), q.link)
       ELSE UNCHANGED <<acct, link>>
    /\ UNCHANGED guards

\* A new password saves the whole row that was loaded (a deleted one is made
\* anew).
RowSaved(q) == [acct EXCEPT ![q.account] = [q.row EXCEPT !.usable = TRUE]]

CommitReset(r) ==
    LET q == linkReq[r] IN
    /\ q.op = "reset" /\ Done(r)
    /\ acct' = RowSaved(q)
    /\ link' = Used(Dead(RestsOnPassword \cup RestsOnLogin, q.account), q.link)
    /\ UNCHANGED guards

\* confirm_change: the address, the guardian and the new address again, under
\* the row's lock; then the save.
CheckChange(r) ==
    LET q == linkReq[r]
        k == link[q.link]
    IN
    /\ q.op = "change" /\ ~q.checked
    /\ IF /\ Exists(q.account) /\ acct[q.account].email = q.row.email
          /\ k.by = "guardian" => guards
          /\ ~Taken(k.to, q.account)
       THEN linkReq' = [linkReq EXCEPT ![r].checked = TRUE] /\ UNCHANGED raced
       ELSE Done(r)
    /\ UNCHANGED <<acct, guards, link>>

HoldsLock(r) == linkReq[r].op = "change" /\ linkReq[r].checked
Locked(a) == \E r \in LinkRequests : HoldsLock(r) /\ linkReq[r].account = a

CommitChange(r) ==
    LET q == linkReq[r] IN
    /\ HoldsLock(r) /\ Done(r)
    /\ acct' = [acct EXCEPT ![q.account].email = link[q.link].to]
    /\ link' = Used(link, q.link)
    /\ UNCHANGED guards

-----------------------------------------------------------------------------
(* Passwords, from a session *)

\* change_password loads the account with the request.
ChangePassword(r, a) ==
    /\ Active(a) /\ acct[a].method = "password" /\ acct[a].usable
    /\ Start(r, [op |-> "password", account |-> a, row |-> acct[a]])
    /\ UNCHANGED <<acct, guards, link>>

CommitPassword(r) ==
    LET q == linkReq[r] IN
    /\ q.op = "password" /\ Done(r)
    /\ acct' = RowSaved(q)
    /\ link' = Dead(RestsOnPassword, q.account)
    /\ UNCHANGED guards

\* switch_to_password, and the guardian's: under the row's lock.
SwitchToPassword(a, usable) ==
    /\ Active(a) /\ acct[a].method = "link"
    /\ ~usable => a = Child /\ guards
    /\ acct' = [acct EXCEPT ![a].method = "password", ![a].usable = usable]
    /\ link' = Dead(RestsOnPassword, a)
    /\ UNCHANGED <<guards, linkReq, raced>>

-----------------------------------------------------------------------------
(* The child's own login *)

\* give_login: a new login, or one that was switched off.
GiveLogin(r, email, method) ==
    /\ guards /\ ~Active(Child) /\ ~Taken(email, Child)
    /\ \A q \in LinkRequests : linkReq[q].op # "give"
    /\ Start(r, [op |-> "give", account |-> Child,
                 row |-> [status |-> "active", method |-> method, usable |-> FALSE, email |-> email]])
    /\ UNCHANGED <<acct, guards, link>>

CommitLoginGiven(r) ==
    LET q == linkReq[r] IN
    /\ q.op = "give" /\ Done(r)
    /\ acct' = [acct EXCEPT ![Child] = q.row]
    /\ link' = Dead(RestsOnPassword, Child)
    /\ UNCHANGED guards

\* remove_login: deleted, or kept and disabled if it was on a team.
RemoveLogin(disable) ==
    /\ guards /\ Active(Child)
    /\ acct' = [acct EXCEPT ![Child].status = IF disable THEN "disabled" ELSE "none",
                            ![Child].usable = FALSE]
    /\ link' = [l \in Links |->
                  IF ~Mailed(l) \/ link[l].account # Child THEN link[l]
                  ELSE [Dead(RestsOnPassword, Child)[l] EXCEPT
                          !.dead = @ \/ ~disable, !.old = TRUE,
                          !.mixed = @ \/ \E r \in LinkRequests : linkReq[r].op \in Kinds /\ linkReq[r].link = l]]
    /\ UNCHANGED <<guards, linkReq, raced>>

\* The guardian who gave it is removed; another one remains.
GuardianLeaves ==
    /\ guards
    /\ guards' = FALSE
    /\ UNCHANGED <<acct, link, linkReq, raced>>

RequestFails(r) ==
    /\ linkReq[r].op # "idle" /\ Done(r)
    /\ UNCHANGED <<acct, guards, link>>

LinksNext ==
    \/ \E l \in Links, a \in LinkAccounts :
        RequestLink(l, a) \/ RequestSwitchToLink(l, a) \/ \E new \in Addresses : RequestChange(l, a, new)
    \/ \E l \in Links : ResendLoginMail(l) \/ Expire(l)
    \/ \E r \in LinkRequests :
        \/ \E l \in Links : OpenLink(r, l)
        \/ \E a \in LinkAccounts : ChangePassword(r, a)
        \/ \E email \in Addresses, method \in Methods : GiveLogin(r, email, method)
        \/ /\ linkReq[r].op # "idle"
           /\ ~Locked(linkReq[r].account) \/ HoldsLock(r)
           /\ \/ CommitLogin(r) \/ CommitSwitch(r) \/ CommitReset(r) \/ CheckChange(r)
              \/ CommitChange(r) \/ CommitPassword(r) \/ CommitLoginGiven(r)
        \/ RequestFails(r)
    \/ \E a \in LinkAccounts, usable \in BOOLEAN : ~Locked(a) /\ SwitchToPassword(a, usable)
    \/ ~Locked(Child) /\ \E disable \in BOOLEAN : RemoveLogin(disable)
    \/ GuardianLeaves

LinksSpec == LinksInit /\ [][LinksNext]_linksVars

-----------------------------------------------------------------------------
(* Properties *)

\* A link that logs in, switches the login method or sets a password does so
\* once, whatever happens to the address, the method and the login meanwhile;
\* unless it was posted twice at once. (accounts.login_links:LoginLinkTokens)
LinksWorkOnce ==
    \A l \in Links : Mailed(l) /\ link[l].kind # "change" /\ ~link[l].mixed => link[l].uses <= 1

\* No two accounts have one address (the login would refuse both), unless
\* requests that write one overlapped: each looks before the other saves.
\* (accounts.email_change:check_new_address, accounts.child_accounts:_clean_email)
AddressesAreDistinct ==
    ~raced => \A a, b \in LinkAccounts : a # b /\ Exists(a) /\ Exists(b) => acct[a].email # acct[b].email

\* "An account on a link has no usable password", however a request that
\* saves a row it loaded before interleaves with a switch.
\* (accounts.login_links:switch_to_link, accounts.views.auth:change_password)
LinkAccountsHaveNoPassword ==
    \A a \in LinkAccounts : acct[a].method = "link" => ~acct[a].usable

\* After a login was removed, no link from before logs in or sets a password
\* again, also when the same account is switched on again; unless it was being
\* posted. (accounts.child_accounts:remove_login, give_login)
OldLinksStayDead ==
    [][\A l \in Links :
         (Mailed(l) /\ link[l].old /\ ~link[l].mixed /\ link[l].kind # "change" /\ link'[l].kind # "none")
            => link'[l].uses = link[l].uses]_linksVars

\* Who opens a link gets in once, into the account the link was mailed for, and
\* not past a password it no longer has.
LinksInv ==
    /\ LinksTypeOK
    /\ LinksWorkOnce
    /\ AddressesAreDistinct
    /\ LinkAccountsHaveNoPassword

=============================================================================

------------------------------- MODULE Vetting -------------------------------
(***************************************************************************)
(* What the rest of the program relies on about a volunteer: that nobody   *)
(* counts as vetted, and nobody's application is approved, before the      *)
(* decision log says that their background check was validated.            *)
(*                                                                         *)
(* It is the abstract specification that Applications implements and the   *)
(* only part of it that DojoTeams builds on.                               *)
(***************************************************************************)
CONSTANT Adults

VARIABLES
    checked,  \* accounts with a validated decision in BackgroundCheckHistory
    clear,    \* accounts whose background_check_valid holds
    approved  \* accounts with an approved application

vettingVars == <<checked, clear, approved>>

VettingTypeOK ==
    /\ checked \subseteq Adults
    /\ clear \subseteq checked
    /\ approved \subseteq checked

VettingInit == checked = {} /\ clear = {} /\ approved = {}

\* A reviewer's validation reaches the decision log ...
RecordValidated(u) ==
    /\ checked' = checked \cup {u}
    /\ UNCHANGED <<clear, approved>>

\* ... and then the account.
BecomeClear(u) ==
    /\ u \in checked
    /\ clear' = clear \cup {u}
    /\ UNCHANGED <<checked, approved>>

\* The year is over, or a request that loaded the account earlier overwrote it.
Lapse(u) ==
    /\ clear' = clear \ {u}
    /\ UNCHANGED <<checked, approved>>

Approve(u) ==
    /\ u \in checked
    /\ approved' = approved \cup {u}
    /\ UNCHANGED <<checked, clear>>

\* A reviewer who had loaded the application before it was approved rejects it.
Refuse(u) ==
    /\ approved' = approved \ {u}
    /\ UNCHANGED <<checked, clear>>

VettingNext ==
    \E u \in Adults :
        RecordValidated(u) \/ BecomeClear(u) \/ Lapse(u) \/ Approve(u) \/ Refuse(u)

VettingSpec == VettingInit /\ [][VettingNext]_vettingVars

\* An adult who may ask to join a team, or be added to one.
IsApprovedMentor(u) == u \in clear \cap approved
=============================================================================

----------------------------- MODULE MCFamilies -----------------------------
(***************************************************************************)
(* Guardians, Awards and Engagement in one run, what a family has on the   *)
(* site, with Uploads, the images it shows, and Erasure, what is left when *)
(* it goes.  Awards is about one child's attendance, Engagement about what *)
(* a job makes of it at night; the others are about other rows.  So each   *)
(* is explored by itself: `part` says which one moves.                     *)
(***************************************************************************)
EXTENDS Guardians, Awards, Engagement, Uploads, Erasure, TLC

CONSTANTS
    Parent, \* who added the child: any other adult is as good
    k1, k2, home, away, monday, tuesday, wednesday

\* Two sessions at the dojo of both children, the first of which nobody is
\* marked at, and one elsewhere that is opened, or called off, during the run.
\* The first child may sign up for the last two; the second is too old for its
\* dojo from the first night on, and is there to be marked where the first is
\* not.
MCBatches == <<{k1}, {k2}>>
MCDojoOf == monday :> home @@ tuesday :> home @@ wednesday :> away
MCDayOf == monday :> 0 @@ tuesday :> 1 @@ wednesday :> 2
MCHomeDojo == k1 :> home @@ k2 :> home
MCAimedAt == k1 :> {monday, tuesday, wednesday} @@ k2 :> {tuesday}
MCSignsUpFor == k1 :> {tuesday, wednesday} @@ k2 :> {tuesday}
MCTooOldFrom == k1 :> (home :> 9 @@ away :> 3) @@ k2 :> (home :> 1 @@ away :> 9)

VARIABLE part

MCInit ==
    /\ GuardiansInit /\ AwardsInit /\ EngagementInit /\ UploadsInit
    /\ ErasureInit
    /\ part \in {"guardians", "awards", "engagement", "uploads", "erasure"}
    \* What there is at first matters to one part only.
    /\ part # "engagement" => \A k \in Ninjas, s \in Sessions : place[k][s] = "none"
    /\ part # "uploads" => image = NoName
    /\ links[Parent] = "responsible"

MCNext ==
    \/ /\ part = "guardians" /\ GuardiansNext
       /\ UNCHANGED <<awardVars, engagementVars, uploadVars, erasureVars, part>>
    \/ /\ part = "awards" /\ AwardsNext
       /\ UNCHANGED <<guardianVars, engagementVars, uploadVars, erasureVars, part>>
    \/ /\ part = "engagement" /\ EngagementNext
       /\ UNCHANGED <<guardianVars, awardVars, uploadVars, erasureVars, part>>
    \/ /\ part = "uploads" /\ UploadsNext
       /\ UNCHANGED <<guardianVars, awardVars, engagementVars, erasureVars, part>>
    \/ /\ part = "erasure" /\ ErasureNext
       /\ UNCHANGED <<guardianVars, awardVars, engagementVars, uploadVars, part>>

MCvars == <<guardianVars, awardVars, engagementVars, uploadVars, erasureVars, part>>

MCSpec == MCInit /\ [][MCNext]_MCvars

\* The parts' sets are given the same model values, see the configuration.
Symmetry ==
    Permutations(Relatives \ {Parent}) \cup Permutations(Invites) \cup Permutations(Joiners)
=============================================================================

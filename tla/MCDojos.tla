------------------------------ MODULE MCDojos ------------------------------
(***************************************************************************)
(* What a dojo's team does, in one run: Applications and DojoTeams (who    *)
(* may be in the team), SignUpQuestions and SessionNotices (the day of a   *)
(* session), and Geocoding (where the dojo is).  The first two meet only   *)
(* in Vetting, which the first is shown to implement and the second is     *)
(* built on; the others are about other tables, or keys in the cache.  So  *)
(* each is explored by itself: `part` says which one moves.                *)
(***************************************************************************)
EXTENDS Applications, DojoTeams, SignUpQuestions, SessionNotices, Geocoding, TLC

VARIABLE part

MCInit ==
    /\ ApplicationsInit /\ TeamInit /\ QuestionsInit /\ NoticesInit /\ GeocodingInit
    /\ part \in {"applications", "team", "questions", "notices", "geocoding"}
    /\ part # "questions" => asked = {}

otherVars == <<questionVars, noticeVars, geocodingVars>>

MCNext ==
    \/ /\ part = "applications" /\ ApplicationsNext
       /\ UNCHANGED <<teamVars, vettingVars, otherVars, part>>
    \/ /\ part = "team" /\ TeamNext
       /\ UNCHANGED <<applicationVars, otherVars, part>>
    \/ /\ part = "questions" /\ QuestionsNext
       /\ UNCHANGED <<applicationVars, teamVars, vettingVars, noticeVars, geocodingVars, part>>
    \/ /\ part = "notices" /\ NoticesNext
       /\ UNCHANGED <<applicationVars, teamVars, vettingVars, questionVars, geocodingVars, part>>
    \/ /\ part = "geocoding" /\ GeocodingNext
       /\ UNCHANGED <<applicationVars, teamVars, vettingVars, questionVars, noticeVars, part>>

MCvars == <<applicationVars, teamVars, vettingVars, otherVars, part>>

MCSpec == MCInit /\ [][MCNext]_MCvars

\* The requests of every part are the same model values, see the configuration.
Symmetry == Permutations(Handlers)
=============================================================================

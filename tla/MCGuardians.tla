----------------------------- MODULE MCGuardians -----------------------------
(* Guardians by itself, on a small instance. *)
EXTENDS Guardians, TLC

\* Adults, invitations and joining requests are interchangeable.
Symmetry == Permutations(Relatives) \cup Permutations(Invites)
            \cup Permutations(Joiners)
=============================================================================

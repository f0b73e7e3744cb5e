------------------------------- MODULE MCJobs -------------------------------
(***************************************************************************)
(* Journeys, SessionNews, BounceMailbox and SharedCache in one run: what   *)
(* goes on in the background.  They are about other tables and call        *)
(* nothing of each other, so each is explored by itself: `part` says which *)
(* one moves.                                                              *)
(***************************************************************************)
EXTENDS Journeys, SessionNews, BounceMailbox, SharedCache

VARIABLE part

MCInit ==
    /\ JourneysInit /\ NewsInit /\ BounceInit /\ CacheInit
    /\ part \in {"journeys", "news", "bounces", "cache"}
    /\ part # "news" => belongs = {}

InJourneys(A) == part = "journeys" /\ A /\ UNCHANGED <<newsVars, bounceVars, cacheVars, part>>
InNews(A) == part = "news" /\ A /\ UNCHANGED <<journeyVars, bounceVars, cacheVars, part>>
InBounces(A) == part = "bounces" /\ A /\ UNCHANGED <<journeyVars, newsVars, cacheVars, part>>
InCache(A) == part = "cache" /\ A /\ UNCHANGED <<journeyVars, newsVars, bounceVars, part>>

MCNext ==
    \/ InJourneys(JourneysNext) \/ InNews(NewsNext)
    \/ InBounces(BounceNext) \/ InCache(CacheNext)

MCvars == <<journeyVars, newsVars, bounceVars, cacheVars, part>>

\* Beat sends each task again and again, and a worker takes it and goes on
\* with it; a day ends; a key times out, and requests go on.
MCFairness ==
    /\ WF_MCvars(InJourneys(Midnight))
    /\ \A w \in Workers : WF_MCvars(InJourneys(WorkerStep(w)))
    /\ \A w \in NewsWorkers : WF_MCvars(InNews(NewsStep(w)))
    /\ \A w \in Readings : WF_MCvars(InBounces(ReadingStep(w)))
    /\ WF_MCvars(InCache(Expire))
    /\ \A v \in Visitors : WF_MCvars(InCache(VisitorStep(v)))
    /\ \A e \in Editors : WF_MCvars(InCache(EditorStep(e)))

MCSpec == MCInit /\ [][MCNext]_MCvars /\ MCFairness

\* What is due is done in the end, although runs stop, overlap and are undone:
\* who matches a journey hears from it again, open sessions are announced,
\* bounce reports are read and changes show.
NothingDueIsForgotten ==
    StaysInTouch /\ UpcomingSessionsAreTold /\ EveryReportIsRead /\ EveryChangeShows
=============================================================================

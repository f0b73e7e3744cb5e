------------------------------ MODULE Geocoding ------------------------------
(***************************************************************************)
(* Looking up typed addresses at Nominatim (geo.geocoding): the cache of   *)
(* answers, the one slot a second that the processes share, and the        *)
(* back-off Nominatim asks for, all of them keys in Redis that expire by   *)
(* themselves.  Time is counted in ticks; what is left of a key is a       *)
(* number that counts down.  A process may be held up between any two      *)
(* steps.                                                                  *)
(*                                                                         *)
(* Left out: texts that name one of our own municipalities, which ask      *)
(* nobody, and how a text is normalised.                                   *)
(***************************************************************************)
EXTENDS Naturals, FiniteSets, FiniteSetsExt

CONSTANTS
    Texts,       \* normalised addresses
    Known,       \* those Nominatim knows
    Pages,       \* web requests under way at once
    Commands,    \* runs of import_dojos, which may wait
    MinInterval, WebWait,
    BackOffs,    \* how long an error may stop all calls
    LongestBackOff

Seekers == Pages \cup Commands

ASSUME GeocodingAssumption ==
    /\ Texts # {} /\ Known \subseteq Texts /\ Pages \cap Commands = {}
    /\ {MinInterval, WebWait, LongestBackOff} \subseteq Nat \ {0}
    /\ BackOffs \subseteq 1..LongestBackOff

VARIABLES
    cached,   \* the answer per text
    slot,     \* what is left of SLOT_KEY
    backOff,  \* what is left of BACKOFF_KEY
    seek,     \* per process: where it is, its text, sleep, and what is left of its wait
    age,      \* observation: ticks since a process took its slot
    early,    \* history: who had looked for a back-off before the last was set
    silence,  \* history: what is left of the longest back-off Nominatim asked for
    cut,      \* history: a shorter back-off was written over that one
    knew      \* history: who took a slot when its text had its answer cached

geocodingVars == <<cached, slot, backOff, seek, age, early, silence, cut, knew>>

\* Found somewhere, or nowhere.
Answers == {"place", "nothing", "missing"}

AtRest == [at |-> "idle", text |-> CHOOSE t \in Texts : TRUE, sleep |-> 0, left |-> 0]

GeocodingTypeOK ==
    /\ cached \in [Texts -> Answers]
    /\ slot \in 0..MinInterval
    /\ backOff \in 0..LongestBackOff /\ silence \in 0..LongestBackOff
    /\ seek \in [Seekers -> [at : {"idle", "waiting", "clear", "asleep", "holding", "asking"},
                             text : Texts, sleep : 0..Max({LongestBackOff, MinInterval}),
                             left : 0..WebWait]]
    /\ age \in [Seekers -> 0..MinInterval]
    /\ early \subseteq Seekers /\ knew \subseteq Seekers
    /\ cut \in BOOLEAN

GeocodingInit ==
    /\ cached = [t \in Texts |-> "missing"]
    /\ slot = 0 /\ backOff = 0 /\ silence = 0 /\ cut = FALSE
    /\ seek = [p \in Seekers |-> AtRest]
    /\ age = [p \in Seekers |-> MinInterval]
    /\ early = {} /\ knew = {}

historyVars == <<age, early, silence, cut, knew>>

-----------------------------------------------------------------------------
(* _take_slot() *)

\* geocode(): a cached answer needs no call.
Search(p, t) ==
    /\ seek[p].at = "idle" /\ cached[t] = "missing"
    /\ seek' = [seek EXCEPT ![p] = [at |-> "waiting", text |-> t, sleep |-> 0,
                                    left |-> IF p \in Pages THEN WebWait ELSE 0]]
    /\ UNCHANGED <<cached, slot, backOff, age, silence, cut>>
    /\ early' = early \ {p} /\ knew' = knew \ {p}

\* Mutant: whoever has begun to wait goes on.
AnyPause(p, pause) == TRUE

MayWait(p, pause) == p \in Commands \/ pause <= seek[p].left

\* Sleeps, or raises GeocodingUnavailable.
SleepOrGiveUp(p, pause) ==
    seek' = [seek EXCEPT ![p] = IF MayWait(p, pause)
                                THEN [@ EXCEPT !.at = "asleep", !.sleep = pause]
                                ELSE AtRest]

\* early: a look before the back-off was set does not count any more.
ReadBackOff(p) ==
    /\ seek[p].at = "waiting"
    /\ IF backOff > 0 THEN SleepOrGiveUp(p, backOff)
                      ELSE seek' = [seek EXCEPT ![p].at = "clear"]
    /\ early' = early \ {p}
    /\ UNCHANGED <<cached, slot, backOff, age, silence, cut, knew>>

Hold(p) ==
    /\ seek' = [seek EXCEPT ![p].at = "holding"]
    /\ slot' = MinInterval
    /\ age' = [age EXCEPT ![p] = 0]
    /\ knew' = IF cached[seek[p].text] # "missing" THEN knew \cup {p} ELSE knew
    /\ UNCHANGED <<cached, backOff, early, silence, cut>>

\* Mutant: the key is set whether it is there or not.
TakeAnySlot(p) == seek[p].at = "clear" /\ Hold(p)

TakeSlot(p) == seek[p].at = "clear" /\ slot = 0 /\ Hold(p)

SlotTaken(p) ==
    /\ seek[p].at = "clear" /\ slot > 0
    /\ SleepOrGiveUp(p, slot)
    /\ UNCHANGED <<cached, slot, backOff, historyVars>>

\* Mutant: a sleeper goes on where it was.
WakeAtTheSlot(p) ==
    /\ seek[p].at = "asleep" /\ seek[p].sleep = 0
    /\ seek' = [seek EXCEPT ![p].at = "clear"]
    /\ UNCHANGED <<cached, slot, backOff, historyVars>>

Wake(p) ==
    /\ seek[p].at = "asleep" /\ seek[p].sleep = 0
    /\ seek' = [seek EXCEPT ![p].at = "waiting"]
    /\ UNCHANGED <<cached, slot, backOff, historyVars>>

\* No Redis, no call.
RedisFails(p) ==
    /\ seek[p].at \in {"waiting", "clear"}
    /\ seek' = [seek EXCEPT ![p] = AtRest]
    /\ UNCHANGED <<cached, slot, backOff, historyVars>>

-----------------------------------------------------------------------------
(* geocode() with a slot *)

\* Mutant: nobody looks whether another found it.
AskAnyway(p) ==
    /\ seek[p].at = "holding"
    /\ seek' = [seek EXCEPT ![p].at = "asking"]
    /\ UNCHANGED <<cached, slot, backOff, historyVars>>

LookAgain(p) ==
    /\ seek[p].at = "holding"
    /\ seek' = [seek EXCEPT ![p] = IF cached[seek[p].text] = "missing"
                                   THEN [@ EXCEPT !.at = "asking"]
                                   ELSE AtRest]
    /\ UNCHANGED <<cached, slot, backOff, historyVars>>

Answer(t) == IF t \in Known THEN "place" ELSE "nothing"

Answered(p) ==
    /\ seek[p].at = "asking"
    /\ cached' = [cached EXCEPT ![seek[p].text] = Answer(seek[p].text)]
    /\ seek' = [seek EXCEPT ![p] = AtRest]
    /\ UNCHANGED <<slot, backOff, historyVars>>

\* Mutant: no answer is no place.
CacheFailure(p) ==
    /\ seek[p].at = "asking"
    /\ cached' = [cached EXCEPT ![seek[p].text] = "nothing"]
    /\ seek' = [seek EXCEPT ![p] = AtRest]
    /\ UNCHANGED <<slot, backOff, historyVars>>

\* A network error, or an error that asks for nothing.
Failed(p) ==
    /\ seek[p].at = "asking"
    /\ seek' = [seek EXCEPT ![p] = AtRest]
    /\ UNCHANGED <<cached, slot, backOff, historyVars>>

\* _back_off: over what is left of another one.
ToldToSlowDown(p, ticks) ==
    /\ seek[p].at = "asking"
    /\ backOff' = ticks
    /\ seek' = [seek EXCEPT ![p] = AtRest]
    /\ early' = {q \in Seekers : seek[q].at \in {"clear", "holding", "asking"}}
    /\ silence' = Max({silence, ticks})
    /\ cut' = (ticks < silence)
    /\ UNCHANGED <<cached, slot, age, knew>>

\* An entry expires, or is evicted.
Forget(t) ==
    /\ cached[t] # "missing"
    /\ cached' = [cached EXCEPT ![t] = "missing"]
    /\ knew' = {p \in knew : seek[p].text # t}
    /\ UNCHANGED <<slot, backOff, seek, age, early, silence, cut>>

Less(n) == IF n = 0 THEN 0 ELSE n - 1

Tick ==
    /\ slot' = Less(slot) /\ backOff' = Less(backOff) /\ silence' = Less(silence)
    /\ cut' = (cut /\ silence > 1)
    /\ seek' = [p \in Seekers |-> [seek[p] EXCEPT !.sleep = Less(@), !.left = Less(@)]]
    /\ age' = [p \in Seekers |-> IF age[p] = MinInterval THEN MinInterval ELSE age[p] + 1]
    /\ UNCHANGED <<cached, early, knew>>

GeocodingNext ==
    \/ \E p \in Seekers :
        \/ \E t \in Texts : Search(p, t)
        \/ ReadBackOff(p) \/ TakeSlot(p) \/ SlotTaken(p) \/ Wake(p) \/ RedisFails(p)
        \/ LookAgain(p) \/ Answered(p) \/ Failed(p)
        \/ \E ticks \in BackOffs : ToldToSlowDown(p, ticks)
    \/ \E t \in Texts : Forget(t)
    \/ Tick

GeocodingSpec == GeocodingInit /\ [][GeocodingNext]_geocodingVars

-----------------------------------------------------------------------------
(* Properties *)

HasSlot(p) == seek[p].at \in {"holding", "asking"}

\* Nominatim allows one request a second for the whole site (geocoding.py:4):
\* two processes never go ahead on slots less than that apart.
OneSlotASecond ==
    \A p, q \in Seekers :
        p # q /\ HasSlot(p) /\ HasSlot(q) => age[p] = MinInterval \/ age[q] = MinInterval

\* An error "stops every call for a while" (geocoding.py:20): whoever goes
\* ahead while Nominatim asked for silence had looked before it asked, or the
\* back-off of a later answer was written over a longer one.
BackOffIsKept ==
    \A p \in Seekers : HasSlot(p) /\ silence > 0 => p \in early \/ cut

\* "A web request waits at most WEB_WAIT_SECONDS" (geocoding.py:18): what it
\* sleeps fits in what is left.
PagesWaitNoLonger ==
    \A p \in Pages : seek[p].at = "asleep" => seek[p].sleep <= seek[p].left

\* The cache holds what Nominatim answers and never a failure, and nobody
\* spends a request on what was cached when it got its turn (geocoding.py:175).
CacheIsTrueAndUsed ==
    /\ \A t \in Texts : cached[t] \in {"missing", Answer(t)}
    /\ \A p \in Seekers : seek[p].at = "asking" => p \notin knew

GeocodingInv ==
    /\ GeocodingTypeOK
    /\ OneSlotASecond /\ BackOffIsKept /\ PagesWaitNoLonger /\ CacheIsTrueAndUsed
=============================================================================

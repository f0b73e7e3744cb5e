---------------------------- MODULE SharedCache ----------------------------
(***************************************************************************)
(* One key of the shared data caches (core.caching; a dojo's public page   *)
(* in dojos.public_cache is another user).  A request that misses builds   *)
(* the value from several tables, a query each, and stores it; a change of *)
(* a row deletes the key when it is saved and again once its transaction   *)
(* commits.  Changes that skip save() delete nothing, and wait for the     *)
(* key's timeout.                                                          *)
(***************************************************************************)
EXTENDS Integers, FiniteSets

CONSTANTS
    Tables,     \* what the value is built from
    Visitors,   \* requests that read the key at one time
    Editors,    \* requests that change a row at one time
    MaxVersion, \* bound: changes of a table
    Key         \* the key, as a holder of a value

ASSUME SharedCacheAssumption == MaxVersion \in Nat /\ Key \notin Visitors

VARIABLES
    version, \* the committed version of each table
    cached,  \* the versions in the value under the key, empty on a miss
    visit,   \* per request: whether it builds, and the versions it read
    edit,    \* per request: how far its change is
    skipped, \* history: a change that skipped save() or its second delete
    late     \* history: holders of a value older than a change whose deletes are done

cacheVars == <<version, cached, visit, edit, skipped, late>>

Nothing == [t \in {} |-> 0]

Values(S) == UNION {[T -> 0..MaxVersion] : T \in SUBSET S}

CacheTypeOK ==
    /\ version \in [Tables -> 0..MaxVersion]
    /\ cached \in Values(Tables)
    /\ visit \in [Visitors -> [builds : BOOLEAN, read : Values(Tables)]]
    /\ edit \in [Editors -> [at : {"idle", "saved", "committed"}, table : SUBSET Tables]]
    /\ skipped \in BOOLEAN
    /\ late \subseteq Visitors \cup {Key}

CacheInit ==
    /\ version = [t \in Tables |-> 0]
    /\ cached = Nothing
    /\ visit = [v \in Visitors |-> [builds |-> FALSE, read |-> Nothing]]
    /\ edit = [e \in Editors |-> [at |-> "idle", table |-> {}]]
    /\ skipped = FALSE
    /\ late = {}

-----------------------------------------------------------------------------
(* cached() *)

Miss(v) ==
    /\ ~visit[v].builds /\ cached = Nothing
    /\ visit' = [visit EXCEPT ![v].builds = TRUE]
    /\ UNCHANGED <<version, cached, edit, skipped, late>>

ReadTable(v, t) ==
    /\ visit[v].builds /\ t \notin DOMAIN visit[v].read
    /\ visit' = [visit EXCEPT ![v].read =
          [u \in DOMAIN visit[v].read \cup {t} |->
              IF u = t THEN version[t] ELSE visit[v].read[u]]]
    /\ UNCHANGED <<version, cached, edit, skipped, late>>

Store(v) ==
    /\ visit[v].builds /\ DOMAIN visit[v].read = Tables
    /\ cached' = visit[v].read
    /\ visit' = [visit EXCEPT ![v] = [builds |-> FALSE, read |-> Nothing]]
    /\ late' = IF v \in late THEN (late \ {v}) \cup {Key} ELSE late \ {Key}
    /\ UNCHANGED <<version, edit, skipped>>

\* Mutant: the key never expires.
NeverExpire == FALSE /\ UNCHANGED cacheVars

Expire ==
    /\ cached # Nothing
    /\ cached' = Nothing
    /\ late' = late \ {Key}
    /\ UNCHANGED <<version, visit, edit, skipped>>

-----------------------------------------------------------------------------
(* clear_on_change() *)

Save(e, t) ==
    /\ edit[e].at = "idle"
    /\ edit' = [edit EXCEPT ![e] = [at |-> "saved", table |-> {t}]]
    /\ cached' = Nothing
    /\ late' = late \ {Key}
    /\ UNCHANGED <<version, visit, skipped>>

CommitEdit(e) ==
    /\ edit[e].at = "saved"
    /\ \A t \in edit[e].table : version[t] < MaxVersion
    /\ version' = [t \in Tables |-> version[t] + IF t \in edit[e].table THEN 1 ELSE 0]
    /\ edit' = [edit EXCEPT ![e].at = "committed"]
    /\ UNCHANGED <<cached, visit, skipped, late>>

RollBack(e) ==
    /\ edit[e].at = "saved"
    /\ edit' = [edit EXCEPT ![e] = [at |-> "idle", table |-> {}]]
    /\ UNCHANGED <<version, cached, visit, skipped, late>>

Outdated(v) == \E t \in DOMAIN visit[v].read : visit[v].read[t] < version[t]

\* Mutant: the key is deleted on save only.
ClearOnSaveOnly(e) ==
    /\ edit[e].at = "committed"
    /\ edit' = [edit EXCEPT ![e] = [at |-> "idle", table |-> {}]]
    /\ UNCHANGED <<version, cached, visit, skipped, late>>

ClearAgain(e) ==
    /\ edit[e].at = "committed"
    /\ edit' = [edit EXCEPT ![e] = [at |-> "idle", table |-> {}]]
    /\ cached' = Nothing
    /\ late' = (late \ {Key}) \cup {v \in Visitors : Outdated(v)}
    /\ UNCHANGED <<version, visit, skipped>>

\* The worker dies after the commit, or Redis does not answer.
SkipClear(e) ==
    /\ edit[e].at = "committed"
    /\ edit' = [edit EXCEPT ![e] = [at |-> "idle", table |-> {}]]
    /\ skipped' = TRUE
    /\ UNCHANGED <<version, cached, visit, late>>

\* QuerySet.update() and bulk_create() send no signal.
ChangeInBulk(t) ==
    /\ version[t] < MaxVersion
    /\ version' = [version EXCEPT ![t] = @ + 1]
    /\ skipped' = TRUE
    /\ UNCHANGED <<cached, visit, edit, late>>

VisitorStep(v) == Miss(v) \/ Store(v) \/ \E t \in Tables : ReadTable(v, t)
EditorStep(e) == ClearAgain(e) \/ CommitEdit(e)

CacheNext ==
    \/ \E v \in Visitors : VisitorStep(v)
    \/ Expire
    \/ \E e \in Editors : EditorStep(e) \/ RollBack(e) \/ SkipClear(e)
                          \/ \E t \in Tables : Save(e, t)
    \/ \E t \in Tables : ChangeInBulk(t)

CacheSpec == CacheInit /\ [][CacheNext]_cacheVars

-----------------------------------------------------------------------------
(* Properties *)

Stale == cached # Nothing /\ cached # version

\* Between its commit and its second delete a change does not show yet.
Settled == \A e \in Editors : edit[e].at # "committed"

\* An old value stays under the key only when a request had read it before the
\* change was committed and stored it after the change's last delete: a value
\* stored, or half built, at any other moment is deleted or is not old.
StaleOnlyWhenStoredLate == Stale /\ Settled /\ ~skipped => Key \in late

\* In the end every change shows, the ones that skip save() and the deletes
\* that were lost included.
EveryChangeShows == <>[](~Stale)

\* The types, and the one way an old value stays.
CacheInv == CacheTypeOK /\ StaleOnlyWhenStoredLate

-----------------------------------------------------------------------------
(* What the repository says, and a run refutes *)

\* "a change shows at once and the timeout is only a safety net for writes that
\* skip save()" (caching.py:4): no old value is under the key once every
\* change that was saved has deleted it both times.
AChangeShowsAtOnce == Settled /\ ~skipped => ~Stale

=============================================================================

------------------------------- MODULE Uploads -------------------------------
(***************************************************************************)
(* The image of one row (a dojo's icon, a profile's photo) and the files   *)
(* in media storage: UploadedImageField and the clean-up of core.uploads.  *)
(* Pages save outside a transaction, so a save is several commits: the     *)
(* stored name is read (pre_save), a new file is written, the row is       *)
(* updated with every column it was loaded with, the replaced file is      *)
(* looked up and deleted (on_commit, at once).  A request may die between  *)
(* any two of them.                                                        *)
(*                                                                         *)
(* A name that is free in storage may be given out again.  Left out:       *)
(* validating and shrinking the image; the forms' own checks.              *)
(***************************************************************************)
EXTENDS FiniteSets

CONSTANTS
    Names,      \* of uploaded files
    Library,    \* the name of a standard image
    NoName,     \* the field is empty
    NoImageRow, \* there is no row
    Uploaders   \* requests under way at once

ASSUME UploadsAssumption ==
    /\ Library \notin Names /\ NoName \notin Names /\ NoImageRow \notin Names
    /\ Cardinality({Library, NoName, NoImageRow}) = 3

VARIABLES
    image,      \* the name in the row
    files,      \* what is in storage
    uploading,  \* per request: where its save or delete is
    restored,   \* history: the row was last written with a name it was loaded with long ago
    reused,     \* history: names given out while their deletion was under way
    abandoned   \* history: files that were overwritten unseen, or whose request died

uploadVars == <<image, files, uploading, restored, reused, abandoned>>

RowNames == Names \cup {Library, NoName}

\* at: idle, loaded, remembered, written, saved (a file to delete), unused.
\* new: what the row will say; old: what pre_save found, and is to be deleted.
\* kept: the page writes back the name it was loaded with.
\* overtaken: the row changed since the request last read it.
Away == [at |-> "idle", loaded |-> NoName, new |-> NoName, old |-> NoName,
         kept |-> FALSE, overtaken |-> FALSE]

UploadsTypeOK ==
    /\ image \in RowNames \cup {NoImageRow}
    /\ files \subseteq Names \cup {Library}
    /\ uploading \in [Uploaders ->
          [at : {"idle", "loaded", "remembered", "written", "saved", "unused"},
           loaded : RowNames, new : RowNames, old : RowNames,
           kept : BOOLEAN, overtaken : BOOLEAN]]
    /\ restored \in BOOLEAN
    /\ reused \subseteq Names /\ abandoned \subseteq Names

UploadsInit ==
    /\ image \in {NoName, Library} \cup Names
    /\ files = {Library} \cup ({image} \cap Names)
    /\ uploading = [u \in Uploaders |-> Away]
    /\ restored = FALSE /\ reused = {} /\ abandoned = {}

-----------------------------------------------------------------------------
(* Saving *)

\* The row changes under the requests that are about to write or delete it.
Writes(u, name, next) ==
    /\ image' = name
    /\ uploading' = [v \in Uploaders |->
          IF v = u THEN next
          ELSE IF uploading[v].at \in {"loaded", "remembered", "written"} /\ image # name
               THEN [uploading[v] EXCEPT !.overtaken = TRUE]
               ELSE uploading[v]]
    /\ abandoned' = abandoned \cup (Names \cap IF uploading[u].overtaken THEN {image} \ {name} ELSE {})

LoadImageRow(u) ==
    /\ uploading[u].at = "idle" /\ image # NoImageRow
    /\ uploading' = [uploading EXCEPT ![u] = [Away EXCEPT !.at = "loaded", !.loaded = image]]
    /\ UNCHANGED <<image, files, restored, reused, abandoned>>

\* Mutant: the clean-up trusts the row as the page loaded it.
TrustLoaded(u) == uploading[u].loaded

\* _remember_files: nothing, when the row is gone.
StoredName(u) == IF image = NoImageRow THEN NoName ELSE image

\* The page keeps the image, empties it, or picks a standard one.
Remember(u, new) ==
    /\ uploading[u].at = "loaded"
    /\ new \in {uploading[u].loaded, NoName, Library}
    /\ uploading' = [uploading EXCEPT ![u].at = "written", ![u].new = new,
                                      ![u].old = StoredName(u),
                                      ![u].overtaken = FALSE,
                                      ![u].kept = (new = uploading[u].loaded)]
    /\ UNCHANGED <<image, files, restored, reused, abandoned>>

RememberForUpload(u) ==
    /\ uploading[u].at = "loaded"
    /\ uploading' = [uploading EXCEPT ![u].at = "remembered", ![u].old = StoredName(u),
                                      ![u].overtaken = FALSE]
    /\ UNCHANGED <<image, files, restored, reused, abandoned>>

Deleting(name) == \E u \in Uploaders : uploading[u].at = "unused" /\ uploading[u].old = name

\* UploadedImageField.pre_save: storage picks a name that is free.
WriteFile(u, name) ==
    /\ uploading[u].at = "remembered" /\ name \notin files
    /\ files' = files \cup {name}
    /\ uploading' = [uploading EXCEPT ![u].at = "written", ![u].new = name]
    /\ reused' = IF Deleting(name) THEN reused \cup {name} ELSE reused \ {name}
    /\ abandoned' = abandoned \ {name}
    /\ UNCHANGED <<image, restored>>

\* Mutant: a standard image is a file like any other.
AnyName(name) == name # NoName

\* _delete_later
Cleans(name) == name \in Names

\* A row that was deleted meanwhile is inserted again.
SaveImageRow(u) ==
    LET q == uploading[u]
        replaced == Cleans(q.old) /\ q.old # q.new
    IN
    /\ q.at = "written"
    /\ Writes(u, q.new, IF replaced THEN [q EXCEPT !.at = "saved"] ELSE Away)
    /\ restored' = (q.kept /\ (restored \/ image # q.new))
    /\ UNCHANGED <<files, reused>>

-----------------------------------------------------------------------------
(* Deleting *)

\* _delete_with_row: the file of the row as it was loaded.
DeleteImageRow(u) ==
    LET q == uploading[u] IN
    /\ q.at = "loaded" /\ image # NoImageRow
    /\ Writes(u, NoImageRow, IF Cleans(q.loaded) THEN [q EXCEPT !.at = "saved", !.old = q.loaded]
                                                ELSE Away)
    /\ restored' = FALSE
    /\ UNCHANGED <<files, reused>>

\* Mutant: nobody asks who uses the file.
NotAsked(u) == TRUE

Unused(u) == image # uploading[u].old

\* A file that is written and not yet in its row counts as unused.
OnItsWay(name) == \E u \in Uploaders : uploading[u].at = "written" /\ uploading[u].new = name

CheckUnused(u) ==
    LET q == uploading[u] IN
    /\ q.at = "saved"
    /\ uploading' = [uploading EXCEPT ![u] = IF Unused(u) THEN [q EXCEPT !.at = "unused"] ELSE Away]
    /\ reused' = IF Unused(u) /\ OnItsWay(q.old) THEN reused \cup {q.old} ELSE reused
    /\ UNCHANGED <<image, files, restored, abandoned>>

DeleteFile(u) ==
    LET q == uploading[u] IN
    /\ q.at = "unused"
    /\ files' = files \ {q.old}
    /\ uploading' = [uploading EXCEPT ![u] = Away]
    /\ abandoned' = abandoned \ {q.old}
    /\ UNCHANGED <<image, restored, reused>>

\* The request dies, or storage refuses (which only logs).
Abandon(u) ==
    LET q == uploading[u] IN
    /\ q.at # "idle"
    /\ uploading' = [uploading EXCEPT ![u] = Away]
    /\ abandoned' = abandoned \cup
          (Names \cap IF q.at = "written" /\ ~q.kept THEN {q.new}
                      ELSE IF q.at \in {"saved", "unused"} THEN {q.old}
                      ELSE {})
    /\ UNCHANGED <<image, files, restored, reused>>

UploadsNext ==
    \E u \in Uploaders :
        \/ LoadImageRow(u)
        \/ \E new \in RowNames : Remember(u, new)
        \/ RememberForUpload(u)
        \/ \E name \in Names : WriteFile(u, name)
        \/ SaveImageRow(u) \/ DeleteImageRow(u)
        \/ CheckUnused(u) \/ DeleteFile(u) \/ Abandon(u)

UploadsSpec == UploadsInit /\ [][UploadsNext]_uploadVars

-----------------------------------------------------------------------------
(* Properties *)

\* The row's image is there, and the standard images always are, whatever
\* requests do to each other (uploads.py:8-11).  Except when a page wrote back
\* the name it had loaded over another one, or a name came into use again while
\* its old file was being deleted: then `exists()` asked too early.
FilesAreThere ==
    /\ Library \in files
    /\ image \in Names => image \in files \/ restored \/ image \in reused

\* Nothing is kept that nobody uses, a photo of a child for one, once every
\* request is done: but for names written over by a request that had not seen
\* them, and what a dying request leaves.
NothingIsLeftBehind ==
    (\A u \in Uploaders : uploading[u].at = "idle") =>
        files \cap Names \subseteq {image} \cup abandoned

UploadsInv == UploadsTypeOK /\ FilesAreThere /\ NothingIsLeftBehind
=============================================================================

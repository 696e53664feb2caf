------------------------------- MODULE Store -------------------------------
(***************************************************************************)
(* The clip store of clipnetd: the rows of the SQLite table "clips"        *)
(* (db.c, db_edit.c) and the content-addressed payload files kept beside   *)
(* the database (blob.c).  SQLite makes each transaction atomic; the files *)
(* are outside it, so every file-system effect is a step of its own and    *)
(* the process may die between any two of them.                            *)
(*                                                                         *)
(* The daemon is single-threaded: `pc` says which operation it is inside,  *)
(* and only an idle daemon starts another one.                             *)
(***************************************************************************)
EXTENDS Integers, FiniteSets

CONSTANTS
  Content,   \* what clips.content_hash tells apart
  Texts,     \* the contents the clip editor can write (plain text)
  Large,     \* the contents with total_size >= large_bytes
  Blob,      \* names of payload files (the hash of a format's bytes)
  BlobsOf,   \* the payload files of a content; other formats are inline
  Slot,      \* copy buffer slots
  Pin,       \* marks a user can put on a row: sticky, locked, quick_paste, hotkey
  MaxAge,    \* settings max_age_days, large_age_days and max_clips; 0 is "off"
  LargeAge,
  MaxClips,
  Faults,    \* whether writes, commits and queries may fail
  MaxId,     \* bound: row ids
  MaxTime    \* bound: clock

ASSUME StoreAssumption ==
  /\ Texts \subseteq Content /\ Large \subseteq Content
  /\ BlobsOf \in [Content -> SUBSET Blob]
  /\ MaxAge \in Nat /\ LargeAge \in Nat /\ MaxClips \in Nat
  /\ MaxId \in Nat /\ MaxTime \in Nat /\ Faults \in BOOLEAN

VARIABLES
  clips,     \* committed rows of table clips
  buffers,   \* table copy_buffers: slot -> clip_id, 0 for NULL
  now,       \* the clock, in days
  blobs,     \* payload files on disk under their final name
  temps,     \* payloads with a leftover "<name>.tmp.<pid>" file
  pc,        \* what the daemon is in the middle of
  txOld,     \* row an open transaction replaces
  txNew,     \* row it will have written at COMMIT
  todo,      \* payload names the current loop has yet to look at
  writing,   \* payload whose temp file is being written
  unsure,    \* names a sweep kept because the reference query failed
  lost       \* history variable: payloads unlinked although a row named them, and
             \* not written again since

vars == <<clips, buffers, now, blobs, temps, pc, txOld, txNew, todo, writing, unsure, lost>>
table == <<clips, buffers, now>>
files == <<blobs, temps, writing, lost>>
tx == <<txOld, txNew>>

Id == 1..MaxId
Time == 0..MaxTime
Grouped == "grouped"
Mark == Pin \cup {Grouped}
Row == [id : Id, content : Content, used : Time, marks : SUBSET Mark]

\* The types of the tables, of the directory and of the request under way.
TypeOK ==
  /\ clips \subseteq Row
  /\ buffers \in [Slot -> Id \cup {0}]
  /\ now \in Time
  /\ blobs \subseteq Blob /\ temps \subseteq Blob /\ unsure \subseteq Blob
  /\ todo \subseteq Blob /\ writing \subseteq Blob /\ lost \subseteq Blob
  /\ pc \in {"idle", "insert", "unlink", "sweep"}
  /\ txOld \subseteq Row /\ txNew \subseteq Row

Init ==
  /\ clips = {} /\ buffers = [s \in Slot |-> 0] /\ now = 0
  /\ blobs = {} /\ temps = {} /\ unsure = {} /\ lost = {}
  /\ pc = "idle" /\ txOld = {} /\ txNew = {} /\ todo = {} /\ writing = {}

-----------------------------------------------------------------------------
(* Queries *)

\* dbi_blob_referenced: does a committed clip_formats row name the file?
Referenced(rows, b) == \E r \in rows : b \in BlobsOf[r.content]

Holding(rows, c) == {r \in rows : r.content = c}

\* INTEGER PRIMARY KEY without AUTOINCREMENT: one more than the largest id.
NextIds(rows) ==
  {i \in Id : /\ \A r \in rows : r.id < i
              /\ i = 1 \/ \E r \in rows : r.id = i - 1}

\* The EXPENDABLE clause: nothing the user invested in the row.
Expendable(r) == r.marks = {} /\ \A s \in Slot : buffers[s] # r.id

\* Variant with a fault: foreign keys are off and the slot keeps the id.
ForgetNothing(gone) == buffers' = buffers

\* ON DELETE SET NULL of copy_buffers.clip_id
Forget(gone) ==
  buffers' = [s \in Slot |-> IF \E r \in gone : r.id = buffers[s] THEN 0 ELSE buffers[s]]

\* Entering a loop over payload names; an empty loop is over at once.
Loop(where, names) ==
  /\ todo' = names
  /\ pc' = IF names = {} THEN "idle" ELSE where

-----------------------------------------------------------------------------
(* db_add_clip: a known content is only touched, a new one is inserted with *)
(* its payload files.  `u` is the last_used_at an import may bring along,   *)
(* `m` the group a rule or an import routes the clip to.                    *)

\* Variant with a fault: an import moves last use back.
AddDupOverwrites(c, u) ==
  /\ pc = "idle"
  /\ \E r \in Holding(clips, c) : clips' = (clips \ {r}) \cup {[r EXCEPT !.used = u]}
  /\ UNCHANGED <<buffers, now, files, pc, tx, todo, unsure>>

\* Variant with a fault: every copy pushes last use further, whatever the clock says.
AddDupCounts(c, u) ==
  /\ pc = "idle"
  /\ \E r \in Holding(clips, c) : clips' = (clips \ {r}) \cup {[r EXCEPT !.used = @ + 1]}
  /\ UNCHANGED <<buffers, now, files, pc, tx, todo, unsure>>

AddDup(c, u) ==
  /\ pc = "idle"
  /\ \E r \in Holding(clips, c) :
       clips' = (clips \ {r}) \cup {[r EXCEPT !.used = IF u > @ THEN u ELSE @]}
  /\ UNCHANGED <<buffers, now, files, pc, tx, todo, unsure>>

AddBegin(c, u, m) ==
  /\ pc = "idle"
  /\ Holding(clips, c) = {}
  /\ \E i \in NextIds(clips) :
       txNew' = {[id |-> i, content |-> c, used |-> u, marks |-> m]}
  /\ txOld' = {}
  /\ pc' = "insert" /\ todo' = BlobsOf[c]
  /\ UNCHANGED <<table, files, unsure>>

\* db_clip_set_text: refused when another clip has exactly this text.
SetTextBegin(r, c) ==
  /\ pc = "idle"
  /\ Holding(clips \ {r}, c) = {}
  /\ txOld' = {r} /\ txNew' = {[r EXCEPT !.content = c]}
  /\ pc' = "insert" /\ todo' = BlobsOf[c]
  /\ UNCHANGED <<table, files, unsure>>

-----------------------------------------------------------------------------
(* blob_put, once per payload of the row, inside the open transaction *)

\* A file of that name and size is already there.
PutPresent(b) ==
  /\ pc = "insert" /\ writing = {} /\ b \in todo /\ b \in blobs
  /\ todo' = todo \ {b}
  /\ UNCHANGED <<table, files, pc, tx, unsure>>

PutTemp(b) ==
  /\ pc = "insert" /\ writing = {} /\ b \in todo /\ b \notin blobs
  /\ writing' = {b}
  /\ UNCHANGED <<table, blobs, temps, lost, pc, tx, todo, unsure>>

PutRename(b) ==
  /\ pc = "insert" /\ b \in writing
  /\ writing' = {} /\ blobs' = blobs \cup {b} /\ todo' = todo \ {b}
  /\ lost' = lost \ {b}
  /\ UNCHANGED <<table, temps, pc, tx, unsure>>

\* A failed write, rename, INSERT or COMMIT: the temp file is unlinked and the
\* transaction rolled back.  Payloads already renamed stay.
Rollback ==
  /\ Faults /\ pc = "insert"
  /\ pc' = "idle" /\ todo' = {} /\ writing' = {} /\ txOld' = {} /\ txNew' = {}
  /\ UNCHANGED <<table, blobs, temps, lost, unsure>>

\* COMMIT; db_clip_set_text then looks at the payloads the old text had.
Commit ==
  /\ pc = "insert" /\ todo = {}
  /\ clips' = (clips \ txOld) \cup txNew
  /\ Loop("unlink", UNION {BlobsOf[r.content] : r \in txOld})
  /\ txOld' = {} /\ txNew' = {}
  /\ UNCHANGED <<buffers, now, files, unsure>>

-----------------------------------------------------------------------------
(* db_delete: the row goes in one transaction, its payloads after COMMIT,  *)
(* those that dbi_blob_referenced does not find named.  Whether its query   *)
(* cannot be prepared or fails in its step makes a difference: the one      *)
(* reads as "named", the other as "not named".                              *)

\* Unlinked without knowing: rows that name the payload lose it.
Blindly(b) ==
  /\ blobs' = blobs \ {b}
  /\ lost' = IF Referenced(clips, b) THEN lost \cup {b} ELSE lost

Delete(r) ==
  /\ pc = "idle"
  /\ clips' = clips \ {r} /\ Forget({r})
  /\ Loop("unlink", BlobsOf[r.content])
  /\ UNCHANGED <<now, files, tx, unsure>>

\* Variant with a fault: a payload is taken to belong to one clip only.
UnlinkAlways(b) ==
  /\ pc = "unlink" /\ b \in todo
  /\ blobs' = blobs \ {b}
  /\ Loop("unlink", todo \ {b})
  /\ UNCHANGED <<table, temps, writing, lost, tx, unsure>>

UnlinkOne(b) ==
  /\ pc = "unlink" /\ b \in todo
  /\ blobs' = IF Referenced(clips, b) THEN blobs ELSE blobs \ {b}
  /\ Loop("unlink", todo \ {b})
  /\ UNCHANGED <<table, temps, writing, lost, tx, unsure>>

\* The query could not be prepared: "when unsure, keep the file".
UnlinkUnsure(b) ==
  /\ Faults /\ pc = "unlink" /\ b \in todo
  /\ Loop("unlink", todo \ {b})
  /\ UNCHANGED <<table, files, tx, unsure>>

\* Its step failed, which looks like no row.
UnlinkBlind(b) ==
  /\ Faults /\ pc = "unlink" /\ b \in todo
  /\ Blindly(b)
  /\ Loop("unlink", todo \ {b})
  /\ UNCHANGED <<table, temps, writing, tx, unsure>>

-----------------------------------------------------------------------------
(* db_blob_gc, the sweep over the files on disk; a name stands for the     *)
(* final file and the leftover temp file beside it.                        *)

SweepBegin ==
  /\ Loop("sweep", blobs \cup temps)
  /\ unsure' = {}

\* Variant with a fault: the sweep looks at final names only.
SweepSkipsTemps(b) ==
  /\ pc = "sweep" /\ b \in todo
  /\ blobs' = IF Referenced(clips, b) THEN blobs ELSE blobs \ {b}
  /\ Loop("sweep", todo \ {b})
  /\ UNCHANGED <<table, temps, writing, lost, tx, unsure>>

SweepOne(b) ==
  /\ pc = "sweep" /\ b \in todo
  /\ temps' = temps \ {b}
  /\ blobs' = IF Referenced(clips, b) THEN blobs ELSE blobs \ {b}
  /\ Loop("sweep", todo \ {b})
  /\ UNCHANGED <<table, writing, lost, tx, unsure>>

SweepUnsure(b) ==
  /\ Faults /\ pc = "sweep" /\ b \in todo
  /\ temps' = temps \ {b}
  /\ unsure' = unsure \cup {b}
  /\ Loop("sweep", todo \ {b})
  /\ UNCHANGED <<table, blobs, writing, lost, tx>>

SweepBlind(b) ==
  /\ Faults /\ pc = "sweep" /\ b \in todo
  /\ temps' = temps \ {b}
  /\ Blindly(b)
  /\ Loop("sweep", todo \ {b})
  /\ UNCHANGED <<table, writing, tx, unsure>>

\* db_vacuum sweeps, whatever there is to sweep.
Vacuum ==
  /\ pc = "idle"
  /\ SweepBegin
  /\ UNCHANGED <<table, files, tx>>

-----------------------------------------------------------------------------
(* db_retention: three deletions in one transaction, each seeing what the  *)
(* ones before it left.                                                    *)

Aged(rows) ==
  {r \in rows : MaxAge > 0 /\ Expendable(r) /\ r.used < now - MaxAge}

Bulky(rows) ==
  {r \in rows : /\ LargeAge > 0 /\ Expendable(r)
                /\ r.content \in Large /\ r.used < now - LargeAge}

\* ORDER BY last_used_at DESC, id DESC
Before(q, r) == q.used > r.used \/ (q.used = r.used /\ q.id > r.id)

\* Variant with a fault: one row more than max_clips is kept.
ExcessOffByOne(rows) ==
  LET loose == {r \in rows : Expendable(r)}
      room  == MaxClips - Cardinality(rows \ loose)
  IN  {r \in loose : MaxClips > 0 /\ Cardinality({q \in loose : Before(q, r)}) > room}

\* Variant with a fault: the oldest rows go, protected or not.
ExcessAny(rows) ==
  {r \in rows : MaxClips > 0 /\ Cardinality({q \in rows : Before(q, r)}) >= MaxClips}

\* LIMIT -1 OFFSET max(0, max_clips - protected)
Excess(rows) ==
  LET loose == {r \in rows : Expendable(r)}
      room  == MaxClips - Cardinality(rows \ loose)
  IN  {r \in loose : MaxClips > 0 /\ Cardinality({q \in loose : Before(q, r)}) >= room}

Kept ==
  LET fresh == clips \ Aged(clips)
      small == fresh \ Bulky(fresh)
  IN  small \ Excess(small)

\* The sweep runs only when rows were removed.
Retention ==
  /\ pc = "idle"
  /\ clips' = Kept
  /\ IF Kept # clips THEN SweepBegin ELSE UNCHANGED <<pc, todo, unsure>>
  /\ Forget(clips \ Kept)
  /\ UNCHANGED <<now, files, tx>>

-----------------------------------------------------------------------------
(* Single-statement updates, and deleting the group *)

GroupDelete(cascade) ==
  LET members == {r \in clips : Grouped \in r.marks} IN
  /\ pc = "idle"
  /\ IF cascade
     THEN clips' = clips \ members /\ Forget(members) /\ SweepBegin
     ELSE /\ clips' = (clips \ members)
                       \cup {[r EXCEPT !.marks = @ \ {Grouped}] : r \in members}
          /\ UNCHANGED <<buffers, pc, todo, unsure>>
  /\ UNCHANGED <<now, files, tx>>

\* set_title aside, db_edit.c's setters put a mark on a row or take it off.
SetMarks(r, m) ==
  /\ pc = "idle"
  /\ clips' = (clips \ {r}) \cup {[r EXCEPT !.marks = m]}
  /\ UNCHANGED <<buffers, now, files, pc, tx, todo, unsure>>

Touch(r) ==
  /\ pc = "idle"
  /\ clips' = (clips \ {r}) \cup {[r EXCEPT !.used = now]}
  /\ UNCHANGED <<buffers, now, files, pc, tx, todo, unsure>>

SetSlot(s, r) ==
  /\ pc = "idle"
  /\ buffers' = [buffers EXCEPT ![s] = r.id]
  /\ UNCHANGED <<clips, now, files, pc, tx, todo, unsure>>

-----------------------------------------------------------------------------
\* The process dies inside an operation and is started again: SQLite forgets
\* the open transaction, the file system keeps what it has.
Crash ==
  /\ pc # "idle"
  /\ pc' = "idle" /\ todo' = {} /\ writing' = {} /\ txOld' = {} /\ txNew' = {}
  /\ temps' = temps \cup writing
  /\ unsure' = {}
  /\ UNCHANGED <<table, blobs, lost>>

Tick ==
  /\ pc = "idle" /\ now < MaxTime
  /\ now' = now + 1
  /\ UNCHANGED <<clips, buffers, files, pc, tx, todo, unsure>>

\* The operation in progress goes on.
Step ==
  \/ \E b \in Blob :
       \/ PutPresent(b) \/ PutTemp(b) \/ PutRename(b)
       \/ UnlinkOne(b) \/ UnlinkUnsure(b) \/ UnlinkBlind(b)
       \/ SweepOne(b) \/ SweepUnsure(b) \/ SweepBlind(b)
  \/ Commit \/ Rollback

\* An idle daemon starts one, for a client or for a capture.
Request ==
  \/ \E c \in Content, u \in 0..now :
       AddDup(c, u) \/ \E m \in SUBSET {Grouped} : AddBegin(c, u, m)
  \/ \E r \in clips :
       \/ \E c \in Texts : SetTextBegin(r, c)
       \/ \E m \in SUBSET Mark : SetMarks(r, m)
       \/ Delete(r) \/ Touch(r)
       \/ \E s \in Slot : SetSlot(s, r)
  \/ Vacuum
  \/ \E cascade \in BOOLEAN : GroupDelete(cascade)

Next == Step \/ Request \/ Retention \/ Crash \/ Tick

Spec == Init /\ [][Next]_vars

\* The loop always gets back to a started operation and to the hourly timer, and the
\* daemon does not die for ever.
FairSpec == Spec /\ WF_vars(Step) /\ WF_vars(Retention) /\ <>[][~Crash]_vars
-----------------------------------------------------------------------------
(* Properties *)

Orphans(rows, on) == {b \in on : ~Referenced(rows, b)}

Larger(a, b) == IF a > b THEN a ELSE b

\* Every payload a committed row names is on disk under its final name, unless it
\* was unlinked when a reference query failed in its step (db.c:873) and nobody wrote
\* it since: no interleaving of blob_put, COMMIT, blob_unlink, the sweep, a rollback and
\* a process death leaves any other listed clip that cannot be loaded
\* (db_load_payload).
NoDanglingBlob == \A r \in clips : BlobsOf[r.content] \subseteq blobs \cup lost

\* Two rows never hold the same content nor the same id: db_add_clip's lookup and
\* db_clip_set_text's check both come before the payloads are written.
UniqueContent ==
  \A q, r \in clips : q.content = r.content \/ q.id = r.id => q = r

\* A filled copy buffer names a row that exists, although ids are handed out again
\* after the newest row was deleted.
BuffersLive == \A s \in Slot : buffers[s] # 0 => \E r \in clips : r.id = buffers[s]

\* Clips the user has invested in go only when the user says so: a row with a mark
\* or in a buffer outlives everything but its own deletion and its group's.
InvestedSurvive ==
  [][\A r \in clips :
       \/ Expendable(r)
       \/ \E q \in clips' : q.id = r.id
       \/ Delete(r)
       \/ Grouped \in r.marks /\ GroupDelete(TRUE)]_vars

\* Retention is exact: afterwards the rows fit max_clips unless the protected ones
\* alone do not, and a row that is within the age limits goes only when the rest
\* already fills max_clips with protected and more recently used rows.
RetentionExact ==
  LET loose == {r \in clips : Expendable(r)} IN
  pc = "idle" =>
  /\ MaxClips > 0 => Cardinality(Kept) <= Larger(MaxClips, Cardinality(clips \ loose))
  /\ \A r \in clips \ Kept :
       \/ r \in Aged(clips) \cup Bulky(clips)
       \/ Cardinality(Kept) >= MaxClips /\ \A q \in Kept \cap loose : Before(q, r)

\* A sweep that runs to its end leaves no temp file and no unreferenced payload,
\* except those whose reference query failed.
SweepClean ==
  [][pc = "sweep" /\ pc' = "idle" /\ ~Crash =>
       temps' = {} /\ Orphans(clips', blobs') \subseteq unsure']_vars

\* docs/SCHEMA.md: a blob file is deleted when no row references it any more, "at
\* delete time, and hourly by retention's garbage collection".
OrphansCollected == \A b \in Blob : b \in Orphans(clips, blobs) ~> b \notin Orphans(clips, blobs)

\* The clips that are listed but cannot be loaded.
Unreadable == {r.id : r \in {q \in clips : ~(BlobsOf[q.content] \subseteq blobs)}}

H == INSTANCE History WITH history <- clips, unreadable <- Unreadable

\* Seen from outside, every step is one whole operation of the abstract history or
\* nothing: a half-done add, edit, delete or sweep, and a death inside it, never shows,
\* neither in the list nor in what can be loaded.  What goes wrong at all is one
\* operation too: clips become unreadable when queries may fail, and readable again
\* when another clip brings the payload back.
ImplementsHistory == H!Spec
=============================================================================

---------------------------- MODULE HistoryProofs ----------------------------
(***************************************************************************)
(* The clip store implements the abstract history: each step is one whole  *)
(* operation of History or none, in the list and in what of it can be      *)
(* loaded, for every set of contents and payloads, any bounds, failures    *)
(* and deaths.                                                             *)
(***************************************************************************)
EXTENDS StoreProofs

(* What COMMIT will do, and that no clip was used in the future.            *)
Insertion == txOld = {} /\ \E new \in Row : txNew = {new}

Edition == \E r \in clips, c \in Content : txOld = {r} /\ txNew = {[r EXCEPT !.content = c]}

Past == \A r \in clips \cup txNew : r.used <= now

HistoryInv ==
  /\ StoreInv /\ Past
  /\ pc = "insert" => Insertion \/ Edition

\* What an update leaves of a row's last use.
LEMMA UsedFields ==
  ASSUME TypeOK, NEW r \in clips
  PROVE  /\ \A u : [r EXCEPT !.used = u].used = u
         /\ \A m : [r EXCEPT !.marks = m].used = r.used
         /\ \A c : [r EXCEPT !.content = c].used = r.used
  BY DEF TypeOK, Row

\* A fresh database satisfies the strengthened invariant.
LEMMA HistoryInit == Init => HistoryInv
<1> SUFFICES ASSUME Init PROVE HistoryInv
  OBVIOUS
<1>1. StoreInv
  BY InvInit
<1>2. Past /\ (pc = "insert" => Insertion \/ Edition)
  BY DEF Init, Past
<1> QED
  BY <1>1, <1>2 DEF HistoryInv

\* No step uses a clip in the future: captures and pastes take the clock, imports
\* an earlier time, an edit keeps what the row had.
LEMMA PastStep == HistoryInv /\ [Next]_vars => Past'
<1> SUFFICES ASSUME HistoryInv, [Next]_vars PROVE Past'
  OBVIOUS
<1> USE StoreAssumption
<1>0. TypeOK /\ Past /\ now \in Nat /\ TxOK
  BY DEF HistoryInv, StoreInv, TypeOK, Time
<1>1. ASSUME NEW c \in Content, NEW u \in 0..now, AddDup(c, u) PROVE Past'
  <2>1. PICK r \in clips : clips' = (clips \ {r}) \cup {[r EXCEPT !.used = IF u > @ THEN u ELSE @]}
    BY <1>1 DEF AddDup, Holding
  <2>2. [r EXCEPT !.used = IF u > @ THEN u ELSE @].used <= now
    BY <1>0, UsedFields DEF Past
  <2> QED
    BY <1>0, <1>1, <2>1, <2>2 DEF AddDup, Past, tx, files
<1>2. ASSUME NEW c \in Content, NEW u \in 0..now, NEW m \in SUBSET {Grouped}, AddBegin(c, u, m)
      PROVE  Past'
  <2>1. PICK i \in NextIds(clips) : txNew' = {[id |-> i, content |-> c, used |-> u, marks |-> m]}
    BY <1>2 DEF AddBegin
  <2>2. [id |-> i, content |-> c, used |-> u, marks |-> m].used <= now
    BY <1>0
  <2> QED
    BY <1>0, <1>2, <2>1, <2>2 DEF AddBegin, Past, table
<1>3. ASSUME NEW r \in clips, NEW c \in Texts, SetTextBegin(r, c) PROVE Past'
  <2> DEFINE new == [r EXCEPT !.content = c]
  <2>1. new.used <= now
    BY <1>0, UsedFields DEF Past
  <2>2. clips' = clips /\ txNew' = {new} /\ now' = now
    BY <1>3 DEF SetTextBegin, table
  <2> HIDE DEF new
  <2> QED
    BY <1>0, <2>1, <2>2 DEF Past
<1>4. ASSUME NEW r \in clips, NEW m \in SUBSET Mark, SetMarks(r, m) PROVE Past'
  <2> DEFINE new == [r EXCEPT !.marks = m]
  <2>1. new.used <= now
    BY <1>0, UsedFields DEF Past
  <2>2. clips' = (clips \ {r}) \cup {new} /\ txNew' = txNew /\ now' = now
    BY <1>4 DEF SetMarks, tx
  <2> HIDE DEF new
  <2> QED
    BY <1>0, <2>1, <2>2 DEF Past
<1>5. ASSUME NEW r \in clips, Touch(r) PROVE Past'
  <2> DEFINE new == [r EXCEPT !.used = now]
  <2>1. new.used <= now
    BY <1>0, UsedFields
  <2>2. clips' = (clips \ {r}) \cup {new} /\ txNew' = txNew /\ now' = now
    BY <1>5 DEF Touch, tx
  <2> HIDE DEF new
  <2> QED
    BY <1>0, <2>1, <2>2 DEF Past
<1>6. ASSUME NEW cascade \in BOOLEAN, GroupDelete(cascade) PROVE Past'
  <2>1. \A r \in clips : [r EXCEPT !.marks = @ \ {Grouped}].used <= now
    BY <1>0, UsedFields DEF Past
  <2>2. \A r \in clips' : r.used <= now
    <3>1. CASE cascade
      BY <1>0, <1>6, <3>1 DEF GroupDelete, Past
    <3>2. CASE ~cascade
      BY <1>0, <1>6, <2>1, <3>2 DEF GroupDelete, Past
    <3> QED
      BY <3>1, <3>2
  <2> QED
    BY <1>0, <1>6, <2>2 DEF GroupDelete, Past, tx
<1>7. ASSUME clips' \subseteq clips \cup txNew, txNew' \subseteq txNew, now' \in {now, now + 1} PROVE Past'
  BY <1>0, <1>7 DEF Past, TypeOK, Row, Time
<1>8. ASSUME Step \/ Retention \/ Crash \/ Tick \/ Vacuum \/ UNCHANGED vars PROVE Past'
  <2>1. clips' \subseteq clips \cup txNew
    BY <1>8, KeptSubset DEF Step, PutPresent, PutTemp, PutRename, UnlinkOne, UnlinkUnsure, UnlinkBlind, SweepOne,
       SweepUnsure, SweepBlind, Rollback, Commit, Retention, Crash, Tick, Vacuum, vars, table
  <2>2. txNew' \subseteq txNew
    BY <1>8 DEF Step, PutPresent, PutTemp, PutRename, UnlinkOne, UnlinkUnsure, UnlinkBlind, SweepOne,
       SweepUnsure, SweepBlind, Rollback, Commit, Retention, Crash, Tick, Vacuum, vars, tx
  <2>3. now' \in {now, now + 1}
    BY <1>8 DEF Step, PutPresent, PutTemp, PutRename, UnlinkOne, UnlinkUnsure, UnlinkBlind, SweepOne,
       SweepUnsure, SweepBlind, Rollback, Commit, Retention, Crash, Tick, Vacuum, vars, table
  <2> QED
    BY <1>7, <2>1, <2>2, <2>3
<1>9. ASSUME NEW r \in clips, Delete(r) \/ \E s \in Slot : SetSlot(s, r) PROVE Past'
  BY <1>7, <1>9 DEF Delete, SetSlot, tx
<1> QED
  BY <1>1, <1>2, <1>3, <1>4, <1>5, <1>6, <1>8, <1>9 DEF Next, Request

\* An open transaction goes on being an insertion or an edit until it ends.
LEMMA ShapeStep == HistoryInv /\ [Next]_vars => (pc = "insert" => Insertion \/ Edition)'
<1> SUFFICES ASSUME HistoryInv, [Next]_vars, pc' = "insert" PROVE (Insertion \/ Edition)'
  OBVIOUS
<1> USE StoreAssumption
<1>0. TypeOK /\ TypeOK' /\ (pc = "insert" => Insertion \/ Edition)
  BY TypeStep DEF HistoryInv, StoreInv
<1>1. ASSUME NEW c \in Content, NEW u \in 0..now, NEW m \in SUBSET {Grouped}, AddBegin(c, u, m)
      PROVE  Insertion'
  BY <1>0, <1>1 DEF AddBegin, Insertion, TypeOK
<1>2. ASSUME NEW r \in clips, NEW c \in Texts, SetTextBegin(r, c) PROVE Edition'
  BY <1>2 DEF SetTextBegin, Edition, table
<1>3. ASSUME pc = "insert", UNCHANGED <<clips, tx>> PROVE (Insertion \/ Edition)'
  BY <1>0, <1>3 DEF Insertion, Edition, tx
<1>4. ASSUME NEW where \in {"unlink", "sweep"}, NEW names, Loop(where, names) PROVE FALSE
  BY <1>4, LoopPc
<1>5. CASE Step
  BY <1>3, <1>4, <1>5 DEF Step, PutPresent, PutTemp, PutRename, UnlinkOne, UnlinkUnsure, UnlinkBlind, SweepOne,
     SweepUnsure, SweepBlind, Rollback, Commit, table, tx
<1>6. ASSUME pc = "idle", pc' = pc PROVE FALSE
  BY <1>6
<1>7. CASE Retention \/ Crash \/ Tick \/ Vacuum
  BY <1>4, <1>6, <1>7 DEF Retention, Crash, Tick, Vacuum, SweepBegin
<1>8. CASE UNCHANGED vars
  BY <1>3, <1>8 DEF vars, tx
<1>9. ASSUME NEW c \in Content, NEW u \in 0..now, AddDup(c, u) PROVE FALSE
  BY <1>6, <1>9 DEF AddDup
<1>10. ASSUME NEW r \in clips, Delete(r) \/ Touch(r) \/ (\E m \in SUBSET Mark : SetMarks(r, m))
                               \/ (\E s \in Slot : SetSlot(s, r))
       PROVE  FALSE
  BY <1>4, <1>6, <1>10 DEF Delete, Touch, SetMarks, SetSlot
<1>11. ASSUME NEW cascade \in BOOLEAN, GroupDelete(cascade) PROVE FALSE
  BY <1>4, <1>6, <1>11 DEF GroupDelete, SweepBegin
<1> QED
  BY <1>1, <1>2, <1>5, <1>7, <1>8, <1>9, <1>10, <1>11 DEF Next, Request

\* The strengthened invariant is kept by every step.
LEMMA HistoryInvStep == HistoryInv /\ [Next]_vars => HistoryInv'
<1> SUFFICES ASSUME HistoryInv, [Next]_vars PROVE HistoryInv'
  OBVIOUS
<1>1. StoreInv'
  BY InvStep DEF HistoryInv
<1> QED
  BY <1>1, PastStep, ShapeStep DEF HistoryInv

-----------------------------------------------------------------------------
(* The refinement. *)

\* The history starts empty, with empty buffers.
LEMMA RefineInit == Init => H!Init
  BY DEF Init, H!Init, Unreadable

\* A clip is unreadable when a payload of it is missing.
LEMMA Missing ==
  /\ \A i : (i \in Unreadable) <=> (\E r \in clips : r.id = i /\ ~(BlobsOf[r.content] \subseteq blobs))
  /\ \A i : (i \in Unreadable') <=> (\E r \in clips' : r.id = i /\ ~(BlobsOf[r.content] \subseteq blobs'))
  BY DEF Unreadable

\* A row that keeps its id and content is as readable as before.
LEMMA SameReadable ==
  ASSUME NEW r \in clips, NEW new, new.id = r.id, new.content = r.content,
         clips' = (clips \ {r}) \cup {new}, UNCHANGED blobs
  PROVE  Unreadable' = Unreadable
<1>1. ASSUME NEW i, i \in Unreadable PROVE i \in Unreadable'
  BY <1>1, Missing
<1>2. ASSUME NEW i, i \in Unreadable' PROVE i \in Unreadable
  BY <1>2, Missing
<1> QED
  BY <1>1, <1>2

\* Removed rows take their ids along, which no other row has.
LEMMA GoneReadable ==
  ASSUME UniqueContent, NEW gone \in SUBSET clips, clips' = clips \ gone, UNCHANGED blobs
  PROVE  Unreadable' = Unreadable \ H!Ids(gone)
<1>1. ASSUME NEW i, i \in Unreadable, i \notin H!Ids(gone) PROVE i \in Unreadable'
  BY <1>1, Missing DEF H!Ids
<1>2. ASSUME NEW i, i \in Unreadable' PROVE i \in Unreadable /\ i \notin H!Ids(gone)
  BY <1>2, Missing DEF H!Ids, UniqueContent
<1> QED
  BY <1>1, <1>2

\* Steps on files: without tables, the history changes by what is lost or regained.
LEMMA FilesReadable ==
  ASSUME UNCHANGED <<clips, buffers>>, blobs \subseteq blobs' \/ (Faults /\ blobs' \subseteq blobs)
  PROVE  H!Next \/ UNCHANGED H!hvars
<1>1. Unreadable' \subseteq H!Ids(clips) /\ Unreadable \subseteq H!Ids(clips)
  BY Missing DEF H!Ids
<1>2. CASE blobs \subseteq blobs'
  <2>1. Unreadable' \subseteq Unreadable
    BY <1>2, Missing
  <2>2. Unreadable' = Unreadable \ (Unreadable \ Unreadable') /\ Unreadable \ Unreadable' \in SUBSET H!Ids(clips)
    BY <1>1, <2>1
  <2> QED
    BY <2>2 DEF H!Next, H!Regain
<1>3. CASE Faults /\ blobs' \subseteq blobs
  <2>1. Unreadable \subseteq Unreadable'
    BY <1>3, Missing
  <2>2. Unreadable' = Unreadable \cup Unreadable' /\ Unreadable' \in SUBSET H!Ids(clips)
    BY <1>1, <2>1
  <2> QED
    BY <1>3, <2>2 DEF H!Next, H!Lose
<1> QED
  BY <1>2, <1>3

\* A payload that no row names makes no difference.
LEMMA UnnamedReadable ==
  ASSUME NEW b, blobs' = IF Referenced(clips, b) THEN blobs ELSE blobs \ {b}, UNCHANGED clips
  PROVE  Unreadable' = Unreadable
<1>1. ASSUME NEW r \in clips PROVE BlobsOf[r.content] \subseteq blobs <=> BlobsOf[r.content] \subseteq blobs'
  BY DEF Referenced
<1> QED
  BY <1>1, Missing

\* COMMIT records a clip that can be loaded, or gives one a text that can.
LEMMA CommitShows ==
  ASSUME HistoryInv, Commit
  PROVE  H!Next
<1>1. TypeOK /\ UniqueContent /\ Pending /\ (Insertion \/ Edition)
  BY DEF HistoryInv, StoreInv, Commit, TxOK
<1>2. /\ clips' = (clips \ txOld) \cup txNew /\ buffers' = buffers /\ blobs' = blobs
      /\ \A r \in txNew : BlobsOf[r.content] \subseteq blobs
  BY <1>1 DEF Commit, Pending, files
<1>3. CASE Insertion
  <2>1. PICK new \in Row : txNew = {new} /\ txOld = {}
    BY <1>3 DEF Insertion
  <2>2. \A r \in clips : r.content # new.content /\ r.id # new.id
    BY <1>1, <2>1 DEF Pending
  <2>3. Unreadable' = Unreadable
    BY <1>2, <2>1, Missing
  <2>4. H!Record(new)
    BY <1>2, <2>1, <2>2, <2>3 DEF H!Record
  <2>5. new \in H!Clip
    BY DEF H!Clip, Row
  <2> QED
    BY <2>4, <2>5 DEF H!Next
<1>4. CASE Edition
  <2>1. PICK r \in clips, c \in Content : txOld = {r} /\ txNew = {[r EXCEPT !.content = c]}
    BY <1>4 DEF Edition
  <2> DEFINE new == [r EXCEPT !.content = c]
  <2>2. new.content = c /\ new.id = r.id
    BY <1>1, RowFields
  <2>3. clips' = (clips \ {r}) \cup {new} /\ BlobsOf[new.content] \subseteq blobs
    BY <1>2, <2>1
  <2> HIDE DEF new
  <2>4. \A q \in clips \ {r} : q.content # c /\ q.id # r.id
    BY <1>1, <2>1, <2>2 DEF Pending, UniqueContent, new
  <2>5. ASSUME NEW i, i \in Unreadable' PROVE i \in Unreadable \ {r.id}
    BY <1>2, <2>2, <2>3, <2>4, <2>5, Missing
  <2>6. ASSUME NEW i, i \in Unreadable \ {r.id} PROVE i \in Unreadable'
    BY <1>2, <2>3, <2>6, Missing
  <2>7. Unreadable' = Unreadable \ {r.id}
    BY <2>5, <2>6
  <2>8. H!Edit(r, c)
    BY <1>2, <2>3, <2>4, <2>7 DEF H!Edit, H!Others, new
  <2> QED
    BY <2>8 DEF H!Next
<1> QED
  BY <1>1, <1>3, <1>4

\* Ungrouped members keep ids and contents.
LEMMA UngroupShows ==
  ASSUME TypeOK, GroupDelete(FALSE)
  PROVE  H!Ungroup
<1> DEFINE members == {r \in clips : Grouped \in r.marks}
           plain(r) == IF r \in members THEN [r EXCEPT !.marks = @ \ {Grouped}] ELSE r
<1>1. clips' = {plain(r) : r \in clips}
  BY DEF GroupDelete
<1>2. \A r \in clips : plain(r).id = r.id /\ plain(r).content = r.content
  BY RowFields
<1>3. blobs' = blobs /\ buffers' = buffers
  BY DEF GroupDelete, files
<1> HIDE DEF plain
<1>4. ASSUME NEW i, i \in Unreadable PROVE i \in Unreadable'
  <2>1. PICK r \in clips : r.id = i /\ ~(BlobsOf[r.content] \subseteq blobs)
    BY <1>4, Missing
  <2>2. plain(r) \in clips'
    BY <1>1
  <2> QED
    BY <1>2, <1>3, <2>1, <2>2, Missing
<1>5. ASSUME NEW i, i \in Unreadable' PROVE i \in Unreadable
  BY <1>1, <1>2, <1>3, <1>5, Missing
<1>6. Unreadable' = Unreadable
  BY <1>4, <1>5
<1>7. clips' = (clips \ members) \cup {[r EXCEPT !.marks = @ \ {Grouped}] : r \in members}
  BY DEF GroupDelete
<1> QED
  BY <1>3, <1>6, <1>7 DEF H!Ungroup, H!Members

\* Each step is one operation of the history, or none of it shows: COMMIT records or
\* edits, a failed query loses, a payload put back regains; everything else on files and
\* transactions is unseen, as is a death.
LEMMA RefineStep == HistoryInv /\ [Next]_vars => [H!Next]_(H!hvars)
<1> SUFFICES ASSUME HistoryInv, [Next]_vars PROVE H!Next \/ UNCHANGED H!hvars
  OBVIOUS
<1> USE StoreAssumption
<1>0. TypeOK /\ Past /\ UniqueContent
  BY DEF HistoryInv, StoreInv
<1>1. ASSUME UNCHANGED <<clips, buffers>>, Unreadable' = Unreadable PROVE UNCHANGED H!hvars
  BY <1>1 DEF H!hvars
<1>2. ASSUME UNCHANGED <<clips, buffers, blobs>> PROVE UNCHANGED H!hvars
  <2>1. Unreadable' = Unreadable
    BY <1>2, Missing
  <2> QED
    BY <1>1, <1>2, <2>1
<1>3. ASSUME NEW r \in clips, NEW u \in Time, u >= r.used,
             clips' = (clips \ {r}) \cup {[r EXCEPT !.used = u]}, UNCHANGED <<buffers, blobs>>
      PROVE  H!Next
  <2>1. Unreadable' = Unreadable
    BY <1>0, <1>3, RowFields, SameReadable
  <2> QED
    BY <1>3, <2>1 DEF H!Next, H!Reuse, H!Replace, H!Others
<1>4. ASSUME NEW c \in Content, NEW u \in 0..now, AddDup(c, u) PROVE H!Next
  <2>1. PICK r \in clips : clips' = (clips \ {r}) \cup {[r EXCEPT !.used = IF u > @ THEN u ELSE @]}
    BY <1>4 DEF AddDup, Holding
  <2> DEFINE v == IF u > r.used THEN u ELSE r.used
  <2>2. v \in Time /\ v >= r.used /\ [r EXCEPT !.used = IF u > @ THEN u ELSE @] = [r EXCEPT !.used = v]
    BY <1>0, RowTyped DEF TypeOK, Time
  <2> HIDE DEF v
  <2> QED
    BY <1>3, <1>4, <2>1, <2>2 DEF AddDup, files
<1>5. ASSUME NEW r \in clips, Touch(r) PROVE H!Next
  <2>1. now \in Time /\ now >= r.used
    BY <1>0, RowTyped DEF TypeOK, Time, Past
  <2> QED
    BY <1>3, <1>5, <2>1 DEF Touch, files
<1>6. ASSUME NEW r \in clips, NEW m \in SUBSET Mark, SetMarks(r, m) PROVE H!Next
  <2>1. Unreadable' = Unreadable
    BY <1>0, <1>6, RowFields, SameReadable DEF SetMarks, files
  <2> QED
    BY <1>6, <2>1 DEF SetMarks, H!Next, H!MarkAs, H!Replace, H!Others
<1>7. ASSUME NEW r \in clips, NEW s \in Slot, SetSlot(s, r) PROVE H!Next
  <2>1. Unreadable' = Unreadable
    BY <1>7, Missing DEF SetSlot, files
  <2> QED
    BY <1>7, <2>1 DEF SetSlot, H!Next, H!Assign
<1>8. ASSUME NEW gone \in SUBSET clips, clips' = clips \ gone, Forget(gone), UNCHANGED blobs
      PROVE  H!Remove(gone)
  <2>1. Unreadable' = Unreadable \ H!Ids(gone)
    BY <1>0, <1>8, GoneReadable
  <2> QED
    BY <1>8, <2>1 DEF Forget, H!Remove
<1>9. ASSUME NEW r \in clips, Delete(r) PROVE H!Next
  BY <1>8, <1>9 DEF Delete, files, H!Next, H!Discard
<1>10. ASSUME NEW cascade \in BOOLEAN, GroupDelete(cascade) PROVE H!Next
  <2>1. CASE cascade = TRUE
    BY <1>8, <1>10, <2>1 DEF GroupDelete, files, H!Next, H!DiscardGroup, H!Members
  <2>2. CASE cascade = FALSE
    BY <1>0, <1>10, <2>2, UngroupShows DEF H!Next
  <2> QED
    BY <2>1, <2>2
<1>11. CASE Retention
  <2> DEFINE gone == clips \ Kept
  <2>1. gone \in SUBSET clips /\ clips' = clips \ gone
    BY <1>11, KeptSubset DEF Retention
  <2>2. \A r \in gone : r.marks = {} /\ \A s \in Slot : buffers[s] # r.id
    BY KeptSpares DEF Expendable
  <2>3. Forget(gone) /\ UNCHANGED blobs
    BY <1>11 DEF Retention, files
  <2> HIDE DEF gone
  <2>4. H!Expire(gone)
    BY <1>8, <2>1, <2>2, <2>3 DEF H!Expire
  <2> QED
    BY <2>1, <2>4 DEF H!Next
<1>12. CASE Commit
  BY <1>12, CommitShows
<1>13. ASSUME NEW b \in Blob, UnlinkOne(b) \/ SweepOne(b) PROVE UNCHANGED H!hvars
  <2>1. UNCHANGED <<clips, buffers>>
    BY <1>13 DEF UnlinkOne, SweepOne, table
  <2>2. Unreadable' = Unreadable
    BY <1>13, <2>1, UnnamedReadable DEF UnlinkOne, SweepOne
  <2> QED
    BY <1>1, <2>1, <2>2
<1>14. ASSUME NEW b \in Blob, UnlinkBlind(b) \/ SweepBlind(b) \/ PutRename(b) PROVE H!Next \/ UNCHANGED H!hvars
  BY <1>14, FilesReadable DEF UnlinkBlind, SweepBlind, PutRename, Blindly, table
<1>15. ASSUME NEW b \in Blob, PutPresent(b) \/ PutTemp(b) \/ UnlinkUnsure(b) \/ SweepUnsure(b)
       PROVE  UNCHANGED <<clips, buffers, blobs>>
  BY <1>15 DEF PutPresent, PutTemp, UnlinkUnsure, SweepUnsure, table, files
<1>16. ASSUME NEW c \in Content, NEW u \in 0..now, NEW m \in SUBSET {Grouped}, AddBegin(c, u, m)
       PROVE  UNCHANGED <<clips, buffers, blobs>>
  BY <1>16 DEF AddBegin, table, files
<1>17. ASSUME NEW r \in clips, NEW c \in Texts, SetTextBegin(r, c) PROVE UNCHANGED <<clips, buffers, blobs>>
  BY <1>17 DEF SetTextBegin, table, files
<1>18. ASSUME Rollback \/ Vacuum \/ Crash \/ Tick \/ UNCHANGED vars PROVE UNCHANGED <<clips, buffers, blobs>>
  BY <1>18 DEF Rollback, Vacuum, Crash, Tick, vars, table, files
<1> QED
  BY <1>2, <1>4, <1>5, <1>6, <1>7, <1>9, <1>10, <1>11, <1>12, <1>13, <1>14, <1>15, <1>16, <1>17, <1>18
     DEF Next, Request, Step

\* The store implements the history: whatever fails and wherever the daemon dies, a
\* client sees each add, edit, deletion and expiry (db_add_clip, db_clip_set_text,
\* db_delete, db_retention) as a whole or not at all, and clips it can list but not load
\* come about by a failure only (the step of dbi_blob_referenced).
THEOREM StoreImplements == Spec => ImplementsHistory
<1>1. Init => H!Init
  BY RefineInit
<1>2. HistoryInv /\ [Next]_vars => [H!Next]_(H!hvars)
  BY RefineStep
<1> QED
  BY <1>1, <1>2, HistoryInit, HistoryInvStep, PTL DEF Spec, ImplementsHistory, H!Spec
=============================================================================

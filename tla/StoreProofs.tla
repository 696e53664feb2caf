---------------------------- MODULE StoreProofs ----------------------------
(***************************************************************************)
(* The safety of the clip store, for every set of contents and payloads,   *)
(* every way contents share payloads and every setting of retention: that  *)
(* nothing dangles, and what retention removes and a sweep leaves.         *)
(***************************************************************************)
EXTENDS Store, TLAPS, FiniteSetTheorems, WellFoundedInduction

(* What an open transaction may still rely on.  None of the invariants is  *)
(* inductive without it: COMMIT makes txNew visible, so while it is open   *)
(* every payload of txNew must be on disk or still to be written, and      *)
(* nothing may come to clash with it.                                      *)
Pending ==
  /\ txOld \subseteq clips
  /\ \A r \in txNew : BlobsOf[r.content] \subseteq blobs \cup todo
  /\ \A q \in txNew, r \in clips \ txOld : q.content # r.content /\ q.id # r.id
  /\ \A q, r \in txNew : q = r
  /\ \A r \in txOld : \E q \in txNew : q.id = r.id

TxOK ==
  /\ pc = "insert" => Pending
  /\ pc # "insert" => txOld = {} /\ txNew = {}

\* A fresh database and an empty blob directory are of the type (db_open, schema.c).
LEMMA TypeInit == Init => TypeOK
  BY StoreAssumption DEF Init, TypeOK, Id, Time

\* Retention only ever narrows the table.
LEMMA KeptSubset == Kept \subseteq clips
  BY DEF Kept

\* An update of one row keeps the table a set of rows.
LEMMA RowTyped ==
  ASSUME TypeOK, NEW r \in clips
  PROVE  /\ r \in Row
         /\ r.id \in Id /\ r.content \in Content /\ r.used \in Time /\ r.marks \in SUBSET Mark
         /\ \A u \in Time : [r EXCEPT !.used = u] \in Row
         /\ \A m \in SUBSET Mark : [r EXCEPT !.marks = m] \in Row
         /\ \A c \in Content : [r EXCEPT !.content = c] \in Row
  BY DEF TypeOK, Row

\* ON DELETE CASCADE empties buffers, and leaves every buffer a row id or empty.
LEMMA ForgetTyped ==
  ASSUME TypeOK, NEW gone, Forget(gone)
  PROVE  buffers' \in [Slot -> Id \cup {0}]
  BY DEF Forget, TypeOK

\* A loop over file names runs over names of payloads and ends in one of its states.
LEMMA LoopTyped ==
  ASSUME NEW names \in SUBSET Blob, NEW where \in {"unlink", "sweep"}, Loop(where, names)
  PROVE  todo' \subseteq Blob /\ pc' \in {"idle", "insert", "unlink", "sweep"}
  BY DEF Loop

\* Every request, every file operation, a death and a tick of the clock keep the type.
LEMMA TypeStep == TypeOK /\ [Next]_vars => TypeOK'
<1> SUFFICES ASSUME TypeOK, [Next]_vars PROVE TypeOK'
  OBVIOUS
<1> USE StoreAssumption
<1>1. ASSUME NEW c \in Content, NEW u \in 0..now, AddDup(c, u) PROVE TypeOK'
  <2>1. u \in Time
    BY DEF TypeOK, Time
  <2>2. PICK r \in clips : clips' = (clips \ {r}) \cup {[r EXCEPT !.used = IF u > @ THEN u ELSE @]}
    BY <1>1 DEF AddDup, Holding
  <2>3. (IF u > r.used THEN u ELSE r.used) \in Time
    BY <2>1, RowTyped
  <2>4. [r EXCEPT !.used = IF u > @ THEN u ELSE @] \in Row
    BY <2>3, RowTyped
  <2> QED
    BY <1>1, <2>2, <2>4 DEF AddDup, TypeOK, files, tx
<1>2. ASSUME NEW c \in Content, NEW u \in 0..now, NEW m \in SUBSET {Grouped}, AddBegin(c, u, m)
      PROVE  TypeOK'
  <2>1. u \in Time /\ m \in SUBSET Mark
    BY DEF TypeOK, Time, Mark
  <2>2. PICK i \in Id : txNew' = {[id |-> i, content |-> c, used |-> u, marks |-> m]}
    BY <1>2 DEF AddBegin, NextIds
  <2>3. txNew' \subseteq Row
    BY <2>1, <2>2 DEF Row
  <2>4. todo' \subseteq Blob
    BY <1>2 DEF AddBegin
  <2> QED
    BY <1>2, <2>3, <2>4 DEF AddBegin, TypeOK, table, files
<1>3. ASSUME NEW r \in clips, NEW c \in Texts, SetTextBegin(r, c) PROVE TypeOK'
  <2>1. c \in Content
    OBVIOUS
  <2>2. [r EXCEPT !.content = c] \in Row /\ r \in Row
    BY <2>1, RowTyped
  <2> QED
    BY <1>3, <2>1, <2>2 DEF SetTextBegin, TypeOK, table, files
<1>4. ASSUME NEW r \in clips, NEW m \in SUBSET Mark, SetMarks(r, m) PROVE TypeOK'
  BY <1>4, RowTyped DEF SetMarks, TypeOK, files, tx
<1>5. ASSUME NEW r \in clips, Delete(r) PROVE TypeOK'
  <2>1. BlobsOf[r.content] \in SUBSET Blob
    BY RowTyped
  <2>2. todo' \subseteq Blob /\ pc' \in {"idle", "insert", "unlink", "sweep"}
    BY <1>5, <2>1, LoopTyped DEF Delete
  <2>3. buffers' \in [Slot -> Id \cup {0}]
    BY <1>5, ForgetTyped DEF Delete
  <2> QED
    BY <1>5, <2>2, <2>3 DEF Delete, TypeOK, files, tx
<1>6. ASSUME NEW r \in clips, Touch(r) PROVE TypeOK'
  <2>1. [r EXCEPT !.used = now] \in Row
    BY RowTyped DEF TypeOK
  <2> QED
    BY <1>6, <2>1 DEF Touch, TypeOK, files, tx
<1>7. ASSUME NEW r \in clips, NEW s \in Slot, SetSlot(s, r) PROVE TypeOK'
  BY <1>7, RowTyped DEF SetSlot, TypeOK, files, tx
<1>8. CASE Vacuum
  <2>1. todo' \subseteq Blob /\ pc' \in {"idle", "insert", "unlink", "sweep"} /\ unsure' \subseteq Blob
    BY <1>8, LoopTyped DEF Vacuum, SweepBegin, TypeOK
  <2> QED
    BY <1>8, <2>1 DEF Vacuum, TypeOK, table, files, tx
<1>9. ASSUME NEW cascade \in BOOLEAN, GroupDelete(cascade) PROVE TypeOK'
  <2> DEFINE members == {r \in clips : Grouped \in r.marks}
  <2>1. CASE cascade
    <3>1. clips' \subseteq Row
      BY <1>9, <2>1 DEF GroupDelete, TypeOK
    <3>2. buffers' \in [Slot -> Id \cup {0}]
      BY <1>9, <2>1, ForgetTyped DEF GroupDelete
    <3>3. todo' \subseteq Blob /\ pc' \in {"idle", "insert", "unlink", "sweep"} /\ unsure' \subseteq Blob
      BY <1>9, <2>1, LoopTyped DEF GroupDelete, SweepBegin, TypeOK
    <3> QED
      BY <1>9, <3>1, <3>2, <3>3 DEF GroupDelete, TypeOK, files, tx
  <2>2. CASE ~cascade
    <3>1. \A r \in members : [r EXCEPT !.marks = @ \ {Grouped}] \in Row
      <4> TAKE r \in members
      <4>1. r.marks \ {Grouped} \in SUBSET Mark
        BY RowTyped
      <4> QED
        BY <4>1, RowTyped
    <3>2. clips' \subseteq Row
      BY <1>9, <2>2, <3>1 DEF GroupDelete, TypeOK
    <3> QED
      BY <1>9, <2>2, <3>2 DEF GroupDelete, TypeOK, files, tx
  <2> QED
    BY <2>1, <2>2
<1>10. ASSUME NEW b \in Blob, PutPresent(b) \/ PutTemp(b) \/ PutRename(b) PROVE TypeOK'
  BY <1>10 DEF PutPresent, PutTemp, PutRename, TypeOK, table, files, tx
<1>11. ASSUME NEW b \in Blob, UnlinkOne(b) \/ UnlinkUnsure(b) \/ UnlinkBlind(b) PROVE TypeOK'
  <2>1. todo' \subseteq Blob /\ pc' \in {"idle", "insert", "unlink", "sweep"}
    BY <1>11, LoopTyped DEF UnlinkOne, UnlinkUnsure, UnlinkBlind, Blindly, TypeOK
  <2> QED
    BY <1>11, <2>1 DEF UnlinkOne, UnlinkUnsure, UnlinkBlind, Blindly, TypeOK, table, files, tx
<1>12. ASSUME NEW b \in Blob, SweepOne(b) \/ SweepUnsure(b) \/ SweepBlind(b) PROVE TypeOK'
  <2>1. todo' \subseteq Blob /\ pc' \in {"idle", "insert", "unlink", "sweep"}
    BY <1>12, LoopTyped DEF SweepOne, SweepUnsure, SweepBlind, Blindly, TypeOK
  <2> QED
    BY <1>12, <2>1 DEF SweepOne, SweepUnsure, SweepBlind, Blindly, TypeOK, table, tx
<1>13. CASE Commit
  <2>1. UNION {BlobsOf[r.content] : r \in txOld} \in SUBSET Blob
    BY DEF TypeOK, Row
  <2>2. todo' \subseteq Blob /\ pc' \in {"idle", "insert", "unlink", "sweep"}
    BY <1>13, <2>1, LoopTyped DEF Commit
  <2> QED
    BY <1>13, <2>2 DEF Commit, TypeOK, files
<1>14. CASE Rollback \/ Crash
  BY <1>14 DEF Rollback, Crash, TypeOK, table
<1>15. CASE Retention
  <2>1. clips' \subseteq Row
    BY <1>15, KeptSubset DEF Retention, TypeOK
  <2>2. buffers' \in [Slot -> Id \cup {0}]
    BY <1>15, ForgetTyped DEF Retention
  <2>3. todo' \subseteq Blob /\ pc' \in {"idle", "insert", "unlink", "sweep"} /\ unsure' \subseteq Blob
    BY <1>15, LoopTyped DEF Retention, SweepBegin, TypeOK
  <2> QED
    BY <1>15, <2>1, <2>2, <2>3 DEF Retention, TypeOK, files, tx
<1>16. CASE Tick
  BY <1>16 DEF Tick, TypeOK, Time, files, tx
<1>17. CASE UNCHANGED vars
  BY <1>17 DEF vars, TypeOK
<1> QED
  BY <1>1, <1>2, <1>3, <1>4, <1>5, <1>6, <1>7, <1>8, <1>9, <1>10, <1>11, <1>12, <1>13,
     <1>14, <1>15, <1>16, <1>17 DEF Next, Step, Request

\* The tables and the file sets keep their types, whatever operation is interrupted
\* where (db.c, db_edit.c, blob.c).
THEOREM StoreTyped == Spec => []TypeOK
  BY TypeInit, TypeStep, PTL DEF Spec

-----------------------------------------------------------------------------
(* The invariant: what holds of the committed tables, and TxOK *)

StoreInv == TypeOK /\ NoDanglingBlob /\ UniqueContent /\ BuffersLive /\ TxOK

\* What an update leaves of a row.
LEMMA RowFields ==
  ASSUME TypeOK, NEW r \in clips
  PROVE  /\ \A u : [r EXCEPT !.used = u].id = r.id /\ [r EXCEPT !.used = u].content = r.content
         /\ \A m : [r EXCEPT !.marks = m].id = r.id /\ [r EXCEPT !.marks = m].content = r.content
         /\ \A c : [r EXCEPT !.content = c].id = r.id /\ [r EXCEPT !.content = c].content = c
  BY DEF TypeOK, Row

\* Replacing a row by one with its id and content disturbs no invariant of the table.
LEMMA SameRow ==
  ASSUME NoDanglingBlob, UniqueContent, BuffersLive,
         NEW r \in clips, NEW new, new.id = r.id, new.content = r.content,
         clips' = (clips \ {r}) \cup {new}, UNCHANGED <<blobs, lost, buffers>>
  PROVE  NoDanglingBlob' /\ UniqueContent' /\ BuffersLive'
<1>1. NoDanglingBlob'
  BY DEF NoDanglingBlob
<1>2. UniqueContent'
  BY DEF UniqueContent
<1>3. BuffersLive'
  BY DEF BuffersLive
<1> QED
  BY <1>1, <1>2, <1>3

\* Removing rows together with their copy buffers disturbs none either.
LEMMA RowsGone ==
  ASSUME TypeOK, NoDanglingBlob, UniqueContent, BuffersLive,
         NEW gone, clips' = clips \ gone, Forget(gone), UNCHANGED <<blobs, lost>>
  PROVE  NoDanglingBlob' /\ UniqueContent' /\ BuffersLive'
<1>1. NoDanglingBlob'
  BY DEF NoDanglingBlob
<1>2. UniqueContent'
  BY DEF UniqueContent
<1>3. BuffersLive'
  BY DEF BuffersLive, Forget
<1> QED
  BY <1>1, <1>2, <1>3

\* Payload files may go as long as no committed row names them.
LEMMA FileGone ==
  ASSUME NoDanglingBlob, UniqueContent, BuffersLive, NEW b,
         blobs' = IF Referenced(clips, b) THEN blobs ELSE blobs \ {b},
         UNCHANGED <<clips, buffers, lost>>
  PROVE  NoDanglingBlob' /\ UniqueContent' /\ BuffersLive'
<1>1. NoDanglingBlob'
  BY DEF NoDanglingBlob, Referenced
<1>2. UniqueContent' /\ BuffersLive'
  BY DEF UniqueContent, BuffersLive
<1> QED
  BY <1>1, <1>2

\* What goes unasked is accounted for.
LEMMA FileLost ==
  ASSUME NoDanglingBlob, UniqueContent, BuffersLive, NEW b, Blindly(b), UNCHANGED <<clips, buffers>>
  PROVE  NoDanglingBlob' /\ UniqueContent' /\ BuffersLive'
<1>1. NoDanglingBlob'
  BY DEF NoDanglingBlob, Blindly, Referenced
<1>2. UniqueContent' /\ BuffersLive'
  BY DEF UniqueContent, BuffersLive
<1> QED
  BY <1>1, <1>2

\* A step that leaves the tables alone and only adds files.
LEMMA TableKept ==
  ASSUME NoDanglingBlob, UniqueContent, BuffersLive,
         blobs \cup lost \subseteq blobs' \cup lost', UNCHANGED <<clips, buffers>>
  PROVE  NoDanglingBlob' /\ UniqueContent' /\ BuffersLive'
  BY DEF NoDanglingBlob, UniqueContent, BuffersLive

\* COMMIT is where the open transaction's obligations are called in.
LEMMA CommitKeeps ==
  ASSUME StoreInv, Commit
  PROVE  NoDanglingBlob' /\ UniqueContent' /\ BuffersLive'
<1>1. Pending
  BY DEF StoreInv, TxOK, Commit
<1>2. NoDanglingBlob'
  BY <1>1 DEF StoreInv, Pending, Commit, NoDanglingBlob, files
<1>3. UniqueContent'
  BY <1>1 DEF StoreInv, Pending, Commit, UniqueContent
<1>4. BuffersLive'
  <2> SUFFICES ASSUME NEW s \in Slot, buffers[s] # 0
               PROVE  \E q \in clips' : q.id = buffers[s]
    BY DEF BuffersLive, Commit
  <2>1. PICK r \in clips : r.id = buffers[s]
    BY DEF StoreInv, BuffersLive
  <2>2. CASE r \in txOld
    BY <1>1, <2>1, <2>2 DEF Pending, Commit
  <2>3. CASE r \notin txOld
    BY <2>1, <2>3 DEF Commit
  <2> QED
    BY <2>2, <2>3
<1> QED
  BY <1>2, <1>3, <1>4

\* Dropping the group turns each member into the same clip without the mark.
LEMMA UngroupKeeps ==
  ASSUME StoreInv, GroupDelete(FALSE)
  PROVE  NoDanglingBlob' /\ UniqueContent' /\ BuffersLive'
<1> DEFINE members == {r \in clips : Grouped \in r.marks}
           plain(r) == IF r \in members THEN [r EXCEPT !.marks = @ \ {Grouped}] ELSE r
<1>1. clips' = {plain(r) : r \in clips}
  BY DEF GroupDelete
<1>2. \A r \in clips : plain(r).id = r.id /\ plain(r).content = r.content
  BY RowFields DEF StoreInv
<1>3. blobs' = blobs /\ lost' = lost /\ buffers' = buffers
  BY DEF GroupDelete, files
<1> HIDE DEF plain
<1>4. NoDanglingBlob'
  BY <1>1, <1>2, <1>3 DEF StoreInv, NoDanglingBlob
<1>5. UniqueContent'
  BY <1>1, <1>2 DEF StoreInv, UniqueContent
<1>6. BuffersLive'
  BY <1>1, <1>2, <1>3 DEF StoreInv, BuffersLive
<1> QED
  BY <1>4, <1>5, <1>6

\* Requests start from an idle daemon; those that end idle, or in a loop over files,
\* leave no transaction open.
LEMMA TxClosed ==
  ASSUME TxOK, pc # "insert", UNCHANGED tx, pc' # "insert"
  PROVE  TxOK'
  BY DEF TxOK, tx

\* Removing files after COMMIT never reopens a transaction (db_delete, db_blob_gc).
LEMMA LoopPc ==
  ASSUME NEW where \in {"unlink", "sweep"}, NEW names, Loop(where, names)
  PROVE  pc' # "insert"
  BY DEF Loop

\* The fresh database satisfies the inductive invariant.
LEMMA InvInit == Init => StoreInv
<1> SUFFICES ASSUME Init PROVE StoreInv
  OBVIOUS
<1>1. TypeOK
  BY TypeInit
<1>2. NoDanglingBlob /\ UniqueContent /\ BuffersLive /\ TxOK
  BY DEF Init, NoDanglingBlob, UniqueContent, BuffersLive, TxOK
<1> QED
  BY <1>1, <1>2 DEF StoreInv

\* Every step keeps the inductive invariant: one case per action of Next, each with the
\* conjuncts that the action can disturb.
LEMMA InvStep == StoreInv /\ [Next]_vars => StoreInv'
<1> SUFFICES ASSUME StoreInv, [Next]_vars PROVE StoreInv'
  OBVIOUS
<1> DEFINE Goal == NoDanglingBlob' /\ UniqueContent' /\ BuffersLive' /\ TxOK'
<1>0. TypeOK /\ NoDanglingBlob /\ UniqueContent /\ BuffersLive /\ TxOK /\ TypeOK'
  BY TypeStep DEF StoreInv
<1>1. ASSUME NEW c \in Content, NEW u \in 0..now, AddDup(c, u) PROVE Goal
  <2>1. PICK r \in clips : clips' = (clips \ {r}) \cup {[r EXCEPT !.used = IF u > @ THEN u ELSE @]}
    BY <1>1 DEF AddDup, Holding
  <2>2. NoDanglingBlob' /\ UniqueContent' /\ BuffersLive'
    BY <1>0, <1>1, <2>1, RowFields, SameRow DEF AddDup, files
  <2>3. TxOK'
    BY <1>0, <1>1, TxClosed DEF AddDup, tx
  <2> QED
    BY <2>2, <2>3
<1>2. ASSUME NEW c \in Content, NEW u \in 0..now, NEW m \in SUBSET {Grouped}, AddBegin(c, u, m)
      PROVE  Goal
  <2>1. NoDanglingBlob' /\ UniqueContent' /\ BuffersLive'
    BY <1>0, <1>2, TableKept DEF AddBegin, table, files
  <2>2. PICK i \in NextIds(clips) : txNew' = {[id |-> i, content |-> c, used |-> u, marks |-> m]}
    BY <1>2 DEF AddBegin
  <2>3. \A r \in clips : r.id # i /\ r.content # c
    <3>1. \A r \in clips : r.id < i /\ r.id \in Int
      BY <1>0, RowTyped DEF NextIds, Id
    <3>2. i \in Int
      BY DEF NextIds, Id
    <3> QED
      BY <1>2, <3>1, <3>2 DEF AddBegin, Holding
  <2> DEFINE new == [id |-> i, content |-> c, used |-> u, marks |-> m]
  <2>4. new.id = i /\ new.content = c
    OBVIOUS
  <2>5. txNew' = {new} /\ txOld' = {} /\ clips' = clips /\ todo' = BlobsOf[c] /\ pc' = "insert"
    BY <1>2, <2>2 DEF AddBegin, table
  <2> HIDE DEF new
  <2>6. Pending'
    BY <2>3, <2>4, <2>5 DEF Pending
  <2> QED
    BY <2>1, <2>5, <2>6 DEF TxOK
<1>3. ASSUME NEW r \in clips, NEW c \in Texts, SetTextBegin(r, c) PROVE Goal
  <2>1. NoDanglingBlob' /\ UniqueContent' /\ BuffersLive'
    BY <1>0, <1>3, TableKept DEF SetTextBegin, table, files
  <2> DEFINE new == [r EXCEPT !.content = c]
  <2>2. new.id = r.id /\ new.content = c
    BY <1>0, RowFields
  <2>3. txNew' = {new} /\ txOld' = {r} /\ clips' = clips /\ todo' = BlobsOf[c] /\ pc' = "insert"
    BY <1>3 DEF SetTextBegin, table
  <2>4. \A q \in clips \ {r} : q.content # c /\ q.id # r.id
    BY <1>0, <1>3 DEF SetTextBegin, Holding, UniqueContent
  <2> HIDE DEF new
  <2>5. Pending'
    BY <2>2, <2>3, <2>4 DEF Pending
  <2> QED
    BY <2>1, <2>3, <2>5 DEF TxOK
<1>4. ASSUME NEW r \in clips, NEW m \in SUBSET Mark, SetMarks(r, m) PROVE Goal
  <2>1. NoDanglingBlob' /\ UniqueContent' /\ BuffersLive'
    BY <1>0, <1>4, RowFields, SameRow DEF SetMarks, files
  <2>2. TxOK'
    BY <1>0, <1>4, TxClosed DEF SetMarks
  <2> QED
    BY <2>1, <2>2
<1>5. ASSUME NEW r \in clips, Delete(r) PROVE Goal
  <2>1. NoDanglingBlob' /\ UniqueContent' /\ BuffersLive'
    BY <1>0, <1>5, RowsGone DEF Delete, files
  <2>2. TxOK'
    BY <1>0, <1>5, TxClosed, LoopPc DEF Delete
  <2> QED
    BY <2>1, <2>2
<1>6. ASSUME NEW r \in clips, Touch(r) PROVE Goal
  <2>1. NoDanglingBlob' /\ UniqueContent' /\ BuffersLive'
    BY <1>0, <1>6, RowFields, SameRow DEF Touch, files
  <2>2. TxOK'
    BY <1>0, <1>6, TxClosed DEF Touch
  <2> QED
    BY <2>1, <2>2
<1>7. ASSUME NEW r \in clips, NEW s \in Slot, SetSlot(s, r) PROVE Goal
  <2>1. NoDanglingBlob' /\ UniqueContent'
    BY <1>0, <1>7 DEF SetSlot, files, NoDanglingBlob, UniqueContent
  <2>2. BuffersLive'
    BY <1>0, <1>7 DEF SetSlot, BuffersLive, TypeOK
  <2>3. TxOK'
    BY <1>0, <1>7, TxClosed DEF SetSlot
  <2> QED
    BY <2>1, <2>2, <2>3
<1>8. ASSUME Vacuum PROVE Goal
  <2>1. NoDanglingBlob' /\ UniqueContent' /\ BuffersLive'
    BY <1>0, <1>8, TableKept DEF Vacuum, table, files
  <2>2. TxOK'
    BY <1>0, <1>8, TxClosed, LoopPc DEF Vacuum, SweepBegin
  <2> QED
    BY <2>1, <2>2
<1>9. ASSUME NEW cascade \in BOOLEAN, GroupDelete(cascade) PROVE Goal
  <2>1. CASE cascade
    <3>1. NoDanglingBlob' /\ UniqueContent' /\ BuffersLive'
      BY <1>0, <1>9, <2>1, RowsGone DEF GroupDelete, files
    <3>2. TxOK'
      BY <1>0, <1>9, <2>1, TxClosed, LoopPc DEF GroupDelete, SweepBegin
    <3> QED
      BY <3>1, <3>2
  <2>2. CASE cascade = FALSE
    <3>1. GroupDelete(FALSE)
      BY <1>9, <2>2
    <3>2. NoDanglingBlob' /\ UniqueContent' /\ BuffersLive'
      BY <3>1, UngroupKeeps
    <3>3. TxOK'
      BY <1>0, <3>1, TxClosed DEF GroupDelete
    <3> QED
      BY <3>2, <3>3
  <2> QED
    BY <2>1, <2>2
<1>10. ASSUME NEW b \in Blob, PutPresent(b) \/ PutTemp(b) \/ PutRename(b) PROVE Goal
  <2>1. NoDanglingBlob' /\ UniqueContent' /\ BuffersLive'
    BY <1>0, <1>10, TableKept DEF PutPresent, PutTemp, PutRename, table, files
  <2>2. Pending
    BY <1>0, <1>10 DEF PutPresent, PutTemp, PutRename, TxOK
  <2>3. Pending'
    BY <1>10, <2>2 DEF PutPresent, PutTemp, PutRename, Pending, table, files, tx
  <2>4. TxOK'
    BY <1>10, <2>3 DEF PutPresent, PutTemp, PutRename, TxOK
  <2> QED
    BY <2>1, <2>4
<1>11. ASSUME NEW b \in Blob, UnlinkOne(b) \/ UnlinkUnsure(b) \/ UnlinkBlind(b) PROVE Goal
  <2>1. NoDanglingBlob' /\ UniqueContent' /\ BuffersLive'
    BY <1>0, <1>11, FileGone, FileLost, TableKept DEF UnlinkOne, UnlinkUnsure, UnlinkBlind, table, files
  <2>2. TxOK'
    BY <1>0, <1>11, TxClosed, LoopPc DEF UnlinkOne, UnlinkUnsure, UnlinkBlind
  <2> QED
    BY <2>1, <2>2
<1>12. ASSUME NEW b \in Blob, SweepOne(b) \/ SweepUnsure(b) \/ SweepBlind(b) PROVE Goal
  <2>1. NoDanglingBlob' /\ UniqueContent' /\ BuffersLive'
    BY <1>0, <1>12, FileGone, FileLost, TableKept DEF SweepOne, SweepUnsure, SweepBlind, table
  <2>2. TxOK'
    BY <1>0, <1>12, TxClosed, LoopPc DEF SweepOne, SweepUnsure, SweepBlind
  <2> QED
    BY <2>1, <2>2
<1>13. ASSUME Commit PROVE Goal
  <2>1. NoDanglingBlob' /\ UniqueContent' /\ BuffersLive'
    BY <1>13, CommitKeeps
  <2>2. TxOK'
    BY <1>13, LoopPc DEF Commit, TxOK
  <2> QED
    BY <2>1, <2>2
<1>14. ASSUME Rollback \/ Crash PROVE Goal
  <2>1. NoDanglingBlob' /\ UniqueContent' /\ BuffersLive'
    BY <1>0, <1>14, TableKept DEF Rollback, Crash, table
  <2>2. TxOK'
    BY <1>14 DEF Rollback, Crash, TxOK
  <2> QED
    BY <2>1, <2>2
<1>15. ASSUME Retention PROVE Goal
  <2>1. clips' = clips \ (clips \ Kept)
    BY <1>15, KeptSubset DEF Retention
  <2>2. NoDanglingBlob' /\ UniqueContent' /\ BuffersLive'
    BY <1>0, <1>15, <2>1, RowsGone DEF Retention, files
  <2>3. TxOK'
    BY <1>0, <1>15, TxClosed, LoopPc DEF Retention, SweepBegin
  <2> QED
    BY <2>2, <2>3
<1>16. ASSUME Tick PROVE Goal
  <2>1. NoDanglingBlob' /\ UniqueContent' /\ BuffersLive'
    BY <1>0, <1>16, TableKept DEF Tick, files
  <2>2. TxOK'
    BY <1>0, <1>16, TxClosed DEF Tick
  <2> QED
    BY <2>1, <2>2
<1>17. ASSUME UNCHANGED vars PROVE Goal
  BY <1>0, <1>17 DEF vars, NoDanglingBlob, UniqueContent, BuffersLive, TxOK, Pending
<1>18. Goal
  BY <1>1, <1>2, <1>3, <1>4, <1>5, <1>6, <1>7, <1>8, <1>9, <1>10, <1>11, <1>12, <1>13,
     <1>14, <1>15, <1>16, <1>17 DEF Next, Step, Request
<1> QED
  BY <1>0, <1>18 DEF StoreInv

\* A listed clip can be loaded unless its payload was unlinked over a reference query
\* that failed in its step: no order of writes, commits, rollbacks, unlinks, sweeps and
\* process deaths leaves any other row whose payload file is missing.
THEOREM NothingDangles == Spec => []NoDanglingBlob
<1>1. StoreInv => NoDanglingBlob
  BY DEF StoreInv
<1> QED
  BY <1>1, InvInit, InvStep, PTL DEF Spec

\* The history holds no content twice and hands out no id twice at the same time,
\* through captures, imports and the clip editor (add_tx, set_text_tx).
THEOREM ContentsUnique == Spec => []UniqueContent
<1>1. StoreInv => UniqueContent
  BY DEF StoreInv
<1> QED
  BY <1>1, InvInit, InvStep, PTL DEF Spec

\* A filled copy buffer names an existing row, although ids are reused.
THEOREM BuffersNameRows == Spec => []BuffersLive
<1>1. StoreInv => BuffersLive
  BY DEF StoreInv
<1> QED
  BY <1>1, InvInit, InvStep, PTL DEF Spec

-----------------------------------------------------------------------------
(* Retention spares what the user invested in *)

Survives(r) == \E q \in clips' : q.id = r.id

\* Retention keeps every pinned, grouped or buffered row (EXPENDABLE, db.c).
LEMMA KeptSpares == ASSUME NEW r \in clips, ~Expendable(r) PROVE r \in Kept
  BY DEF Kept, Aged, Bulky, Excess

\* A row replaced by one with its id survives the step.
LEMMA ReplacedSurvives ==
  ASSUME NEW r \in clips, NEW q \in clips, NEW new, new.id = q.id,
         clips' = (clips \ {q}) \cup {new}
  PROVE  Survives(r)
  BY DEF Survives

\* No step but an explicit delete loses an invested row, COMMIT of an edit included.
LEMMA SurviveStep ==
  ASSUME StoreInv, [Next]_vars, NEW r \in clips, ~Expendable(r),
         ~Delete(r), ~(Grouped \in r.marks /\ GroupDelete(TRUE))
  PROVE  Survives(r)
<1>1. TypeOK /\ TxOK
  BY DEF StoreInv
<1>2. ASSUME NEW c \in Content, NEW u \in 0..now, AddDup(c, u) PROVE Survives(r)
  <2>1. PICK q \in clips : clips' = (clips \ {q}) \cup {[q EXCEPT !.used = IF u > @ THEN u ELSE @]}
    BY <1>2 DEF AddDup, Holding
  <2> QED
    BY <1>1, <2>1, RowFields, ReplacedSurvives
<1>3. ASSUME NEW q \in clips, NEW m \in SUBSET Mark, SetMarks(q, m) PROVE Survives(r)
  BY <1>1, <1>3, RowFields, ReplacedSurvives DEF SetMarks
<1>4. ASSUME NEW q \in clips, Delete(q) PROVE Survives(r)
  BY <1>4 DEF Delete, Survives
<1>5. ASSUME NEW q \in clips, Touch(q) PROVE Survives(r)
  BY <1>1, <1>5, RowFields, ReplacedSurvives DEF Touch
<1>6. ASSUME NEW cascade \in BOOLEAN, GroupDelete(cascade) PROVE Survives(r)
  <2>1. CASE cascade
    BY <1>6, <2>1 DEF GroupDelete, Survives
  <2>2. CASE ~cascade
    <3>1. CASE Grouped \in r.marks
      <4>1. [r EXCEPT !.marks = @ \ {Grouped}] \in clips'
        BY <1>6, <2>2, <3>1 DEF GroupDelete
      <4> QED
        BY <1>1, <4>1, RowFields DEF Survives
    <3>2. CASE Grouped \notin r.marks
      BY <1>6, <2>2, <3>2 DEF GroupDelete, Survives
    <3> QED
      BY <3>1, <3>2
  <2> QED
    BY <2>1, <2>2
<1>7. ASSUME Commit PROVE Survives(r)
  BY <1>1, <1>7 DEF Commit, TxOK, Pending, Survives
<1>8. ASSUME Retention PROVE Survives(r)
  BY <1>8, KeptSpares DEF Retention, Survives
<1>9. ASSUME UNCHANGED clips PROVE Survives(r)
  BY <1>9 DEF Survives
<1>10. ASSUME Step, ~Commit PROVE UNCHANGED clips
  BY <1>10 DEF Step, PutPresent, PutTemp, PutRename, UnlinkOne, UnlinkUnsure, UnlinkBlind, SweepOne,
               SweepUnsure, SweepBlind, Rollback, table
<1>11. ASSUME NEW c \in Content, NEW u \in 0..now, NEW m \in SUBSET {Grouped}, AddBegin(c, u, m)
       PROVE  UNCHANGED clips
  BY <1>11 DEF AddBegin, table
<1>12. ASSUME NEW q \in clips, NEW c \in Texts, SetTextBegin(q, c) PROVE UNCHANGED clips
  BY <1>12 DEF SetTextBegin, table
<1>13. ASSUME NEW q \in clips, NEW s \in Slot, SetSlot(s, q) PROVE UNCHANGED clips
  BY <1>13 DEF SetSlot
<1>14. ASSUME Vacuum \/ Crash \/ Tick \/ UNCHANGED vars PROVE UNCHANGED clips
  BY <1>14 DEF Vacuum, Crash, Tick, vars, table
<1> QED
  BY <1>2, <1>3, <1>4, <1>5, <1>6, <1>7, <1>8, <1>9, <1>10, <1>11, <1>12, <1>13, <1>14
     DEF Next, Request

\* Nothing but its own deletion and its group's removes a row with a mark or in a copy
\* buffer: every clause of retention is restricted to EXPENDABLE rows, and an edit
\* interrupted anywhere keeps the row it edits.
THEOREM InvestedSafe == Spec => InvestedSurvive
<1>1. StoreInv /\ [Next]_vars =>
        [\A r \in clips :
           \/ Expendable(r)
           \/ \E q \in clips' : q.id = r.id
           \/ Delete(r)
           \/ Grouped \in r.marks /\ GroupDelete(TRUE)]_vars
  BY SurviveStep DEF Survives
<1> QED
  BY <1>1, InvInit, InvStep, PTL DEF Spec, InvestedSurvive

-----------------------------------------------------------------------------
(* The order by last use. *)

\* Ids are numbers and differ, so the table is finite and rows are ordered.
LEMMA TableFinite ==
  ASSUME TypeOK, UniqueContent
  PROVE  IsFiniteSet(clips)
<1> DEFINE number == [r \in clips |-> r.id]
<1>1. number \in Injection(clips, Id)
  BY RowTyped DEF UniqueContent, Injection, IsInjective
<1>2. IsFiniteSet(Id)
  BY StoreAssumption, FS_Interval DEF Id
<1> QED
  BY <1>1, <1>2, FS_Injection

\* Before is a strict total order on the rows.
LEMMA RowsOrdered ==
  ASSUME TypeOK, UniqueContent
  PROVE  /\ \A r \in clips : ~Before(r, r)
         /\ \A p, q, r \in clips : Before(p, q) /\ Before(q, r) => Before(p, r)
         /\ \A q, r \in clips : q # r => Before(q, r) \/ Before(r, q)
<1>1. \A r \in clips : r.id \in Nat /\ r.used \in Nat
  BY RowTyped DEF Id, Time
<1>2. \A q, r \in clips : q # r => q.id # r.id
  BY DEF UniqueContent
<1> QED
  BY <1>1, <1>2 DEF Before

\* A nonempty set of naturals has a least element.
LEMMA SmallestNat ==
  ASSUME NEW N \in SUBSET Nat, N # {}
  PROVE  \E m \in N : \A n \in N : m <= n
<1>1. PICK m \in N : \A n \in N : <<n, m>> \notin OpToRel(<, Nat)
  BY NatLessThanWellFounded, WFMin
<1>2. \A n \in N : ~(n < m)
  BY <1>1 DEF OpToRel
<1> QED
  BY <1>2

-----------------------------------------------------------------------------
(* The rank of a loose row, what ORDER BY ... OFFSET counts. *)

Ahead(loose, r) == {q \in loose : Before(q, r)}

Rank(loose, r) == Cardinality(Ahead(loose, r))

\* A rank is a number, and earlier rows have smaller ones.
LEMMA RankGrows ==
  ASSUME TypeOK, UniqueContent, NEW loose \in SUBSET clips
  PROVE  /\ \A r \in loose : Rank(loose, r) \in Nat
         /\ \A q, r \in loose : Before(q, r) => Rank(loose, q) < Rank(loose, r)
<1>1. \A r \in loose : IsFiniteSet(Ahead(loose, r)) /\ Rank(loose, r) \in Nat
  <2> TAKE r \in loose
  <2>1. IsFiniteSet(Ahead(loose, r))
    BY TableFinite, FS_Subset DEF Ahead
  <2> QED
    BY <2>1, FS_CardinalityType DEF Rank
<1>2. ASSUME NEW q \in loose, NEW r \in loose, Before(q, r)
      PROVE  Rank(loose, q) < Rank(loose, r)
  <2>1. Ahead(loose, q) \subseteq Ahead(loose, r) /\ q \in Ahead(loose, r) /\ q \notin Ahead(loose, q)
    BY <1>2, RowsOrdered DEF Ahead
  <2>2. /\ Rank(loose, q) <= Rank(loose, r)
        /\ Rank(loose, q) # Rank(loose, r)
    BY <1>1, <2>1, FS_Subset DEF Rank
  <2> QED
    BY <1>1, <2>2
<1> QED
  BY <1>1, <1>2

\* As many loose rows as there is room for stay, at most.
LEMMA FewStay ==
  ASSUME TypeOK, UniqueContent, NEW loose \in SUBSET clips, NEW room \in Int,
         NEW stay, stay = {r \in loose : Rank(loose, r) < room}
  PROVE  /\ IsFiniteSet(stay) /\ Cardinality(stay) \in Nat
         /\ Cardinality(stay) <= IF room > 0 THEN room ELSE 0
<1> DEFINE rank == [r \in stay |-> Rank(loose, r)]
<1>1. \A r \in stay : rank[r] \in 0..(room - 1)
  BY RankGrows
<1>2. \A q, r \in stay : rank[q] = rank[r] => q = r
  <2> SUFFICES ASSUME NEW q \in stay, NEW r \in stay, q # r PROVE rank[q] # rank[r]
    OBVIOUS
  <2>1. Before(q, r) \/ Before(r, q)
    BY RowsOrdered
  <2> QED
    BY <2>1, RankGrows
<1> HIDE DEF rank
<1>3. rank \in Injection(stay, 0..(room - 1))
  BY <1>1, <1>2 DEF Injection, IsInjective, rank
<1>4. IsFiniteSet(0..(room - 1)) /\ Cardinality(0..(room - 1)) = IF room > 0 THEN room ELSE 0
  BY FS_Interval
<1> QED
  BY <1>3, <1>4, FS_Injection, FS_CardinalityType

\* When a loose row does not stay, the room is full.
LEMMA RoomFull ==
  ASSUME TypeOK, UniqueContent, NEW loose \in SUBSET clips, NEW room \in Int,
         NEW stay, stay = {r \in loose : Rank(loose, r) < room}, loose \ stay # {}
  PROVE  room <= Cardinality(stay)
<1> DEFINE ranks == {Rank(loose, r) : r \in loose \ stay}
<1>1. ranks \in SUBSET Nat /\ ranks # {}
  BY RankGrows
<1>2. PICK m \in ranks : \A n \in ranks : m <= n
  BY <1>1, SmallestNat
<1>3. PICK r \in loose \ stay : Rank(loose, r) = m
  BY <1>2
<1>4. Ahead(loose, r) \subseteq stay
  <2> SUFFICES ASSUME NEW q \in loose, Before(q, r), q \notin stay PROVE FALSE
    BY DEF Ahead
  <2>1. Rank(loose, q) < m
    BY <1>3, RankGrows
  <2>2. m <= Rank(loose, q)
    BY <1>2
  <2> QED
    BY <1>1, <2>1, <2>2, RankGrows
<1>5. IsFiniteSet(stay) /\ Cardinality(stay) \in Nat
  BY FewStay
<1>6. Rank(loose, r) <= Cardinality(stay)
  BY <1>4, <1>5, FS_Subset DEF Rank
<1>7. Rank(loose, r) >= room /\ Rank(loose, r) \in Nat
  BY RankGrows
<1> QED
  BY <1>5, <1>6, <1>7

-----------------------------------------------------------------------------
(* db_retention. *)

Loose(rows) == {r \in rows : Expendable(r)}

\* Only expendable rows are aged, bulky or in excess.
LEMMA ExactStep ==
  ASSUME TypeOK, UniqueContent
  PROVE  RetentionExact
<1> DEFINE fresh == clips \ Aged(clips)
           small == fresh \ Bulky(fresh)
           loose == Loose(small)
           safe == small \ loose
           room == MaxClips - Cardinality(safe)
           stay == {r \in loose : Rank(loose, r) < room}
<1> USE StoreAssumption
<1>1. small \subseteq clips /\ safe = clips \ Loose(clips)
  BY DEF Aged, Bulky, Loose
<1>2. IsFiniteSet(safe) /\ Cardinality(safe) \in Nat /\ room \in Int
  BY <1>1, TableFinite, FS_Subset, FS_CardinalityType
<1>3. loose \in SUBSET clips
  BY <1>1 DEF Loose
<1>4. Excess(small) = {r \in loose : MaxClips > 0 /\ Rank(loose, r) >= room}
  BY DEF Excess, Loose, Rank, Ahead
<1>5. \A r \in loose : Rank(loose, r) \in Nat
  BY <1>3, RankGrows
<1>6. Kept = small \ Excess(small)
  BY DEF Kept
<1>7. loose \subseteq small
  BY DEF Loose
<1> HIDE DEF fresh, small, loose, room
<1>8. safe \cap stay = {} /\ IsFiniteSet(stay) /\ Cardinality(stay) \in Nat
  BY <1>2, <1>3, FewStay
<1>9. MaxClips > 0 => Kept = safe \cup stay
  <2> SUFFICES ASSUME MaxClips > 0 PROVE Kept = safe \cup stay
    OBVIOUS
  <2>1. \A r \in loose : Rank(loose, r) >= room <=> ~(Rank(loose, r) < room)
    BY <1>2, <1>5
  <2>2. Excess(small) = {r \in loose : Rank(loose, r) >= room}
    BY <1>4
  <2> QED
    BY <1>6, <1>7, <2>1, <2>2
<1>10. MaxClips > 0 => Cardinality(Kept) = Cardinality(safe) + Cardinality(stay)
  <2>1. Cardinality(safe \cup stay) = Cardinality(safe) + Cardinality(stay) - Cardinality(safe \cap stay)
    BY <1>2, <1>8, FS_Union
  <2>2. Cardinality(safe \cap stay) = 0
    BY <1>8, FS_EmptySet
  <2>3. MaxClips > 0 => Cardinality(Kept) = Cardinality(safe \cup stay)
    BY <1>9, Zenon
  <2>4. Cardinality(safe \cup stay) = Cardinality(safe) + Cardinality(stay)
    BY <1>2, <1>8, <2>1, <2>2
  <2> QED
    BY <2>3, <2>4, Zenon
<1>11. Cardinality(stay) <= IF room > 0 THEN room ELSE 0
  BY <1>2, <1>3, FewStay
<1> HIDE DEF safe, stay
<1>12. MaxClips > 0 => Cardinality(Kept) <= Larger(MaxClips, Cardinality(clips \ Loose(clips)))
  BY <1>1, <1>2, <1>8, <1>10, <1>11 DEF Larger, room
<1>13. ASSUME NEW r \in clips \ Kept, r \notin Aged(clips) \cup Bulky(clips)
       PROVE  Cardinality(Kept) >= MaxClips /\ \A q \in Kept \cap Loose(clips) : Before(q, r)
  <2>1. r \in small
    BY <1>13 DEF small, fresh, Bulky
  <2>2. r \in loose /\ MaxClips > 0 /\ Rank(loose, r) >= room
    BY <1>4, <1>6, <1>13, <2>1
  <2>3. r \in loose \ stay
    BY <1>2, <1>5, <2>2 DEF stay
  <2>4. room <= Cardinality(stay)
    BY <1>2, <1>3, <2>3, RoomFull DEF stay
  <2>5. Cardinality(Kept) >= MaxClips
    BY <1>2, <1>8, <1>10, <2>2, <2>4 DEF room
  <2>6. ASSUME NEW q \in Kept \cap Loose(clips) PROVE Before(q, r)
    <3>1. q \in stay
      BY <1>1, <1>9, <2>2, <2>6
    <3>2. q \in loose /\ Rank(loose, q) < Rank(loose, r)
      BY <1>2, <1>5, <2>2, <3>1 DEF stay
    <3>3. ~Before(r, q)
      BY <1>3, <1>5, <2>2, <3>2, RankGrows
    <3> QED
      BY <1>3, <1>13, <2>2, <2>6, <3>2, <3>3, RowsOrdered
  <2> QED
    BY <2>5, <2>6
<1> QED
  BY <1>12, <1>13 DEF RetentionExact, Loose

\* Whenever the timer comes, retention fits the table into max_clips, or as far as
\* protected rows allow, and takes a row within the age limits only for want of room
\* and after every older loose row (db_retention, LIMIT -1 OFFSET).
THEOREM RetentionIsExact == Spec => []RetentionExact
<1>1. StoreInv => RetentionExact
  BY ExactStep DEF StoreInv
<1> QED
  BY <1>1, InvInit, InvStep, PTL DEF Spec

-----------------------------------------------------------------------------
(* db_blob_gc. *)

\* What a sweep has still to look at: nothing else is left over.
SweepInv == pc = "sweep" => temps \subseteq todo /\ Orphans(clips, blobs) \subseteq todo \cup unsure

\* A sweep begins with everything on disk.
LEMMA SweepStarts ==
  ASSUME TypeOK, SweepBegin, UNCHANGED files
  PROVE  SweepInv'
  BY DEF SweepBegin, Loop, SweepInv, Orphans, files

\* A file looked at is gone, referenced, or kept because the query failed.
LEMMA SweepGoesOn ==
  ASSUME NEW b, SweepInv, SweepOne(b) \/ SweepUnsure(b) \/ SweepBlind(b)
  PROVE  /\ temps' \subseteq todo'
         /\ Orphans(clips, blobs') \subseteq todo' \cup unsure'
  BY DEF SweepInv, SweepOne, SweepUnsure, SweepBlind, Blindly, Loop, Orphans, tx, files, table

\* No other operation runs between the sweep's files.
LEMMA SweepStep == StoreInv /\ SweepInv /\ [Next]_vars => SweepInv'
<1> SUFFICES ASSUME StoreInv, SweepInv, [Next]_vars PROVE SweepInv'
  OBVIOUS
<1>0. TypeOK
  BY DEF StoreInv
<1>1. CASE pc = "sweep" /\ pc' = "sweep"
  <2>1. CASE \E b \in Blob : SweepOne(b) \/ SweepUnsure(b) \/ SweepBlind(b)
    BY <2>1, SweepGoesOn DEF SweepInv, SweepOne, SweepUnsure, SweepBlind, table
  <2>2. CASE UNCHANGED vars
    BY <2>2 DEF vars, SweepInv, Orphans
  <2> QED
    BY <1>1, <2>1, <2>2 DEF Next, Step, Request, Retention, Crash, Tick, PutPresent, PutTemp, PutRename,
       UnlinkOne, UnlinkUnsure, UnlinkBlind, Rollback, Commit, AddDup, AddBegin, SetTextBegin, SetMarks, Delete, Touch,
       SetSlot, Vacuum, GroupDelete
<1>2. CASE pc # "sweep" /\ pc' = "sweep"
  <2>1. SweepBegin /\ UNCHANGED files
    BY <1>2 DEF Next, Step, Request, Retention, Crash, Tick, PutPresent, PutTemp, PutRename,
       UnlinkOne, UnlinkUnsure, UnlinkBlind, SweepOne, SweepUnsure, SweepBlind, Rollback, Commit, AddDup, AddBegin, SetTextBegin,
       SetMarks, Delete, Touch, SetSlot, Vacuum, GroupDelete, Loop, vars
  <2> QED
    BY <1>0, <2>1, SweepStarts
<1> QED
  BY <1>1, <1>2 DEF SweepInv

\* A sweep that is not cut short by a death leaves no temp file and no unreferenced
\* payload, save those whose reference query failed (db_blob_gc, blob_sweep).
THEOREM SweepIsClean == Spec => SweepClean
<1>1. ASSUME SweepInv, [Next]_vars, pc = "sweep", pc' = "idle", ~Crash
      PROVE  temps' = {} /\ Orphans(clips', blobs') \subseteq unsure'
  <2>1. PICK b \in Blob : SweepOne(b) \/ SweepUnsure(b) \/ SweepBlind(b)
    BY <1>1 DEF Next, Step, Request, Retention, Tick, PutPresent, PutTemp, PutRename,
       UnlinkOne, UnlinkUnsure, UnlinkBlind, Rollback, Commit, AddDup, AddBegin, SetTextBegin, SetMarks, Delete, Touch,
       SetSlot, Vacuum, GroupDelete, vars
  <2>2. clips' = clips /\ todo' = {}
    BY <1>1, <2>1 DEF SweepOne, SweepUnsure, SweepBlind, table, Loop
  <2> QED
    BY <1>1, <2>1, <2>2, SweepGoesOn
<1>2. Init => SweepInv
  BY DEF Init, SweepInv
<1>3. SweepInv /\ [Next]_vars =>
        [pc = "sweep" /\ pc' = "idle" /\ ~Crash =>
           temps' = {} /\ Orphans(clips', blobs') \subseteq unsure']_vars
  BY <1>1
<1> QED
  BY <1>2, <1>3, InvInit, InvStep, SweepStep, PTL DEF Spec, SweepClean
=============================================================================

------------------------------ MODULE History ------------------------------
(***************************************************************************)
(* What the store promises its users, with no files and no transactions:   *)
(* `history` is the set of clips that are listed, and it changes by whole  *)
(* operations only.  All of them can be loaded but the `unreadable` ones,  *)
(* and without failures of the database there are none.  Whatever the      *)
(* daemon does between two operations, dying included, nobody sees.        *)
(***************************************************************************)
EXTENDS Integers

CONSTANTS Content, Slot, Mark, Grouped, Id, Time, Faults

VARIABLES history, unreadable, buffers

Clip == [id : Id, content : Content, used : Time, marks : SUBSET Mark]

hvars == <<history, unreadable, buffers>>

Ids(rows) == {r.id : r \in rows}

Init == history = {} /\ unreadable = {} /\ buffers = [s \in Slot |-> 0]

Others(r) == history \ {r}

Replace(r, new) ==
  /\ history' = Others(r) \cup {new}
  /\ UNCHANGED <<buffers, unreadable>>

\* Removed clips leave the copy buffers as well.
Remove(gone) ==
  /\ history' = history \ gone
  /\ unreadable' = unreadable \ Ids(gone)
  /\ buffers' = [s \in Slot |-> IF \E r \in gone : r.id = buffers[s] THEN 0 ELSE buffers[s]]

\* A content that is not in the history yet, under an id that no clip has.
Record(new) ==
  /\ \A r \in history : r.content # new.content /\ r.id # new.id
  /\ history' = history \cup {new}
  /\ UNCHANGED <<buffers, unreadable>>

\* Copied or pasted again: last use only moves forward.
Reuse(r, u) == u >= r.used /\ Replace(r, [r EXCEPT !.used = u])

\* New text, which can be loaded; no two clips have the same content.
Edit(r, c) ==
  /\ \A q \in Others(r) : q.content # c
  /\ history' = Others(r) \cup {[r EXCEPT !.content = c]}
  /\ unreadable' = unreadable \ {r.id}
  /\ UNCHANGED buffers

MarkAs(r, m) == Replace(r, [r EXCEPT !.marks = m])

Assign(s, r) ==
  /\ buffers' = [buffers EXCEPT ![s] = r.id]
  /\ UNCHANGED <<history, unreadable>>

Discard(r) == Remove({r})

Members == {r \in history : Grouped \in r.marks}

DiscardGroup == Remove(Members)

Ungroup ==
  /\ history' = (history \ Members) \cup {[r EXCEPT !.marks = @ \ {Grouped}] : r \in Members}
  /\ UNCHANGED <<buffers, unreadable>>

\* Removal nobody asked for spares every clip with a mark or in a buffer.
Expire(gone) ==
  /\ \A r \in gone : r.marks = {} /\ \A s \in Slot : buffers[s] # r.id
  /\ Remove(gone)

\* A failure takes the content of clips that stay listed.
Lose(ids) == Faults /\ unreadable' = unreadable \cup ids /\ UNCHANGED <<history, buffers>>

\* A new clip shares the content that was missing.
Regain(ids) == unreadable' = unreadable \ ids /\ UNCHANGED <<history, buffers>>

Next ==
  \/ \E new \in Clip : Record(new)
  \/ \E r \in history :
       \/ \E u \in Time : Reuse(r, u)
       \/ \E c \in Content : Edit(r, c)
       \/ \E m \in SUBSET Mark : MarkAs(r, m)
       \/ \E s \in Slot : Assign(s, r)
       \/ Discard(r)
  \/ DiscardGroup \/ Ungroup
  \/ \E gone \in SUBSET history : Expire(gone)
  \/ \E ids \in SUBSET Ids(history) : Lose(ids) \/ Regain(ids)

Spec == Init /\ [][Next]_hvars
=============================================================================

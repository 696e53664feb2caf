------------------------------- MODULE Groups -------------------------------
(***************************************************************************)
(* How clips are organised: the tree of groups, the group a clip is in,    *)
(* its title, quick-paste word, lock and place among the sticky clips      *)
(* (db_edit.c), the requests that change them (proto.c), and the rows a    *)
(* subscriber of the daemon's events holds because of them.                *)
(*                                                                         *)
(* Clips and groups stand for their uuids, which are never given twice;    *)
(* which one a new row is given makes no difference, so CHOOSE picks it.   *)
(* Every request below is one transaction or a row of single statements    *)
(* no other handler can come between: the daemon has one thread.           *)
(***************************************************************************)
EXTENDS Integers, FiniteSets

CONSTANTS
  Clip,      \* uuids of clips
  Group,     \* uuids of groups
  Name,      \* names of groups
  Word,      \* quick-paste words and titles
  Top,       \* the parent of a top-level group, the home of a clip in no group
  None,      \* no word, no title; a clip a subscriber does not list
  Same,      \* a field an update does not mention
  Bad,       \* a value an update may not give
  Update,    \* the updates clients send: [title, word, locked, sticky]
  MaxPlace   \* bound: how far sticky_order drifts from 0

ASSUME GroupsAssumption ==
  /\ Top \notin Group /\ None \notin Word /\ MaxPlace \in Nat
  /\ Update \subseteq [title : Word \cup {Same, None}, word : Word \cup {Same, None, Bad},
                       locked : BOOLEAN \cup {Same}, sticky : {Same, "top", "bottom", "off", Bad}]

VARIABLES
  groups,    \* rows of table groups
  parent,    \* their parent_id
  name,      \* their name
  gborn,     \* uuids of groups given so far
  clips,     \* rows of table clips
  row,       \* group_id, title, quick_paste, locked and sticky_order of a clip
  cborn,     \* uuids of clips given so far
  seen,      \* the rows a subscriber holds from the events it was sent
  unsaid,    \* clips an update refused for its 'sticky' had changed by then
  partial    \* a reorder named some of the sticky clips and not the others

tree == <<groups, parent, name, gborn>>
list == <<clips, row, cborn, seen, unsaid, partial>>
desk == <<tree, list>>

Place == (-MaxPlace)..MaxPlace
Row == [home : Group \cup {Top}, title : Word \cup {None}, word : Word \cup {None},
        locked : BOOLEAN, sticky : BOOLEAN, place : Place]
Blank == [home |-> Top, title |-> None, word |-> None, locked |-> FALSE, sticky |-> FALSE, place |-> 0]

GroupsType ==
  /\ groups \subseteq gborn /\ gborn \subseteq Group
  /\ parent \in [groups -> Group \cup {Top}] /\ name \in [groups -> Name]
  /\ clips \subseteq cborn /\ cborn \subseteq Clip
  /\ row \in [Clip -> Row] /\ seen \in [Clip -> Row \cup {None}]
  /\ unsaid \subseteq Clip /\ partial \in BOOLEAN

GroupsInit ==
  /\ groups = {} /\ gborn = {} /\ clips = {} /\ cborn = {}
  /\ parent = [g \in groups |-> Top] /\ name = [g \in groups |-> Top]
  /\ row = [c \in Clip |-> Blank] /\ seen = [c \in Clip |-> None]
  /\ unsaid = {} /\ partial = FALSE

-----------------------------------------------------------------------------
(* Events: clip.added and clip.updated carry the row, clip.deleted names a  *)
(* clip, clips.reset has the subscriber ask for the list again.             *)

Say(S) ==
  /\ seen' = [c \in Clip |-> IF c \notin S THEN seen[c] ELSE IF c \in clips' THEN row'[c] ELSE None]
  /\ unsaid' = unsaid \ S

SayReset == Say(Clip)

IsNew(x, All, given) == All \ given # {} /\ x = CHOOSE y \in All \ given : TRUE

-----------------------------------------------------------------------------
(* The tree of groups. *)

\* The recursive query of within() and of a delete: the least set that holds
\* g and, with a group, the groups directly inside it.
ClosedBelow(S) == \A h \in groups : parent[h] \in S => h \in S

\* Mutant: a group counts as inside itself only.
BelowSelf(g) == {g}

Below(g) == {h \in groups : \A S \in SUBSET groups : g \in S /\ ClosedBelow(S) => h \in S}

\* The unique index groups_name.
NameFree(p, n, g) == \A h \in groups \ {g} : ~(parent[h] = p /\ name[h] = n)

CreateGroup(g, p, n) ==
  /\ IsNew(g, Group, gborn) /\ p \in groups \cup {Top} /\ NameFree(p, n, g)
  /\ groups' = groups \cup {g} /\ gborn' = gborn \cup {g}
  /\ parent' = [h \in groups' |-> IF h = g THEN p ELSE parent[h]]
  /\ name' = [h \in groups' |-> IF h = g THEN n ELSE name[h]]
  /\ UNCHANGED list

RenameGroup(g, n) ==
  /\ g \in groups /\ NameFree(parent[g], n, g)
  /\ name' = [name EXCEPT ![g] = n]
  /\ UNCHANGED <<groups, parent, gborn, list>>

MoveGroup(g, p) ==
  /\ g \in groups /\ p \in groups \cup {Top} /\ NameFree(p, name[g], g)
  /\ p \in groups => p \notin Below(g)
  /\ parent' = [parent EXCEPT ![g] = p]
  /\ UNCHANGED <<groups, name, gborn, list>>

Gone(S) == row' = [c \in Clip |-> IF c \in S THEN Blank ELSE row[c]]

\* Mutant: only the clips directly in the group are let go.
DeleteGroupDirect(g, cascade) ==
  /\ g \in groups
  /\ groups' = groups \ Below(g)
  /\ parent' = [h \in groups' |-> parent[h]] /\ name' = [h \in groups' |-> name[h]]
  /\ clips' = clips
  /\ row' = [c \in Clip |-> IF c \in clips /\ row[c].home = g THEN [row[c] EXCEPT !.home = Top] ELSE row[c]]
  /\ SayReset
  /\ UNCHANGED <<gborn, cborn, partial>>

\* The groups inside go too (ON DELETE CASCADE); the clips of all of them go,
\* or fall back to plain history (ON DELETE SET NULL).
DeleteGroup(g, cascade) ==
  LET Sub == Below(g)
      Inside == {c \in clips : row[c].home \in Sub}
  IN
  /\ g \in groups
  /\ groups' = groups \ Sub
  /\ parent' = [h \in groups' |-> parent[h]] /\ name' = [h \in groups' |-> name[h]]
  /\ IF cascade
     THEN clips' = clips \ Inside /\ Gone(Inside)
     ELSE clips' = clips /\ row' = [c \in Clip |-> IF c \in Inside THEN [row[c] EXCEPT !.home = Top] ELSE row[c]]
  /\ SayReset
  /\ UNCHANGED <<gborn, cborn, partial>>

\* A script's verdict may name a path: each part is the group of that name
\* inside the one before, made when there is none, each in a statement of its
\* own.  `chain` is the groups along it.
EnsurePath(path, chain) ==
  LET Up(i) == IF i = 1 THEN Top ELSE chain[i - 1]
      Made == {chain[i] : i \in DOMAIN path} \ groups
  IN /\ \A i \in DOMAIN path :
          IF \E h \in groups : parent[h] = Up(i) /\ name[h] = path[i]
          THEN chain[i] \in groups /\ parent[chain[i]] = Up(i) /\ name[chain[i]] = path[i]
          ELSE IsNew(chain[i], Group, gborn \cup {chain[j] : j \in 1..(i - 1)})
     /\ groups' = groups \cup Made /\ gborn' = gborn \cup Made
     /\ parent' = [g \in groups' |-> IF g \in Made THEN Up(CHOOSE i \in DOMAIN path : chain[i] = g) ELSE parent[g]]
     /\ name' = [g \in groups' |-> IF g \in Made THEN path[CHOOSE i \in DOMAIN path : chain[i] = g] ELSE name[g]]

-----------------------------------------------------------------------------
(* The clips. *)

Sticky == {c \in clips : row[c].sticky}
Places == {row[c].place : c \in Sticky}

\* Mutant: the first place itself, not the one before it.
IsTopOff(p) == IF Places = {} THEN p = 0 ELSE p \in Places /\ \A q \in Places : p <= q

\* coalesce(min(sticky_order), 1) - 1 and coalesce(max(sticky_order), -1) + 1
IsTop(p) == IF Places = {} THEN p = 0 ELSE p + 1 \in Places /\ \A q \in Places : p < q
IsBottom(p) == IF Places = {} THEN p = 0 ELSE p - 1 \in Places /\ \A q \in Places : q < p

\* What db_clip_set_sticky may make of r (no row when the place is out of bounds).
Stuck(r, where) ==
  CASE where = "off" -> {[r EXCEPT !.sticky = FALSE, !.place = 0]}
    [] where = "top" -> {[r EXCEPT !.sticky = TRUE, !.place = p] : p \in {q \in Place : IsTop(q)}}
    [] where = "bottom" -> {[r EXCEPT !.sticky = TRUE, !.place = p] : p \in {q \in Place : IsBottom(q)}}
    [] OTHER -> {r}

Given(old, new) == IF new = Same THEN old ELSE new

\* Mutant: a word with a space is let through.
WordFreeAny(c, w) == w = None \/ w = Same \/ \A d \in clips \ {c} : row[d].word # w

WordFree(c, w) == w = None \/ w = Same \/ (w # Bad /\ \A d \in clips \ {c} : row[d].word # w)

\* Mutant: an update that fails half way announces nothing.
UpdateClipQuiet(c, u) ==
  LET titled == [row[c] EXCEPT !.title = Given(@, u.title)] IN
  /\ c \in clips /\ u \in Update
  /\ UNCHANGED <<tree, clips, cborn, partial>>
  /\ ~WordFree(c, u.word)
  /\ row' = [row EXCEPT ![c] = titled]
  /\ UNCHANGED <<seen, unsaid>>

\* The fields are set one after another.  A word that is refused leaves the
\* title set, and the row is announced; a 'sticky' that is refused leaves
\* title, word and lock set, and it is not.
UpdateClip(c, u) ==
  LET titled == [row[c] EXCEPT !.title = Given(@, u.title)]
      worded == [titled EXCEPT !.word = Given(@, u.word), !.locked = Given(@, u.locked)]
  IN /\ c \in clips /\ u \in Update
     /\ UNCHANGED <<tree, clips, cborn, partial>>
     /\ \/ /\ ~WordFree(c, u.word)
           /\ row' = [row EXCEPT ![c] = titled]
           /\ Say({c})
        \/ /\ WordFree(c, u.word) /\ u.sticky = Bad
           /\ row' = [row EXCEPT ![c] = worded]
           /\ unsaid' = unsaid \cup {c} /\ UNCHANGED seen
        \/ /\ WordFree(c, u.word) /\ u.sticky # Bad
           /\ \E r \in Stuck(worded, u.sticky) : row' = [row EXCEPT ![c] = r]
           /\ Say({c})

MoveClips(S, p) ==
  /\ S \cap clips # {} /\ p \in groups \cup {Top}
  /\ row' = [c \in Clip |-> IF c \in S \cap clips THEN [row[c] EXCEPT !.home = p] ELSE row[c]]
  /\ UNCHANGED <<tree, clips, cborn, partial>>
  /\ Say(S \cap clips)

\* at[c] is the last position of c in the list of the request.
ReorderSticky(at) ==
  /\ \A c \in DOMAIN at : at[c] \in Place
  /\ row' = [c \in Clip |-> IF c \in DOMAIN at \cap Sticky THEN [row[c] EXCEPT !.place = at[c]] ELSE row[c]]
  /\ partial' = ~(Sticky \subseteq DOMAIN at)
  /\ UNCHANGED <<tree, clips, cborn>>
  /\ SayReset

\* Deleting named clips announces each; retention, which only takes clips
\* nobody has invested in, has the list read again.
Drop(S) ==
  /\ clips' = clips \ S /\ Gone(S)
  /\ UNCHANGED <<tree, cborn, partial>>

DeleteClips(S) == S \subseteq clips /\ S # {} /\ Drop(S) /\ Say(S)

Expendable == {c \in clips : ~row[c].sticky /\ ~row[c].locked /\ row[c].home = Top /\ row[c].word = None}

Retention(S) == S \subseteq Expendable /\ S # {} /\ Drop(S) /\ SayReset

\* Storing content: a clip with that content is only marked as used, and keeps
\* its group; a new row goes into `home`.  The script's title is for a new row
\* (`retitle`) from the clipboard for an old one too; sticky and lock are for both.
Store(c, home, v, retitle) ==
  LET isNew == c \notin clips
      base == IF isNew THEN [Blank EXCEPT !.home = home] ELSE row[c]
      told == [base EXCEPT !.title = IF isNew \/ retitle THEN Given(@, v.title) ELSE @,
                            !.locked = Given(@, v.locked)]
  IN /\ isNew => IsNew(c, Clip, cborn)
     /\ clips' = clips \cup {c} /\ cborn' = cborn \cup {c}
     /\ \E r \in Stuck(told, v.sticky) : row' = [row EXCEPT ![c] = r]
     /\ Say({c})
     /\ UNCHANGED partial

-----------------------------------------------------------------------------
(* Properties. *)

\* Every group can be reached from the top of the tree: no set of groups hangs
\* only from itself.  A group moved below one of its own descendants would be
\* listed nowhere and deleted with nothing (db_group_move, within).
Forest == \A S \in SUBSET groups : S # {} => \E g \in S : parent[g] \notin S

\* Every group's parent and every clip's group exist, whatever was deleted,
\* moved or filed by a rule or a script meanwhile.
HomesExist ==
  /\ \A g \in groups : parent[g] \in groups \cup {Top}
  /\ \A c \in clips : row[c].home \in groups \cup {Top}

\* Unless a reorder left some sticky clips out, no two sticky clips share a
\* place, so the order the list shows is the order the user gave.
StickyDistinct ==
  ~partial => \A c, d \in Sticky : row[c].place = row[d].place => c = d

\* A subscriber that applies the events holds exactly the rows of the table,
\* but for clips changed by an update whose 'sticky' was refused.
RowsMirrored ==
  \A c \in Clip \ unsaid : seen[c] = IF c \in clips THEN row[c] ELSE None
=============================================================================

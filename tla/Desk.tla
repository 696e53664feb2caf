-------------------------------- MODULE Desk --------------------------------
(***************************************************************************)
(* The tables a user arranges the history with, together: a new clip goes  *)
(* where the rules (Rules) and the scripts say, into the tree of groups    *)
(* (Groups) that requests reshape while the copy is still being read.      *)
(*                                                                         *)
(* A capture is two handlers: capture_on_selection asks which formats may  *)
(* be read, finish files what was read; requests run in between.           *)
(***************************************************************************)
EXTENDS Groups, Sequences

CONSTANTS App, NoApp, Mime, RuleSpec, MaxRule,
  Seed,      \* the rule a fresh database starts with
  Verdict,   \* what on_copy scripts may say: [path, title, locked, sticky]
  Silent,    \* no script, or one with nothing to say
  MaxEdits   \* bound: selections, and requests that change what exists

VARIABLES rules, ord,
  reading,   \* the app whose selection is being read, or None
  edits      \* of them so far

R == INSTANCE Rules WITH Groups0 <- Group, Nowhere <- Top

ASSUME DeskAssumption ==
  /\ R!RulesConstants /\ Seed \in R!Rule
  /\ Silent \in Verdict /\ Silent.path = <<>> /\ MaxEdits \in Nat
  /\ Verdict \subseteq [path : Seq(Name), title : Word \cup {Same},
                        locked : BOOLEAN \cup {Same}, sticky : {Same, "top", "off"}]

vars == <<desk, rules, ord, reading, edits>>

TypeOK ==
  /\ GroupsType /\ R!RulesType
  /\ reading \in App \cup {NoApp, None} /\ edits \in 0..MaxEdits

Init ==
  /\ GroupsInit /\ R!RulesInit(Seed)
  /\ reading = None /\ edits = 0

-----------------------------------------------------------------------------
Quiet == UNCHANGED <<rules, ord, reading, edits>>
Ask == edits < MaxEdits /\ edits' = edits + 1 /\ UNCHANGED <<rules, ord, reading>>
AskRules == edits < MaxEdits /\ edits' = edits + 1 /\ UNCHANGED <<desk, reading>>

\* capture_on_selection: a copy from an excluded app, or with no format left
\* to read, is not read; a new selection abandons the one being read.
Selection(app, offered) ==
  /\ edits < MaxEdits /\ edits' = edits + 1
  /\ reading' = IF R!Excluded(app) \/ R!Filtered(app, offered) = {} THEN None ELSE app
  /\ UNCHANGED <<desk, rules, ord>>

\* finish: the rules and the tree are those of now, not of the selection.
Finish(c, v, chain) ==
  /\ reading # None /\ v \in Verdict
  /\ IF v.path = <<>> THEN UNCHANGED tree ELSE EnsurePath(v.path, chain)
  /\ Store(c, IF v.path = <<>> THEN R!Route(reading, groups) ELSE chain[Len(v.path)], v, TRUE)
  /\ reading' = None
  /\ UNCHANGED <<rules, ord, edits>>

\* finish, when nothing came or a script says not to store it.
Discard == reading # None /\ reading' = None /\ UNCHANGED <<desk, rules, ord, edits>>

\* The request "create": text from a client, by no app and past the scripts.
Create(c, t) ==
  /\ Store(c, Top, [Silent EXCEPT !.title = t], FALSE)
  /\ UNCHANGED tree /\ Quiet

GroupCreate(g, p, n) == CreateGroup(g, p, n) /\ Quiet
GroupRename(g, n) == RenameGroup(g, n) /\ Ask
GroupMove(g, p) == MoveGroup(g, p) /\ Ask
GroupDelete(g, cascade) == DeleteGroup(g, cascade) /\ Ask
ClipUpdate(c, u) == UpdateClip(c, u) /\ Ask
ClipMove(S, p) == MoveClips(S, p) /\ Ask
ClipReorder(at) == ReorderSticky(at) /\ Ask
ClipDelete(S) == DeleteClips(S) /\ Ask
Expire(S) == Retention(S) /\ Ask

RuleAdd(i, p, r) == R!AddRule(i, p, r, groups) /\ AskRules
RuleSet(i, r) == R!ChangeRule(i, r, groups) /\ AskRules
RuleDelete(i) == R!DeleteRule(i) /\ AskRules
RuleReorder(at, n) == R!ReorderRules(at, n) /\ AskRules

\* A list of ids: the place each id named has in it.
Listing(S, first) ==
  {at \in [S -> first..(first + Cardinality(S) - 1)] : \A i, j \in S : at[i] = at[j] => i = j}

Next ==
  \/ \E app \in App \cup {NoApp}, offered \in SUBSET Mime : Selection(app, offered)
  \/ \E c \in Clip, v \in Verdict : \E chain \in [DOMAIN v.path -> Group] : Finish(c, v, chain)
  \/ Discard
  \/ \E c \in Clip, t \in Word \cup {Same} : Create(c, t)
  \/ \E g \in Group, p \in groups \cup {Top}, n \in Name : GroupCreate(g, p, n)
  \/ \E g \in groups, n \in Name : GroupRename(g, n)
  \/ \E g \in groups, p \in groups \cup {Top} : GroupMove(g, p)
  \/ \E g \in groups, cascade \in BOOLEAN : GroupDelete(g, cascade)
  \/ \E c \in clips, u \in Update : ClipUpdate(c, u)
  \/ \E S \in SUBSET Clip, p \in groups \cup {Top} : ClipMove(S, p)
  \/ \E S \in SUBSET Clip \ {{}} : \E at \in Listing(S, 0) : ClipReorder(at)
  \/ \E S \in SUBSET clips : ClipDelete(S)
  \/ \E S \in SUBSET clips : Expire(S)
  \/ \E i, p \in R!RuleId, r \in R!Askable(groups) : RuleAdd(i, p, r)
  \/ \E i \in DOMAIN rules, r \in R!Askable(groups) : RuleSet(i, r)
  \/ \E i \in DOMAIN rules : RuleDelete(i)
  \/ \E S \in SUBSET R!RuleId \ {{}} : \E at \in Listing(S, 1) : RuleReorder(at, Cardinality(S))

Spec == Init /\ [][Next]_vars

-----------------------------------------------------------------------------
\* No two rules share a position, whatever is added, removed and reordered, so
\* which rule is first never hangs on an id SQLite hands out a second time.
RulesOrdered == R!OrdDistinct

\* A reorder keeps every pair of rules it does not name in its order and
\* behind the named ones (the comment at rules.c:241-243).
ReorderSpares ==
  [][ord' # ord => \A S \in SUBSET R!RuleId \ {{}} : \A at \in Listing(S, 1) :
       RuleReorder(at, Cardinality(S)) => R!ReorderSpares(at, Cardinality(S))]_vars
=============================================================================

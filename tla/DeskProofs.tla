---------------------------- MODULE DeskProofs ----------------------------
(***************************************************************************)
(* The tables a user arranges the history with, for any number of clips,   *)
(* groups, names, words, rules and verdicts of scripts, and any length of  *)
(* paths.  Each invariant is proved from the ones before it.               *)
(***************************************************************************)
EXTENDS Desk, TLAPS, FiniteSetTheorems, WellFoundedInduction

-----------------------------------------------------------------------------
(* Minima and the order of the rules. *)

\* A nonempty set of naturals has a least element.
LEMMA LeastNat ==
  ASSUME NEW N \in SUBSET Nat, N # {}
  PROVE  \E m \in N : \A n \in N : m <= n
<1>1. PICK m \in N : \A n \in N : <<n, m>> \notin OpToRel(<, Nat)
  BY NatLessThanWellFounded, WFMin
<1>2. \A n \in N : ~(n < m)
  BY <1>1 DEF OpToRel
<1> QED
  BY <1>2

\* Among some of the rules there is one no other comes before.
LEMMA FirstRule ==
  ASSUME R!RulesType, NEW I \in SUBSET DOMAIN rules, I # {}
  PROVE  \E i \in I : \A j \in I : ~R!Before(j, i)
<1> DEFINE Ords == {ord[i] : i \in I}
<1>1. \A i \in I : ord[i] \in Nat /\ i \in Nat
  BY DeskAssumption DEF R!RulesType, R!RuleId
<1>2. Ords \in SUBSET Nat /\ Ords # {}
  BY <1>1
<1>3. PICK p \in Ords : \A q \in Ords : p <= q
  BY <1>2, LeastNat
<1> DEFINE Ties == {i \in I : ord[i] = p}
<1>4. Ties \in SUBSET Nat /\ Ties # {}
  BY <1>1, <1>3
<1>5. PICK i \in Ties : \A j \in Ties : i <= j
  BY <1>4, LeastNat
<1>6. \A j \in I : ~R!Before(j, i)
  BY <1>1, <1>3, <1>5 DEF R!Before
<1> QED
  BY <1>5, <1>6

\* A rule sends a clip to a group that exists, or nowhere (rules_route).
LEMMA RouteExists ==
  ASSUME R!RulesType, NEW app, NEW live
  PROVE  R!Route(app, live) \in live \cup {Top}
<1> DEFINE Could == R!Routing(app, live)
<1>1. Could \in SUBSET DOMAIN rules /\ \A i \in Could : rules[i].group \in live
  BY DEF R!Routing, R!Enabled
<1>2. CASE Could = {}
  BY <1>2 DEF R!Route
<1>3. CASE Could # {}
  <2> DEFINE First == CHOOSE i \in Could : \A j \in Could : ~R!Before(j, i)
  <2>1. First \in Could
    BY <1>1, <1>3, FirstRule
  <2> QED
    BY <1>1, <1>3, <2>1 DEF R!Route
<1> QED
  BY <1>2, <1>3

\* The ids of rules are finitely many naturals.
LEMMA RuleIds == R!RuleId \subseteq Nat /\ IsFiniteSet(R!RuleId)
<1>1. R!RuleId = 1..MaxRule /\ MaxRule \in Nat
  BY DeskAssumption DEF R!RuleId, R!RulesConstants
<1> QED
  BY <1>1, FS_Interval

\* The module of the rules counts as this one does.
LEMMA SameCardinality == \A S : R!Cardinality(S) = Cardinality(S)
  BY Zenon DEF R!Cardinality, Cardinality

-----------------------------------------------------------------------------
(* Types. *)

\* A row stays a row when one of its fields is given a value of that field.
LEMMA RowFields ==
  ASSUME NEW r \in Row
  PROVE  /\ \A h \in Group \cup {Top} : [r EXCEPT !.home = h] \in Row
         /\ \A t \in Word \cup {None} : [r EXCEPT !.title = t] \in Row
         /\ \A w \in Word \cup {None} : [r EXCEPT !.word = w] \in Row
         /\ \A l \in BOOLEAN : [r EXCEPT !.locked = l] \in Row
         /\ \A b \in BOOLEAN, p \in Place : [r EXCEPT !.sticky = b, !.place = p] \in Row
         /\ \A p \in Place : [r EXCEPT !.place = p] \in Row
  BY DEF Row

LEMMA BlankRow == Blank \in Row
  BY GroupsAssumption DEF Blank, Row, Place

\* A clip made sticky, or not, differs in that and its place alone.
LEMMA StuckRow ==
  ASSUME NEW r \in Row, NEW where, NEW s \in Stuck(r, where)
  PROVE  /\ s \in Row
         /\ s.home = r.home
         /\ s = r \/ \E b \in BOOLEAN, p \in Place : s = [r EXCEPT !.sticky = b, !.place = p]
<1>0. 0 \in Place
  BY GroupsAssumption DEF Place
<1>1. CASE where = "off"
  <2>1. s = [r EXCEPT !.sticky = FALSE, !.place = 0]
    BY <1>1 DEF Stuck
  <2> QED
    BY <1>0, <2>1, RowFields DEF Row
<1>2. CASE where = "top"
  <2>1. PICK p \in Place : s = [r EXCEPT !.sticky = TRUE, !.place = p]
    BY <1>2 DEF Stuck
  <2> QED
    BY <2>1, RowFields DEF Row
<1>3. CASE where = "bottom"
  <2>1. PICK p \in Place : s = [r EXCEPT !.sticky = TRUE, !.place = p]
    BY <1>3 DEF Stuck
  <2> QED
    BY <2>1, RowFields DEF Row
<1>4. CASE where \notin {"off", "top", "bottom"}
  <2>1. s = r
    BY <1>4 DEF Stuck
  <2> QED
    BY <2>1
<1> QED
  BY <1>1, <1>2, <1>3, <1>4

\* What a subscriber is told is a row or that there is none.
LEMMA SayTyped ==
  ASSUME NEW S, Say(S), row' \in [Clip -> Row], GroupsType
  PROVE  seen' \in [Clip -> Row \cup {None}] /\ unsaid' \subseteq Clip
  BY DEF Say, GroupsType

\* The groups along a path are of the type, and so is the tree with them.
LEMMA PathTyped ==
  ASSUME GroupsType, NEW path \in Seq(Name), NEW chain \in [DOMAIN path -> Group],
         EnsurePath(path, chain)
  PROVE  /\ groups' \subseteq gborn' /\ gborn' \subseteq Group
         /\ parent' \in [groups' -> Group \cup {Top}] /\ name' \in [groups' -> Name]
<1> DEFINE Up(i) == IF i = 1 THEN Top ELSE chain[i - 1]
           Made == {chain[i] : i \in DOMAIN path} \ groups
           At(g) == CHOOSE i \in DOMAIN path : chain[i] = g
<1>1. \A g \in Made : At(g) \in DOMAIN path
  OBVIOUS
<1>2. \A i \in DOMAIN path : Up(i) \in Group \cup {Top} /\ path[i] \in Name
  <2> TAKE i \in DOMAIN path
  <2>1. i \in 1..Len(path) /\ DOMAIN path = 1..Len(path) /\ Len(path) \in Nat
    OBVIOUS
  <2>2. i # 1 => i - 1 \in DOMAIN path
    BY <2>1
  <2> QED
    BY <2>1, <2>2
<1>3. /\ groups' = groups \cup Made /\ gborn' = gborn \cup Made
      /\ parent' = [g \in groups' |-> IF g \in Made THEN Up(At(g)) ELSE parent[g]]
      /\ name' = [g \in groups' |-> IF g \in Made THEN path[At(g)] ELSE name[g]]
  BY DEF EnsurePath
<1>4. Made \subseteq Group
  OBVIOUS
<1>5. \A g \in Made : Up(At(g)) \in Group \cup {Top} /\ path[At(g)] \in Name
  BY <1>1, <1>2
<1>6. \A g \in groups' : g \notin Made => g \in groups /\ parent[g] \in Group \cup {Top} /\ name[g] \in Name
  BY <1>3 DEF GroupsType
<1> HIDE DEF Up, Made, At
<1> QED
  BY <1>3, <1>4, <1>5, <1>6 DEF GroupsType

\* What Stuck makes of the row a stored content gets.
LEMMA StoreTyped ==
  ASSUME GroupsType, NEW c \in Clip, NEW home \in Group \cup {Top}, NEW retitle,
         NEW v \in [path : Seq(Name), title : Word \cup {Same},
                    locked : BOOLEAN \cup {Same}, sticky : {Same, "top", "off"}],
         Store(c, home, v, retitle)
  PROVE  /\ clips' \subseteq cborn' /\ cborn' \subseteq Clip
         /\ row' \in [Clip -> Row] /\ seen' \in [Clip -> Row \cup {None}]
         /\ unsaid' \subseteq Clip /\ partial' \in BOOLEAN
<1> DEFINE isNew == c \notin clips
           base == IF isNew THEN [Blank EXCEPT !.home = home] ELSE row[c]
           titled == [base EXCEPT !.title = IF isNew \/ retitle THEN Given(@, v.title) ELSE @]
           told == [base EXCEPT !.title = IF isNew \/ retitle THEN Given(@, v.title) ELSE @,
                                 !.locked = Given(@, v.locked)]
<1>1. base \in Row
  BY BlankRow, RowFields DEF GroupsType
<1>2. told \in Row
  BY <1>1 DEF Row, Given
<1>3. PICK r \in Stuck(told, v.sticky) : row' = [row EXCEPT ![c] = r]
  BY DEF Store
<1>4. row' \in [Clip -> Row]
  <2> HIDE DEF told
  <2>1. r \in Row
    BY <1>2, <1>3, StuckRow
  <2> QED
    BY <1>3, <2>1 DEF GroupsType
<1>5. Say({c}) /\ clips' = clips \cup {c} /\ cborn' = cborn \cup {c} /\ partial' = partial
  BY DEF Store
<1> QED
  BY <1>4, <1>5, SayTyped DEF GroupsType

\* The tree keeps its type whatever a request does to it.
LEMMA TreeTyped ==
  ASSUME GroupsType
  PROVE  /\ \A g \in Group, n \in Name : \A p : CreateGroup(g, p, n) => GroupsType'
         /\ \A n \in Name : \A g : RenameGroup(g, n) => GroupsType'
         /\ \A g, p : MoveGroup(g, p) => GroupsType'
<1>1. ASSUME NEW g \in Group, NEW p, NEW n \in Name, CreateGroup(g, p, n) PROVE GroupsType'
  BY <1>1 DEF CreateGroup, GroupsType, list
<1>2. ASSUME NEW g, NEW n \in Name, RenameGroup(g, n) PROVE GroupsType'
  BY <1>2 DEF RenameGroup, GroupsType, list
<1>3. ASSUME NEW g, NEW p, MoveGroup(g, p) PROVE GroupsType'
  BY <1>3 DEF MoveGroup, GroupsType, list
<1> QED
  BY <1>1, <1>2, <1>3

\* A group's deletion keeps the type, of the tree and of the clips it lets go.
LEMMA DeleteTyped ==
  ASSUME GroupsType, NEW g, NEW cascade \in BOOLEAN, DeleteGroup(g, cascade)
  PROVE  GroupsType'
<1> DEFINE Sub == Below(g)
           Inside == {c \in clips : row[c].home \in Sub}
<1>1. /\ groups' = groups \ Sub
      /\ parent' = [h \in groups' |-> parent[h]] /\ name' = [h \in groups' |-> name[h]]
      /\ SayReset /\ UNCHANGED <<gborn, cborn, partial>>
  BY DEF DeleteGroup
<1>2. clips' \subseteq clips /\ row' \in [Clip -> Row]
  <2>1. CASE cascade
    BY <2>1, BlankRow DEF DeleteGroup, Gone, GroupsType
  <2>2. CASE ~cascade
    <3>1. \A c \in Clip : row[c] \in Row /\ [row[c] EXCEPT !.home = Top] \in Row
      BY RowFields DEF GroupsType
    <3> QED
      BY <2>2, <3>1 DEF DeleteGroup
  <2> QED
    BY <2>1, <2>2
<1>3. seen' \in [Clip -> Row \cup {None}] /\ unsaid' \subseteq Clip
  BY <1>1, <1>2, SayTyped DEF SayReset
<1> HIDE DEF Sub
<1> QED
  BY <1>1, <1>2, <1>3 DEF GroupsType

\* An update keeps the type, however far it gets.
LEMMA UpdateTyped ==
  ASSUME GroupsType, NEW c, NEW u, UpdateClip(c, u)
  PROVE  GroupsType'
<1> DEFINE titled == [row[c] EXCEPT !.title = Given(@, u.title)]
           worded == [titled EXCEPT !.word = Given(@, u.word), !.locked = Given(@, u.locked)]
<1>1. /\ c \in clips /\ c \in Clip /\ u \in Update /\ UNCHANGED <<tree, clips, cborn, partial>>
      /\ u.title \in Word \cup {Same, None} /\ u.word \in Word \cup {Same, None, Bad}
      /\ u.locked \in BOOLEAN \cup {Same}
  BY GroupsAssumption DEF UpdateClip, GroupsType
<1>2. titled \in Row
  <2>1. row[c] \in Row /\ Given(row[c].title, u.title) \in Word \cup {None}
    BY <1>1 DEF GroupsType, Given, Row
  <2>2. titled = [row[c] EXCEPT !.title = Given(row[c].title, u.title)]
    OBVIOUS
  <2> QED
    BY <2>1, <2>2, RowFields
<1>3. WordFree(c, u.word) => worded \in Row
  BY <1>1, <1>2 DEF WordFree, Given, Row
<1> HIDE DEF worded, titled
<1>4. row' \in [Clip -> Row] /\ (Say({c}) \/ (unsaid' = unsaid \cup {c} /\ UNCHANGED seen))
  <2>1. CASE ~WordFree(c, u.word)
    <3>1. row' = [row EXCEPT ![c] = titled] /\ Say({c})
      BY <2>1 DEF UpdateClip, titled
    <3> QED
      BY <1>2, <3>1 DEF GroupsType
  <2>2. CASE WordFree(c, u.word) /\ u.sticky = Bad
    <3>1. row' = [row EXCEPT ![c] = worded] /\ unsaid' = unsaid \cup {c} /\ UNCHANGED seen
      BY <2>2 DEF UpdateClip, worded, titled
    <3> QED
      BY <1>3, <2>2, <3>1 DEF GroupsType
  <2>3. CASE WordFree(c, u.word) /\ u.sticky # Bad
    <3>1. Say({c}) /\ \E r \in Stuck(worded, u.sticky) : row' = [row EXCEPT ![c] = r]
      BY <2>3 DEF UpdateClip, worded, titled
    <3>2. PICK r \in Stuck(worded, u.sticky) : row' = [row EXCEPT ![c] = r]
      BY <3>1
    <3>3. r \in Row
      BY <1>3, <2>3, <3>2, StuckRow
    <3>4. row' \in [Clip -> Row]
      BY <3>2, <3>3 DEF GroupsType
    <3> QED
      BY <3>1, <3>4
  <2> QED
    BY <2>1, <2>2, <2>3
<1>5. seen' \in [Clip -> Row \cup {None}] /\ unsaid' \subseteq Clip
  BY <1>1, <1>4, SayTyped DEF GroupsType
<1> QED
  BY <1>1, <1>4, <1>5 DEF GroupsType, tree

\* So do the requests that take several clips, and retention.
LEMMA ClipsTyped ==
  ASSUME GroupsType
  PROVE  /\ \A S, p : MoveClips(S, p) => GroupsType'
         /\ \A at : ReorderSticky(at) => GroupsType'
         /\ \A S : DeleteClips(S) \/ Retention(S) => GroupsType'
<1>1. ASSUME NEW S, NEW p, MoveClips(S, p) PROVE GroupsType'
  <2>1. p \in Group \cup {Top}
    BY <1>1 DEF MoveClips, GroupsType
  <2>2. \A c \in Clip : row[c] \in Row /\ [row[c] EXCEPT !.home = p] \in Row
    BY <2>1, RowFields DEF GroupsType
  <2>3. row' \in [Clip -> Row]
    BY <1>1, <2>2 DEF MoveClips
  <2> QED
    BY <1>1, <2>3, SayTyped DEF MoveClips, GroupsType, tree
<1>2. ASSUME NEW at, ReorderSticky(at) PROVE GroupsType'
  <2>1. \A c \in Clip : row[c] \in Row /\ (c \in DOMAIN at => [row[c] EXCEPT !.place = at[c]] \in Row)
    BY <1>2, RowFields DEF ReorderSticky, GroupsType
  <2>2. row' \in [Clip -> Row]
    BY <1>2, <2>1 DEF ReorderSticky
  <2>3. partial' \in BOOLEAN
    BY <1>2 DEF ReorderSticky
  <2> QED
    BY <1>2, <2>2, <2>3, SayTyped DEF ReorderSticky, SayReset, GroupsType, tree
<1>3. ASSUME NEW S, DeleteClips(S) \/ Retention(S) PROVE GroupsType'
  <2>1. Drop(S) /\ \E T : Say(T)
    BY <1>3 DEF DeleteClips, Retention, SayReset
  <2>2. row' \in [Clip -> Row]
    BY <2>1, BlankRow DEF Drop, Gone, GroupsType
  <2> QED
    BY <2>1, <2>2, SayTyped DEF Drop, GroupsType, tree
<1> QED
  BY <1>1, <1>2, <1>3

\* Editing the rules keeps the table of the type; a list of ids puts each of
\* them, and each rule it leaves out, at a natural place.
LEMMA RulesTyped ==
  ASSUME R!RulesType, groups \subseteq Group
  PROVE  /\ \A r : \A i \in R!RuleId, p \in R!RuleId : R!AddRule(i, p, r, groups) => R!RulesType'
         /\ \A i, r : R!ChangeRule(i, r, groups) => R!RulesType'
         /\ \A i : R!DeleteRule(i) => R!RulesType'
         /\ \A S \in SUBSET R!RuleId : \A at \in Listing(S, 1) :
              R!ReorderRules(at, Cardinality(S)) => R!RulesType'
<1>0. R!RuleId \subseteq Nat /\ IsFiniteSet(R!RuleId)
  BY RuleIds
<1>1. R!Askable(groups) \subseteq R!Rule
  <2>1. RuleSpec \subseteq R!Rule
    BY DeskAssumption DEF R!RulesConstants
  <2>2. \A s \in RuleSpec, g \in groups : R!ToGroup(s, g) \in R!Rule
    BY <2>1 DEF R!Rule, R!Action, R!ToGroup
  <2> QED
    BY <2>1, <2>2 DEF R!Askable
<1>2. ASSUME NEW i \in R!RuleId, NEW p \in R!RuleId, NEW r, R!AddRule(i, p, r, groups) PROVE R!RulesType'
  BY <1>0, <1>1, <1>2 DEF R!AddRule, R!RulesType
<1>3. ASSUME NEW i, NEW r, R!ChangeRule(i, r, groups) PROVE R!RulesType'
  BY <1>1, <1>3 DEF R!ChangeRule, R!RulesType
<1>4. ASSUME NEW i, R!DeleteRule(i) PROVE R!RulesType'
  BY <1>4 DEF R!DeleteRule, R!RulesType
<1>5. ASSUME NEW S \in SUBSET R!RuleId, NEW at \in Listing(S, 1), R!ReorderRules(at, Cardinality(S))
      PROVE  R!RulesType'
  <2> DEFINE Rest == DOMAIN rules \ DOMAIN at
             Ahead(i) == {j \in Rest : j = i \/ R!Before(j, i)}
  <2>1. Cardinality(S) \in Nat
    BY <1>0, FS_Subset, FS_CardinalityType
  <2>2. \A i : Cardinality(Ahead(i)) \in Nat
    <3> TAKE i
    <3>1. Ahead(i) \in SUBSET R!RuleId
      BY DEF R!RulesType
    <3> HIDE DEF Ahead
    <3> QED
      BY <1>0, <3>1, FS_Subset, FS_CardinalityType
  <2>3. \A i \in DOMAIN at : at[i] \in Nat
    BY <2>1 DEF Listing
  <2>4. /\ ord' = [i \in DOMAIN rules |-> IF i \in DOMAIN at THEN at[i] ELSE Cardinality(S) + R!Cardinality(Ahead(i))]
        /\ rules' = rules
    BY <1>5, Zenon DEF R!ReorderRules
  <2> HIDE DEF Ahead
  <2> QED
    BY <2>1, <2>2, <2>3, <2>4, SameCardinality DEF R!RulesType
<1> QED
  BY <1>2, <1>3, <1>4, <1>5

\* A fresh database is of the type.
LEMMA TypeInit == Init => TypeOK
<1> SUFFICES ASSUME Init PROVE TypeOK
  OBVIOUS
<1>1. GroupsType
  BY BlankRow DEF Init, GroupsInit, GroupsType
<1>2. R!RulesType
  BY DeskAssumption DEF Init, R!RulesInit, R!RulesType, R!RuleId, R!RulesConstants
<1> QED
  BY <1>1, <1>2, DeskAssumption DEF Init, TypeOK

\* The end of a capture keeps the type, whatever a script said.
LEMMA FinishTyped ==
  ASSUME TypeOK, NEW c \in Clip, NEW v \in Verdict, NEW chain \in [DOMAIN v.path -> Group],
         Finish(c, v, chain)
  PROVE  GroupsType'
<1> DEFINE home == IF v.path = <<>> THEN R!Route(reading, groups) ELSE chain[Len(v.path)]
<1>0. GroupsType /\ R!RulesType
  BY DEF TypeOK
<1>1. v \in [path : Seq(Name), title : Word \cup {Same},
             locked : BOOLEAN \cup {Same}, sticky : {Same, "top", "off"}]
  BY DeskAssumption
<1>2. v.path \in Seq(Name)
  BY <1>1
<1>3. groups' \subseteq gborn' /\ gborn' \subseteq Group
      /\ parent' \in [groups' -> Group \cup {Top}] /\ name' \in [groups' -> Name]
  <2>1. CASE v.path = <<>>
    BY <1>0, <2>1 DEF Finish, tree, GroupsType
  <2>2. CASE v.path # <<>>
    <3>1. EnsurePath(v.path, chain)
      BY <2>2 DEF Finish
    <3> QED
      BY <1>0, <1>2, <3>1, PathTyped
  <2> QED
    BY <2>1, <2>2
<1>4. home \in Group \cup {Top}
  <2>1. CASE v.path = <<>>
    <3>1. R!Route(reading, groups) \in groups \cup {Top}
      BY <1>0, RouteExists
    <3> QED
      BY <1>0, <2>1, <3>1 DEF GroupsType
  <2>2. CASE v.path # <<>>
    <3>1. Len(v.path) \in DOMAIN v.path
      BY <1>2, <2>2
    <3> QED
      BY <2>2, <3>1
  <2> QED
    BY <2>1, <2>2
<1>5. Store(c, home, v, TRUE)
  BY DEF Finish
<1> HIDE DEF home
<1>6. /\ clips' \subseteq cborn' /\ cborn' \subseteq Clip
      /\ row' \in [Clip -> Row] /\ seen' \in [Clip -> Row \cup {None}]
      /\ unsaid' \subseteq Clip /\ partial' \in BOOLEAN
  BY <1>0, <1>1, <1>4, <1>5, StoreTyped
<1> QED
  BY <1>3, <1>6 DEF GroupsType

\* So does content a client stores by itself.
LEMMA CreateTyped ==
  ASSUME TypeOK, NEW c \in Clip, NEW t \in Word \cup {Same}, Create(c, t)
  PROVE  GroupsType'
<1> DEFINE v == [Silent EXCEPT !.title = t]
<1>1. v \in [path : Seq(Name), title : Word \cup {Same},
             locked : BOOLEAN \cup {Same}, sticky : {Same, "top", "off"}]
  <2>1. Silent \in [path : Seq(Name), title : Word \cup {Same},
                    locked : BOOLEAN \cup {Same}, sticky : {Same, "top", "off"}]
    BY DeskAssumption
  <2> QED
    BY <2>1
<1>2. Store(c, Top, v, FALSE) /\ UNCHANGED tree
  BY DEF Create
<1> HIDE DEF v
<1> QED
  BY <1>1, <1>2, StoreTyped DEF TypeOK, GroupsType, tree

\* Every request, every step of a capture and retention keep the type.
LEMMA TypeStep == TypeOK /\ [Next]_vars => TypeOK'
<1> SUFFICES ASSUME TypeOK, [Next]_vars PROVE TypeOK'
  OBVIOUS
<1>0. GroupsType /\ R!RulesType /\ reading \in App \cup {NoApp, None} /\ edits \in 0..MaxEdits
      /\ groups \subseteq Group
  BY DEF TypeOK, GroupsType
<1>a. ASSUME edits < MaxEdits, edits' = edits + 1 PROVE edits' \in 0..MaxEdits
  BY <1>0, <1>a, DeskAssumption
<1>b. ASSUME UNCHANGED <<rules, ord>> PROVE R!RulesType'
  BY <1>0, <1>b DEF R!RulesType
<1>c. ASSUME UNCHANGED desk PROVE GroupsType'
  BY <1>0, <1>c DEF GroupsType, desk, tree, list
<1>d. ASSUME Ask, GroupsType' PROVE TypeOK'
  BY <1>0, <1>a, <1>b, <1>d DEF Ask, TypeOK
<1>e. ASSUME Quiet, GroupsType' PROVE TypeOK'
  BY <1>0, <1>b, <1>e DEF Quiet, TypeOK
<1>f. ASSUME AskRules, R!RulesType' PROVE TypeOK'
  BY <1>0, <1>a, <1>c, <1>f DEF AskRules, TypeOK
<1>1. ASSUME NEW app \in App \cup {NoApp}, NEW offered, Selection(app, offered) PROVE TypeOK'
  BY <1>0, <1>1, <1>a, <1>b, <1>c DEF Selection, TypeOK
<1>2. ASSUME NEW c \in Clip, NEW v \in Verdict, NEW chain \in [DOMAIN v.path -> Group], Finish(c, v, chain)
      PROVE  TypeOK'
  <2>1. reading' = None /\ UNCHANGED <<rules, ord, edits>>
    BY <1>2 DEF Finish
  <2> QED
    BY <1>0, <1>2, <1>b, <2>1, FinishTyped DEF TypeOK
<1>3. CASE Discard
  BY <1>0, <1>3, <1>b, <1>c DEF Discard, TypeOK
<1>4. ASSUME NEW c \in Clip, NEW t \in Word \cup {Same}, Create(c, t) PROVE TypeOK'
  BY <1>4, <1>e, CreateTyped DEF Create
<1>5. ASSUME NEW g \in Group, NEW p, NEW n \in Name, GroupCreate(g, p, n) PROVE TypeOK'
  <2>1. CreateGroup(g, p, n) /\ Quiet
    BY <1>5 DEF GroupCreate
  <2>2. GroupsType'
    BY <1>0, <2>1, TreeTyped
  <2> QED
    BY <1>e, <2>1, <2>2
<1>6. ASSUME NEW g, NEW n \in Name, GroupRename(g, n) PROVE TypeOK'
  <2>1. RenameGroup(g, n) /\ Ask
    BY <1>6 DEF GroupRename
  <2>2. GroupsType'
    BY <1>0, <2>1, TreeTyped
  <2> QED
    BY <1>d, <2>1, <2>2
<1>7. ASSUME NEW g, NEW p, GroupMove(g, p) PROVE TypeOK'
  BY <1>0, <1>7, <1>d, TreeTyped DEF GroupMove
<1>8. ASSUME NEW g, NEW cascade \in BOOLEAN, GroupDelete(g, cascade) PROVE TypeOK'
  BY <1>0, <1>8, <1>d, DeleteTyped DEF GroupDelete
<1>9. ASSUME NEW c, NEW u, ClipUpdate(c, u) PROVE TypeOK'
  BY <1>0, <1>9, <1>d, UpdateTyped DEF ClipUpdate
<1>10. ASSUME NEW S, NEW p, ClipMove(S, p) PROVE TypeOK'
  BY <1>0, <1>10, <1>d, ClipsTyped DEF ClipMove
<1>11. ASSUME NEW at, ClipReorder(at) PROVE TypeOK'
  BY <1>0, <1>11, <1>d, ClipsTyped DEF ClipReorder
<1>12. ASSUME NEW S, ClipDelete(S) \/ Expire(S) PROVE TypeOK'
  BY <1>0, <1>12, <1>d, ClipsTyped DEF ClipDelete, Expire
<1>13. ASSUME NEW i \in R!RuleId, NEW p \in R!RuleId, NEW r, RuleAdd(i, p, r) PROVE TypeOK'
  BY <1>0, <1>13, <1>f, RulesTyped DEF RuleAdd
<1>14. ASSUME NEW i, NEW r, RuleSet(i, r) PROVE TypeOK'
  BY <1>0, <1>14, <1>f, RulesTyped DEF RuleSet
<1>15. ASSUME NEW i, RuleDelete(i) PROVE TypeOK'
  BY <1>0, <1>15, <1>f, RulesTyped DEF RuleDelete
<1>16. ASSUME NEW S \in SUBSET R!RuleId, NEW at \in Listing(S, 1), RuleReorder(at, Cardinality(S))
       PROVE  TypeOK'
  BY <1>0, <1>16, <1>f, RulesTyped DEF RuleReorder
<1>17. CASE UNCHANGED vars
  BY <1>0, <1>17, <1>b, <1>c DEF vars, TypeOK
<1> QED
  BY <1>1, <1>2, <1>3, <1>4, <1>5, <1>6, <1>7, <1>8, <1>9, <1>10, <1>11, <1>12, <1>13, <1>14,
     <1>15, <1>16, <1>17 DEF Next

\* The types, for every database a user can arrange.
THEOREM DeskTyped == Spec => []TypeOK
  BY TypeInit, TypeStep, PTL DEF Spec

-----------------------------------------------------------------------------
(* What the requests do to the rows of the clips. *)

\* A clip made sticky gets a place no other has.
LEMMA StuckPlace ==
  ASSUME GroupsType, NEW r \in Row, NEW where, NEW s \in Stuck(r, where), s.sticky
  PROVE  (r.sticky /\ s.place = r.place) \/ s.place \notin Places
<1>0. \A p \in Places : p \in Int
  BY DEF Places, Sticky, GroupsType, Row, Place
<1>1. CASE where = "off"
  <2>1. s = [r EXCEPT !.sticky = FALSE, !.place = 0]
    BY <1>1 DEF Stuck
  <2> QED
    BY <2>1 DEF Row
<1>2. CASE where = "top"
  <2>1. PICK p \in Place : IsTop(p) /\ s = [r EXCEPT !.sticky = TRUE, !.place = p]
    BY <1>2 DEF Stuck
  <2>2. p \notin Places
    BY <1>0, <2>1 DEF IsTop, Place
  <2> QED
    BY <2>1, <2>2 DEF Row
<1>3. CASE where = "bottom"
  <2>1. PICK p \in Place : IsBottom(p) /\ s = [r EXCEPT !.sticky = TRUE, !.place = p]
    BY <1>3 DEF Stuck
  <2>2. p \notin Places
    BY <1>0, <2>1 DEF IsBottom, Place
  <2> QED
    BY <2>1, <2>2 DEF Row
<1>4. CASE where \notin {"off", "top", "bottom"}
  <2>1. s = r
    BY <1>4 DEF Stuck
  <2> QED
    BY <2>1
<1> QED
  BY <1>1, <1>2, <1>3, <1>4

\* A new row goes where it is sent; an old one stays in its group.
LEMMA StoreRow ==
  ASSUME GroupsType, NEW c \in Clip, NEW home \in Group \cup {Top}, NEW retitle,
         NEW v \in [path : Seq(Name), title : Word \cup {Same},
                    locked : BOOLEAN \cup {Same}, sticky : {Same, "top", "off"}],
         Store(c, home, v, retitle)
  PROVE  /\ \A d \in Clip \ {c} : row'[d] = row[d]
         /\ row'[c].home = IF c \in clips THEN row[c].home ELSE home
         /\ row'[c].sticky => (c \in clips /\ row[c].sticky /\ row'[c].place = row[c].place)
                              \/ row'[c].place \notin Places
         /\ clips' = clips \cup {c} /\ partial' = partial /\ Say({c})
<1> DEFINE isNew == c \notin clips
           base == IF isNew THEN [Blank EXCEPT !.home = home] ELSE row[c]
           told == [base EXCEPT !.title = IF isNew \/ retitle THEN Given(@, v.title) ELSE @,
                                 !.locked = Given(@, v.locked)]
<1>1. base \in Row /\ base.home = IF c \in clips THEN row[c].home ELSE home
  <2>1. [Blank EXCEPT !.home = home] \in Row /\ [Blank EXCEPT !.home = home].home = home
    BY BlankRow, RowFields DEF Blank
  <2>2. row[c] \in Row
    BY DEF GroupsType
  <2> QED
    BY <2>1, <2>2
<1>2. base.sticky => c \in clips /\ base = row[c]
  BY DEF Blank
<1>3. told \in Row /\ told.home = base.home /\ told.sticky = base.sticky /\ told.place = base.place
  BY <1>1 DEF Row, Given
<1>4. PICK r \in Stuck(told, v.sticky) : row' = [row EXCEPT ![c] = r]
  BY DEF Store
<1>5. row'[c] = r /\ \A d \in Clip \ {c} : row'[d] = row[d]
  BY <1>4 DEF GroupsType
<1>6. clips' = clips \cup {c} /\ partial' = partial /\ Say({c})
  BY DEF Store
<1> HIDE DEF told, base
<1>7. r.home = told.home /\ (r.sticky => (told.sticky /\ r.place = told.place) \/ r.place \notin Places)
  BY <1>3, <1>4, StuckRow, StuckPlace
<1> QED
  BY <1>1, <1>2, <1>3, <1>5, <1>6, <1>7

\* An update leaves a clip in its group, and what is not announced is noted.
LEMMA UpdateRow ==
  ASSUME GroupsType, NEW c, NEW u, UpdateClip(c, u)
  PROVE  /\ c \in clips /\ c \in Clip /\ UNCHANGED <<tree, clips, partial>>
         /\ \A d \in Clip \ {c} : row'[d] = row[d]
         /\ row'[c].home = row[c].home
         /\ row'[c].sticky => (row[c].sticky /\ row'[c].place = row[c].place) \/ row'[c].place \notin Places
         /\ Say({c}) \/ (unsaid' = unsaid \cup {c} /\ UNCHANGED seen)
<1> DEFINE titled == [row[c] EXCEPT !.title = Given(@, u.title)]
           worded == [titled EXCEPT !.word = Given(@, u.word), !.locked = Given(@, u.locked)]
<1>1. /\ c \in clips /\ c \in Clip /\ u \in Update /\ UNCHANGED <<tree, clips, partial>>
      /\ u.title \in Word \cup {Same, None} /\ u.word \in Word \cup {Same, None, Bad}
      /\ u.locked \in BOOLEAN \cup {Same}
  BY GroupsAssumption DEF UpdateClip, GroupsType
<1>2. row[c] \in Row /\ row \in [Clip -> Row]
  BY <1>1 DEF GroupsType
<1>3. titled.home = row[c].home /\ titled.sticky = row[c].sticky /\ titled.place = row[c].place
  BY <1>2 DEF Row
<1>4. worded.home = row[c].home /\ worded.sticky = row[c].sticky /\ worded.place = row[c].place
  BY <1>2 DEF Row
<1>5. WordFree(c, u.word) => worded \in Row
  BY <1>1, <1>2 DEF WordFree, Given, Row
<1>6. \/ row' = [row EXCEPT ![c] = titled] /\ Say({c})
      \/ row' = [row EXCEPT ![c] = worded] /\ unsaid' = unsaid \cup {c} /\ UNCHANGED seen
      \/ WordFree(c, u.word) /\ Say({c}) /\ \E r \in Stuck(worded, u.sticky) : row' = [row EXCEPT ![c] = r]
  BY DEF UpdateClip
<1> HIDE DEF worded, titled
<1>7. CASE row' = [row EXCEPT ![c] = titled] /\ Say({c})
  BY <1>1, <1>2, <1>3, <1>7
<1>8. CASE row' = [row EXCEPT ![c] = worded] /\ unsaid' = unsaid \cup {c} /\ UNCHANGED seen
  BY <1>1, <1>2, <1>4, <1>8
<1>9. CASE WordFree(c, u.word) /\ Say({c}) /\ \E r \in Stuck(worded, u.sticky) : row' = [row EXCEPT ![c] = r]
  <2>1. PICK r \in Stuck(worded, u.sticky) : row' = [row EXCEPT ![c] = r]
    BY <1>9
  <2>2. r.home = worded.home /\ (r.sticky => (worded.sticky /\ r.place = worded.place) \/ r.place \notin Places)
    BY <1>5, <1>9, <2>1, StuckRow, StuckPlace
  <2>3. row'[c] = r /\ \A d \in Clip \ {c} : row'[d] = row[d]
    BY <1>1, <1>2, <2>1
  <2> QED
    BY <1>1, <1>4, <1>9, <2>2, <2>3
<1> QED
  BY <1>6, <1>7, <1>8, <1>9

-----------------------------------------------------------------------------
(* The tree of groups. *)

\* A step of Next that leaves the tree alone, and what the others do to it.
TreeStep ==
  \/ UNCHANGED <<groups, parent>>
  \/ \E g \in Group, n \in Name : \E p : CreateGroup(g, p, n)
  \/ \E g : \E p : MoveGroup(g, p)
  \/ \E g : \E cascade \in BOOLEAN : DeleteGroup(g, cascade)
  \/ \E path \in Seq(Name) : \E chain \in [DOMAIN path -> Group] : path # <<>> /\ EnsurePath(path, chain)

LEMMA TreeSteps == TypeOK /\ [Next]_vars => TreeStep
<1> SUFFICES ASSUME TypeOK, [Next]_vars PROVE TreeStep
  OBVIOUS
<1>1. ASSUME NEW c \in Clip, NEW v \in Verdict, NEW chain \in [DOMAIN v.path -> Group], Finish(c, v, chain)
      PROVE  TreeStep
  <2>1. v.path \in Seq(Name)
    BY DeskAssumption
  <2>2. CASE v.path = <<>>
    BY <1>1, <2>2 DEF Finish, tree, TreeStep
  <2>3. CASE v.path # <<>>
    BY <1>1, <2>1, <2>3 DEF Finish, TreeStep
  <2> QED
    BY <2>2, <2>3
<1>2. ASSUME NEW g \in Group, NEW p, NEW n \in Name, GroupCreate(g, p, n) PROVE TreeStep
  BY <1>2 DEF GroupCreate, TreeStep
<1>3. ASSUME NEW g, NEW p, GroupMove(g, p) PROVE TreeStep
  BY <1>3 DEF GroupMove, TreeStep
<1>4. ASSUME NEW g, NEW cascade \in BOOLEAN, GroupDelete(g, cascade) PROVE TreeStep
  BY <1>4 DEF GroupDelete, TreeStep
<1>5. CASE UNCHANGED <<groups, parent>>
  BY <1>5 DEF TreeStep
<1>6. ASSUME NEW c, NEW u, ClipUpdate(c, u) PROVE UNCHANGED <<groups, parent>>
  BY <1>6 DEF ClipUpdate, UpdateClip, tree
<1>7. CASE \E i \in R!RuleId, p \in R!RuleId, r \in R!Askable(groups) : RuleAdd(i, p, r)
  BY <1>5, <1>7 DEF RuleAdd, AskRules, desk, tree
<1>8. CASE Discard \/ (\E app, offered : Selection(app, offered)) \/ UNCHANGED vars
  BY <1>5, <1>8 DEF Discard, Selection, vars, desk, tree
<1>9. CASE \E c, t : Create(c, t)
  BY <1>5, <1>9 DEF Create, tree
<1>10. CASE \E g, n : GroupRename(g, n)
  BY <1>5, <1>10 DEF GroupRename, RenameGroup
<1>11. CASE \E S, p : ClipMove(S, p)
  BY <1>5, <1>11 DEF ClipMove, MoveClips, tree
<1>12. CASE \E at : ClipReorder(at)
  BY <1>5, <1>12 DEF ClipReorder, ReorderSticky, tree
<1>13. CASE \E S : ClipDelete(S) \/ Expire(S)
  BY <1>5, <1>13 DEF ClipDelete, Expire, DeleteClips, Retention, Drop, tree
<1>14. CASE (\E i, r : RuleSet(i, r)) \/ (\E i : RuleDelete(i)) \/ (\E at, n : RuleReorder(at, n))
  BY <1>5, <1>14 DEF RuleSet, RuleDelete, RuleReorder, AskRules, desk, tree
<1> QED
  BY <1>1, <1>2, <1>3, <1>4, <1>5, <1>6, <1>7, <1>8, <1>9, <1>10, <1>11, <1>12, <1>13, <1>14 DEF Next

\* With a group, everything inside it goes: a group whose parent is below g is
\* below g itself.
LEMMA BelowClosed ==
  ASSUME NEW g \in groups, NEW h \in groups
  PROVE  /\ g \in Below(g)
         /\ parent[h] \in Below(g) => h \in Below(g)
<1>1. g \in Below(g)
  BY DEF Below
<1>2. ASSUME parent[h] \in Below(g) PROVE h \in Below(g)
  <2>1. SUFFICES ASSUME NEW S \in SUBSET groups, g \in S, ClosedBelow(S) PROVE h \in S
    BY DEF Below
  <2>2. parent[h] \in S
    BY <1>2, <2>1 DEF Below
  <2> QED
    BY <2>1, <2>2 DEF ClosedBelow
<1> QED
  BY <1>1, <1>2

\* What a path makes: each group made is new and made once, inside the group
\* before it on the path, or at the top.
LEMMA PathMade ==
  ASSUME GroupsType, NEW path \in Seq(Name), NEW chain \in [DOMAIN path -> Group],
         EnsurePath(path, chain)
  PROVE  LET Made == {chain[i] : i \in DOMAIN path} \ groups IN
         /\ groups' = groups \cup Made
         /\ \A g \in groups : parent'[g] = parent[g]
         /\ \A i \in DOMAIN path : chain[i] \in Made =>
              parent'[chain[i]] = IF i = 1 THEN Top ELSE chain[i - 1]
<1> DEFINE Up(i) == IF i = 1 THEN Top ELSE chain[i - 1]
           Made == {chain[i] : i \in DOMAIN path} \ groups
           At(g) == CHOOSE i \in DOMAIN path : chain[i] = g
<1>1. /\ groups' = groups \cup Made
      /\ parent' = [g \in groups' |-> IF g \in Made THEN Up(At(g)) ELSE parent[g]]
  BY DEF EnsurePath
<1>2. DOMAIN path = 1..Len(path) /\ Len(path) \in Nat
  OBVIOUS
<1>3. ASSUME NEW i \in DOMAIN path, NEW j \in DOMAIN path, chain[i] \in Made, i < j
      PROVE  chain[j] # chain[i]
  <2>1. SUFFICES ASSUME chain[j] = chain[i] PROVE FALSE
    OBVIOUS
  <2>2. chain[j] \notin groups
    BY <1>3, <2>1
  <2>3. IsNew(chain[j], Group, gborn \cup {chain[k] : k \in 1..(j - 1)})
    BY <2>2 DEF EnsurePath
  <2>4. chain[i] \in {chain[k] : k \in 1..(j - 1)}
    BY <1>2, <1>3
  <2>5. chain[j] \in Group \ (gborn \cup {chain[k] : k \in 1..(j - 1)})
    BY <2>3 DEF IsNew
  <2> QED
    BY <2>1, <2>4, <2>5
<1>4. ASSUME NEW i \in DOMAIN path, chain[i] \in Made PROVE At(chain[i]) = i
  <2>1. At(chain[i]) \in DOMAIN path /\ chain[At(chain[i])] = chain[i]
    OBVIOUS
  <2> HIDE DEF At
  <2>2. ~(At(chain[i]) < i) /\ ~(i < At(chain[i]))
    BY <1>3, <1>4, <2>1
  <2> QED
    BY <1>2, <2>1, <2>2
<1>5. \A g \in groups : parent'[g] = parent[g]
  BY <1>1
<1> HIDE DEF At
<1>6. \A i \in DOMAIN path : chain[i] \in Made => parent'[chain[i]] = Up(i)
  BY <1>1, <1>4
<1> QED
  BY <1>1, <1>5, <1>6

\* Every group's parent exists.
ParentsExist == \A g \in groups : parent[g] \in groups \cup {Top}

LEMMA ParentsStep == TypeOK /\ ParentsExist /\ TreeStep => ParentsExist'
<1> SUFFICES ASSUME TypeOK, ParentsExist, TreeStep PROVE ParentsExist'
  OBVIOUS
<1>0. GroupsType
  BY DEF TypeOK
<1>1. CASE UNCHANGED <<groups, parent>>
  BY <1>1 DEF ParentsExist
<1>2. ASSUME NEW g \in Group, NEW p, NEW n, CreateGroup(g, p, n) PROVE ParentsExist'
  BY <1>2 DEF CreateGroup, ParentsExist
<1>3. ASSUME NEW g, NEW p, MoveGroup(g, p) PROVE ParentsExist'
  BY <1>0, <1>3 DEF MoveGroup, ParentsExist, GroupsType
<1>4. ASSUME NEW g, NEW cascade \in BOOLEAN, DeleteGroup(g, cascade) PROVE ParentsExist'
  <2>1. g \in groups /\ groups' = groups \ Below(g) /\ parent' = [h \in groups' |-> parent[h]]
    BY <1>4 DEF DeleteGroup
  <2>2. \A h \in groups : h \notin Below(g) => parent[h] \notin Below(g)
    BY <2>1, BelowClosed
  <2> QED
    BY <2>1, <2>2 DEF ParentsExist
<1>5. ASSUME NEW path \in Seq(Name), NEW chain \in [DOMAIN path -> Group], EnsurePath(path, chain)
      PROVE  ParentsExist'
  <2> DEFINE Made == {chain[i] : i \in DOMAIN path} \ groups
  <2>1. /\ groups' = groups \cup Made
        /\ \A g \in groups : parent'[g] = parent[g]
        /\ \A i \in DOMAIN path : chain[i] \in Made =>
             parent'[chain[i]] = IF i = 1 THEN Top ELSE chain[i - 1]
    BY <1>0, <1>5, PathMade
  <2>2. \A i \in DOMAIN path : i # 1 => chain[i - 1] \in groups \cup Made
    <3> TAKE i \in DOMAIN path
    <3>1. i # 1 => i - 1 \in DOMAIN path
      OBVIOUS
    <3> QED
      BY <3>1
  <2>3. \A g \in Made : parent'[g] \in groups \cup Made \cup {Top}
    BY <2>1, <2>2
  <2> HIDE DEF Made
  <2> QED
    BY <2>1, <2>3 DEF ParentsExist
<1> QED
  BY <1>1, <1>2, <1>3, <1>4, <1>5 DEF TreeStep

\* The heart of the tree: whichever groups one looks at, one of them hangs from
\* elsewhere, because a group is never moved below itself (within, db_edit.c:260).
LEMMA ForestStep == TypeOK /\ ParentsExist /\ Forest /\ TreeStep => Forest'
<1> SUFFICES ASSUME TypeOK, ParentsExist, Forest, TreeStep,
                    NEW S \in SUBSET groups', S # {}, \A h \in S : parent'[h] \in S
             PROVE  FALSE
  BY DEF Forest
<1>0. GroupsType /\ groups \subseteq Group /\ Top \notin Group
  BY GroupsAssumption DEF TypeOK, GroupsType
\* Old groups that keep their parents, all of them in S, would be a cycle before.
<1>a. ASSUME S \cap groups # {}, \A h \in S \cap groups : parent'[h] = parent[h], groups' \subseteq Group
      PROVE  FALSE
  <2>1. S \cap groups \in SUBSET groups
    OBVIOUS
  <2>2. PICK h \in S \cap groups : parent[h] \notin S \cap groups
    BY <1>a, <2>1 DEF Forest
  <2>3. parent[h] \in S /\ parent[h] \in groups \cup {Top}
    BY <1>a, <2>2 DEF ParentsExist
  <2> QED
    BY <1>0, <1>a, <2>2, <2>3
<1>1. CASE UNCHANGED <<groups, parent>>
  BY <1>1 DEF Forest
<1>2. ASSUME NEW g \in Group, NEW p, NEW n, CreateGroup(g, p, n) PROVE FALSE
  <2>1. /\ groups' = groups \cup {g} /\ g \notin groups /\ p \in groups \cup {Top}
        /\ parent' = [h \in groups' |-> IF h = g THEN p ELSE parent[h]]
    BY <1>0, <1>2 DEF CreateGroup, IsNew, GroupsType
  <2>2. S \cap groups = {}
    BY <1>0, <1>a, <2>1
  <2>3. S = {g} /\ parent'[g] = p
    BY <2>1, <2>2
  <2> QED
    BY <1>0, <2>1, <2>3
<1>3. ASSUME NEW g, NEW p, MoveGroup(g, p) PROVE FALSE
  <2>1. /\ g \in groups /\ groups' = groups /\ parent' = [parent EXCEPT ![g] = p]
        /\ p \in groups \cup {Top} /\ (p \in groups => p \notin Below(g))
        /\ parent'[g] = p /\ \A h \in groups \ {g} : parent'[h] = parent[h]
    BY <1>0, <1>3 DEF MoveGroup, GroupsType
  <2>2. g \in S
    BY <1>0, <1>a, <2>1
  <2>3. p \in S /\ p \in groups /\ p \notin Below(g)
    BY <1>0, <2>1, <2>2
  <2>4. PICK W \in SUBSET groups : g \in W /\ ClosedBelow(W) /\ p \notin W
    BY <2>3 DEF Below
  <2>5. PICK h \in S \ W : parent[h] \notin S \ W
    <3>1. S \ W \in SUBSET groups /\ S \ W # {}
      BY <2>1, <2>3, <2>4
    <3> QED
      BY <3>1 DEF Forest
  <2>6. parent[h] \in S /\ h \in groups
    BY <2>1, <2>4, <2>5
  <2>7. parent[h] \notin W
    BY <2>4, <2>5, <2>6 DEF ClosedBelow
  <2> QED
    BY <2>5, <2>6, <2>7
<1>4. ASSUME NEW g, NEW cascade \in BOOLEAN, DeleteGroup(g, cascade) PROVE FALSE
  BY <1>0, <1>4, <1>a DEF DeleteGroup
<1>5. ASSUME NEW path \in Seq(Name), NEW chain \in [DOMAIN path -> Group], EnsurePath(path, chain)
      PROVE  FALSE
  <2> DEFINE Made == {chain[i] : i \in DOMAIN path} \ groups
             I == {i \in DOMAIN path : chain[i] \in S \cap Made}
  <2>1. /\ groups' = groups \cup Made
        /\ \A g \in groups : parent'[g] = parent[g]
        /\ \A i \in DOMAIN path : chain[i] \in Made =>
             parent'[chain[i]] = IF i = 1 THEN Top ELSE chain[i - 1]
    BY <1>0, <1>5, PathMade
  <2>2. groups' \subseteq Group
    BY <1>0, <2>1
  <2>3. S \subseteq Made
    BY <1>a, <2>1, <2>2
  <2>4. DOMAIN path \subseteq Nat \ {0}
    OBVIOUS
  <2>5. I # {} /\ I \in SUBSET Nat
    BY <2>3, <2>4
  <2>6. PICK m \in I : \A i \in I : m <= i
    BY <2>5, LeastNat
  <2>7. parent'[chain[m]] \in S
    BY <2>6
  <2>8. m # 1 /\ chain[m - 1] \in S
    BY <1>0, <2>1, <2>2, <2>6, <2>7
  <2>9. m - 1 \in DOMAIN path
    BY <2>6, <2>8
  <2>10. m - 1 \in I
    BY <2>3, <2>8, <2>9
  <2> QED
    BY <2>4, <2>6, <2>10
<1> QED
  BY <1>1, <1>2, <1>3, <1>4, <1>5 DEF TreeStep

-----------------------------------------------------------------------------
(* The clips. *)

VerdictShape == [path : Seq(Name), title : Word \cup {Same},
                 locked : BOOLEAN \cup {Same}, sticky : {Same, "top", "off"}]

\* What the steps of Next do to the clips, the groups growing but for a deletion.
ClipStep ==
  \/ \E g : \E cascade \in BOOLEAN : DeleteGroup(g, cascade)
  \/ /\ groups \subseteq groups'
     /\ \/ UNCHANGED list
        \/ \E c \in Clip, home \in groups' \cup {Top}, v \in VerdictShape, retitle \in BOOLEAN :
             Store(c, home, v, retitle)
        \/ \E c, u : UpdateClip(c, u)
        \/ \E S, p : MoveClips(S, p)
        \/ \E S : \E at \in Listing(S, 0) : ReorderSticky(at)
        \/ \E S \in SUBSET clips : Drop(S) /\ (Say(S) \/ SayReset)

LEMMA FinishStep ==
  ASSUME TypeOK, NEW c \in Clip, NEW v \in Verdict, NEW chain \in [DOMAIN v.path -> Group],
         Finish(c, v, chain)
  PROVE  ClipStep
<1> DEFINE home == IF v.path = <<>> THEN R!Route(reading, groups) ELSE chain[Len(v.path)]
<1>0. GroupsType /\ R!RulesType /\ v \in VerdictShape /\ v.path \in Seq(Name)
  BY DeskAssumption DEF TypeOK, VerdictShape
<1>1. groups \subseteq groups' /\ home \in groups' \cup {Top}
  <2>1. CASE v.path = <<>>
    <3>1. UNCHANGED groups
      BY <2>1 DEF Finish, tree
    <3>2. R!Route(reading, groups) \in groups \cup {Top}
      BY <1>0, RouteExists
    <3> QED
      BY <2>1, <3>1, <3>2
  <2>2. CASE v.path # <<>>
    <3>1. EnsurePath(v.path, chain)
      BY <2>2 DEF Finish
    <3>2. groups' = groups \cup ({chain[i] : i \in DOMAIN v.path} \ groups)
      BY <1>0, <3>1, PathMade
    <3>3. Len(v.path) \in DOMAIN v.path
      BY <1>0, <2>2
    <3> QED
      BY <2>2, <3>2, <3>3
  <2> QED
    BY <2>1, <2>2
<1>2. Store(c, home, v, TRUE)
  BY DEF Finish
<1> HIDE DEF home
<1> QED
  BY <1>0, <1>1, <1>2 DEF ClipStep

LEMMA ClipSteps == TypeOK /\ [Next]_vars => ClipStep
<1> SUFFICES ASSUME TypeOK, [Next]_vars PROVE ClipStep
  OBVIOUS
<1>0. GroupsType
  BY DEF TypeOK
<1>1. ASSUME UNCHANGED list, groups \subseteq groups' PROVE ClipStep
  BY <1>1 DEF ClipStep
<1>2. ASSUME NEW c \in Clip, NEW v \in Verdict, NEW chain \in [DOMAIN v.path -> Group], Finish(c, v, chain)
      PROVE  ClipStep
  BY <1>2, FinishStep
<1>3. ASSUME NEW c \in Clip, NEW t \in Word \cup {Same}, Create(c, t) PROVE ClipStep
  <2> DEFINE v == [Silent EXCEPT !.title = t]
  <2>1. Silent \in VerdictShape
    BY DeskAssumption DEF VerdictShape
  <2>2. v \in VerdictShape
    BY <2>1 DEF VerdictShape
  <2>3. Store(c, Top, v, FALSE) /\ UNCHANGED groups
    BY <1>3 DEF Create, tree
  <2> HIDE DEF v
  <2> QED
    BY <2>2, <2>3 DEF ClipStep
<1>4. CASE \E g, p, n : GroupCreate(g, p, n)
  BY <1>1, <1>4 DEF GroupCreate, CreateGroup
<1>5. CASE (\E g, n : GroupRename(g, n)) \/ (\E g, p : GroupMove(g, p))
  BY <1>1, <1>5 DEF GroupRename, RenameGroup, GroupMove, MoveGroup
<1>6. ASSUME NEW g, NEW cascade \in BOOLEAN, GroupDelete(g, cascade) PROVE ClipStep
  BY <1>6 DEF GroupDelete, ClipStep
<1>7. ASSUME NEW c, NEW u, ClipUpdate(c, u) PROVE ClipStep
  BY <1>7 DEF ClipUpdate, ClipStep, UpdateClip, tree
<1>8. ASSUME NEW S, NEW p, ClipMove(S, p) PROVE ClipStep
  BY <1>8 DEF ClipMove, ClipStep, MoveClips, tree
<1>9. ASSUME NEW S, NEW at \in Listing(S, 0), ClipReorder(at) PROVE ClipStep
  BY <1>9 DEF ClipReorder, ClipStep, ReorderSticky, tree
<1>10. ASSUME NEW S \in SUBSET clips, ClipDelete(S) \/ Expire(S) PROVE ClipStep
  <2>1. Drop(S) /\ UNCHANGED groups /\ (Say(S) \/ SayReset)
    BY <1>10 DEF ClipDelete, Expire, DeleteClips, Retention, Drop, tree
  <2> QED
    BY <2>1 DEF ClipStep
<1>11. CASE (\E i, p, r : RuleAdd(i, p, r)) \/ (\E i, r : RuleSet(i, r)) \/ (\E i : RuleDelete(i))
            \/ (\E at, n : RuleReorder(at, n))
  BY <1>1, <1>11 DEF RuleAdd, RuleSet, RuleDelete, RuleReorder, AskRules, desk, tree
<1>12. CASE Discard \/ (\E app, offered : Selection(app, offered)) \/ UNCHANGED vars
  BY <1>1, <1>12 DEF Discard, Selection, vars, desk, tree
<1> QED
  BY <1>2, <1>3, <1>4, <1>5, <1>6, <1>7, <1>8, <1>9, <1>10, <1>11, <1>12 DEF Next

\* What a group's deletion leaves of the clips.
LEMMA DeleteRow ==
  ASSUME GroupsType, NEW g, NEW cascade \in BOOLEAN, DeleteGroup(g, cascade)
  PROVE  /\ groups' = groups \ Below(g) /\ clips' \subseteq clips /\ partial' = partial /\ SayReset
         /\ \A c \in clips' : /\ row'[c].sticky = row[c].sticky /\ row'[c].place = row[c].place
                              /\ row'[c].home = Top
                                 \/ (row'[c].home = row[c].home /\ row[c].home \notin Below(g))
<1> DEFINE Inside == {c \in clips : row[c].home \in Below(g)}
<1>1. groups' = groups \ Below(g) /\ partial' = partial /\ SayReset
  BY DEF DeleteGroup
<1>2. CASE cascade
  <2>1. clips' = clips \ Inside /\ row' = [c \in Clip |-> IF c \in Inside THEN Blank ELSE row[c]]
    BY <1>2 DEF DeleteGroup, Gone
  <2> QED
    BY <1>1, <2>1 DEF GroupsType
<1>3. CASE ~cascade
  <2>1. clips' = clips
        /\ row' = [c \in Clip |-> IF c \in Inside THEN [row[c] EXCEPT !.home = Top] ELSE row[c]]
    BY <1>3 DEF DeleteGroup
  <2>2. \A c \in Clip : row[c] \in Row
    BY DEF GroupsType
  <2> QED
    BY <1>1, <2>1, <2>2 DEF GroupsType, Row
<1> QED
  BY <1>2, <1>3

\* A clip's group exists: a deletion lets the clips of the groups that go fall
\* back, and nothing else removes a group.
ClipHomes == \A c \in clips : row[c].home \in groups \cup {Top}

LEMMA ClipHomesStep == TypeOK /\ TypeOK' /\ ClipHomes /\ ClipStep => ClipHomes'
<1> SUFFICES ASSUME TypeOK, TypeOK', ClipHomes, ClipStep PROVE ClipHomes'
  OBVIOUS
<1>0. GroupsType /\ GroupsType'
  BY DEF TypeOK
<1>1. ASSUME NEW g, NEW cascade \in BOOLEAN, DeleteGroup(g, cascade) PROVE ClipHomes'
  <2>1. /\ groups' = groups \ Below(g) /\ clips' \subseteq clips
        /\ \A c \in clips' : row'[c].home = Top \/ (row'[c].home = row[c].home /\ row[c].home \notin Below(g))
    BY <1>0, <1>1, DeleteRow
  <2> QED
    BY <2>1 DEF ClipHomes
<1>2. ASSUME UNCHANGED list, groups \subseteq groups' PROVE ClipHomes'
  BY <1>2 DEF ClipHomes, list
<1>3. ASSUME NEW c \in Clip, NEW home \in groups' \cup {Top}, NEW v \in VerdictShape, NEW retitle,
             Store(c, home, v, retitle), groups \subseteq groups'
      PROVE  ClipHomes'
  <2>1. home \in Group \cup {Top}
    BY <1>0 DEF GroupsType
  <2>2. /\ \A d \in Clip \ {c} : row'[d] = row[d]
        /\ row'[c].home = IF c \in clips THEN row[c].home ELSE home
        /\ clips' = clips \cup {c}
    BY <1>0, <1>3, <2>1, StoreRow DEF VerdictShape
  <2> QED
    BY <1>0, <1>3, <2>2 DEF ClipHomes, GroupsType
<1>4. ASSUME NEW c, NEW u, UpdateClip(c, u) PROVE ClipHomes'
  <2>1. /\ c \in Clip /\ UNCHANGED <<groups, clips>> /\ row'[c].home = row[c].home
        /\ \A d \in Clip \ {c} : row'[d] = row[d]
    BY <1>0, <1>4, UpdateRow DEF tree
  <2> QED
    BY <1>0, <2>1 DEF ClipHomes, GroupsType
<1>5. ASSUME NEW S, NEW p, MoveClips(S, p) PROVE ClipHomes'
  <2>1. /\ p \in groups \cup {Top} /\ UNCHANGED <<groups, clips>>
        /\ row' = [c \in Clip |-> IF c \in S \cap clips THEN [row[c] EXCEPT !.home = p] ELSE row[c]]
    BY <1>5 DEF MoveClips, tree
  <2>2. \A c \in Clip : row[c] \in Row
    BY <1>0 DEF GroupsType
  <2>3. \A c \in Clip : row'[c].home = IF c \in S \cap clips THEN p ELSE row[c].home
    BY <2>1, <2>2 DEF Row
  <2> QED
    BY <1>0, <2>1, <2>3 DEF ClipHomes, GroupsType
<1>6. ASSUME NEW at, ReorderSticky(at) PROVE ClipHomes'
  <2>1. /\ UNCHANGED <<groups, clips>>
        /\ row' = [c \in Clip |-> IF c \in DOMAIN at \cap Sticky THEN [row[c] EXCEPT !.place = at[c]] ELSE row[c]]
    BY <1>6 DEF ReorderSticky, tree
  <2>2. \A c \in Clip : row[c] \in Row
    BY <1>0 DEF GroupsType
  <2>3. \A c \in Clip : row'[c].home = row[c].home
    BY <2>1, <2>2 DEF Row
  <2> QED
    BY <1>0, <2>1, <2>3 DEF ClipHomes, GroupsType
<1>7. ASSUME NEW S, Drop(S) PROVE ClipHomes'
  <2>1. clips' = clips \ S /\ UNCHANGED groups /\ \A c \in Clip \ S : row'[c] = row[c]
    BY <1>7 DEF Drop, Gone, tree
  <2> QED
    BY <1>0, <2>1 DEF ClipHomes, GroupsType
<1> QED
  BY <1>1, <1>2, <1>3, <1>4, <1>5, <1>6, <1>7 DEF ClipStep

-----------------------------------------------------------------------------
(* The order of the sticky clips, and what a subscriber holds. *)

\* Nothing changes in the sticky order but at one clip, which gets a place of
\* its own, keeps the one it has, or is not sticky.
LEMMA DistinctKept ==
  ASSUME GroupsType, GroupsType', StickyDistinct, partial' = partial, NEW c,
         \A d \in clips' \ {c} : d \in clips /\ (row'[d].sticky => row[d].sticky /\ row'[d].place = row[d].place),
         c \in clips' /\ row'[c].sticky =>
           (c \in clips /\ row[c].sticky /\ row'[c].place = row[c].place) \/ row'[c].place \notin Places
  PROVE  StickyDistinct'
  BY DEF StickyDistinct, Sticky, Places

\* Two sticky clips share a place only after a reorder that left some out.
LEMMA DistinctStep == TypeOK /\ TypeOK' /\ StickyDistinct /\ ClipStep => StickyDistinct'
<1> SUFFICES ASSUME TypeOK, TypeOK', StickyDistinct, ClipStep PROVE StickyDistinct'
  OBVIOUS
<1>0. GroupsType /\ GroupsType' /\ clips' \subseteq Clip
  BY DEF TypeOK, GroupsType
<1>a. ASSUME partial' = partial,
             \A d \in clips' : d \in clips /\ (row'[d].sticky => row[d].sticky /\ row'[d].place = row[d].place)
      PROVE  StickyDistinct'
  BY <1>0, <1>a, DistinctKept
<1>1. ASSUME NEW g, NEW cascade \in BOOLEAN, DeleteGroup(g, cascade) PROVE StickyDistinct'
  <2>1. /\ clips' \subseteq clips /\ partial' = partial
        /\ \A c \in clips' : row'[c].sticky = row[c].sticky /\ row'[c].place = row[c].place
    BY <1>0, <1>1, DeleteRow
  <2> QED
    BY <1>a, <2>1
<1>2. CASE UNCHANGED list
  BY <1>2, <1>a DEF list
<1>3. ASSUME NEW c \in Clip, NEW home \in groups' \cup {Top}, NEW v \in VerdictShape, NEW retitle,
             Store(c, home, v, retitle)
      PROVE  StickyDistinct'
  <2>1. home \in Group \cup {Top}
    BY <1>0 DEF GroupsType
  <2>2. /\ \A d \in Clip \ {c} : row'[d] = row[d]
        /\ row'[c].sticky => (c \in clips /\ row[c].sticky /\ row'[c].place = row[c].place)
                             \/ row'[c].place \notin Places
        /\ clips' = clips \cup {c} /\ partial' = partial
    BY <1>0, <1>3, <2>1, StoreRow DEF VerdictShape
  <2>3. \A d \in clips' \ {c} : d \in clips /\ row'[d] = row[d]
    BY <1>0, <2>2
  <2> QED
    BY <1>0, <2>2, <2>3, DistinctKept
<1>4. ASSUME NEW c, NEW u, UpdateClip(c, u) PROVE StickyDistinct'
  <2>1. /\ c \in clips /\ UNCHANGED <<clips, partial>>
        /\ \A d \in Clip \ {c} : row'[d] = row[d]
        /\ row'[c].sticky => (row[c].sticky /\ row'[c].place = row[c].place) \/ row'[c].place \notin Places
    BY <1>0, <1>4, UpdateRow
  <2>2. \A d \in clips' \ {c} : d \in clips /\ row'[d] = row[d]
    BY <1>0, <2>1
  <2> QED
    BY <1>0, <2>1, <2>2, DistinctKept
<1>5. ASSUME NEW S, NEW p, MoveClips(S, p) PROVE StickyDistinct'
  <2>1. /\ UNCHANGED <<clips, partial>>
        /\ row' = [c \in Clip |-> IF c \in S \cap clips THEN [row[c] EXCEPT !.home = p] ELSE row[c]]
    BY <1>5 DEF MoveClips
  <2>2. \A c \in Clip : row[c] \in Row
    BY <1>0 DEF GroupsType
  <2>3. \A c \in Clip : row'[c].sticky = row[c].sticky /\ row'[c].place = row[c].place
    BY <2>1, <2>2 DEF Row
  <2> QED
    BY <1>0, <1>a, <2>1, <2>3
<1>6. ASSUME NEW S, NEW at \in Listing(S, 0), ReorderSticky(at) PROVE StickyDistinct'
  <2>1. /\ clips' = clips /\ partial' = ~(Sticky \subseteq DOMAIN at)
        /\ row' = [c \in Clip |-> IF c \in DOMAIN at \cap Sticky THEN [row[c] EXCEPT !.place = at[c]] ELSE row[c]]
    BY <1>6 DEF ReorderSticky
  <2>2. \A c, d \in DOMAIN at : at[c] = at[d] => c = d
    BY DEF Listing
  <2>3. \A c \in Clip : row[c] \in Row
    BY <1>0 DEF GroupsType
  <2>4. \A c \in Clip : row'[c].sticky = row[c].sticky /\ (c \in DOMAIN at \cap Sticky => row'[c].place = at[c])
    BY <2>1, <2>3 DEF Row
  <2>5. Sticky' = Sticky
    BY <1>0, <2>1, <2>4 DEF Sticky, GroupsType
  <2>6. ASSUME ~partial', NEW c \in Sticky, NEW d \in Sticky, row'[c].place = row'[d].place
        PROVE  c = d
    <3>1. Sticky \subseteq DOMAIN at
      BY <2>1, <2>6
    <3>2. row'[c].place = at[c] /\ row'[d].place = at[d]
      BY <1>0, <2>4, <3>1 DEF Sticky, GroupsType
    <3> QED
      BY <2>2, <2>6, <3>1, <3>2
  <2> QED
    BY <2>5, <2>6 DEF StickyDistinct
<1>7. ASSUME NEW S, Drop(S) PROVE StickyDistinct'
  <2>1. clips' = clips \ S /\ partial' = partial /\ \A c \in Clip \ S : row'[c] = row[c]
    BY <1>7 DEF Drop, Gone
  <2> QED
    BY <1>0, <1>a, <2>1
<1> QED
  BY <1>1, <1>2, <1>3, <1>4, <1>5, <1>6, <1>7 DEF ClipStep

\* What is said covers every clip that changed.
LEMMA MirrorSaid ==
  ASSUME GroupsType, RowsMirrored, NEW S, Say(S),
         \A c \in Clip \ S : (c \in clips' <=> c \in clips) /\ row'[c] = row[c]
  PROVE  RowsMirrored'
  BY DEF RowsMirrored, Say, GroupsType

\* The list read anew is the table, whatever the events before it said.
LEMMA MirrorReset == ASSUME SayReset PROVE RowsMirrored'
  BY DEF RowsMirrored, SayReset, Say

\* Events and table never part, but for an update whose 'sticky' is refused.
LEMMA MirrorStep == TypeOK /\ TypeOK' /\ RowsMirrored /\ ClipStep => RowsMirrored'
<1> SUFFICES ASSUME TypeOK, TypeOK', RowsMirrored, ClipStep PROVE RowsMirrored'
  OBVIOUS
<1>0. GroupsType /\ GroupsType' /\ clips' \subseteq Clip
  BY DEF TypeOK, GroupsType
<1>1. ASSUME NEW g, NEW cascade \in BOOLEAN, DeleteGroup(g, cascade) PROVE RowsMirrored'
  BY <1>1, MirrorReset DEF DeleteGroup
<1>2. CASE UNCHANGED list
  BY <1>2 DEF list, RowsMirrored
<1>3. ASSUME NEW c \in Clip, NEW home \in groups' \cup {Top}, NEW v \in VerdictShape, NEW retitle,
             Store(c, home, v, retitle)
      PROVE  RowsMirrored'
  <2>1. home \in Group \cup {Top}
    BY <1>0 DEF GroupsType
  <2>2. (\A d \in Clip \ {c} : row'[d] = row[d]) /\ clips' = clips \cup {c} /\ Say({c})
    BY <1>0, <1>3, <2>1, StoreRow DEF VerdictShape
  <2> QED
    BY <1>0, <2>2, MirrorSaid
<1>4. ASSUME NEW c, NEW u, UpdateClip(c, u) PROVE RowsMirrored'
  <2>1. /\ UNCHANGED clips /\ \A d \in Clip \ {c} : row'[d] = row[d]
        /\ Say({c}) \/ (unsaid' = unsaid \cup {c} /\ UNCHANGED seen)
    BY <1>0, <1>4, UpdateRow
  <2>2. CASE Say({c})
    BY <1>0, <2>1, <2>2, MirrorSaid
  <2>3. CASE unsaid' = unsaid \cup {c} /\ UNCHANGED seen
    BY <2>1, <2>3 DEF RowsMirrored
  <2> QED
    BY <2>1, <2>2, <2>3
<1>5. ASSUME NEW S, NEW p, MoveClips(S, p) PROVE RowsMirrored'
  <2>1. /\ UNCHANGED clips /\ Say(S \cap clips)
        /\ row' = [c \in Clip |-> IF c \in S \cap clips THEN [row[c] EXCEPT !.home = p] ELSE row[c]]
    BY <1>5 DEF MoveClips
  <2>2. \A c \in Clip \ (S \cap clips) : row'[c] = row[c]
    BY <2>1
  <2> QED
    BY <1>0, <2>1, <2>2, MirrorSaid
<1>6. ASSUME NEW at, ReorderSticky(at) PROVE RowsMirrored'
  BY <1>6, MirrorReset DEF ReorderSticky
<1>7. ASSUME NEW S, Drop(S), Say(S) PROVE RowsMirrored'
  <2>1. clips' = clips \ S /\ \A c \in Clip \ S : row'[c] = row[c]
    BY <1>7 DEF Drop, Gone
  <2> QED
    BY <1>0, <1>7, <2>1, MirrorSaid
<1>8. CASE SayReset
  BY <1>8, MirrorReset
<1> QED
  BY <1>1, <1>2, <1>3, <1>4, <1>5, <1>6, <1>7, <1>8 DEF ClipStep

-----------------------------------------------------------------------------
(* The order of the rules. *)

\* Of two rules a request does not name, the one before ranks lower.
LEMMA RankLower ==
  ASSUME R!RulesType, NEW Rest \in SUBSET DOMAIN rules, NEW i \in Rest
  PROVE  LET Ahead(k) == {j \in Rest : j = k \/ R!Before(j, k)} IN
         /\ Cardinality(Ahead(i)) \in Nat \ {0}
         /\ \A k \in Rest : R!Before(k, i) => Cardinality(Ahead(k)) < Cardinality(Ahead(i))
<1> DEFINE Ahead(k) == {j \in Rest : j = k \/ R!Before(j, k)}
<1>0. R!RuleId \subseteq Nat /\ IsFiniteSet(R!RuleId) /\ Rest \subseteq R!RuleId
  BY RuleIds DEF R!RulesType
<1>1. \A k \in Rest : k \in Nat /\ ord[k] \in Nat
  BY <1>0 DEF R!RulesType
<1>2. \A k : Ahead(k) \in SUBSET R!RuleId
  BY <1>0
<1>3. \A k : IsFiniteSet(Ahead(k)) /\ Cardinality(Ahead(k)) \in Nat
  <2> TAKE k
  <2>1. Ahead(k) \in SUBSET R!RuleId
    BY <1>2
  <2> HIDE DEF Ahead
  <2> QED
    BY <1>0, <2>1, FS_Subset, FS_CardinalityType
<1>4. i \in Ahead(i)
  OBVIOUS
<1>5. ASSUME NEW k \in Rest, R!Before(k, i) PROVE Cardinality(Ahead(k)) < Cardinality(Ahead(i))
  <2>1. i \notin Ahead(k)
    BY <1>1, <1>5 DEF R!Before
  <2>2. Ahead(k) \in SUBSET Ahead(i)
    BY <1>1, <1>5 DEF R!Before
  <2> HIDE DEF Ahead
  <2>3. Cardinality(Ahead(k)) <= Cardinality(Ahead(i))
        /\ (Cardinality(Ahead(i)) = Cardinality(Ahead(k)) => Ahead(i) = Ahead(k))
    BY <1>3, <2>2, FS_Subset
  <2> QED
    BY <1>3, <1>4, <2>1, <2>3
<1>6. Cardinality(Ahead(i)) # 0
  <2> HIDE DEF Ahead
  <2> QED
    BY <1>3, <1>4, FS_EmptySet
<1> QED
  BY <1>3, <1>5, <1>6

\* Where a reorder puts the rules: the ones it names where it says, the others
\* behind them in the order they had (rules_reorder).
LEMMA ReorderPlaces ==
  ASSUME R!RulesType, NEW S \in SUBSET R!RuleId, NEW at \in Listing(S, 1),
         R!ReorderRules(at, Cardinality(S))
  PROVE  LET Rest == DOMAIN rules \ DOMAIN at IN
         /\ Cardinality(S) \in Nat /\ rules' = rules
         /\ \A i \in DOMAIN at \cap DOMAIN rules :
              ord'[i] = at[i] /\ ord'[i] \in Int /\ ord'[i] <= Cardinality(S)
         /\ \A i \in Rest : ord'[i] \in Int /\ ord'[i] > Cardinality(S)
         /\ \A i, j \in Rest : R!Before(i, j) => ord'[i] < ord'[j]
<1> DEFINE Rest == DOMAIN rules \ DOMAIN at
           Ahead(k) == {j \in Rest : j = k \/ R!Before(j, k)}
<1>1. Cardinality(S) \in Nat
  BY RuleIds, FS_Subset, FS_CardinalityType
<1>2. ord' = [i \in DOMAIN rules |-> IF i \in DOMAIN at THEN at[i] ELSE Cardinality(S) + R!Cardinality(Ahead(i))]
      /\ rules' = rules
  BY Zenon DEF R!ReorderRules
<1>3. \A i \in DOMAIN at : at[i] \in Int /\ at[i] <= Cardinality(S)
  BY <1>1 DEF Listing
<1>4. \A i \in Rest : /\ Cardinality(Ahead(i)) \in Nat \ {0}
                      /\ \A k \in Rest : R!Before(k, i) => Cardinality(Ahead(k)) < Cardinality(Ahead(i))
  BY RankLower
<1> HIDE DEF Ahead
<1>5. \A i \in Rest : ord'[i] = Cardinality(S) + Cardinality(Ahead(i))
  BY <1>2, SameCardinality
<1>6. \A i \in DOMAIN at \cap DOMAIN rules : ord'[i] = at[i]
  BY <1>2
<1> QED
  BY <1>1, <1>2, <1>3, <1>4, <1>5, <1>6

\* No edit of the rules gives two of them one position.
LEMMA OrderedStep == TypeOK /\ TypeOK' /\ RulesOrdered /\ [Next]_vars => RulesOrdered'
<1> SUFFICES ASSUME TypeOK, TypeOK', RulesOrdered, [Next]_vars PROVE RulesOrdered'
  OBVIOUS
<1>0. R!RulesType /\ R!RulesType' /\ \A i \in DOMAIN rules : i \in Nat /\ ord[i] \in Nat
  BY DeskAssumption DEF TypeOK, R!RulesType, R!RuleId
<1>1. ASSUME NEW i \in R!RuleId, NEW p \in R!RuleId, NEW r, RuleAdd(i, p, r) PROVE RulesOrdered'
  <2>1. /\ DOMAIN rules' = DOMAIN rules \cup {i}
        /\ ord' = [j \in DOMAIN rules \cup {i} |-> IF j = i THEN p ELSE ord[j]]
        /\ \A j \in DOMAIN rules : ord[j] < p
    BY <1>1 DEF RuleAdd, R!AddRule
  <2> QED
    BY <1>0, <2>1 DEF RulesOrdered, R!OrdDistinct
<1>2. ASSUME NEW i, NEW r, RuleSet(i, r) PROVE RulesOrdered'
  BY <1>2 DEF RuleSet, R!ChangeRule, RulesOrdered, R!OrdDistinct
<1>3. ASSUME NEW i, RuleDelete(i) PROVE RulesOrdered'
  BY <1>3 DEF RuleDelete, R!DeleteRule, RulesOrdered, R!OrdDistinct
<1>4. ASSUME NEW S \in SUBSET R!RuleId, NEW at \in Listing(S, 1), RuleReorder(at, Cardinality(S))
      PROVE  RulesOrdered'
  <2> DEFINE Rest == DOMAIN rules \ DOMAIN at
             Named == DOMAIN at \cap DOMAIN rules
  <2>1. /\ Cardinality(S) \in Nat /\ rules' = rules
        /\ \A i \in Named : ord'[i] = at[i] /\ ord'[i] \in Int /\ ord'[i] <= Cardinality(S)
        /\ \A i \in Rest : ord'[i] \in Int /\ ord'[i] > Cardinality(S)
        /\ \A i, j \in Rest : R!Before(i, j) => ord'[i] < ord'[j]
    BY <1>0, <1>4, ReorderPlaces DEF RuleReorder
  <2>2. \A i, j \in Named : at[i] = at[j] => i = j
    BY DEF Listing
  <2>3. \A i, j \in Rest : i # j => R!Before(i, j) \/ R!Before(j, i)
    BY <1>0 DEF R!Before
  <2>4. ASSUME NEW i \in DOMAIN rules, NEW j \in DOMAIN rules, ord'[i] = ord'[j] PROVE i = j
    <3>1. CASE i \in Named /\ j \in Named
      BY <2>1, <2>2, <2>4, <3>1
    <3>2. CASE i \in Rest /\ j \in Rest
      BY <2>1, <2>3, <2>4, <3>2
    <3>3. CASE (i \in Named /\ j \in Rest) \/ (i \in Rest /\ j \in Named)
      BY <2>1, <2>4, <3>3
    <3> QED
      BY <3>1, <3>2, <3>3
  <2> QED
    BY <2>1, <2>4 DEF RulesOrdered, R!OrdDistinct
<1>5. CASE UNCHANGED <<rules, ord>>
  BY <1>5 DEF RulesOrdered, R!OrdDistinct
<1>6. CASE \/ \E g, p, n : GroupCreate(g, p, n)
           \/ \E g, n : GroupRename(g, n)
           \/ \E g, p : GroupMove(g, p) \/ ClipMove(g, p) \/ ClipUpdate(g, p)
           \/ \E g, cascade : GroupDelete(g, cascade)
           \/ \E S : ClipReorder(S) \/ ClipDelete(S) \/ Expire(S)
           \/ \E c, t : Create(c, t)
  BY <1>5, <1>6 DEF GroupCreate, GroupRename, GroupMove, ClipMove, ClipUpdate, GroupDelete,
       ClipReorder, ClipDelete, Expire, Create, Ask, Quiet
<1>7. CASE Discard \/ (\E app, offered : Selection(app, offered)) \/ (\E c, v, chain : Finish(c, v, chain))
           \/ UNCHANGED vars
  BY <1>5, <1>7 DEF Discard, Selection, Finish, vars
<1> QED
  BY <1>1, <1>2, <1>3, <1>4, <1>6, <1>7 DEF Next

-----------------------------------------------------------------------------
(* The theorems. *)

DeskInv == TypeOK /\ ParentsExist /\ ClipHomes /\ Forest /\ StickyDistinct /\ RowsMirrored

LEMMA DeskInductive == Spec => []DeskInv
<1>1. Init => DeskInv
  <2> SUFFICES ASSUME Init PROVE DeskInv
    OBVIOUS
  <2>1. TypeOK
    BY TypeInit
  <2>2. ParentsExist /\ ClipHomes /\ Forest
    BY DEF Init, GroupsInit, ParentsExist, ClipHomes, Forest
  <2>3. StickyDistinct /\ RowsMirrored
    BY DEF Init, GroupsInit, StickyDistinct, Sticky, RowsMirrored
  <2> QED
    BY <2>1, <2>2, <2>3 DEF DeskInv
<1>2. DeskInv /\ [Next]_vars => DeskInv'
  <2> SUFFICES ASSUME DeskInv, [Next]_vars PROVE DeskInv'
    OBVIOUS
  <2>1. TypeOK /\ TypeOK' /\ TreeStep /\ ClipStep
    BY TypeStep, TreeSteps, ClipSteps DEF DeskInv
  <2>2. ParentsExist' /\ Forest'
    BY <2>1, ParentsStep, ForestStep DEF DeskInv
  <2>3. ClipHomes' /\ StickyDistinct' /\ RowsMirrored'
    BY <2>1, ClipHomesStep, DistinctStep, MirrorStep DEF DeskInv
  <2> QED
    BY <2>1, <2>2, <2>3 DEF DeskInv
<1> QED
  BY <1>1, <1>2, PTL DEF Spec

\* No requests, scripts or deletions ever cut a set of groups off the tree, by
\* however long a way round (db_group_move, db_ensure_group_path).
THEOREM NoCycle == Spec => []Forest
<1>1. DeskInv => Forest
  BY DEF DeskInv
<1> QED
  BY <1>1, DeskInductive, PTL

\* No group's parent and no clip's group is ever one that is gone, although a
\* rule or a script files a clip long after its copy was begun.
THEOREM NothingHomeless == Spec => []HomesExist
<1>1. DeskInv => HomesExist
  BY DEF DeskInv, HomesExist, ParentsExist, ClipHomes
<1> QED
  BY <1>1, DeskInductive, PTL

\* Sticky clips have places of their own until a reorder leaves some out.
THEOREM StickyOrdered == Spec => []StickyDistinct
<1>1. DeskInv => StickyDistinct
  BY DEF DeskInv
<1> QED
  BY <1>1, DeskInductive, PTL

\* The events tell a subscriber every row, but for a refused 'sticky'.
THEOREM EventsTellAll == Spec => []RowsMirrored
<1>1. DeskInv => RowsMirrored
  BY DEF DeskInv
<1> QED
  BY <1>1, DeskInductive, PTL

\* No two rules share a position, so the first rule for an application is one
\* rule and not whichever id SQLite handed out again.
THEOREM FirstRuleIsOne == Spec => []RulesOrdered
<1>1. Init => RulesOrdered
  BY DEF Init, R!RulesInit, RulesOrdered, R!OrdDistinct
<1> QED
  BY <1>1, TypeInit, TypeStep, OrderedStep, PTL DEF Spec

\* A client that reorders the rules it knows neither shuffles the others nor
\* puts one of them ahead of its own (rules.c:241-243).
THEOREM ReorderKeepsRest == Spec => ReorderSpares
<1> DEFINE Spares == ord' # ord => \A S \in SUBSET R!RuleId \ {{}} : \A at \in Listing(S, 1) :
                       RuleReorder(at, Cardinality(S)) => R!ReorderSpares(at, Cardinality(S))
<1>1. TypeOK => Spares
  <2> SUFFICES ASSUME TypeOK, NEW S \in SUBSET R!RuleId, NEW at \in Listing(S, 1),
                      RuleReorder(at, Cardinality(S))
               PROVE  R!ReorderSpares(at, Cardinality(S))
    OBVIOUS
  <2>1. R!RulesType /\ R!ReorderRules(at, Cardinality(S))
    BY DEF TypeOK, RuleReorder
  <2> QED
    BY <2>1, ReorderPlaces DEF R!ReorderSpares
<1>2. TypeOK /\ [Next]_vars => [Spares]_vars
  BY <1>1
<1>3. ReorderSpares <=> [][Spares]_vars
  BY PTL DEF ReorderSpares
<1> QED
  BY <1>2, <1>3, DeskTyped, PTL DEF Spec

=============================================================================

------------------------------- MODULE Rules --------------------------------
(***************************************************************************)
(* The per-application rules (rules.c): the table, its order, and the      *)
(* questions capture asks of it.  A glob over window classes is the set of *)
(* classes it matches, NoApp standing for "no class known", which only a   *)
(* rule without a glob matches; a glob over formats likewise.              *)
(***************************************************************************)
EXTENDS Integers, FiniteSets

CONSTANTS
  App,       \* window classes
  NoApp,     \* no focused window, or no Hyprland
  Mime,      \* formats
  Groups0,   \* uuids of groups a rule may name
  Nowhere,   \* no group
  RuleSpec,  \* what users ask for, but for the group of a to_group rule
  MaxRule    \* bound: ids

RuleId == 1..MaxRule
Action == {"exclude", "skip_mime", "to_group", "paste_keys"}
Rule == [action : Action, apps : SUBSET (App \cup {NoApp}), mimes : SUBSET Mime,
         group : Groups0 \cup {Nowhere}, enabled : BOOLEAN]

RulesConstants ==
  /\ NoApp \notin App /\ Nowhere \notin Groups0 /\ MaxRule \in Nat \ {0}
  /\ RuleSpec \subseteq {r \in Rule : r.group = Nowhere}
  /\ \A r \in RuleSpec : NoApp \in r.apps => r.action = "skip_mime"

VARIABLES
  rules,     \* table rules: id -> what it says
  ord        \* its position

ruleTable == <<rules, ord>>

RulesType ==
  /\ DOMAIN rules \subseteq RuleId /\ rules \in [DOMAIN rules -> Rule]
  /\ ord \in [DOMAIN rules -> Nat]

\* schema.c seeds rules that exclude the password managers.
RulesInit(seed) ==
  /\ rules = [i \in {1} |-> seed] /\ ord = [i \in {1} |-> 1]

-----------------------------------------------------------------------------
(* ORDER BY ord, id. *)

Before(i, j) == ord[i] < ord[j] \/ (ord[i] = ord[j] /\ i < j)

Enabled(action) == {i \in DOMAIN rules : rules[i].enabled /\ rules[i].action = action}

Excluded(app) == app # NoApp /\ \E i \in Enabled("exclude") : app \in rules[i].apps

\* What is left to read of a selection's formats.
Filtered(app, offered) ==
  {m \in offered : \A i \in Enabled("skip_mime") : app \notin rules[i].apps \/ m \notin rules[i].mimes}

\* The first rule for the app whose group still exists decides; a rule left
\* over from a deleted group is passed by.
Routing(app, live) == {i \in Enabled("to_group") : app \in rules[i].apps /\ rules[i].group \in live}

Route(app, live) ==
  IF Routing(app, live) = {} THEN Nowhere
  ELSE rules[CHOOSE i \in Routing(app, live) : \A j \in Routing(app, live) : ~Before(j, i)].group

-----------------------------------------------------------------------------
(* Editing. *)

\* A rule a client may ask for while the groups `live` exist.
ToGroup(r, g) == [r EXCEPT !.action = "to_group", !.mimes = {}, !.group = g]

Askable(live) ==
  RuleSpec \cup {ToGroup(r, g) : r \in {s \in RuleSpec : s.action = "exclude"}, g \in live}

\* SQLite hands out max(rowid) + 1, rules_set coalesce(max(ord), 0) + 1.
AddRule(i, p, r, live) ==
  /\ i \in RuleId \ DOMAIN rules /\ r \in Askable(live)
  /\ IF DOMAIN rules = {} THEN i = 1 /\ p = 1
     ELSE /\ i - 1 \in DOMAIN rules /\ \A j \in DOMAIN rules : j < i
          /\ p - 1 \in {ord[j] : j \in DOMAIN rules} /\ \A j \in DOMAIN rules : ord[j] < p
  /\ rules' = [j \in DOMAIN rules \cup {i} |-> IF j = i THEN r ELSE rules[j]]
  /\ ord' = [j \in DOMAIN rules \cup {i} |-> IF j = i THEN p ELSE ord[j]]

ChangeRule(i, r, live) ==
  /\ i \in DOMAIN rules /\ r \in Askable(live)
  /\ rules' = [rules EXCEPT ![i] = r]
  /\ UNCHANGED ord

DeleteRule(i) ==
  /\ i \in DOMAIN rules
  /\ rules' = [j \in DOMAIN rules \ {i} |-> rules[j]]
  /\ ord' = [j \in DOMAIN rules \ {i} |-> ord[j]]

\* Mutant: the rules a request does not name keep the numbers they had.
ReorderNamed(at, n) ==
  /\ ord' = [i \in DOMAIN rules |-> IF i \in DOMAIN at THEN at[i] ELSE ord[i]]
  /\ UNCHANGED rules

\* at[i] is the first position of i among the different ids of the request,
\* ids of no rule included; the others follow in the order they had.
ReorderRules(at, n) ==
  LET Rest == DOMAIN rules \ DOMAIN at IN
  /\ ord' = [i \in DOMAIN rules |->
               IF i \in DOMAIN at THEN at[i]
               ELSE n + Cardinality({j \in Rest : j = i \/ Before(j, i)})]
  /\ UNCHANGED rules

-----------------------------------------------------------------------------
(* Properties. *)

\* No two rules share a position, so "the first rule that matches" does not
\* hang on the ids SQLite happens to hand out again.
OrdDistinct == \A i, j \in DOMAIN rules : ord[i] = ord[j] => i = j

\* A reorder from a client that does not know of two of the rules leaves those
\* two in the order they had, and behind the ones it names.
ReorderSpares(at, n) ==
  LET Rest == DOMAIN rules \ DOMAIN at IN
  /\ \A i, j \in Rest : Before(i, j) => ord'[i] < ord'[j]
  /\ \A i \in DOMAIN at \cap DOMAIN rules, j \in Rest : ord'[i] < ord'[j]
=============================================================================

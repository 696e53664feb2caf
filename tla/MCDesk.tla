------------------------------- MODULE MCDesk -------------------------------
(* The organising tables on a small instance.  "note" serves as a title and *)
(* as a quick-paste word; the updates are the ones that fail half way, the   *)
(* ones that take a word or a place, and one that gives everything back.     *)
EXTENDS Desk, TLC

U(t, w, l, s) == [title |-> t, word |-> w, locked |-> l, sticky |-> s]
MCUpdate == {U("note", "note", Same, Same), U(Same, "note", TRUE, Bad), U("note", Bad, TRUE, "top"),
             U(Same, Same, Same, "top"), U(Same, Same, Same, "bottom"), U(None, None, FALSE, "off")}

MCRule(a, apps, mimes) == [action |-> a, apps |-> apps, mimes |-> mimes, group |-> Top, enabled |-> TRUE]
MCSeed == MCRule("exclude", {"vault"}, {})
MCRuleSpec == {MCRule("exclude", {"term"}, {}), MCRule("skip_mime", {"term", NoApp}, {"text"})}

V(p, t, l, s) == [path |-> p, title |-> t, locked |-> l, sticky |-> s]
MCSilent == V(<<>>, Same, Same, Same)
MCVerdict == {MCSilent, V(<<"a", "b">>, "note", TRUE, "top")}

=============================================================================

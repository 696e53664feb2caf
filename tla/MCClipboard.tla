---------------------------- MODULE MCClipboard ----------------------------
(* The clipboard on small instances: a note, a second one, a password. *)
EXTENDS Clipboard, TLC

OneRow == << <<"note", "whole">> >>
NoRows == <<>>
=============================================================================

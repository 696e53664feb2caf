------------------------------ MODULE MCPopup -------------------------------
(* The popup and its line to the daemon on a small instance. *)
EXTENDS Popup
=============================================================================

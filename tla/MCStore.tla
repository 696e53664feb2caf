------------------------------ MODULE MCStore ------------------------------
(* The store on a small instance.  "shot" and "page" share a payload, as an *)
(* image and a rich copy that contains it do; "essay" is a text too big to  *)
(* be kept inline, which an edit may turn any clip into.                    *)
EXTENDS Store, TLC

MCContent == {"shot", "page", "essay"}
MCTexts == {"essay"}
MCLarge == {"page"}
MCBlobsOf == [c \in Content |->
  CASE c = "shot" -> {"b1"} [] c = "page" -> {"b1", "b2"} [] c = "essay" -> {"b2"}]
=============================================================================

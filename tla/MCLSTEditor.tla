---------------------------- MODULE MCLSTEditor -----------------------------
(* The editor on a small heap. *)
EXTENDS LSTEditor
=============================================================================

--------------------------- MODULE MCRestoreSession ---------------------------
(* Two restores: one after the other, or one across the other. *)
EXTENDS RestoreSession

MCMaxRestores == 2
=============================================================================

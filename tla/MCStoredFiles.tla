---------------------------- MODULE MCStoredFiles ----------------------------
(* Two files for a workspace with room for one, an attachment or a task file. *)
EXTENDS StoredFiles
=============================================================================

--------------------------- MODULE MCVideoUpload ---------------------------
(* Instance of VideoUpload for TLC. *)
EXTENDS VideoUpload
=============================================================================

----------------------------- MODULE MCFileService -----------------------------
(* Instances of FileService for TLC. *)
EXTENDS FileService
===============================================================================

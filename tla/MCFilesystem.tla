---------------------------- MODULE MCFilesystem ----------------------------
(* A directory of one or two files; the .cfg files give the constants.       *)
EXTENDS FilesystemSync
=============================================================================

-------------------------------- MODULE MCVFS --------------------------------
(* Offsets for VFS: into the file, to its ends, and past both of them. *)
EXTENDS VFS

MCOffset == -4..4
==============================================================================

------------------------------ MODULE MCBackup ------------------------------
(***************************************************************************)
(* Small instances of Backup: two programs, one destination, one path.     *)
(***************************************************************************)
EXTENDS Backup

CONSTANTS p1, p2, zip, place
=============================================================================

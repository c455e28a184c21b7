--------------------------- MODULE FileServiceMC ----------------------------
(***************************************************************************)
(* FileService for TLC: clients are interchangeable.                       *)
(***************************************************************************)
EXTENDS FileService, TLC

ClientSymmetry == Permutations(Clients)
=============================================================================

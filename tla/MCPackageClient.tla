--------------------------- MODULE MCPackageClient ---------------------------
(* Instances of PackageClient for TLC. *)
EXTENDS PackageClient

CONSTANTS p, q
==============================================================================

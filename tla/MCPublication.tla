--------------------------- MODULE MCPublication ---------------------------
(* Publication on small instances: the .cfg files name the processes,      *)
(* requests and namespaces.                                                *)
EXTENDS Publication
=============================================================================

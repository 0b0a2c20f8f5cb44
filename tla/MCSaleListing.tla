--------------------------- MODULE MCSaleListing ---------------------------
(* One sale of two threads and the copies made of it, up to two changes.   *)
EXTENDS SaleBundle

Spec == SaleInit /\ [][SaleNext]_saleVars
============================================================================

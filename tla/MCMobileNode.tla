---------------------------- MODULE MCMobileNode ----------------------------
(* Two handlers, an upload of four bytes and one of two: objects of eleven *)
(* and eight bytes on the disk.  Both fit the quota in one order only.     *)
EXTENDS MobileNode

CONSTANT u1

Bytes(u) == IF u = u1 THEN 4 ELSE 2
=============================================================================

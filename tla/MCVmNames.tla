------------------------------ MODULE MCVmNames ------------------------------
(***************************************************************************)
(* The ids "vm1", "vm2" and "web-front", "web-frontend" in ASCII.          *)
(***************************************************************************)
EXTENDS VmNames

WebFront == <<119, 101, 98, 45, 102, 114, 111, 110, 116>>

MCVmIds == {<<118, 109, 49>>, <<118, 109, 50>>, WebFront, WebFront \o <<101, 110, 100>>}
=============================================================================

-------------------------- MODULE MCContentPublish --------------------------
(***************************************************************************)
(* Two imports whose disks share a content name: the first binds contents  *)
(* a and b into Image m1, the second content a into m2.                    *)
(***************************************************************************)
EXTENDS ContentPublish, TLC

CONSTANTS i1, i2, a, b, m1, m2

MCImageOf == i1 :> m1 @@ i2 :> m2
MCContentsOf == i1 :> {a, b} @@ i2 :> {a}
==============================================================================

---- MODULE MCPacketCache ----
(* Small instances of the packet cache: two tasks of one project, each a    *)
(* candidate of the other's prefetch, or one task.  The packets also hold   *)
(* rows of a second project, whose tasks nobody asks for.                   *)
EXTENDS PacketCache, TLC
CONSTANTS t1, t2, p1, p2
OneProject == (t1 :> p1) @@ (t2 :> p1)
OneTask == (t1 :> p1)
====

--------------------------------- MODULE Absent ---------------------------------
(* What a nullable column holds when it is null, and a slot when it is empty. *)
CONSTANT None
=================================================================================

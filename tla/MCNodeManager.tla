--------------------------- MODULE MCNodeManager ---------------------------
EXTENDS NodeManager
(* A node on another host, and the first node's own address. *)
OtherAndOwn == <<9, 1>>
=============================================================================

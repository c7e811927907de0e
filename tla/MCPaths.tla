------------------------------ MODULE MCPaths ------------------------------
(* A regular file, a FIFO, a symlink to the file (a socket fails the same  *)
(* way) and a device (a directory is refused the same way).                *)
EXTENDS Paths

CONSTANTS d1, d2, regular, pipe, link, device

MCDials == {d1, d2}

MCObjects == {regular, pipe, link, device}

MCTypeOf ==
  [o \in MCObjects |->
     CASE o = regular   -> "regular"
       [] o = pipe      -> "fifo"
       [] o = link      -> "symlink"
       [] o = device    -> "device"]

MCTargetOf == [MCTypeOf EXCEPT ![link] = "regular"]
=============================================================================

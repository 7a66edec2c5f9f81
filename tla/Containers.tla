----------------------------- MODULE Containers -----------------------------
(* The ring of src/block.cc and the sets of inc/set.h side by side.  A     *)
(* behaviour exercises one of them, the other stays as it was made.        *)
EXTENDS PacketQueue, FastSet

VARIABLE part

ContainersInit == part \in {"ring", "set"} /\ Init /\ SetInit

ContainersNext ==
    /\ UNCHANGED part
    /\ \/ part = "ring" /\ Next /\ UNCHANGED setVars
       \/ part = "set" /\ SetNext /\ UNCHANGED vars

ContainersSpec == ContainersInit /\ [][ContainersNext]_<<part, vars, setVars>>
=============================================================================

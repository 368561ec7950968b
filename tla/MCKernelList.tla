---------------------------- MODULE MCKernelList ----------------------------
(***************************************************************************)
(* Few heads and entries of both kinds of lists for TLC.  The two kinds    *)
(* share nothing, so a behaviour is of the one or of the other.            *)
(***************************************************************************)
EXTENDS KernelHList, TLC

VARIABLE kind  \* the lists that are called

ListsInit == Init /\ HInit /\ kind \in {"list", "hlist"}

ListsNext ==
    /\ \/ kind = "list" /\ Next /\ UNCHANGED hvars
       \/ kind = "hlist" /\ HNext /\ UNCHANGED vars
    /\ UNCHANGED kind

ListsSpec == ListsInit /\ [][ListsNext]_<<vars, hvars, kind>>

ListSymmetry == Permutations(Heads) \cup Permutations(Entries)
=============================================================================

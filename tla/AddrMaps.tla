------------------------------- MODULE AddrMaps -------------------------------
(***************************************************************************)
(* What the virtual memory extension promises to a kernel: an address      *)
(* space is a map from user pages to frames that nothing changes but map() *)
(* on that space.  am/include/am.h: protect, unprotect, map.               *)
(***************************************************************************)
CONSTANTS Space, UserVa, Frame, NULL

VARIABLE maps   \* of each space: a map, or NULL when it is not protected

Empty == [va \in UserVa |-> NULL]

Init == maps = [h \in Space |-> NULL]

Protect(h) == maps[h] = NULL /\ maps' = [maps EXCEPT ![h] = Empty]
Unprotect(h) == maps[h] # NULL /\ maps' = [maps EXCEPT ![h] = NULL]

Map(h, va, f) ==
    /\ maps[h] # NULL /\ maps[h][va] = NULL
    /\ maps' = [maps EXCEPT ![h][va] = f]
Unmap(h, va) ==
    /\ maps[h] # NULL /\ maps[h][va] # NULL
    /\ maps' = [maps EXCEPT ![h][va] = NULL]

Next ==
    \E h \in Space :
        /\ maps'[h] # maps[h]
        /\ \/ Protect(h) \/ Unprotect(h)
           \/ \E va \in UserVa : Unmap(h, va) \/ \E f \in Frame : Map(h, va, f)

Spec == Init /\ [][Next]_maps
=============================================================================

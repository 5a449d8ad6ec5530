----------------------------- MODULE SlicePool -----------------------------
(***************************************************************************)
(* What a pool of equal slices promises: a slice is given to one owner at  *)
(* a time, and NULL is given only when every slice is taken.               *)
(***************************************************************************)
CONSTANTS Slices, NULL
VARIABLES taken, ret

Init == taken = {} /\ ret = NULL

Give(s) ==
    /\ s \notin taken
    /\ taken' = taken \cup {s}
    /\ ret' = s

Refuse ==
    /\ taken = Slices
    /\ ret' = NULL
    /\ UNCHANGED taken

TakeBack(s) ==
    /\ s \in taken
    /\ taken' = taken \ {s}
    /\ UNCHANGED ret

Next == Refuse \/ \E s \in Slices : Give(s) \/ TakeBack(s)

Spec == Init /\ [][Next]_<<taken, ret>>
=============================================================================

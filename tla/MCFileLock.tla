----------------------------- MODULE MCFileLock -----------------------------
(* Small instances of FileLock. *)
EXTENDS FileLock, TLC

CONSTANTS p1, p2, f, g, h1, h2, h3, h4, h5, h6, none

\* One lock file, four coroutines in one worker and two in another.
OneFile_procOf == [h \in {h1, h2, h3, h4} |-> p1] @@ [h \in {h5, h6} |-> p2]
OneFile_fileOf == [h \in {h1, h2, h3, h4, h5, h6} |-> f]
OneFile_outer == [h \in {h1, h2, h3, h4, h5, h6} |-> none]

\* Two lock files, both used by both workers; h2 is locked under h1 and h5 under h4,
\* as resolveFile() locks under trackPhoto().
TwoFiles_procOf == [h \in {h1, h2, h3} |-> p1] @@ [h \in {h4, h5, h6} |-> p2]
TwoFiles_fileOf == [h \in {h1, h4, h6} |-> f] @@ [h \in {h2, h3, h5} |-> g]
TwoFiles_outer == h2 :> h1 @@ h5 :> h4 @@ [h \in {h1, h3, h4, h6} |-> none]

\* One worker: h1 and h2 (locking h3 and h4 inside) on f, h5 and h6 on g.
Nested_procOf == [h \in {h1, h2, h3, h4, h5, h6} |-> p1]
Nested_fileOf == [h \in {h1, h2} |-> f] @@ [h \in {h3, h4, h5, h6} |-> g]
Nested_outer == h3 :> h1 @@ h4 :> h2 @@ [h \in {h1, h2, h5, h6} |-> none]
=============================================================================

---------------------------- MODULE MCFileStore ----------------------------
(* Three calls of resolveFile() in two workers: two for the Telegram file a, one *)
(* for b2, which Telegram answers under the id b.                                *)
EXTENDS FileStore, TLC

CONSTANTS p1, p2, r1, r2, r3, a, b, b2, c, d

FileStore_procOf == (r1 :> p1) @@ (r2 :> p2) @@ (r3 :> p1)
FileStore_fileOf == (r1 :> a) @@ (r2 :> a) @@ (r3 :> b2)
FileStore_answered == (a :> a) @@ (b :> b) @@ (b2 :> b)
FileStore_contentOf == (a :> c) @@ (b :> d) @@ (b2 :> d)
=============================================================================

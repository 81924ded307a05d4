---------------------------- MODULE MCSyncService ----------------------------
(***************************************************************************)
(* Finite instances of SyncService for TLC.  SyncService has no counter,   *)
(* so an instance is finite as soon as its sets are: the bounds are the    *)
(* numbers of rows per kind, of concurrent stop requests and of workers.   *)
(***************************************************************************)
EXTENDS SyncService, TLC

\* Rows of one kind are interchangeable, and so are stop requests.
RowSymmetry == Permutations(Starred) \cup Permutations(Owned) \cup Permutations(Stoppers)
=============================================================================

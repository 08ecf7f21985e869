----------------------------- MODULE MCTestPool -----------------------------
(* Three tests, of which two share a snapshot, and two permits; one test *)
(* may have something in it that does not end.                             *)
EXTENDS TestPool

MCSnapshotOf == <<"shared", "shared", "own">>
MCMayHang == {{}, {1}}
=============================================================================

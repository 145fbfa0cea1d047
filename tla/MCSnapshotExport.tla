-------------------------- MODULE MCSnapshotExport --------------------------
(* Two UI threads and two handles, which both may report; an export and a   *)
(* worker that retries what it left.                                        *)
EXTENDS SnapshotExport

CONSTANTS t1, t2, h1, h2
=============================================================================

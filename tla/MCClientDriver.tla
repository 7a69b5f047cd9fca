--------------------------- MODULE MCClientDriver ---------------------------
(***************************************************************************)
(* Two jobs: one exchange after another, or one queued behind a shutdown.  *)
(***************************************************************************)
EXTENDS ClientDriver

CONSTANTS j1, j2

MCJobs == {j1, j2}
=============================================================================

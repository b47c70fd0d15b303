---------------------------- MODULE MCApiWorker ----------------------------
(***************************************************************************)
(* Small instances of ApiWorker: jobs of two kinds, so that a wrong order  *)
(* shows, and enough of them for a queue of several behind a running one.  *)
(***************************************************************************)
EXTENDS ApiWorker

CONSTANTS j1, j2
=============================================================================

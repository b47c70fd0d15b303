------------------------------ MODULE MCSession ------------------------------
(***************************************************************************)
(* Small instances of Session: a machine with one or two processes that    *)
(* can be adjusted, batches of two samples, a second session after the     *)
(* first and a second token after an unlink.                               *)
(***************************************************************************)
EXTENDS Session

CONSTANTS t1, t2, p1, p2
=============================================================================

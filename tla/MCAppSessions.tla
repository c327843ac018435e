---------------------------- MODULE MCAppSessions ----------------------------
(* Bounded instances of AppSessions: the window each job is posted to.      *)
EXTENDS AppSessions, TLC

CONSTANTS w0, w1, p1, x1, s1, s2

(* A posted job for the main window and one with context for the second.    *)
ToEach == (p1 :> w0) @@ (x1 :> w1)
=============================================================================

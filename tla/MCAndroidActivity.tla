------------------------- MODULE MCAndroidActivity -------------------------
(***************************************************************************)
(* Small instances of AndroidActivity for TLC.  Native windows, queues and *)
(* windows are model values; two native windows let a stale one be told    *)
(* from a new one.                                                         *)
(***************************************************************************)
EXTENDS AndroidActivity

\* A careful application that may leave by itself, and one that takes every
\* liberty but that, on a system that does, too.
CarefulOrFree == {{"quits"}, {"late", "closes", "early", "fails"}}
=============================================================================

---------------------------- MODULE MCWlDisplay ----------------------------
(* Small instances of WlDisplay for TLC. *)
EXTENDS WlDisplay

\* A compositor with everything, one without a clipboard, one without windows.
SomeGlobals == {Globals, Globals \ {"data"}, {"seat"}}
=============================================================================

----------------------------- MODULE MCWlWindow -----------------------------
(***************************************************************************)
(* Small instances of WlWindow for TLC.  The windows are model values; two *)
(* sizes suffice, for size enters the windows only as equal, different or  *)
(* SWA_DEFAULT_SIZE.                                                       *)
(***************************************************************************)
EXTENDS WlWindow

ToplevelOnly == {"toplevel"}

\* Where a careful application destroys and presents.
Careful == {"idle", "draw", "state", "close"}
InDraw == {"draw"}
=============================================================================

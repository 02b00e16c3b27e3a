---------------------------- MODULE MCWinWindow ----------------------------
(* Small instances of WinWindow for TLC. *)
EXTENDS WinWindow, TLC

OneMatter == {{"size"}, {"mouse"}, {"lock"}, {"key"}, {"input"}}

\* The windows are alike.
Alike == Permutations(Window)

\* win_proc goes on with the window after these callbacks.
DestroySafely == Contexts \ {"enter", "leave", "move"}
\* mouse_over is set only after the callback for an entering pointer.
CursorSafely == Contexts \ {"enter"}
=============================================================================

------------------------------ MODULE MCWlSeat ------------------------------
(* Small instances of WlSeat for TLC. *)
EXTENDS WlSeat

\* One device at a time, and keyboard and touch together.
SmallSeats == {{"keyboard"}, {"pointer"}, {"touch"}}
AllCursors == Images

\* Everywhere but where touch_up and touch_cancel go on with an index.
DestroyAnywhere == Callbacks \cup {"idle"}
DestroySafely == DestroyAnywhere \ {"up", "cancel"}
IdleAndCross == {"idle", "cross"}
Works == {TRUE}

\* The two windows are alike, and no property is a liveness property.
Alike == Permutations(Window)
=============================================================================

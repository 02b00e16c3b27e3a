---------------------------- MODULE MCKmsDisplay ----------------------------
(* Small instances of KmsDisplay for TLC. *)
EXTENDS KmsDisplay, TLC

Device(usable, conns) == [usable |-> usable, conns |-> conns]

\* A card another program is master of, an unplugged connector among two driven
\* ones, one screen, and no screen at all.
SomeMachines ==
  { <<Device(FALSE, <<1>>), Device(TRUE, <<1, 0, 2>>)>>,
    <<Device(TRUE, <<0>>), Device(TRUE, <<2>>)>>,
    <<Device(TRUE, <<0>>)>> }

\* Two connectors that show the same.
Clones == { <<Device(TRUE, <<1, 1>>)>> }

Cursor(type, hot, fits, exists) ==
  [type |-> type, hot |-> hot, fits |-> fits, exists |-> exists]

\* An image, an empty one, a theme's cursor and one it lacks, and none.
SomeCursors ==
  { Cursor("image", 1, TRUE, TRUE), Cursor("image", 2, TRUE, FALSE),
    Cursor("theme", 0, TRUE, TRUE), Cursor("theme", 0, TRUE, FALSE),
    Cursor("none", 0, TRUE, FALSE) }

\* An image larger than a hardware cursor.
WithLarge == SomeCursors \cup {Cursor("image", 2, FALSE, TRUE)}

OneMatter == {{"terminal"}, {"keys"}, {"pointer"}}

\* All the stages that may fail with the keyboard's mode saved, or without the
\* terminal open.
FailsSaved == {"name", "open", "setkb", "graphics", "process", "block", "signalfd", "term"}
FailsAnywhere == Range(Stages)

\* The windows are alike.
Alike == Permutations(Window)
=============================================================================

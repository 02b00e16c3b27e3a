---------------------------- MODULE MCX11Window ----------------------------
(* Small instances of X11Window for TLC. *)
EXTENDS X11Window

Visual(class, r, g, b) == [class |-> class, masks |-> Masks(r, g, b)]
Depth(depth, bpp, visuals) == [depth |-> depth, bpp |-> bpp, visuals |-> visuals]

Look(depths, transparent, preferred) ==
  [depths |-> depths, transparent |-> transparent, preferred |-> preferred]

\* The screen of most servers, one with the bytes of its words the other way
\* round and palettes first, one with packed pixels and one with 16 colours.
Common == <<Depth(24, 32, <<Visual("true color", 2, 3, 4), Visual("direct color", 2, 3, 4)>>),
            Depth(32, 32, <<Visual("true color", 2, 3, 4)>>)>>
Swapped == <<Depth(8, 8, <<Visual("pseudo color", 0, 0, 0)>>),
             Depth(32, 32, <<Visual("static color", 1, 2, 3), Visual("true color", 3, 2, 1)>>),
             Depth(24, 32, <<Visual("true color", 3, 2, 1)>>)>>
Packed == <<Depth(24, 24, <<Visual("true color", 2, 3, 4)>>)>>
Coarse == <<Depth(16, 16, <<Visual("true color", 0, 0, 0)>>)>>

SomeLooks ==
  [plain   |-> Look(Common, FALSE, "none"),   asked  |-> Look(Common, FALSE, "bgra32"),
   swapped |-> Look(Swapped, TRUE, "none"),   odd    |-> Look(Swapped, TRUE, "xrgb32"),
   packed  |-> Look(Packed, FALSE, "none"),   coarse |-> Look(Coarse, TRUE, "none")]

\* Sizes change, on every screen, together with what reaches a window without a
\* focus; the windows that have the focus, the pointer and the keys keep theirs.
OneKind ==
  {[inputs |-> {i, "configure"}, look |-> "plain"] : i \in {"input", "delete", "foreign"}} \cup
  {[inputs |-> {i}, look |-> "plain"] : i \in {"focus", "point", "key"}} \cup
  {[inputs |-> {"configure"}, look |-> l] : l \in DOMAIN SomeLooks \ {"plain"}}

\* The windows are alike.
Alike == Permutations(Window)

\* The expose handler goes on with the window after the resize callback.
DestroySafely == Contexts \ {"resize"}
=============================================================================

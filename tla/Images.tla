------------------------------- MODULE Images -------------------------------
(***************************************************************************)
(* Image formats (src/swa/swa.c) and the choice of an X11 visual for a     *)
(* window (src/swa/x11.c).                                                 *)
(*                                                                         *)
(* A pixel is a record of its channels.  A format of swa orders them in    *)
(* memory, a visual by masks in a word: the masks are the bytes of a word  *)
(* of 32 bits, 1 the most significant, and 0 is any other mask.  The       *)
(* machine is little endian.                                               *)
(***************************************************************************)
EXTENDS Integers, Sequences, FiniteSets, SequencesExt

Channels == {"r", "g", "b", "a"}

\* What swa_write_pixel stores in the bytes of a pixel; "x" is 255.
WriteOrder ==
  [rgba32 |-> <<"r", "g", "b", "a">>, argb32 |-> <<"a", "r", "g", "b">>,
   xrgb32 |-> <<"x", "r", "g", "b">>, abgr32 |-> <<"a", "b", "g", "r">>,
   bgra32 |-> <<"b", "g", "r", "a">>, bgrx32 |-> <<"b", "g", "r", "x">>,
   rgb24  |-> <<"r", "g", "b", "x">>, bgr24  |-> <<"b", "g", "r", "x">>,
   a8     |-> <<"a">>]

Formats == DOMAIN WriteOrder

\* The bytes swa_read_pixel takes the channels from; 0 is the value 255.
From(r, g, b, a) == [r |-> r, g |-> g, b |-> b, a |-> a]

ReadFrom ==
  [rgba32 |-> From(1, 2, 3, 4), argb32 |-> From(2, 3, 4, 1),
   xrgb32 |-> From(2, 3, 4, 0), abgr32 |-> From(4, 3, 2, 1),
   bgra32 |-> From(3, 2, 1, 4), bgrx32 |-> From(3, 2, 1, 0),
   rgb24  |-> From(1, 2, 3, 0), bgr24  |-> From(3, 2, 1, 0),
   a8     |-> From(1, 1, 1, 1)]

FormatSize(f) == CASE f \in {"rgb24", "bgr24"} -> 3 [] f = "a8" -> 1 [] OTHER -> 4

WritePixel(f, p) ==
  [i \in 1..Len(WriteOrder[f]) |-> IF WriteOrder[f][i] = "x" THEN 255 ELSE p[WriteOrder[f][i]]]

ReadPixel(f, bytes) ==
  [c \in Channels |-> IF ReadFrom[f][c] = 0 THEN 255 ELSE bytes[ReadFrom[f][c]]]

\* swa_image_format_reversed
Reversed(f) ==
  LET pairs == {{"rgba32", "abgr32"}, {"argb32", "bgra32"}, {"xrgb32", "bgrx32"},
                {"rgb24", "bgr24"}}
  IN IF \E p \in pairs : f \in p
       THEN CHOOSE g \in Formats \ {f} : {f, g} \in pairs
       ELSE f

\* swa_image_format_toggle_byte_word on a little endian machine
ToggleByteWord(f) == Reversed(f)

-----------------------------------------------------------------------------
(* Conversion of an image.  An image has a width, a height, a format, a      *)
(* stride, and data: a function of the addresses 0, 1, 2...  A write beyond  *)
(* the data shows in the domain.                                             *)

\* The addresses of the pixels in the order of swa_convert_image's loops.
Pixels(img) ==
  [n \in 1..(img.width * img.height) |->
     LET x == (n - 1) % img.width
         y == (n - 1) \div img.width
     IN y * img.stride + x * FormatSize(img.format)]

PixelAt(img, n) ==
  ReadPixel(img.format,
            [i \in 1..FormatSize(img.format) |-> img.data[Pixels(img)[n] + i - 1]])

\* The nth pixel is read and written.
WriteNext(src, dst, data, n) ==
  LET bytes == WritePixel(dst.format, PixelAt(src, n))
      at == Pixels(dst)[n]
  IN [i \in DOMAIN data \cup {at + k - 1 : k \in DOMAIN bytes} |->
        IF i - at + 1 \in DOMAIN bytes THEN bytes[i - at + 1] ELSE data[i]]

\* swa_convert_image writes the pixels one after the other: the fourth byte of
\* a pixel of 24 bits is overwritten by the next one, and that of the last one
\* falls behind it.
ConvertImage(src, dst) ==
  [dst EXCEPT !.data =
     FoldLeft(LAMBDA data, n : WriteNext(src, dst, data, n), dst.data,
              [n \in 1..(src.width * src.height) |-> n])]

-----------------------------------------------------------------------------
(* Visuals.  A screen is a sequence of depths, each with the bits per pixel  *)
(* of its pixmap format and a sequence of visuals.                           *)

Masks(r, g, b) == [r |-> r, g |-> g, b |-> b]

VisualType == [class : STRING, masks : [r : 0..4, g : 0..4, b : 0..4]]

DepthType ==
  {d \in [depth : Nat, bpp : Nat, visuals : Seq(VisualType)] :
     d.bpp = 24 => \A i \in DOMAIN d.visuals :
                     1 \notin {d.visuals[i].masks.r, d.visuals[i].masks.g, d.visuals[i].masks.b}}

Entry(bpp, r, g, b, a, f) ==
  [bpp |-> bpp, masks |-> Masks(r, g, b), a |-> a, format |-> f]

\* The table of visual_to_format, in word order.
WordFormats ==
  {Entry(32, 1, 2, 3, 4, "rgba32"), Entry(32, 3, 2, 1, 4, "bgra32"),
   Entry(32, 2, 3, 4, 1, "argb32"), Entry(24, 1, 2, 3, 0, "rgb24"),
   Entry(24, 3, 2, 1, 0, "bgr24"),  Entry(32, 3, 2, 1, 0, "bgrx32"),
   Entry(32, 2, 3, 4, 0, "xrgb32")}

\* The byte that the masks leave to the alpha channel, for a depth of 32.
AlphaMask(v, depth) ==
  LET left == (1..4) \ {v.masks.r, v.masks.g, v.masks.b}
  IN IF depth # 32 \/ Cardinality(left) # 1 THEN 0 ELSE CHOOSE k \in left : TRUE

\* Mutant: the format of the word is taken for that of the bytes in memory.
VisualToFormatMutant(v, depth, bpp) ==
  LET fits == {e \in WordFormats :
                 e.bpp = bpp /\ e.masks = v.masks /\ e.a = AlphaMask(v, depth)}
  IN IF <<depth, bpp>> \notin {<<24, 24>>, <<24, 32>>, <<32, 32>>} \/ fits = {}
       THEN "none"
       ELSE (CHOOSE e \in fits : TRUE).format

VisualToFormat(v, depth, bpp) ==
  LET fits == {e \in WordFormats :
                 e.bpp = bpp /\ e.masks = v.masks /\ e.a = AlphaMask(v, depth)}
  IN IF <<depth, bpp>> \notin {<<24, 24>>, <<24, 32>>, <<32, 32>>} \/ fits = {}
       THEN "none"
       ELSE ToggleByteWord((CHOOSE e \in fits : TRUE).format)

\* find_visual's candidates: the visuals of all depths, in their order.
Candidates(screen) ==
  FlattenSeq([d \in DOMAIN screen |->
    [i \in DOMAIN screen[d].visuals |->
       LET v == screen[d].visuals[i]
       IN [visual |-> v, depth |-> screen[d].depth,
           format |-> VisualToFormat(v, screen[d].depth, screen[d].bpp)]]])

Direct(c) == c.visual.class \in {"true color", "direct color"}

\* rate_visual for a buffer surface
Rate(settings, c) ==
  1 + (IF Direct(c) THEN 16 ELSE 0)
    + (IF c.format # "none" THEN 8 ELSE 0)
    + (IF c.format # "none" /\ c.format = settings.preferred THEN 32 ELSE 0)
    + (IF settings.transparent = (c.depth = 32) THEN 4 ELSE 0)

Perfect(settings, c) ==
  /\ Direct(c)
  /\ c.format # "none"
  /\ settings.preferred \in {"none", c.format}
  /\ settings.transparent = (c.depth = 32)

\* find_visual: the index of the first perfect visual, or else of the first of
\* the best.
FindVisual(settings, screen) ==
  LET all == Candidates(screen)
      perfect == {i \in DOMAIN all : Perfect(settings, all[i])}
      best == {i \in DOMAIN all :
                 \A j \in DOMAIN all : Rate(settings, all[j]) <= Rate(settings, all[i])}
      choices == IF perfect # {} THEN perfect ELSE best
  IN CHOOSE i \in choices : \A j \in choices : i <= j
=============================================================================

------------------------------ MODULE WinWindow ------------------------------
(***************************************************************************)
(* The windows of the Windows backend (src/swa/winapi.c): painting, sizes, *)
(* the window under the pointer, pointer locks, cursors, key text and      *)
(* buffer surfaces.                                                        *)
(*                                                                         *)
(* A thread's messages are taken in the order of the system: posted ones,  *)
(* then input, then WM_PAINT for a window with an invalid region.  Some    *)
(* calls send a message instead, and win_proc runs inside them, so         *)
(* callbacks nest: stack holds the listener callbacks being run, the       *)
(* innermost last, and then what win_proc does after each.                 *)
(*                                                                         *)
(* A size stands for (width, height), 0 for 0x0.  fault names the first    *)
(* use of a freed window; nothing follows it.                              *)
(***************************************************************************)
EXTENDS Integers, Sequences, SequencesExt, FiniteSets

CONSTANTS
  Window,       \* the windows the application may create, each once
  None,         \* the null pointer
  Sizes,        \* the sizes a window may have
  Text,         \* how many characters a key may stand for
  DestroyIn,    \* the callbacks in which the application destroys windows, nested
                \* in no other
  CursorIn,     \* the callbacks in which it sets cursors, nested in no other
  Careful,      \* it has one pointer lock at a time and unlocks before it destroys
  RawWorks,     \* the possible results of registering for raw input
  Sessions,     \* sets of the things that happen together
  MaxPosted, MaxInput, MaxNest  \* bounds on messages and nested callbacks

Contexts == {"idle", "draw", "resize", "close", "state", "key", "enter", "leave",
             "move", "input"}
Matters == {"size", "mouse", "lock", "key", "input"}
Arrow == "arrow"   \* the cursor of the window class

ASSUME WindowAssumption == None \notin Window /\ Sizes \subseteq Nat \ {0}
ASSUME TextAssumption == Text \subseteq 0..8
ASSUME ContextAssumption ==
  DestroyIn \cup CursorIn \subseteq Contexts /\ Sessions \subseteq SUBSET Matters
ASSUME SwitchAssumption ==
  Careful \in BOOLEAN /\ RawWorks \subseteq BOOLEAN

VARIABLES
  status,       \* per window: "unborn", "live" or "freed"
  size,         \* per window: width and height
  cursor,       \* per window: cursor.handle, or "unset" when cursor.set is not
  locked,       \* the windows with locked_pointer
  buffer,       \* the windows whose bitmap is handed out
  over,         \* dpy->mouse_over
  dispatching,  \* the thread is in display_dispatch
  msg,          \* the key message taken from the queue but not dispatched yet
  stack, fault,
  posted, input,  \* the thread's messages
  sys,          \* the system: visible and invalid windows, their sizes, the
                \* pointer, the tracked window, clip, raw input and the cursor
  inside,       \* the windows told that the pointer entered and not that it left
  wanted,       \* the windows owed a draw event
  session

winVars == <<status, size, cursor, locked, buffer, over>>
msgVars == <<dispatching, msg, posted, input>>
appVars == <<inside, wanted>>
vars == <<winVars, msgVars, stack, fault, sys, appVars, session>>

-----------------------------------------------------------------------------
Live(w) == w # None /\ status[w] = "live"

Frame(fn, w, then, arg) == [fn |-> fn, win |-> w, then |-> then, arg |-> arg]
Callback == IF stack = <<>> THEN "idle" ELSE Last(stack).fn
\* The callback the application is in, and those it is nested in.
Callbacks == IF stack = <<>> THEN {"idle"} ELSE {stack[i].fn : i \in DOMAIN stack}
Push(f) == stack' = Append(stack, f)

Msg(on, w, arg) == [on |-> on, win |-> w, arg |-> arg]
NoMsg == Msg("none", None, 0)

\* The application runs: in a callback, or outside display_dispatch.
Running == fault = "none" /\ msg = NoMsg /\ (stack = <<>> => ~dispatching)

\* display_dispatch takes the next message.
Taking == dispatching /\ stack = <<>> /\ msg = NoMsg /\ fault = "none"

OnPosted(name) ==
  /\ Taking /\ posted # <<>> /\ Head(posted).on = name
  /\ posted' = Tail(posted)
  /\ UNCHANGED <<dispatching, msg, input>>

OnInput(name) ==
  /\ Taking /\ posted = <<>> /\ input # <<>> /\ Head(input).on = name
  /\ input' = Tail(input)
  /\ UNCHANGED <<dispatching, msg>>

Init ==
  /\ status = [w \in Window |-> "unborn"]
  /\ size = [w \in Window |-> 0]
  /\ cursor = [w \in Window |-> "unset"]
  /\ locked = {}
  /\ buffer = {}
  /\ over = None
  /\ dispatching = FALSE
  /\ msg = NoMsg
  /\ stack = <<>>
  /\ fault = "none"
  /\ posted = <<>>
  /\ input = <<>>
  /\ sys = [visible |-> {}, invalid |-> {}, size |-> [w \in Window |-> 0],
            pointer |-> None, tracked |-> None, clip |-> None, raw |-> None,
            shown |-> Arrow]
  /\ inside = {}
  /\ wanted = {}
  /\ session \in Sessions

\* The messages of q at the places in kept, in their order.
Keep(q, kept) ==
  LET out(i) == Cardinality({k \in kept : k <= i})
  IN [j \in 1..Cardinality(kept) |-> q[CHOOSE i \in kept : out(i) = j]]

-----------------------------------------------------------------------------
(* Sizes and painting *)

\* Mutant: a window class without CS_HREDRAW and CS_VREDRAW.
RedrawnMutant(w) == sys.invalid

\* The class, registered once, has the system invalidate a window that is resized.
Redrawn(w) == IF w \in sys.visible THEN sys.invalid \cup {w} ELSE sys.invalid

\* WM_SIZE, sent to a window the system gives size s while the callbacks in
\* below are being run.
WmSize(w, s, below) ==
  /\ sys' = [sys EXCEPT !.size[w] = s, !.invalid = Redrawn(w)]
  /\ wanted' = IF w \in sys.visible THEN wanted \cup {w} ELSE wanted
  /\ size' = [size EXCEPT ![w] = s]
  /\ stack' = IF size[w] = s THEN below ELSE Append(below, Frame("resize", w, "end", 0))

\* display_create_window: CreateWindowEx sends its messages before the window
\* is known to win_proc; ShowWindowAsync posts.
CreateWindow(w, s) ==
  /\ Running /\ stack = <<>>
  /\ status[w] = "unborn"
  /\ Len(posted) < MaxPosted
  /\ status' = [status EXCEPT ![w] = "live"]
  /\ sys' = [sys EXCEPT !.size[w] = s]
  /\ posted' = Append(posted, Msg("show", w, TRUE))
  /\ UNCHANGED <<size, cursor, locked, buffer, over, dispatching, msg, input,
                 stack, fault, appVars, session>>

\* win_show.
Show(w, on) ==
  /\ Running /\ Live(w) /\ "size" \in session
  /\ Len(posted) < MaxPosted
  /\ posted' = Append(posted, Msg("show", w, on))
  /\ UNCHANGED <<winVars, dispatching, msg, input, stack, fault, sys, appVars, session>>

\* The window is shown or hidden; the first time it is also told its size.
WmShow ==
  /\ OnPosted("show")
  /\ LET w == Head(posted).win
         told == size[w] = sys.size[w]
     IN IF Head(posted).arg
          THEN /\ sys' = [sys EXCEPT !.visible = @ \cup {w}, !.invalid = @ \cup {w}]
               /\ wanted' = wanted \cup {w}
               /\ size' = [size EXCEPT ![w] = sys.size[w]]
               /\ IF told THEN UNCHANGED stack ELSE Push(Frame("resize", w, "end", 0))
          ELSE /\ sys' = [sys EXCEPT !.visible = @ \ {w}, !.invalid = @ \ {w}]
               /\ UNCHANGED <<wanted, size, stack>>
  /\ UNCHANGED <<status, cursor, locked, buffer, over, fault, inside, session>>

\* win_set_size and win_set_state: SetWindowPos sends WM_SIZE to a window of
\* the same thread.
SetSize(w, s) ==
  /\ Running /\ Live(w) /\ "size" \in session
  /\ Len(stack) < MaxNest
  /\ sys.size[w] # s
  /\ WmSize(w, s, stack)
  /\ UNCHANGED <<status, cursor, locked, buffer, over, msgVars, fault, inside, session>>

\* WM_SYSCOMMAND: the listener is told of the state, and DefWindowProc then
\* gives the window its size.
WmSysCommand ==
  /\ OnPosted("command")
  /\ Push(Frame("state", Head(posted).win, "command", Head(posted).arg))
  /\ UNCHANGED <<winVars, fault, sys, appVars, session>>

WmClose ==
  /\ OnPosted("close")
  /\ Push(Frame("close", Head(posted).win, "end", 0))
  /\ UNCHANGED <<winVars, fault, sys, appVars, session>>

\* win_refresh.
Refresh(w) ==
  /\ Running /\ Live(w)
  /\ sys' = [sys EXCEPT !.invalid = Redrawn(w)]
  /\ wanted' = wanted \cup {w}
  /\ UNCHANGED <<winVars, msgVars, stack, fault, inside, session>>

\* WM_PAINT: DefWindowProc validates the window, after the callback, and so also
\* what became invalid in it.
WmPaint(w) ==
  /\ Taking /\ posted = <<>> /\ input = <<>>
  /\ w \in sys.invalid
  /\ IF size[w] = 0
       THEN sys' = [sys EXCEPT !.invalid = @ \ {w}] /\ UNCHANGED <<stack, wanted>>
       ELSE /\ Push(Frame("draw", w, "paint", 0))
            /\ wanted' = wanted \ {w}
            /\ UNCHANGED sys
  /\ UNCHANGED <<winVars, msgVars, fault, inside, session>>

\* win_get_buffer, whose bitmap has the window's size at the time; win_apply_buffer.
GetBuffer(w) ==
  /\ Running /\ Live(w) /\ Callback = "draw" /\ "size" \in session
  /\ w \notin buffer
  /\ buffer' = buffer \cup {w}
  /\ UNCHANGED <<status, size, cursor, locked, over, msgVars, stack, fault, sys, appVars,
                 session>>

ApplyBuffer(w) ==
  /\ Running /\ Live(w) /\ Callback = "draw"
  /\ w \in buffer
  /\ buffer' = buffer \ {w}
  /\ UNCHANGED <<status, size, cursor, locked, over, msgVars, stack, fault, sys, appVars,
                 session>>

-----------------------------------------------------------------------------
(* The pointer *)

\* Mutant: the leave messages are not asked for.
TrackMutant(w, s, p) == sys' = s /\ posted' = p

\* TrackMouseEvent: WM_MOUSELEAVE is posted when the pointer leaves w, at once
\* when it is not there.
Track(w, s, p) ==
  IF s.pointer = w
    THEN sys' = [s EXCEPT !.tracked = w] /\ posted' = p
    ELSE sys' = s /\ posted' = Append(p, Msg("leave", w, 0))

\* WM_SETCURSOR, sent before WM_MOUSEMOVE.
WithCursor(w) == [sys EXCEPT !.shown = IF cursor[w] = "unset" THEN Arrow ELSE cursor[w]]

\* WM_MOUSEMOVE: a locked window ignores it; a window that is not mouse_over is
\* entered first, and becomes mouse_over after the callback.
WmMouseMove ==
  /\ OnInput("move")
  /\ LET w == Head(input).win
     IN /\ sys' = WithCursor(w)
        /\ IF w \in locked
             THEN UNCHANGED <<stack, inside>>
             ELSE IF w = over
                    THEN Push(Frame("move", w, "moved", 0)) /\ UNCHANGED inside
                    ELSE /\ Push(Frame("enter", w, "entered", 0))
                         /\ inside' = inside \cup {w}
  /\ UNCHANGED <<winVars, posted, fault, wanted, session>>

\* WM_MOUSELEAVE.
WmMouseLeave ==
  /\ OnPosted("leave")
  /\ inside' = inside \ {Head(posted).win}
  /\ Push(Frame("leave", Head(posted).win, "left", 0))
  /\ UNCHANGED <<winVars, fault, sys, wanted, session>>

\* WM_INPUT, for a locked pointer.  What it asserts is RawAsserted.
WmInput ==
  /\ OnInput("raw")
  /\ IF Head(input).win \in locked
       THEN Push(Frame("move", Head(input).win, "end", 0))
       ELSE UNCHANGED stack
  /\ UNCHANGED <<winVars, posted, fault, sys, appVars, session>>

\* Buttons and the wheel only reach the listener.
WmButton ==
  /\ OnInput("button")
  /\ Push(Frame("input", Head(input).win, "end", 0))
  /\ UNCHANGED <<winVars, posted, fault, sys, appVars, session>>

\* win_set_cursor: the default cursor waits for the next WM_SETCURSOR.
SetCursor(w, c) ==
  /\ Running /\ Live(w) /\ "mouse" \in session
  /\ Callbacks \subseteq CursorIn
  /\ cursor[w] # c
  /\ cursor' = [cursor EXCEPT ![w] = c]
  /\ sys' = IF over = w /\ c # "unset" THEN [sys EXCEPT !.shown = c] ELSE sys
  /\ UNCHANGED <<status, size, locked, buffer, over, msgVars, stack, fault, appVars,
                 session>>

\* The pointer is at w now.  The window that tracked it is told by a posted
\* message; the system keeps one move at the end of the input, to where the
\* pointer is.
PointerAt(w, s) ==
  LET leaves == s.tracked \notin {None, w}
      rest == Keep(input, {i \in DOMAIN input : input[i].on # "move"})
  IN /\ leaves => Len(posted) < MaxPosted
     /\ Len(rest) < MaxInput
     /\ posted' = IF leaves THEN Append(posted, Msg("leave", s.tracked, 0)) ELSE posted
     /\ input' = IF w = None THEN rest ELSE Append(rest, Msg("move", w, 0))
     /\ sys' = [s EXCEPT !.pointer = w, !.tracked = IF leaves THEN None ELSE @]

\* Mutant: the clip stays when raw input cannot be had.
LockPointerMutant(w) ==
  /\ Running /\ Live(w) /\ "lock" \in session
  /\ w \notin locked
  /\ Careful => locked = {}
  /\ \E ok \in RawWorks :
       /\ PointerAt(w, [sys EXCEPT !.clip = w, !.raw = IF ok THEN w ELSE @])
       /\ locked' = IF ok THEN locked \cup {w} ELSE locked
  /\ UNCHANGED <<status, size, cursor, buffer, over, dispatching, msg, stack, fault,
                 appVars, session>>

\* win_lock_pointer(true): ClipCursor moves the pointer into the window, and is
\* undone when raw input cannot be had.
LockPointer(w) ==
  /\ Running /\ Live(w) /\ "lock" \in session
  /\ w \notin locked
  /\ Careful => locked = {}
  /\ \E ok \in RawWorks :
       /\ PointerAt(w, IF ok THEN [sys EXCEPT !.clip = w, !.raw = w]
                            ELSE [sys EXCEPT !.clip = None])
       /\ locked' = IF ok THEN locked \cup {w} ELSE locked
  /\ UNCHANGED <<status, size, cursor, buffer, over, dispatching, msg, stack, fault,
                 appVars, session>>

\* win_lock_pointer(false).
UnlockPointer(w) ==
  /\ Running /\ Live(w)
  /\ w \in locked
  /\ locked' = locked \ {w}
  /\ sys' = [sys EXCEPT !.clip = None, !.raw = None]
  /\ UNCHANGED <<status, size, cursor, buffer, over, msgVars, stack, fault, appVars,
                 session>>

-----------------------------------------------------------------------------
(* Keys *)

\* The message loop takes a key message, and then TranslateMessage posts the
\* characters of a pressed key.
TakeKey ==
  /\ Taking /\ posted = <<>> /\ input # <<>>
  /\ Head(input).on \in {"keydown", "keyup"}
  /\ input' = Tail(input)
  /\ msg' = Head(input)
  /\ UNCHANGED <<winVars, dispatching, posted, stack, fault, sys, appVars, session>>

Chars(n) == [i \in 1..n |-> Msg("char", None, 0)]

\* Mutant: a key takes one character.
LeadingMutant(p) == IF p # <<>> /\ Head(p).on = "char" THEN 1 ELSE 0

\* The characters at the front of the messages, at most eight.
Leading(p) ==
  LET n == CHOOSE n \in 0..Len(p) :
             /\ \A i \in 1..n : p[i].on = "char"
             /\ n < Len(p) => p[n + 1].on # "char"
  IN IF n > 8 THEN 8 ELSE n

\* handle_key takes them for its own text.
HandleKey ==
  /\ msg # NoMsg /\ fault = "none"
  /\ LET p == IF msg.on = "keydown" THEN posted \o Chars(msg.arg) ELSE posted
         n == Leading(p)
     IN /\ posted' = SubSeq(p, n + 1, Len(p))
        /\ Push(Frame("key", msg.win, "end", n))
  /\ msg' = NoMsg
  /\ UNCHANGED <<winVars, dispatching, input, fault, sys, appVars, session>>

\* A character that no key took, and display_wakeup's message.
Drop ==
  /\ OnPosted("char") \/ OnPosted("user")
  /\ UNCHANGED <<winVars, stack, fault, sys, appVars, session>>

\* display_wakeup, called by another thread: at any time, also between taking a
\* key and translating it.
Wakeup ==
  /\ fault = "none" /\ "key" \in session
  /\ Len(posted) < MaxPosted
  /\ posted' = Append(posted, Msg("user", None, 0))
  /\ UNCHANGED <<winVars, dispatching, msg, input, stack, fault, sys, appVars, session>>

-----------------------------------------------------------------------------
(* Destroying windows, returning from callbacks, and the message loop *)

OfOthers(q, w) == Keep(q, {i \in DOMAIN q : q[i].win # w})

\* win_destroy: the system drops the window's messages; mouse_over, the clip
\* and the raw input stay.
Destroy(w) ==
  /\ Running /\ Live(w)
  /\ Callbacks \subseteq DestroyIn
  /\ Careful => w \notin locked
  /\ status' = [status EXCEPT ![w] = "freed"]
  /\ posted' = OfOthers(posted, w)
  /\ input' = OfOthers(input, w)
  /\ sys' = [sys EXCEPT !.visible = @ \ {w}, !.invalid = @ \ {w}, !.size[w] = 0,
                        !.pointer = IF @ = w THEN None ELSE @,
                        !.tracked = IF @ = w THEN None ELSE @]
  /\ size' = [size EXCEPT ![w] = 0]
  /\ cursor' = [cursor EXCEPT ![w] = "unset"]
  /\ buffer' = buffer \ {w}
  /\ inside' = inside \ {w}
  /\ wanted' = wanted \ {w}
  /\ UNCHANGED <<locked, over, dispatching, msg, stack, fault, session>>

\* What win_proc does after the callback on top of the stack.  WM_MOUSELEAVE
\* asserts that the window is mouse_over, which is in MouseAgrees.
Return ==
  /\ stack # <<>> /\ fault = "none"
  /\ LET f == Last(stack)
         w == f.win
         rest == Front(stack)
     IN CASE f.then = "end" \/ (f.then = "command" /\ ~Live(w)) ->
               stack' = rest /\ UNCHANGED <<size, over, posted, sys, wanted, fault>>
          [] f.then = "paint" ->
               /\ stack' = rest
               /\ sys' = [sys EXCEPT !.invalid = @ \ {w}]
               /\ UNCHANGED <<size, over, posted, wanted, fault>>
          [] f.then = "command" /\ Live(w) ->
               WmSize(w, f.arg, rest) /\ UNCHANGED <<over, posted, fault>>
          [] f.then \in {"entered", "left", "moved"} /\ ~Live(w) ->
               /\ fault' = "freed window"
               /\ UNCHANGED <<stack, size, over, posted, sys, wanted>>
          [] f.then = "entered" /\ Live(w) ->
               /\ over' = w
               /\ Track(w, sys, posted)
               /\ stack' = Append(rest, Frame("move", w, "moved", 0))
               /\ UNCHANGED <<size, wanted, fault>>
          [] f.then = "left" /\ Live(w) ->
               over' = None /\ stack' = rest /\ UNCHANGED <<size, posted, sys, wanted, fault>>
          [] f.then = "moved" /\ Live(w) ->
               stack' = rest /\ UNCHANGED <<size, over, posted, sys, wanted, fault>>
  /\ UNCHANGED <<status, cursor, locked, buffer, dispatching, msg, input, inside, session>>

\* display_dispatch begins with a message, waiting for it when it may block,
\* and ends when none is left.
Dispatch ==
  /\ stack = <<>> /\ msg = NoMsg /\ fault = "none"
  /\ LET empty == posted = <<>> /\ input = <<>> /\ sys.invalid = {}
     IN IF dispatching THEN empty ELSE ~empty
  /\ dispatching' = ~dispatching
  /\ UNCHANGED <<winVars, msg, posted, input, stack, fault, sys, appVars, session>>

-----------------------------------------------------------------------------
(* The system and the user *)

Arrives(m) ==
  /\ fault = "none"
  /\ Len(input) < MaxInput
  /\ input' = Append(input, m)
  /\ UNCHANGED <<winVars, dispatching, msg, stack, fault, appVars, session>>

\* The pointer moves in or to a window, or from all of them.
UserMoves(w) ==
  /\ fault = "none" /\ {"mouse", "lock"} \cap session # {}
  /\ w = None \/ w \in sys.visible
  /\ w = None => sys.pointer # None
  /\ sys.clip \in {None, w}
  /\ PointerAt(w, sys)
  /\ UNCHANGED <<winVars, dispatching, msg, stack, fault, appVars, session>>

\* Raw input, keys and buttons.
UserInput(w) ==
  /\ UNCHANGED <<sys, posted>>
  /\ Live(w)
  /\ \/ "lock" \in session /\ sys.raw = w /\ Arrives(Msg("raw", w, 0))
     \/ "input" \in session /\ Arrives(Msg("button", w, 0))
     \/ "key" \in session /\ Arrives(Msg("keyup", w, 0))
     \/ "key" \in session /\ \E n \in Text : Arrives(Msg("keydown", w, n))

\* The user closes, maximizes, minimizes or restores a window; win_begin_move
\* and win_begin_resize post a command as well.
UserCommands(w) ==
  /\ fault = "none" /\ "size" \in session
  /\ w \in sys.visible
  /\ Len(posted) < MaxPosted
  /\ \E m \in {Msg("close", w, 0)} \cup {Msg("command", w, s) : s \in Sizes} :
       posted' = Append(posted, m)
  /\ UNCHANGED <<winVars, dispatching, msg, input, stack, fault, sys, appVars, session>>

\* Another window uncovers w.
Uncover(w) ==
  /\ fault = "none" /\ w \in sys.visible
  /\ sys' = [sys EXCEPT !.invalid = @ \cup {w}]
  /\ wanted' = wanted \cup {w}
  /\ UNCHANGED <<winVars, msgVars, stack, fault, inside, session>>

-----------------------------------------------------------------------------
Loop ==
  \/ WmShow \/ WmSysCommand \/ WmClose \/ WmMouseMove \/ WmMouseLeave \/ WmInput
  \/ WmButton \/ TakeKey \/ HandleKey \/ Drop \/ Return \/ Dispatch
  \/ \E w \in Window : WmPaint(w)

Next ==
  \/ Loop \/ Wakeup \/ UserMoves(None)
  \/ \E w \in Window :
       \/ \E s \in Sizes : CreateWindow(w, s) \/ SetSize(w, s)
       \/ \E on \in BOOLEAN : Show(w, on)
       \/ \E c \in {"unset", "hand", "hidden"} : SetCursor(w, c)
       \/ Refresh(w) \/ Destroy(w) \/ GetBuffer(w) \/ ApplyBuffer(w)
       \/ LockPointer(w) \/ UnlockPointer(w)
       \/ UserMoves(w) \/ UserInput(w) \/ UserCommands(w) \/ Uncover(w)

Spec == Init /\ [][Next]_vars

-----------------------------------------------------------------------------
(* Properties *)

\* Between two messages, the windows that were told the pointer entered are the
\* one mouse_over points to, and it shows the cursor the application set.  A
\* window told that the pointer left is still mouse_over, as win_proc asserts.
MouseAgrees ==
  /\ stack = <<>> /\ fault = "none" =>
       /\ inside = {w \in Window : Live(w) /\ over = w}
       /\ \A w \in inside : cursor[w] # "unset" => sys.shown = cursor[w]
  /\ \A i \in DOMAIN stack : stack[i].then = "left" => over = stack[i].win

\* Raw input reaches the window that mouse_over points to (the assertion of
\* win_proc's WM_INPUT).  It need not: a locked window ignores WM_MOUSEMOVE.
RawAsserted ==
  /\ Taking /\ posted = <<>> /\ input # <<>>
  /\ Head(input).on = "raw" /\ Head(input).win \in locked
  => over = Head(input).win

\* A live window is locked exactly while the system confines the pointer to it
\* and sends it raw input: a locked window is not deaf, and the pointer of a
\* window that is not locked is free.
LockAgrees ==
  \A w \in Window : Live(w) =>
    /\ w \in locked <=> sys.clip = w
    /\ w \in locked <=> sys.raw = w

\* The windows owed a draw event that no WM_PAINT will emit: those which are shown
\* and valid.
Lost == {w \in wanted : w \in sys.visible /\ w \notin sys.invalid}

\* The only request for a draw event that is ever lost is one made, by whomever,
\* in the window's own draw callback, and it is lost when that returns (WM_PAINT).
PaintKept ==
  [][\A w \in Lost' \ Lost :
       /\ Callback = "draw" /\ Last(stack).win = w /\ w \in wanted
       /\ stack' = Front(stack)]_vars

\* No request for a draw event is lost, whenever it is made (swa_window_refresh).  One
\* is: what win_refresh invalidates in the draw callback, EndPaint validates.
PaintAlways == Lost = {}

\* A pressed key is reported with the whole text it stands for, or without any when
\* another message comes before its characters; no other key is given text, and
\* none the text of another (handle_key).
TextWhole ==
  [][HandleKey =>
       Last(stack').arg = IF msg.on = "keydown" /\ posted = <<>> THEN msg.arg ELSE 0]_vars

\* The text handle_key finds for a pressed key is the text it stands for
\* (swa_key_event).  It is not with a posted message in front of it.
TextAlways == msg.on = "keydown" => Leading(posted \o Chars(msg.arg)) = msg.arg

\* What win_proc uses after a callback is there.
NoFault == fault = "none"
=============================================================================

------------------------------- MODULE WlSeat -------------------------------
(***************************************************************************)
(* The seat of the Wayland backend (src/swa/wayland.c): keyboard focus and *)
(* key repeat, pointer focus, buttons and the animated cursor, pointer     *)
(* locks, touch points, and the capabilities that come and go.             *)
(*                                                                         *)
(* The compositor's events travel in wire and are dispatched in order;     *)
(* comp is what the compositor itself believes.  As in WlWindow, cb is the *)
(* listener callback being run and cb.then what its handler does next.     *)
(* A window destroyed by the application is unknown to the compositor only *)
(* from Forget on, so events that name a destroyed surface are received.   *)
(*                                                                         *)
(* fault names the first fault of memory or arithmetic; nothing follows it.*)
(***************************************************************************)
EXTENDS Integers, Sequences, SequencesExt, FiniteSets, FiniteSetsExt

CONSTANTS
  Window,      \* the windows, all created at the start
  NoWindow,    \* the null window pointer
  Seats,       \* the sets of devices a seat may have
  Key,         \* the keys of the keyboard
  NoKey,       \* key_repeat.key = 0
  Repeating,   \* the keys the keymap repeats
  Finger,      \* the touch ids
  Rates,       \* the repeat rates the compositor announces
  Cursors,     \* the kinds of cursor the application sets
  DestroyIn,   \* the callbacks in which the application destroys windows
  CursorIn,    \* the contexts in which it sets cursors
  Careful,     \* it unlocks a window and awaits the release of its keys first
  LeaveFirst,  \* the compositor leaves a device's focus before withdrawing it
  XkbWorks,    \* the possible results of initialising xkb
  MaxWire      \* bound on the events in flight

Device == {"keyboard", "pointer", "touch"}
Callbacks == {"focus", "key", "repeat", "cross", "move", "button", "down",
              "update", "up", "cancel"}
Images == {"none", "still", "animated", "image"}

ASSUME SeatAssumption == Seats \subseteq SUBSET Device /\ NoWindow \notin Window
ASSUME KeyAssumption == Repeating \subseteq Key /\ NoKey \notin Key
ASSUME CursorAssumption == Cursors \subseteq Images /\ Rates \subseteq Nat
ASSUME ContextAssumption ==
  /\ DestroyIn \subseteq Callbacks \cup {"idle"}
  /\ CursorIn \subseteq Callbacks \cup {"idle"}
ASSUME SwitchAssumption ==
  Careful \in BOOLEAN /\ LeaveFirst \in BOOLEAN /\ XkbWorks \subseteq BOOLEAN

VARIABLES
  alive,   \* the windows not destroyed
  native,  \* per window: win->cursor.native
  image,   \* per window: win->cursor.buffer is there
  lock,    \* per window: locked_pointer and pointer_locked
  asked,   \* per window: the cursor the application asked for last
  bound,   \* the wl_keyboard, wl_pointer, wl_touch that exist
  focus,   \* dpy->focus
  keys,    \* dpy->key_states
  repeat,  \* dpy->key_repeat
  over,    \* dpy->mouse_over
  button,  \* dpy->mouse_button_states is not 0
  cursor,  \* dpy->cursor, and what its surface shows
  points,  \* dpy->touch_points
  cb, fault, wire, comp

winVars == <<alive, native, image, lock, asked>>
keyVars == <<focus, keys, repeat>>
mouseVars == <<over, button, cursor>>
vars == <<winVars, bound, keyVars, mouseVars, points, cb, fault, wire, comp>>

-----------------------------------------------------------------------------
(* Callbacks, events and faults *)

Call(fn, w, then, arg) == [fn |-> fn, win |-> w, then |-> then, arg |-> arg]
NoCb == Call("idle", NoWindow, "end", 0)

Ev(on, w, arg) == [on |-> on, win |-> w, arg |-> arg]

\* The events that name a surface.
Surfaced == {"enter", "leave", "point", "unpoint", "down"}

Idle == cb = NoCb /\ fault = "none"

\* The next event, its proxies being alive, is handled.
On(name) ==
  /\ Idle
  /\ wire # <<>>
  /\ Head(wire).on = name
  /\ name \in Surfaced => Head(wire).win \in alive
  /\ wire' = Tail(wire)

Fault(f) == fault' = f
Fine == UNCHANGED fault

Init ==
  /\ alive = Window
  /\ native = [w \in Window |-> "none"]
  /\ image = [w \in Window |-> FALSE]
  /\ lock = [w \in Window |-> "none"]
  /\ asked = [w \in Window |-> "none"]
  /\ bound = {}
  /\ focus = NoWindow
  /\ keys = {}
  /\ repeat = [timer |-> FALSE, armed |-> FALSE, key |-> NoKey, rate |-> 0]
  /\ over = NoWindow
  /\ button = FALSE
  /\ cursor = [active |-> "none", redraw |-> FALSE, frame |-> FALSE,
               armed |-> FALSE, shown |-> "none", entered |-> FALSE]
  /\ points = <<>>
  /\ cb = NoCb
  /\ fault = "none"
  /\ wire = <<>>
  /\ \E s \in Seats :
       comp = [seat |-> s, caps |-> {}, focus |-> NoWindow, keys |-> {},
               over |-> NoWindow, button |-> FALSE, known |-> Window,
               touch |-> [f \in Finger |-> NoWindow]]

-----------------------------------------------------------------------------
(* The seat's capabilities *)

\* seat_caps: xkb is set up with the keyboard, and a failure skips the rest.
\* Nothing but the key repeat timer is reset when a device is lost.
SeatCaps ==
  /\ On("caps")
  /\ \E ok \in XkbWorks :
       LET caps == Head(wire).arg
           failed == "keyboard" \in caps \ bound /\ ~ok
           lost == "keyboard" \in bound \ caps
       IN /\ bound' = IF failed THEN bound ELSE caps
          /\ repeat' = IF lost THEN [repeat EXCEPT !.timer = FALSE, !.armed = FALSE]
                               ELSE repeat
  /\ Fine
  /\ UNCHANGED <<winVars, focus, keys, mouseVars, points, cb, comp>>

-----------------------------------------------------------------------------
(* Keyboard *)

KeyboardEnter ==
  /\ On("enter")
  /\ focus' = Head(wire).win
  /\ cb' = Call("focus", Head(wire).win, "end", 0)
  /\ Fine
  /\ UNCHANGED <<winVars, bound, keys, repeat, mouseVars, points, comp>>

\* The repeat timer and the key states are reset after the callback.
KeyboardLeave ==
  /\ On("leave")
  /\ focus' = NoWindow
  /\ cb' = Call("focus", Head(wire).win, "leave", 0)
  /\ Fine
  /\ UNCHANGED <<winVars, bound, keys, repeat, mouseVars, points, comp>>

\* Mutant: the repeat timer is not disarmed.
AfterLeaveMutant ==
  /\ keys' = {}
  /\ repeat' = [repeat EXCEPT !.key = NoKey]
  /\ Fine
  /\ UNCHANGED <<cursor, button, points>>

AfterLeave ==
  /\ keys' = {}
  /\ repeat' = IF repeat.timer THEN [repeat EXCEPT !.armed = FALSE, !.key = NoKey]
                               ELSE repeat
  /\ Fine
  /\ UNCHANGED <<cursor, button, points>>

\* keyboard_key; without a focus the event is dropped.
KeyboardKey ==
  /\ On("key")
  /\ LET k == Head(wire).arg[1]
         pressed == Head(wire).arg[2]
     IN IF focus = NoWindow
          THEN UNCHANGED <<keys, cb>>
          ELSE /\ keys' = IF pressed THEN keys \cup {k} ELSE keys \ {k}
               /\ cb' = Call("key", focus, IF pressed THEN "pressed" ELSE "released", k)
  /\ Fine
  /\ UNCHANGED <<winVars, bound, focus, repeat, mouseVars, points, comp>>

AfterKey(pressed, k) ==
  /\ repeat' =
       IF pressed /\ repeat.timer /\ k \in Repeating
         THEN [repeat EXCEPT !.armed = TRUE, !.key = k]
         ELSE IF ~pressed /\ k = repeat.key
                THEN [repeat EXCEPT !.armed = FALSE, !.key = NoKey]
                ELSE repeat
  /\ Fine
  /\ UNCHANGED <<keys, cursor, button, points>>

\* key_repeat_cb: the timer fired.  The focus is used without a check.
KeyRepeat ==
  /\ Idle
  /\ repeat.armed
  /\ repeat' = [repeat EXCEPT !.armed = FALSE]
  /\ IF focus = NoWindow
       THEN Fault("no focus") /\ UNCHANGED cb
       ELSE cb' = Call("repeat", focus, "rearm", 0) /\ Fine
  /\ UNCHANGED <<winVars, bound, focus, keys, mouseVars, points, wire, comp>>

\* The next repetition comes after a second divided by the rate.
AfterRepeat ==
  /\ IF repeat.rate = 0
       THEN Fault("division by zero") /\ UNCHANGED repeat
       ELSE Fine /\ repeat' = [repeat EXCEPT !.armed = TRUE]
  /\ UNCHANGED <<keys, cursor, button, points>>

RepeatInfo ==
  /\ On("rate")
  /\ repeat' = [repeat EXCEPT !.rate = Head(wire).arg,
                              !.timer = @ \/ Head(wire).arg > 0]
  /\ Fine
  /\ UNCHANGED <<winVars, bound, focus, keys, mouseVars, points, cb, comp>>

-----------------------------------------------------------------------------
(* Pointer and cursor *)

\* set_cursor: a native cursor comes before the buffer; the timer that an
\* earlier animation armed is left alone.
ShowCursor(w) ==
  IF "pointer" \notin bound
    THEN Fault("no pointer") /\ UNCHANGED cursor
    ELSE /\ Fine
         /\ cursor' = [cursor EXCEPT
              !.active = native'[w],
              !.redraw = FALSE,
              !.frame = native'[w] # "none",
              !.armed = @ \/ native'[w] = "animated",
              !.shown = IF native'[w] # "none" THEN native'[w]
                        ELSE IF image'[w] THEN "image" ELSE "none",
              !.entered = TRUE]

PointerEnter ==
  /\ On("point")
  /\ over' = Head(wire).win
  /\ UNCHANGED winVars
  /\ ShowCursor(Head(wire).win)
  /\ cb' = Call("cross", Head(wire).win, "end", 0)
  /\ UNCHANGED <<bound, keyVars, button, points, comp>>

PointerLeave ==
  /\ On("unpoint")
  /\ over' = NoWindow
  /\ cb' = Call("cross", Head(wire).win, "unset", 0)
  /\ Fine
  /\ UNCHANGED <<winVars, bound, keyVars, button, cursor, points, comp>>

\* pointer_leave, after the callback.
AfterUnpoint ==
  /\ cursor' = [cursor EXCEPT !.active = "none", !.redraw = FALSE, !.armed = FALSE,
                              !.frame = FALSE, !.entered = FALSE]
  /\ button' = FALSE
  /\ Fine
  /\ UNCHANGED <<keys, repeat, points>>

\* pointer_motion and pointer_axis.
PointerMotion ==
  /\ On("motion")
  /\ cb' = IF over = NoWindow THEN NoCb ELSE Call("move", over, "end", 0)
  /\ Fine
  /\ UNCHANGED <<winVars, bound, keyVars, mouseVars, points, comp>>

\* pointer_relative_motion: only for a window that has the pointer locked.
RelativeMotion ==
  /\ On("relative")
  /\ cb' = IF over # NoWindow /\ lock[over] = "locked"
             THEN Call("move", over, "end", 0) ELSE NoCb
  /\ Fine
  /\ UNCHANGED <<winVars, bound, keyVars, mouseVars, points, comp>>

PointerButton ==
  /\ On("button")
  /\ IF over = NoWindow
       THEN UNCHANGED <<button, cb>>
       ELSE button' = Head(wire).arg /\ cb' = Call("button", over, "end", 0)
  /\ Fine
  /\ UNCHANGED <<winVars, bound, keyVars, over, cursor, points, comp>>

\* cursor_render: the next frame, and the timer for the one after it.
Render ==
  IF cursor.active = "none"
    THEN Fault("no cursor") /\ cursor' = [cursor EXCEPT !.armed = FALSE]
    ELSE /\ Fine
         /\ cursor' = [cursor EXCEPT !.frame = TRUE, !.redraw = FALSE,
                                     !.armed = cursor.active = "animated"]

\* Mutant: a frame that cannot be drawn yet is dropped.
CursorTimeMutant ==
  /\ Idle
  /\ cursor.armed
  /\ IF cursor.frame THEN cursor' = [cursor EXCEPT !.armed = FALSE] /\ Fine ELSE Render
  /\ UNCHANGED <<winVars, bound, keyVars, over, button, points, cb, wire, comp>>

\* cursor_time_cb: the compositor has not yet asked for another frame.
CursorTime ==
  /\ Idle
  /\ cursor.armed
  /\ IF cursor.frame
       THEN cursor' = [cursor EXCEPT !.armed = FALSE, !.redraw = TRUE] /\ Fine
       ELSE Render
  /\ UNCHANGED <<winVars, bound, keyVars, over, button, points, cb, wire, comp>>

\* cursor_frame: it has.
CursorFrame ==
  /\ Idle
  /\ cursor.frame
  /\ IF cursor.redraw
       THEN Render
       ELSE cursor' = [cursor EXCEPT !.frame = FALSE] /\ Fine
  /\ UNCHANGED <<winVars, bound, keyVars, over, button, points, cb, wire, comp>>

\* win_set_cursor: the image's buffer may fail, and an image leaves native.
SetCursor(w, c) ==
  /\ fault = "none"
  /\ cb.fn \in CursorIn
  /\ w \in alive
  /\ asked' = [asked EXCEPT ![w] = c]
  /\ native' = [native EXCEPT ![w] = IF c = "image" THEN @
                                     ELSE c]
  /\ image' = [image EXCEPT ![w] = c = "image"]
  /\ UNCHANGED <<alive, lock>>
  /\ IF over = w THEN ShowCursor(w) ELSE UNCHANGED <<cursor, fault>>
  /\ UNCHANGED <<bound, keyVars, over, button, points, cb, wire, comp>>

-----------------------------------------------------------------------------
(* Pointer locks *)

LockPointer(w) ==
  /\ Idle
  /\ w \in alive
  /\ "pointer" \in bound
  /\ lock' = [lock EXCEPT ![w] = IF @ = "none" THEN "asked" ELSE "none"]
  /\ UNCHANGED <<alive, native, image, asked, bound, keyVars, mouseVars, points,
                 cb, fault, wire, comp>>

\* locked_pointer_locked and locked_pointer_unlocked, whose data is the window.
\* An event for a lock the window gave up is dropped with its proxy.
PointerLocked ==
  /\ On("lock")
  /\ LET w == Head(wire).win
     IN /\ lock' = [lock EXCEPT ![w] = IF @ = "none" THEN @
                                       ELSE IF Head(wire).arg THEN "locked" ELSE "asked"]
        /\ IF w \in alive \/ lock[w] = "none" THEN Fine ELSE Fault("freed window")
  /\ UNCHANGED <<alive, native, image, asked, bound, keyVars, mouseVars, points,
                 cb, comp>>

-----------------------------------------------------------------------------
(* Touch *)

TouchDown ==
  /\ On("down")
  /\ points' = Append(points, [id |-> Head(wire).arg, win |-> Head(wire).win])
  /\ cb' = Call("down", Head(wire).win, "end", 0)
  /\ Fine
  /\ UNCHANGED <<winVars, bound, keyVars, mouseVars, comp>>

PointOf(f) == {i \in DOMAIN points : points[i].id = f}

TouchMotion ==
  /\ On("update")
  /\ cb' = IF PointOf(Head(wire).arg) = {} THEN NoCb
           ELSE Call("update", points[Min(PointOf(Head(wire).arg))].win, "end", 0)
  /\ Fine
  /\ UNCHANGED <<winVars, bound, keyVars, mouseVars, points, comp>>

TouchUp ==
  /\ On("up")
  /\ cb' = IF PointOf(Head(wire).arg) = {} THEN NoCb
           ELSE LET i == Min(PointOf(Head(wire).arg))
                IN Call("up", points[i].win, "erase", i)
  /\ Fine
  /\ UNCHANGED <<winVars, bound, keyVars, mouseVars, points, comp>>

\* Mutant: the last point is erased.
AfterUpMutant(i) ==
  /\ IF i > Len(points)
       THEN Fault("touch index") /\ UNCHANGED points
       ELSE Fine /\ points' = RemoveAt(points, Len(points))
  /\ UNCHANGED <<keys, repeat, cursor, button>>

\* The point is erased by the index it had before the callback.
AfterUp(i) ==
  /\ IF i > Len(points)
       THEN Fault("touch index") /\ UNCHANGED points
       ELSE Fine /\ points' = RemoveAt(points, i)
  /\ UNCHANGED <<keys, repeat, cursor, button>>

\* The loop of touch_cancel from index i: every window is told once.
CancelFrom(i) ==
  LET due == {j \in i..Len(points) :
                \A k \in 1..(j - 1) : points[k].win # points[j].win}
  IN IF due = {}
       THEN points' = <<>> /\ cb' = NoCb
       ELSE /\ cb' = Call("cancel", points[Min(due)].win, "next", Min(due) + 1)
            /\ UNCHANGED points

TouchCancel ==
  /\ On("cancel")
  /\ CancelFrom(1)
  /\ Fine
  /\ UNCHANGED <<winVars, bound, keyVars, mouseVars, comp>>

-----------------------------------------------------------------------------
(* The application *)

\* The callback returns and its handler goes on.
Return ==
  /\ cb # NoCb
  /\ fault = "none"
  /\ cb.then # "next" => cb' = NoCb
  /\ CASE cb.then = "end" -> UNCHANGED <<keys, repeat, cursor, button, points, fault>>
       [] cb.then = "leave" -> AfterLeave
       [] cb.then = "pressed" -> AfterKey(TRUE, cb.arg)
       [] cb.then = "released" -> AfterKey(FALSE, cb.arg)
       [] cb.then = "rearm" -> AfterRepeat
       [] cb.then = "unset" -> AfterUnpoint
       [] cb.then = "erase" -> AfterUp(cb.arg)
       [] cb.then = "next" -> /\ CancelFrom(cb.arg)
                              /\ UNCHANGED <<keys, repeat, cursor, button, fault>>
  /\ UNCHANGED <<winVars, bound, focus, over, wire, comp>>

\* What a freed window held is not read again: one value stands for all.
Cleared(w) ==
  /\ native' = [native EXCEPT ![w] = "none"]
  /\ image' = [image EXCEPT ![w] = FALSE]
  /\ asked' = [asked EXCEPT ![w] = "none"]

\* The points left without those of w: each moves to the place that counts the
\* points kept up to it.
Without(w) ==
  LET kept == {i \in DOMAIN points : points[i].win # w}
      out(i) == Cardinality({k \in kept : k <= i})
  IN [j \in 1..Cardinality(kept) |-> points[CHOOSE i \in kept : out(i) = j]]

\* Mutant: the window under the pointer is not forgotten.
DestroyMutant(w) ==
  /\ fault = "none"
  /\ cb.fn \in DestroyIn
  /\ w \in alive
  /\ Careful => /\ lock[w] = "none"
                /\ focus = w => keys = {}
  /\ alive' = alive \ {w}
  /\ focus' = IF focus = w THEN NoWindow ELSE focus
  /\ points' = Without(w)
  /\ Cleared(w)
  /\ UNCHANGED <<lock, bound, keys, repeat, over, button, cursor,
                 cb, fault, wire, comp>>

\* win_destroy unlinks the window; the timers and the lock stay.
Destroy(w) ==
  /\ fault = "none"
  /\ cb.fn \in DestroyIn
  /\ w \in alive
  /\ Careful => /\ lock[w] = "none"
                /\ focus = w => keys = {}
  /\ alive' = alive \ {w}
  /\ focus' = IF focus = w THEN NoWindow ELSE focus
  /\ over' = IF over = w THEN NoWindow ELSE over
  /\ points' = Without(w)
  /\ Cleared(w)
  /\ UNCHANGED <<lock, bound, keys, repeat, button, cursor,
                 cb, fault, wire, comp>>

\* An event that names a destroyed surface reaches its handler with NULL,
\* which wl_surface_get_user_data dereferences.
DeadSurface ==
  /\ Idle
  /\ wire # <<>>
  /\ Head(wire).on \in Surfaced
  /\ Head(wire).win \notin alive
  /\ Fault("null surface")
  /\ UNCHANGED <<winVars, bound, keyVars, mouseVars, points, cb, wire, comp>>

-----------------------------------------------------------------------------
(* The compositor *)

Has(d) == d \in comp.caps \cap bound /\ \A i \in DOMAIN wire : wire[i].on # "caps"

Send(ev) ==
  /\ fault = "none"
  /\ Len(wire) < MaxWire
  /\ wire' = Append(wire, ev)
  /\ UNCHANGED <<winVars, bound, keyVars, mouseVars, points, cb, fault>>

Unused(d) ==
  CASE d = "keyboard" -> comp.focus = NoWindow
    [] d = "pointer" -> comp.over = NoWindow
    [] d = "touch" -> \A f \in Finger : comp.touch[f] = NoWindow

SendCaps ==
  \E caps \in {{}, comp.seat} :
    /\ caps # comp.caps
    /\ LeaveFirst => \A d \in comp.caps \ caps : Unused(d)
    /\ comp' = [comp EXCEPT !.caps = caps, !.focus = NoWindow, !.over = NoWindow,
                            !.touch = [f \in Finger |-> NoWindow]]
    /\ Send(Ev("caps", NoWindow, caps))

SendKeyboard ==
  /\ Has("keyboard")
  /\ \/ \E w \in comp.known :
          /\ comp.focus = NoWindow
          /\ comp' = [comp EXCEPT !.focus = w]
          /\ Send(Ev("enter", w, 0))
     \/ /\ comp.focus # NoWindow
        /\ comp' = [comp EXCEPT !.focus = NoWindow]
        /\ Send(Ev("leave", comp.focus, 0))
     \/ \E k \in Key :
          LET pressed == k \notin comp.keys
          IN /\ comp.focus # NoWindow
             /\ comp' = [comp EXCEPT !.keys = IF pressed THEN @ \cup {k} ELSE @ \ {k}]
             /\ Send(Ev("key", NoWindow, <<k, pressed>>))
     \/ \E r \in Rates \ {repeat.rate} :
          /\ UNCHANGED comp
          /\ Send(Ev("rate", NoWindow, r))

\* A key is released while no window of the application has the focus.
ReleaseElsewhere(k) ==
  /\ fault = "none"
  /\ comp.focus = NoWindow
  /\ k \in comp.keys
  /\ comp' = [comp EXCEPT !.keys = @ \ {k}]
  /\ UNCHANGED <<winVars, bound, keyVars, mouseVars, points, cb, fault, wire>>

SendPointer ==
  /\ Has("pointer")
  /\ \/ \E w \in comp.known :
          /\ comp.over = NoWindow
          /\ comp' = [comp EXCEPT !.over = w]
          /\ Send(Ev("point", w, 0))
     \/ /\ comp.over # NoWindow
        /\ comp' = [comp EXCEPT !.over = NoWindow]
        /\ Send(Ev("unpoint", comp.over, 0))
     \/ /\ comp.over # NoWindow
        /\ \/ Send(Ev("motion", NoWindow, 0)) \/ Send(Ev("relative", NoWindow, 0))
        /\ UNCHANGED comp
     \/ /\ comp.over # NoWindow
        /\ comp' = [comp EXCEPT !.button = ~@]
        /\ Send(Ev("button", NoWindow, ~comp.button))
     \/ \E w \in Window :
          /\ lock[w] = "locked" \/ (lock[w] = "asked" /\ comp.over = w)
          /\ UNCHANGED comp
          /\ Send(Ev("lock", w, lock[w] = "asked"))

SendTouch ==
  /\ Has("touch")
  /\ \/ \E f \in Finger, w \in comp.known :
          /\ comp.touch[f] = NoWindow
          /\ comp' = [comp EXCEPT !.touch[f] = w]
          /\ Send(Ev("down", w, f))
     \/ \E f \in Finger :
          /\ comp.touch[f] # NoWindow
          /\ \/ comp' = comp /\ Send(Ev("update", NoWindow, f))
             \/ /\ comp' = [comp EXCEPT !.touch[f] = NoWindow]
                /\ Send(Ev("up", NoWindow, f))
     \/ /\ ~Unused("touch")
        /\ comp' = [comp EXCEPT !.touch = [f \in Finger |-> NoWindow]]
        /\ Send(Ev("cancel", NoWindow, 0))

\* The compositor learns that the surface is gone.
Forget(w) ==
  /\ fault = "none"
  /\ w \in comp.known \ alive
  /\ comp' = [comp EXCEPT
       !.known = @ \ {w},
       !.focus = IF @ = w THEN NoWindow ELSE @,
       !.over = IF @ = w THEN NoWindow ELSE @,
       !.touch = [f \in Finger |-> IF comp.touch[f] = w THEN NoWindow ELSE comp.touch[f]]]
  /\ UNCHANGED <<winVars, bound, keyVars, mouseVars, points, cb, fault, wire>>

-----------------------------------------------------------------------------
Next ==
  \/ SeatCaps
  \/ KeyboardEnter \/ KeyboardLeave \/ KeyboardKey \/ KeyRepeat \/ RepeatInfo
  \/ PointerEnter \/ PointerLeave \/ PointerMotion \/ RelativeMotion
  \/ PointerButton \/ CursorTime \/ CursorFrame \/ PointerLocked
  \/ TouchDown \/ TouchMotion \/ TouchUp \/ TouchCancel
  \/ Return \/ DeadSurface
  \/ \E w \in Window : Destroy(w) \/ LockPointer(w) \/ Forget(w)
  \/ \E w \in Window, c \in Cursors : SetCursor(w, c)
  \/ SendCaps \/ SendKeyboard \/ SendPointer \/ SendTouch
  \/ \E k \in Key : ReleaseElsewhere(k)

Spec == Init /\ [][Next]_vars

-----------------------------------------------------------------------------
(* Properties *)

\* The display never points to a destroyed window, and what the handlers
\* assert on entry holds for the event they are about to receive: enter finds
\* no focus, leave finds the focus on its window, for keyboard and pointer.
FocusAlive ==
  /\ focus \in alive \cup {NoWindow} /\ over \in alive \cup {NoWindow}
  /\ \A i \in DOMAIN points : points[i].win \in alive
  /\ over # NoWindow => cursor.entered
  /\ Idle /\ wire # <<>> =>
       LET ev == Head(wire)
       IN /\ ev.on = "enter" => focus = NoWindow
          /\ ev.on = "leave" /\ ev.win \in alive => focus = ev.win
          /\ ev.on = "point" => over = NoWindow
          /\ ev.on = "unpoint" /\ ev.win \in alive => over = ev.win

\* Over a window the pointer shows the cursor asked for last, or, where that is
\* an image, the native cursor that set_cursor prefers to it.  An animation
\* goes on: its timer is armed, or a redraw waits for the frame callback that
\* will come.  Once the pointer has left, neither is left behind.  That no
\* timer outlives a change of cursor is not said here: CursorAsserted.
CursorKept ==
  /\ over # NoWindow =>
       \/ cursor.shown = asked[over]
       \/ asked[over] = "image" /\ cursor.shown = native[over]
  /\ over # NoWindow /\ cursor.active = "animated" =>
       cursor.armed \/ (cursor.redraw /\ cursor.frame)
  /\ ~cursor.entered => ~cursor.armed /\ ~cursor.frame /\ ~cursor.redraw

\* What cursor_render asserts (wayland.c:329) holds for the timer that is about
\* to fire: there is a native cursor to draw.  It does not: set_cursor leaves
\* the timer of an animation armed when the next cursor is none or an image.
CursorAsserted ==
  Idle /\ cursor.armed /\ ~cursor.frame => cursor.active # "none"

\* Over a window whose cursor is an image, the image is shown.  It is not if a
\* native cursor was set before it, which win_set_cursor keeps.
ImageShown ==
  over # NoWindow /\ asked[over] = "image" => cursor.shown = "image"

\* The repeat timer runs for the focused window only and for a key that is
\* held down, unless its release, or the loss of the focus, is on its way.
RepeatMatches ==
  Idle /\ repeat.armed =>
    /\ focus # NoWindow
    /\ repeat.key \in keys
    /\ \/ repeat.key \in comp.keys
       \/ focus \notin comp.known
       \/ \E i \in DOMAIN wire :
            \/ wire[i].on = "leave"
            \/ wire[i].on = "key" /\ wire[i].arg = <<repeat.key, FALSE>>

\* With no touch event on its way, the touch points are exactly the fingers
\* the compositor sees on the windows that still exist.
TouchAgrees ==
  Idle /\ (\A i \in DOMAIN wire : wire[i].on \notin {"down", "up", "cancel"}) =>
    /\ ToSet(points) = {[id |-> f, win |-> comp.touch[f]] :
                          f \in {g \in Finger : comp.touch[g] \in alive}}
    /\ Len(points) = Cardinality(ToSet(points))
=============================================================================

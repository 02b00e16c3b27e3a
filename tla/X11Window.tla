------------------------------ MODULE X11Window ------------------------------
(***************************************************************************)
(* The windows of the X11 backend (src/swa/x11.c): the list events are     *)
(* looked up in, expose, configure and present events, key repeat by       *)
(* looking one event ahead, focus, and buffer surfaces.                    *)
(*                                                                         *)
(* The server's events wait in queue.  display_dispatch takes them one by  *)
(* one until none is left, so between two of its calls, and only there,    *)
(* the application runs outside a callback.  cb is the listener callback   *)
(* being run, cb.then what its handler does next.                          *)
(*                                                                         *)
(* A size stands for (width, height) and for the bytes of such an image;   *)
(* 0 is SWA_DEFAULT_SIZE.  fault names the first fault of memory.          *)
(***************************************************************************)
EXTENDS Images

CONSTANTS
  Window,       \* the windows the application may create, each once
  None,         \* the null pointer
  Sizes,        \* the sizes the server may give a window
  Asked,        \* the sizes the application asks for
  Fallback,     \* SWA_FALLBACK_WIDTH x SWA_FALLBACK_HEIGHT
  Key,          \* keys
  Shm,          \* the shared memory extension is there
  HoldBuffer,   \* the application keeps a buffer after the draw callback
  DestroyIn,    \* the callbacks in which it destroys windows
  Looks,        \* a function from names to records: the depths of a screen, the
                \* transparency and the format the application asks for
  Sessions,     \* records: the other events that happen, and the look
  MaxQueue      \* bound on the events in the queue

Contexts == {"idle", "draw", "resize", "close", "focus", "cross", "key", "input"}

InputEvents == {"configure", "focus", "point", "key", "input", "delete", "foreign"}

ASSUME WindowAssumption == None \notin Window \cup Key
ASSUME SizeAssumption == Sizes \subseteq Nat \ {0} /\ Fallback \in Sizes /\ Asked \subseteq Sizes \cup {0}
ASSUME ContextAssumption ==
  DestroyIn \subseteq Contexts /\ \A s \in Sessions : s.inputs \subseteq InputEvents /\ s.look \in DOMAIN Looks
ASSUME SwitchAssumption == {Shm, HoldBuffer} \subseteq BOOLEAN

\* A screen has a visual, and the masks of a pixel of 24 bits lie in its 24 bits.
ASSUME LookAssumption ==
  \A l \in DOMAIN Looks :
    /\ Looks[l].transparent \in BOOLEAN
    /\ Looks[l].preferred \in Formats \cup {"none"}
    /\ Looks[l].depths \in Seq(DepthType)
    /\ Candidates(Looks[l].depths) # <<>>

\* Masks are those of visuals with colours: a palette is not the only visual of
\* a format, nor of the format asked for.
ASSUME ColourAssumption ==
  \A l \in DOMAIN Looks : \A F \in {Formats, Formats \cap {Looks[l].preferred}} :
    LET all == Candidates(Looks[l].depths)
        formed == {i \in DOMAIN all : all[i].format \in F}
    IN formed # {} => \E i \in formed : Direct(all[i])

VARIABLES
  status,       \* per window: "unborn", "live" or "freed"
  head, next, prev,  \* window_list and its links
  size,         \* per window: width and height
  initSize,     \* per window: init_size_pending
  pending,      \* per window: present.pending
  redraw,       \* per window: present.redraw
  buffer,       \* per window: n_bytes, the bytes allocated, and the active image
  format,       \* per window: buffer.format
  visual,       \* per window: the index of visualtype on the screen
  look,         \* the screen and the settings
  focus, over,  \* keyboard.focus and mouse.over
  keys,         \* keyboard.key_states
  repeated,     \* keyboard.repeated: None, or the key whose release was taken back
  dispatching,  \* the thread is in display_dispatch
  cb, fault,
  queue,        \* the connection
  server,       \* the server's focus, pointer, keys down, the key whose
                \* repetition is half sent, and the notifications due
  known,        \* per window: the size the application was told last
  wanted        \* per window: a draw event is owed

listVars == <<status, head, next, prev>>
lookVars == <<format, visual, look>>
winVars == <<size, initSize, pending, redraw, buffer, lookVars>>
keyVars == <<keys, repeated>>
appVars == <<known, wanted>>
vars == <<listVars, winVars, focus, over, keyVars, dispatching, cb, fault, queue,
          server, appVars>>

-----------------------------------------------------------------------------
Call(fn, w, then) == [fn |-> fn, win |-> w, then |-> then]
NoCb == Call("idle", None, "end")

Ev(on, w, arg) == [on |-> on, win |-> w, arg |-> arg]

NoBuffer == [bytes |-> 0, room |-> 0, active |-> FALSE]

Live(w) == w # None /\ status[w] = "live"

\* A set that holds the head of the list and what follows each of its windows.
Linked(S) == head \in S \cup {None} /\ \A w \in S : next[w] \in S \cup {None}

\* What find_window reaches from the head; a freed window on it is a fault.
Listed == {w \in Window : \A S \in SUBSET Window : Linked(S) => w \in S}

\* display_dispatch handles the event at the head of the queue.
On(name) ==
  /\ dispatching
  /\ cb = NoCb
  /\ fault = "none"
  /\ queue # <<>>
  /\ Head(queue).on = name
  /\ queue' = Tail(queue)

Found == Head(queue).win \in Listed

\* Mutant: nothing remembers that a draw event was postponed.
DrawOrPostponeMutant(w) ==
  /\ redraw' = [redraw EXCEPT ![w] = FALSE]
  /\ IF pending[w]
       THEN cb' = NoCb /\ UNCHANGED wanted
       ELSE cb' = Call("draw", w, "end") /\ wanted' = [wanted EXCEPT ![w] = FALSE]

\* The draw callback, unless a frame is on its way to the screen.
DrawOrPostpone(w) ==
  IF pending[w]
    THEN /\ redraw' = [redraw EXCEPT ![w] = TRUE]
         /\ cb' = NoCb
         /\ UNCHANGED wanted
    ELSE /\ redraw' = [redraw EXCEPT ![w] = FALSE]
         /\ cb' = Call("draw", w, "end")
         /\ wanted' = [wanted EXCEPT ![w] = FALSE]

Init ==
  /\ status = [w \in Window |-> "unborn"]
  /\ head = None
  /\ next = [w \in Window |-> None]
  /\ prev = [w \in Window |-> None]
  /\ size = [w \in Window |-> 0]
  /\ initSize = [w \in Window |-> FALSE]
  /\ pending = [w \in Window |-> FALSE]
  /\ redraw = [w \in Window |-> FALSE]
  /\ buffer = [w \in Window |-> NoBuffer]
  /\ focus = None
  /\ over = None
  /\ keys = {}
  /\ repeated = None
  /\ dispatching = FALSE
  /\ cb = NoCb
  /\ fault = "none"
  /\ queue = <<>>
  /\ format = [w \in Window |-> "none"]
  /\ visual = [w \in Window |-> 0]
  /\ \E s \in Sessions :
       /\ server =
            [inputs |-> s.inputs, focus |-> None, over |-> None, keys |-> {}, half |-> None,
             notify |-> {}]
       /\ look = s.look
  /\ known = [w \in Window |-> 0]
  /\ wanted = [w \in Window |-> FALSE]

-----------------------------------------------------------------------------
(* Creating and destroying windows *)

\* The visual find_visual chooses for a window.
Visuals(l) == Candidates(Looks[l].depths)

Chosen ==
  {LET i == FindVisual(Looks[l], Looks[l].depths)
   IN [look |-> l, visual |-> i, format |-> Visuals(l)[i].format] : l \in DOMAIN Looks}

Choice == CHOOSE c \in Chosen : c.look = look

\* The new window becomes the head of the list.
Link(w) ==
  /\ next' = [next EXCEPT ![w] = head]
  /\ prev' = IF head = None THEN prev ELSE [prev EXCEPT ![head] = w]
  /\ head' = w

\* display_create_window with a buffer surface: the window is linked and mapped,
\* and the server will have it exposed; without a size it gets one of its own,
\* which it is told of only then.
CreateWindow(w, s) ==
  /\ cb = NoCb /\ ~dispatching /\ fault = "none"
  /\ status[w] = "unborn"
  /\ Choice.format # "none"
  /\ Link(w)
  /\ format' = [format EXCEPT ![w] = Choice.format]
  /\ visual' = [visual EXCEPT ![w] = Choice.visual]
  /\ status' = [status EXCEPT ![w] = "live"]
  /\ initSize' = [initSize EXCEPT ![w] = s = 0]
  /\ size' = [size EXCEPT ![w] = IF s = 0 THEN Fallback ELSE s]
  /\ known' = [known EXCEPT ![w] = s]
  /\ UNCHANGED <<pending, redraw, buffer, look, focus, over, keyVars, dispatching, cb,
                 fault, queue, server, wanted>>

\* An error (a request the server refuses, no visual of known format) finds the
\* window linked, and destroys it again: the list has lost its head.
CreateFails(w) ==
  /\ cb = NoCb /\ ~dispatching /\ fault = "none"
  /\ status[w] = "unborn"
  /\ status' = [status EXCEPT ![w] = "freed"]
  /\ head' = None
  /\ UNCHANGED <<next, prev, winVars, focus, over, keyVars, dispatching, cb, fault, queue,
                 server, appVars>>

\* Mutant: the previous window keeps its link.
DestroyMutant(w) ==
  /\ fault = "none"
  /\ cb.fn \in DestroyIn
  /\ cb = NoCb => ~dispatching
  /\ Live(w)
  /\ status' = [status EXCEPT ![w] = "freed"]
  /\ prev' = IF next[w] = None THEN prev ELSE [prev EXCEPT ![next[w]] = prev[w]]
  /\ head' = IF head = w THEN None ELSE head
  /\ focus' = IF focus = w THEN None ELSE focus
  /\ over' = IF over = w THEN None ELSE over
  /\ server' = [server EXCEPT !.notify = @ \ {w}]
  /\ UNCHANGED <<next, winVars, keyVars, appVars, dispatching, cb, fault, queue>>

\* win_destroy; destroying the head forgets the rest of the list.  What the
\* freed struct held is reset here only to name it no more.
Destroy(w) ==
  /\ fault = "none"
  /\ cb.fn \in DestroyIn
  /\ cb = NoCb => ~dispatching
  /\ Live(w)
  /\ status' = [status EXCEPT ![w] = "freed"]
  /\ prev' = IF next[w] = None THEN prev ELSE [prev EXCEPT ![next[w]] = prev[w]]
  /\ next' = IF prev[w] = None THEN next ELSE [next EXCEPT ![prev[w]] = next[w]]
  /\ head' = IF head = w THEN None ELSE head
  /\ focus' = IF focus = w THEN None ELSE focus
  /\ over' = IF over = w THEN None ELSE over
  /\ pending' = [pending EXCEPT ![w] = FALSE]
  /\ redraw' = [redraw EXCEPT ![w] = FALSE]
  /\ initSize' = [initSize EXCEPT ![w] = FALSE]
  /\ size' = [size EXCEPT ![w] = 0]
  /\ known' = [known EXCEPT ![w] = 0]
  /\ buffer' = [buffer EXCEPT ![w] = NoBuffer]
  /\ format' = [format EXCEPT ![w] = "none"]
  /\ visual' = [visual EXCEPT ![w] = 0]
  /\ wanted' = [wanted EXCEPT ![w] = FALSE]
  /\ server' = [server EXCEPT !.focus = IF @ = w THEN None ELSE @,
                              !.over = IF @ = w THEN None ELSE @,
                              !.notify = @ \ {w}]
  /\ UNCHANGED <<look, keyVars, dispatching, cb, fault, queue>>

-----------------------------------------------------------------------------
(* Drawing *)

\* win_refresh: the window sends itself an expose event.
Refresh(w) ==
  /\ fault = "none"
  /\ cb = NoCb => ~dispatching
  /\ Live(w)
  /\ wanted' = [wanted EXCEPT ![w] = TRUE]
  /\ IF pending[w]
       THEN redraw' = [redraw EXCEPT ![w] = TRUE] /\ UNCHANGED queue
       ELSE /\ Len(queue) < MaxQueue
            /\ queue' = Append(queue, Ev("expose", w, 0))
            /\ UNCHANGED redraw
  /\ UNCHANGED <<listVars, size, initSize, pending, buffer, lookVars, focus, over, keyVars,
                 dispatching, cb, fault, server, known>>

\* win_surface_frame asks the server to notify the next frame.
Frame(w) ==
  /\ pending' = [pending EXCEPT ![w] = TRUE]
  /\ server' = IF pending[w] THEN server
               ELSE [server EXCEPT !.notify = @ \cup {w}]

\* Mutant: the first memory is kept.
GetBufferMutant(w) ==
  /\ fault = "none"
  /\ cb = Call("draw", w, "end")
  /\ Live(w)
  /\ ~buffer[w].active
  /\ buffer' = [buffer EXCEPT ![w] =
       IF @.bytes = 0
         THEN [bytes |-> 4 * size[w], active |-> TRUE,
               room |-> IF Shm THEN 4 * size[w] ELSE size[w]]
         ELSE [@ EXCEPT !.active = TRUE]]
  /\ UNCHANGED <<listVars, size, initSize, pending, redraw, lookVars, focus, over, keyVars,
                 dispatching, cb, fault, queue, server, appVars>>

\* win_get_buffer keeps the memory while n_bytes suffices; it asks for four
\* times the image, which only shared memory gets.
GetBuffer(w) ==
  /\ fault = "none"
  /\ cb = Call("draw", w, "end")
  /\ Live(w)
  /\ ~buffer[w].active
  /\ buffer' = [buffer EXCEPT ![w] =
       IF size[w] > @.bytes
         THEN [bytes |-> 4 * size[w], active |-> TRUE,
               room |-> IF Shm THEN 4 * size[w] ELSE size[w]]
         ELSE [@ EXCEPT !.active = TRUE]]
  /\ UNCHANGED <<listVars, size, initSize, pending, redraw, lookVars, focus, over, keyVars,
                 dispatching, cb, fault, queue, server, appVars>>

\* win_apply_buffer, and win_gl_swap_buffers for other surfaces.
ApplyBuffer(w) ==
  /\ fault = "none"
  /\ cb = Call("draw", w, "end")
  /\ Live(w)
  /\ buffer[w].active
  /\ buffer' = [buffer EXCEPT ![w].active = FALSE]
  /\ Frame(w)
  /\ UNCHANGED <<listVars, size, initSize, redraw, lookVars, focus, over, keyVars,
                 dispatching, cb, fault, queue, appVars>>

\* XCB_EXPOSE: the first one ends the wait for the window's size.
Expose ==
  /\ On("expose")
  /\ LET w == Head(queue).win
     IN CASE ~Found -> UNCHANGED <<initSize, redraw, cb, appVars>>
          [] Found /\ initSize[w] ->
               /\ initSize' = [initSize EXCEPT ![w] = FALSE]
               /\ known' = [known EXCEPT ![w] = size[w]]
               /\ cb' = Call("resize", w, "expose")
               /\ UNCHANGED <<redraw, wanted>>
          [] Found /\ ~initSize[w] ->
               /\ DrawOrPostpone(w)
               /\ UNCHANGED <<initSize, known>>
  /\ UNCHANGED <<listVars, size, pending, buffer, lookVars, focus, over, keyVars,
                 dispatching, fault, server>>

\* XCB_PRESENT_COMPLETE_NOTIFY; arg says that context, serial and msc are
\* those of this window's own request.
PresentComplete ==
  /\ On("complete")
  /\ LET w == Head(queue).win
     IN IF ~Found \/ ~Head(queue).arg
          THEN UNCHANGED <<pending, redraw, cb, wanted>>
          ELSE /\ pending' = [pending EXCEPT ![w] = FALSE]
               /\ redraw' = [redraw EXCEPT ![w] = FALSE]
               /\ IF redraw[w]
                    THEN /\ cb' = Call("draw", w, "end")
                         /\ wanted' = [wanted EXCEPT ![w] = FALSE]
                    ELSE UNCHANGED <<cb, wanted>>
  /\ UNCHANGED <<listVars, size, initSize, buffer, lookVars, focus, over, keyVars,
                 dispatching, fault, server, known>>

\* XCB_CONFIGURE_NOTIFY.
Configure ==
  /\ On("configure")
  /\ LET w == Head(queue).win
         s == Head(queue).arg
     IN IF Found /\ (initSize[w] \/ size[w] # s)
          THEN /\ initSize' = [initSize EXCEPT ![w] = FALSE]
               /\ size' = [size EXCEPT ![w] = s]
               /\ known' = [known EXCEPT ![w] = s]
               /\ cb' = Call("resize", w, "end")
          ELSE UNCHANGED <<initSize, size, known, cb>>
  /\ UNCHANGED <<listVars, pending, redraw, buffer, lookVars, focus, over, keyVars,
                 dispatching, fault, server, wanted>>

-----------------------------------------------------------------------------
(* Input *)

\* XCB_CLIENT_MESSAGE: WM_DELETE_WINDOW does not ask whether the window was
\* found; any other message (display_wakeup sends one) only ends the wait.
ClientMessage ==
  /\ On("delete")
  /\ IF Head(queue).arg = "wakeup" THEN UNCHANGED <<cb, fault>>
     ELSE IF Found THEN cb' = Call("close", Head(queue).win, "end") /\ UNCHANGED fault
     ELSE fault' = "no window" /\ UNCHANGED cb
  /\ UNCHANGED <<listVars, winVars, focus, over, keyVars, dispatching, server, appVars>>

\* XCB_FOCUS_IN and XCB_FOCUS_OUT; the key states stay.
FocusChange ==
  /\ On("focus")
  /\ LET w == Head(queue).win
         in == Head(queue).arg
     IN IF Found
          THEN focus' = (IF in THEN w ELSE None) /\ cb' = Call("focus", w, "end")
          ELSE UNCHANGED <<focus, cb>>
  /\ UNCHANGED <<listVars, winVars, over, keyVars, dispatching, fault, server, appVars>>

\* XCB_ENTER_NOTIFY and XCB_LEAVE_NOTIFY.
Crossing ==
  /\ On("point")
  /\ LET w == Head(queue).win
         in == Head(queue).arg
     IN IF Found
          THEN over' = (IF in THEN w ELSE None) /\ cb' = Call("cross", w, "end")
          ELSE UNCHANGED <<over, cb>>
  /\ UNCHANGED <<listVars, winVars, focus, keyVars, dispatching, fault, server, appVars>>

\* Motion, buttons, the wheel and touch only reach the listener.
Input ==
  /\ On("input")
  /\ cb' = IF Found THEN Call("input", Head(queue).win, "end") ELSE NoCb
  /\ UNCHANGED <<listVars, winVars, focus, over, keyVars, dispatching, fault, server,
                 appVars>>

KeyPress ==
  /\ On("press")
  /\ IF Found
       THEN /\ keys' = keys \cup {Head(queue).arg}
            /\ cb' = Call("key", Head(queue).win, "pressed")
            /\ UNCHANGED repeated
       ELSE repeated' = None /\ UNCHANGED <<keys, cb>>
  /\ UNCHANGED <<listVars, winVars, focus, over, dispatching, fault, server, appVars>>

\* Mutant: the press of any key takes a release back.
TakenBackMutant ==
  /\ Len(queue) > 1
  /\ queue[2].on = "press"
  /\ Head(queue).arg[2]

\* A release is the first half of a repetition if the next event, already
\* there, is a press of the same key at the same time, in whatever window.
TakenBack ==
  /\ Len(queue) > 1
  /\ queue[2].on = "press"
  /\ queue[2].arg = Head(queue).arg[1]
  /\ Head(queue).arg[2]

KeyRelease ==
  /\ On("release")
  /\ CASE ~Found -> UNCHANGED <<keyVars, cb>>
       [] Found /\ TakenBack -> repeated' = Head(queue).arg[1] /\ UNCHANGED <<keys, cb>>
       [] Found /\ ~TakenBack ->
            /\ keys' = keys \ {Head(queue).arg[1]}
            /\ cb' = Call("key", Head(queue).win, "end")
            /\ UNCHANGED repeated
  /\ UNCHANGED <<listVars, winVars, focus, over, dispatching, fault, server, appVars>>

-----------------------------------------------------------------------------
(* The event loop *)

\* The callback returns.  The expose handler goes on with the window.
Return ==
  /\ cb # NoCb
  /\ fault = "none"
  /\ cb.fn = "draw" /\ Live(cb.win) /\ ~HoldBuffer => ~buffer[cb.win].active
  /\ CASE cb.then = "end" ->
            cb' = NoCb /\ UNCHANGED <<redraw, repeated, fault, wanted>>
       [] cb.then = "pressed" ->
            cb' = NoCb /\ repeated' = None /\ UNCHANGED <<redraw, fault, wanted>>
       [] cb.then = "expose" /\ Live(cb.win) ->
            DrawOrPostpone(cb.win) /\ UNCHANGED <<repeated, fault>>
       [] cb.then = "expose" /\ ~Live(cb.win) ->
            fault' = "freed window" /\ UNCHANGED <<cb, redraw, repeated, wanted>>
  /\ UNCHANGED <<listVars, size, initSize, pending, buffer, lookVars, focus, over, keys,
                 dispatching, queue, server, known>>

\* display_dispatch ends when xcb_poll_for_event has nothing; a blocking call
\* begins when there is an event.
Dispatch ==
  /\ cb = NoCb
  /\ fault = "none"
  /\ IF dispatching THEN queue = <<>> ELSE queue # <<>>
  /\ dispatching' = ~dispatching
  /\ UNCHANGED <<listVars, winVars, focus, over, keyVars, cb, fault, queue, server,
                 appVars>>

-----------------------------------------------------------------------------
(* The server *)

Send(ev) ==
  /\ fault = "none"
  /\ Len(queue) < MaxQueue
  /\ queue' = Append(queue, ev)
  /\ UNCHANGED <<listVars, winVars, focus, over, keyVars, dispatching, cb, fault, known>>

ServerExpose(w) ==
  /\ Live(w)
  /\ Send(Ev("expose", w, 0))
  /\ wanted' = [wanted EXCEPT ![w] = TRUE]
  /\ UNCHANGED server

ServerConfigure(w, s) ==
  /\ Live(w) /\ "configure" \in server.inputs
  /\ Send(Ev("configure", w, s)) /\ UNCHANGED <<server, wanted>>

\* A frame reached the screen.
ServerComplete(w) ==
  /\ w \in server.notify
  /\ server' = [server EXCEPT !.notify = @ \ {w}]
  /\ Send(Ev("complete", w, TRUE))
  /\ UNCHANGED wanted

\* A completion that is not this window's, or a message.
ServerForeign(w) ==
  /\ UNCHANGED <<server, wanted>>
  /\ \/ Live(w) /\ "foreign" \in server.inputs /\ Send(Ev("complete", w, FALSE))
     \/ Live(w) /\ "delete" \in server.inputs /\ Send(Ev("delete", w, "delete"))
     \/ "delete" \in server.inputs /\ Send(Ev("delete", None, "wakeup"))
     \/ Live(w) /\ "input" \in server.inputs /\ Send(Ev("input", w, 0))

ServerFocus(w) ==
  /\ "focus" \in server.inputs
  /\ \/ Live(w) /\ server.focus = None
        /\ server' = [server EXCEPT !.focus = w] /\ Send(Ev("focus", w, TRUE))
     \/ server.focus = w
        /\ server' = [server EXCEPT !.focus = None] /\ Send(Ev("focus", w, FALSE))
  /\ UNCHANGED wanted

ServerPoint(w) ==
  /\ "point" \in server.inputs
  /\ \/ Live(w) /\ server.over = None
        /\ server' = [server EXCEPT !.over = w] /\ Send(Ev("point", w, TRUE))
     \/ server.over = w
        /\ server' = [server EXCEPT !.over = None] /\ Send(Ev("point", w, FALSE))
  /\ UNCHANGED wanted

\* A held key is repeated as a release and a press of the same time, which may
\* reach the client one by one.  arg[2] says that a release has the time of the
\* press behind it, which a key let go of may have as well.
ServerKey(w, k) ==
  /\ "key" \in server.inputs
  /\ Live(w)
  /\ server.half \in {None, k}
  /\ \/ /\ server.half = k
        /\ server' = [server EXCEPT !.half = None]
        /\ Send(Ev("press", w, k))
     \/ /\ server.half = None /\ k \notin server.keys
        /\ server' = [server EXCEPT !.keys = @ \cup {k}]
        /\ Send(Ev("press", w, k))
     \/ /\ server.half = None /\ k \in server.keys
        /\ server' = [server EXCEPT !.keys = @ \ {k}]
        /\ \E same \in BOOLEAN : Send(Ev("release", w, <<k, same>>))
     \/ /\ server.half = None /\ k \in server.keys
        /\ server' = [server EXCEPT !.half = k]
        /\ Send(Ev("release", w, <<k, TRUE>>))
  /\ UNCHANGED wanted

-----------------------------------------------------------------------------
Handle ==
  \/ Expose \/ PresentComplete \/ Configure \/ ClientMessage
  \/ FocusChange \/ Crossing \/ Input \/ KeyPress \/ KeyRelease

Next ==
  \/ Handle \/ Return \/ Dispatch
  \/ \E w \in Window :
       \/ \E s \in Asked : CreateWindow(w, s)
       \/ CreateFails(w)
       \/ Destroy(w) \/ Refresh(w) \/ GetBuffer(w) \/ ApplyBuffer(w)
       \/ ServerExpose(w) \/ ServerComplete(w) \/ ServerForeign(w)
       \/ ServerFocus(w) \/ ServerPoint(w)
       \/ \E s \in Sizes : ServerConfigure(w, s)
       \/ \E k \in Key : ServerKey(w, k)

Spec == Init /\ [][Next]_vars

-----------------------------------------------------------------------------
(* Properties *)

\* In whichever order windows are created, fail and are destroyed: find_window
\* reaches no freed one, and neither the focus nor the window under the pointer
\* is a freed one.  That it reaches every living one is not so.
ListSound ==
  LET living == {w \in Window : status[w] = "live"}
  IN Listed \subseteq living /\ {focus, over} \subseteq living \cup {None}

\* An expose event is in the queue, or the flag is up and the completion it
\* waits for is on its way; a handler's callback counts.
Kept(w) ==
  \/ \E i \in DOMAIN queue : queue[i].on = "expose" /\ queue[i].win = w
  \/ /\ redraw[w] /\ pending[w]
     /\ \/ w \in server.notify
        \/ Ev("complete", w, TRUE) \in {queue[i] : i \in DOMAIN queue}
  \/ cb = Call("resize", w, "expose")

\* A draw event that is owed to a window find_window finds is not forgotten,
\* in whatever order exposures, completions and requests come.
RequestKept == \A w \in Listed : wanted[w] => Kept(w)

\* As swa.h:609 has it for every window; but win_destroy of the head, and an
\* error in display_create_window, forget all other windows (x11.c:103).
EveryRequestKept == \A w \in Window : Live(w) /\ wanted[w] => Kept(w)

\* The application is told the size before it draws, and draws in a buffer
\* that holds an image of that size.
DrawFits ==
  \A w \in Window :
    /\ cb = Call("draw", w, "end") /\ Live(w) => known[w] = size[w]
    /\ buffer[w].active /\ cb.win = w => size[w] <= buffer[w].room

\* A picture of two by two pixels that the application has, and the image that
\* win_get_buffer gives it for a format, with four bytes of padding in a row.
Hue(n) == [r |-> 10 * n + 1, g |-> 10 * n + 2, b |-> 10 * n + 3, a |-> 10 * n + 4]

Image(f, stride) ==
  [width |-> 2, height |-> 2, format |-> f, stride |-> stride,
   data |-> [i \in 0..(2 * stride - 1) |-> 0]]

Picture ==
  LET img == Image("rgba32", 8)
  IN [img EXCEPT !.data = [i \in DOMAIN img.data |->
       Hue(i \div 4 + 1)[<<"r", "g", "b", "a">>[(i % 4) + 1]]]]

\* What the screen shows for the nth pixel: the mask k of a visual is the byte
\* 4 - k of the pixel in memory.
Seen(v, img, n) ==
  [c \in {"r", "g", "b"} |-> img.data[Pixels(img)[n] + 4 - v.visual.masks[c]]]

\* The screen shows the picture converted to a format f by a visual, and the
\* application reads it back.
Shows(c, f) ==
  LET img == ConvertImage(Picture, Image(f, 12))
  IN \A n \in 1..4 :
       LET p == PixelAt(img, n) IN
       /\ Seen(c, img, n) = [h \in {"r", "g", "b"} |-> Hue(n)[h]]
       /\ Seen(c, img, n) = [h \in {"r", "g", "b"} |-> p[h]]
       /\ c.depth = 32 => p.a = Hue(n).a

\* The visuals with colours, of a format swa has, that fit what is asked for best.
Fitting(l) ==
  LET fit == {i \in DOMAIN Visuals(l) : Direct(Visuals(l)[i]) /\ Visuals(l)[i].format # "none"}
      preferred == {i \in fit : Visuals(l)[i].format = Looks[l].preferred}
      deep == {i \in fit : Looks[l].transparent = (Visuals(l)[i].depth = 32)}
  IN IF preferred # {} THEN preferred ELSE IF deep # {} THEN deep ELSE fit

\* Each choice of a visual and its format, and whether it is right.
Judged ==
  {<<c, c.visual \in Fitting(c.look) /\ Shows(Visuals(c.look)[c.visual], c.format)>> :
     c \in Chosen}

\* The screen shows the picture the application converts to the format of its
\* buffer, in the picture's colours, by a visual that has the format asked for,
\* and else the transparency, when a visual with colours has it
\* (visual_to_format, rate_visual and find_visual against swa_convert_image).
PictureShown ==
  \A w \in Window : buffer[w].active =>
    <<[look |-> look, visual |-> visual[w], format |-> format[w]], TRUE>> \in Judged

\* The flag of a repeated key is up only when the press that repeats that very
\* key is the next event, or while it is handled: no press of another key, and
\* no later press, is ever reported as a repetition.
RepeatedPress ==
  repeated # None =>
    \/ cb.then = "pressed"
    \/ queue # <<>> /\ Head(queue).on = "press" /\ Head(queue).arg = repeated

\* An image is converted within the memory that its height and stride need
\* (swa_write_pixel against swa_image_format_size and swa_convert_image_new).
ConvertsWithin ==
  \A f \in Formats :
    LET dst == Image(f, 2 * FormatSize(f))
    IN DOMAIN ConvertImage(Picture, dst).data = DOMAIN dst.data

\* A draw event that is owed is emitted, or the window destroyed.
DrawServed ==
  \A w \in Window : wanted[w] ~> (~wanted[w] \/ fault # "none")
=============================================================================

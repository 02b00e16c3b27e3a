------------------------------ MODULE KmsFlip ------------------------------
(***************************************************************************)
(* The windows of the KMS backend (src/swa/kms/kms.c) with buffer and GL   *)
(* surfaces: the outputs they own, their buffers on the way to the screen, *)
(* page flips and their completion events, deferred events, and the        *)
(* virtual terminal that is taken away and given back by signals.          *)
(*                                                                         *)
(* One thread runs the handlers.  Between two handlers, and inside the     *)
(* listener callback recorded in cb, the application runs; cb.then names   *)
(* what the handler still does once the callback returns.  The kernel      *)
(* completes flips, and delivers signals, at any time.                     *)
(***************************************************************************)
EXTENDS Integers, Sequences, FiniteSets

CONSTANTS
  Window,          \* windows the application may create, each once
  NoWindow,        \* the null window pointer
  NOutputs,        \* dpy->drm.n_outputs
  Surfaces,        \* the surface types created: a subset of {"buffer", "gl"}
  CreateFails,     \* the buffers or the GL surface of a window may fail
  FlipFails,       \* an atomic commit may fail for reasons of the driver
  FreeDraw,        \* the application draws outside of draw callbacks, too
  DestroyDeferred, \* it destroys windows that have deferred events
  DestroyFlipping, \* it destroys windows with a flip on its way
  Switches,        \* the user switches to other virtual terminals and back
  Hasty,           \* and away again before the program saw it was back
  Remodes          \* another terminal's program may set another mode

Outputs == 1 .. NOutputs
Buffers == 1 .. 3 \* buffer.buffers, or the bos of a gbm_surface; 0 is null

ASSUME WindowAssumption == NoWindow \notin Window
ASSUME OutputAssumption == NOutputs \in Nat \ {0}
ASSUME SurfaceAssumption == Surfaces \subseteq {"buffer", "gl"}
ASSUME EnvironmentAssumption ==
  {CreateFails, FlipFails, FreeDraw, DestroyDeferred, DestroyFlipping, Switches, Hasty,
   Remodes} \subseteq BOOLEAN

VARIABLES
  \* struct swa_kms_output
  outWindow,    \* output->window
  needsModeset,
  heirs,        \* history: windows created on an output with a flip underway
  \* struct swa_window_kms
  status,       \* "unborn", "live" or "freed" (the struct's memory)
  surface,      \* surface_type
  output,
  redraw,
  defer,        \* the pml defer is enabled
  deferEvents,
  inUse,        \* the buffers with in_use set; for GL, the bos locked
  active,
  pending,
  last,         \* buffer.last, or gl.front
  \* the session and the control state of the thread
  session,      \* "none" before vt_setup, then session.active
  cb,           \* the listener callback being run and the rest of its handler
  \* the kernel
  flight,       \* the flip of an output that waits for the vertical blank
  shown,        \* what it scans out, as far as this program put it there
  flipEvents,   \* the completion events in drm.fd
  master,       \* the program is DRM master
  moded,        \* the output is in the program's mode
  vt,           \* the terminal: "ours", "leaving" (until VT_RELDISP) or "away"
  sig,          \* SIGUSR1 is pending; a second one is lost
  \* what the application was told and asked for
  wanted        \* it expects a draw event: a new window, or a refresh

outVars == <<outWindow, needsModeset, heirs>>
bufVars == <<inUse, active, pending, last>>
deferVars == <<defer, deferEvents>>
kernelVars == <<flight, shown, flipEvents, moded>>
vtVars == <<session, master, vt, sig>>
vars == <<outVars, status, surface, output, redraw, deferVars, bufVars, vtVars, cb,
          kernelVars, wanted>>

-----------------------------------------------------------------------------
Flip(w, b) == [win |-> w, buf |-> b]
NoFlip == Flip(NoWindow, 0)
FlipType == [win : Window \cup {NoWindow}, buf : Buffers \cup {0}]

\* out is the output a loop over all of them has reached; drew tells that the
\* application drew the window of the callback.
Call(fn, w, then, o) == [fn |-> fn, win |-> w, then |-> then, out |-> o, drew |-> FALSE]
NoCb == Call("none", NoWindow, "end", 0)
Callback == [fn : {"none", "draw", "resize", "focus"}, win : Window \cup {NoWindow},
             then : {"end", "deferred", "release", "acquire"}, out : 0 .. NOutputs,
             drew : BOOLEAN]

TypeOK ==
  /\ outWindow \in [Outputs -> Window \cup {NoWindow}]
  /\ needsModeset \in [Outputs -> BOOLEAN]
  /\ heirs \subseteq Window
  /\ status \in [Window -> {"unborn", "live", "freed"}]
  /\ surface \in [Window -> {"none", "buffer", "gl"}]
  /\ output \in [Window -> Outputs \cup {0}]
  /\ redraw \in [Window -> BOOLEAN]
  /\ defer \in [Window -> BOOLEAN]
  /\ deferEvents \in [Window -> SUBSET {"draw", "size"}]
  /\ inUse \in [Window -> SUBSET Buffers]
  /\ active \in [Window -> Buffers \cup {0}]
  /\ pending \in [Window -> Buffers \cup {0}]
  /\ last \in [Window -> Buffers \cup {0}]
  /\ session \in {"none", "active", "inactive"}
  /\ cb \in Callback
  /\ flight \in [Outputs -> FlipType]
  /\ shown \in [Outputs -> FlipType]
  /\ flipEvents \in Seq(Outputs)
  /\ master \in BOOLEAN
  /\ moded \in [Outputs -> BOOLEAN]
  /\ vt \in {"ours", "leaving", "away"}
  /\ sig \in BOOLEAN
  /\ wanted \in [Window -> BOOLEAN]

\* output_init takes over the mode an output is in.
Init ==
  /\ outWindow = [o \in Outputs |-> NoWindow]
  /\ needsModeset = [o \in Outputs |-> FALSE]
  /\ heirs = {}
  /\ status = [w \in Window |-> "unborn"]
  /\ surface = [w \in Window |-> "none"]
  /\ output = [w \in Window |-> 0]
  /\ redraw = [w \in Window |-> FALSE]
  /\ defer = [w \in Window |-> FALSE]
  /\ deferEvents = [w \in Window |-> {}]
  /\ inUse = [w \in Window |-> {}]
  /\ active = [w \in Window |-> 0]
  /\ pending = [w \in Window |-> 0]
  /\ last = [w \in Window |-> 0]
  /\ session = "none"
  /\ cb = NoCb
  /\ flight = [o \in Outputs |-> NoFlip]
  /\ shown = [o \in Outputs |-> NoFlip]
  /\ flipEvents = <<>>
  /\ master = TRUE
  /\ moded = [o \in Outputs |-> TRUE]
  /\ vt = "ours"
  /\ sig = FALSE
  /\ wanted = [w \in Window |-> FALSE]

Live(w) == status[w] = "live"

\* "The caller must call swa_window_apply_buffer before dispatching events
\* again": handlers run, and callbacks end, with no buffer being drawn.
Undrawn == \A w \in Window : active[w] = 0
Idle == cb = NoCb /\ Undrawn

InDraw(w) == cb.fn = "draw" /\ cb.win = w
Drew(w) == cb' = IF cb.win = w THEN [cb EXCEPT !.drew = TRUE] ELSE cb

-----------------------------------------------------------------------------
(* The application's calls *)

\* A completion event of the output waits in drm.fd.
Queued(o) == \E i \in 1 .. Len(flipEvents) : flipEvents[i] = o

\* A flip of the output is not shown yet, or its event was not handled.
FlipUnderway(o) == flight[o] # NoFlip \/ Queued(o)

Free == {o \in Outputs : outWindow[o] = NoWindow}

\* display_create_window on the first free output.  The first window sets up
\* the virtual terminal, which succeeds here.  Without an output, or when the
\* surface fails, win_destroy frees the window again.
CreateWindow(w, s, ok) ==
  /\ status[w] = "unborn" /\ s \in Surfaces
  /\ ok \in IF CreateFails THEN BOOLEAN ELSE {TRUE}
  /\ session' = IF session = "none" THEN "active" ELSE session
  /\ \/ /\ Free = {}
        /\ status' = [status EXCEPT ![w] = "freed"]
        /\ UNCHANGED <<outVars, surface, output, deferVars, wanted>>
     \/ \E o \in Free :
          /\ \A p \in Free : o <= p
          /\ needsModeset' = [needsModeset EXCEPT ![o] = TRUE]
          /\ outWindow' = [outWindow EXCEPT ![o] = IF ok THEN w ELSE NoWindow]
          /\ heirs' = IF ok /\ FlipUnderway(o) THEN heirs \cup {w} ELSE heirs
          /\ status' = [status EXCEPT ![w] = IF ok THEN "live" ELSE "freed"]
          /\ surface' = [surface EXCEPT ![w] = s]
          /\ output' = [output EXCEPT ![w] = o]
          /\ deferEvents' = [deferEvents EXCEPT ![w] = IF ok THEN {"draw", "size"} ELSE {}]
          /\ defer' = [defer EXCEPT ![w] = ok]
          /\ wanted' = [wanted EXCEPT ![w] = ok]
  /\ UNCHANGED <<redraw, bufVars, cb, kernelVars, master, vt, sig>>

\* win_destroy, not called from a window's resize callback.  It keeps the defer.
DestroyWindow(w) ==
  /\ Live(w)
  /\ cb.then = "deferred" => cb.win # w
  /\ DestroyDeferred \/ ~defer[w]
  /\ DestroyFlipping \/ ~FlipUnderway(output[w])
  /\ outWindow' = [outWindow EXCEPT ![output[w]] = NoWindow]
  /\ status' = [status EXCEPT ![w] = "freed"]
  /\ active' = [active EXCEPT ![w] = 0]
  /\ wanted' = [wanted EXCEPT ![w] = FALSE]
  /\ UNCHANGED <<needsModeset, heirs, surface, output, redraw, deferVars, inUse, pending,
                 last, vtVars, cb, kernelVars>>

DeferDraw(w) ==
  /\ deferEvents' = [deferEvents EXCEPT ![w] = @ \cup {"draw"}]
  /\ defer' = [defer EXCEPT ![w] = TRUE]

\* win_refresh's condition to draw at once; GL windows have no active buffer.
RefreshNow(w) == pending[w] = 0 /\ active[w] = 0

\* win_refresh; an error in a draw callback that has not drawn yet
Refresh(w) ==
  /\ Live(w)
  /\ InDraw(w) => cb.drew
  /\ IF RefreshNow(w)
       THEN DeferDraw(w) /\ UNCHANGED redraw
       ELSE redraw' = [redraw EXCEPT ![w] = TRUE] /\ UNCHANGED deferVars
  /\ wanted' = [wanted EXCEPT ![w] = TRUE]
  /\ UNCHANGED <<outVars, status, surface, output, bufVars, vtVars, cb, kernelVars>>

\* The kernel refuses a commit without master, while another is on its way, or
\* in another mode when it may not set the mode.
Accepted(w) ==
  /\ master
  /\ flight[output[w]] = NoFlip
  /\ moded[output[w]] \/ needsModeset[output[w]]

Results(w) == IF ~Accepted(w) THEN {FALSE} ELSE IF FlipFails THEN BOOLEAN ELSE {TRUE}

\* pageflip: the mode is asked for once, whether or not the commit succeeds.
PageFlip(w, b, ok) ==
  LET o == output[w] IN
  /\ needsModeset' = [needsModeset EXCEPT ![o] = FALSE]
  /\ IF ok
       THEN /\ flight' = [flight EXCEPT ![o] = Flip(w, b)]
            /\ moded' = [moded EXCEPT ![o] = TRUE]
       ELSE UNCHANGED <<flight, moded>>

MayDraw(w) == Live(w) /\ (FreeDraw \/ InDraw(w))

\* Mutant: the buffer is not looked for, the first is taken.
FirstUnused(w) == 1

\* The first buffer that is not in use.
Unused(w) ==
  CHOOSE b \in Buffers \ inUse[w] : \A c \in Buffers \ inUse[w] : b <= c

\* win_get_buffer, when it succeeds
GetBuffer(w) ==
  /\ MayDraw(w) /\ surface[w] = "buffer"
  /\ active[w] = 0 /\ pending[w] = 0
  /\ Buffers \ inUse[w] # {}
  /\ active' = [active EXCEPT ![w] = Unused(w)]
  /\ UNCHANGED <<outVars, status, surface, output, redraw, deferVars, inUse, pending, last,
                 vtVars, cb, kernelVars, wanted>>

\* Mutant: the buffer submitted does not count as in use.
ApplyUnmarked(w, ok) ==
  /\ Live(w) /\ active[w] # 0
  /\ ok \in Results(w)
  /\ PageFlip(w, active[w], ok)
  /\ pending' = [pending EXCEPT ![w] = IF ok THEN active[w] ELSE @]
  /\ active' = [active EXCEPT ![w] = 0]
  /\ Drew(w)
  /\ UNCHANGED <<outWindow, heirs, status, surface, output, redraw, deferVars, inUse, last,
                 vtVars, shown, flipEvents, wanted>>

\* win_apply_buffer; a buffer whose flip failed is free again.
ApplyBuffer(w, ok) ==
  /\ Live(w) /\ active[w] # 0
  /\ ok \in Results(w)
  /\ PageFlip(w, active[w], ok)
  /\ pending' = [pending EXCEPT ![w] = IF ok THEN active[w] ELSE @]
  /\ inUse' = [inUse EXCEPT ![w] = IF ok THEN @ \cup {active[w]} ELSE @]
  /\ active' = [active EXCEPT ![w] = 0]
  /\ Drew(w)
  /\ UNCHANGED <<outWindow, heirs, status, surface, output, redraw, deferVars, last, vtVars,
                 shown, flipEvents, wanted>>

\* win_gl_swap_buffers, where there is no swap pending: the bo drawn is locked,
\* and pending even when its flip failed.  When eglSwapBuffers fails it returns with
\* nothing changed, which is a stuttering step: nothing was drawn, so a draw callback
\* may still try again, or return, and not yet refresh.
SwapBuffers(w, ok) ==
  /\ MayDraw(w) /\ surface[w] = "gl"
  /\ pending[w] = 0
  /\ ok \in Results(w)
  /\ \E b \in Buffers \ inUse[w] :
       /\ pending' = [pending EXCEPT ![w] = b]
       /\ inUse' = [inUse EXCEPT ![w] = @ \cup {b}]
       /\ PageFlip(w, b, ok)
  /\ Drew(w)
  /\ UNCHANGED <<outWindow, heirs, status, surface, output, redraw, deferVars, active, last,
                 vtVars, shown, flipEvents, wanted>>

-----------------------------------------------------------------------------
(* The handlers *)

DrawEvent(w) ==
  cb' = Call("draw", w, "end", 0) /\ wanted' = [wanted EXCEPT ![w] = FALSE]

\* The second part of win_handle_deferred: the draw event, once events are ev.
DeferredDraw(w, ev) ==
  IF "draw" \in ev
    THEN deferEvents' = [deferEvents EXCEPT ![w] = ev \ {"draw"}] /\ DrawEvent(w)
    ELSE deferEvents' = [deferEvents EXCEPT ![w] = ev] /\ cb' = NoCb /\ UNCHANGED wanted

\* win_handle_deferred, up to its first callback.  What it does with the memory
\* of a freed window is not modelled.
HandleDeferred(w) ==
  /\ Idle /\ Live(w) /\ defer[w]
  /\ defer' = [defer EXCEPT ![w] = FALSE]
  /\ IF "size" \in deferEvents[w]
       THEN /\ deferEvents' = [deferEvents EXCEPT ![w] = @ \ {"size"}]
            /\ cb' = Call("resize", w, "deferred", 0)
            /\ UNCHANGED wanted
       ELSE DeferredDraw(w, deferEvents[w])
  /\ UNCHANGED <<outVars, status, surface, output, redraw, bufVars, vtVars, kernelVars>>

\* page_flip_handler on the window's buffers; its assertions are AssertFlip.
Flipped(w) ==
  /\ inUse' = [inUse EXCEPT ![w] = @ \ {last[w]}]
  /\ last' = [last EXCEPT ![w] = pending[w]]
  /\ pending' = [pending EXCEPT ![w] = 0]

\* Mutant: the redraw asked for while the flip was on its way is forgotten.
RedrawForgotten(w) ==
  redraw' = [redraw EXCEPT ![w] = FALSE] /\ UNCHANGED <<cb, wanted>>

\* page_flip_handler's last part
RedrawAfterFlip(w) ==
  IF redraw[w]
    THEN redraw' = [redraw EXCEPT ![w] = FALSE] /\ DrawEvent(w)
    ELSE UNCHANGED <<redraw, cb, wanted>>

\* drm_io, page_flip_handler
PageFlipHandler ==
  /\ Idle /\ flipEvents # <<>>
  /\ flipEvents' = Tail(flipEvents)
  /\ LET w == outWindow[Head(flipEvents)] IN
     IF w = NoWindow
       THEN UNCHANGED <<redraw, bufVars, cb, wanted>>
       ELSE Flipped(w) /\ RedrawAfterFlip(w) /\ UNCHANGED active
  /\ UNCHANGED <<outVars, status, surface, output, deferVars, vtVars, flight, shown, moded>>

\* sigusr_handler calls focus for the windows of the outputs in turn; when the
\* terminal is reacquired it makes them draw, too.
Windowed(o) == {p \in o .. NOutputs : outWindow[p] # NoWindow}

FocusFrom(o, then) ==
  \E p \in Windowed(o) :
    /\ \A q \in Windowed(o) : p <= q
    /\ cb' = Call("focus", outWindow[p], then, p)
    /\ IF then = "acquire" THEN DeferDraw(outWindow[p]) ELSE UNCHANGED deferVars

\* VT_RELDISP completes a switch away; the kernel ignores it otherwise.
Reldisp == vt' = IF vt = "leaving" THEN "away" ELSE vt

\* Mutant: master is dropped, but the kernel is not told to go on.
ReleasedSilently == master' = FALSE /\ UNCHANGED vt

\* Mutant: the terminal is given away, but not the display.
ReleasedAsMaster == UNCHANGED master /\ Reldisp

\* The end of sigusr_handler's release
Released == master' = FALSE /\ Reldisp

\* sigusr_handler in an active session
Release ==
  /\ Idle /\ sig /\ session = "active"
  /\ sig' = FALSE
  /\ session' = "inactive"
  /\ IF Windowed(1) # {}
       THEN FocusFrom(1, "release") /\ UNCHANGED <<master, vt>>
       ELSE Released /\ UNCHANGED <<cb, deferVars>>
  /\ UNCHANGED <<outVars, status, surface, output, redraw, bufVars, kernelVars, wanted>>

\* sigusr_handler in an inactive session
Acquire ==
  /\ Idle /\ sig /\ session = "inactive"
  /\ sig' = FALSE
  /\ Reldisp
  /\ master' = TRUE
  /\ IF Windowed(1) # {}
       THEN FocusFrom(1, "acquire") /\ UNCHANGED session
       ELSE session' = "active" /\ UNCHANGED <<cb, deferVars>>
  /\ UNCHANGED <<outVars, status, surface, output, redraw, bufVars, kernelVars, wanted>>

\* The callback returns and its handler goes on.
Return ==
  /\ cb # NoCb /\ Undrawn
  /\ \/ /\ cb.then = "end"
        /\ cb' = NoCb
        /\ UNCHANGED <<deferVars, session, master, vt, wanted>>
     \/ /\ cb.then = "deferred"
        /\ DeferredDraw(cb.win, deferEvents[cb.win])
        /\ UNCHANGED <<defer, session, master, vt>>
     \/ /\ cb.then \in {"release", "acquire"} /\ Windowed(cb.out + 1) # {}
        /\ FocusFrom(cb.out + 1, cb.then)
        /\ UNCHANGED <<session, master, vt, wanted>>
     \/ /\ cb.then = "release" /\ Windowed(cb.out + 1) = {}
        /\ Released
        /\ cb' = NoCb
        /\ UNCHANGED <<deferVars, session, wanted>>
     \/ /\ cb.then = "acquire" /\ Windowed(cb.out + 1) = {}
        /\ session' = "active"
        /\ cb' = NoCb
        /\ UNCHANGED <<deferVars, master, vt, wanted>>
  /\ UNCHANGED <<outVars, status, surface, output, redraw, bufVars, kernelVars, sig>>

-----------------------------------------------------------------------------
(* The kernel and the user *)

\* The vertical blank: the new contents are on the screen, and the completion
\* event can be read.
VerticalBlank(o) ==
  /\ flight[o] # NoFlip
  /\ shown' = [shown EXCEPT ![o] = flight[o]]
  /\ flight' = [flight EXCEPT ![o] = NoFlip]
  /\ flipEvents' = Append(flipEvents, o)
  /\ UNCHANGED <<outVars, status, surface, output, redraw, deferVars, bufVars, vtVars, cb,
                 moded, wanted>>

\* The user asks for another terminal: the kernel signals, and waits.
SwitchAway ==
  /\ Switches /\ session # "none" /\ vt = "ours"
  /\ Hasty \/ (~sig /\ session = "active")
  /\ vt' = "leaving"
  /\ sig' = TRUE
  /\ UNCHANGED <<outVars, status, surface, output, redraw, deferVars, bufVars, session,
                 master, cb, kernelVars, wanted>>

SwitchBack ==
  /\ vt = "away"
  /\ vt' = "ours"
  /\ sig' = TRUE
  /\ UNCHANGED <<outVars, status, surface, output, redraw, deferVars, bufVars, session,
                 master, cb, kernelVars, wanted>>

OtherMode(o) ==
  /\ Remodes /\ vt = "away" /\ ~master /\ moded[o] /\ flight[o] = NoFlip
  /\ moded' = [moded EXCEPT ![o] = FALSE]
  /\ shown' = [shown EXCEPT ![o] = NoFlip]
  /\ UNCHANGED <<outVars, status, surface, output, redraw, deferVars, bufVars, vtVars, cb,
                 flight, flipEvents, wanted>>

-----------------------------------------------------------------------------
App(w) ==
  \/ \E s \in Surfaces, ok \in BOOLEAN : CreateWindow(w, s, ok)
  \/ DestroyWindow(w)
  \/ Refresh(w)
  \/ GetBuffer(w)
  \/ \E ok \in BOOLEAN : ApplyBuffer(w, ok) \/ SwapBuffers(w, ok)

Kernel ==
  \/ \E o \in Outputs : VerticalBlank(o) \/ OtherMode(o)
  \/ SwitchAway
  \/ SwitchBack

Next ==
  \/ \E w \in Window : App(w) \/ HandleDeferred(w)
  \/ PageFlipHandler
  \/ Release
  \/ Acquire
  \/ Return
  \/ Kernel

Spec == Init /\ [][Next]_vars

\* display_dispatch: pml_iterate runs every enabled defer and every handler
\* whose fd is readable, so none waits forever while others run; callbacks
\* return, and a buffer handed out is applied.  Flips complete, and the user
\* comes back.
Fairness ==
  /\ SF_vars(Return)
  /\ SF_vars(PageFlipHandler)
  /\ SF_vars(Release)
  /\ SF_vars(Acquire)
  /\ WF_vars(SwitchBack)
  /\ \A w \in Window :
       /\ SF_vars(HandleDeferred(w))
       /\ WF_vars(\E ok \in BOOLEAN : ApplyBuffer(w, ok))
  /\ \A o \in Outputs : WF_vars(VerticalBlank(o))

FairSpec == Spec /\ Fairness

-----------------------------------------------------------------------------
(* Properties *)

OnScreen(o) == {flight[o], shown[o]}

\* The window's pointers and in_use flags agree: the buffers in use are the one
\* that waits for its flip and the one on the screen, never the one being drawn;
\* win_apply_buffer's assertion holds, and win_get_buffer always finds a buffer
\* (win_get_buffer, win_apply_buffer and page_flip_handler).
BufferInv ==
  \A w \in Window :
    /\ inUse[w] = {pending[w], last[w]} \ {0}
    /\ active[w] # 0 =>
         active[w] \notin inUse[w] /\ pending[w] = 0 /\ surface[w] = "buffer" /\ Live(w)
    /\ pending[w] # 0 => pending[w] # last[w]

\* Nothing is drawn into a buffer the screen shows or is about to show, whatever
\* fails, whoever else uses the screen and whatever was destroyed before: it is in
\* use, and not handed out, but for windows that were created while an earlier
\* window's flip was underway (page_flip_handler frees a buffer only when another
\* has replaced it).
NoTearing ==
  \A o \in Outputs : \A f \in OnScreen(o) :
    f # NoFlip /\ Live(f.win) /\ f.win \notin heirs =>
      f.buf \in inUse[f.win] /\ f.buf # active[f.win]

\* A completion event of the output finds the window's pending buffer, in use, and
\* its last one in use.
FlipExpected(w) ==
  /\ pending[w] # 0 /\ pending[w] \in inUse[w]
  /\ last[w] # 0 => last[w] \in inUse[w]

\* page_flip_handler's assertions hold, also when windows were destroyed with their
\* flips on the way: a completion either finds no window, or a window of which it is
\* the completion, unless the window was created on the output before the completion
\* of an earlier one's flip was handled.
AssertFlip ==
  \A i \in 1 .. Len(flipEvents) :
    LET w == outWindow[flipEvents[i]] IN
    w # NoWindow /\ w \notin heirs => FlipExpected(w)

\* The assertions hold for every window there is.  They do not: page_flip_handler looks
\* for a missing window ("This might happen if the window is destroyed in between i
\* guess"), not for the next one on the output.
FlipAsserted ==
  \A i \in 1 .. Len(flipEvents) :
    LET w == outWindow[flipEvents[i]] IN
    w # NoWindow => FlipExpected(w)

\* A pending buffer is one that was submitted and whose completion has not been
\* handled yet, so that something ends the wait for it (win_apply_buffer and
\* win_gl_swap_buffers against the result of pageflip).
PendingQueued ==
  \A w \in Window :
    Live(w) /\ pending[w] # 0 =>
      \/ flight[output[w]] = Flip(w, pending[w])
      \/ Queued(output[w])

\* The window's deferred draw event will be emitted.
DrawDeferred(w) ==
  "draw" \in deferEvents[w] /\ (defer[w] \/ (cb.then = "deferred" /\ cb.win = w))

\* No request is lost: a window that expects a draw event has one deferred, or
\* redraw set while a buffer is drawn or waits for its flip; in an inactive
\* session the way back makes every window draw (win_refresh against
\* page_flip_handler, win_handle_deferred and sigusr_handler).
NoRequestLost ==
  \A w \in Window : Live(w) /\ wanted[w] =>
    \/ DrawDeferred(w)
    \/ redraw[w] /\ (pending[w] # 0 \/ active[w] # 0)
    \/ session = "inactive"

\* A draw event comes when the window can be drawn: "when it is a good time to
\* redraw", no buffer of the window waits for its flip.
DrawReady ==
  \A w \in Window : InDraw(w) /\ ~cb.drew => pending[w] = 0

\* A freed window has no deferred events left ("not further events will be
\* emitted"): win_handle_deferred would use the freed struct.
DeferDies == \A w \in Window : status[w] = "freed" => ~defer[w]

\* With no signal pending and none being handled, the session is active, and the
\* program DRM master, exactly while the terminal is its own (sigusr_handler,
\* which only toggles, against the kernel's signals).
SessionAgrees ==
  ~sig /\ cb.then \notin {"release", "acquire"} /\ session # "none" =>
    /\ session = "active" <=> vt = "ours"
    /\ session = "active" <=> master

\* A user who asks for another terminal gets it (sigusr_handler's VT_RELDISP).
SwitchServed == vt = "leaving" ~> vt = "away"

\* Every draw event expected comes, for a window not destroyed first.
DrawServed == \A w \in Window : Live(w) /\ wanted[w] ~> InDraw(w) \/ ~Live(w)

\* The windows keep the contract of drawing: draw events answer requests, and
\* none comes while a buffer waits for its flip (win_refresh, page_flip_handler).
Contract == INSTANCE Redraw WITH
  alive     <- {w \in Window : Live(w)},
  asked     <- {w \in Window : Live(w) /\ ("draw" \in deferEvents[w] \/ redraw[w])},
  throttled <- {w \in Window : Live(w) /\ pending[w] # 0},
  drawing   <- IF cb.fn = "draw" THEN {cb.win} ELSE {}

RedrawContract == Contract!Spec
=============================================================================

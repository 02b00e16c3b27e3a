------------------------------ MODULE WlWindow ------------------------------
(***************************************************************************)
(* The windows of the Wayland backend (src/swa/wayland.c) in the event     *)
(* loop of one thread: creation, the configure/ack handshake, refresh,     *)
(* frame callbacks, the deferred draw and resize events of subsurfaces,    *)
(* set_state, close and destroy.                                           *)
(*                                                                         *)
(* Between two handlers the application runs; inside a handler the         *)
(* application runs only within the listener callback recorded in cb.      *)
(* cb.then names what the handler still does once that callback returns,   *)
(* so a callback that changes or destroys the window meets the rest of the *)
(* handler exactly where the code does.                                    *)
(*                                                                         *)
(* A size stands for the pair (width, height); 0 is SWA_DEFAULT_SIZE.      *)
(***************************************************************************)
EXTENDS Integers, Sequences, FiniteSets

CONSTANTS
  Window,      \* windows the application may create, each once
  NoWindow,    \* the null window pointer
  Kinds,       \* the kinds created: a subset of AllKinds
  Sizes,       \* the sizes the compositor may choose (none is 0)
  Fallback,    \* SWA_FALLBACK_WIDTH x SWA_FALLBACK_HEIGHT
  Asks,        \* the states the application asks for
  CompStates,  \* the states the compositor gives windows of its own accord
  DestroyIn,   \* the contexts in which the application destroys windows
  PresentIn,   \* the contexts in which the application presents contents
  MaxWire,     \* bound on the configure events in flight, per window
  MaxReqs      \* bound on the state requests in flight, per window

AllKinds == {"toplevel", "subsurface", "layer"}
States == {"none", "normal", "maximized", "minimized", "fullscreen"}
Reported == {"normal", "maximized", "fullscreen"}
Contexts == {"idle", "draw", "resize", "state", "close"}

ASSUME WindowAssumption == NoWindow \notin Window
ASSUME KindAssumption == Kinds \subseteq AllKinds
ASSUME SizeAssumption == Sizes \subseteq Nat \ {0} /\ Fallback \in Sizes
ASSUME StateAssumption ==
  Asks \subseteq States \ {"none"} /\ CompStates \subseteq Reported
ASSUME ContextAssumption == DestroyIn \subseteq Contexts /\ PresentIn \subseteq Contexts
ASSUME BoundAssumption == MaxWire \in Nat \ {0} /\ MaxReqs \in Nat

VARIABLES
  \* struct swa_window_wl
  status,       \* "unborn", "live" or "freed" (the struct's memory)
  kind,         \* which of xdg_surface, wl_subsurface, wlr_layer_surface it has
  show,
  configured,
  redraw,
  size,         \* width and height
  state,
  frame,        \* frame_callback: "none", "requested" (not committed yet),
                \* "committed", "done" (its done event is in the queue)
  deferRedraw,  \* defer_redraw exists and is enabled
  defer,        \* the pml defer of a subsurface's first events exists
  deferEvents,  \* defer_events
  \* the control state of the thread
  cb,           \* the listener callback being run and the rest of its handler
  ackDue,       \* the window whose xdg_surface.configure comes next
  \* the compositor and the wire
  wire,         \* configure events in flight, per window
  reqs,         \* state requests in flight, per window
  comp,         \* the state the compositor gives the window
  acked,        \* the window's first configure was acknowledged
  \* what the application was told and asked for
  known,        \* the size it passed to create_window or was told since
  want,         \* the state it asked for last
  wanted        \* it expects a draw event: a new window, or a refresh

winVars  == <<status, kind, show, configured, redraw, size, state, frame,
              deferRedraw, defer, deferEvents>>
compVars == <<wire, reqs, comp>>
appVars  == <<known, want, wanted>>
vars == <<winVars, cb, ackDue, compVars, acked, appVars>>

-----------------------------------------------------------------------------
(* Callbacks *)

Call(fn, w, then) == [fn |-> fn, win |-> w, then |-> then, presented |-> FALSE]
NoCb == Call("idle", NoWindow, "end")

\* The draw callback, unless the window is hidden; the handler ends with it.
DrawEvent(w) ==
  IF show[w]
    THEN cb' = Call("draw", w, "end") /\ wanted' = [wanted EXCEPT ![w] = FALSE]
    ELSE cb' = NoCb /\ UNCHANGED wanted

Idle == cb = NoCb /\ ackDue = NoWindow

Live(w) == status[w] = "live"

\* The roles the compositor configures: xdg_toplevel and layer surfaces.
Configurable(w) == kind[w] \in {"toplevel", "layer"}

Callback == [fn : Contexts, win : Window \cup {NoWindow},
             then : {"end", "configure", "deferred"}, presented : BOOLEAN]

\* A configure event of xdg_toplevel or zwlr_layer_surface.
Event == [size : Sizes \cup {0}, state : States]

TypeOK ==
  /\ status \in [Window -> {"unborn", "live", "freed"}]
  /\ kind \in [Window -> AllKinds]
  /\ show \in [Window -> BOOLEAN]
  /\ configured \in [Window -> BOOLEAN]
  /\ redraw \in [Window -> BOOLEAN]
  /\ size \in [Window -> Sizes \cup {0}]
  /\ state \in [Window -> States]
  /\ frame \in [Window -> {"none", "requested", "committed", "done"}]
  /\ deferRedraw \in [Window -> BOOLEAN]
  /\ defer \in [Window -> BOOLEAN]
  /\ deferEvents \in [Window -> SUBSET {"draw", "size"}]
  /\ cb \in Callback
  /\ ackDue \in Window \cup {NoWindow}
  /\ wire \in [Window -> Seq(Event)]
  /\ reqs \in [Window -> Seq(States)]
  /\ comp \in [Window -> States]
  /\ acked \in [Window -> BOOLEAN]
  /\ known \in [Window -> Sizes \cup {0}]
  /\ want \in [Window -> States]
  /\ wanted \in [Window -> BOOLEAN]

Init ==
  /\ status = [w \in Window |-> "unborn"]
  /\ kind = [w \in Window |-> "toplevel"]
  /\ show = [w \in Window |-> FALSE]
  /\ configured = [w \in Window |-> FALSE]
  /\ redraw = [w \in Window |-> FALSE]
  /\ size = [w \in Window |-> 0]
  /\ state = [w \in Window |-> "none"]
  /\ frame = [w \in Window |-> "none"]
  /\ deferRedraw = [w \in Window |-> FALSE]
  /\ defer = [w \in Window |-> FALSE]
  /\ deferEvents = [w \in Window |-> {}]
  /\ cb = NoCb
  /\ ackDue = NoWindow
  /\ wire = [w \in Window |-> <<>>]
  /\ reqs = [w \in Window |-> <<>>]
  /\ comp = [w \in Window |-> "normal"]
  /\ acked = [w \in Window |-> FALSE]
  /\ known = [w \in Window |-> 0]
  /\ want = [w \in Window |-> "normal"]
  /\ wanted = [w \in Window |-> FALSE]

-----------------------------------------------------------------------------
(* The window functions, called by the application *)

\* Mutant: a refresh that does not wait for the frame callback.
RefreshUnthrottled(w, conf) == (kind[w] = "toplevel" /\ ~conf) \/ ~show[w]

\* win_refresh: defer a draw event, or note that one is wanted when nothing
\* may be drawn yet.  conf is the configured flag it reads.
RefreshBlocked(w, conf) ==
  \/ kind[w] = "toplevel" /\ ~conf
  \/ frame[w] # "none"
  \/ ~show[w]

WinRefresh(w, conf) ==
  IF RefreshBlocked(w, conf)
    THEN /\ redraw' = [redraw EXCEPT ![w] = TRUE]
         /\ UNCHANGED deferRedraw
    ELSE /\ deferRedraw' = [deferRedraw EXCEPT ![w] = TRUE]
         /\ UNCHANGED redraw

\* The application runs between two handlers or in the callback cb.
Running == Idle \/ cb # NoCb

\* Refreshing in the draw callback before presenting is an error (swa.h).
Refresh(w) ==
  /\ Running /\ Live(w)
  /\ cb.fn = "draw" /\ cb.win = w => cb.presented
  /\ WinRefresh(w, configured[w])
  /\ wanted' = [wanted EXCEPT ![w] = TRUE]
  /\ UNCHANGED <<status, kind, show, configured, size, state, frame, defer,
                 deferEvents, cb, ackDue, compVars, acked, known, want>>

\* The application presents where PresentIn allows it, and in a callback only
\* to the window the callback is for.
MayPresent(w) ==
  /\ Running /\ Live(w)
  /\ cb.fn \in PresentIn
  /\ cb # NoCb => cb.win = w

NotePresented == cb' = IF cb = NoCb THEN cb ELSE [cb EXCEPT !.presented = TRUE]

\* win_surface_frame: a frame callback replaces the one still pending.
\* Whoever calls it presents afterwards: ExternalCommit.
SurfaceFrame(w) ==
  /\ MayPresent(w)
  /\ frame' = [frame EXCEPT ![w] = "requested"]
  /\ NotePresented
  /\ UNCHANGED <<status, kind, show, configured, redraw, size, state,
                 deferRedraw, defer, deferEvents, ackDue, compVars, acked,
                 appVars>>

\* Vulkan, or the application itself, commits the surface.
ExternalCommit(w) ==
  /\ Running /\ Live(w)
  /\ frame[w] = "requested"
  /\ frame' = [frame EXCEPT ![w] = "committed"]
  /\ UNCHANGED <<status, kind, show, configured, redraw, size, state,
                 deferRedraw, defer, deferEvents, cb, ackDue, compVars, acked,
                 appVars>>

\* win_apply_buffer and win_gl_swap_buffers: win_surface_frame and a commit.
ApplyBuffer(w) ==
  /\ MayPresent(w)
  /\ frame' = [frame EXCEPT ![w] = "committed"]
  /\ NotePresented
  /\ UNCHANGED <<status, kind, show, configured, redraw, size, state,
                 deferRedraw, defer, deferEvents, ackDue, compVars, acked,
                 appVars>>

\* win_set_state: the new state is assumed at once, the compositor is asked.  The
\* two requests that ask for the normal state reach it together and count as one.
SetState(w, st) ==
  /\ Running /\ Live(w) /\ kind[w] = "toplevel"
  /\ Len(reqs[w]) < MaxReqs
  /\ state' = [state EXCEPT ![w] = st]
  /\ want' = [want EXCEPT ![w] = st]
  /\ reqs' = [reqs EXCEPT ![w] = Append(@, st)]
  /\ UNCHANGED <<status, kind, show, configured, redraw, size, frame,
                 deferRedraw, defer, deferEvents, cb, ackDue, wire, comp,
                 acked, known, wanted>>

\* display_create_window, with the size, state and hide settings sz, st and hide.
\* Only a toplevel keeps SWA_DEFAULT_SIZE until the compositor decides.  The
\* compositor reads the state asked for here before the commit that makes it
\* send the first configure.
CreateWindow(w, k, sz, st, hide) ==
  /\ Running /\ status[w] = "unborn"
  /\ k # "toplevel" => st = "normal"
  /\ status' = [status EXCEPT ![w] = "live"]
  /\ kind' = [kind EXCEPT ![w] = k]
  /\ show' = [show EXCEPT ![w] = ~hide]
  /\ size' = [size EXCEPT ![w] = IF k # "toplevel" /\ sz = 0 THEN Fallback ELSE sz]
  /\ known' = [known EXCEPT ![w] = sz]
  /\ defer' = [defer EXCEPT ![w] = k = "subsurface"]
  /\ deferEvents' = [deferEvents EXCEPT ![w] =
       (IF k = "subsurface" THEN {"draw"} ELSE {})
         \cup (IF k # "toplevel" /\ sz = 0 THEN {"size"} ELSE {})]
  /\ want' = [want EXCEPT ![w] = st]
  /\ wanted' = [wanted EXCEPT ![w] = TRUE]
  /\ state' = [state EXCEPT ![w] = IF st = "normal" THEN @ ELSE st]
  /\ comp' = [comp EXCEPT ![w] = IF st = "minimized" THEN @ ELSE st]
  /\ UNCHANGED <<configured, redraw, frame, deferRedraw, cb, ackDue, wire,
                 reqs, acked>>

\* Mutant: win_destroy forgets the defer of a refresh.
DestroyKeepsDefer(w) ==
  /\ Running /\ Live(w)
  /\ cb.fn \in DestroyIn
  /\ status' = [status EXCEPT ![w] = "freed"]
  /\ frame' = [frame EXCEPT ![w] = "none"]
  /\ wire' = [wire EXCEPT ![w] = <<>>]
  /\ reqs' = [reqs EXCEPT ![w] = <<>>]
  /\ ackDue' = IF ackDue = w THEN NoWindow ELSE ackDue
  /\ UNCHANGED <<kind, show, configured, redraw, size, state, deferRedraw, defer,
                 deferEvents, cb, comp, acked, appVars>>

\* win_destroy: the proxies go and with them their events in flight; so do
\* defer_redraw and frame_callback, but not the pml defer of a subsurface.
Destroy(w) ==
  /\ Running /\ Live(w)
  /\ cb.fn \in DestroyIn
  /\ status' = [status EXCEPT ![w] = "freed"]
  /\ deferRedraw' = [deferRedraw EXCEPT ![w] = FALSE]
  /\ frame' = [frame EXCEPT ![w] = "none"]
  /\ wire' = [wire EXCEPT ![w] = <<>>]
  /\ reqs' = [reqs EXCEPT ![w] = <<>>]
  /\ ackDue' = IF ackDue = w THEN NoWindow ELSE ackDue
  /\ UNCHANGED <<kind, show, configured, redraw, size, state, defer,
                 deferEvents, cb, comp, acked, appVars>>

-----------------------------------------------------------------------------
(* The handlers of the event loop *)

\* refresh_cb
RefreshCb(w) ==
  /\ Idle /\ deferRedraw[w]
  /\ redraw' = [redraw EXCEPT ![w] = FALSE]
  /\ deferRedraw' = [deferRedraw EXCEPT ![w] = FALSE]
  /\ DrawEvent(w)
  /\ UNCHANGED <<status, kind, show, configured, size, state, frame, defer,
                 deferEvents, ackDue, compVars, acked, known, want>>

\* win_frame_done
FrameDone(w) ==
  /\ Idle /\ frame[w] = "done"
  /\ frame' = [frame EXCEPT ![w] = "none"]
  /\ redraw' = [redraw EXCEPT ![w] = FALSE]
  /\ IF redraw[w] THEN DrawEvent(w) ELSE UNCHANGED <<cb, wanted>>
  /\ UNCHANGED <<status, kind, show, configured, size, state, deferRedraw,
                 defer, deferEvents, ackDue, compVars, acked, known, want>>

\* The end of win_handle_deferred: the deferred draw event.
DeferredDraw(w) ==
  /\ deferEvents' = [deferEvents EXCEPT ![w] = {}]
  /\ IF "draw" \in deferEvents[w] THEN DrawEvent(w) ELSE cb' = NoCb /\ UNCHANGED wanted

\* win_handle_deferred, up to the resize callback if there is one
HandleDeferred(w) ==
  /\ Idle /\ defer[w]
  /\ defer' = [defer EXCEPT ![w] = FALSE]
  /\ IF "size" \in deferEvents[w]
       THEN /\ deferEvents' = [deferEvents EXCEPT ![w] = @ \ {"size"}]
            /\ cb' = Call("resize", w, "deferred")
            /\ known' = [known EXCEPT ![w] = size[w]]
            /\ UNCHANGED wanted
       ELSE DeferredDraw(w) /\ UNCHANGED known
  /\ UNCHANGED <<status, kind, show, configured, redraw, size, state, frame,
                 deferRedraw, ackDue, compVars, acked, want>>

\* Mutants: a configure refreshes only a resized window; a configure tells the
\* new state without storing it.
FinishOnResize(w, resized) ==
  LET st == Head(wire[w]).state IN
  /\ configured' = [configured EXCEPT ![w] = TRUE]
  /\ IF resized THEN WinRefresh(w, TRUE) ELSE UNCHANGED <<redraw, deferRedraw>>
  /\ wire' = [wire EXCEPT ![w] = Tail(@)]
  /\ IF kind[w] = "toplevel"
       THEN /\ ackDue' = w
            /\ state' = [state EXCEPT ![w] = st]
            /\ cb' = IF st # state[w] THEN Call("state", w, "end") ELSE NoCb
       ELSE UNCHANGED <<ackDue, state>> /\ cb' = NoCb
FinishStateless(w, resized) ==
  LET st == Head(wire[w]).state IN
  /\ configured' = [configured EXCEPT ![w] = TRUE]
  /\ IF resized \/ ~configured[w]
       THEN WinRefresh(w, TRUE)
       ELSE UNCHANGED <<redraw, deferRedraw>>
  /\ wire' = [wire EXCEPT ![w] = Tail(@)]
  /\ IF kind[w] = "toplevel"
       THEN /\ ackDue' = w
            /\ cb' = IF st # state[w] THEN Call("state", w, "end") ELSE NoCb
       ELSE UNCHANGED ackDue /\ cb' = NoCb
  /\ UNCHANGED state

\* What toplevel_configure and wlr_layer_surface_configure do after the resize
\* callback: refresh, and for a toplevel the state event.  The event handled is
\* the head of wire[w]; a toplevel's ack comes with the next event, a layer
\* surface has been acknowledged at the start.
FinishConfigure(w, resized) ==
  LET st == Head(wire[w]).state IN
  /\ configured' = [configured EXCEPT ![w] = TRUE]
  /\ IF resized \/ ~configured[w]
       THEN WinRefresh(w, TRUE)
       ELSE UNCHANGED <<redraw, deferRedraw>>
  /\ wire' = [wire EXCEPT ![w] = Tail(@)]
  /\ IF kind[w] = "toplevel"
       THEN /\ ackDue' = w
            /\ state' = [state EXCEPT ![w] = st]
            /\ cb' = IF st # state[w] THEN Call("state", w, "end") ELSE NoCb
       ELSE UNCHANGED <<ackDue, state>> /\ cb' = NoCb

\* Mutant: a window of default size is not told its first size.
ConfigureUntold(w) ==
  LET proposed == Head(wire[w]).size
      new == IF proposed # 0 THEN proposed
             ELSE IF size[w] = 0 THEN Fallback ELSE size[w]
  IN
  /\ Idle /\ Live(w) /\ wire[w] # <<>>
  /\ size' = [size EXCEPT ![w] = new]
  /\ acked' = [acked EXCEPT ![w] = @ \/ kind[w] = "layer"]
  /\ IF new # size[w] /\ size[w] # 0
       THEN /\ cb' = Call("resize", w, "configure")
            /\ known' = [known EXCEPT ![w] = new]
            /\ UNCHANGED <<configured, redraw, deferRedraw, wire, ackDue, state>>
       ELSE FinishConfigure(w, new # size[w]) /\ UNCHANGED known
  /\ UNCHANGED <<status, kind, show, frame, defer, deferEvents, reqs, comp, want, wanted>>

\* toplevel_configure and wlr_layer_surface_configure, up to the resize
\* callback if the size changed.  A size of 0 leaves the choice to the window.
Configure(w) ==
  LET proposed == Head(wire[w]).size
      new == IF proposed # 0 THEN proposed
             ELSE IF size[w] = 0 THEN Fallback ELSE size[w]
  IN
  /\ Idle /\ Live(w) /\ wire[w] # <<>>
  /\ size' = [size EXCEPT ![w] = new]
  /\ acked' = [acked EXCEPT ![w] = @ \/ kind[w] = "layer"]
  /\ IF new # size[w]
       THEN /\ cb' = Call("resize", w, "configure")
            /\ known' = [known EXCEPT ![w] = new]
            /\ UNCHANGED <<configured, redraw, deferRedraw, wire, ackDue, state>>
       ELSE FinishConfigure(w, FALSE) /\ UNCHANGED known
  /\ UNCHANGED <<status, kind, show, frame, defer, deferEvents, reqs, comp, want, wanted>>

\* xdg_surface_configure follows toplevel_configure: the compositor sends the
\* two together and the loop dispatches every event it has read before it does
\* anything else.
XdgSurfaceConfigure ==
  /\ cb = NoCb /\ ackDue # NoWindow
  /\ acked' = [acked EXCEPT ![ackDue] = TRUE]
  /\ ackDue' = NoWindow
  /\ UNCHANGED <<winVars, cb, compVars, appVars>>

\* toplevel_close and wlr_layer_surface_closed
Close(w) ==
  /\ Idle /\ Live(w) /\ Configurable(w)
  /\ cb' = Call("close", w, "end")
  /\ UNCHANGED <<winVars, ackDue, compVars, acked, appVars>>

\* The application returns from its callback and the handler goes on.  It has
\* presented the frame it announced (swa.h).
Return ==
  /\ cb # NoCb
  /\ frame[cb.win] # "requested"
  /\ \/ /\ cb.then = "end"
        /\ cb' = NoCb
        /\ UNCHANGED <<winVars, ackDue, wire, wanted>>
     \/ /\ cb.then = "configure"
        /\ FinishConfigure(cb.win, TRUE)
        /\ UNCHANGED <<status, kind, show, size, frame, defer, deferEvents, wanted>>
     \/ /\ cb.then = "deferred"
        /\ DeferredDraw(cb.win)
        /\ UNCHANGED <<status, kind, show, configured, redraw, size, state,
                       frame, deferRedraw, defer, ackDue, wire>>
  /\ UNCHANGED <<reqs, comp, acked, known, want>>

-----------------------------------------------------------------------------
(* The compositor *)

\* It proposes a size, 0 for none, and a state: the one the window has, or one
\* of its own choice.
CompositorConfigure(w, sz, st) ==
  /\ Live(w) /\ Configurable(w)
  /\ Len(wire[w]) < MaxWire
  /\ st \in CompStates \cup {comp[w]}
  /\ comp' = [comp EXCEPT ![w] = st]
  /\ wire' = [wire EXCEPT ![w] = Append(@, [size |-> sz, state |-> st])]
  /\ UNCHANGED <<winVars, cb, ackDue, reqs, acked, appVars>>

\* It grants a requested state and tells so; of a minimized window it says nothing.
CompositorGrant(w, sz) ==
  /\ reqs[w] # <<>>
  /\ reqs' = [reqs EXCEPT ![w] = Tail(@)]
  /\ IF Head(reqs[w]) = "minimized"
       THEN UNCHANGED <<wire, comp>>
       ELSE /\ Len(wire[w]) < MaxWire
            /\ comp' = [comp EXCEPT ![w] = Head(reqs[w])]
            /\ wire' = [wire EXCEPT ![w] =
                 Append(@, [size |-> sz, state |-> Head(reqs[w])])]
  /\ UNCHANGED <<winVars, cb, ackDue, acked, appVars>>

\* A committed frame reached the screen; its callback's done event is sent.
CompositorFrameDone(w) ==
  /\ frame[w] = "committed"
  /\ frame' = [frame EXCEPT ![w] = "done"]
  /\ UNCHANGED <<status, kind, show, configured, redraw, size, state,
                 deferRedraw, defer, deferEvents, cb, ackDue, compVars, acked,
                 appVars>>

-----------------------------------------------------------------------------
Application(w) ==
  \/ Refresh(w) \/ SurfaceFrame(w) \/ ExternalCommit(w) \/ ApplyBuffer(w)
  \/ Destroy(w)
  \/ \E st \in Asks : SetState(w, st)
  \/ \E k \in Kinds, sz \in Sizes \cup {0}, st \in Asks \cup {"normal"},
        hide \in BOOLEAN : CreateWindow(w, k, sz, st, hide)

Handler(w) ==
  RefreshCb(w) \/ FrameDone(w) \/ HandleDeferred(w) \/ Configure(w) \/ Close(w)

Compositor(w) ==
  \/ CompositorFrameDone(w)
  \/ \E sz \in Sizes \cup {0} :
       \/ CompositorGrant(w, sz)
       \/ \E st \in Reported : CompositorConfigure(w, sz, st)

Next ==
  \/ Return
  \/ XdgSurfaceConfigure
  \/ \E w \in Window : Application(w) \/ Handler(w) \/ Compositor(w)

Spec == Init /\ [][Next]_vars

\* Every pml_iterate runs all enabled defers and wl_display_dispatch_pending
\* dispatches every event read, so a source that is ready again and again is
\* served: strong fairness of each handler (Close apart: the compositor need
\* not send it).  The application returns from its callbacks, commits the frame
\* it announced and keeps dispatching; the compositor configures each new
\* window once and shows committed frames.  Nothing else is fair: the
\* application need not do anything of its own accord.
Fairness ==
  /\ WF_vars(Return) /\ WF_vars(XdgSurfaceConfigure)
  /\ \A w \in Window :
       /\ SF_vars(RefreshCb(w)) /\ SF_vars(FrameDone(w))
       /\ SF_vars(HandleDeferred(w)) /\ SF_vars(Configure(w))
       /\ WF_vars(ExternalCommit(w)) /\ WF_vars(CompositorFrameDone(w))
       /\ WF_vars(~configured[w] /\ CompositorConfigure(w, 0, "normal"))

FairSpec == Spec /\ Fairness

-----------------------------------------------------------------------------
(* Properties *)

\* A freed window is out of the event loop: no defer, proxy or event in flight
\* still points to it, and no handler goes on with it after a callback that
\* destroyed it (win_destroy against refresh_cb, win_frame_done,
\* toplevel_configure and win_handle_deferred).
FreedIsSilent ==
  \A w \in Window : status[w] = "freed" =>
    /\ ~deferRedraw[w] /\ ~defer[w]
    /\ frame[w] = "none" /\ wire[w] = <<>>
    /\ cb.win = w => cb.then = "end"

\* "No further events" once a window is destroyed: every callback starts on a
\* window that lives.
NoEventAfterDestroy == [][cb' # NoCb /\ cb'.win # cb.win => Live(cb'.win)]_vars

\* A toplevel is asked to draw, and shows contents, only once its first
\* configure was handled and acknowledged: the compositor disconnects a client
\* that attaches a buffer earlier (win_refresh's guard, toplevel_configure and
\* xdg_surface_configure).
NothingBeforeAck ==
  \A w \in Window :
    /\ kind[w] = "toplevel"
    /\ (cb.fn = "draw" /\ cb.win = w) \/ frame[w] # "none"
    => configured[w] /\ acked[w]

\* The same for layer surfaces, which have no xdg_surface.
NothingBeforeConfigure ==
  \A w \in Window : cb.fn = "draw" /\ cb.win = w /\ kind[w] = "layer" => configured[w]

\* Whenever a window is asked to draw, the application knows its size: it is
\* the one it chose or, always after SWA_DEFAULT_SIZE, the one the last resize
\* event told (the order of resize, configured and win_refresh in
\* toplevel_configure).
DrawSizeKnown ==
  cb.fn = "draw" => known[cb.win] = size[cb.win] /\ known[cb.win] # 0

\* Something in the event loop will make the window draw: the enabled defer, the
\* frame callback with redraw set, the deferred events, the first configure.
Pending(w) ==
  \/ deferRedraw[w]
  \/ redraw[w] /\ frame[w] # "none"
  \/ /\ "draw" \in deferEvents[w]
     /\ defer[w] \/ (cb.win = w /\ cb.then = "deferred")
  \/ Configurable(w) /\ ~configured[w]

\* No request is lost: a draw event the application expects always has
\* something pending that will emit it (the redraw flag against the frame
\* callback in win_refresh, win_frame_done and win_surface_frame, and against
\* the first configure).
NoRequestLost ==
  \A w \in Window : Live(w) /\ show[w] /\ wanted[w] => Pending(w)

Drawing == IF cb.fn = "draw" THEN {cb.win} ELSE {}

\* Every draw event expected comes, for a shown window not destroyed first.
DrawServed ==
  \A w \in Window : Live(w) /\ show[w] /\ wanted[w] ~> w \in Drawing \/ ~Live(w)

\* The toplevels keep the contract of drawing: draw events answer requests, and
\* none comes while a frame callback is pending (refresh_cb and win_frame_done
\* against win_surface_frame).
Contract == INSTANCE Redraw WITH
  alive     <- {w \in Window : Live(w)},
  asked     <- {w \in Window : Live(w) /\ show[w] /\ Pending(w)},
  throttled <- {w \in Window : frame[w] # "none"},
  drawing   <- Drawing

RedrawContract == Contract!Spec

\* What ties the thread's control state to the windows; the invariants above
\* rest on it.  The rest of a handler finds the window and the event it works
\* on; an xdg_surface.configure is due exactly while a toplevel is configured
\* and not acknowledged, and nothing but the state callback runs before it; a
\* toplevel's defer_redraw is enabled only once it is configured.
CallbackInv ==
  /\ cb = NoCb \/ (cb.fn # "idle" /\ cb.win \in Window /\ status[cb.win] # "unborn")
  /\ cb.then # "end" =>
       /\ cb.fn = "resize" /\ size[cb.win] # 0
       /\ cb.then = "configure" => Configurable(cb.win) /\ wire[cb.win] # <<>>
       /\ cb.then = "deferred" => kind[cb.win] = "subsurface"
  /\ ackDue # NoWindow =>
       cb.fn \in {"idle", "state"} /\ kind[ackDue] = "toplevel" /\ status[ackDue] # "unborn"

WindowInv(w) ==
  /\ status[w] # "unborn" => kind[w] \in Kinds
  /\ status[w] = "unborn" => ~configured[w] /\ ~defer[w]
  /\ ~Live(w) => /\ wire[w] = <<>> /\ reqs[w] = <<>> /\ frame[w] = "none"
                 /\ ~deferRedraw[w]
  /\ wire[w] # <<>> \/ reqs[w] # <<>> => Configurable(w)
  /\ defer[w] => kind[w] = "subsurface" /\ size[w] # 0
  /\ configured[w] => size[w] # 0
  /\ kind[w] = "toplevel" =>
       /\ deferRedraw[w] => configured[w]
       /\ Live(w) /\ configured[w] /\ ~acked[w] => ackDue = w

ControlInv == CallbackInv /\ \A w \in Window : WindowInv(w)

\* A toplevel that presents in its draw callbacks has one source of draw events
\* at a time: the enabled defer or the frame callback.  A draw callback finds
\* the defer disabled and leaves, once it presented, a frame callback; the
\* redraw flag is only ever set where something will look at it (win_refresh,
\* refresh_cb, win_frame_done).
OneSource ==
  \A w \in Window :
    /\ deferRedraw[w] => frame[w] = "none"
    /\ cb.fn = "draw" /\ cb.win = w /\ Live(w) =>
         IF cb.presented THEN frame[w] # "none" ELSE ~deferRedraw[w]
    /\ redraw[w] /\ Live(w) /\ show[w] => Pending(w)

\* With nothing left in flight, the state swa believes a toplevel to be in is
\* the compositor's, or minimized, which the compositor never reports
\* (win_set_state assumes the state, toplevel_configure corrects it).
StateAgrees ==
  \A w \in Window :
    Live(w) /\ kind[w] = "toplevel" /\ acked[w] /\ Idle /\ wire[w] = <<>> /\ reqs[w] = <<>>
      => state[w] \in {comp[w], "minimized"}

\* "For newly created windows, this will be emitted only when the initial state
\* chosen by the system is different than the state passed in settings."
InitialStateQuiet ==
  cb.fn = "state" /\ ~acked[cb.win] => state[cb.win] # want[cb.win]

\* "Calling this function will not emit a state event": when the compositor
\* only ever grants what is asked, no state event follows the first configure.
SetStateQuiet == cb.fn = "state" => ~acked[cb.win]
=============================================================================

--------------------------- MODULE AndroidActivity ---------------------------
(***************************************************************************)
(* The two threads of the Android backend (src/swa/android.c): the         *)
(* activity's thread, on which the system calls the activity_on* callbacks,*)
(* and the main thread, which runs the application's main and dispatches.  *)
(* They share struct activity and the event queue of the display.  The     *)
(* activity's thread lends its native window and input queue to the main   *)
(* thread, and takes them back by pushing an event and waiting until it    *)
(* was handled.                                                            *)
(*                                                                         *)
(* A section under activity->mutex is one step, except where it reads or   *)
(* writes what the other thread accesses without the mutex, or waits.      *)
(* Unlocked accesses are steps of their own; memory is taken to be         *)
(* sequentially consistent.                                                *)
(***************************************************************************)
EXTENDS Integers, Sequences, FiniteSets

CONSTANTS
  NativeWindow, \* native windows the system may create, each once
  NoNative,     \* the null ANativeWindow
  Queue,        \* input queues the system may create, each once
  NoQueue,      \* the null AInputQueue
  Window,       \* swa windows the application may create, each once
  NoWindow,     \* the null swa_window
  Habits,       \* how the application and the system may behave, sets of:
                \*   "quits"  it may leave before the activity is destroyed
                \*   "late"   it creates windows after its first dispatch, too
                \*   "closes" it destroys windows while it still dispatches
                \*   "early"  the system takes native windows back before the
                \*            application has its display
                \*   "fails"  create_surface may fail
                \*   "holds"  the application keeps a buffer after its draw callback
  MaxEvents,    \* bound on the queue for the events nobody waits for
  MaxPosted     \* bound on the frame callbacks posted, per window

ASSUME NullAssumption ==
  NoNative \notin NativeWindow /\ NoQueue \notin Queue /\ NoWindow \notin Window
ASSUME EnvironmentAssumption ==
  Habits \subseteq SUBSET {"quits", "late", "closes", "early", "fails", "holds"}
ASSUME BoundAssumption == MaxEvents \in Nat /\ MaxPosted \in Nat

VARIABLES
  habits,       \* how this run's application and system behave
  \* struct activity
  window,       \* the native window
  inputQueue,
  destroyed,
  dpy,          \* the display exists: activity->dpy is not null
  \* the activity's thread
  ui,           \* where it is, and the callback it is in
  done,         \* the flag on its stack that the event it waits for sets
  \* what the system has created and not taken back yet
  lent,         \* a native window
  lentQueue,    \* an input queue
  fresh,        \* the native windows and queues it has not created yet
  \* struct swa_display_android
  events,
  dpyWindow,    \* dpy->window
  woken,        \* ALooper_wake was called since the looper last returned
  attached,     \* the input queue whose fd the looper polls
  \* the main thread
  pc,
  block,        \* the argument of swa_display_dispatch
  handling,     \* the event popped from the queue
  cb,           \* the listener callback being run
  \* struct swa_window_android
  status,       \* "unborn", "live" or "freed"
  valid,        \* it has a surface
  surface,      \* the native window its surface was last created for
  active,       \* buffer.active: the native window locked for it, or NoNative
  redraw,
  initialEvents,
  posted,       \* frame callbacks the choreographer holds for it
  making        \* the window display_create_window is about to make a surface for

activityVars == <<habits, window, inputQueue, destroyed>>
systemVars == <<lent, lentQueue, fresh>>
queueVars == <<events, woken>>
winVars == <<dpyWindow, status, valid, surface, active, redraw, initialEvents, posted,
             making>>
vars == <<activityVars, dpy, ui, done, systemVars, queueVars, attached, pc, block,
          handling, cb, winVars>>

-----------------------------------------------------------------------------
\* The events of the activity's thread; an input queue is passed along.
EventType == {"win_created", "win_destroyed", "queue_created", "queue_destroyed",
              "focus", "draw", "resize"}
Event == [type : EventType, queue : Queue \cup {NoQueue}, wait : BOOLEAN]

Ev(type) == [type |-> type, queue |-> NoQueue, wait |-> FALSE]
WaitEv(type, q) == [type |-> type, queue |-> q, wait |-> TRUE]
NoEvent == Ev("focus")

Call(fn, w) == [fn |-> fn, win |-> w]
NoCb == Call("none", NoWindow)
Callback == [fn : {"none", "draw", "resize", "focus", "created", "destroyed", "input"},
             win : Window \cup {NoWindow}]

UiAt == {"idle", "waiting", "clearing", "destroying", "waking", "joining", "gone"}
UiIn == {"none", "win_destroyed", "queue_created", "queue_destroyed", "destroy"}
Ui(at, in) == [at |-> at, in |-> in]

Pc == {"none", "start", "creating", "attaching", "comparing", "fresh", "app", "initial",
       "sizing", "drain", "handle", "handled", "poll", "return", "left", "freeing",
       "finished", "crashed"}

TypeOK ==
  /\ habits \in Habits
  /\ window \in NativeWindow \cup {NoNative}
  /\ inputQueue \in Queue \cup {NoQueue}
  /\ destroyed \in BOOLEAN
  /\ dpy \in BOOLEAN
  /\ ui \in [at : UiAt, in : UiIn]
  /\ done \in BOOLEAN
  /\ lent \in NativeWindow \cup {NoNative}
  /\ lentQueue \in Queue \cup {NoQueue}
  /\ fresh \subseteq NativeWindow \cup Queue
  /\ events \in Seq(Event)
  /\ dpyWindow \in Window \cup {NoWindow}
  /\ woken \in BOOLEAN
  /\ attached \in Queue \cup {NoQueue}
  /\ pc \in Pc
  /\ block \in BOOLEAN
  /\ handling \in Event
  /\ making \in Window \cup {NoWindow}
  /\ cb \in Callback
  /\ status \in [Window -> {"unborn", "live", "freed"}]
  /\ valid \in [Window -> BOOLEAN]
  /\ surface \in [Window -> NativeWindow \cup {NoNative}]
  /\ active \in [Window -> NativeWindow \cup {NoNative}]
  /\ redraw \in [Window -> BOOLEAN]
  /\ initialEvents \in [Window -> BOOLEAN]
  /\ posted \in [Window -> Nat]

\* ANativeActivity_onCreate
Init ==
  /\ habits \in Habits
  /\ window = NoNative /\ inputQueue = NoQueue /\ destroyed = FALSE /\ dpy = FALSE
  /\ ui = Ui("idle", "none") /\ done = FALSE
  /\ lent = NoNative /\ lentQueue = NoQueue /\ fresh = NativeWindow \cup Queue
  /\ events = <<>> /\ dpyWindow = NoWindow /\ woken = FALSE /\ attached = NoQueue
  /\ pc = "none" /\ block = FALSE /\ handling = NoEvent /\ cb = NoCb
  /\ making = NoWindow
  /\ status = [w \in Window |-> "unborn"]
  /\ valid = [w \in Window |-> FALSE]
  /\ surface = [w \in Window |-> NoNative]
  /\ active = [w \in Window |-> NoNative]
  /\ redraw = [w \in Window |-> FALSE]
  /\ initialEvents = [w \in Window |-> FALSE]
  /\ posted = [w \in Window |-> 0]

-----------------------------------------------------------------------------
(* The activity's thread *)

\* Mutant: the main thread is not woken for the event.
PushUnwoken(ev) ==
  IF dpy THEN events' = Append(events, ev) /\ UNCHANGED woken
         ELSE UNCHANGED queueVars

\* push_event_locked, push_event and push_event_wait_locked: without a display
\* the event is dropped.
Push(ev) ==
  IF dpy THEN events' = Append(events, ev) /\ woken' = TRUE
         ELSE UNCHANGED queueVars

\* push_event_wait_locked, then back to the system or on with the callback in
PushWait(type, q, in) ==
  /\ Push(WaitEv(type, q))
  /\ done' = FALSE
  /\ ui' = IF dpy THEN Ui("waiting", in) ELSE Ui("idle", "none")

\* The process has not used a null native window or queue.
Running == pc # "crashed"

\* The system calls one callback at a time, and none after onDestroy.
UiIdle == ui.at = "idle" /\ Running

\* activity_onNativeWindowCreated; the first starts the main thread
WindowCreated(n) ==
  /\ UiIdle /\ lent = NoNative /\ n \in fresh
  /\ lent' = n /\ fresh' = fresh \ {n}
  /\ window' = n
  /\ Push(Ev("win_created"))
  /\ pc' = IF ~dpy /\ pc = "none" THEN "start" ELSE pc
  /\ UNCHANGED <<habits, inputQueue, destroyed, dpy, ui, done, lentQueue, attached, block,
                 handling, cb, winVars>>

\* activity_onWindowFocusChanged, activity_onNativeWindowResized and
\* activity_onNativeWindowRedrawNeeded
Notify(type) ==
  /\ UiIdle
  /\ type # "focus" => lent # NoNative
  /\ Len(events) < MaxEvents
  /\ Push(Ev(type))
  /\ UNCHANGED <<activityVars, dpy, ui, done, systemVars, attached, pc, block,
                 handling, cb, winVars>>

\* activity_onNativeWindowDestroyed, up to the wait.  Without a display it goes
\* on at once, with the mutex still held.
WindowDestroyed ==
  /\ UiIdle /\ lent # NoNative
  /\ "early" \in habits \/ pc \notin {"none", "start"}
  /\ Push(WaitEv("win_destroyed", NoQueue))
  /\ done' = FALSE
  /\ ui' = Ui(IF dpy THEN "waiting" ELSE "clearing", "win_destroyed")
  /\ UNCHANGED <<activityVars, dpy, systemVars, attached, pc, block, handling, cb,
                 winVars>>

\* activity_onInputQueueCreated
QueueCreated(q) ==
  /\ UiIdle /\ lentQueue = NoQueue /\ q \in fresh
  /\ lentQueue' = q /\ fresh' = fresh \ {q}
  /\ inputQueue' = q
  /\ PushWait("queue_created", q, "queue_created")
  /\ UNCHANGED <<habits, window, destroyed, dpy, lent, attached, pc, block, handling, cb,
                 winVars>>

\* activity_onInputQueueDestroyed; the queue is the system's again on return
QueueDestroyed ==
  /\ UiIdle /\ lentQueue # NoQueue
  /\ inputQueue' = NoQueue
  /\ PushWait("queue_destroyed", lentQueue, "queue_destroyed")
  /\ lentQueue' = IF dpy THEN lentQueue ELSE NoQueue
  /\ UNCHANGED <<habits, window, destroyed, dpy, lent, fresh, attached, pc, block, handling,
                 cb, winVars>>

\* The mutex is held between two steps only here.
Locked == ui.at = "clearing"

\* Mutant: the activity's thread takes the window back without its event handled.
UiReturnsEarly ==
  /\ ui.at \in {"waiting", "clearing"}
  /\ IF ui.in = "win_destroyed"
       THEN window' = NoNative /\ lent' = NoNative
       ELSE UNCHANGED <<window, lent>>
  /\ lentQueue' = IF ui.in = "queue_destroyed" THEN NoQueue ELSE lentQueue
  /\ ui' = Ui("idle", "none")
  /\ UNCHANGED <<habits, inputQueue, destroyed, dpy, done, fresh, queueVars, attached, pc,
                 block, handling, cb, winVars>>

\* pthread_cond_wait returns with the event handled, and the callback ends; what
\* the system had lent is its own again.
UiReturns ==
  /\ (ui.at = "waiting" /\ done) \/ ui.at = "clearing"
  /\ Running
  /\ IF ui.in = "win_destroyed"
       THEN window' = NoNative /\ lent' = NoNative
       ELSE UNCHANGED <<window, lent>>
  /\ lentQueue' = IF ui.in = "queue_destroyed" THEN NoQueue ELSE lentQueue
  /\ ui' = Ui("idle", "none")
  /\ UNCHANGED <<habits, inputQueue, destroyed, dpy, done, fresh, queueVars, attached, pc,
                 block, handling, cb, winVars>>

\* activity_onDestroy; the system has taken back the window and the queue
\* before.  Whether there is a display to wake is read without the mutex.
Destroy ==
  /\ UiIdle /\ lent = NoNative /\ lentQueue = NoQueue
  /\ destroyed' = TRUE
  /\ ui' = Ui("destroying", "destroy")
  /\ UNCHANGED <<habits, window, inputQueue, dpy, done, systemVars, queueVars, attached, pc,
                 block, handling, cb, winVars>>

DestroyReads ==
  /\ ui.at = "destroying" /\ Running
  /\ ui' = Ui(IF dpy THEN "waking" ELSE "joining", "destroy")
  /\ UNCHANGED <<activityVars, dpy, done, systemVars, queueVars, attached, pc, block,
                 handling, cb, winVars>>

DestroyWakes ==
  /\ ui.at = "waking" /\ Running
  /\ woken' = TRUE
  /\ ui' = Ui("joining", "destroy")
  /\ UNCHANGED <<activityVars, dpy, done, systemVars, events, attached, pc, block,
                 handling, cb, winVars>>

\* pthread_join, where the main thread was started; the activity is freed.
DestroyJoins ==
  /\ ui.at = "joining" /\ pc \in {"none", "finished"}
  /\ ui' = Ui("gone", "destroy")
  /\ UNCHANGED <<activityVars, dpy, done, systemVars, queueVars, attached, pc, block,
                 handling, cb, winVars>>

-----------------------------------------------------------------------------
(* The main thread: the application's calls *)

\* The program uses a null pointer it has read without the mutex, and is gone.
Crash == pc' = "crashed" /\ cb' = NoCb

\* swa_display_android_create: the display is published, without the mutex,
\* before the input queue is read.
DisplayCreate ==
  /\ pc = "start"
  /\ dpy' = TRUE
  /\ pc' = "creating"
  /\ UNCHANGED <<activityVars, ui, done, systemVars, queueVars, attached, block,
                 handling, cb, winVars>>

\* Mutant: the queue announced before there was a display is forgotten.
CreateForgets ==
  /\ pc = "creating"
  /\ pc' = "fresh"
  /\ UNCHANGED <<activityVars, dpy, ui, done, systemVars, queueVars, attached, block,
                 handling, cb, winVars>>

\* activity->input_queue is read three times: whether there is one ...
CreateReads ==
  /\ pc = "creating"
  /\ pc' = IF inputQueue = NoQueue THEN "fresh" ELSE "attaching"
  /\ UNCHANGED <<activityVars, dpy, ui, done, systemVars, queueVars, attached, block,
                 handling, cb, winVars>>

\* ... which it is ...
CreateAttach ==
  /\ pc = "attaching"
  /\ attached' = inputQueue
  /\ pc' = "comparing"
  /\ UNCHANGED <<activityVars, dpy, ui, done, systemVars, queueVars, block, handling,
                 cb, winVars>>

\* ... and in the assertion of init_input_queue, which then attaches the queue;
\* nobody polls it before.
CreateCompares ==
  /\ pc = "comparing"
  /\ IF attached = NoQueue THEN Crash ELSE pc' = "fresh" /\ UNCHANGED cb
  /\ UNCHANGED <<activityVars, dpy, ui, done, systemVars, queueVars, attached, block,
                 handling, winVars>>

\* The application runs between two dispatches or in a callback.
AppRuns == (cb # NoCb \/ pc \in {"fresh", "app"}) /\ making = NoWindow

Live(w) == status[w] = "live"

\* create_surface returns
Outcomes == IF "fails" \in habits THEN BOOLEAN ELSE {TRUE}

\* display_create_window, up to the question whether there is a native window,
\* which is asked without the mutex
CreateWindow(w) ==
  /\ AppRuns
  /\ pc = "fresh" \/ "late" \in habits
  /\ dpyWindow = NoWindow /\ status[w] = "unborn"
  /\ IF window = NoNative
       THEN /\ status' = [status EXCEPT ![w] = "live"]
            /\ dpyWindow' = w
            /\ initialEvents' = [initialEvents EXCEPT ![w] = TRUE]
            /\ UNCHANGED making
       ELSE making' = w /\ UNCHANGED <<status, dpyWindow, initialEvents>>
  /\ UNCHANGED <<activityVars, dpy, ui, done, systemVars, queueVars, attached, pc,
                 block, handling, cb, valid, surface, active, redraw, posted>>

\* The native window is read again for create_surface.  A failure destroys the
\* window.
MakeSurface(w, ok) ==
  /\ making = w
  /\ ok \in Outcomes
  /\ making' = NoWindow
  /\ IF window = NoNative
       THEN Crash /\ UNCHANGED <<status, dpyWindow, valid, surface, initialEvents>>
       ELSE /\ status' = [status EXCEPT ![w] = IF ok THEN "live" ELSE "freed"]
            /\ dpyWindow' = IF ok THEN w ELSE NoWindow
            /\ valid' = [valid EXCEPT ![w] = ok]
            /\ surface' = [surface EXCEPT ![w] = IF ok THEN window ELSE @]
            /\ initialEvents' = [initialEvents EXCEPT ![w] = TRUE]
            /\ UNCHANGED <<pc, cb>>
  /\ UNCHANGED <<activityVars, dpy, ui, done, systemVars, queueVars, attached, block,
                 handling, active, redraw, posted>>

\* win_destroy
DestroyWindow(w) ==
  /\ pc = "left" \/ (AppRuns /\ "closes" \in habits)
  /\ Live(w)
  /\ status' = [status EXCEPT ![w] = "freed"]
  /\ valid' = [valid EXCEPT ![w] = FALSE]
  /\ dpyWindow' = NoWindow
  /\ UNCHANGED <<activityVars, dpy, ui, done, systemVars, queueVars, attached, pc,
                 block, handling, cb, surface, active, redraw, initialEvents, posted, making>>

\* win_refresh
Refresh(w) ==
  /\ AppRuns /\ Live(w)
  /\ redraw' = [redraw EXCEPT ![w] = TRUE]
  /\ UNCHANGED <<activityVars, dpy, ui, done, systemVars, queueVars, attached, pc,
                 block, handling, cb, dpyWindow, status, valid, surface, active,
                 initialEvents, posted, making>>

\* win_surface_frame: the choreographer will call back.
Frame(w) ==
  /\ posted[w] < MaxPosted
  /\ posted' = [posted EXCEPT ![w] = @ + 1]

\* win_surface_frame, by itself or from win_gl_swap_buffers; a window with a
\* buffer has room left for the frame that posts it.
SurfaceFrame(w) ==
  /\ AppRuns /\ Live(w) /\ valid[w] /\ active[w] = NoNative
  /\ Frame(w)
  /\ UNCHANGED <<activityVars, dpy, ui, done, systemVars, queueVars, attached, pc,
                 block, handling, cb, dpyWindow, status, valid, surface, active,
                 redraw, initialEvents, making>>

\* Where the application draws: in the draw callback, or anywhere.
Drawing(w) == cb = Call("draw", w) \/ (AppRuns /\ "holds" \in habits)

\* win_get_buffer locks the activity's native window, read without the mutex.
GetBuffer(w) ==
  /\ Drawing(w) /\ Live(w)
  /\ active[w] = NoNative /\ valid[w]
  /\ posted[w] < MaxPosted
  /\ active' = [active EXCEPT ![w] = window]
  /\ UNCHANGED <<activityVars, dpy, ui, done, systemVars, queueVars, attached, pc,
                 block, handling, cb, dpyWindow, status, valid, surface, redraw,
                 initialEvents, posted, making>>

\* win_apply_buffer posts what the application has drawn.
ApplyBuffer(w) ==
  /\ Drawing(w) /\ Live(w)
  /\ active[w] # NoNative /\ valid[w]
  /\ active' = [active EXCEPT ![w] = NoNative]
  /\ Frame(w)
  /\ UNCHANGED <<activityVars, dpy, ui, done, systemVars, queueVars, attached, pc,
                 block, handling, cb, dpyWindow, status, valid, surface, redraw,
                 initialEvents, making>>

\* The application returns from its callback, with its buffer applied.
Return ==
  /\ cb # NoCb /\ making = NoWindow
  /\ cb.fn = "draw" /\ "holds" \notin habits =>
       active[cb.win] = NoNative \/ ~Live(cb.win)
  /\ cb' = NoCb
  /\ UNCHANGED <<activityVars, dpy, ui, done, systemVars, queueVars, attached, pc,
                 block, handling, winVars>>

\* display_wakeup, called by some thread of the application
Wakeup ==
  /\ pc \notin {"none", "start", "creating", "attaching", "comparing", "freeing", "finished",
                "crashed"}
  /\ woken' = TRUE
  /\ UNCHANGED <<activityVars, dpy, ui, done, systemVars, events, attached, pc,
                 block, handling, cb, winVars>>

\* The application leaves its loop by itself.
Quit ==
  /\ "quits" \in habits /\ AppRuns /\ cb = NoCb
  /\ pc' = "left"
  /\ UNCHANGED <<activityVars, dpy, ui, done, systemVars, queueVars, attached, block,
                 handling, cb, winVars>>

\* display_destroy, without the mutex: the queue is freed, and the events in it.
\* Until the display is forgotten, the activity's thread pushes to freed memory,
\* where its events may still be found; nobody handles them.
DisplayDestroy ==
  /\ pc = "left" /\ dpyWindow = NoWindow
  /\ events' = <<>>
  /\ pc' = "freeing"
  /\ UNCHANGED <<activityVars, dpy, ui, done, systemVars, woken, attached, block, handling,
                 cb, winVars>>

\* activity->dpy is reset, and the display freed; a push that overlaps this is
\* not told from one before.  main returns.
DisplayGone ==
  /\ pc = "freeing"
  /\ dpy' = FALSE
  /\ events' = <<>>
  /\ pc' = "finished"
  /\ UNCHANGED <<activityVars, ui, done, systemVars, woken, attached, block, handling,
                 cb, winVars>>

-----------------------------------------------------------------------------
(* The main thread: display_dispatch *)

\* It enters, and leaves at once when the activity is destroyed.
Dispatch(blocking) ==
  /\ AppRuns /\ cb = NoCb /\ ~Locked
  /\ pc' = IF destroyed THEN "left" ELSE "initial"
  /\ block' = blocking
  /\ UNCHANGED <<activityVars, dpy, ui, done, systemVars, queueVars, attached,
                 handling, cb, winVars>>

\* The first size of a window, once there is a native window, which is read
\* without the mutex ...
InitialEvents ==
  /\ pc = "initial"
  /\ IF dpyWindow # NoWindow /\ window # NoNative /\ initialEvents[dpyWindow]
       THEN pc' = "sizing" /\ initialEvents' = [initialEvents EXCEPT ![dpyWindow] = FALSE]
       ELSE pc' = "drain" /\ UNCHANGED initialEvents
  /\ UNCHANGED <<activityVars, dpy, ui, done, systemVars, queueVars, attached, block,
                 handling, cb, dpyWindow, status, valid, surface, active, redraw, posted,
                 making>>

\* ... and read again to be asked for its size.
InitialSize ==
  /\ pc = "sizing"
  /\ IF window = NoNative THEN Crash ELSE pc' = "drain" /\ cb' = Call("resize", dpyWindow)
  /\ UNCHANGED <<activityVars, dpy, ui, done, systemVars, queueVars, attached, block,
                 handling, winVars>>

\* With the mutex held: the next event is popped, or the looper polled.
NextEvent ==
  IF events = <<>>
    THEN pc' = "poll" /\ handling' = NoEvent /\ UNCHANGED events
    ELSE pc' = "handle" /\ handling' = Head(events) /\ events' = Tail(events)

Drain ==
  /\ pc = "drain" /\ cb = NoCb /\ ~Locked
  /\ NextEvent
  /\ UNCHANGED <<activityVars, dpy, ui, done, systemVars, woken, attached, block, cb,
                 winVars>>

\* The listener of the display's window, if there is one
Tell(fn) == cb' = IF dpyWindow = NoWindow THEN NoCb ELSE Call(fn, dpyWindow)

\* handle_event, up to the listener's callback
HandleNotify(type, fn) ==
  /\ pc = "handle" /\ handling.type = type
  /\ pc' = "handled"
  /\ Tell(fn)
  /\ UNCHANGED <<activityVars, dpy, ui, done, systemVars, queueVars, attached, block,
                 handling, winVars>>

HandleWindowCreated(ok) ==
  /\ pc = "handle" /\ handling.type = "win_created"
  /\ pc' = "handled"
  /\ ok \in Outcomes
  /\ IF dpyWindow # NoWindow /\ ~valid[dpyWindow] /\ ok
       THEN /\ valid' = [valid EXCEPT ![dpyWindow] = TRUE]
            /\ surface' = [surface EXCEPT ![dpyWindow] = window]
            /\ cb' = Call("created", dpyWindow)
       ELSE UNCHANGED <<valid, surface, cb>>
  /\ UNCHANGED <<activityVars, dpy, ui, done, systemVars, queueVars, attached, block,
                 handling, dpyWindow, status, active, redraw, initialEvents, posted, making>>

HandleWindowDestroyed ==
  /\ pc = "handle" /\ handling.type = "win_destroyed"
  /\ pc' = "handled"
  /\ IF dpyWindow # NoWindow /\ valid[dpyWindow]
       THEN /\ valid' = [valid EXCEPT ![dpyWindow] = FALSE]
            /\ cb' = Call("destroyed", dpyWindow)
       ELSE UNCHANGED <<valid, cb>>
  /\ UNCHANGED <<activityVars, dpy, ui, done, systemVars, queueVars, attached, block,
                 handling, dpyWindow, status, surface, active, redraw, initialEvents,
                 posted, making>>

HandleQueue ==
  /\ pc = "handle" /\ handling.type \in {"queue_created", "queue_destroyed"}
  /\ pc' = "handled"
  /\ attached' = IF handling.type = "queue_created" THEN handling.queue ELSE NoQueue
  /\ UNCHANGED <<activityVars, dpy, ui, done, systemVars, queueVars, block, handling,
                 cb, winVars>>

\* Mutant: without a window the loop skips the event, and whoever waits for it
\* is not told.
HandledSkipped ==
  /\ pc = "handled" /\ cb = NoCb /\ ~Locked
  /\ done' = (done \/ (handling.wait /\ dpyWindow # NoWindow))
  /\ NextEvent
  /\ UNCHANGED <<activityVars, dpy, ui, systemVars, woken, attached, block, cb,
                 winVars>>

\* The event was handled: whoever waits for it is told, and the loop goes on
\* without giving up the mutex.
Handled ==
  /\ pc = "handled" /\ cb = NoCb /\ ~Locked
  /\ done' = (done \/ handling.wait)
  /\ NextEvent
  /\ UNCHANGED <<activityVars, dpy, ui, systemVars, woken, attached, block, cb,
                 winVars>>

\* ALooper_pollAll polls again after it has run callbacks, and takes a wake that
\* came before it had polled along with them.
WakeMayGo == woken' \in {woken, FALSE} /\ UNCHANGED events

\* Mutant: the frame callback does not ask whether the surface is valid.
FrameCallbackInvalid(w) ==
  /\ pc = "poll" /\ cb = NoCb /\ posted[w] > 0
  /\ posted' = [posted EXCEPT ![w] = @ - 1]
  /\ WakeMayGo
  /\ redraw' = [redraw EXCEPT ![w] = FALSE]
  /\ cb' = IF redraw[w] THEN Call("draw", w) ELSE NoCb
  /\ UNCHANGED <<activityVars, dpy, ui, done, systemVars, attached, pc,
                 block, handling, dpyWindow, status, valid, surface, active,
                 initialEvents, making>>

\* The looper runs frame_callback64.  A freed window still has its callbacks,
\* and what is read from it may be anything.
FrameCallback(w) ==
  /\ pc = "poll" /\ cb = NoCb /\ posted[w] > 0
  /\ posted' = [posted EXCEPT ![w] = @ - 1]
  /\ WakeMayGo
  /\ IF Live(w)
       THEN /\ redraw' = [redraw EXCEPT ![w] = FALSE]
            /\ cb' = IF redraw[w] /\ valid[w] THEN Call("draw", w) ELSE NoCb
       ELSE cb' \in {NoCb, Call("draw", w)} /\ UNCHANGED redraw
  /\ UNCHANGED <<activityVars, dpy, ui, done, systemVars, attached, pc,
                 block, handling, dpyWindow, status, valid, surface, active,
                 initialEvents, making>>

\* The looper runs input_queue_readable, which takes the queue from the activity
\* and tells the window, if there is one, of what is in it.
InputReadable ==
  /\ pc = "poll" /\ cb = NoCb /\ attached # NoQueue
  /\ WakeMayGo
  /\ IF inputQueue = NoQueue
       THEN Crash
       ELSE /\ cb' = IF dpyWindow = NoWindow THEN NoCb ELSE Call("input", dpyWindow)
            /\ UNCHANGED pc
  /\ UNCHANGED <<activityVars, dpy, ui, done, systemVars, attached, block, handling,
                 winVars>>

\* ALooper_pollAll returns when it finds a wake and no callback to run, or at once
\* when it need not block.
PollReturns ==
  /\ pc = "poll" /\ cb = NoCb
  /\ woken \/ ~block
  /\ woken' = FALSE
  /\ pc' = "return"
  /\ UNCHANGED <<activityVars, dpy, ui, done, systemVars, events, attached, block,
                 handling, cb, winVars>>

\* is_destroyed decides what display_dispatch returns, and a careful application
\* leaves when told to.
DispatchReturns ==
  /\ pc = "return" /\ ~Locked
  /\ pc' = IF destroyed THEN "left" ELSE "app"
  /\ UNCHANGED <<activityVars, dpy, ui, done, systemVars, queueVars, attached, block,
                 handling, cb, winVars>>

-----------------------------------------------------------------------------
System ==
  \/ \E n \in NativeWindow : WindowCreated(n)
  \/ \E type \in {"focus", "draw", "resize"} : Notify(type)
  \/ WindowDestroyed
  \/ \E q \in Queue : QueueCreated(q)
  \/ QueueDestroyed
  \/ Destroy

Activity == UiReturns \/ DestroyReads \/ DestroyWakes \/ DestroyJoins

Application ==
  \/ DisplayCreate \/ CreateReads \/ CreateAttach \/ CreateCompares
  \/ Return \/ Wakeup \/ Quit \/ DisplayDestroy \/ DisplayGone
  \/ \E w \in Window :
       \/ CreateWindow(w) \/ DestroyWindow(w) \/ Refresh(w)
       \/ SurfaceFrame(w) \/ GetBuffer(w) \/ ApplyBuffer(w)
       \/ \E ok \in BOOLEAN : MakeSurface(w, ok)
  \/ \E blocking \in BOOLEAN : Dispatch(blocking)

HandleEvent ==
  \/ \E type \in {"focus", "draw", "resize"} : HandleNotify(type, type)
  \/ \E ok \in BOOLEAN : HandleWindowCreated(ok)
  \/ HandleWindowDestroyed \/ HandleQueue

Main ==
  \/ InitialEvents \/ InitialSize \/ Drain \/ HandleEvent \/ Handled
  \/ \E w \in Window : FrameCallback(w)
  \/ InputReadable \/ PollReturns \/ DispatchReturns

\* The activity is gone, or the process: nothing is left to happen.
Terminated == (ui.at = "gone" \/ ~Running) /\ UNCHANGED vars

Next == System \/ Activity \/ Application \/ Main \/ Terminated

Spec == Init /\ [][Next]_vars

\* Each thread runs, and the application applies the buffers it takes, returns
\* from its callbacks, keeps dispatching and, told to leave, destroys its window
\* and its display.  ALooper_pollAll returns if there is a reason to again and
\* again: callbacks do not keep it for ever.  Nothing is asked of the system or of
\* the application beyond that, and no wake is kept that a callback takes along.
Fairness ==
  /\ WF_vars(UiReturns) /\ WF_vars(DestroyReads) /\ WF_vars(DestroyWakes)
  /\ WF_vars(DestroyJoins)
  /\ WF_vars(DisplayCreate) /\ WF_vars(CreateReads) /\ WF_vars(CreateAttach)
  /\ WF_vars(CreateCompares) /\ WF_vars(Return)
  /\ WF_vars(\E blocking \in BOOLEAN : Dispatch(blocking))
  /\ WF_vars(InitialEvents) /\ WF_vars(InitialSize) /\ WF_vars(Drain)
  /\ WF_vars(HandleEvent) /\ WF_vars(Handled)
  /\ SF_vars(PollReturns) /\ WF_vars(DispatchReturns)
  /\ WF_vars(DisplayDestroy) /\ WF_vars(DisplayGone)
  /\ \A w \in Window :
       /\ SF_vars(FrameCallback(w)) /\ WF_vars(ApplyBuffer(w))
       /\ WF_vars(\E ok \in BOOLEAN : MakeSurface(w, ok))
       /\ WF_vars(pc = "left" /\ DestroyWindow(w))

FairSpec == Spec /\ Fairness

-----------------------------------------------------------------------------
(* Properties *)

\* The main thread is blocked in the looper, with no wake to come, while there is
\* an event to handle or the activity's thread waits for it to end.
Asleep == pc = "poll" /\ block /\ (events # <<>> \/ ui.at = "joining") /\ ~woken

\* Only the looper puts the main thread to sleep over its work, by taking a wake
\* along with a callback while it polls: no order of pushes, of activity_onDestroy
\* and of the unlocked gap between the last look at the queue and ALooper_pollAll
\* does (push_event and activity_onDestroy wake, 1360, 1385, 1433).
NoSleep == [][~Asleep /\ Asleep' => woken /\ pc = "poll" /\ UNCHANGED <<events, ui>>]_vars

\* "If 'block' is true and no event is currently available, will block", and no
\* thread polls over an event without a wake to come.  It may: the looper that runs a
\* callback and takes the wake with it blocks over an event.
BlocksIdle == pc = "poll" /\ block /\ events # <<>> => woken

\* A window's surface is made of the native window the system lends at present,
\* and so is the buffer that is locked to draw on it: both are gone before
\* activity_onNativeWindowDestroyed returns, and destroy_surface never finds a
\* buffer still active.  A window created while the event is on its way, or after
\* it was dropped for want of a display, keeps a stale one.
SurfaceAlive ==
  habits \cap {"early", "late", "holds"} = {} =>
  \A w \in Window : Live(w) =>
    /\ valid[w] => surface[w] = lent /\ lent # NoNative
    /\ active[w] # NoNative => valid[w] /\ active[w] = surface[w]

\* Draw events come to windows with a surface: events are handled in the order
\* the system sent them, and frame_callback64 asks.  A draw event of the system
\* does not ask, so a surface that failed is drawn on, and a window closed with
\* frame callbacks posted is called after it was freed.
DrawOnSurface ==
  habits \cap {"closes", "fails"} = {} => (cb.fn = "draw" => valid[cb.win])

\* The looper polls no queue the system has taken back, and whenever the
\* activity's thread is done, the queue it announced (input_queue is set before
\* or after the display reads it, and reset before the main thread detaches).
\* Once the application has left its loop by itself nobody detaches.
InputHandover ==
  "quits" \notin habits =>
  /\ attached # NoQueue => attached = lentQueue
  /\ UiIdle /\ dpy /\ pc \notin {"creating", "attaching"} => attached = inputQueue

\* Every wait of the activity's thread ends, unless the looper loses the wake for
\* it: the wait for an event it pushed (push_event_wait_locked against the loop of
\* display_dispatch), unless the application has left its loop by itself and nobody
\* handles events any more, and the wait for its main thread, which leaves because
\* of the wake-up activity_onDestroy sends or at the end of a dispatch.
WaitsEnd ==
  (ui.at = "waiting" /\ "quits" \notin habits) \/ ui.at = "joining"
    ~> ui.at \in {"idle", "gone"} \/ Asleep \/ ~Running

\* "queue == dpy->activity->input_queue": swa_display_android_create reads the
\* queue three times without the mutex.
AttachesOwn == pc = "comparing" => attached = inputQueue

\* What is read without the mutex is not null when it is used.
NoCrash == Running

\* "It must not be used after this": nobody pushes to the queue of a display
\* that is being freed.
PushesAlive == [][Len(events') > Len(events) => pc # "freeing"]_vars

\* "Not further events will be emitted" for a destroyed window.
CallbackOnLive == [][cb' # cb /\ cb' # NoCb => Live(cb'.win)]_vars

\* "It must not be used after this": the looper activity_onDestroy wakes belongs
\* to a display that still exists.
WakesDisplay == ui.at = "waking" => dpy

\* dlg_assert(awin) in win_get_buffer: a window whose surface is valid finds the
\* native window in the activity when the application draws.
BufferWindow ==
  \A w \in Window : AppRuns /\ Live(w) /\ valid[w] => window # NoNative

\* dlg_assert(q) in input_queue_readable: the looper only polls while the
\* activity has an input queue.  Not so between activity_onInputQueueDestroyed's
\* reset and the handling of its event.
ReadableQueue == pc = "poll" /\ cb = NoCb /\ attached # NoQueue => inputQueue # NoQueue

\* "Asks the backend to emit a draw event when it is a good time to redraw."
RefreshServed ==
  \A w \in Window :
    Live(w) /\ valid[w] /\ redraw[w] ~> cb = Call("draw", w) \/ ~valid[w] \/ destroyed
=============================================================================

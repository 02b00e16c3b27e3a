----------------------- MODULE AndroidActivityProofs -----------------------
(***************************************************************************)
(* Proofs about the two threads of AndroidActivity, for every set of       *)
(* windows, native windows and input queues, a queue of any length and     *)
(* all habits of the application and the system.                           *)
(***************************************************************************)
EXTENDS AndroidActivity, TLAPS

-----------------------------------------------------------------------------
(* The event queue *)

LEMMA AppendEvents ==
  ASSUME NEW S, NEW q \in Seq(S), NEW e \in S
  PROVE  /\ Append(q, e) \in Seq(S) /\ Append(q, e) # <<>>
         /\ Len(q) \in Nat /\ Len(Append(q, e)) = Len(q) + 1
         /\ DOMAIN q = 1 .. Len(q) /\ DOMAIN Append(q, e) = 1 .. Len(q) + 1
         /\ \A i \in 1 .. Len(q) : Append(q, e)[i] = q[i]
         /\ Append(q, e)[Len(q) + 1] = e
  OBVIOUS

LEMMA TailEvents ==
  ASSUME NEW S, NEW q \in Seq(S), q # <<>>
  PROVE  /\ Head(q) \in S /\ Tail(q) \in Seq(S) /\ Head(q) = q[1]
         /\ Len(q) \in Nat \ {0} /\ Len(Tail(q)) = Len(q) - 1
         /\ DOMAIN q = 1 .. Len(q) /\ DOMAIN Tail(q) = 1 .. Len(q) - 1
         /\ \A i \in 1 .. Len(q) - 1 : Tail(q)[i] = q[i + 1]
         /\ Len(q) = 1 => Tail(q) = <<>>
         /\ Len(q) > 1 => Tail(q) # <<>>
<1>1. /\ Head(q) \in S /\ Tail(q) \in Seq(S) /\ Head(q) = q[1]
      /\ Len(q) \in Nat \ {0} /\ Len(Tail(q)) = Len(q) - 1
      /\ DOMAIN q = 1 .. Len(q) /\ DOMAIN Tail(q) = 1 .. Len(q) - 1
      /\ \A i \in 1 .. Len(q) - 1 : Tail(q)[i] = q[i + 1]
  OBVIOUS
<1>2. ASSUME NEW s \in Seq(S) PROVE s = <<>> <=> Len(s) = 0
  OBVIOUS
<1>3. Tail(q) = <<>> <=> Len(Tail(q)) = 0
  BY <1>1, <1>2
<1> QED
  BY <1>1, <1>3

-----------------------------------------------------------------------------
(* Types *)

LEMMA EventTypes ==
  /\ \A type \in EventType : Ev(type) \in Event
  /\ \A type \in EventType, q \in Queue \cup {NoQueue} : WaitEv(type, q) \in Event
  /\ NoEvent \in Event
  BY DEF Ev, WaitEv, NoEvent, Event, EventType

LEMMA PushType ==
  ASSUME TypeOK, NEW ev \in Event, Push(ev)
  PROVE  events' \in Seq(Event) /\ woken' \in BOOLEAN
<1>1. events \in Seq(Event) /\ woken \in BOOLEAN
  BY DEF TypeOK
<1>2. CASE dpy
  BY <1>1, <1>2, AppendEvents DEF Push
<1>3. CASE ~dpy
  BY <1>1, <1>3 DEF Push, queueVars
<1> QED
  BY <1>2, <1>3

LEMMA NextEventType ==
  ASSUME TypeOK, NextEvent
  PROVE  /\ events' \in Seq(Event) /\ handling' \in Event /\ pc' \in {"poll", "handle"}
<1>1. events \in Seq(Event)
  BY DEF TypeOK
<1>2. CASE events = <<>>
  BY <1>1, <1>2, EventTypes DEF NextEvent
<1>3. CASE events # <<>>
  BY <1>1, <1>3, TailEvents DEF NextEvent
<1> QED
  BY <1>2, <1>3

LEMMA UiType == \A at \in UiAt, in \in UiIn : Ui(at, in) \in [at : UiAt, in : UiIn]
  BY DEF Ui

LEMMA CallType ==
  /\ NoCb \in Callback
  /\ \A fn \in {"draw", "resize", "focus", "created", "destroyed", "input"} :
       \A w \in Window \cup {NoWindow} : Call(fn, w) \in Callback
  BY DEF NoCb, Call, Callback

LEMMA TypeInit == Init => TypeOK
<1> SUFFICES ASSUME Init PROVE TypeOK
  OBVIOUS
<1>1. ui \in [at : UiAt, in : UiIn]
  BY DEF Init, Ui, UiAt, UiIn
<1>2. events \in Seq(Event) /\ pc \in Pc
  BY DEF Init, Pc
<1> QED
  BY <1>1, <1>2, EventTypes, CallType DEF Init, TypeOK

\* Windows that are created, destroyed and drawn on
LEMMA TypeWindows ==
  ASSUME TypeOK, NEW w \in Window,
         \/ DestroyWindow(w) \/ Refresh(w)
         \/ SurfaceFrame(w) \/ GetBuffer(w) \/ ApplyBuffer(w) \/ CreateWindow(w)
         \/ \E ok \in BOOLEAN : MakeSurface(w, ok)
  PROVE  TypeOK'
<1> USE DEF TypeOK, activityVars, systemVars, queueVars
<1>1. CASE DestroyWindow(w)
  BY <1>1 DEF DestroyWindow
<1>2. CASE Refresh(w)
  BY <1>2 DEF Refresh
<1>3. CASE SurfaceFrame(w)
  BY <1>3 DEF SurfaceFrame, Frame
<1>4. CASE GetBuffer(w)
  BY <1>4 DEF GetBuffer
<1>5. CASE ApplyBuffer(w)
  BY <1>5 DEF ApplyBuffer, Frame
<1>6. ASSUME NEW ok \in BOOLEAN, MakeSurface(w, ok) PROVE TypeOK'
  <2>1. /\ status' \in [Window -> {"unborn", "live", "freed"}]
        /\ dpyWindow' \in Window \cup {NoWindow} /\ valid' \in [Window -> BOOLEAN]
        /\ surface' \in [Window -> NativeWindow \cup {NoNative}]
        /\ initialEvents' \in [Window -> BOOLEAN]
    <3>1. CASE window = NoNative
      BY <1>6, <3>1 DEF MakeSurface
    <3>2. CASE window # NoNative
      <4>1. /\ status' = [status EXCEPT ![w] = IF ok THEN "live" ELSE "freed"]
            /\ dpyWindow' = IF ok THEN w ELSE NoWindow
            /\ valid' = [valid EXCEPT ![w] = ok]
            /\ surface' = [surface EXCEPT ![w] = IF ok THEN window ELSE @]
            /\ initialEvents' = [initialEvents EXCEPT ![w] = TRUE]
        BY <1>6, <3>2 DEF MakeSurface
      <4>2. surface' \in [Window -> NativeWindow \cup {NoNative}]
        BY <4>1
      <4>3. valid' \in [Window -> BOOLEAN] /\ initialEvents' \in [Window -> BOOLEAN]
        BY <4>1
      <4>4. status' \in [Window -> {"unborn", "live", "freed"}]
        BY <4>1
      <4> QED
        BY <4>1, <4>2, <4>3, <4>4
    <3> QED
      BY <3>1, <3>2
  <2>2. pc' \in Pc /\ cb' \in Callback
    BY <1>6, CallType DEF MakeSurface, Crash, Pc
  <2> QED
    BY <1>6, <2>1, <2>2 DEF MakeSurface
<1>7. CASE CreateWindow(w)
  <2>1. /\ status' \in [Window -> {"unborn", "live", "freed"}]
        /\ dpyWindow' \in Window \cup {NoWindow} /\ making' \in Window \cup {NoWindow}
        /\ initialEvents' \in [Window -> BOOLEAN]
    BY <1>7 DEF CreateWindow
  <2> QED
    BY <1>7, <2>1 DEF CreateWindow
<1> QED
  BY <1>1, <1>2, <1>3, <1>4, <1>5, <1>6, <1>7

LEMMA TypeApplication ==
  ASSUME TypeOK, Application
  PROVE  TypeOK'
<1> USE DEF TypeOK, activityVars, systemVars, queueVars, winVars
<1>1. CASE DisplayCreate \/ CreateReads \/ CreateAttach \/ CreateCompares \/ Quit
  <2>1. pc' \in Pc
    BY <1>1 DEF DisplayCreate, CreateReads, CreateAttach, CreateCompares, Crash, Quit, Pc
  <2>2. cb' \in Callback
    BY <1>1, CallType DEF DisplayCreate, CreateReads, CreateAttach, CreateCompares, Crash, Quit
  <2>3. dpy' \in BOOLEAN /\ attached' \in Queue \cup {NoQueue}
    BY <1>1 DEF DisplayCreate, CreateReads, CreateAttach, CreateCompares, Quit
  <2>4. UNCHANGED <<activityVars, ui, done, systemVars, queueVars, block, handling, winVars>>
    BY <1>1 DEF DisplayCreate, CreateReads, CreateAttach, CreateCompares, Quit
  <2> QED
    BY <2>1, <2>2, <2>3, <2>4
<1>2. CASE Return \/ Wakeup
  <2>1. cb' \in Callback /\ woken' \in BOOLEAN
    BY <1>2, CallType DEF Return, Wakeup
  <2>2. UNCHANGED <<activityVars, dpy, ui, done, systemVars, events, attached, pc, block, handling,
                    winVars>>
    BY <1>2 DEF Return, Wakeup
  <2> QED
    BY <2>1, <2>2
<1>3. CASE DisplayDestroy \/ DisplayGone
  <2>1. /\ events' = <<>> /\ pc' \in {"freeing", "finished"}
        /\ dpy' = dpy \/ dpy' = FALSE
    BY <1>3 DEF DisplayDestroy, DisplayGone
  <2>2. UNCHANGED <<activityVars, ui, done, systemVars, woken, attached, block, handling, cb,
                    winVars>>
    BY <1>3 DEF DisplayDestroy, DisplayGone
  <2>3. events' \in Seq(Event) /\ pc' \in Pc /\ dpy' \in BOOLEAN
    <3>1. dpy \in BOOLEAN
      OBVIOUS
    <3>2. dpy' \in BOOLEAN
      BY ZenonT(30), <2>1, <3>1
    <3>3. events' \in Seq(Event)
      BY <2>1
    <3>4. pc' \in Pc
      BY <2>1 DEF Pc
    <3> QED
      BY <3>2, <3>3, <3>4
  <2> QED
    BY <2>2, <2>3
<1>4. ASSUME NEW blocking \in BOOLEAN, Dispatch(blocking) PROVE TypeOK'
  BY <1>4 DEF Dispatch, Pc
<1> QED
  BY <1>1, <1>2, <1>3, <1>4, TypeWindows DEF Application

LEMMA TypeSystem ==
  ASSUME TypeOK, System \/ Activity
  PROVE  TypeOK'
<1> USE DEF TypeOK, activityVars, systemVars, queueVars, winVars
<1> DEFINE AtIn == [at : UiAt, in : UiIn]
<1>1. ASSUME NEW n \in NativeWindow, WindowCreated(n) PROVE TypeOK'
  <2>1. events' \in Seq(Event) /\ woken' \in BOOLEAN
    BY <1>1, PushType, EventTypes DEF WindowCreated, EventType
  <2> QED
    BY <1>1, <2>1 DEF WindowCreated, Pc
<1>2. ASSUME NEW type \in {"focus", "draw", "resize"}, Notify(type) PROVE TypeOK'
  <2>1. events' \in Seq(Event) /\ woken' \in BOOLEAN
    BY <1>2, PushType, EventTypes DEF Notify, EventType
  <2> QED
    BY <1>2, <2>1 DEF Notify
<1>3. CASE WindowDestroyed
  <2>1. events' \in Seq(Event) /\ woken' \in BOOLEAN
    BY <1>3, PushType, EventTypes DEF WindowDestroyed, EventType
  <2>2. ui' \in AtIn
    BY <1>3, UiType DEF WindowDestroyed, UiAt, UiIn
  <2> QED
    BY <1>3, <2>1, <2>2 DEF WindowDestroyed
<1>4. ASSUME NEW type \in {"queue_created", "queue_destroyed"}, NEW q \in Queue \cup {NoQueue},
             PushWait(type, q, type)
      PROVE  events' \in Seq(Event) /\ woken' \in BOOLEAN /\ ui' \in AtIn /\ done' \in BOOLEAN
  <2>1. events' \in Seq(Event) /\ woken' \in BOOLEAN
    BY <1>4, PushType, EventTypes DEF PushWait, EventType
  <2>2. ui' \in AtIn /\ done' \in BOOLEAN
    <3>1. type \in UiIn /\ "waiting" \in UiAt /\ "idle" \in UiAt /\ "none" \in UiIn
      BY DEF UiAt, UiIn
    <3>2. Ui("waiting", type) \in AtIn /\ Ui("idle", "none") \in AtIn
      BY <3>1, UiType
    <3> QED
      BY <1>4, <3>2 DEF PushWait
  <2> QED
    BY <2>1, <2>2
<1>5. ASSUME NEW q \in Queue, QueueCreated(q) PROVE TypeOK'
  BY <1>4, <1>5 DEF QueueCreated
<1>6. CASE QueueDestroyed
  BY <1>4, <1>6 DEF QueueDestroyed
<1>7. CASE Destroy
  BY <1>7, UiType DEF Destroy, UiAt, UiIn
<1>8. CASE UiReturns
  BY <1>8, UiType DEF UiReturns, UiAt, UiIn
<1>9. CASE DestroyReads \/ DestroyWakes \/ DestroyJoins
  <2>1. ui' \in AtIn
    BY <1>9, UiType DEF DestroyReads, DestroyWakes, DestroyJoins, UiAt, UiIn
  <2>2. woken' \in BOOLEAN
    BY <1>9 DEF DestroyReads, DestroyWakes, DestroyJoins
  <2>3. UNCHANGED <<activityVars, dpy, done, systemVars, events, attached, pc, block,
                    handling, cb, winVars>>
    BY <1>9 DEF DestroyReads, DestroyWakes, DestroyJoins
  <2> QED
    BY <2>1, <2>2, <2>3
<1> QED
  BY <1>1, <1>2, <1>3, <1>5, <1>6, <1>7, <1>8, <1>9 DEF System, Activity

LEMMA TypeMain ==
  ASSUME TypeOK, Main
  PROVE  TypeOK'
<1> USE DEF TypeOK, activityVars, systemVars, queueVars, winVars
<1>1. CASE InitialEvents \/ InitialSize
  <2>1. pc' \in Pc /\ initialEvents' \in [Window -> BOOLEAN]
    BY <1>1 DEF InitialEvents, InitialSize, Crash, Pc
  <2>2. cb' \in {cb, NoCb, Call("resize", dpyWindow)}
    BY <1>1 DEF InitialEvents, InitialSize, Crash
  <2>3. cb' \in Callback
    BY <2>2, CallType
  <2> QED
    BY <1>1, <2>1, <2>3 DEF InitialEvents, InitialSize
<1>2. CASE Drain \/ Handled
  <2>1. events' \in Seq(Event) /\ handling' \in Event /\ pc' \in {"poll", "handle"}
    BY <1>2, NextEventType DEF Drain, Handled
  <2>2. done' \in BOOLEAN
    BY <1>2 DEF Drain, Handled, Event
  <2> QED
    BY <1>2, <2>1, <2>2 DEF Drain, Handled, Pc
<1>3. ASSUME NEW type \in {"focus", "draw", "resize"}, HandleNotify(type, type) PROVE TypeOK'
  <2>1. cb' \in Callback
    BY <1>3, CallType DEF HandleNotify, Tell
  <2> QED
    BY <1>3, <2>1 DEF HandleNotify, Pc
<1>4. ASSUME NEW ok \in BOOLEAN, HandleWindowCreated(ok) PROVE TypeOK'
  <2>1. /\ cb' \in Callback /\ valid' \in [Window -> BOOLEAN]
        /\ surface' \in [Window -> NativeWindow \cup {NoNative}]
    <3>1. cb' = cb \/ cb' = Call("created", dpyWindow)
      BY <1>4 DEF HandleWindowCreated
    <3>2. cb' \in Callback
      BY <3>1, CallType
    <3> QED
      BY ZenonT(30), <1>4, <3>2 DEF HandleWindowCreated
  <2> QED
    BY <1>4, <2>1 DEF HandleWindowCreated, Pc
<1>5. CASE HandleWindowDestroyed
  <2>1. cb' \in Callback /\ valid' \in [Window -> BOOLEAN]
    <3>1. cb' = cb \/ cb' = Call("destroyed", dpyWindow)
      BY <1>5 DEF HandleWindowDestroyed
    <3>2. cb' \in Callback
      BY <3>1, CallType
    <3> QED
      BY <1>5, <3>2 DEF HandleWindowDestroyed
  <2> QED
    BY <1>5, <2>1 DEF HandleWindowDestroyed, Pc
<1>6. CASE HandleQueue
  BY <1>6 DEF HandleQueue, Pc, Event
<1>7. ASSUME NEW w \in Window, FrameCallback(w) PROVE TypeOK'
  <2>1. posted' \in [Window -> Nat] /\ woken' \in BOOLEAN /\ events' \in Seq(Event)
    <3>1. posted' = [posted EXCEPT ![w] = @ - 1] /\ posted[w] > 0 /\ posted[w] \in Nat
      BY <1>7 DEF FrameCallback
    <3>2. woken' \in {woken, FALSE} /\ events' = events
      BY <1>7 DEF FrameCallback, WakeMayGo
    <3>3. posted' \in [Window -> Nat]
      BY <3>1
    <3>4. woken' \in BOOLEAN
      BY ZenonT(30), <3>2
    <3> QED
      BY <3>2, <3>3, <3>4
  <2>2. cb' \in Callback /\ redraw' \in [Window -> BOOLEAN]
    <3>1. cb' = NoCb \/ cb' = Call("draw", w)
      BY <1>7 DEF FrameCallback
    <3>2. cb' \in Callback
      BY <3>1, CallType
    <3> QED
      BY <1>7, <3>2 DEF FrameCallback
  <2> QED
    BY <1>7, <2>1, <2>2 DEF FrameCallback
<1>8. CASE InputReadable
  <2>1. pc' \in Pc /\ woken' \in BOOLEAN /\ events' \in Seq(Event)
    BY <1>8 DEF InputReadable, WakeMayGo, Crash, Pc
  <2>2. cb' = NoCb \/ cb' = Call("input", dpyWindow)
    BY <1>8 DEF InputReadable, Crash
  <2>3. cb' \in Callback
    BY <2>2, CallType
  <2> QED
    BY <1>8, <2>1, <2>3 DEF InputReadable
<1>9. CASE PollReturns \/ DispatchReturns
  BY ZenonT(30), <1>9 DEF PollReturns, DispatchReturns, Pc
<1> QED
  BY <1>1, <1>2, <1>3, <1>4, <1>5, <1>6, <1>7, <1>8, <1>9 DEF Main, HandleEvent

LEMMA TypeStep ==
  ASSUME TypeOK, [Next]_vars
  PROVE  TypeOK'
<1>1. CASE UNCHANGED vars
  BY <1>1 DEF vars, TypeOK, activityVars, systemVars, queueVars, winVars
<1> QED
  BY <1>1, TypeApplication, TypeSystem, TypeMain DEF Next, Terminated

-----------------------------------------------------------------------------
(* Where the threads are *)

\* The events the activity's thread waits for
Waited == {"win_destroyed", "queue_created", "queue_destroyed"}

\* The display exists while the application has it, its window is the one that
\* lives, callbacks are called from display_dispatch, and activity->window is
\* the native window the system has lent.
PhaseInv ==
  /\ dpy <=> pc \notin {"none", "start", "finished"}
  /\ ~dpy => events = <<>>
  /\ pc \in {"none", "start", "creating", "attaching", "comparing", "freeing", "finished"} =>
       dpyWindow = NoWindow
  /\ \A w \in Window : Live(w) <=> dpyWindow = w
  /\ cb # NoCb => pc \in {"drain", "handled", "poll"} /\ cb.fn # "none" /\ cb.win \in Window
  /\ pc = "sizing" => dpyWindow # NoWindow
  /\ making # NoWindow =>
       (cb # NoCb \/ pc \in {"fresh", "app"}) /\ dpyWindow = NoWindow /\ status[making] = "unborn"
  /\ window = lent
  /\ destroyed <=> ui.at \in {"destroying", "waking", "joining", "gone"}
  /\ ui.at = "idle" => ui.in = "none"
  /\ ui.at = "waiting" => ui.in \in Waited
  /\ ui.at = "clearing" => ui.in = "win_destroyed"
  /\ ui.at \in {"destroying", "waking", "joining", "gone"} => ui.in = "destroy"

LEMMA PhaseInit == Init => PhaseInv
  BY NullAssumption DEF Init, PhaseInv, Live, Ui, NoCb, Call

\* An event reaches the queue of a display that exists.
LEMMA Pushed ==
  ASSUME NEW ev, Push(ev)
  PROVE  /\ dpy => events' = Append(events, ev) /\ woken' = TRUE
         /\ ~dpy => events' = events /\ woken' = woken
  BY DEF Push, queueVars

\* Where the activity's thread is after a callback of the system
LEMMA PhaseSystem ==
  ASSUME TypeOK, PhaseInv, System
  PROVE  PhaseInv'
<1> USE DEF activityVars, systemVars, queueVars, winVars
<1>1. ASSUME NEW n \in NativeWindow, WindowCreated(n) PROVE PhaseInv'
  <2>1. ~dpy => events' = events
    BY <1>1, Pushed DEF WindowCreated
  <2>2. pc' = pc \/ (pc = "none" /\ pc' = "start")
    BY <1>1 DEF WindowCreated
  <2>3. UNCHANGED <<destroyed, dpy, ui, cb, dpyWindow, status, making>> /\ window' = n /\ lent' = n
    BY <1>1 DEF WindowCreated
  <2> QED
    BY <2>1, <2>2, <2>3 DEF PhaseInv, Live
<1>2. ASSUME NEW type \in {"focus", "draw", "resize"}, Notify(type) PROVE PhaseInv'
  <2>1. ~dpy => events' = events
    BY <1>2, Pushed DEF Notify
  <2> QED
    BY <1>2, <2>1 DEF Notify, PhaseInv, Live
<1>3. CASE WindowDestroyed
  <2>1. ~dpy => events' = events
    BY <1>3, Pushed DEF WindowDestroyed
  <2>2. /\ ui.at = "idle" /\ ui'.in = "win_destroyed" /\ ui'.at \in {"waiting", "clearing"}
        /\ UNCHANGED <<destroyed, dpy, pc, cb, dpyWindow, status, making, window, lent>>
    BY <1>3 DEF WindowDestroyed, UiIdle, Ui
  <2> QED
    BY <2>1, <2>2 DEF PhaseInv, Live, Waited
<1>4. ASSUME NEW type \in {"queue_created", "queue_destroyed"}, NEW q,
             UiIdle, PushWait(type, q, type),
             UNCHANGED <<destroyed, dpy, pc, cb, dpyWindow, status, making, window, lent>>
      PROVE  PhaseInv'
  <2>1. ~dpy => events' = events
    BY <1>4, Pushed DEF PushWait
  <2>2. /\ ui.at = "idle"
        /\ \/ ui'.in = type /\ ui'.at = "waiting"
           \/ ui'.in = "none" /\ ui'.at = "idle"
    BY <1>4 DEF PushWait, UiIdle, Ui
  <2> QED
    BY <1>4, <2>1, <2>2 DEF PhaseInv, Live, Waited
<1>5. ASSUME NEW q \in Queue, QueueCreated(q) PROVE PhaseInv'
  BY <1>4, <1>5 DEF QueueCreated
<1>6. CASE QueueDestroyed
  BY <1>4, <1>6 DEF QueueDestroyed
<1>7. CASE Destroy
  BY <1>7 DEF Destroy, UiIdle, Ui, PhaseInv, Live
<1> QED
  BY <1>1, <1>2, <1>3, <1>5, <1>6, <1>7 DEF System

LEMMA PhaseActivity ==
  ASSUME PhaseInv, Activity
  PROVE  PhaseInv'
<1> USE DEF activityVars, systemVars, queueVars, winVars, PhaseInv, Live
<1>1. CASE UiReturns
  BY <1>1 DEF UiReturns, Ui
<1>2. CASE DestroyReads
  BY <1>2 DEF DestroyReads, Ui
<1>3. CASE DestroyWakes
  BY <1>3 DEF DestroyWakes, Ui
<1>4. CASE DestroyJoins
  BY <1>4 DEF DestroyJoins, Ui
<1> QED
  BY <1>1, <1>2, <1>3, <1>4 DEF Activity

\* Steps of the application that change neither the window nor the display
ApplicationStays ==
  \/ Return \/ Wakeup
  \/ \E w \in Window : Refresh(w) \/ SurfaceFrame(w) \/ GetBuffer(w) \/ ApplyBuffer(w)

LEMMA StaysSame ==
  ASSUME ApplicationStays
  PROVE  /\ UNCHANGED <<habits, window, inputQueue, destroyed, dpy, ui, done, lent, lentQueue,
                        fresh, events, attached, pc, block, handling, dpyWindow, status, valid,
                        surface, initialEvents, making>>
         /\ cb' = cb \/ (cb' = NoCb /\ making = NoWindow)
  BY DEF ApplicationStays, Return, Wakeup, Refresh, SurfaceFrame, GetBuffer, ApplyBuffer,
         activityVars, systemVars, queueVars, winVars

LEMMA PhaseApplication ==
  ASSUME TypeOK, PhaseInv, Application
  PROVE  PhaseInv'
<1> USE DEF activityVars, systemVars, queueVars, winVars
<1>1. CASE ApplicationStays
  BY <1>1, StaysSame DEF PhaseInv, Live
<1>2. CASE DisplayCreate \/ CreateReads \/ CreateAttach \/ Quit \/ \E b \in BOOLEAN : Dispatch(b)
  BY <1>2 DEF DisplayCreate, CreateReads, CreateAttach, Quit, Dispatch, AppRuns, PhaseInv, Live
<1>3. CASE CreateCompares
  BY <1>3 DEF CreateCompares, Crash, PhaseInv, Live
<1>6. CASE DisplayDestroy \/ DisplayGone
  BY <1>6 DEF DisplayDestroy, DisplayGone, PhaseInv, Live
<1>4. ASSUME NEW w \in Window, DestroyWindow(w) PROVE PhaseInv'
  <2>1. /\ status' = [status EXCEPT ![w] = "freed"] /\ dpyWindow' = NoWindow /\ Live(w)
        /\ UNCHANGED <<window, destroyed, dpy, ui, lent, events, pc, cb>>
        /\ making' = NoWindow
    BY <1>4 DEF DestroyWindow, AppRuns, PhaseInv, NoCb
  <2>2. \A v \in Window : status'[v] # "live" /\ v # NoWindow
    BY <2>1, NullAssumption DEF PhaseInv, Live, TypeOK
  <2>3. pc # "sizing"
    BY <1>4 DEF DestroyWindow, AppRuns, PhaseInv
  <2> QED
    BY <2>1, <2>2, <2>3 DEF PhaseInv, Live
<1>5. ASSUME NEW w \in Window, CreateWindow(w) PROVE PhaseInv'
  <2>1. /\ UNCHANGED <<window, destroyed, dpy, ui, lent, events, pc, cb>>
        /\ dpyWindow = NoWindow /\ status[w] = "unborn"
        /\ \/ dpyWindow' = w /\ status' = [status EXCEPT ![w] = "live"] /\ making' = making
           \/ making' = w /\ UNCHANGED <<dpyWindow, status>>
    BY <1>5 DEF CreateWindow
  <2>2. /\ cb # NoCb \/ pc \in {"fresh", "app"}
        /\ making = NoWindow
        /\ pc \notin {"none", "start", "creating", "attaching", "comparing", "freeing",
                       "finished"}
    BY <1>5 DEF CreateWindow, AppRuns, PhaseInv
  <2>3. \A v \in Window : status[v] # "live" /\ v # NoWindow
    BY <2>1, NullAssumption DEF PhaseInv, Live
  <2>4. \A v \in Window : status'[v] = "live" <=> dpyWindow' = v
    BY <2>1, <2>3 DEF TypeOK
  <2> QED
    BY <2>1, <2>2, <2>4 DEF PhaseInv, Live
<1>7. ASSUME NEW w \in Window, NEW ok \in BOOLEAN, MakeSurface(w, ok) PROVE PhaseInv'
  <2>1. /\ UNCHANGED <<window, destroyed, dpy, ui, lent, events>> /\ making' = NoWindow
        /\ \/ pc' = "crashed" /\ cb' = NoCb /\ UNCHANGED <<dpyWindow, status>>
           \/ /\ UNCHANGED <<pc, cb>>
              /\ \/ dpyWindow' = w /\ status' = [status EXCEPT ![w] = "live"]
                 \/ dpyWindow' = NoWindow /\ status' = [status EXCEPT ![w] = "freed"]
    BY <1>7 DEF MakeSurface, Crash
  <2>2. /\ dpyWindow = NoWindow /\ status[w] = "unborn"
        /\ pc \notin {"none", "start", "creating", "attaching", "comparing", "freeing",
                       "finished"}
    BY <1>7, NullAssumption DEF MakeSurface, PhaseInv
  <2>3. \A v \in Window : status[v] # "live" /\ v # NoWindow
    BY <2>2, NullAssumption DEF PhaseInv, Live
  <2>4. \A v \in Window : status'[v] = "live" <=> dpyWindow' = v
    BY <2>1, <2>2, <2>3 DEF TypeOK
  <2> QED
    BY <2>1, <2>2, <2>4 DEF PhaseInv, Live
<1> QED
  BY <1>1, <1>2, <1>3, <1>4, <1>5, <1>6, <1>7 DEF Application, ApplicationStays

\* The steps of display_dispatch go round its states.
LEMMA PhaseMain ==
  ASSUME TypeOK, PhaseInv, Main
  PROVE  PhaseInv'
<1> USE DEF activityVars, systemVars, queueVars, winVars
<1>1. UNCHANGED <<window, destroyed, dpy, ui, lent, dpyWindow, status, making>>
  BY DEF Main, HandleEvent, InitialEvents, InitialSize, Drain, HandleNotify,
         HandleWindowCreated, HandleWindowDestroyed, HandleQueue, Handled, FrameCallback,
         InputReadable, PollReturns, DispatchReturns
<1>2. /\ pc \in {"initial", "sizing", "drain", "handle", "handled", "poll", "return"}
      /\ pc' \in {"sizing", "drain", "handle", "handled", "poll", "return", "left", "app",
                   "crashed"}
  BY DEF Main, HandleEvent, InitialEvents, InitialSize, Drain, HandleNotify,
         HandleWindowCreated, HandleWindowDestroyed, HandleQueue, Handled, FrameCallback,
         InputReadable, PollReturns, DispatchReturns, NextEvent, Crash
<1>3. cb = NoCb
  BY <1>2 DEF Main, HandleEvent, InitialEvents, InitialSize, Drain, HandleNotify,
         HandleWindowCreated, HandleWindowDestroyed, HandleQueue, Handled, FrameCallback,
         InputReadable, PollReturns, DispatchReturns, PhaseInv
<1>4. making = NoWindow
  BY <1>2, <1>3 DEF PhaseInv
<1>5. cb' # NoCb =>
        pc' \in {"drain", "handled", "poll"} /\ cb'.fn # "none" /\ cb'.win \in Window
  <2>1. CASE InitialEvents
    BY <1>3, <2>1 DEF InitialEvents
  <2>6. CASE InitialSize
    <3>1. cb' = NoCb \/ (pc' = "drain" /\ cb' = Call("resize", dpyWindow))
      BY <2>6 DEF InitialSize, Crash
    <3>2. dpyWindow # NoWindow
      BY <2>6 DEF InitialSize, PhaseInv
    <3> QED
      BY <3>1, <3>2 DEF Call, TypeOK
  <2>2. CASE HandleEvent
    <3>1. pc' = "handled" /\ cb = NoCb
      BY <2>2
         DEF HandleEvent, HandleNotify, HandleWindowCreated, HandleWindowDestroyed, HandleQueue,
             PhaseInv
    <3>2. \/ cb' = NoCb
          \/ dpyWindow # NoWindow /\ \E fn \in {"focus", "draw", "resize", "created", "destroyed"} :
               cb' = Call(fn, dpyWindow)
      BY <2>2, <3>1
         DEF HandleEvent, HandleNotify, HandleWindowCreated, HandleWindowDestroyed, HandleQueue,
             Tell
    <3> QED
      BY <3>1, <3>2 DEF Call, TypeOK
  <2>3. CASE Drain \/ Handled \/ PollReturns \/ DispatchReturns
    BY <1>3, <2>3 DEF Drain, Handled, PollReturns, DispatchReturns
  <2>4. ASSUME NEW w \in Window, FrameCallback(w)
        PROVE  cb' # NoCb => pc' = "poll" /\ cb'.fn # "none" /\ cb'.win \in Window
    <3>1. pc' = "poll" /\ (cb' = NoCb \/ cb' = Call("draw", w))
      BY <2>4 DEF FrameCallback
    <3> QED
      BY <3>1 DEF Call
  <2>5. CASE InputReadable
    <3>1. \/ cb' = NoCb
          \/ cb' = Call("input", dpyWindow) /\ dpyWindow # NoWindow /\ pc' = "poll"
      BY <2>5 DEF InputReadable, Crash
    <3> QED
      BY <3>1 DEF Call, TypeOK
  <2> QED
    BY <2>1, <2>2, <2>3, <2>4, <2>5, <2>6 DEF Main
<1>6. ~dpy' => events' = <<>>
  BY <1>1, <1>2 DEF PhaseInv
<1>7. pc' = "sizing" => dpyWindow # NoWindow
  BY <1>2
     DEF Main, HandleEvent, InitialEvents, InitialSize, Drain, HandleNotify,
         HandleWindowCreated, HandleWindowDestroyed, HandleQueue, Handled, FrameCallback,
         InputReadable, PollReturns, DispatchReturns, NextEvent, Crash, PhaseInv
<1> QED
  BY <1>1, <1>2, <1>4, <1>5, <1>6, <1>7 DEF PhaseInv, Live

LEMMA PhaseStep ==
  ASSUME TypeOK, PhaseInv, [Next]_vars
  PROVE  PhaseInv'
<1>1. CASE UNCHANGED vars
  BY <1>1 DEF vars, PhaseInv, Live, activityVars, systemVars, queueVars, winVars
<1> QED
  BY <1>1, PhaseApplication, PhaseSystem, PhaseActivity, PhaseMain DEF Next, Terminated

-----------------------------------------------------------------------------
(* Events that are waited for *)

InHand == pc \in {"handle", "handled"}

\* No event is handled before the first dispatch, and none once the display is
\* destroyed or the process is gone.
BeforeLoop == {"none", "start", "creating", "attaching", "comparing", "fresh"}
Over == {"freeing", "finished", "crashed"}

\* The event the activity's thread waits for is the last in the queue, or the
\* one being handled, and no other one is waited for; once it was handled the
\* queue is empty.
WaitInv ==
  /\ \A i \in DOMAIN events :
       /\ events[i].wait <=> events[i].type \in Waited
       /\ events[i].wait =>
            i = Len(events) /\ ui.at = "waiting" /\ ~done /\ ui.in = events[i].type
  /\ InHand =>
       /\ handling.wait <=> handling.type \in Waited
       /\ handling.wait =>
            events = <<>> /\ ui.at = "waiting" /\ ~done /\ ui.in = handling.type
  /\ ui.at = "waiting" =>
       \/ done
       \/ events # <<>> /\ events[Len(events)].wait
       \/ InHand /\ handling.wait
       \/ pc \in Over
  /\ (ui.at = "waiting" /\ done) \/ ui.at = "clearing" => events = <<>> /\ ~InHand
  /\ ui.at = "waiting" /\ done => pc \notin BeforeLoop
  /\ ui.at = "waiting" => pc \notin {"none", "start"}

LEMMA WaitInit == Init => WaitInv
  BY DEF Init, WaitInv, InHand, BeforeLoop, Ui

\* Steps that leave the queue and the activity's thread alone
LEMMA WaitSame ==
  ASSUME WaitInv, UNCHANGED <<events, handling, done>>,
         (ui' = ui) \/ (ui.at # "waiting" /\ ui'.at \notin {"waiting", "clearing"}),
         pc' \in {"handle", "handled"} => InHand,
         InHand => pc' \in {"handle", "handled"} \cup Over,
         pc \in Over => pc' \in Over,
         ui.at = "waiting" /\ pc' \in {"none", "start"} => pc' = pc,
         pc' \in BeforeLoop => pc \in BeforeLoop
  PROVE  WaitInv'
  BY DEF WaitInv, InHand, Over

\* The activity's thread pushes an event, and may wait for it.
LEMMA WaitPush ==
  ASSUME TypeOK, PhaseInv, WaitInv, UiIdle, NEW ev \in Event, Push(ev),
         ev.wait <=> ev.type \in Waited,
         IF ev.wait /\ dpy
           THEN ui' = Ui("waiting", ev.type) /\ done' = FALSE
           ELSE ui'.at = "idle" \/ (~dpy /\ ui'.at = "clearing"),
         UNCHANGED <<handling, pc>> \/ (UNCHANGED handling /\ pc = "none" /\ pc' = "start")
  PROVE  WaitInv'
<1>1. /\ \A i \in DOMAIN events : ~events[i].wait /\ events[i].type \notin Waited
      /\ InHand => ~handling.wait /\ handling.type \notin Waited
      /\ pc' \in {"handle", "handled"} <=> InHand
  BY DEF WaitInv, UiIdle, InHand
<1>2. CASE dpy
  <2>1. /\ events' = Append(events, ev) /\ events \in Seq(Event)
        /\ pc \notin {"none", "start"} /\ pc' = pc
    BY <1>2, Pushed DEF TypeOK, PhaseInv
  <2>2. /\ events' # <<>> /\ Len(events') = Len(events) + 1 /\ Len(events) \in Nat
        /\ \A i \in DOMAIN events' : IF i = Len(events') THEN events'[i] = ev
                                     ELSE i \in DOMAIN events /\ events'[i] = events[i]
        /\ Len(events') \in DOMAIN events'
    BY <2>1, AppendEvents
  <2>3. CASE ev.wait
    <3>1. ui'.at = "waiting" /\ ui'.in = ev.type /\ ~done'
      BY <1>2, <2>3 DEF Ui
    <3> QED
      BY <1>1, <2>1, <2>2, <2>3, <3>1 DEF WaitInv, InHand
  <2>4. CASE ~ev.wait
    <3>1. ui'.at = "idle"
      BY <1>2, <2>4
    <3> QED
      BY <1>1, <2>1, <2>2, <2>4, <3>1 DEF WaitInv, InHand
  <2> QED
    BY <2>3, <2>4
<1>3. CASE ~dpy
  <2>1. events = <<>> /\ events' = <<>> /\ ~InHand /\ pc' \notin {"handle", "handled"}
    BY <1>1, <1>3, Pushed DEF PhaseInv, InHand
  <2>2. ui'.at \in {"idle", "clearing"}
    BY <1>3
  <2> QED
    BY <2>1, <2>2 DEF WaitInv, InHand
<1> QED
  BY <1>2, <1>3

LEMMA WaitSystem ==
  ASSUME TypeOK, PhaseInv, WaitInv, System
  PROVE  WaitInv'
<1> USE DEF activityVars, systemVars, queueVars, winVars, Waited
<1>1. ASSUME NEW n \in NativeWindow, WindowCreated(n) PROVE WaitInv'
  <2>1. Ev("win_created") \in Event /\ ~Ev("win_created").wait
        /\ Ev("win_created").type = "win_created"
    BY EventTypes DEF Ev, EventType
  <2>2. UiIdle /\ Push(Ev("win_created")) /\ ui' = ui /\ handling' = handling
        /\ (pc' = pc \/ (pc = "none" /\ pc' = "start"))
    BY <1>1 DEF WindowCreated
  <2> QED
    BY <2>1, <2>2, WaitPush DEF UiIdle
<1>2. ASSUME NEW type \in {"focus", "draw", "resize"}, Notify(type) PROVE WaitInv'
  <2>1. Ev(type) \in Event /\ ~Ev(type).wait /\ Ev(type).type = type
    BY EventTypes DEF Ev, EventType
  <2>2. UiIdle /\ Push(Ev(type)) /\ UNCHANGED <<ui, handling, pc>>
    BY <1>2 DEF Notify
  <2> QED
    BY <2>1, <2>2, WaitPush DEF UiIdle
<1>3. CASE WindowDestroyed
  <2> DEFINE ev == WaitEv("win_destroyed", NoQueue)
  <2>1. ev \in Event /\ ev.wait /\ ev.type = "win_destroyed"
    BY EventTypes DEF WaitEv, EventType
  <2>2. UiIdle /\ Push(ev) /\ UNCHANGED <<handling, pc>> /\ done' = FALSE
        /\ ui' = Ui(IF dpy THEN "waiting" ELSE "clearing", "win_destroyed")
    BY <1>3 DEF WindowDestroyed
  <2>3. ~dpy => ui'.at = "clearing"
    BY <2>2 DEF Ui
  <2> HIDE DEF ev
  <2> QED
    BY <2>1, <2>2, <2>3, WaitPush
<1>4. ASSUME NEW type \in {"queue_created", "queue_destroyed"}, NEW q \in Queue \cup {NoQueue},
             UiIdle, PushWait(type, q, type), UNCHANGED <<handling, pc>>
      PROVE  WaitInv'
  <2> DEFINE ev == WaitEv(type, q)
  <2>1. ev \in Event /\ ev.wait /\ ev.type = type
    BY EventTypes DEF WaitEv, EventType
  <2>2. Push(ev) /\ done' = FALSE /\ ui' = IF dpy THEN Ui("waiting", type) ELSE Ui("idle", "none")
    BY <1>4 DEF PushWait
  <2>3. ~dpy => ui'.at = "idle"
    BY <2>2 DEF Ui
  <2> HIDE DEF ev
  <2> QED
    BY <1>4, <2>1, <2>2, <2>3, WaitPush
<1>5. ASSUME NEW q \in Queue, QueueCreated(q) PROVE WaitInv'
  BY <1>4, <1>5 DEF QueueCreated
<1>6. CASE QueueDestroyed
  <2>1. lentQueue \in Queue \cup {NoQueue}
    BY DEF TypeOK
  <2> QED
    BY <1>4, <1>6, <2>1 DEF QueueDestroyed
<1>7. CASE Destroy
  <2>1. /\ UNCHANGED <<events, handling, done, pc>>
        /\ ui.at = "idle" /\ ui'.at = "destroying"
    BY <1>7 DEF Destroy, UiIdle, Ui
  <2> QED
    BY <2>1, WaitSame DEF InHand
<1> QED
  BY <1>1, <1>2, <1>3, <1>5, <1>6, <1>7 DEF System

LEMMA WaitActivity ==
  ASSUME PhaseInv, WaitInv, Activity
  PROVE  WaitInv'
<1> USE DEF activityVars, systemVars, queueVars, winVars
<1>1. CASE UiReturns
  <2>1. events = <<>> /\ ~InHand
    BY <1>1 DEF UiReturns, WaitInv
  <2>2. UNCHANGED <<events, pc>> /\ ui'.at = "idle"
    BY <1>1 DEF UiReturns, Ui
  <2> QED
    BY <2>1, <2>2 DEF WaitInv, InHand
<1>2. CASE DestroyReads \/ DestroyWakes \/ DestroyJoins
  <2>1. /\ UNCHANGED <<events, handling, done, pc>>
        /\ ui.at # "waiting" /\ ui'.at \notin {"waiting", "clearing"}
    BY <1>2 DEF DestroyReads, DestroyWakes, DestroyJoins, Ui
  <2> QED
    BY <2>1, WaitSame DEF InHand
<1> QED
  BY <1>1, <1>2 DEF Activity

LEMMA WaitApplication ==
  ASSUME PhaseInv, WaitInv, Application
  PROVE  WaitInv'
<1> USE DEF activityVars, systemVars, queueVars, winVars
<1>1. CASE ApplicationStays
  BY <1>1, StaysSame, WaitSame DEF InHand
<1>2. CASE \E w \in Window :
             DestroyWindow(w) \/ CreateWindow(w) \/ \E ok \in BOOLEAN : MakeSurface(w, ok)
  <2>1. UNCHANGED <<events, handling, done, ui>> /\ (pc' = pc \/ pc' = "crashed")
    BY <1>2 DEF DestroyWindow, CreateWindow, MakeSurface, Crash
  <2> QED
    BY <2>1, WaitSame DEF InHand, Over, BeforeLoop
<1>3. CASE \/ DisplayCreate \/ CreateReads \/ CreateAttach \/ CreateCompares \/ Quit
           \/ \E b \in BOOLEAN : Dispatch(b)
  <2>1. UNCHANGED <<events, handling, done, ui>>
    BY <1>3 DEF DisplayCreate, CreateReads, CreateAttach, CreateCompares, Quit, Dispatch
  <2>2. \/ pc = "start" /\ pc' = "creating"
        \/ pc \in {"creating", "attaching", "comparing"}
           /\ pc' \in {"attaching", "comparing", "fresh", "crashed"}
        \/ pc \in {"fresh", "app"} /\ pc' \in {"left", "initial"}
    BY <1>3 DEF DisplayCreate, CreateReads, CreateAttach, CreateCompares, Crash, Quit, Dispatch,
                AppRuns
  <2> QED
    BY <2>1, <2>2, WaitSame DEF InHand, Over, BeforeLoop
<1>4. CASE DisplayDestroy \/ DisplayGone
  <2>1. /\ events' = <<>> /\ pc \in {"left", "freeing"} /\ pc' \in {"freeing", "finished"}
        /\ UNCHANGED <<handling, done, ui>>
    BY <1>4 DEF DisplayDestroy, DisplayGone
  <2> QED
    BY <2>1 DEF WaitInv, InHand, Over, BeforeLoop
<1> QED
  BY <1>1, <1>2, <1>3, <1>4 DEF Application, ApplicationStays

\* The next event is taken, with what was handled before told.
LEMMA WaitNext ==
  ASSUME TypeOK, WaitInv, NextEvent, ui' = ui,
         \/ pc = "drain" /\ (done' <=> done)
         \/ pc = "handled" /\ (done' <=> done \/ handling.wait)
  PROVE  WaitInv'
<1>1. events \in Seq(Event) /\ pc \notin Over /\ pc \notin BeforeLoop
  BY DEF TypeOK, Over, BeforeLoop
<1>2. CASE events = <<>>
  <2>1. events' = <<>> /\ pc' = "poll"
    BY <1>2 DEF NextEvent
  <2>2. ui.at = "waiting" => done'
    BY <1>2, <1>1 DEF WaitInv, InHand
  <2> QED
    BY <1>2, <2>1, <2>2 DEF WaitInv, InHand, BeforeLoop
<1>3. CASE events # <<>>
  <2>1. /\ pc' = "handle" /\ handling' = Head(events) /\ events' = Tail(events)
        /\ (done' <=> done) /\ ~(ui.at = "waiting" /\ done) /\ ui.at # "clearing"
    BY <1>3 DEF NextEvent, WaitInv, InHand
  <2>2. /\ Head(events) = events[1] /\ Len(events) \in Nat \ {0} /\ 1 \in DOMAIN events
        /\ Len(events') = Len(events) - 1
        /\ \A i \in DOMAIN events' : i + 1 \in DOMAIN events /\ events'[i] = events[i + 1]
                                     /\ i \in Nat \ {0}
        /\ Len(events) = 1 => events' = <<>>
        /\ Len(events) > 1 => events' # <<>> /\ Len(events') \in DOMAIN events'
    BY <1>1, <1>3, <2>1, TailEvents
  <2>3. \A i \in DOMAIN events' :
          /\ events'[i].wait <=> events'[i].type \in Waited
          /\ events'[i].wait =>
               i = Len(events') /\ ui.at = "waiting" /\ ~done' /\ ui.in = events'[i].type
    BY <2>1, <2>2 DEF WaitInv
  <2>4. /\ handling'.wait <=> handling'.type \in Waited
        /\ handling'.wait =>
             events' = <<>> /\ ui.at = "waiting" /\ ~done' /\ ui.in = handling'.type
    BY <2>1, <2>2 DEF WaitInv
  <2>5. ui.at = "waiting" =>
          (events' # <<>> /\ events'[Len(events')].wait) \/ handling'.wait
    <3> SUFFICES ASSUME ui.at = "waiting"
                 PROVE  (events' # <<>> /\ events'[Len(events')].wait) \/ handling'.wait
      OBVIOUS
    <3>1. events[Len(events)].wait
      BY <1>1, <1>3, <2>1 DEF WaitInv, InHand
    <3>2. CASE Len(events) = 1
      BY <2>1, <2>2, <3>1, <3>2
    <3>3. CASE Len(events) # 1
      <4>1. Len(events) > 1
        BY <2>2, <3>3
      <4>2. events'[Len(events')] = events[Len(events') + 1]
        BY <2>2, <4>1
      <4>3. Len(events') + 1 = Len(events)
        BY <2>2
      <4> QED
        BY <2>2, <3>1, <4>1, <4>2, <4>3
    <3> QED
      BY <3>2, <3>3
  <2> QED
    BY <2>1, <2>3, <2>4, <2>5 DEF WaitInv, InHand
<1> QED
  BY <1>2, <1>3

LEMMA WaitMain ==
  ASSUME TypeOK, PhaseInv, WaitInv, Main
  PROVE  WaitInv'
<1> USE DEF activityVars, systemVars, queueVars, winVars
<1>1. CASE Drain
  <2>1. NextEvent /\ ui' = ui /\ pc = "drain" /\ done' = done
    BY <1>1 DEF Drain
  <2> QED
    BY <2>1, WaitNext
<1>2. CASE Handled
  <2>1. done' <=> done \/ handling.wait
    BY <1>2 DEF Handled
  <2> QED
    BY <1>2, <2>1, WaitNext DEF Handled
<1>3. CASE ~Drain /\ ~Handled
  <2>1. UNCHANGED <<events, handling, done, ui>>
    BY <1>3
       DEF Main, HandleEvent, InitialEvents, InitialSize, HandleNotify, HandleWindowCreated,
           HandleWindowDestroyed, HandleQueue, FrameCallback, InputReadable, WakeMayGo,
           PollReturns, DispatchReturns
  <2>2. \/ pc = "handle" /\ pc' = "handled"
        \/ /\ pc \in {"initial", "sizing", "poll", "return"}
           /\ pc' \in {"sizing", "drain", "poll", "return", "left", "app", "crashed"}
    BY <1>3
       DEF Main, HandleEvent, InitialEvents, InitialSize, HandleNotify, HandleWindowCreated,
           HandleWindowDestroyed, HandleQueue, FrameCallback, InputReadable, Crash,
           PollReturns, DispatchReturns
  <2> QED
    BY <2>1, <2>2, WaitSame DEF InHand, Over, BeforeLoop
<1> QED
  BY <1>1, <1>2, <1>3

LEMMA WaitStep ==
  ASSUME TypeOK, PhaseInv, WaitInv, [Next]_vars
  PROVE  WaitInv'
<1>1. CASE UNCHANGED vars
  BY <1>1, WaitSame DEF vars, InHand, queueVars
<1> QED
  BY <1>1, WaitApplication, WaitSystem, WaitActivity, WaitMain DEF Next, Terminated

-----------------------------------------------------------------------------
(* The looper *)

\* From the look at destroyed at the start of a dispatch to the looper
InLoop == {"initial", "sizing", "drain", "handle", "handled"}

\* Whoever destroys the activity has woken the looper before it is polled.
SleepInv == ui.at = "joining" /\ pc \in InLoop => woken

LEMMA SleepStep ==
  ASSUME PhaseInv, SleepInv, [Next]_vars
  PROVE  SleepInv'
<1> USE DEF activityVars, systemVars, queueVars, winVars, SleepInv
<1>1. CASE UNCHANGED vars
  BY <1>1 DEF vars
<1>2. CASE System
  BY <1>2
     DEF System, WindowCreated, Notify, WindowDestroyed, QueueCreated, QueueDestroyed, Destroy,
         PushWait, UiIdle, Ui
<1>3. CASE Activity
  <2>1. CASE UiReturns
    BY <2>1 DEF UiReturns, Ui
  <2>2. CASE DestroyReads
    <3>1. dpy \/ pc \in {"none", "start", "finished"}
      BY DEF PhaseInv
    <3> QED
      BY <2>2, <3>1 DEF DestroyReads, Ui, InLoop
  <2>3. CASE DestroyWakes \/ DestroyJoins
    BY <2>3 DEF DestroyWakes, DestroyJoins, Ui
  <2> QED
    BY <1>3, <2>1, <2>2, <2>3 DEF Activity
<1>4. CASE Application
  <2>1. CASE ApplicationStays
    <3>1. woken' = woken \/ woken' = TRUE
      BY <2>1
         DEF ApplicationStays, Return, Wakeup, Refresh, SurfaceFrame, GetBuffer, ApplyBuffer
    <3> QED
      BY <2>1, <3>1, StaysSame
  <2>2. CASE \E w \in Window :
               DestroyWindow(w) \/ CreateWindow(w) \/ \E ok \in BOOLEAN : MakeSurface(w, ok)
    BY <2>2 DEF DestroyWindow, CreateWindow, MakeSurface, Crash, InLoop
  <2>3. CASE \/ DisplayCreate \/ CreateReads \/ CreateAttach \/ CreateCompares \/ Quit
             \/ DisplayDestroy \/ DisplayGone
    BY <2>3 DEF DisplayCreate, CreateReads, CreateAttach, CreateCompares, Crash, Quit,
                DisplayDestroy, DisplayGone, InLoop
  <2>4. ASSUME NEW b \in BOOLEAN, Dispatch(b) PROVE SleepInv'
    BY <2>4 DEF Dispatch, InLoop, PhaseInv
  <2> QED
    BY <1>4, <2>1, <2>2, <2>3, <2>4 DEF Application, ApplicationStays
<1>5. CASE Main
  <2>1. CASE pc \in InLoop
    <3>1. UNCHANGED <<woken, ui>>
      BY <1>5, <2>1
         DEF Main, HandleEvent, InitialEvents, InitialSize, Drain, HandleNotify,
             HandleWindowCreated, HandleWindowDestroyed, HandleQueue, Handled, FrameCallback,
             InputReadable, PollReturns, DispatchReturns, InLoop
    <3> QED
      BY <2>1, <3>1
  <2>2. CASE pc \notin InLoop
    <3>1. pc' \notin InLoop
      BY <1>5, <2>2
         DEF Main, HandleEvent, InitialEvents, InitialSize, Drain, HandleNotify,
             HandleWindowCreated, HandleWindowDestroyed, HandleQueue, Handled, FrameCallback,
             InputReadable, Crash, PollReturns, DispatchReturns, InLoop
    <3> QED
      BY <3>1
  <2> QED
    BY <2>1, <2>2
<1> QED
  BY <1>1, <1>2, <1>3, <1>4, <1>5 DEF Next, Terminated

\* A step that puts the main thread to sleep over its work is one of the looper.
LEMMA SleepEntry ==
  ASSUME PhaseInv, SleepInv, Next, ~Asleep, Asleep'
  PROVE  woken /\ pc = "poll" /\ UNCHANGED <<events, ui>>
<1> USE DEF activityVars, systemVars, queueVars, winVars
<1>1. CASE System
  <2>1. UNCHANGED <<pc, block>> \/ pc' = "start"
    BY <1>1
       DEF System, WindowCreated, Notify, WindowDestroyed, QueueCreated, QueueDestroyed, Destroy
  <2>2. UNCHANGED <<pc, block>> /\ pc = "poll" /\ dpy
    BY <2>1 DEF Asleep, PhaseInv
  <2>3. ui'.at # "joining" /\ UiIdle
    BY <1>1
       DEF System, WindowCreated, Notify, WindowDestroyed, QueueCreated, QueueDestroyed, Destroy,
           PushWait, UiIdle, Ui
  <2>4. UNCHANGED <<events, woken>> \/ woken' = TRUE
    BY <1>1, Pushed
       DEF System, WindowCreated, Notify, WindowDestroyed, QueueCreated, QueueDestroyed, Destroy,
           PushWait
  <2> QED
    BY <2>2, <2>3, <2>4 DEF Asleep
<1>2. CASE Activity
  <2>1. UNCHANGED <<pc, block, events>>
    BY <1>2 DEF Activity, UiReturns, DestroyReads, DestroyWakes, DestroyJoins
  <2>2. pc = "poll" /\ dpy
    BY <2>1 DEF Asleep, PhaseInv
  <2>3. woken' = TRUE \/ (woken' = woken /\ ui'.at # "joining")
    <3>1. CASE UiReturns
      BY <3>1 DEF UiReturns, Ui
    <3>2. CASE DestroyReads
      BY <2>2, <3>2 DEF DestroyReads, Ui
    <3>3. CASE DestroyWakes
      BY <3>3 DEF DestroyWakes
    <3>4. CASE DestroyJoins
      BY <3>4 DEF DestroyJoins, Ui
    <3> QED
      BY <1>2, <3>1, <3>2, <3>3, <3>4 DEF Activity
  <2> QED
    BY <2>1, <2>2, <2>3 DEF Asleep
<1>3. CASE Application
  <2>1. CASE ApplicationStays
    <3>1. woken' = woken \/ woken' = TRUE
      BY <2>1
         DEF ApplicationStays, Return, Wakeup, Refresh, SurfaceFrame, GetBuffer, ApplyBuffer
    <3> QED
      BY <2>1, <3>1, StaysSame DEF Asleep
  <2>2. CASE \E w \in Window :
               DestroyWindow(w) \/ CreateWindow(w) \/ \E ok \in BOOLEAN : MakeSurface(w, ok)
    <3>1. UNCHANGED <<block, events, woken, ui>> /\ (pc' = pc \/ pc' = "crashed")
      BY <2>2 DEF DestroyWindow, CreateWindow, MakeSurface, Crash
    <3> QED
      BY <3>1 DEF Asleep
  <2>3. CASE \/ DisplayCreate \/ CreateReads \/ CreateAttach \/ CreateCompares \/ Quit
             \/ DisplayDestroy \/ DisplayGone \/ \E b \in BOOLEAN : Dispatch(b)
    <3>1. pc' # "poll"
      BY <2>3 DEF DisplayCreate, CreateReads, CreateAttach, CreateCompares, Crash, Quit,
                  DisplayDestroy, DisplayGone, Dispatch
    <3> QED
      BY <3>1 DEF Asleep
  <2> QED
    BY <1>3, <2>1, <2>2, <2>3 DEF Application, ApplicationStays
<1>4. CASE Main
  <2>1. CASE Drain \/ Handled
    <3>1. NextEvent /\ UNCHANGED <<ui, woken>> /\ pc \in InLoop
      BY <2>1 DEF Drain, Handled, InLoop
    <3>2. pc' = "poll" => events' = <<>>
      BY <3>1 DEF NextEvent
    <3> QED
      BY <3>1, <3>2 DEF Asleep, SleepInv
  <2>2. CASE InputReadable \/ \E w \in Window : FrameCallback(w)
    <3>1. /\ pc = "poll" /\ UNCHANGED <<block, events, ui>>
          /\ woken' \in {woken, FALSE}
      BY <2>2 DEF InputReadable, FrameCallback, WakeMayGo
    <3> QED
      BY <3>1 DEF Asleep
  <2>3. CASE InitialEvents \/ InitialSize \/ HandleEvent \/ PollReturns \/ DispatchReturns
    <3>1. pc' # "poll"
      BY <2>3
         DEF HandleEvent, InitialEvents, InitialSize, HandleNotify, HandleWindowCreated,
             HandleWindowDestroyed, HandleQueue, Crash, PollReturns, DispatchReturns
    <3> QED
      BY <3>1 DEF Asleep
  <2> QED
    BY <1>4, <2>1, <2>2, <2>3 DEF Main
<1>5. CASE Terminated
  BY <1>5 DEF Terminated, vars, Asleep
<1> QED
  BY <1>1, <1>2, <1>3, <1>4, <1>5 DEF Next

LEMMA ThreadsInit == Init => TypeOK /\ PhaseInv /\ WaitInv
  BY TypeInit, PhaseInit, WaitInit

LEMMA ThreadsStep ==
  TypeOK /\ PhaseInv /\ WaitInv /\ [Next]_vars => (TypeOK /\ PhaseInv /\ WaitInv)'
  BY TypeStep, PhaseStep, WaitStep

\* The main thread falls asleep in ALooper_pollAll over an event in its queue, or
\* while activity_onDestroy waits for it to end, only by a step of the looper that
\* takes a wake along with a callback: push_event and activity_onDestroy wake
\* the looper, whatever the main thread has seen before.
THEOREM OnlyLooperSleeps == Spec => NoSleep
<1> DEFINE Inv == PhaseInv /\ TypeOK /\ SleepInv
           Entered == woken /\ pc = "poll" /\ UNCHANGED <<events, ui>>
<1>1. Init => Inv
  BY TypeInit, PhaseInit DEF Init, SleepInv, Ui
<1>2. Inv /\ [Next]_vars => Inv'
  BY TypeStep, PhaseStep, SleepStep
<1>3. Inv /\ [Next]_vars => [~Asleep /\ Asleep' => Entered]_vars
  BY SleepEntry
<1> HIDE DEF Inv, Entered
<1>4. Spec => [][~Asleep /\ Asleep' => Entered]_vars
  BY <1>1, <1>2, <1>3, PTL DEF Spec
<1> QED
  BY <1>4 DEF NoSleep, Entered

-----------------------------------------------------------------------------
(* The input queue *)

\* The event the activity's thread waits for has not been handled yet.
Unhandled == (\E i \in DOMAIN events : events[i].wait) \/ (pc = "handle" /\ handling.wait)

BeforeQueue == {"none", "start", "creating", "attaching"}

\* The looper polls the queue of the activity, but for the time between the
\* callback that announced or took back a queue and the event it waits for.
AttachInv ==
  /\ destroyed => inputQueue = NoQueue /\ lentQueue = NoQueue
  /\ ui.in # "queue_destroyed" => inputQueue = lentQueue
  /\ ui.in = "queue_destroyed" => inputQueue = NoQueue
  /\ \A i \in DOMAIN events : events[i].type = "queue_created" => events[i].queue = inputQueue
  /\ pc = "handle" /\ handling.type = "queue_created" => handling.queue = inputQueue
  /\ pc \in BeforeQueue => attached = NoQueue
  /\ attached \in {NoQueue, lentQueue}
  /\ pc \notin BeforeQueue /\ attached # inputQueue =>
       Unhandled /\ ui.in \in {"queue_created", "queue_destroyed"}
  /\ pc \in {"left", "freeing", "finished"} => destroyed

LEMMA AttachInit == Init => AttachInv
  BY DEF Init, AttachInv, Ui, BeforeQueue

\* No step changes what the application and the system may do.
LEMMA HabitsSame == [Next]_vars => habits' = habits
  BY DEF Next, System, Activity, Application, Main, HandleEvent, Terminated, vars,
         activityVars, WindowCreated, Notify, WindowDestroyed, QueueCreated, QueueDestroyed,
         Destroy, UiReturns, DestroyReads, DestroyWakes, DestroyJoins, DisplayCreate,
         CreateReads, CreateAttach, CreateCompares, Return, Wakeup, Quit, DisplayDestroy,
         DisplayGone, DestroyWindow, Refresh, SurfaceFrame, GetBuffer, ApplyBuffer,
         CreateWindow, MakeSurface, Dispatch, InitialEvents, InitialSize, Drain,
         Handled, HandleNotify, HandleWindowCreated, HandleWindowDestroyed, HandleQueue,
         FrameCallback, InputReadable, PollReturns, DispatchReturns

\* Pushing keeps the events that are there, and adds one.
LEMMA PushedEvents ==
  ASSUME TypeOK, NEW ev \in Event, Push(ev)
  PROVE  /\ \A i \in DOMAIN events : i \in DOMAIN events' /\ events'[i] = events[i]
         /\ \A i \in DOMAIN events' :
              (i \in DOMAIN events /\ events'[i] = events[i]) \/ events'[i] = ev
         /\ dpy => \E i \in DOMAIN events' : events'[i] = ev
<1>1. events \in Seq(Event)
  BY DEF TypeOK
<1>2. CASE dpy
  <2>1. events' = Append(events, ev)
    BY <1>2, Pushed
  <2>2. /\ Len(events) \in Nat
        /\ DOMAIN events = 1 .. Len(events) /\ DOMAIN events' = 1 .. Len(events) + 1
        /\ \A i \in 1 .. Len(events) : events'[i] = events[i]
        /\ events'[Len(events) + 1] = ev
    BY <1>1, <2>1, AppendEvents
  <2> QED
    BY <2>2
<1>3. CASE ~dpy
  BY <1>3, Pushed
<1> QED
  BY <1>2, <1>3

LEMMA AttachSystem ==
  ASSUME TypeOK, PhaseInv, WaitInv, AttachInv, System
  PROVE  AttachInv'
<1> USE DEF activityVars, systemVars, queueVars, winVars
<1>1. UiIdle /\ ui.in = "none" /\ inputQueue = lentQueue /\ ~destroyed
  BY DEF System, WindowCreated, Notify, WindowDestroyed, QueueCreated, QueueDestroyed, Destroy,
         UiIdle, PhaseInv, AttachInv
<1>2. (pc \notin BeforeQueue => attached = inputQueue) /\ (pc \in BeforeQueue => attached = NoQueue)
  BY <1>1 DEF AttachInv
<1>3. /\ \A i \in DOMAIN events : events[i].type # "queue_created"
      /\ pc = "handle" => handling.type # "queue_created"
  BY <1>1 DEF UiIdle, WaitInv, InHand, Waited
<1>4. ~dpy => pc \in BeforeQueue
  BY <1>1 DEF PhaseInv, BeforeQueue, AttachInv
<1>5. ASSUME NEW n \in NativeWindow, WindowCreated(n) PROVE AttachInv'
  <2>1. \A i \in DOMAIN events' : events'[i].type # "queue_created"
    BY <1>3, <1>5, PushedEvents, EventTypes DEF WindowCreated, Ev, EventType
  <2>2. pc' = pc \/ (pc = "none" /\ pc' = "start")
    BY <1>5 DEF WindowCreated
  <2> QED
    BY <1>1, <1>2, <1>3, <1>5, <2>1, <2>2 DEF WindowCreated, AttachInv, BeforeQueue
<1>6. ASSUME NEW type \in {"focus", "draw", "resize"}, Notify(type) PROVE AttachInv'
  <2>1. Ev(type) \in Event /\ Ev(type).type # "queue_created"
    BY EventTypes DEF Ev, EventType
  <2>2. \A i \in DOMAIN events' : events'[i].type # "queue_created"
    BY <1>3, <1>6, <2>1, PushedEvents DEF Notify
  <2> QED
    BY <1>1, <1>2, <1>3, <1>6, <2>2 DEF Notify, AttachInv
<1>7. CASE WindowDestroyed
  <2>1. WaitEv("win_destroyed", NoQueue) \in Event
        /\ WaitEv("win_destroyed", NoQueue).type # "queue_created"
    BY EventTypes DEF WaitEv, EventType
  <2>2. \A i \in DOMAIN events' : events'[i].type # "queue_created"
    BY <1>3, <1>7, <2>1, PushedEvents DEF WindowDestroyed
  <2>3. ui'.in = "win_destroyed"
    BY <1>7 DEF WindowDestroyed, Ui
  <2> QED
    BY <1>1, <1>2, <1>3, <1>7, <2>2, <2>3 DEF WindowDestroyed, AttachInv
<1>8. ASSUME NEW q \in Queue, QueueCreated(q) PROVE AttachInv'
  <2> DEFINE ev == WaitEv("queue_created", q)
  <2>1. ev \in Event /\ ev.wait /\ ev.queue = q /\ Push(ev)
    BY <1>8, EventTypes DEF WaitEv, EventType, QueueCreated, PushWait
  <2>2. /\ inputQueue' = q /\ lentQueue' = q /\ lentQueue = NoQueue
        /\ UNCHANGED <<destroyed, attached, pc, handling>>
        /\ ui' = IF dpy THEN Ui("waiting", "queue_created") ELSE Ui("idle", "none")
    BY <1>8 DEF QueueCreated, PushWait
  <2>3. ui'.in = IF dpy THEN "queue_created" ELSE "none"
    BY <2>2 DEF Ui
  <2> HIDE DEF ev
  <2>4. \A i \in DOMAIN events' : events'[i].type = "queue_created" => events'[i].queue = q
    BY <1>3, <2>1, PushedEvents
  <2>5. dpy => Unhandled'
    BY <2>1, PushedEvents DEF Unhandled
  <2> QED
    BY <1>1, <1>2, <1>3, <1>4, <2>2, <2>3, <2>4, <2>5 DEF AttachInv
<1>9. CASE QueueDestroyed
  <2> DEFINE ev == WaitEv("queue_destroyed", lentQueue)
  <2>1. ev \in Event /\ ev.wait /\ ev.type = "queue_destroyed" /\ Push(ev)
    BY <1>9, EventTypes DEF WaitEv, EventType, QueueDestroyed, PushWait, TypeOK
  <2>2. /\ inputQueue' = NoQueue /\ lentQueue' = IF dpy THEN lentQueue ELSE NoQueue
        /\ UNCHANGED <<destroyed, attached, pc, handling>>
        /\ ui' = IF dpy THEN Ui("waiting", "queue_destroyed") ELSE Ui("idle", "none")
    BY <1>9 DEF QueueDestroyed, PushWait
  <2>3. ui'.in = IF dpy THEN "queue_destroyed" ELSE "none"
    BY <2>2 DEF Ui
  <2> HIDE DEF ev
  <2>4. \A i \in DOMAIN events' : events'[i].type # "queue_created"
    BY <1>3, <2>1, PushedEvents
  <2>5. dpy => Unhandled'
    BY <2>1, PushedEvents DEF Unhandled
  <2> QED
    BY <1>1, <1>2, <1>3, <1>4, <2>2, <2>3, <2>4, <2>5 DEF AttachInv
<1>10. CASE Destroy
  <2>1. ui'.in = "destroy" /\ lentQueue = NoQueue
        /\ UNCHANGED <<inputQueue, lentQueue, attached, pc, handling, events>>
    BY <1>10 DEF Destroy, Ui
  <2> QED
    BY <1>1, <1>2, <1>3, <2>1 DEF AttachInv
<1> QED
  BY <1>5, <1>6, <1>7, <1>8, <1>9, <1>10 DEF System

LEMMA AttachActivity ==
  ASSUME PhaseInv, WaitInv, AttachInv, Activity
  PROVE  AttachInv'
<1> USE DEF activityVars, systemVars, queueVars, winVars
<1>1. CASE UiReturns
  <2>1. events = <<>> /\ ~InHand /\ ~Unhandled
    BY <1>1 DEF UiReturns, WaitInv, Unhandled, InHand
  <2>2. /\ UNCHANGED <<destroyed, inputQueue, attached, pc, events, handling>>
        /\ lentQueue' = IF ui.in = "queue_destroyed" THEN NoQueue ELSE lentQueue
        /\ ui'.in = "none"
    BY <1>1 DEF UiReturns, Ui
  <2>3. pc \notin BeforeQueue => attached = inputQueue
    BY <2>1 DEF AttachInv
  <2> QED
    BY <2>1, <2>2, <2>3 DEF AttachInv, InHand
<1>2. CASE DestroyReads \/ DestroyWakes \/ DestroyJoins
  <2>1. /\ UNCHANGED <<destroyed, inputQueue, lentQueue, attached, pc, events, handling>>
        /\ ui'.in = "destroy" /\ ui.in = "destroy"
    BY <1>2 DEF DestroyReads, DestroyWakes, DestroyJoins, Ui, PhaseInv
  <2> QED
    BY <2>1 DEF AttachInv, Unhandled
<1> QED
  BY <1>1, <1>2 DEF Activity

LEMMA AttachApplication ==
  ASSUME "quits" \notin habits, PhaseInv, AttachInv, Application
  PROVE  AttachInv'
<1> USE DEF activityVars, systemVars, queueVars, winVars
<1>1. CASE ApplicationStays \/ \E w \in Window : DestroyWindow(w) \/ CreateWindow(w)
  <2>1. UNCHANGED <<destroyed, inputQueue, lentQueue, attached, pc, events, handling, ui>>
    BY <1>1, StaysSame DEF DestroyWindow, CreateWindow
  <2> QED
    BY <2>1 DEF AttachInv, Unhandled
<1>6. ASSUME NEW w \in Window, NEW ok \in BOOLEAN, MakeSurface(w, ok) PROVE AttachInv'
  <2>1. /\ UNCHANGED <<destroyed, inputQueue, lentQueue, attached, events, handling, ui>>
        /\ pc' = pc \/ pc' = "crashed"
    BY <1>6 DEF MakeSurface, Crash
  <2>2. pc # "handle" /\ pc \notin BeforeQueue
    BY <1>6, NullAssumption DEF MakeSurface, PhaseInv, BeforeQueue
  <2> QED
    BY <2>1, <2>2 DEF AttachInv, Unhandled, BeforeQueue
<1>2. CASE DisplayCreate
  BY <1>2 DEF DisplayCreate, AttachInv, Unhandled, BeforeQueue
<1>3. CASE CreateReads \/ CreateAttach \/ CreateCompares
  <2>1. /\ \/ pc = "creating" /\ pc' = "fresh" /\ attached' = attached /\ inputQueue = NoQueue
           \/ pc = "creating" /\ pc' = "attaching" /\ attached' = attached
           \/ pc = "attaching" /\ pc' = "comparing" /\ attached' = inputQueue
           \/ pc = "comparing" /\ pc' \in {"fresh", "crashed"} /\ attached' = attached
        /\ UNCHANGED <<destroyed, inputQueue, lentQueue, events, handling, ui>>
    BY <1>3 DEF CreateReads, CreateAttach, CreateCompares, Crash
  <2> QED
    BY <2>1 DEF AttachInv, BeforeQueue, Unhandled
<1>4. ASSUME NEW b \in BOOLEAN, Dispatch(b) PROVE AttachInv'
  <2>1. /\ pc \in {"fresh", "app"} /\ ((pc' = "left" /\ destroyed) \/ pc' = "initial")
        /\ UNCHANGED <<destroyed, inputQueue, lentQueue, attached, events, handling, ui>>
    BY <1>4 DEF Dispatch, AppRuns
  <2> QED
    BY <2>1 DEF AttachInv, Unhandled, BeforeQueue
<1>5. CASE DisplayDestroy \/ DisplayGone
  <2>1. /\ pc \in {"left", "freeing"} /\ pc' \in {"freeing", "finished"}
        /\ events' = <<>> /\ destroyed
        /\ UNCHANGED <<destroyed, inputQueue, lentQueue, attached, handling, ui>>
    BY <1>5 DEF DisplayDestroy, DisplayGone, AttachInv
  <2>2. ui.in = "destroy"
    BY <2>1 DEF PhaseInv
  <2> QED
    BY <2>1, <2>2 DEF AttachInv, BeforeQueue
<1>7. ~Quit
  BY DEF Quit
<1> QED
  BY <1>1, <1>2, <1>3, <1>4, <1>5, <1>6, <1>7 DEF Application, ApplicationStays

LEMMA AttachMain ==
  ASSUME TypeOK, WaitInv, AttachInv, Main
  PROVE  AttachInv'
<1> USE DEF activityVars, systemVars, queueVars, winVars
<1>1. CASE Drain \/ Handled
  <2>1. /\ NextEvent /\ pc \in {"drain", "handled"} /\ events \in Seq(Event)
        /\ UNCHANGED <<destroyed, inputQueue, lentQueue, attached, ui>>
    BY <1>1 DEF Drain, Handled, TypeOK
  <2>2. CASE events = <<>>
    <3>1. ~Unhandled /\ events' = <<>> /\ pc' = "poll"
      BY <2>1, <2>2 DEF NextEvent, Unhandled
    <3> QED
      BY <2>1, <3>1 DEF AttachInv, BeforeQueue
  <2>3. CASE events # <<>>
    <3>1. /\ pc' = "handle" /\ handling' = events[1] /\ 1 \in DOMAIN events
          /\ \A i \in DOMAIN events' : i + 1 \in DOMAIN events /\ events'[i] = events[i + 1]
          /\ \A i \in DOMAIN events : i # 1 => i - 1 \in DOMAIN events' /\ events'[i - 1] = events[i]
      BY <2>1, <2>3, TailEvents DEF NextEvent
    <3>2. Unhandled => Unhandled'
      BY <2>1, <3>1 DEF Unhandled
    <3> QED
      BY <2>1, <3>1, <3>2 DEF AttachInv, BeforeQueue
  <2> QED
    BY <2>2, <2>3
<1>2. CASE HandleEvent
  <2>1. /\ pc = "handle" /\ pc' = "handled"
        /\ UNCHANGED <<destroyed, inputQueue, lentQueue, ui, events, handling>>
        /\ \/ HandleQueue
           \/ attached' = attached /\ handling.type \notin {"queue_created", "queue_destroyed"}
    BY <1>2 DEF HandleEvent, HandleNotify, HandleWindowCreated, HandleWindowDestroyed, HandleQueue
  <2>2. CASE HandleQueue
    <3>1. ui.in = handling.type
      BY <2>1, <2>2 DEF HandleQueue, WaitInv, InHand, Waited
    <3>2. attached' = inputQueue
      BY <2>1, <2>2, <3>1 DEF HandleQueue, AttachInv
    <3> QED
      BY <2>1, <3>2 DEF AttachInv, BeforeQueue
  <2>3. CASE attached' = attached /\ handling.type \notin {"queue_created", "queue_destroyed"}
    <3>1. handling.wait => ui.in \notin {"queue_created", "queue_destroyed"}
      BY <2>1, <2>3 DEF WaitInv, InHand
    <3>2. ~handling.wait => (Unhandled => Unhandled')
      BY <2>1 DEF Unhandled
    <3> QED
      BY <2>1, <2>3, <3>1, <3>2 DEF AttachInv, BeforeQueue
  <2> QED
    BY <2>1, <2>2, <2>3
<1>3. CASE ~Drain /\ ~Handled /\ ~HandleEvent
  <2>1. /\ UNCHANGED <<destroyed, inputQueue, lentQueue, attached, ui, events, handling>>
        /\ pc \in {"initial", "sizing", "poll", "return"}
        /\ \/ pc' \in {"sizing", "drain", "poll", "return", "app", "crashed"}
           \/ pc' = "left" /\ destroyed
    BY <1>3
       DEF Main, InitialEvents, InitialSize, FrameCallback, InputReadable, WakeMayGo, Crash,
           PollReturns, DispatchReturns
  <2> QED
    BY <2>1 DEF AttachInv, Unhandled, BeforeQueue
<1> QED
  BY <1>1, <1>2, <1>3

\* The queue the looper polls is one the system has lent, and is that of the
\* activity whenever the activity's thread is done, if the application leaves
\* only when it is told to: input_queue is handed over by an event and read by
\* swa_display_android_create, and both may see the same queue.
THEOREM InputHandedOver == Spec => []InputHandover
<1> DEFINE AttachGuarded == "quits" \notin habits => AttachInv
           Inv == TypeOK /\ PhaseInv /\ WaitInv /\ AttachGuarded
<1>1. Init => Inv
  BY ThreadsInit, AttachInit
<1>2. Inv /\ [Next]_vars => Inv'
  <2> SUFFICES ASSUME Inv, [Next]_vars PROVE Inv'
    OBVIOUS
  <2>1. (TypeOK /\ PhaseInv /\ WaitInv)' /\ habits' = habits
    BY ThreadsStep, HabitsSame
  <2>2. ASSUME "quits" \notin habits, AttachInv PROVE AttachInv'
    <3>1. CASE UNCHANGED vars
      BY <2>2, <3>1
         DEF vars, AttachInv, Unhandled, activityVars, systemVars, queueVars
    <3> QED
      BY <2>2, <3>1, AttachSystem, AttachActivity, AttachApplication, AttachMain
         DEF Next, Terminated
  <2> QED
    BY <2>1, <2>2
<1>3. Inv => InputHandover
  BY DEF PhaseInv, AttachInv, InputHandover, UiIdle, BeforeQueue
<1> HIDE DEF Inv
<1> QED
  BY <1>1, <1>2, <1>3, PTL DEF Spec

-----------------------------------------------------------------------------
(* Surfaces *)

\* A surface is one of the native window at hand, which is not gone before the
\* event that says so was handled; a buffer is active only in the draw callback.
SurfaceInv ==
  /\ \A w \in Window :
       /\ status[w] = "unborn" => active[w] = NoNative /\ ~valid[w]
       /\ Live(w) /\ valid[w] =>
            /\ surface[w] = window /\ window # NoNative
            /\ ui.in = "win_destroyed" => Unhandled
       /\ Live(w) /\ active[w] # NoNative =>
            cb = Call("draw", w) /\ valid[w] /\ active[w] = surface[w]
  /\ \A i \in DOMAIN events : events[i].type = "win_created" => window # NoNative
  /\ pc = "handle" /\ handling.type = "win_created" => window # NoNative
  /\ ui.at = "clearing" => pc = "finished"
  /\ making # NoWindow => pc = "fresh"

LEMMA SurfaceInit == Init => SurfaceInv
  BY DEF Init, SurfaceInv, Ui, Live

\* Taking the next event keeps the one that is waited for.
LEMMA NextKeeps ==
  ASSUME TypeOK, NextEvent, pc # "handle"
  PROVE  /\ Unhandled => Unhandled'
         /\ \A i \in DOMAIN events' : \E j \in DOMAIN events : events'[i] = events[j]
         /\ pc' = "handle" => \E j \in DOMAIN events : handling' = events[j]
         /\ pc' \in {"poll", "handle"}
<1>1. events \in Seq(Event)
  BY DEF TypeOK
<1>2. CASE events = <<>>
  BY <1>2 DEF NextEvent, Unhandled
<1>3. CASE events # <<>>
  <2>1. /\ pc' = "handle" /\ handling' = events[1] /\ 1 \in DOMAIN events
        /\ \A i \in DOMAIN events' : i + 1 \in DOMAIN events /\ events'[i] = events[i + 1]
        /\ \A i \in DOMAIN events : i # 1 => i - 1 \in DOMAIN events' /\ events'[i - 1] = events[i]
    BY <1>1, <1>3, TailEvents DEF NextEvent
  <2> QED
    BY <2>1 DEF Unhandled
<1> QED
  BY <1>2, <1>3

\* While the activity's thread waits for an event, that event is on its way,
\* as long as somebody is there to handle it.
LEMMA WaitedFor ==
  ASSUME TypeOK, WaitInv, ui.at = "waiting",
         pc = "fresh" \/ (pc = "handle" /\ ~handling.wait)
  PROVE  \E i \in DOMAIN events : events[i].wait
<1>1. events # <<>> /\ events[Len(events)].wait
  BY DEF WaitInv, InHand, BeforeLoop, Over
<1>2. Len(events) \in DOMAIN events
  BY <1>1, TailEvents DEF TypeOK
<1> QED
  BY <1>1, <1>2

LEMMA SurfaceSystem ==
  ASSUME habits \cap {"early", "late", "holds"} = {},
         TypeOK, PhaseInv, WaitInv, SurfaceInv, System
  PROVE  SurfaceInv'
<1> USE DEF activityVars, systemVars, queueVars, winVars
<1>1. ui.at = "idle" /\ ui.in = "none"
  BY DEF System, WindowCreated, Notify, WindowDestroyed, QueueCreated, QueueDestroyed, Destroy,
         UiIdle, PhaseInv
<1>2. ASSUME NEW n \in NativeWindow, WindowCreated(n) PROVE SurfaceInv'
  <2>1. /\ window = NoNative /\ window' = n /\ n # NoNative
        /\ pc' = pc \/ (pc = "none" /\ pc' = "start")
        /\ UNCHANGED <<ui, handling, cb, status, active, valid, surface, making>>
    BY <1>2, NullAssumption DEF WindowCreated, PhaseInv
  <2>2. \A w \in Window : Live(w) => ~valid[w] /\ active[w] = NoNative
    BY <2>1 DEF SurfaceInv
  <2> QED
    BY <1>1, <2>1, <2>2 DEF SurfaceInv, Live
<1>3. ASSUME NEW ev \in Event, Push(ev), ev.type # "win_created",
             UNCHANGED <<window, handling, cb, status, active, valid, surface, making, pc>>,
             ui'.at = "clearing" => pc = "finished",
             ui'.in = "win_destroyed" => Unhandled' \/ \A w \in Window : ~Live(w)
      PROVE  SurfaceInv'
  <2>1. \A i \in DOMAIN events' : events'[i].type = "win_created" => window # NoNative
    BY <1>3, PushedEvents DEF SurfaceInv
  <2> QED
    BY <1>1, <1>3, <2>1 DEF SurfaceInv, Live
<1>4. ASSUME NEW type \in {"focus", "draw", "resize"}, Notify(type) PROVE SurfaceInv'
  <2>1. Ev(type) \in Event /\ Ev(type).type # "win_created"
    BY EventTypes DEF Ev, EventType
  <2> QED
    BY <1>1, <1>3, <1>4, <2>1 DEF Notify
<1>5. CASE WindowDestroyed
  <2> DEFINE ev == WaitEv("win_destroyed", NoQueue)
  <2>1. ev \in Event /\ ev.type # "win_created" /\ ev.wait
    BY EventTypes DEF WaitEv, EventType
  <2>2. /\ Push(ev) /\ pc \notin {"none", "start"}
        /\ ui' = Ui(IF dpy THEN "waiting" ELSE "clearing", "win_destroyed")
        /\ UNCHANGED <<window, handling, cb, status, active, valid, surface, making, pc>>
    BY <1>5 DEF WindowDestroyed
  <2>3. ui'.at = IF dpy THEN "waiting" ELSE "clearing"
    BY <2>2 DEF Ui
  <2> HIDE DEF ev
  <2>4. dpy => Unhandled'
    BY <2>1, <2>2, PushedEvents DEF Unhandled
  <2>5. ~dpy => pc = "finished" /\ \A w \in Window : ~Live(w)
    BY <2>2, NullAssumption DEF PhaseInv
  <2> QED
    BY <1>3, <2>1, <2>2, <2>3, <2>4, <2>5
<1>6. ASSUME NEW type \in {"queue_created", "queue_destroyed"}, NEW q \in Queue \cup {NoQueue},
             PushWait(type, q, type),
             UNCHANGED <<window, handling, cb, status, active, valid, surface, making, pc>>
      PROVE  SurfaceInv'
  <2>1. WaitEv(type, q) \in Event /\ WaitEv(type, q).type # "win_created"
    BY EventTypes DEF WaitEv, EventType
  <2>2. Push(WaitEv(type, q)) /\ ui'.in # "win_destroyed" /\ ui'.at # "clearing"
    BY <1>6 DEF PushWait, Ui
  <2> QED
    BY <1>3, <1>6, <2>1, <2>2
<1>7. ASSUME NEW q \in Queue, QueueCreated(q) PROVE SurfaceInv'
  BY <1>6, <1>7 DEF QueueCreated
<1>8. CASE QueueDestroyed
  <2>1. lentQueue \in Queue \cup {NoQueue}
    BY DEF TypeOK
  <2> QED
    BY <1>6, <1>8, <2>1 DEF QueueDestroyed
<1>9. CASE Destroy
  BY <1>9 DEF Destroy, Ui, SurfaceInv, Live
<1> QED
  BY <1>2, <1>4, <1>5, <1>7, <1>8, <1>9 DEF System

LEMMA SurfaceActivity ==
  ASSUME PhaseInv, WaitInv, SurfaceInv, Activity
  PROVE  SurfaceInv'
<1> USE DEF activityVars, systemVars, queueVars, winVars
<1>1. CASE UiReturns
  <2>1. events = <<>> /\ ~InHand /\ ~Unhandled
    BY <1>1 DEF UiReturns, WaitInv, Unhandled, InHand
  <2>2. /\ UNCHANGED <<events, handling, cb, status, active, valid, surface, making, pc>>
        /\ ui.in # "win_destroyed" => window' = window
        /\ ui'.at = "idle" /\ ui'.in = "none"
    BY <1>1 DEF UiReturns, Ui
  <2>3. ui.in = "win_destroyed" => \A w \in Window : Live(w) => ~valid[w]
    BY <2>1 DEF SurfaceInv
  <2> QED
    BY <2>1, <2>2, <2>3 DEF SurfaceInv, Live, InHand
<1>2. CASE DestroyReads \/ DestroyWakes \/ DestroyJoins
  <2>1. /\ UNCHANGED <<events, handling, window, cb, status, active, valid, surface, making, pc>>
        /\ ui'.in = "destroy" /\ ui'.at # "clearing"
    BY <1>2 DEF DestroyReads, DestroyWakes, DestroyJoins, Ui
  <2> QED
    BY <2>1 DEF SurfaceInv, Live
<1> QED
  BY <1>1, <1>2 DEF Activity

LEMMA SurfaceApplication ==
  ASSUME habits \cap {"early", "late", "holds"} = {},
         TypeOK, PhaseInv, WaitInv, SurfaceInv, Application
  PROVE  SurfaceInv'
<1> USE DEF activityVars, systemVars, queueVars, winVars
<1>1. ASSUME NEW w \in Window, CreateWindow(w) PROVE SurfaceInv'
  <2>1. /\ pc = "fresh" /\ status[w] = "unborn" /\ active[w] = NoNative /\ ~valid[w]
        /\ UNCHANGED <<events, handling, ui, window, cb, active, valid, surface, pc>>
        /\ \E s \in {"live", "unborn"} : status' = [status EXCEPT ![w] = s]
    BY <1>1 DEF CreateWindow, SurfaceInv, TypeOK
  <2>2. \A v \in Window \ {w} : status'[v] = status[v]
    BY <2>1 DEF TypeOK
  <2> QED
    BY <2>1, <2>2 DEF SurfaceInv, Live, Unhandled
<1>8. ASSUME NEW w \in Window, NEW ok \in BOOLEAN, MakeSurface(w, ok) PROVE SurfaceInv'
  <2>1. /\ making = w /\ making' = NoWindow /\ w # NoWindow /\ pc = "fresh"
        /\ UNCHANGED <<events, handling, ui, window, active>>
    BY <1>8, NullAssumption DEF MakeSurface, SurfaceInv
  <2>2. status[w] = "unborn" /\ active[w] = NoNative /\ \A v \in Window : ~Live(v)
    BY <2>1, NullAssumption DEF PhaseInv, SurfaceInv
  <2>3. CASE window = NoNative
    <3>1. UNCHANGED <<status, valid, surface>> /\ pc' = "crashed"
      BY <1>8, <2>3 DEF MakeSurface, Crash
    <3> QED
      BY <2>1, <2>2, <2>3, <3>1 DEF SurfaceInv, Live
  <2>4. CASE window # NoNative
    <3>1. /\ valid' = [valid EXCEPT ![w] = ok] /\ UNCHANGED <<pc, cb>>
          /\ surface' = [surface EXCEPT ![w] = IF ok THEN window ELSE @]
          /\ \E s \in {"live", "freed"} : status' = [status EXCEPT ![w] = s]
      BY <1>8, <2>4 DEF MakeSurface
    <3>2. ui.in = "win_destroyed" => Unhandled
      <4>1. ui.in = "win_destroyed" => ui.at \in {"waiting", "clearing"}
        BY DEF PhaseInv, TypeOK, UiAt
      <4>2. ui.at # "clearing"
        BY <2>1 DEF SurfaceInv
      <4> QED
        BY <2>1, <4>1, <4>2, WaitedFor DEF Unhandled
    <3>3. valid'[w] => surface'[w] = window
      BY <3>1 DEF TypeOK
    <3>4. \A v \in Window \ {w} :
            status'[v] = status[v] /\ valid'[v] = valid[v] /\ surface'[v] = surface[v]
      BY <3>1 DEF TypeOK
    <3>5. status'[w] # "unborn"
      BY <3>1 DEF TypeOK
    <3>6. Unhandled' <=> Unhandled
      BY <2>1, <3>1 DEF Unhandled
    <3> QED
      BY <2>1, <2>2, <2>4, <3>1, <3>2, <3>3, <3>4, <3>5, <3>6 DEF SurfaceInv, Live
  <2> QED
    BY <2>3, <2>4
<1>2. ASSUME NEW w \in Window, DestroyWindow(w) PROVE SurfaceInv'
  <2>1. /\ status' = [status EXCEPT ![w] = "freed"] /\ valid' = [valid EXCEPT ![w] = FALSE]
        /\ UNCHANGED <<events, handling, ui, window, cb, active, surface, making, pc>>
    BY <1>2 DEF DestroyWindow
  <2>2. status'[w] = "freed"
        /\ \A v \in Window \ {w} : status'[v] = status[v] /\ valid'[v] = valid[v]
    BY <2>1 DEF TypeOK
  <2> QED
    BY <2>1, <2>2 DEF SurfaceInv, Live, Unhandled
<1>3. ASSUME NEW w \in Window, GetBuffer(w) \/ ApplyBuffer(w) PROVE SurfaceInv'
  <2>1. /\ cb = Call("draw", w) /\ Live(w) /\ valid[w]
        /\ active' = [active EXCEPT ![w] = window] \/ active' = [active EXCEPT ![w] = NoNative]
        /\ UNCHANGED <<events, handling, ui, window, cb, status, valid, surface, making, pc>>
    BY <1>3 DEF GetBuffer, ApplyBuffer, Drawing
  <2>2. active'[w] \in {window, NoNative} /\ \A v \in Window \ {w} : active'[v] = active[v]
    BY <2>1 DEF TypeOK
  <2>3. window = surface[w] /\ status[w] # "unborn"
    BY <2>1 DEF SurfaceInv, Live
  <2> QED
    BY <2>1, <2>2, <2>3 DEF SurfaceInv, Live, Unhandled
<1>4. CASE Return
  <2>1. \A w \in Window : Live(w) => active[w] = NoNative
    BY <1>4 DEF Return, SurfaceInv, Call
  <2>2. UNCHANGED <<events, handling, ui, window, active, status, valid, surface, making, pc>>
    BY <1>4 DEF Return
  <2> QED
    BY <2>1, <2>2 DEF SurfaceInv, Live, Unhandled
<1>5. CASE Wakeup \/ \E w \in Window : Refresh(w) \/ SurfaceFrame(w)
  <2>1. UNCHANGED <<events, handling, ui, window, cb, active, status, valid, surface, making, pc>>
    BY <1>5 DEF Wakeup, Refresh, SurfaceFrame
  <2> QED
    BY <2>1 DEF SurfaceInv, Live, Unhandled
<1>6. ASSUME \/ DisplayCreate \/ CreateReads \/ CreateAttach \/ CreateCompares \/ Quit
             \/ \E b \in BOOLEAN : Dispatch(b)
      PROVE  SurfaceInv'
  <2>1. /\ UNCHANGED <<events, handling, ui, window, active, status, valid, surface, making>>
        /\ pc \notin {"handle", "finished"} /\ pc' # "handle"
        /\ making = NoWindow /\ (cb' = cb \/ cb = NoCb)
    BY <1>6
       DEF DisplayCreate, CreateReads, CreateAttach, CreateCompares, Crash, Quit, Dispatch, AppRuns,
           PhaseInv, SurfaceInv
  <2>2. ASSUME cb = NoCb, NEW w \in Window, Live(w) PROVE active[w] = NoNative
    <3>1. cb # Call("draw", w)
      BY <2>2 DEF NoCb, Call
    <3> QED
      BY <2>2, <3>1 DEF SurfaceInv
  <2> QED
    BY <2>1, <2>2 DEF SurfaceInv, Live, Unhandled
<1>7. CASE DisplayDestroy \/ DisplayGone
  <2>1. /\ UNCHANGED <<ui, cb, active, status, valid, making>>
        /\ pc \in {"left", "freeing"} /\ pc' \in {"freeing", "finished"}
        /\ events' = <<>> /\ dpyWindow = NoWindow
    BY <1>7 DEF DisplayDestroy, DisplayGone, PhaseInv
  <2>2. \A w \in Window : ~Live(w)
    BY <2>1, NullAssumption DEF PhaseInv
  <2> QED
    BY <2>1, <2>2 DEF SurfaceInv, Live
<1> QED
  BY <1>1, <1>2, <1>3, <1>4, <1>5, <1>6, <1>7, <1>8 DEF Application

LEMMA SurfaceMain ==
  ASSUME TypeOK, PhaseInv, WaitInv, SurfaceInv, Main
  PROVE  SurfaceInv'
<1> USE DEF activityVars, systemVars, queueVars, winVars
<1>1. /\ pc \notin {"finished", "none", "start", "fresh"} /\ making = NoWindow
      /\ UNCHANGED <<ui, window, status, active, making>>
  BY DEF Main, HandleEvent, InitialEvents, InitialSize, Drain, HandleNotify, HandleWindowCreated,
         HandleWindowDestroyed, HandleQueue, Handled, FrameCallback, InputReadable,
         PollReturns, DispatchReturns, SurfaceInv
<1>2. ui.at # "clearing" /\ (ui.in = "win_destroyed" => ui.at = "waiting")
  BY <1>1 DEF SurfaceInv, PhaseInv, TypeOK, UiAt
<1>3. cb = NoCb /\ \A w \in Window : Live(w) => active[w] = NoNative
  <2>1. cb = NoCb
    BY DEF Main, HandleEvent, InitialEvents, InitialSize, Drain, HandleNotify, HandleWindowCreated,
           HandleWindowDestroyed, HandleQueue, Handled, FrameCallback, InputReadable,
           PollReturns, DispatchReturns, PhaseInv
  <2> QED
    BY <2>1 DEF SurfaceInv, NoCb, Call
<1>4. CASE Drain \/ Handled
  <2>1. NextEvent /\ pc # "handle" /\ UNCHANGED <<valid, surface>>
    BY <1>4 DEF Drain, Handled
  <2> QED
    BY <1>1, <1>2, <1>3, <2>1, NextKeeps DEF SurfaceInv, Live
<1>5. CASE HandleEvent
  <2>1. pc = "handle" /\ pc' = "handled" /\ UNCHANGED <<events, handling>>
    BY <1>5 DEF HandleEvent, HandleNotify, HandleWindowCreated, HandleWindowDestroyed, HandleQueue
  <2>2. ui.in = "win_destroyed" /\ handling.type # "win_destroyed" => Unhandled'
    <3>1. ui.in = "win_destroyed" /\ handling.type # "win_destroyed" =>
            ui.at = "waiting" /\ ~handling.wait
      BY <1>2, <2>1 DEF WaitInv, InHand
    <3> QED
      BY <2>1, <3>1, WaitedFor DEF Unhandled
  <2>3. CASE handling.type = "win_created"
    <3>1. PICK ok \in BOOLEAN : HandleWindowCreated(ok)
      BY <1>5, <2>3
         DEF HandleEvent, HandleNotify, HandleWindowCreated, HandleWindowDestroyed, HandleQueue
    <3>2. \A w \in Window : valid'[w] =>
            (valid[w] /\ surface'[w] = surface[w]) \/ surface'[w] = window
      BY <3>1 DEF HandleWindowCreated, TypeOK
    <3>3. window # NoNative
      BY <2>1, <2>3 DEF SurfaceInv
    <3>4. \A w \in Window : status[w] = "unborn" => valid'[w] = valid[w]
      BY <3>1 DEF HandleWindowCreated, TypeOK, PhaseInv, Live
    <3> QED
      BY <1>1, <1>2, <1>3, <2>1, <2>2, <2>3, <3>2, <3>3, <3>4 DEF SurfaceInv, Live
  <2>4. CASE handling.type = "win_destroyed"
    <3>1. HandleWindowDestroyed
      BY <1>5, <2>4
         DEF HandleEvent, HandleNotify, HandleWindowCreated, HandleWindowDestroyed, HandleQueue
    <3>2. ASSUME NEW w \in Window, Live(w)  PROVE ~valid'[w]
      <4>1. dpyWindow = w /\ dpyWindow # NoWindow
        BY <3>2, NullAssumption DEF PhaseInv, Live
      <4> QED
        BY <3>1, <4>1 DEF HandleWindowDestroyed, TypeOK
    <3>3. \A w \in Window : valid'[w] => valid[w]
      BY <3>1 DEF HandleWindowDestroyed, TypeOK
    <3> QED
      BY <1>1, <1>2, <1>3, <2>1, <3>2, <3>3 DEF SurfaceInv, Live
  <2>5. CASE handling.type \notin {"win_created", "win_destroyed"}
    <3>1. UNCHANGED <<valid, surface>>
      BY <1>5, <2>5
         DEF HandleEvent, HandleNotify, HandleWindowCreated, HandleWindowDestroyed, HandleQueue
    <3> QED
      BY <1>1, <1>2, <1>3, <2>1, <2>2, <2>5, <3>1 DEF SurfaceInv, Live
  <2> QED
    BY <2>3, <2>4, <2>5
<1>6. CASE ~Drain /\ ~Handled /\ ~HandleEvent
  <2>1. /\ UNCHANGED <<valid, surface, events, handling>>
        /\ pc # "handle" /\ pc' # "handle"
    BY <1>6
       DEF Main, InitialEvents, InitialSize, FrameCallback, InputReadable, WakeMayGo, Crash,
           PollReturns, DispatchReturns
  <2>2. Unhandled' <=> Unhandled
    BY <2>1 DEF Unhandled
  <2> QED
    BY <1>1, <1>2, <1>3, <2>1, <2>2 DEF SurfaceInv, Live
<1> QED
  BY <1>4, <1>5, <1>6

\* A window's surface and the buffer that is locked are of the native window
\* the system lends, and gone before activity_onNativeWindowDestroyed returns:
\* for an application that creates its window before its first dispatch, applies
\* its buffers in the draw callback, and has its display when the system takes
\* the first native window back.
THEOREM SurfacesAlive == Spec => []SurfaceAlive
<1> DEFINE SurfaceGuarded == habits \cap {"early", "late", "holds"} = {} => SurfaceInv
           Inv == TypeOK /\ PhaseInv /\ WaitInv /\ SurfaceGuarded
<1>1. Init => Inv
  BY ThreadsInit, SurfaceInit
<1>2. Inv /\ [Next]_vars => Inv'
  <2> SUFFICES ASSUME Inv, [Next]_vars PROVE Inv'
    OBVIOUS
  <2>1. (TypeOK /\ PhaseInv /\ WaitInv)' /\ habits' = habits
    BY ThreadsStep, HabitsSame
  <2>2. ASSUME habits \cap {"early", "late", "holds"} = {}, SurfaceInv PROVE SurfaceInv'
    <3>1. CASE UNCHANGED vars
      BY <2>2, <3>1
         DEF vars, SurfaceInv, Live, Unhandled, activityVars, systemVars, queueVars, winVars
    <3> QED
      BY <2>2, <3>1, SurfaceSystem, SurfaceActivity, SurfaceApplication, SurfaceMain
         DEF Next, Terminated
  <2> QED
    BY <2>1, <2>2
<1>3. Inv => SurfaceAlive
  BY DEF PhaseInv, SurfaceInv, SurfaceAlive
<1> HIDE DEF Inv
<1> QED
  BY <1>1, <1>2, <1>3, PTL DEF Spec

-----------------------------------------------------------------------------
(* Draw events *)

\* A native window was announced before the event at i is handled.
CreatedAhead(i) ==
  \/ \E j \in DOMAIN events : j < i /\ events[j].type = "win_created"
  \/ pc = "handle" /\ handling.type = "win_created"

\* A draw event is in the queue only while there is a native window, and its
\* turn comes after the window it is for has its surface.  Frame callbacks are
\* posted for a window that lives.
DrawInv ==
  /\ \A w \in Window :
       /\ status[w] = "freed" => pc \in {"left", "freeing", "finished"}
       /\ status[w] = "unborn" => posted[w] = 0
  /\ cb.fn = "draw" => cb.win = dpyWindow /\ valid[cb.win]
  /\ \A i \in DOMAIN events : events[i].type = "draw" =>
       window # NoNative /\ (dpyWindow # NoWindow => valid[dpyWindow] \/ CreatedAhead(i))
  /\ pc = "handle" /\ handling.type = "draw" /\ dpyWindow # NoWindow => valid[dpyWindow]
  /\ window # NoNative /\ dpyWindow # NoWindow /\ ui.in # "win_destroyed" =>
       valid[dpyWindow] \/ CreatedAhead(Len(events) + 1)

LEMMA DrawInit == Init => DrawInv
  BY DEF Init, DrawInv, NoCb, Call

\* The activity's thread pushes an event; without a display it is dropped.
LEMMA DrawPush ==
  ASSUME TypeOK, PhaseInv, DrawInv, NEW ev \in Event, Push(ev), UiIdle,
         ev.type = "draw" => window # NoNative,
         window' # NoNative,
         window' = window \/ (window = NoNative /\ ev.type = "win_created"),
         UNCHANGED <<handling, cb, status, posted, valid, dpyWindow>>,
         pc' = pc \/ (pc = "none" /\ pc' = "start")
  PROVE  DrawInv'
<1>1. ui.in = "none"
  BY DEF UiIdle, PhaseInv
<1>2. CASE dpy
  <2>1. events' = Append(events, ev) /\ events \in Seq(Event) /\ pc' = pc
    BY <1>2, Pushed DEF TypeOK, PhaseInv
  <2>2. /\ Len(events) \in Nat /\ Len(events') = Len(events) + 1
        /\ DOMAIN events = 1 .. Len(events) /\ DOMAIN events' = 1 .. Len(events) + 1
        /\ \A i \in 1 .. Len(events) : events'[i] = events[i]
        /\ events'[Len(events) + 1] = ev
    BY <2>1, AppendEvents
  <2>3. \A i \in 1 .. Len(events) + 1 : CreatedAhead(i) => CreatedAhead(i)'
    BY <2>1, <2>2 DEF CreatedAhead
  <2>4. CreatedAhead(Len(events) + 1) \/ ev.type = "win_created" => CreatedAhead(Len(events) + 1)'
    BY <2>1, <2>2 DEF CreatedAhead
  <2>5. window = window' \/ \A i \in DOMAIN events : events[i].type # "draw"
    BY DEF DrawInv
  <2>6. dpyWindow # NoWindow => valid[dpyWindow] \/ CreatedAhead(Len(events) + 1)'
    BY <1>1, <2>4 DEF DrawInv
  <2>7. ASSUME NEW i \in DOMAIN events', events'[i].type = "draw"
        PROVE  dpyWindow # NoWindow => valid[dpyWindow] \/ CreatedAhead(i)'
    <3>1. CASE i \in 1 .. Len(events)
      <4>1. i \in DOMAIN events /\ events[i].type = "draw"
        BY <2>2, <2>7, <3>1
      <4> QED
        BY <2>2, <2>3, <3>1, <4>1 DEF DrawInv
    <3>2. CASE i = Len(events) + 1
      <4>1. ev.type = "draw" /\ window # NoNative
        BY <2>2, <2>7, <3>2
      <4>2. dpyWindow # NoWindow => valid[dpyWindow] \/ CreatedAhead(Len(events) + 1)
        BY <1>1, <4>1 DEF DrawInv
      <4> QED
        BY <2>2, <2>3, <3>2, <4>2
    <3> QED
      BY <2>2, <3>1, <3>2
  <2> QED
    BY <2>1, <2>6, <2>7 DEF DrawInv
<1>3. CASE ~dpy
  <2>1. events = <<>> /\ events' = <<>> /\ dpyWindow = NoWindow /\ pc' # "handle"
    BY <1>3, Pushed DEF PhaseInv
  <2> QED
    BY <2>1 DEF DrawInv
<1> QED
  BY <1>2, <1>3

\* An event that announces no native window and asks for no draw leaves the
\* draws in the queue as they are.
LEMMA DrawPushOther ==
  ASSUME TypeOK, PhaseInv, DrawInv, NEW ev \in Event, Push(ev), UiIdle,
         ev.type # "draw",
         UNCHANGED <<window, handling, cb, status, posted, valid, dpyWindow, pc>>
  PROVE  DrawInv'
<1>1. ui.in = "none"
  BY DEF UiIdle, PhaseInv
<1>2. CASE dpy
  <2>1. events' = Append(events, ev) /\ events \in Seq(Event)
    BY <1>2, Pushed DEF TypeOK
  <2>2. /\ Len(events) \in Nat /\ Len(events') = Len(events) + 1
        /\ DOMAIN events = 1 .. Len(events) /\ DOMAIN events' = 1 .. Len(events) + 1
        /\ \A i \in 1 .. Len(events) : events'[i] = events[i]
        /\ events'[Len(events) + 1] = ev
    BY <2>1, AppendEvents
  <2>3. \A i \in 1 .. Len(events) + 1 : CreatedAhead(i) => CreatedAhead(i)'
    BY <2>2 DEF CreatedAhead
  <2>4. CreatedAhead(Len(events) + 1) => CreatedAhead(Len(events) + 1)'
    BY <2>2 DEF CreatedAhead
  <2> QED
    BY <1>1, <2>2, <2>3, <2>4 DEF DrawInv
<1>3. CASE ~dpy
  <2>1. events = <<>> /\ events' = <<>> /\ dpyWindow = NoWindow
    BY <1>3, Pushed DEF PhaseInv
  <2> QED
    BY <2>1 DEF DrawInv
<1> QED
  BY <1>2, <1>3

LEMMA DrawSystem ==
  ASSUME TypeOK, PhaseInv, DrawInv, System
  PROVE  DrawInv'
<1> USE DEF activityVars, systemVars, queueVars, winVars
<1>1. ASSUME NEW n \in NativeWindow, WindowCreated(n) PROVE DrawInv'
  <2>1. Ev("win_created") \in Event /\ Ev("win_created").type = "win_created"
    BY EventTypes DEF Ev, EventType
  <2>2. /\ UiIdle /\ Push(Ev("win_created")) /\ window = NoNative /\ window' = n /\ n # NoNative
        /\ UNCHANGED <<handling, cb, status, posted, valid, dpyWindow>>
        /\ pc' = pc \/ (pc = "none" /\ pc' = "start")
    BY <1>1, NullAssumption DEF WindowCreated, PhaseInv
  <2> QED
    BY <2>1, <2>2, DrawPush
<1>2. ASSUME NEW type \in {"focus", "draw", "resize"}, Notify(type) PROVE DrawInv'
  <2>1. Ev(type) \in Event /\ Ev(type).type = type
    BY EventTypes DEF Ev, EventType
  <2>2. /\ UiIdle /\ Push(Ev(type)) /\ (type = "draw" => window # NoNative)
        /\ UNCHANGED <<window, handling, cb, status, posted, valid, dpyWindow, pc>>
    BY <1>2 DEF Notify, PhaseInv
  <2> QED
    BY <2>1, <2>2, DrawPush, DrawPushOther
<1>3. CASE WindowDestroyed
  <2>1. WaitEv("win_destroyed", NoQueue) \in Event
        /\ WaitEv("win_destroyed", NoQueue).type # "draw"
    BY EventTypes DEF WaitEv, EventType
  <2> QED
    BY <1>3, <2>1, DrawPushOther DEF WindowDestroyed
<1>4. ASSUME NEW q \in Queue, QueueCreated(q) PROVE DrawInv'
  <2>1. WaitEv("queue_created", q) \in Event /\ WaitEv("queue_created", q).type # "draw"
    BY EventTypes DEF WaitEv, EventType
  <2> QED
    BY <1>4, <2>1, DrawPushOther DEF QueueCreated, PushWait
<1>5. CASE QueueDestroyed
  <2>1. WaitEv("queue_destroyed", lentQueue) \in Event
        /\ WaitEv("queue_destroyed", lentQueue).type # "draw"
    BY EventTypes DEF WaitEv, EventType, TypeOK
  <2> QED
    BY <1>5, <2>1, DrawPushOther DEF QueueDestroyed, PushWait
<1>6. CASE Destroy
  <2>1. /\ ui.in # "win_destroyed"
        /\ UNCHANGED <<window, events, handling, cb, status, posted, valid, dpyWindow, pc>>
    BY <1>6 DEF Destroy, UiIdle, PhaseInv
  <2> QED
    BY <2>1 DEF DrawInv, CreatedAhead
<1> QED
  BY <1>1, <1>2, <1>3, <1>4, <1>5, <1>6 DEF System

\* When the activity's thread goes on, every event it had sent was handled.
LEMMA DrawActivity ==
  ASSUME TypeOK, PhaseInv, WaitInv, DrawInv, Activity
  PROVE  DrawInv'
<1> USE DEF activityVars, systemVars, queueVars, winVars
<1>1. CASE UiReturns
  <2>1. events = <<>> /\ pc # "handle"
    BY <1>1 DEF UiReturns, WaitInv, InHand
  <2>2. /\ UNCHANGED <<events, handling, cb, status, posted, valid, dpyWindow, pc>>
        /\ IF ui.in = "win_destroyed" THEN window' = NoNative ELSE window' = window
    BY <1>1 DEF UiReturns
  <2> QED
    BY <2>1, <2>2 DEF DrawInv, CreatedAhead
<1>2. CASE DestroyReads \/ DestroyWakes \/ DestroyJoins
  <2>1. /\ ui.in # "win_destroyed"
        /\ UNCHANGED <<window, events, handling, cb, status, posted, valid, dpyWindow, pc>>
    BY <1>2 DEF DestroyReads, DestroyWakes, DestroyJoins, PhaseInv
  <2> QED
    BY <2>1 DEF DrawInv, CreatedAhead
<1> QED
  BY <1>1, <1>2 DEF Activity

LEMMA DrawApplication ==
  ASSUME habits \cap {"closes", "fails"} = {}, TypeOK, PhaseInv, DrawInv, Application
  PROVE  DrawInv'
<1> USE DEF activityVars, systemVars, queueVars, winVars
<1>1. ASSUME NEW w \in Window, CreateWindow(w) \/ \E ok \in BOOLEAN : MakeSurface(w, ok)
      PROVE  DrawInv'
  <2>1. /\ UNCHANGED <<window, events, handling, ui, posted>> /\ dpyWindow = NoWindow
        /\ pc \notin {"handle", "left", "freeing", "finished"}
        /\ cb # NoCb \/ pc \in {"fresh", "app"}
    BY <1>1, NullAssumption DEF CreateWindow, MakeSurface, AppRuns, PhaseInv
  <2>2. cb.fn # "draw"
    <3>1. cb.fn = "draw" => cb # NoCb /\ cb.win = NoWindow
      BY <2>1 DEF DrawInv, NoCb, Call
    <3> QED
      BY <3>1, NullAssumption DEF PhaseInv
  <2>3. CASE UNCHANGED <<status, dpyWindow, valid, pc, cb>>
    BY <2>1, <2>2, <2>3 DEF DrawInv
  <2>4. CASE UNCHANGED <<status, dpyWindow, valid>> /\ Crash
    BY <2>1, <2>4 DEF DrawInv, Crash, NoCb, Call
  <2>5. ASSUME /\ status' = [status EXCEPT ![w] = "live"] /\ dpyWindow' = w /\ UNCHANGED <<pc, cb>>
               /\ window # NoNative => valid' = [valid EXCEPT ![w] = TRUE]
        PROVE  DrawInv'
    <3>1. /\ window # NoNative => valid'[w]
          /\ status'[w] = "live" /\ \A v \in Window \ {w} : status'[v] = status[v]
      BY <2>5 DEF TypeOK
    <3> QED
      BY <2>1, <2>2, <2>5, <3>1 DEF DrawInv
  <2> QED
    BY <1>1, <2>3, <2>4, <2>5 DEF CreateWindow, MakeSurface, Outcomes
<1>2. ASSUME NEW w \in Window, DestroyWindow(w) PROVE DrawInv'
  <2>1. /\ pc = "left" /\ dpyWindow' = NoWindow /\ status' = [status EXCEPT ![w] = "freed"]
        /\ UNCHANGED <<window, events, handling, ui, cb, posted, pc>>
    BY <1>2 DEF DestroyWindow
  <2>2. cb.fn # "draw"
    BY <2>1 DEF PhaseInv, NoCb, Call
  <2>3. status'[w] = "freed" /\ \A v \in Window \ {w} : status'[v] = status[v]
    BY <2>1 DEF TypeOK
  <2> QED
    BY <2>1, <2>2, <2>3 DEF DrawInv
<1>3. CASE ApplicationStays
  <2>1. \A w \in Window : status[w] = "unborn" => posted'[w] = posted[w]
    BY <1>3 DEF ApplicationStays, Return, Wakeup, Refresh, SurfaceFrame, GetBuffer, ApplyBuffer,
                Frame, Live, TypeOK
  <2>2. cb'.fn = "draw" => cb' = cb
    BY <1>3, StaysSame DEF NoCb, Call
  <2>3. /\ UNCHANGED <<window, events, handling, ui, status, valid, dpyWindow, pc>>
    BY <1>3, StaysSame
  <2> QED
    BY <2>1, <2>2, <2>3 DEF DrawInv, CreatedAhead
<1>4. ASSUME \/ DisplayCreate \/ CreateReads \/ CreateAttach \/ CreateCompares \/ Quit
             \/ \E b \in BOOLEAN : Dispatch(b)
      PROVE  DrawInv'
  <2>1. /\ pc \notin {"left", "freeing", "finished", "handle"} /\ pc' # "handle"
        /\ UNCHANGED <<window, events, handling, ui, status, posted, valid, dpyWindow>>
        /\ cb'.fn # "draw" \/ cb' = cb
    BY <1>4
       DEF DisplayCreate, CreateReads, CreateAttach, CreateCompares, Crash, Quit, Dispatch, AppRuns,
           NoCb, Call
  <2> QED
    BY <2>1 DEF DrawInv, CreatedAhead
<1>5. CASE DisplayDestroy \/ DisplayGone
  <2>1. /\ events' = <<>> /\ dpyWindow = NoWindow
        /\ pc' \in {"freeing", "finished"} /\ pc \in {"left", "freeing"}
        /\ UNCHANGED <<window, handling, ui, cb, status, posted, valid, dpyWindow>>
    BY <1>5 DEF DisplayDestroy, DisplayGone, PhaseInv
  <2> QED
    BY <2>1 DEF DrawInv
<1> QED
  BY <1>1, <1>2, <1>3, <1>4, <1>5 DEF Application, ApplicationStays

\* Taking the next event brings every draw event one closer to its turn.
LEMMA DrawNext ==
  ASSUME TypeOK, DrawInv, NextEvent, pc \in {"drain", "handled"},
         UNCHANGED <<window, ui, cb, status, posted, valid, dpyWindow>>
  PROVE  DrawInv'
<1>1. events \in Seq(Event)
  BY DEF TypeOK
<1>2. CASE events = <<>>
  <2>1. pc' = "poll" /\ events' = <<>>
    BY <1>2 DEF NextEvent
  <2>2. ~CreatedAhead(Len(events) + 1)
    BY <1>2 DEF CreatedAhead
  <2> QED
    BY <1>2, <2>1, <2>2 DEF DrawInv
<1>3. CASE events # <<>>
  <2>1. /\ pc' = "handle" /\ handling' = events[1]
        /\ Len(events) \in Nat \ {0} /\ Len(events') = Len(events) - 1
        /\ DOMAIN events = 1 .. Len(events) /\ DOMAIN events' = 1 .. Len(events) - 1
        /\ \A i \in 1 .. Len(events) - 1 : events'[i] = events[i + 1]
    BY <1>1, <1>3, TailEvents DEF NextEvent
  <2>2. ASSUME NEW i \in Nat, CreatedAhead(i + 1) PROVE CreatedAhead(i)'
    <3>1. PICK j \in 1 .. Len(events) : j < i + 1 /\ events[j].type = "win_created"
      BY <2>1, <2>2 DEF CreatedAhead
    <3>2. CASE j = 1
      BY <2>1, <3>1, <3>2 DEF CreatedAhead
    <3>3. CASE j # 1
      <4>1. j - 1 \in DOMAIN events' /\ j - 1 < i /\ events'[j - 1] = events[j]
        BY <2>1, <3>1, <3>3
      <4> QED
        BY <3>1, <4>1 DEF CreatedAhead
    <3> QED
      BY <3>2, <3>3
  <2>3. ~CreatedAhead(1)
    BY <2>1 DEF CreatedAhead
  <2>4. CreatedAhead(Len(events) + 1) => CreatedAhead(Len(events) + 1)'
    BY <2>1, <2>2
  <2>5. ASSUME NEW i \in DOMAIN events', events'[i].type = "draw"
        PROVE  /\ window # NoNative
               /\ dpyWindow # NoWindow => valid[dpyWindow] \/ CreatedAhead(i)'
    <3>1. i \in Nat /\ i + 1 \in DOMAIN events /\ events[i + 1].type = "draw"
      BY <2>1, <2>5
    <3> QED
      BY <2>2, <3>1 DEF DrawInv
  <2>6. handling'.type = "draw" /\ dpyWindow # NoWindow => valid[dpyWindow]
    BY <2>1, <2>3 DEF DrawInv
  <2> QED
    BY <2>1, <2>4, <2>5, <2>6 DEF DrawInv
<1> QED
  BY <1>2, <1>3

LEMMA DrawMain ==
  ASSUME habits \cap {"closes", "fails"} = {}, TypeOK, PhaseInv, WaitInv, DrawInv, Main
  PROVE  DrawInv'
<1> USE DEF activityVars, systemVars, queueVars, winVars
<1>1. CASE Drain \/ Handled
  BY <1>1, DrawNext DEF Drain, Handled
<1>2. CASE InitialEvents \/ InitialSize \/ InputReadable \/ PollReturns \/ DispatchReturns
  <2>1. /\ pc # "handle" /\ pc' # "handle"
        /\ pc \notin {"left", "freeing", "finished"}
        /\ UNCHANGED <<window, events, handling, ui, status, posted, valid, dpyWindow>>
        /\ cb'.fn # "draw" \/ cb' = cb
    <3>1. CASE InitialEvents \/ InitialSize
      BY <3>1 DEF InitialEvents, InitialSize, Crash, NoCb, Call
    <3>2. CASE InputReadable
      BY <3>2 DEF InputReadable, WakeMayGo, Crash, NoCb, Call
    <3>3. CASE PollReturns \/ DispatchReturns
      BY <3>3 DEF PollReturns, DispatchReturns
    <3> QED
      BY <1>2, <3>1, <3>2, <3>3
  <2> QED
    BY <2>1 DEF DrawInv, CreatedAhead
<1>3. ASSUME NEW w \in Window, FrameCallback(w) PROVE DrawInv'
  <2>1. /\ pc = "poll" /\ posted[w] > 0 /\ posted' = [posted EXCEPT ![w] = @ - 1]
        /\ UNCHANGED <<window, events, handling, ui, status, valid, dpyWindow, pc>>
    BY <1>3 DEF FrameCallback, WakeMayGo
  <2>2. status[w] = "live"
    BY <2>1 DEF DrawInv, TypeOK
  <2>3. cb'.fn = "draw" => cb'.win = dpyWindow /\ valid[cb'.win]
    BY <1>3, <2>2 DEF FrameCallback, Live, PhaseInv, NoCb, Call
  <2>4. \A v \in Window : v # w => posted'[v] = posted[v]
    BY <2>1 DEF TypeOK
  <2> QED
    BY <2>1, <2>2, <2>3, <2>4 DEF DrawInv, CreatedAhead
<1>4. CASE HandleEvent
  <2>1. /\ pc = "handle" /\ pc' = "handled" /\ cb = NoCb
        /\ UNCHANGED <<window, events, handling, ui, status, posted, dpyWindow>>
    BY <1>4 DEF HandleEvent, HandleNotify, HandleWindowCreated, HandleWindowDestroyed, HandleQueue,
                PhaseInv
  <2>2. cb.fn # "draw"
    BY <2>1 DEF NoCb, Call
  <2>3. CASE handling.type = "win_created"
    <3>1. HandleWindowCreated(TRUE)
      BY <1>4, <2>3
         DEF HandleEvent, HandleNotify, HandleWindowCreated, HandleWindowDestroyed, HandleQueue,
             Outcomes
    <3>2. dpyWindow # NoWindow => valid'[dpyWindow]
      BY <3>1 DEF HandleWindowCreated, TypeOK
    <3>3. cb'.fn # "draw"
      BY <2>2, <3>1 DEF HandleWindowCreated, Call
    <3> QED
      BY <2>1, <3>2, <3>3 DEF DrawInv
  <2>4. CASE handling.type = "win_destroyed"
    <3>1. events = <<>> /\ ui.in = "win_destroyed"
      BY <2>1, <2>4 DEF WaitInv, InHand, Waited
    <3>2. cb'.fn # "draw"
      BY <1>4, <2>2, <2>4
         DEF HandleEvent, HandleNotify, HandleWindowCreated, HandleWindowDestroyed, HandleQueue,
             Call
    <3> QED
      BY <2>1, <3>1, <3>2 DEF DrawInv
  <2>5. CASE handling.type \notin {"win_created", "win_destroyed"}
    <3>1. valid' = valid
      BY <1>4, <2>5
         DEF HandleEvent, HandleNotify, HandleWindowCreated, HandleWindowDestroyed, HandleQueue
    <3>2. cb'.fn = "draw" => handling.type = "draw" /\ dpyWindow # NoWindow /\ cb'.win = dpyWindow
      BY <1>4, <2>1, <2>2, <2>5
         DEF HandleEvent, HandleNotify, HandleWindowCreated, HandleWindowDestroyed, HandleQueue,
             Tell, NoCb, Call
    <3>3. \A i : CreatedAhead(i) => CreatedAhead(i)'
      BY <2>1, <2>5 DEF CreatedAhead
    <3> QED
      BY <2>1, <3>1, <3>2, <3>3 DEF DrawInv
  <2> QED
    BY <2>3, <2>4, <2>5
<1> QED
  BY <1>1, <1>2, <1>3, <1>4 DEF Main

\* A draw event comes to a window with a surface: from the frame callback, which
\* asks, and from the system, whose events are handled in the order they were
\* sent; for an application that closes no window while it dispatches, and as
\* long as create_surface does not fail.
THEOREM DrawsOnSurfaces == Spec => []DrawOnSurface
<1> DEFINE DrawGuarded == habits \cap {"closes", "fails"} = {} => DrawInv
           Inv == TypeOK /\ PhaseInv /\ WaitInv /\ DrawGuarded
<1>1. Init => Inv
  BY ThreadsInit, DrawInit
<1>2. Inv /\ [Next]_vars => Inv'
  <2> SUFFICES ASSUME Inv, [Next]_vars PROVE Inv'
    OBVIOUS
  <2>1. (TypeOK /\ PhaseInv /\ WaitInv)' /\ habits' = habits
    BY ThreadsStep, HabitsSame
  <2>2. ASSUME habits \cap {"closes", "fails"} = {}, DrawInv PROVE DrawInv'
    <3>1. CASE UNCHANGED vars
      BY <2>2, <3>1
         DEF vars, DrawInv, CreatedAhead, activityVars, systemVars, queueVars, winVars
    <3> QED
      BY <2>2, <3>1, DrawSystem, DrawActivity, DrawApplication, DrawMain
         DEF Next, Terminated
  <2> QED
    BY <2>1, <2>2
<1>3. Inv => DrawOnSurface
  BY DEF DrawInv, DrawOnSurface
<1> HIDE DEF Inv
<1> QED
  BY <1>1, <1>2, <1>3, PTL DEF Spec
=============================================================================

------------------------------- MODULE Redraw -------------------------------
(***************************************************************************)
(* What include/swa/swa.h promises about drawing, whatever the backend:    *)
(* a request to redraw (swa_window_refresh, or the system invalidating the *)
(* window) is kept until a draw event answers it, draw events come one at  *)
(* a time, and while a frame announced with swa_window_surface_frame is    *)
(* on its way to the screen no draw event is emitted.  When that frame     *)
(* ends and a redraw was asked for meanwhile, the draw event comes at once.*)
(* This module knows nothing of callbacks, configure events or timers.     *)
(***************************************************************************)
CONSTANT Window

VARIABLES
  alive,      \* windows that exist
  asked,      \* windows owing the application a draw event
  throttled,  \* windows with a frame on its way to the screen
  drawing     \* the window whose draw callback runs, as a set of at most one

redrawVars == <<alive, asked, throttled, drawing>>

Init ==
  /\ alive = {} /\ asked = {} /\ throttled = {} /\ drawing = {}

\* A new window may owe a first draw event.
Create(w) ==
  /\ w \notin alive
  /\ alive' = alive \cup {w}
  /\ asked' \in {asked, asked \cup {w}}
  /\ UNCHANGED <<throttled, drawing>>

Ask(w) ==
  /\ w \in alive
  /\ asked' = asked \cup {w}
  /\ UNCHANGED <<alive, throttled, drawing>>

\* The draw event that answers the request.
Draw(w) ==
  /\ drawing = {}
  /\ w \in asked \ throttled
  /\ asked' = asked \ {w}
  /\ drawing' = {w}
  /\ UNCHANGED <<alive, throttled>>

EndDraw ==
  /\ drawing' = {}
  /\ UNCHANGED <<alive, asked, throttled>>

\* New contents are presented: the next draw event waits for the screen.
Frame(w) ==
  /\ w \in alive
  /\ throttled' = throttled \cup {w}
  /\ UNCHANGED <<alive, asked, drawing>>

\* The frame reached the screen; a request made meanwhile is answered at once.
FrameEnd(w) ==
  /\ w \in throttled
  /\ throttled' = throttled \ {w}
  /\ IF w \in asked
       THEN drawing = {} /\ drawing' = {w} /\ asked' = asked \ {w}
       ELSE UNCHANGED <<asked, drawing>>
  /\ UNCHANGED alive

Destroy(w) ==
  /\ w \in alive
  /\ alive' = alive \ {w}
  /\ asked' = asked \ {w}
  /\ throttled' = throttled \ {w}
  /\ UNCHANGED drawing

Next ==
  \/ EndDraw
  \/ \E w \in Window :
       Create(w) \/ Ask(w) \/ Draw(w) \/ Frame(w) \/ FrameEnd(w) \/ Destroy(w)

Spec == Init /\ [][Next]_redrawVars
=============================================================================

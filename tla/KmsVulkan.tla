----------------------------- MODULE KmsVulkan -----------------------------
(***************************************************************************)
(* A Vulkan window of the KMS backend (src/swa/kms/vulkan.c and its calls  *)
(* from kms.c): the frame thread that waits for the fence of the last      *)
(* frame and wakes the main thread through an eventfd.                     *)
(*                                                                         *)
(* frame.fence is written by the frame thread without the mutex, and read  *)
(* by the main thread with it; a handle is taken to be read and written    *)
(* whole.  Nothing ever ends the thread: win_destroy does not call         *)
(* swa_kms_vk_surface_destroy, and display_create_window calls it only     *)
(* before the thread is started, so frame.join is never set.               *)
(*                                                                         *)
(* The proofs are in KmsDisplayProofs, so no name here is one of           *)
(* KmsDisplay's.                                                           *)
(***************************************************************************)
EXTENDS Integers

CONSTANTS
  NFences,  \* bound on the VkFence handles in use
  FreeDraw, \* the application draws outside of draw callbacks, too
  Destroys  \* the application destroys the window

ASSUME BoundAssumption == NFences \in Nat \ {0}
ASSUME EnvironmentAssumption == {FreeDraw, Destroys} \subseteq BOOLEAN

Fences == 1 .. NFences \* 0 is VK_NULL_HANDLE

VARIABLES
  \* struct swa_kms_vk_surface
  fence,       \* frame.fence
  nextFence,   \* frame.next_fence
  redraw,      \* frame.redraw
  eventfd,     \* the eventfd is readable
  \* struct swa_window_kms
  live,        \* the window is not freed
  deferDraw,   \* its defer is enabled, for a draw event
  \* the two threads
  thread,      \* where the frame thread is
  main,        \* where the main thread is
  drew,        \* the application drew in the draw callback being run
  \* the driver
  fences,      \* what has become of the fence behind each handle
  \* what the application was told and asked for
  wanted       \* it expects a draw event

vkWinVars == <<live, deferDraw>>
vkVars == <<fence, nextFence, redraw, eventfd, vkWinVars, thread, main, drew, fences, wanted>>

TypeOK ==
  /\ fence \in Fences \cup {0}
  /\ nextFence \in Fences \cup {0}
  /\ redraw \in BOOLEAN
  /\ eventfd \in BOOLEAN
  /\ live \in BOOLEAN
  /\ deferDraw \in BOOLEAN
  /\ thread \in {"top", "asleep", "wait", "completed", "cleared"}
  /\ main \in {"idle", "draw", "pending", "draw_pending"}
  /\ drew \in BOOLEAN
  /\ fences \in [Fences -> {"none", "registered", "signaled"}]
  /\ wanted \in BOOLEAN

\* A window just created owes its first draw event.
VkInit ==
  /\ fence = 0 /\ nextFence = 0
  /\ redraw = FALSE /\ eventfd = FALSE
  /\ live = TRUE /\ deferDraw = TRUE
  /\ thread = "top" /\ main = "idle" /\ drew = FALSE
  /\ fences = [f \in Fences |-> "none"]
  /\ wanted = TRUE

-----------------------------------------------------------------------------
(* frame_thread *)

\* pthread_cond_wait, with neither fence set
Sleep ==
  /\ thread = "top" /\ fence = 0 /\ nextFence = 0
  /\ thread' = "asleep"
  /\ UNCHANGED <<fence, nextFence, redraw, eventfd, vkWinVars, main, drew, fences, wanted>>

\* The next fence is taken when there is no other, and waited for.
Take ==
  /\ thread = "top"
  /\ IF fence = 0
       THEN nextFence # 0 /\ fence' = nextFence /\ nextFence' = 0
       ELSE UNCHANGED <<fence, nextFence>>
  /\ thread' = "wait"
  /\ UNCHANGED <<redraw, eventfd, vkWinVars, main, drew, fences, wanted>>

\* vkWaitForFences times out.
WaitTimeout ==
  /\ thread = "wait" /\ fences[fence] # "signaled"
  /\ thread' = "top"
  /\ UNCHANGED <<fence, nextFence, redraw, eventfd, vkWinVars, main, drew, fences, wanted>>

\* vkWaitForFences succeeds, and the fence is destroyed.
WaitSuccess ==
  /\ thread = "wait" /\ fences[fence] = "signaled"
  /\ fences' = [fences EXCEPT ![fence] = "none"]
  /\ thread' = "completed"
  /\ UNCHANGED <<fence, nextFence, redraw, eventfd, vkWinVars, main, drew, wanted>>

ClearFence ==
  /\ thread = "completed"
  /\ fence' = 0
  /\ thread' = "cleared"
  /\ UNCHANGED <<nextFence, redraw, eventfd, vkWinVars, main, drew, fences, wanted>>

\* Mutant: the main thread is not told.
NotifyNobody ==
  /\ thread = "cleared"
  /\ thread' = "top"
  /\ UNCHANGED <<fence, nextFence, redraw, eventfd, vkWinVars, main, drew, fences, wanted>>

Notify ==
  /\ thread = "cleared"
  /\ eventfd' = TRUE
  /\ thread' = "top"
  /\ UNCHANGED <<fence, nextFence, redraw, vkWinVars, main, drew, fences, wanted>>

FrameThread == Sleep \/ Take \/ WaitTimeout \/ WaitSuccess \/ ClearFence \/ Notify

-----------------------------------------------------------------------------
(* The main thread *)

\* The application runs between two dispatches or in the draw callback.
AppRuns == live /\ main \in {"idle", "draw"}

\* Mutant: the fence that was never taken is leaked.
DestroyedNone(f) == fences' = [fences EXCEPT ![f] = "registered"]

\* The fence registered now replaces one that was never taken.
Replaced(f) ==
  fences' = [g \in Fences |-> IF g = f THEN "registered"
                              ELSE IF g = nextFence THEN "none" ELSE fences[g]]

\* Mutant: the frame thread is not woken for the fence.
Unsignalled == UNCHANGED thread

\* pthread_cond_signal
WakeThread == thread' = IF thread = "asleep" THEN "top" ELSE thread

\* swa_kms_vk_surface_frame; when the event cannot be registered nothing
\* changes.
SurfaceFrame ==
  /\ AppRuns
  /\ FreeDraw \/ (main = "draw" /\ ~drew)
  /\ drew' = (main = "draw")
  /\ \E f \in Fences :
       /\ fences[f] = "none"
       /\ nextFence' = f
       /\ Replaced(f)
  /\ WakeThread
  /\ UNCHANGED <<fence, redraw, eventfd, vkWinVars, main, wanted>>

\* swa_kms_vk_surface_refresh's test, under the mutex
Pending == fence # 0 \/ nextFence # 0

\* win_refresh and swa_kms_vk_surface_refresh; an error in a draw callback that
\* has not drawn yet
Refresh ==
  /\ AppRuns
  /\ main = "draw" => drew
  /\ IF Pending
       THEN main' = (IF main = "draw" THEN "draw_pending" ELSE "pending")
            /\ UNCHANGED deferDraw
       ELSE deferDraw' = TRUE /\ UNCHANGED main
  /\ wanted' = TRUE
  /\ UNCHANGED <<fence, nextFence, redraw, eventfd, live, thread, drew, fences>>

\* The redraw flag is set after the mutex was released.
SetRedraw ==
  /\ main \in {"pending", "draw_pending"}
  /\ redraw' = TRUE
  /\ main' = IF main = "draw_pending" THEN "draw" ELSE "idle"
  /\ UNCHANGED <<fence, nextFence, eventfd, vkWinVars, thread, drew, fences, wanted>>

DrawEvent == main' = "draw" /\ drew' = FALSE /\ wanted' = FALSE

\* win_handle_deferred
HandleDeferred ==
  /\ main = "idle" /\ live /\ deferDraw
  /\ deferDraw' = FALSE
  /\ DrawEvent
  /\ UNCHANGED <<fence, nextFence, redraw, eventfd, live, thread, fences>>

\* eventfd_readable.  It is called for a window that was freed, too.
EventfdReadable ==
  /\ main = "idle" /\ eventfd
  /\ eventfd' = FALSE
  /\ redraw' = FALSE
  /\ IF redraw THEN DrawEvent ELSE UNCHANGED <<main, drew, wanted>>
  /\ UNCHANGED <<fence, nextFence, vkWinVars, thread, fences>>

DrawReturn ==
  /\ main = "draw"
  /\ main' = "idle"
  /\ UNCHANGED <<fence, nextFence, redraw, eventfd, vkWinVars, thread, drew, fences, wanted>>

\* win_destroy frees the window, and nothing else.  That it keeps the defer is
\* the concern of KmsFlip.
DestroyWindow ==
  /\ AppRuns /\ Destroys /\ ~deferDraw
  /\ live' = FALSE
  /\ wanted' = FALSE
  /\ UNCHANGED <<fence, nextFence, redraw, eventfd, deferDraw, thread, main, drew, fences>>

MainThread ==
  SurfaceFrame \/ Refresh \/ SetRedraw \/ HandleDeferred \/ EventfdReadable \/ DrawReturn
    \/ DestroyWindow

\* The first pixel of the next frame leaves the display.
FirstPixelOut(f) ==
  /\ fences[f] = "registered"
  /\ fences' = [fences EXCEPT ![f] = "signaled"]
  /\ UNCHANGED <<fence, nextFence, redraw, eventfd, vkWinVars, thread, main, drew, wanted>>

VkNext == FrameThread \/ MainThread \/ \E f \in Fences : FirstPixelOut(f)

VkSpec == VkInit /\ [][VkNext]_vkVars

\* Both threads are scheduled, pml_iterate runs what is enabled or readable,
\* callbacks return and the display goes on showing frames.
Fairness ==
  /\ WF_vkVars(FrameThread) /\ SF_vkVars(WaitSuccess)
  /\ WF_vkVars(SetRedraw) /\ WF_vkVars(DrawReturn)
  /\ SF_vkVars(HandleDeferred) /\ SF_vkVars(EventfdReadable)
  /\ \A f \in Fences : WF_vkVars(FirstPixelOut(f))

FairSpec == VkSpec /\ Fairness

-----------------------------------------------------------------------------
(* Properties *)

\* Neither thread waits for, keeps or destroys a fence the other has destroyed,
\* and no fence is lost (frame_thread against swa_kms_vk_surface_frame).
FencesOwned ==
  /\ thread = "wait" => fence # 0 /\ fences[fence] # "none"
  /\ nextFence # 0 => fences[nextFence] # "none"
  /\ fence # 0 /\ thread # "completed" => fence # nextFence
  /\ \A f \in Fences : fences[f] # "none" => f \in {fence, nextFence}

\* A redraw that waits for a frame is not forgotten: the frame is still being
\* waited for, or the main thread is about to be told that it is over
\* (swa_kms_vk_surface_refresh sets the flag after it released the mutex).
RedrawKept ==
  redraw \/ main \in {"pending", "draw_pending"} => Pending \/ thread = "cleared" \/ eventfd

\* The frame thread sleeps only while there is no fence for it.
NoMissedSignal == thread = "asleep" => ~Pending

\* Every draw event expected comes, for a window not destroyed first.
DrawServed == wanted ~> main = "draw" \/ ~live

\* "Detected mixing surface_frame with manual drawing": an application that draws
\* only in draw callbacks never announces a frame while one is pending.
NotMixing == main = "draw" /\ ~drew => ~Pending

\* "Not further events will be emitted" once the window is destroyed.
FreedIsSilent == [][main = "idle" /\ main' = "draw" => live]_vkVars
=============================================================================

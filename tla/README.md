# swa in TLA+

swa is a C library that opens windows, delivers their events and hands out
surfaces to draw on. One interface, `include/swa/swa.h`, is implemented by a
backend per platform: Wayland, X11, KMS (bare DRM on a virtual terminal),
Android and Windows. This directory models the backends' core: the life of a
window and the rhythm of its draw events on every platform, input and focus, the
clipboard, and the set-up and undoing of a terminal. It says what was found to hold.

Paths below are relative to the repository; `wayland.c`, `kms.c` and so on are
under `src/swa/` and `src/swa/kms/`.

## 1. The system

### What the application is promised

The application creates a display and windows, and calls
`swa_display_dispatch`. The backend calls the window's listener back: `draw`,
`resize`, `state`, `close`, `focus`, `surface_created`, `surface_destroyed`, and
the input events. Inside a callback the application may call nearly anything,
`swa_window_destroy` included. What makes drawing correct, on every backend:

- `swa_window_refresh` asks for a draw event; it comes "when it is a good time to
  redraw" (swa.h:609), and no request is forgotten;
- `swa_window_surface_frame` announces a frame; until it is on the screen no draw
  event comes, and a request made meanwhile is answered when it ends;
- a window that was destroyed gets no event;
- a window created with `SWA_DEFAULT_SIZE` is told its size (swa.h:360).

There are no unit tests; the promises are comments of the headers, assertions in
the code and `docs/events.md`, `docs/threads.md`.

### Components

| Component | State it keeps | Operations | What is hard | What makes it correct | Module |
|---|---|---|---|---|---|
| Wayland windows (`wayland.c`, `private/wayland.h`) | per window: role, `configured`, `redraw`, size, state, `frame_callback`, `defer_redraw`, `defer`, `defer_events` | create, refresh, surface_frame, apply_buffer, set_state, destroy; handlers of configure, close, frame done, defers | callbacks that change or destroy the window their handler goes on with; configure events that cross requests; three roles with three handshakes | nothing drawn before the ack; no request lost; one source of draw events; state and size agree with what was told | `WlWindow` |
| Wayland seat and cursor | `focus`, `mouse_over`, key and button states, `key_repeat` and its timer, the cursor, its timer and frame callback, `touch_points`, locks | events of wl_keyboard, wl_pointer, wl_touch, wl_seat; set_cursor, lock_pointer; timers | events in flight for windows that are gone, timers against leave and destroy, devices withdrawn | focus on live windows; a repeat timer for a key that is held; the animation goes on; points are fingers | `WlSeat` |
| Wayland display, data offers | bound globals, wakeup pipe, the loop's sources, `data_offer_list`, `selection`, per offer the handler, pipe and bytes | create, dispatch, wakeup, destroy; offer_data, the pipe's handler, offers and selections | several sources ready at once, data in pieces, offers replaced while they are read | one answer for each request; no offer leaked; a wakeup ends a dispatch | `WlDisplay` |
| Wayland buffers | array of `wl_buffer`s over one shared file | get_buffer, apply_buffer, release | the array grows while buffers are with the compositor | no buffer drawn into before its release | none, see section 6 |
| X11 backend (`x11.c`) | list of windows, present flags, shm segment, focus, one event looked at ahead | create, destroy, refresh, get and apply buffer, dispatch of events | late present events, windows that disappear in their own events | the list is the living windows; no request lost; a buffer of the size told | `X11Window`, `Images` |
| KMS windows (`kms.c`, `private/kms/kms.h`) | outputs and their window, three buffers per window with `in_use`, `active`, `pending`, `last`, the defer | create, destroy, refresh, get and apply buffer, swap; page flip events | flips that complete after their window is gone; commits that fail; three buffers exactly | no tearing; a free buffer for every draw; pending means a flip is coming | `KmsFlip` |
| KMS terminal | `session.active`, DRM master, SIGUSR1 | the signal handler, which releases and acquires | one signal for both directions; focus callbacks in the middle of the hand-over | session, master and terminal agree; the switch is granted | `KmsFlip` |
| KMS display, terminal set-up, input (`kms.c`) | tty, keyboard mode, signals, `drm.outputs`, libinput, key and button bits, the pointer and a hardware cursor | create, vt_setup, destroy; libinput's events; set_cursor | set-up that fails half way; windows that fail half way; keys that switch the terminal | the terminal is given back; outputs and windows agree; pressed keys are held | `KmsDisplay` |
| KMS Vulkan windows (`vulkan.c`) | `frame.fence`, `next_fence`, `redraw`, an eventfd | surface_frame, refresh; a frame thread | two threads, a condition, an unlocked write | fences have one owner; no wakeup and no redraw lost | `KmsVulkan` |
| Android activity (`android.c`) | native window, input queue, event queue, `dpy`, flags; per window its surface and the buffer it locked | the system's `activity_on*` callbacks on one thread, the application on another | waited events, wakeups of a blocked looper, resources taken back in the middle | the waiting thread is woken; no surface outlives its native window | `AndroidActivity` |
| Windows backend (`winapi.c`) | per window size, cursor, lock, bitmap; `mouse_over` | win_proc, and the calls that send it messages | messages sent inside callbacks: win_proc nests | no request lost but those made while drawing; lock, pointer and cursor agree with the system | `WinWindow` |
| Image formats (`swa.c`), choice of a visual (`x11.c`) | none | conversion, rating | byte order, formats that agree only on some machines | what is converted is what the screen shows | `Images` |
| Backend choice, key names, xkb, EGL, WGL, cursor themes | little or none | tables, set-up, file reading | nothing to interleave | | none |

Components interact through the listener callbacks (backend to application and,
reentrantly, back), through pml, an external event loop of the repository
(an empty submodule here), whose defers, timers and fds schedule the handlers, and through the
compositor, kernel, choreographer or server at the other end of a socket or fd.
Only Android and KMS Vulkan have a second thread. docs/threads.md makes all
other calls the business of one thread, so everything else is modelled as one
thread whose handlers run one at a time.

## 2. Modules

| Module | Models | Holds |
|---|---|---|
| `Redraw` | the drawing contract of swa.h, whatever the backend | abstract specification: who is alive, who is owed a draw event, who is throttled, who draws |
| `WlWindow` | windows of `wayland.c`: toplevels, subsurfaces, layer surfaces | specification, properties, refinement of `Redraw` |
| `WlWindowProofs` | | proofs of type, control, requests, ack, size and state; proof that toplevels implement `Redraw` |
| `WlSeat`, `WlSeatProofs` | the seat of `wayland.c`: keyboard, pointer, cursor, touch | specification, properties; proofs of all four |
| `WlDisplay` | the display of `wayland.c`: globals, dispatch, wakeups, data offers | specification with its fairness, properties |
| `WlDisplayProofs` | | proofs for requests and offers |
| `X11Window`, which extends `Images` | windows and events of `x11.c` | specification, properties |
| `X11WindowProofs` | | proofs for the list of windows, requests, sizes, repetitions, images and visuals |
| `Images` | the image formats of `swa.c`, and `find_visual` of `x11.c` | operators without state; their property is `X11Window`'s `PictureShown` |
| `WinWindow`, `WinWindowProofs` | `winapi.c` | specification, properties; proofs of all its safety properties |
| `AndroidActivity`, `AndroidActivityProofs` | both threads of `android.c` | specification, properties; proofs of all its safety properties |
| `KmsFlip` | windows with buffer and GL surfaces of `kms.c`, page flips, the terminal's switches | specification, properties, refinement of `Redraw` |
| `KmsFlipProofs` | | proofs for buffers, flips and session; proof that its windows implement `Redraw` |
| `KmsDisplay` | set-up of terminal and device, outputs, input and hardware cursor of `kms.c` | specification, properties |
| `KmsVulkan` | `vulkan.c`'s frame thread and the main thread | specification, properties |
| `KmsDisplayProofs` | | proofs for terminal, outputs, keys and cursor of `KmsDisplay`; for fences and redraw of `KmsVulkan`, whose names differ from `KmsDisplay`'s for this |

Each specification has a module `MC...` with the sets its cfg names. `KmsDisplay`
and `KmsFlip` share outputs, session and focus: the first says how they come to be
and end and who owns them, the second what is drawn on them, on a terminal that is
set up. `WlWindow`, `WlSeat` and `WlDisplay` share the display's loop; a handler of
one touches nothing of another but the destruction of windows, which each has.

Definitions whose comment starts with "Mutant" are never part of a specification.
Each is a plausible mistake in the definition it follows, kept to show that the
properties notice it.

### How callbacks are modelled

The hard part of all backends is a handler that calls the application in its
middle. The variable `cb` holds the callback being run (`fn`, `win`) and what its
handler still does afterwards (`then`). While a callback runs only the
application acts; the action `Return` then executes the rest of the handler on the
state it finds. A handler whose callback is its last statement has
`then = "end"`. So an application that refreshes, presents, changes state or
destroys windows in a callback meets the handler where the code does.

On Windows callbacks nest, for a call made in a callback may send the window a
message that runs win_proc at once: there `stack` holds the callbacks being run,
and `Return` continues the innermost.

`wanted` (and `known`, `want`, `asked`, `answered`, `inside`) are history variables:
what the application was told and asked for; `heirs` and `crossed` keep what happened to an
output's flips and to a key's bit. They guard nothing and let the properties speak of promises. `fault` names the first use of freed or missing
memory, or a division by zero; nothing follows it, since C says nothing then.

### WlWindow

| Code | Definition |
|---|---|
| `display_create_window` 1623 | `CreateWindow` |
| `win_refresh` 693, with its guard | `Refresh`, `WinRefresh`, `RefreshBlocked` |
| `refresh_cb` 680 (pml defer) | `RefreshCb` |
| `win_frame_done` 707 | `FrameDone` |
| `win_surface_frame` 725; `win_apply_buffer` 952, `win_gl_swap_buffers` | `SurfaceFrame` and `ExternalCommit`; `ApplyBuffer` |
| `win_set_state` 736 | `SetState` |
| `toplevel_configure` 1938, `wlr_layer_surface_configure` 2034 | `Configure`, up to the resize callback, and `FinishConfigure`, from it on |
| `xdg_surface_configure` 2025 | `XdgSurfaceConfigure`, due at once after a toplevel's configure (`ackDue`) |
| `toplevel_close`, `wlr_layer_surface_closed` | `Close` |
| `win_handle_deferred` 1603 | `HandleDeferred`, `DeferredDraw` |
| `win_destroy` 430 | `Destroy` |
| compositor (external) | `CompositorConfigure`, `CompositorGrant`, `CompositorFrameDone` |

A size is one value for the pair of width and height; 0 is `SWA_DEFAULT_SIZE`.
`frame` distinguishes a frame callback that was requested, committed, and
answered but not yet read. The two requests `win_set_state` sends for the normal
state count as one. The state asked for at creation reaches the compositor before
the first commit. Rules for the application are constants: `PresentIn` and
`DestroyIn` are the contexts (a callback, or none: "idle") in which it presents
or destroys. `DestroyIn` never has "resize" in a run: `toplevel_configure` then
goes on with freed memory (wayland.c:1970), and no specification can say what
happens after that; it is listed as a hazard.

### AndroidActivity

| Code | Definition |
|---|---|
| `push_event`, `push_event_wait_locked` 1347-1389 | `Push`, `PushWait`; `UiReturns` ends the wait |
| `activity_onNativeWindowCreated`, `...Destroyed`, `...Resized`, redraw and focus | `WindowCreated`, `WindowDestroyed` (without a display in two steps, `ui.at = "clearing"`), `Notify` |
| `activity_onInputQueueCreated`, `...Destroyed` | `QueueCreated`, `QueueDestroyed` |
| `activity_onDestroy` 1423 | `Destroy`, `DestroyReads`, `DestroyWakes`, `DestroyJoins`: its accesses without the mutex are steps |
| `swa_display_android_create` 1314 | `DisplayCreate`, then its three unlocked reads of the input queue, `CreateReads`, `CreateAttach`, `CreateCompares` |
| `display_dispatch` 1082 | `Dispatch`, `InitialEvents`, `InitialSize`, `Drain`, `HandleEvent`, `Handled`, `PollReturns`, `DispatchReturns`: `pc` says where it is |
| `display_destroy` 697 | `DisplayDestroy`, which frees the queue, and `DisplayGone`, from `dpy = NULL` on |
| `display_create_window` 1249, with two unlocked reads of the native window | `CreateWindow`, `MakeSurface` and `Outcomes` |
| `win_destroy`, `win_refresh`, `win_surface_frame` | `DestroyWindow`, `Refresh`, `SurfaceFrame` |
| `win_get_buffer` 604, `win_apply_buffer` 638 | `GetBuffer`, `ApplyBuffer`, over the variable `active`; `Frame` is the frame callback both ask for |
| `frame_callback64` 435, `input_queue_readable` 984 | `FrameCallback`, `InputReadable`, run by the looper |
| `ALooper_pollAll` (external) | `PollReturns`, and `WakeMayGo`: it polls again after a callback, and a wake that came along is consumed |

A section under `activity->mutex` is one step. Accesses without it, and waits,
are steps of their own; memory is taken to be sequentially consistent. A native window
or queue that is null when it is used ends the process (`Crash`), and the model with it. What
is pushed to a queue that was freed is lost with it. The system
(external) calls one callback at a time and takes its window and queue back
before `onDestroy`. `Habits` is a set of ways the application and the system may behave;
a behaviour of the model chooses one of them at the start and keeps it in `habits`:
"quits" (the application leaves by itself), "late" (it creates windows after it
began to dispatch), "closes" (it destroys them while it does), "early" (the system
takes a window back before the display exists), "fails" (surfaces fail), "holds"
(it keeps a buffer after its draw callback).

### KmsFlip

| Code | Definition |
|---|---|
| `display_create_window` 1546, `win_destroy` 211 | `CreateWindow`, `DestroyWindow` |
| `win_refresh` 400 | `Refresh`, `RefreshNow`, `DeferDraw` |
| `win_get_buffer` 647, `win_apply_buffer` 692, `win_gl_swap_buffers` 602 | `GetBuffer`, `ApplyBuffer`, `SwapBuffers`, over `PageFlip` (`pageflip` 555) |
| `win_handle_deferred` 946 | `HandleDeferred`, `DeferredDraw` |
| `page_flip_handler` 967 | `PageFlipHandler`, `Flipped`, `RedrawAfterFlip` |
| `sigusr_handler` 1311 | `Release`, `Acquire`, `FocusFrom`; the loop over outputs with a focus callback each continues in `Return` |
| kernel (external) | `Accepted` and `Results` (a commit needs master, no flip in flight, and the output in the program's mode or a modeset), `VerticalBlank`, `SwitchAway`, `SwitchBack`, `OtherMode`, `Reldisp` |

GL buffer objects and dumb buffers share the variables `inUse`, `active`,
`pending`, `last`: both kinds rotate three buffers the same way. `shown` and
`flight` are the kernel's view, against which the program's flags are judged.
The terminal is set up (`vt_setup` is in `KmsDisplay`). Rules for the application come from swa.h: it
applies a buffer it got before it dispatches again, and refreshes in a draw
callback only after drawing. It does not destroy a window in that window's own
resize callback. An `eglSwapBuffers` that fails changes nothing and is a step that stutters.

### KmsVulkan

| Code | Definition |
|---|---|
| `frame_thread` 188-230 | `Sleep`, `Take`, `WaitTimeout`, `WaitSuccess`, `ClearFence`, `Notify`: `thread` says where it is |
| `swa_kms_vk_surface_frame` 535 | `SurfaceFrame`, `Replaced`, `WakeThread` |
| `swa_kms_vk_surface_refresh` 572 | `Refresh` (the test under the mutex) and `SetRedraw` (the write after it) |
| `eventfd_readable` 240; `win_handle_deferred` and `win_destroy` of kms.c | `EventfdReadable`; `HandleDeferred`, `DestroyWindow` |
| `vkRegisterDisplayEventEXT` (external) | `FirstPixelOut` |

The thread writes `frame.fence` without the mutex under which the main thread
reads it; the write is taken to be atomic, and so are the reads. Nothing ends the
thread: `frame.join` is never set once it runs.

### WlSeat

| Code | Definition |
|---|---|
| `seat_caps` 2681 | `SeatCaps` |
| `keyboard_enter` 2514, `keyboard_leave` 2537, `keyboard_key` 2563 | `KeyboardEnter`, `KeyboardLeave` and `AfterLeave`, `KeyboardKey` and `AfterKey` (what follows the callback) |
| `key_repeat_cb` 2626, `keyboard_repeat_info` 2659 | `KeyRepeat` and `AfterRepeat`, `RepeatInfo` |
| `pointer_enter` 2274, `pointer_leave` 2306, `pointer_motion`, `pointer_button`, `pointer_relative_motion` 2879 | `PointerEnter`, `PointerLeave` and `AfterUnpoint`, `PointerMotion`, `PointerButton`, `RelativeMotion` |
| `win_set_cursor` 597, `set_cursor` 381, `cursor_render` 327, `cursor_frame` 356, `cursor_time_cb` 371 | `SetCursor`, `ShowCursor`, `Render`, `CursorFrame`, `CursorTime` |
| `win_lock_pointer` 998, `locked_pointer_locked` 979 | `LockPointer`, `PointerLocked` |
| `touch_down` 2110, `touch_motion`, `touch_up` 2150, `touch_cancel` 2219 | `TouchDown`, `TouchMotion`, `TouchUp` and `AfterUp`, `TouchCancel` and `CancelFrom` |
| `win_destroy` 430-453 | `Destroy` |
| compositor (external) | `SendCaps`, `SendKeyboard`, `ReleaseElsewhere`, `SendPointer`, `SendTouch`, `Forget` |

`wire` holds the compositor's events in order, `comp` what it believes. An event
that names a surface the client has destroyed may still arrive (`DeadSurface`)
until the compositor has read of it (`Forget`). Windows all exist from the start:
their creation does not touch the seat.

### WlDisplay

| Code | Definition |
|---|---|
| `swa_display_wl_create` 2927, `handle_global` 2763 | `Create`, `HandleGlobal` |
| `display_dispatch` 1419, `dispatch_display` 2843 | `Dispatch`, `Poll`, `NextEvent`, `EndEvents`: `at` is where the thread is, `ready` the sources poll found ready |
| `clear_wakeup` 2866, `display_wakeup` 1439 | `ClearWakeup`, `Wakeup` |
| `data_offer_data` 1219, `data_pipe_cb` 1149 | `RequestData`; `ReadData`, `EndRead`, `CallHandler`, `HandlerReturns` |
| `data_offer_destroy` 1113, `data_dev_data_offer`, `data_dev_enter`, `data_dev_selection` 1332 | `DestroyOffer`, `Freed`; `DataOffer`, `DataDrag`, `DataSelection` |
| `display_destroy` 1358 | `Destroy` |
| compositor, data source (external) | `SendOffer`, `SendNoSelection`; `SourceWrites`, `SourceCloses` |

Bytes come in units: `Chunk` = 2 of them stand for the 2048 bytes `data_pipe_cb`
reads at once, `BufSize` = 2 for the 128 of `clear_wakeup`. `NonBlock` is FALSE in
the run, as in the code: `swa_pipe` sets `O_NONBLOCK` with `F_SETFD`.

### X11Window and Images

| Code | Definition |
|---|---|
| `display_create_window` 1472 | `CreateWindow`, `CreateFails`; `Link` puts the window in the list, `Choice` chooses the visual |
| `win_destroy` 66, `find_window` 652 | `Destroy`, `Listed` |
| `win_refresh` 274, `win_surface_frame` 295 | `Refresh`, `Frame` |
| `win_get_buffer` 518, `win_apply_buffer` 569 | `GetBuffer`, `ApplyBuffer` |
| `handle_event` 784-1062, a case of its switch each | `Expose` with `DrawOrPostpone`, `Configure`, `ClientMessage`, `Input`, `Crossing`, `FocusChange`, `KeyPress`, `KeyRelease` with `TakenBack` |
| `handle_present_event` 665 | `PresentComplete` |
| `display_dispatch` 1145 | `Dispatch` begins it, `On` takes the next event |
| `visual_to_format` 1300, `rate_visual` 1360, `find_visual` 1402 | `VisualToFormat`, `Rate`, `FindVisual`; `Chosen` applies them to the instance's screens |
| `swa.c`: `swa_write_pixel`, `swa_read_pixel`, `swa_convert_image`, `swa_image_format_reversed`, `..._toggle_byte_word` | `WritePixel`, `ReadPixel`, `ConvertImage` with `WriteNext` for a pixel, `Reversed`, `ToggleByteWord` |
| X server (external) | `ServerExpose`, `ServerConfigure`, `ServerComplete`, `ServerForeign`, `ServerFocus`, `ServerPoint`, `ServerKey` |

`PictureShown` joins the two: the application converts a picture into the buffer of
a window, with the format found for the visual chosen, and the property reads the
buffer through the visual's masks, as the screen does. What a screen may be is an
assumption: it has a visual, pixels of 24 bits have no mask in a fourth byte
(`LookAssumption`), and no format is had by visuals without colours only
(`ColourAssumption`: X11 defines masks for true and direct colours).

### WinWindow

| Code | Definition |
|---|---|
| `display_create_window` 1249, `win_destroy` 300, `win_show`, `win_set_size` 361-370 | `CreateWindow`, `Destroy`, `Show`, `SetSize` |
| `win_proc`: WM_SIZE 1028, WM_SHOWWINDOW, WM_SYSCOMMAND, WM_CLOSE | `WmSize`, `WmShow`, `WmSysCommand`, `WmClose` |
| WM_PAINT 1007, `win_refresh` 425, `win_get_buffer` 598, `win_apply_buffer` 659 | `WmPaint`, `Redrawn`, `Refresh`, `GetBuffer`, `ApplyBuffer` |
| WM_MOUSEMOVE 1130, WM_MOUSELEAVE 1116, WM_SETCURSOR 1082, `win_set_cursor` 372 | `WmMouseMove` with `Track`, `WmMouseLeave`, `WithCursor`, `SetCursor` |
| `win_lock_pointer` 703, WM_INPUT 1171 | `LockPointer`, `UnlockPointer`, `WmInput` |
| `dispatch_one` 783, `handle_key` 963 | `TakeKey`, `HandleKey`, `Leading` |
| `display_dispatch` 794, `display_wakeup` 822 | `Dispatch`, `Wakeup` |
| Win32 (external) | `PointerAt`, `Chars`, `Keep`, `OfOthers`, `UserMoves`, `UserInput`, `UserCommands`, `Uncover` |

A bitmap's size is left out: nothing here depends on it.

### KmsDisplay

| Code | Definition |
|---|---|
| `vt_setup` 1391-1540 | `VtSetup`, stage by stage in the order of `Stages`; `TtyAfter` and `TermAfter` are what each does to program and terminal, `TtyFailed` what its error path leaves |
| `sigusr_handler` 1311, `sigterm_handler` 1373 | `SigUsr`, `SigTerm` |
| `swa_display_kms_create` 2182, `init_drm` 1267, `init_drm_dev`, `output_init` | `Init`, `FirstOutputs`, `Usable`, `Outputs` |
| `display_create_window` 1546-1689 | `CreateWindow`, then `CreateVulkan` or `CreateOnOutput` (`OwnersAfter`, `Created`, `Settings`), or `GiveUp` |
| `win_destroy` 211, `display_destroy` 739 | `WinDestroy`, `DisplayDestroy` with `Restored` |
| `handle_device_added` 1796, `handle_keyboard_key` 1818, `handle_pointer_button`, `handle_pointer_motion` 1922 | `DeviceAdded`, `KeyboardKey` with `Mask`, `PointerButton`, `PointerMotion` and its rest in `Return` |
| `win_set_cursor` 250, `update_cursor_position` 1904 | `SetCursor` with `NewHot` and `CursorSet`, `CursorMoved` |
| kernel, libinput, user (external) | `Signal`, `Leave`, `UserLeaves`, `UserComesBack`, `Terminate`, `Arrives`, `Press`, `UserPresses`, `UserMoves` |

## 3. Runs

Twelve runs, all of which pass. They check 40 properties; each has a mutant in
PROJECT.json, a mistake of the code under which that run finds the property violated.
What the code does not keep is in section 5, with the property that says it.

| Run | Instance | Distinct states | Shows |
|---|---|---|---|
| `wl_toplevels` | two toplevels | 21,632 | nothing of a freed window stays in the event loop; sizes are told before the first draw; the contract `Redraw` is implemented |
| `wl_kinds` | one window of any kind, two sizes, states asked and imposed, two configures in flight; fair | 171,182 | when the wire is quiet the state is the compositor's; every draw event expected comes |
| `android` | two native windows, an input queue; an application that leaves when it likes, and one that creates and closes at any time on a system that fails and takes back early; fair | 610,662 | surfaces, locked buffers and draw events never outlive the native window; the input queue is handed over; only the looper puts the main thread to sleep with work to do; waits end unless it does |
| `kms_flips` | two windows, two outputs, both kinds of surface | 113,677 | the contract `Redraw` is implemented |
| `kms_failing` | two windows that follow each other on one output, destroyed at any time, failing commits and creations, hasty terminal switches, foreign modes | 3,139,233 | buffer flags and kernel agree: no tearing, no false completion but for windows created on a flip underway |
| `kms_served` | two windows, one output, drawing at any time, switches; fair | 30,261 | session, master and terminal agree; every draw event expected comes; a switch is granted |
| `vk_frames` | three fence handles, destruction, free drawing; fair | 7,653 | fences have one owner; no signal is lost; every draw event comes |
| `wl_seat` | two windows, three sets of devices, all cursors, two events in flight | 1,580,619 | focus on live windows, and what the handlers assert; the cursor the window was given, moving while the pointer is there and not after; the repeat timer for a held key; touch points are fingers |
| `x11` | two windows, two keys, two events in the connection, creations that fail at any time, six screens | 1,749,218 | nothing freed is found; no request of a window that is found is lost; buffers fit the size told; repetitions are told from presses; pictures have their colours |
| `winapi` | two windows, two posted messages, two inputs, callbacks two deep | 423,763 | the window under the pointer, locks and the system agree; no request lost but in the window's own draw callback; keys with their whole text or, behind another message, without |
| `wl_display` | two offers, three sets of globals, data of none, one and three units; fair | 42,115 | one answer for each request for data, and it comes; no offer leaked; wakeups end a dispatch |
| `kms_display` | two windows, three machines, failing set-ups and creations, three keys | 1,098,280 | the terminal is given back; outputs agree; what counts as pressed is held, and what is held counts where bits allow it; the cursor is at the pointer |

Every cfg says `CHECK_DEADLOCK FALSE`: the systems really may stop. An application need not do
anything, a display can be destroyed, `fault` stops a model, and on Android an
application that leaves by itself lets the activity's thread wait for ever. That
nothing hangs that should not is what the liveness properties say (`WaitsEnd`,
`SwitchServed`, `HandlerServed`, `WakeServed`, `DrawServed`).

### Bounds

- Windows are created at most once each. Two windows show interference through
  shared state (the one handler running, the output, the session, the focus, the
  list); on one output the second window is the successor of the first. The Wayland
  configure handlers touch only their own window, so `wl_kinds` has one. Where the
  windows are alike and no property is temporal they are a symmetry set (`Alike`).
- `MaxWire`, `MaxReqs`, `MaxQueue`, `MaxPosted`, `MaxInput`, `MaxEvents` bound what is in
  flight: two events suffice to have one overtaken by the program, which is what
  the properties are about. The environment waits at the bound. On Android
  `MaxEvents` bounds only the events nobody waits for.
- `MaxNest` = 2: a message sent in a callback, and one sent in that one's.
- `MaxWake` = 1 keeps the wakeups below `BufSize`; at the boundary the code fails (section 5).
  `MaxRequests` = 2: a second request for an offer's data after, or during, the first.
- `Sessions` (X11, Windows, KMS display) and `Seats` (Wayland) are the kinds of
  events that happen in one behaviour. Painting, creation and destruction happen in
  all of them, and so do sizes, but on X11 only where the focus, the pointer and the
  keys stay as they are; the kinds that share no variable, such as touch points and the key
  repeat timer, or raw input and key text, are checked one at a time.
- Two sizes, one of them the fallback, tell "changed" from "unchanged" and
  "default" from "chosen". Sizes 1 and 5 on X11 are images that fit, and do not,
  in the room allocated for the other (`n_bytes` is doubled).
- Three buffers are no bound: the code has three. Outputs are one (for succession)
  or two (for the loop over outputs). Machines have a card that cannot be used, a
  connector without a screen, and no screen at all.
- Keys 31 and 63 share the bit that is the sign of an int, and 95 has the same one in
  another word of `key_states`. 63 is F5, which switches terminals together with others.
- Two native windows make one follow the other, which every stale surface needs.
- Three Vulkan fences: one waited for, one next, one being registered.

### What applications do in the runs

Every rule is a constant, so that the rule can be dropped to see what it is for:
`DestroyIn`, `PresentIn`, `CursorIn` (the callbacks in which windows are destroyed,
presented, given cursors), `Careful`, `HoldBuffer`, `FreeInHandler`,
`Habits`, `DestroyFlipping`, `Hasty`. Section 5 says which property falls
without which rule. Where a rule protects memory that a handler goes on to use,
the rule is the application's only defence: swa.h allows what it forbids.

### Fairness and why the code gives it

- `Return` is fair: a listener callback returns.
- Handlers of the loop (`RefreshCb`, `FrameDone`, `HandleDeferred`, `Configure`,
  `PageFlipHandler`, `Release`, `Acquire`, `EventfdReadable`, `FrameCallback`,
  `PollReturns`) are strongly fair: an iteration of pml runs all enabled defers
  and dispatches everything that was read, so a handler that is ready again and
  again between callbacks is not passed over for ever. `display_dispatch` is
  called again by the application. `WlDisplay` spells the iteration out: its
  `Loop`, the step of the thread wherever it is, is weakly fair.
- Threads are weakly fair, statement by statement; a Vulkan fence that is signaled
  ends the wait for it (`SF WaitSuccess`). On Android an application told to leave
  destroys its window and its display.
- The environment: a compositor configures a new surface and answers a committed
  frame callback, a flip meets its vertical blank, a user who left the terminal
  comes back, a fence of a frame shown is signaled, a data source writes and closes
  its pipe. A begun drawing is finished (`ApplyBuffer`, `ExternalCommit`), by
  swa.h's rules.
- Not assumed: that the application refreshes, draws or asks for anything in
  particular; that commits succeed (where they may fail, liveness is not
  claimed).

## 4. Proofs

All for every value of the constants, checked by TLAPS.

**WlWindowProofs**, assuming the application does not destroy a window in its
resize callback.

- `TypeCorrect`, `ControlCorrect`: `TypeOK` and `ControlInv` are inductive only together.
  `ControlInv` says what the rest of each handler relies on: `CallbackInv` for the
  callback being run (its window lives or the handler ends; a configure event is at
  the head of the wire while its handler is in the middle), `WindowInv` for each
  window (only subsurfaces have a `defer`, an enabled defer belongs to a living
  window, an ack is due exactly while a toplevel is configured and not acked). The
  lemma `FinishControl` is the second half of a configure handler, used both by
  `Configure` (no resize callback) and `Return`.
- `FreedSafe`: without subsurfaces, `FreedIsSilent` follows from `ControlInv` at once.
- `RequestsKept`: `NoRequestLost` is inductive relative to `ControlInv`, for all
  kinds of windows and wherever the application presents. The lemma `RefreshPends`
  says that `win_refresh` always leaves something pending.
- `AckFirst`: `NothingBeforeAck`, for applications that present in draw callbacks.
- `SizesKnown`: `DrawSizeKnown`, for toplevels presented in draw callbacks. The
  application knows the size that swa keeps at all times (`KnownInv`); that this size
  is not the one that means "default" takes `NothingBeforeAck`: nothing is drawn
  before the first configure gave one.
- `StatesAgree`: `StateAgrees`, for any kinds of windows and wherever they present.
  `StateInv` says it for the times when something is in flight: the last configure on
  the wire carries the compositor's state, and with an empty wire a state that differs
  is the one a request on its way asks for.

The contract, for toplevels presented in their draw callbacks:

- `OneSourceOnly`: never both an enabled defer and a frame callback. It needs
  `NothingBeforeAck`, because the first draw must not find a frame callback.
- `ContractKept`: `Spec => RedrawContract`, the refinement. Mapping: alive are the
  living windows, asked those shown with something pending, throttled those with a
  frame callback, drawing the window of the draw callback. Every step that touches
  a single window leaves the mapped sets of the others alone (`OneWindow`), and each
  action maps to one abstract step or to a stutter. `win_frame_done` is the reason
  for the abstract `FrameEnd`, which ends the throttling and draws in one step.

**KmsFlipProofs**, for any number of windows and outputs.

- `TypeCorrect` and `BuffersAgree` hold in every environment: failing commits,
  switches, foreign modes, windows destroyed at any time. `BufferInv` is inductive
  on top of `ControlInv` (each output's window lives and owns that output, and
  the converse).
- `AssertionsHold` and `FlipsAgree`: `AssertFlip` and `NoTearing`, in every environment. Windows
  may be destroyed with their flips on the way; what the code does not survive is a
  window created on the output before such a flip's completion is handled (section 5), so
  the history `heirs` collects those windows, and the properties are about the others. The strengthening
  `FlipInv` adds `FlightInv` (a flip is of a window that drew on its output; where the output's
  window is no heir it brings the buffer pending there, and its completion event is
  queued once), `ShownInv` (what is scanned out is the window's `last`, or its
  `pending` between the blank and the handler) and `WaitInv`. The queue of events
  is reasoned about through `AppendQueue` and `TailQueue`.
- `PendingsQueued`: with buffer surfaces a pending buffer has a flip underway,
  whatever fails and whatever is destroyed.
- `SessionCorrect`: while the user does not leave again before the program saw
  that it was back, session, master and terminal agree. `SessionInv` lists the
  stages of both hand-overs.
- `ContractKept`: `Spec => RedrawContract`, the refinement, in the environment the contract
  is about (`Settled`): no commit fails, the terminal stays the program's, drawing happens
  in draw callbacks, and no window is destroyed with a flip on its way. `ContractInv` is
  `FlipInv` with `QuietInv` (so no signal or foreign mode comes between), `MatchInv` (so a
  flip finds its window, and there are no heirs) and `DrawInv`: a
  window owes its draw event in one place at most, the deferred events or the flag
  `redraw`, and the flag only while a buffer waits for its flip. A window is throttled in
  the contract while a buffer waits, so `page_flip_handler` is its `FrameEnd`.

Some of what is proved is in no run, for a run's property implies it or stands for
it: `ControlInv`, `NoRequestLost`, `NothingBeforeAck`, `OneSource` (behind
`RedrawContract` and `DrawServed`), `BufferInv`, `PendingQueued` (behind `NoTearing`
and `AssertFlip`), `RedrawKept` (behind `DrawServed`). A cfg that names one of them
is a line to write.

**WlDisplayProofs**, for any number of offers, any data and any globals announced.

- `TypesSafe`: `BaseInv` (types; a handler that runs, and a pipe that is about to be
  read, belong to an offer that is waited for) and `EventInv` (the compositor's
  events name an offer once each, its introduction first) are inductive.
- `HandlersOnce`: if no handler destroys its own offer, `HandlerOnce` holds. It is
  inductive relative to `BaseInv`: `AnswerOnce` is the step in which a handler is
  called, `FreeOnce` the one in which its offer goes.
- `OffersSafe`: `OffersKept`, whatever handlers do. `OfferInv` strengthens it
  with what is on the way: a selection to come is of an offer that is listed, or
  introduced before it, and that is not the present one (`NewSelections`); while
  the old selection's handler runs it is unlinked and the new one is listed
  (`CallInv`). `SelectionsLeft` says that taking an event from the queue keeps this.

**WlSeatProofs**, for any number of windows, keys, fingers and events in flight, and
assuming that the compositor leaves a device before it withdraws it (`LeaveFirst`;
section 5 says what happens if it does not).

All four rest on a *story*: what the program knows lags behind what the compositor
knows by the events on the wire, so for the keyboard, for the pointer and for each
finger there is a function `h` from the places between two events to windows. An
enter event, and no other, changes `h` from nothing to its window, a leave event back,
and the last value is the compositor's (`Story`). The invariant is that the first value is the
program's. `StoryPop`, `StoryPush` and `StoryForget` are the lemmas for an
event handled, an event sent and a destroyed window the compositor learns of.

- `FocusesAlive`: `FocusAlive`, with `FocusInv` and `OverInv`, the stories of keyboard and
  pointer, and `SeatInv`: a device that is withdrawn is on nobody's window.
- `CursorsKept`: `CursorKept`, with what a window keeps of the cursors it was given: the
  native one outlives an image that is set after it, and is shown in its place. The timer
  of an animation that another cursor replaced is not in it (section 5).
- `RepeatsMatch`: `RepeatMatches`, if the application keeps a window until its keys are
  released (`Careful`). `KeyStory` adds to the story of the focus that each key held, and
  each press on the wire, is followed by its release, by a leave event, or by nothing
  because the compositor still holds it (`Follows`).
- `TouchesAgree`: `TouchAgrees`, if no window is destroyed in the callbacks of up and
  cancel. `OnePoint` says that a finger has one point, `FingerStory` that it is in the
  window the finger's story begins with, but for the point that is about to be erased.

**X11WindowProofs**, for any number of windows and keys, any screens and images.

- `TypesHold`: the type invariant, and that only the expose handler goes on after a callback.
- `ListSafe`: `ListSound`, whatever the order of creation, failure and destruction.
  `LinkInv` says that `next` and `prev` of the living windows are each other's inverse, in the
  list or out of it: so unlinking leaves no link to the window that goes.
- `RequestsKept`: `RequestKept`, which is about the windows `find_window` finds. `RequestInv`: a frame
  on its way is completed, a flag waits for one; and no window is found again once it was
  forgotten (`ListedShrinks`).
- `DrawsFit`: `DrawFits`, with shared memory and an application that applies each buffer in
  its draw callback. `DrawInv`: the size is told before the first frame is asked for.
- `RepetitionsPaired`: `RepeatedPress` is about the key, which is all that x11.c:1038 compares:
  if the pointer's focus moves in between, the press may be another window's.
- `ImagesConverted`: `swa_convert_image` keeps every pixel, for images of any size, stride
  and format. `FoldedImage` turns the fold of `ConvertImage` into the sequence of images it goes
  through, by the least number of pixels without one; the invariant along it
  (`PixelsWritten`) is that all pixels so far are in place, for what is written past
  a pixel of 24 bits falls where the next one is written (`PixelsApart`), or behind the last one.
- `PicturesShown`: `PictureShown`, for any screens and settings within the two
  assumptions of section 3. `FormatShown` compares the words of a visual's masks with the bytes
  of its format, `ChoiceFits` shows that the rates order visuals as `Fitting` does, and
  `PictureInv` that a window keeps what was chosen for it.

**AndroidActivityProofs**, for any number of windows, native windows, queues and events,
and without assumptions: what a property asks of the application is in its premise.

- All four rest on `PhaseInv` (how far each thread is, and what exists then) and `WaitInv`
  (the event the activity's thread waits for is the last in the queue or being handled,
  and no other one is waited for).
- `OnlyLooperSleeps`: `NoSleep`, an action property. The main thread comes to block over an event
  or over the activity's end in one kind of step only, in which the looper runs a callback and
  loses the wake. `SleepInv`: an activity that waits for the thread's end has woken it, from
  any point of the loop on; an event in the queue keeps the main thread from polling until
  it is popped, and wakes it afterwards.
- `InputHandedOver`: `InputHandover`. `AttachInv`: the queue that is polled is the one announced,
  except while the event that says otherwise is still unhandled, which is when
  the activity's thread waits.
- `SurfacesAlive`: `SurfaceAlive`. `SurfaceInv` says the same of surfaces and the display's
  native window, while the event that takes it back is unhandled.
- `DrawsOnSurfaces`: `DrawOnSurface`. `DrawInv` looks ahead in the queue: a draw event
  finds a surface, or the event that makes one comes before it (`CreatedAhead`).

**KmsDisplayProofs**, for any machines, windows, keys and buttons.

- `TtyGivenBack`: `TtyRestored`, unless `vt_setup` fails between opening the terminal and
  saving the keyboard's mode (section 5). `TtyInv` follows its stages: nothing is
  touched before, and the mode saved is the one found from there on.
- `OutputsOwned`: `OutputsAgree`, on machines whose connectors have CRTCs of their own
  (`DistinctOutputs`). `OutputInv` adds the window being created, which owns nothing yet.
- `PressedHeld`: `InputHeld`, for every keyboard. Keys 32 apart share a bit (section 5), so
  the property tells keys whose bit another key changed since (`crossed`) from the others.
  `InputInv` tells a history for each key, along the events in the queue, from
  what counts as pressed to what the user holds: each event of the key changes it. And
  a bit that is set has a key that set it and is not `crossed`.
- `CursorAtPointer`: `CursorPlaced`, on such machines and for images that fit the
  hardware's cursor (`CursorsFit`; the others are in section 5). `PictureInv`: the CRTC of
  a window with a cursor shows the image that the window set last; a CRTC is one
  window's by `OutputInv`.

And about `KmsVulkan`, for any number of fences and without assumptions:

- `FencesSafe`, `SignalsSafe`: the invariant `FenceInv` adds to ownership where the thread stands
  when it holds a fence, and that it sleeps only without one.
- `RedrawSafe`: a redraw that waits has a frame, or the eventfd, that ends the wait.

**WinWindowProofs**, for any windows, sizes, texts and sessions, and for queues and nested
callbacks of any length. `LiveInv` (messages and the system's state are about living
windows) holds of every application. What a handler does when its callback returns
depends on the innermost one alone, so the invariants speak of that, `Under`; messages are
taken out of the middle of a queue by `Keep`, whose lemmas say that it keeps the others
in their order.

- `LocksAgree`: `LockAgrees`, if one pointer is locked at a time and unlocked before its
  window is destroyed (`Careful`). `LockInv` says it of all windows, freed ones too.
- `PaintsKept`: `PaintKept`, for every application. `PaintInv`: a visible window has a size,
  so WM_PAINT does emit the draw event it validates the window for. The one step that
  loses a request is the return of the draw callback of a window that was invalidated
  inside it (`Losing`).
- `PointersAgree`: `MouseAgrees`, if no cursor is set in the enter callback, whatever else
  is done in callbacks, destruction included. `MouseInv` says how far `mouse_over` is from
  what was told while the enter or the leave callback runs, and that the leave message
  of the window under the pointer is either tracked or posted, once (`OneLeave`).
- `TextsWhole`: `TextWhole`, whatever is posted and when. A key is taken when nothing is posted,
  and only handling it posts characters, so none waits before (`KeyInv`): those behind the
  key are then the first messages, all of them and no others, or another message is.

Where an assumption shuts out a failure of the code that was met, section 5 shows the
failure. The others say what a theorem is about (kinds of windows, a settled
environment); that the property fails without them is not claimed.

Only model-checked is what speaks of eventualities (`DrawServed`, `SwitchServed`,
`WaitsEnd`, `HandlerServed`, `WakeServed`): liveness under fairness is beyond the prover.
The induction theorems of the library are beyond it as well: where the proofs need
induction, over pixels and over sequences of sequences, they take the least
counterexample (`LeastNumber`).

All other properties the passing runs check are proved. `KmsFlip`'s `DrawReady` and
`NoRequestLost` are in no run by name: `RedrawContract` and `DrawServed` stand for
the second, and section 5 says where both fail.

## 5. Where code and documentation disagree

Each of these was met while modelling. The properties are defined in the modules;
to see one fail, put it in a cfg of the module with the constants given. Constants
not named are as in the run named in the first column.

| Module (run), property | Constants | Why |
|---|---|---|
| WlWindow (`wl_kinds`) `DrawSizeKnown` | `Kinds` = {"layer"} | a layer surface of default size draws without having been told its size (wayland.c:1752 against swa.h:360) |
| `NoEventAfterDestroy` (PROPERTY) | `Kinds` = {"subsurface"} | `win_destroy` does not destroy `win->defer` (wayland.c:494), so `win_handle_deferred` runs on the freed window |
| `NothingBeforeConfigure` | `Kinds` = {"layer"} | `win_refresh` lets a layer surface draw at creation, before its first configure (wayland.c:695, 1752) |
| `InitialStateQuiet` | `Kinds` = {"toplevel"} | the first configure emits a state event even for the state asked for (wayland.c:2005 against swa.h:367) |
| `SetStateQuiet` | toplevel, `Asks` = {"maximized"}, `CompStates` = {} | an older configure brings the old state back, the granted one the new (swa.h:638) |
| `DrawServed` | `PresentIn` with "idle" | an application that keeps announcing frames outside draw callbacks replaces the frame callback its redraw waits for (wayland.c:729) |
| WlSeat (`wl_seat`) `TouchAgrees` | `DestroyIn` <- `DestroyAnywhere` | `touch_up` and `touch_cancel` go on with an index into an array `win_destroy` compacts (wayland.c:2168, 2226) |
| `RepeatMatches` | `Careful` = FALSE | the focused window is destroyed with a key down: `key_repeat_cb` then asserts a focus and calls through NULL (wayland.c:2629) |
| `CursorAsserted` | | `set_cursor` leaves the timer of an animation armed; with the next cursor none or an image, `cursor_render` asserts a cursor there is not, and uses it (wayland.c:381-426, 329) |
| `ImageShown` | | an image set after a native cursor is converted and never shown: `win->cursor.native` stays set, and `set_cursor` prefers it (wayland.c:624, 400) |
| `FocusAlive` | `LeaveFirst` = FALSE | a device is withdrawn with a window in its focus and no leave event: `seat_caps` keeps `focus` and `mouse_over`, so the first enter event of the device when it is back meets an assertion (wayland.c:2681) |
| WlDisplay (`wl_display`) `WakeServed` | `MaxWake` = 2 | a number of wakeups that is a multiple of the buffer's 128 makes `clear_wakeup` read an empty pipe, which blocks, as `swa_pipe` sets `O_NONBLOCK` as a descriptor flag (wayland.c:2866; the comment at 1443 counts on a full pipe failing) |
| `SizeExact` | `ReadFails` = FALSE | a read that fills the buffer is not counted, so the next one overwrites it; a shorter one is counted with the buffer's size added (wayland.c:1203-1208 against swa.h:747) |
| `HandlerOnce`, `NoFault` | `FreeInHandler` = TRUE | an offer destroyed in its handler, as swa.h:729 allows, is answered twice and used after |
| X11Window (`x11`) `EveryRequestKept` | | destroying the window created last, or one whose creation fails, sets `window_list` to NULL: the others are forgotten, and so is what they wait for (x11.c:103 against swa.h:609) |
| `DrawFits` | `HoldBuffer` = TRUE, or `Shm` = FALSE | a buffer kept over a resize is freed under the application; without shared memory the buffer does not grow (x11.c:518) |
| `NoFault` as `fault = "none"` | `DestroyIn` with "resize" | the expose handler goes on with the window (x11.c:806) |
| `PictureShown` without `ColourAssumption` | `Looks` with "odd" asking for "abgr32" | the format asked for weighs 32, colours 16: a static colour visual that has the format wins over one with colours (x11.c:1365-1383) |
| `ConvertsWithin` | | a pixel of 24 bits is written with a fourth byte: the last one's lies past the memory `swa_convert_image_new` allocates (swa.c:136-147) |
| WinWindow (`winapi`) `PaintAlways` | | a refresh inside the draw callback is validated by the EndPaint behind it (winapi.c:1022 against swa.h:613) |
| `RawAsserted` | | a lock moves the pointer into a window whose WM_MOUSEMOVE is then ignored: WM_INPUT asserts a `mouse_over` that is not it (winapi.c:1185) |
| `LockAgrees` | `Careful` = FALSE | a second window's lock takes raw input and clip from the first (winapi.c:703) |
| `TextAlways` | | a message posted between taking a key (785) and translating it (790) stands in front of its characters: the key is reported without text (winapi.c:972 against swa.h:278) |
| `MouseAgrees` | `CursorIn` with "enter" | `mouse_over` is set after the callback, so a cursor set in it is not shown (winapi.c:1153) |
| `NoFault` | `DestroyIn` with "enter", "leave" or "move" | win_proc goes on with the window (winapi.c:1130-1170) |
| AndroidActivity (`android`) `RefreshServed` | `MaxPosted` = 1 | a refresh without a posted frame callback is never answered (android.c:452) |
| `SurfaceAlive` without its premise | `Habits` = {{"holds"}} | a buffer still locked when the surface goes is never unlocked: `win_apply_buffer` refuses (android.c:654) |
| `CallbackOnLive` (PROPERTY) | | the choreographer still holds a destroyed window's frame callback (android.c:396) |
| `BlocksIdle` | | a wake that comes along with a callback is consumed by `ALooper_pollAll`, which blocks over the event (android.c:1125 against swa.h:455); `WaitsEnd` without `Asleep` fails with it |
| `ReadableQueue` | | `activity_onInputQueueDestroyed` resets the queue the looper still polls (android.c:1576, 990) |
| `AttachesOwn` | | the assertion of `init_input_queue` (android.c:1020) compares with a queue that may have been reset since it was read |
| `NoCrash` | | the native window or queue that was asked for without the mutex is null when it is used (android.c:1262, 1094, 989) |
| `PushesAlive` (PROPERTY) | `Habits` = {{"quits"}} | an event is pushed to the queue of a display that `display_destroy` is freeing (android.c:707) |
| `BufferWindow` | | a window is created on a native window whose `win_created` or `win_destroyed` event is still queued (android.c:1262, 622) |
| `WakesDisplay` | | the display `activity_onDestroy` wakes may be destroyed (android.c:1432) |
| KmsFlip (`kms_failing`) `FlipAsserted` | | the completion of a destroyed window's flip reaches the next window on the output, and `page_flip_handler`'s assertion fails (kms.c:995) |
| KmsFlip (`kms_served`) `DeferDies` | `DestroyDeferred` = TRUE | `win_destroy` frees a window with its defer enabled (kms.c:222) |
| `PendingQueued` | `Surfaces` = {"gl"} | `win_gl_swap_buffers` sets pending also when the commit failed (kms.c:629) |
| `SessionAgrees` | `Hasty` = TRUE | two SIGUSR1 become one, the handler toggles (kms.c:1325) |
| `NoRequestLost`, `DrawServed` | `FlipFails` = TRUE | a failed commit leaves `redraw` set with no flip to look at it |
| `DrawReady` | | reacquiring the terminal defers a draw event with a flip still underway (kms.c:1357) |
| `RedrawContract`, `DrawServed` | `Surfaces` = {"gl"} | what a GL window draws while the terminal is away waits for a flip that never comes (kms.c:629) |
| KmsDisplay (`kms_display`) `TtyRestored` | `SetupFails` <- `FailsAnywhere` | undone before the keyboard's mode was saved, the terminal gets mode 0, K_RAW (kms.c:1395) |
| `OutputsAgree` | `Machines` <- `Clones` | two connectors of one CRTC are two outputs (kms.c:1592) |
| `KeysTold` | | `1 << bit` shifts an int: keys 32 apart share a bit, so releasing one makes the other count as released (kms.c:1875 against swa.h:481; android.c:833, 1194 alike) |
| `CursorPlaced` | `Cursors` <- `WithLarge` | an image larger than a hardware cursor changes the hot spot and nothing else (kms.c:365) |
| `NoFault` | `XkbWorks` with "no keymap" | the failure of init_xkb is not looked at |
| KmsVulkan (`vk_frames`) `NotMixing` | `FreeDraw` = FALSE | redraw is set after the mutex was released: a second refresh, once the fence is cleared, draws by the defer, and the eventfd then answers the first one while that new frame is pending (vulkan.c:578) |
| `FreedIsSilent` (PROPERTY) | | `win_destroy` leaves thread and eventfd alive |

Met while reading, and shown by no model:

- Wayland: a repeat rate of 0 with the timer armed divides by zero; the relative
  pointer stays unbound when its global is announced before the other; if xkb fails
  at the keymap the seat's other devices are skipped.
- X11: `key_states` is not cleared when the focus goes; a message for a window that
  is gone finds NULL (842-845); `set_icon` allocates bytes for words (422-449); the
  table of visual formats lacks two words its comment claims, and its 24 bit entries
  match nothing.
- Formats: icons and buffers of Windows disagree about byte order (winapi.c:509, 650).
- Windows: a bitmap that could not be made leaves the old one's data (629-646);
  `mouse_over` points to a destroyed window; WM_QUIT is ignored.
- KMS: a set-up that failed leaves `tty_fd` set, so the next window comes without a
  terminal that is switched; keys typed on another terminal are delivered; an
  output's flips are attributed to the first output of its CRTC (978-983).
- Wayland: `busy` of a wl_buffer is read and reset but never set.

## 6. What is not modelled, and why

- Wayland decoration round trips, titles, user moves and resizes; surface
  creation that fails; axis, keymap and modifier events. They do not touch the
  state modelled here.
- The array of `wl_buffer`s. Its protocol is the flag `busy`, which nothing sets: a model
  could only say that the first buffer is always taken.
- X11 cursors, states, moves and resizes, GL and Vulkan surfaces, extensions: requests to
  the server without an answer the program depends on.
- Windows icons, the creation of GL and Vulkan contexts, stubs.
- KMS modes, properties and scrolling; Android key and touch translation.
- EGL, WGL, xkb, cursor themes: straight-line calls into drivers and libraries, or a
  file format. What they may come to is a constant where a handler depends on it.
- The choice of a backend: a sequence of attempts that share nothing.
- Weak memory: unlocked accesses are steps, but sequentially consistent ones.

## 7. Plan

Done: all modules of section 2, and the proofs of section 4: every safety invariant and
action property that the passing runs check, and both refinements of `Redraw`. What could follow:

1. The contract for the other backends, as refinements of `Redraw`, where section 5
   lets them have it: X11 with its frame events, Windows with WM_PAINT.
2. The subsurfaces and layer surfaces of Wayland, once section 5's rows about them are
   settled: `ContractKept` is about toplevels.

----------------------------- MODULE KmsDisplay -----------------------------
(***************************************************************************)
(* The display of the KMS backend (src/swa/kms/kms.c): the set-up of the   *)
(* virtual terminal, one step per system call that may fail, its signals   *)
(* and its restoration; the DRM device and the outputs windows are created *)
(* on; input from libinput, and the hardware cursor.  KmsFlip models what  *)
(* windows draw, and the focus callbacks of a switched terminal.           *)
(*                                                                         *)
(* creating is the window display_create_window makes, while the terminal  *)
(* is set up for it; cb is the listener callback being run.  The           *)
(* application runs when no window is being created, in callbacks, too.    *)
(***************************************************************************)
EXTENDS Integers, Sequences, SequencesExt, FiniteSets

CONSTANTS
  Window,       \* the windows the application may create, each once
  None,         \* the null pointer
  Kinds,        \* "drm" for buffer and GL surfaces, "vk" for Vulkan ones
  Machines,     \* sequences of DRM devices, each whether it can be used, and
                \* the CRTC every connector is driven by, 0 for none
  Crtc,         \* the CRTCs
  Key, Button,  \* the codes the user's keys and buttons have
  Bindings,     \* the keys that switch terminals together with others
  Places,       \* where the pointer may be
  Cursors,      \* what the application sets: the type, the hot spot, whether
                \* the image fits, and whether there is one
  SetupFails,   \* the stages of vt_setup that may fail
  CreateFails,  \* what a window is made of may not be had
  XkbWorks,     \* what init_xkb may come to: "ok", "no keymap", "no state"
  Sessions,     \* sets of the things that happen together
  MaxEvents     \* bound on libinput's events

Matters == {"terminal", "keys", "pointer"}
Devices == {"keyboard", "pointer"}

\* What vt_setup does, in its order.
Stages == <<"name", "open", "number", "activate", "getkb", "setkb", "graphics",
            "process", "block", "signalfd", "term">>

ASSUME WindowAssumption == None \notin Window /\ Kinds \subseteq {"drm", "vk"}
ASSUME CodeAssumption ==
  /\ Bindings \subseteq Key /\ Key \subseteq 0..767
  /\ Button \subseteq 0..31 /\ Places \subseteq Nat
ASSUME MachineAssumption ==
  /\ Crtc \subseteq Nat \ {0}
  /\ Machines \subseteq Seq([usable : BOOLEAN, conns : Seq(Crtc \cup {0})])
ASSUME CursorAssumption ==
  /\ \A c \in Cursors : c.type \in {"image", "theme", "none"} /\ c.hot \in Nat
  /\ \E c \in Cursors : c.type = "none"
ASSUME FailAssumption ==
  /\ SetupFails \subseteq Range(Stages) /\ CreateFails \in BOOLEAN
  /\ XkbWorks \subseteq {"ok", "no keymap", "no state"}
  /\ Sessions \subseteq SUBSET Matters

VARIABLES
  status, kind, output,  \* per window: its life, surface_type and win->output
  crtcs, owner,          \* drm.outputs: their CRTCs and windows; empty when drm.fd is not open
  tty,                   \* struct session: tty_fd, saved_kb_mode, active, and the
                         \* signals blocked and handled
  quit,
  creating,
  focus, over,           \* keyboard.focus and pointer.over
  present, xkb,          \* the devices present; the keymap and its state
  keys, buttons,         \* the bits of key_states and button_states
  ptr,                   \* pointer.x and y
  cursor,                \* per window: cursor.buffer, whether it exists and its hot spot
  cb, fault,
  at,                    \* the program: "run", "killed" or "gone"
  term,                  \* the kernel's terminal
  pending,               \* the signals pending
  shown,                 \* per CRTC: the hot spot of the cursor's image, and its place
  queue,                 \* libinput's events
  plugged, down, taken,  \* the devices plugged in, the keys and buttons held, and
                         \* the keys whose last press was a binding
  crossed,               \* history: the keys whose bit another key's event changed last
  machine, session

winVars == <<status, kind, output>>
drmVars == <<crtcs, owner>>
inputVars == <<present, xkb, keys, buttons, ptr>>
userVars == <<queue, plugged, down, taken, crossed>>
vars == <<winVars, drmVars, tty, quit, creating, focus, over, inputVars, cursor, cb, fault,
          at, term, pending, shown, userVars, machine, session>>

-----------------------------------------------------------------------------
Live(w) == w # None /\ status[w] = "live"

NoWindow == [win |-> None, kind |-> "drm", stage |-> 0]
NoCb == [fn |-> "none", win |-> None]

\* The thread is in no handler, and in no callback either.
Idle == at = "run" /\ fault = "none" /\ creating = NoWindow /\ cb = NoCb
Running == at = "run" /\ fault = "none" /\ creating = NoWindow

Init ==
  /\ status = [w \in Window |-> "unborn"]
  /\ kind = [w \in Window |-> "drm"]
  /\ output = [w \in Window |-> 0]
  /\ crtcs = <<>> /\ owner = <<>>
  /\ tty = [fd |-> "none", saved |-> "raw", active |-> FALSE, blocked |-> {}, io |-> {}]
  /\ quit = FALSE
  /\ creating = NoWindow
  /\ focus = None /\ over = None
  /\ present = {} /\ xkb = "none"
  /\ keys = {} /\ buttons = {}
  /\ ptr = 0
  /\ cursor = [w \in Window |-> [buf |-> FALSE, hot |-> 0]]
  /\ cb = NoCb
  /\ fault = "none"
  /\ at = "run"
  /\ term = [text |-> TRUE, kb |-> "unicode", process |-> FALSE, place |-> "ours"]
  /\ pending = {}
  /\ shown = [c \in Crtc |-> [hot |-> 0, at |-> 0]]
  /\ queue = <<>>
  /\ plugged = {} /\ down = {} /\ taken = {} /\ crossed = {}
  /\ machine \in Machines
  /\ session \in Sessions

-----------------------------------------------------------------------------
(* The terminal *)

\* The window being created is given up: win_destroy, which finds the output
\* it had taken, if any.
GiveUp(w) == status' = [status EXCEPT ![w] = "freed"] /\ creating' = NoWindow

\* What stage s of vt_setup does when it succeeds.
TtyAfter(s) ==
  CASE s = "open" -> [tty EXCEPT !.fd = "open"]
    [] s = "getkb" -> [tty EXCEPT !.saved = term.kb]
    [] s = "block" -> [tty EXCEPT !.blocked = {"usr"}]
    [] s = "signalfd" -> [tty EXCEPT !.io = {"usr"}]
    [] s = "term" -> [tty EXCEPT !.blocked = {"usr", "term"}, !.io = {"usr", "term"},
                                 !.active = TRUE]
    [] OTHER -> tty

TermAfter(s) ==
  CASE s = "activate" -> [term EXCEPT !.place = "ours"]
    [] s = "setkb" -> [term EXCEPT !.kb = "off"]
    [] s = "graphics" -> [term EXCEPT !.text = FALSE]
    [] s = "process" -> [term EXCEPT !.process = TRUE]
    [] OTHER -> term

\* Mutant: the descriptor of a terminal whose set-up fails is dropped.
TtyFailedMutant(s) == IF s = "name" THEN tty ELSE [tty EXCEPT !.fd = "none"]

\* A failure leaves what was done; open leaves -1 in tty_fd, and SIGTERM is
\* blocked before its signalfd is made.
TtyFailed(s) ==
  CASE s = "open" -> [tty EXCEPT !.fd = "bad"]
    [] s = "term" -> [tty EXCEPT !.blocked = {"usr", "term"}]
    [] OTHER -> tty

\* vt_setup, one stage; display_create_window goes on after the last.
VtSetup ==
  /\ at = "run" /\ creating.stage \in DOMAIN Stages
  /\ LET s == Stages[creating.stage]
     IN \/ /\ tty' = TtyAfter(s)
           /\ term' = TermAfter(s)
           /\ creating' = [creating EXCEPT !.stage = @ + 1]
           /\ UNCHANGED status
        \/ /\ s \in SetupFails /\ "terminal" \in session
           /\ tty' = TtyFailed(s)
           /\ GiveUp(creating.win)
           /\ UNCHANGED term
  /\ UNCHANGED <<kind, output, drmVars, quit, focus, over, inputVars, cursor, cb, fault, at,
                 pending, shown, userVars, machine, session>>

\* A signal: pending, or the end of a program that does not block it.
Signal(s) ==
  IF s \in tty.blocked
    THEN pending' = pending \cup {s} /\ UNCHANGED at
    ELSE at' = "killed" /\ UNCHANGED pending

\* The kernel is asked for another terminal.
Leave ==
  /\ term.place = "ours"
  /\ IF term.process
       THEN term' = [term EXCEPT !.place = "leaving"] /\ Signal("usr")
       ELSE term' = [term EXCEPT !.place = "away"] /\ UNCHANGED <<at, pending>>

\* sigusr_handler: any answer lets the kernel leave the terminal.
SigUsr ==
  /\ Idle /\ "usr" \in pending \cap tty.io
  /\ pending' = pending \ {"usr"}
  /\ tty' = [tty EXCEPT !.active = ~@]
  /\ term' = [term EXCEPT !.place = IF @ = "leaving" THEN "away" ELSE @]
  /\ UNCHANGED <<winVars, drmVars, quit, creating, focus, over, inputVars, cursor, cb, fault,
                 at, shown, userVars, machine, session>>

\* sigterm_handler.
SigTerm ==
  /\ Idle /\ "term" \in pending \cap tty.io
  /\ pending' = pending \ {"term"}
  /\ quit' = TRUE
  /\ UNCHANGED <<winVars, drmVars, tty, creating, focus, over, inputVars, cursor, cb, fault,
                 at, term, shown, userVars, machine, session>>

\* The kernel's terminal once display_destroy gave it back.
Restored ==
  [term EXCEPT !.text = TRUE, !.kb = tty.saved, !.process = FALSE,
               !.place = IF @ = "leaving" THEN "ours" ELSE @]

\* display_destroy, after the last window; -1 counts as a descriptor here.
DisplayDestroy ==
  /\ Idle /\ \A w \in Window : ~Live(w)
  /\ at' = "gone"
  /\ term' = IF tty.fd = "open" THEN Restored ELSE term
  /\ crtcs' = <<>> /\ owner' = <<>>
  /\ UNCHANGED <<winVars, tty, quit, creating, focus, over, inputVars, cursor, cb, fault,
                 pending, shown, userVars, machine, session>>

-----------------------------------------------------------------------------
(* Outputs and windows *)

\* output_init: a connector with an active CRTC and what is needed of it.
Outputs(d) == SelectSeq(d.conns, LAMBDA c : c # 0)

\* init_drm_dev.
Usable(d) == d.usable /\ Outputs(d) # <<>>

\* init_drm: the outputs of the first device that can be used.
FirstOutputs ==
  LET good == {i \in DOMAIN machine : Usable(machine[i])}
  IN IF good = {} THEN <<>> ELSE Outputs(machine[CHOOSE i \in good : \A j \in good : i <= j])

\* Mutant: a theme's cursor keeps the hot spot of the one before.
NewHotMutant(old, c) == IF c.type = "image" THEN c.hot ELSE old

NewHot(old, c) == IF c.type = "none" THEN old ELSE c.hot

\* win_set_cursor, with the hot spot first and the errors after it; made tells
\* whether a buffer could be made.
CursorSet(w, crtc, c, made) ==
  IF c.type = "theme" /\ ~c.exists
    THEN UNCHANGED <<cursor, shown>>
    ELSE LET valid == c.type # "none" /\ c.exists
             buf == valid /\ (cursor[w].buf \/ made)
         IN /\ cursor' = [cursor EXCEPT ![w] = [buf |-> buf, hot |-> NewHot(@.hot, c)]]
            /\ shown' = IF buf /\ c.fits THEN [shown EXCEPT ![crtc].hot = c.hot] ELSE shown

Made == IF CreateFails THEN BOOLEAN ELSE {TRUE}

SetCursor(w, c) ==
  /\ Running /\ Live(w) /\ "pointer" \in session
  /\ kind[w] = "drm"
  /\ \E made \in Made : CursorSet(w, crtcs[output[w]], c, made)
  /\ UNCHANGED <<winVars, drmVars, tty, quit, creating, focus, over, inputVars, cb, fault,
                 at, term, pending, userVars, machine, session>>

\* display_create_window; the terminal is set up unless there is a descriptor.
CreateWindow(w, k) ==
  /\ Running /\ status[w] = "unborn" /\ ~quit
  /\ kind' = [kind EXCEPT ![w] = k]
  /\ creating' = [win |-> w, kind |-> k,
                  stage |-> IF tty.fd = "none" THEN 1 ELSE Len(Stages) + 1]
  /\ UNCHANGED <<status, output, drmVars, tty, quit, focus, over, inputVars, cursor, cb,
                 fault, at, term, pending, shown, userVars, machine, session>>

\* settings->cursor.
Settings == IF "pointer" \in session THEN Cursors ELSE {c \in Cursors : c.type = "none"}

\* The window becomes live, and the first one of a device's windows.
Created(w) ==
  /\ status' = [status EXCEPT ![w] = "live"]
  /\ creating' = NoWindow
  /\ over' = IF "pointer" \in present /\ over = None THEN w ELSE over
  /\ focus' = IF "keyboard" \in present /\ focus = None THEN w ELSE focus

\* Vulkan windows and the others exclude each other, in one order.
CreateVulkan ==
  /\ at = "run" /\ creating.stage > Len(Stages) /\ creating.kind = "vk"
  /\ \/ crtcs = <<>> /\ Created(creating.win)
     \/ /\ crtcs # <<>> \/ CreateFails
        /\ GiveUp(creating.win) /\ UNCHANGED <<focus, over>>
  /\ UNCHANGED <<kind, output, drmVars, tty, quit, inputVars, cursor, cb, fault, at, term,
                 pending, shown, userVars, machine, session>>

\* Mutant: a window that fails keeps its output.
OwnersAfterMutant(os, i, w, ok) == [os EXCEPT ![i] = w]

\* The window takes output i, and gives it back when the rest of it fails.
OwnersAfter(os, i, w, ok) == IF ok THEN [os EXCEPT ![i] = w] ELSE os

\* On the first free output.
CreateOnOutput ==
  /\ at = "run" /\ creating.stage > Len(Stages) /\ creating.kind = "drm"
  /\ LET w == creating.win
         cs == IF crtcs = <<>> THEN FirstOutputs ELSE crtcs
         os == IF crtcs = <<>> THEN [i \in DOMAIN cs |-> None] ELSE owner
         free == {i \in DOMAIN os : os[i] = None}
     IN /\ crtcs' = cs
        /\ IF free = {}
             THEN /\ owner' = os /\ GiveUp(w)
                  /\ UNCHANGED <<output, focus, over, cursor, shown>>
             ELSE LET i == CHOOSE i \in free : \A j \in free : i <= j
                  IN \E ok \in Made :
                       /\ owner' = OwnersAfter(os, i, w, ok)
                       /\ output' = [output EXCEPT ![w] = i]
                       /\ IF ok
                            THEN /\ Created(w)
                                 /\ \E c \in Settings, made \in Made :
                                      CursorSet(w, cs[i], c, made)
                            ELSE /\ GiveUp(w)
                                 /\ UNCHANGED <<focus, over, cursor, shown>>
  /\ UNCHANGED <<kind, tty, quit, inputVars, cb, fault, at, term, pending, userVars, machine,
                 session>>

\* win_destroy; the cursor stays on the screen.
WinDestroy(w) ==
  /\ Running /\ Live(w)
  /\ status' = [status EXCEPT ![w] = "freed"]
  /\ owner' = IF output[w] = 0 THEN owner ELSE [owner EXCEPT ![output[w]] = None]
  /\ over' = IF over = w THEN None ELSE over
  /\ focus' = IF focus = w THEN None ELSE focus
  /\ UNCHANGED <<kind, output, crtcs, tty, quit, creating, inputVars, cursor, cb, fault, at,
                 term, pending, shown, userVars, machine, session>>

-----------------------------------------------------------------------------
(* Input *)

\* libinput_io takes the next event.
OnEvent(name) ==
  /\ Idle /\ queue # <<>> /\ Head(queue).on = name
  /\ queue' = Tail(queue)

\* The listener of w is called, if there is a window.
CallBack(fn, w) ==
  IF w = None
    THEN UNCHANGED <<cb, fault>>
    ELSE IF Live(w)
           THEN cb' = [fn |-> fn, win |-> w] /\ UNCHANGED fault
           ELSE fault' = "freed window" /\ UNCHANGED cb

\* handle_device_added, and init_xkb for a keyboard without a keymap.
DeviceAdded ==
  /\ OnEvent("added")
  /\ LET d == Head(queue).arg
     IN IF d = "keyboard" /\ xkb = "none"
          THEN \E r \in XkbWorks :
                 /\ xkb' = CASE r = "ok" -> "ok" [] r = "no keymap" -> "none"
                             [] r = "no state" -> "stateless"
                 /\ present' = IF r = "ok" THEN present \cup {d} ELSE present
          ELSE /\ UNCHANGED xkb
               /\ present' = IF d = "keyboard" THEN present ELSE present \cup {d}
  /\ UNCHANGED <<winVars, drmVars, tty, quit, creating, focus, over, keys, buttons, ptr,
                 cursor, cb, fault, at, term, pending, shown, plugged, down, taken, crossed,
                 machine, session>>

\* Mutant: all codes share a word.
MaskMutant(k) == {<<0, k % 64>>}

\* The bits of (uint64_t)(1 << bit), an int whose last bit is its sign.
Mask(k) ==
  LET word == k \div 64
      bit == k % 32
  IN IF bit = 31 THEN {<<word, b>> : b \in 31..63} ELSE {<<word, bit>>}

\* Keys of one word 32 apart, which the shift of an int confuses.
SharesBit(k, j) == k \div 64 = j \div 64 /\ k % 32 = j % 32
Sharers(k) == {j \in Key : SharesBit(k, j)}

\* display_key_pressed and display_mouse_button_pressed.
KeyPressed(k) == "keyboard" \in present /\ Mask(k) \cap keys # {}
ButtonPressed(b) == "pointer" \in present /\ b \in buttons

\* handle_keyboard_key, with check_binding for a key that switches terminals.
KeyboardKey ==
  /\ OnEvent("key")
  /\ LET e == Head(queue)
         switch == e.press /\ e.binding /\ tty.active
     IN IF xkb # "ok"
          THEN /\ fault' = "no xkb state"
               /\ UNCHANGED <<keys, taken, crossed, term, at, pending, cb>>
          ELSE /\ taken' = IF switch THEN taken \cup {e.arg}
                           ELSE IF e.press THEN taken \ {e.arg} ELSE taken
               /\ IF switch
                    THEN /\ IF term.place = "ours" THEN Leave
                                                   ELSE UNCHANGED <<term, at, pending>>
                         /\ UNCHANGED <<keys, crossed, cb, fault>>
                    ELSE /\ keys' = IF e.press THEN keys \cup Mask(e.arg)
                                               ELSE keys \ Mask(e.arg)
                         /\ crossed' = (crossed \cup Sharers(e.arg)) \ {e.arg}
                         /\ CallBack("key", focus)
                         /\ UNCHANGED <<term, at, pending>>
  /\ UNCHANGED <<winVars, drmVars, tty, quit, creating, focus, over, present, xkb, buttons,
                 ptr, cursor, shown, plugged, down, machine, session>>

\* handle_pointer_button.
PointerButton ==
  /\ OnEvent("button")
  /\ LET e == Head(queue)
     IN buttons' = IF e.press THEN buttons \cup {e.arg} ELSE buttons \ {e.arg}
  /\ CallBack("button", over)
  /\ UNCHANGED <<winVars, drmVars, tty, quit, creating, focus, over, present, xkb, keys, ptr,
                 cursor, at, term, pending, shown, plugged, down, taken, crossed, machine,
                 session>>

\* update_cursor_position.
CursorMoved(p) ==
  IF Live(over) /\ output[over] # 0 /\ cursor[over].buf
    THEN [shown EXCEPT ![crtcs[output[over]]].at = p - cursor[over].hot]
    ELSE shown

\* handle_pointer_motion and handle_pointer_motion_abs; without a listener the
\* cursor moves at once.
PointerMotion ==
  /\ OnEvent("motion")
  /\ ptr' = Head(queue).arg
  /\ IF ptr' = ptr
       THEN UNCHANGED <<cb, fault, shown>>
       ELSE CallBack("motion", over) /\ UNCHANGED shown
  /\ UNCHANGED <<winVars, drmVars, tty, quit, creating, focus, over, present, xkb, keys,
                 buttons, cursor, at, term, pending, plugged, down, taken, crossed, machine,
                 session>>

\* The callback returns, and the cursor follows the pointer.
Return ==
  /\ Running /\ cb # NoCb
  /\ cb' = NoCb
  /\ shown' = IF cb.fn = "motion" THEN CursorMoved(ptr) ELSE shown
  /\ UNCHANGED <<winVars, drmVars, tty, quit, creating, focus, over, inputVars, cursor, fault,
                 at, term, pending, userVars, machine, session>>

-----------------------------------------------------------------------------
(* The user and the kernel *)

Arrives(e) ==
  /\ at = "run" /\ fault = "none"
  /\ Len(queue) < MaxEvents
  /\ queue' = Append(queue, e)

Plug(d) ==
  /\ d \notin plugged
  /\ (IF d = "keyboard" THEN "keys" ELSE "pointer") \in session
  /\ plugged' = plugged \cup {d}
  /\ Arrives([on |-> "added", arg |-> d])
  /\ UNCHANGED <<winVars, drmVars, tty, quit, creating, focus, over, inputVars, cursor, cb,
                 fault, at, term, pending, shown, down, taken, crossed, machine, session>>

Press(name, k, isBinding) ==
  /\ Arrives([on |-> name, arg |-> k, press |-> <<name, k>> \notin down,
              binding |-> isBinding])
  /\ down' = IF <<name, k>> \in down THEN down \ {<<name, k>>} ELSE down \cup {<<name, k>>}
  /\ UNCHANGED <<winVars, drmVars, tty, quit, creating, focus, over, inputVars, cursor, cb,
                 fault, at, term, pending, shown, plugged, taken, crossed, machine, session>>

UserPresses ==
  \/ /\ "keys" \in session /\ "keyboard" \in plugged
     /\ \E k \in Key, isBinding \in BOOLEAN :
          (isBinding => k \in Bindings) /\ Press("key", k, isBinding)
  \/ /\ "pointer" \in session /\ "pointer" \in plugged
     /\ \E b \in Button : Press("button", b, FALSE)

UserMoves(p) ==
  /\ "pointer" \in session /\ "pointer" \in plugged
  /\ Arrives([on |-> "motion", arg |-> p])
  /\ UNCHANGED <<winVars, drmVars, tty, quit, creating, focus, over, inputVars, cursor, cb,
                 fault, at, term, pending, shown, plugged, down, taken, crossed, machine, session>>

\* Another program, or the user's key before vt_setup, switches terminals.
UserLeaves ==
  /\ at = "run" /\ fault = "none" /\ "terminal" \in session
  /\ Leave
  /\ UNCHANGED <<winVars, drmVars, tty, quit, creating, focus, over, inputVars, cursor, cb,
                 fault, shown, userVars, machine, session>>

UserComesBack ==
  /\ at = "run" /\ fault = "none"
  /\ term.place = "away"
  /\ term' = [term EXCEPT !.place = "ours"]
  /\ IF term.process THEN Signal("usr") ELSE UNCHANGED <<at, pending>>
  /\ UNCHANGED <<winVars, drmVars, tty, quit, creating, focus, over, inputVars, cursor, cb,
                 fault, shown, userVars, machine, session>>

Terminate ==
  /\ at = "run" /\ fault = "none" /\ "terminal" \in session
  /\ Signal("term")
  /\ UNCHANGED <<winVars, drmVars, tty, quit, creating, focus, over, inputVars, cursor, cb,
                 fault, term, shown, userVars, machine, session>>

-----------------------------------------------------------------------------
Next ==
  \/ VtSetup \/ SigUsr \/ SigTerm \/ DisplayDestroy
  \/ CreateVulkan \/ CreateOnOutput
  \/ \E w \in Window :
       \/ \E k \in Kinds : CreateWindow(w, k)
       \/ \E c \in Cursors : SetCursor(w, c)
       \/ WinDestroy(w)
  \/ DeviceAdded \/ KeyboardKey \/ PointerButton \/ PointerMotion \/ Return
  \/ \E d \in Devices : Plug(d)
  \/ \E p \in Places : UserMoves(p)
  \/ UserPresses \/ UserLeaves \/ UserComesBack \/ Terminate

Spec == Init /\ [][Next]_vars

-----------------------------------------------------------------------------
(* Properties *)

\* Once display_destroy returned, the terminal is as the program found it:
\* text, the keyboard mode it had, and switched by the kernel, whatever stage
\* of vt_setup failed, whichever window was created after that, and wherever
\* the user is.
TtyRestored ==
  at = "gone" => term.text /\ term.kb = "unicode" /\ ~term.process

\* An output and its window know each other, also after a window failed half
\* way, no two windows are on one CRTC, and input goes to live windows.
OutputsAgree ==
  at = "run" =>
    /\ \A i \in DOMAIN owner : owner[i] # None => Live(owner[i]) /\ output[owner[i]] = i
    /\ \A w \in Window : Live(w) /\ kind[w] = "drm" =>
         \A v \in Window \ {w} : Live(v) /\ kind[v] = "drm" =>
           crtcs[output[w]] # crtcs[output[v]]
    /\ {focus, over} \subseteq {None} \cup {w \in Window : Live(w)}

\* A key is held that did not switch the terminal.
Held(k) == <<"key", k>> \in down /\ k \notin taken

\* When all events were handled, the keys and buttons that count as pressed are
\* the ones held, but for the keys that switched the terminal.  Keys share bits of
\* key_states: one whose bit another key changed since may count as pressed or not,
\* but it does only while a key of that bit is held.
InputHeld ==
  queue = <<>> /\ fault = "none" =>
    /\ \A k \in Key \ crossed : KeyPressed(k) <=> Held(k)
    /\ \A k \in Key : KeyPressed(k) => \E j \in Sharers(k) : Held(j)
    /\ \A b \in Button : ButtonPressed(b) <=> <<"button", b>> \in down

\* What swa_display_key_pressed says it returns, "whether the given key is currently
\* pressed", of every key.  It does not, for keys that share a bit.
KeysTold ==
  queue = <<>> /\ fault = "none" => \A k \in Key : KeyPressed(k) <=> Held(k)

\* After the pointer moved over a window with a cursor, the hot spot of the image
\* on its screen is where the pointer is.
CursorPlaced ==
  [][Return /\ cb.fn = "motion" =>
       (Live(over) /\ output[over] # 0 /\ cursor[over].buf =>
          LET s == shown'[crtcs[output[over]]] IN s.at + s.hot = ptr)]_vars

\* What a handler uses is there.
NoFault == fault = "none"
=============================================================================

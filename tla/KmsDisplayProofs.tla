-------------------------- MODULE KmsDisplayProofs --------------------------
(***************************************************************************)
(* Proofs about the display of KmsDisplay, for every set of windows,       *)
(* machine, keyboard and mouse, and a queue of events of any length; and   *)
(* about the frame thread of its Vulkan windows (KmsVulkan), for any       *)
(* number of fence handles and any application.                            *)
(***************************************************************************)
EXTENDS KmsDisplay, KmsVulkan, WellFoundedInduction, TLAPS

-----------------------------------------------------------------------------
(* The terminal *)

\* The terminal as the program found it.
Untouched == term.text /\ term.kb = "unicode" /\ ~term.process

Tty == [fd : {"none", "open", "bad"}, saved : {"raw", "unicode", "off"}, active : BOOLEAN,
        blocked : SUBSET {"usr", "term"}, io : SUBSET {"usr", "term"}]
Term == [text : BOOLEAN, kb : {"raw", "unicode", "off"}, process : BOOLEAN,
         place : {"ours", "leaving", "away"}]
Creating == [win : Window \cup {None}, kind : {"drm", "vk"}, stage : 0 .. 12]

\* vt_setup touches the terminal only once it is open and the keyboard's mode
\* is saved, which display_destroy then finds.
TtyInv ==
  /\ tty \in Tty /\ term \in Term /\ creating \in Creating
  /\ tty.fd # "open" => Untouched
  /\ creating.stage \in 1 .. 2 => tty.fd = "none"
  /\ creating.stage \in 3 .. 11 => tty.fd = "open"
  /\ creating.stage \in 3 .. 5 => Untouched
  /\ tty.fd = "open" /\ creating.stage \notin 3 .. 5 /\ at # "gone" => tty.saved = "unicode"
  /\ at = "gone" => Untouched

LEMMA StageNames ==
  /\ Len(Stages) = 11 /\ DOMAIN Stages = 1 .. 11
  /\ Stages[1] = "name" /\ Stages[2] = "open" /\ Stages[3] = "number"
  /\ Stages[4] = "activate" /\ Stages[5] = "getkb" /\ Stages[6] = "setkb"
  /\ Stages[7] = "graphics" /\ Stages[8] = "process" /\ Stages[9] = "block"
  /\ Stages[10] = "signalfd" /\ Stages[11] = "term"
  BY DEF Stages

LEMMA TtyInit == Init => TtyInv
  BY DEF Init, TtyInv, Tty, Term, Creating, NoWindow, Untouched

\* Signals and switches of the terminal leave its mode, its text and the
\* keyboard's mode that was saved.
LEMMA TtySwitched ==
  ASSUME TtyInv, at # "gone",
         tty' = tty \/ \E b \in BOOLEAN : tty' = [tty EXCEPT !.active = b],
         term' = term
           \/ \E place \in {"ours", "leaving", "away"} : term' = [term EXCEPT !.place = place],
         creating' = creating, at' \in {at, "killed"}
  PROVE  TtyInv'
<1>1. tty' \in Tty /\ tty'.fd = tty.fd /\ tty'.saved = tty.saved
  BY DEF TtyInv, Tty
<1>2. /\ term' \in Term /\ term'.text = term.text /\ term'.kb = term.kb
      /\ term'.process = term.process
  BY DEF TtyInv, Term
<1> QED
  BY <1>1, <1>2 DEF TtyInv, Untouched

LEMMA LeaveSwitches ==
  ASSUME Leave
  PROVE  /\ \E place \in {"leaving", "away"} : term' = [term EXCEPT !.place = place]
         /\ at' \in {at, "killed"}
  BY DEF Leave, Signal

\* One stage of vt_setup
LEMMA TtySetup ==
  ASSUME SetupFails \cap {"number", "activate", "getkb"} = {}, TtyInv, VtSetup
  PROVE  TtyInv'
<1> DEFINE n == creating.stage
           s == Stages[n]
<1>1. n \in 1 .. 11 /\ at = "run" /\ at' = at
  BY StageNames DEF VtSetup
<1>2. /\ s = "name" <=> n = 1
      /\ s = "open" <=> n = 2
      /\ s = "getkb" <=> n = 5
      /\ s = "activate" <=> n = 4
      /\ s = "setkb" <=> n = 6
      /\ s = "graphics" <=> n = 7
      /\ s = "process" <=> n = 8
      /\ s \in {"number", "activate", "getkb"} <=> n \in 3 .. 5
  BY <1>1, StageNames
<1> HIDE DEF s
<1>3. CASE /\ tty' = TtyAfter(s) /\ term' = TermAfter(s)
           /\ creating' = [creating EXCEPT !.stage = @ + 1]
  <2>1. creating' \in Creating /\ creating'.stage = n + 1
    BY <1>1, <1>3 DEF TtyInv, Creating
  <2>2. /\ tty' \in Tty
        /\ tty'.fd = IF n = 2 THEN "open" ELSE tty.fd
        /\ tty'.saved = IF n = 5 THEN term.kb ELSE tty.saved
    BY <1>2, <1>3 DEF TtyAfter, TtyInv, Tty, Term
  <2>3. term' \in Term /\ (n <= 5 => Untouched' = Untouched)
    <3>1. term' \in Term
      BY <1>3 DEF TermAfter, TtyInv, Term
    <3>2. CASE n <= 5
      <4>1. term' = term \/ term' = [term EXCEPT !.place = "ours"]
        BY <1>2, <1>3, <3>2 DEF TermAfter
      <4>2. term'.text = term.text /\ term'.kb = term.kb /\ term'.process = term.process
        BY <4>1 DEF TtyInv, Term
      <4> QED
        BY <3>1, <4>2 DEF Untouched
    <3> QED
      BY <1>1, <3>1, <3>2
  <2>4. n = 5 => term.kb = "unicode"
    BY DEF TtyInv, Untouched
  <2> QED
    BY <1>1, <2>1, <2>2, <2>3, <2>4 DEF TtyInv
<1>4. CASE s \in SetupFails /\ tty' = TtyFailed(s) /\ creating' = NoWindow /\ UNCHANGED term
  <2>1. n \notin 3 .. 5
    BY <1>2, <1>4
  <2>2. tty' \in Tty /\ tty'.saved = tty.saved /\ tty'.fd = IF n = 2 THEN "bad" ELSE tty.fd
    BY <1>2, <1>4 DEF TtyFailed, TtyInv, Tty
  <2>3. creating' \in Creating /\ creating'.stage = 0
    BY <1>4 DEF NoWindow, Creating
  <2>4. Untouched' = Untouched
    BY <1>4 DEF Untouched
  <2> QED
    BY <1>1, <1>4, <2>1, <2>2, <2>3, <2>4 DEF TtyInv
<1> QED
  BY <1>3, <1>4 DEF VtSetup, GiveUp, s

LEMMA TtyStep ==
  ASSUME SetupFails \cap {"number", "activate", "getkb"} = {}, TtyInv, [Next]_vars
  PROVE  TtyInv'
<1>1. CASE UNCHANGED <<tty, term, creating, at>>
  BY <1>1 DEF TtyInv, Untouched
<1>2. CASE SigUsr
  <2>1. term.place \in {"ours", "leaving", "away"} /\ tty.active \in BOOLEAN
    BY DEF TtyInv, Term, Tty
  <2>2. at # "gone" /\ UNCHANGED <<creating, at>>
    BY <1>2 DEF SigUsr, Idle
  <2>3. \E b \in BOOLEAN : tty' = [tty EXCEPT !.active = b]
    BY <1>2, <2>1 DEF SigUsr
  <2>4. \E place \in {"ours", "leaving", "away"} : term' = [term EXCEPT !.place = place]
    BY <1>2, <2>1 DEF SigUsr
  <2> QED
    BY <2>2, <2>3, <2>4, TtySwitched
<1>3. CASE KeyboardKey
  <2>1. /\ at # "gone" /\ UNCHANGED <<tty, creating>>
        /\ Leave \/ UNCHANGED <<term, at>>
    BY <1>3 DEF KeyboardKey, OnEvent, Idle
  <2> QED
    BY <2>1, LeaveSwitches, TtySwitched
<1>4. CASE UserLeaves
  BY <1>4, LeaveSwitches, TtySwitched DEF UserLeaves
<1>5. CASE UserComesBack
  <2>1. at # "gone" /\ at' \in {at, "killed"} /\ term' = [term EXCEPT !.place = "ours"]
        /\ UNCHANGED <<tty, creating>>
    BY <1>5 DEF UserComesBack, Signal
  <2> QED
    BY <2>1, TtySwitched
<1>6. CASE Terminate
  BY <1>6, TtySwitched DEF Terminate, Signal
<1>7. CASE DisplayDestroy
  <2>1. /\ at = "run" /\ creating = NoWindow /\ at' = "gone" /\ UNCHANGED <<tty, creating>>
        /\ term' = IF tty.fd = "open" THEN Restored ELSE term
    BY <1>7 DEF DisplayDestroy, Idle
  <2>2. creating.stage = 0
    BY <2>1 DEF NoWindow
  <2>3. CASE tty.fd = "open"
    <3>1. tty.saved = "unicode" /\ term' = Restored
      BY <2>1, <2>2, <2>3 DEF TtyInv
    <3>2. term' \in Term /\ term'.text /\ term'.kb = "unicode" /\ ~term'.process
      BY <3>1 DEF TtyInv, Term, Restored
    <3> QED
      BY <2>1, <2>2, <2>3, <3>2 DEF TtyInv, Untouched
  <2>4. CASE tty.fd # "open"
    BY <2>1, <2>2, <2>4 DEF TtyInv, Untouched
  <2> QED
    BY <2>3, <2>4
<1>8. ASSUME NEW w \in Window, NEW k \in Kinds, CreateWindow(w, k) PROVE TtyInv'
  <2>1. /\ creating' = [win |-> w, kind |-> k, stage |-> IF tty.fd = "none" THEN 1 ELSE 12]
        /\ creating = NoWindow /\ UNCHANGED <<tty, term, at>>
    BY <1>8, StageNames DEF CreateWindow, Running
  <2>2. /\ creating' \in Creating /\ creating.stage = 0
        /\ creating'.stage = IF tty.fd = "none" THEN 1 ELSE 12
    BY <2>1, WindowAssumption DEF Creating, NoWindow
  <2>3. Untouched' = Untouched
    BY <2>1 DEF Untouched
  <2> QED
    BY <2>1, <2>2, <2>3 DEF TtyInv
<1>9. CASE CreateVulkan \/ CreateOnOutput
  <2>1. /\ creating.stage > 11 /\ creating' = NoWindow /\ UNCHANGED <<tty, term, at>>
    BY <1>9, StageNames DEF CreateVulkan, CreateOnOutput, Created, GiveUp
  <2>2. creating.stage = 12 /\ creating' \in Creating /\ creating'.stage = 0
    BY <2>1 DEF TtyInv, Creating, NoWindow
  <2>3. Untouched' = Untouched
    BY <2>1 DEF Untouched
  <2> QED
    BY <2>1, <2>2, <2>3 DEF TtyInv
<1>10. CASE SigTerm \/ Return \/ DeviceAdded \/ PointerButton \/ PointerMotion \/ UserPresses
  BY <1>1, <1>10
     DEF SigTerm, Return, DeviceAdded, PointerButton, PointerMotion, UserPresses, Press
<1>11. ASSUME NEW w \in Window, WinDestroy(w) \/ \E c \in Cursors : SetCursor(w, c)
       PROVE  TtyInv'
  BY <1>1, <1>11 DEF WinDestroy, SetCursor
<1>12. CASE (\E d \in Devices : Plug(d)) \/ \E q \in Places : UserMoves(q)
  BY <1>1, <1>12 DEF Plug, UserMoves
<1>13. CASE UNCHANGED vars
  BY <1>1, <1>13 DEF vars
<1> QED
  BY <1>2, <1>3, <1>4, <1>5, <1>6, <1>7, <1>8, <1>9, <1>10, <1>11, <1>12, <1>13, TtySetup
     DEF Next

\* display_destroy leaves the terminal as the program found it, whichever stages
\* of vt_setup fail, as long as the terminal is not opened without its keyboard
\* mode being saved; whoever switches it, and however many windows are created.
THEOREM TtyGivenBack ==
  ASSUME SetupFails \cap {"number", "activate", "getkb"} = {}
  PROVE  Spec => []TtyRestored
<1>1. TtyInv => TtyRestored
  BY DEF TtyInv, TtyRestored, Untouched
<1> QED
  BY <1>1, TtyInit, TtyStep, PTL DEF Spec

-----------------------------------------------------------------------------
(* Outputs *)

\* The outputs of a device are driven by different CRTCs.
DistinctOutputs ==
  \A m \in Machines : \A d \in DOMAIN m :
    LET outputs == Outputs(m[d]) IN
    /\ outputs \in Seq(Crtc)
    /\ \A i, j \in DOMAIN outputs : outputs[i] = outputs[j] => i = j

\* An output and its window name each other; the window being created is not
\* one of them yet.
OutputInv ==
  /\ status \in [Window -> {"unborn", "live", "freed"}]
  /\ kind \in [Window -> {"drm", "vk"}] /\ output \in [Window -> Nat]
  /\ machine \in Machines
  /\ crtcs \in Seq(Crtc) /\ \A i, j \in DOMAIN crtcs : crtcs[i] = crtcs[j] => i = j
  /\ DOMAIN owner = DOMAIN crtcs
  /\ creating = NoWindow \/ /\ creating.win \in Window /\ status[creating.win] = "unborn"
                            /\ creating.kind = kind[creating.win] /\ creating.stage \in Nat \ {0}
  /\ \A i \in DOMAIN owner : owner[i] # None =>
       /\ owner[i] \in Window /\ status[owner[i]] = "live"
       /\ kind[owner[i]] = "drm" /\ output[owner[i]] = i
  /\ \A w \in Window :
       /\ status[w] = "unborn" => output[w] = 0
       /\ status[w] = "live" /\ kind[w] = "vk" => output[w] = 0
       /\ status[w] = "live" /\ kind[w] = "drm" =>
            output[w] \in DOMAIN owner /\ owner[output[w]] = w
  /\ {focus, over} \subseteq {None} \cup {w \in Window : Live(w)}

\* The first of some places in a sequence is one of them.
LEMMA FirstPlace ==
  ASSUME NEW S \in SUBSET Nat, S # {}
  PROVE  (CHOOSE i \in S : \A j \in S : i <= j) \in S
<1>1. \E i \in S : \A j \in S : ~ (<<j, i>> \in OpToRel(<, Nat))
  BY NatLessThanWellFounded, WFMin
<1>2. PICK i \in S : \A j \in S : ~ (<<j, i>> \in OpToRel(<, Nat))
  BY <1>1
<1>3. ASSUME NEW j \in S PROVE i <= j
  <2>1. <<j, i>> \in Nat \X Nat /\ ~ (<<j, i>> \in OpToRel(<, Nat))
    BY <1>2
  <2>2. ~ (j < i)
    BY <2>1 DEF OpToRel
  <2> QED
    BY <2>2
<1> QED
  BY <1>3

LEMMA FirstOutputsDistinct ==
  ASSUME DistinctOutputs, machine \in Machines
  PROVE  /\ FirstOutputs \in Seq(Crtc)
         /\ \A i, j \in DOMAIN FirstOutputs : FirstOutputs[i] = FirstOutputs[j] => i = j
<1> DEFINE good == {i \in DOMAIN machine : Usable(machine[i])}
           first == CHOOSE i \in good : \A j \in good : i <= j
<1>1. CASE good = {}
  <2>1. FirstOutputs = <<>>
    BY <1>1 DEF FirstOutputs
  <2> QED
    BY <2>1
<1>2. CASE good # {}
  <2>1. machine \in Seq([usable : BOOLEAN, conns : Seq(Crtc \cup {0})])
    BY MachineAssumption
  <2>2. DOMAIN machine \subseteq Nat
    BY <2>1
  <2>3. good \in SUBSET Nat
    BY <2>2
  <2>4. first \in good
    BY <1>2, <2>3, FirstPlace
  <2>5. FirstOutputs = Outputs(machine[first])
    BY <1>2 DEF FirstOutputs
  <2> HIDE DEF first
  <2> QED
    BY <2>4, <2>5 DEF DistinctOutputs
<1> QED
  BY <1>1, <1>2

LEMMA OutputInit == Init => OutputInv
  BY DEF Init, OutputInv, Live

\* Steps that have to do neither with windows nor with outputs
LEMMA OutputSame ==
  ASSUME OutputInv, UNCHANGED <<winVars, drmVars, creating, focus, over, machine>>
  PROVE  OutputInv'
  BY DEF OutputInv, Live, winVars, drmVars

\* The window being created is given up before it had an output.
LEMMA OutputGiveUp ==
  ASSUME OutputInv, creating # NoWindow, GiveUp(creating.win),
         UNCHANGED <<kind, drmVars, machine, output, focus, over>>
  PROVE  OutputInv'
<1> DEFINE w == creating.win
<1>1. /\ w \in Window /\ status[w] = "unborn" /\ creating' = NoWindow
      /\ status'[w] = "freed" /\ \A v \in Window : v # w => status'[v] = status[v]
      /\ status' \in [Window -> {"unborn", "live", "freed"}]
  BY DEF OutputInv, GiveUp
<1>2. \A v \in Window : status'[v] = "live" <=> status[v] = "live"
  BY <1>1
<1>3. \A v \in Window : status'[v] = "unborn" => status[v] = "unborn"
  BY <1>1
<1>4. {focus', over'} \subseteq {None} \cup {v \in Window : Live(v)'}
  BY <1>2 DEF OutputInv, Live
<1> HIDE DEF w
<1> QED
  BY <1>1, <1>2, <1>3, <1>4 DEF OutputInv, drmVars

\* The window being created becomes live, on an output if it is not for Vulkan.
LEMMA OutputCreated ==
  ASSUME OutputInv, NEW w \in Window, creating # NoWindow, w = creating.win, Created(w),
         UNCHANGED <<kind, machine>>,
         crtcs' \in Seq(Crtc), \A i, j \in DOMAIN crtcs' : crtcs'[i] = crtcs'[j] => i = j,
         crtcs' = crtcs \/ \A i \in DOMAIN owner : FALSE,
         DOMAIN owner' = DOMAIN crtcs',
         \/ kind[w] = "vk" /\ UNCHANGED <<output, owner>>
         \/ /\ kind[w] = "drm"
            /\ \E o \in DOMAIN crtcs' :
                 /\ owner'[o] = w /\ output' = [output EXCEPT ![w] = o]
                 /\ \A i \in DOMAIN crtcs' : i # o => 
                      owner'[i] = IF i \in DOMAIN owner THEN owner[i] ELSE None
                 /\ o \in DOMAIN owner => owner[o] = None
  PROVE  OutputInv'
<1>1. /\ status[w] = "unborn" /\ creating' = NoWindow
      /\ status'[w] = "live" /\ \A v \in Window : v # w => status'[v] = status[v]
      /\ status' \in [Window -> {"unborn", "live", "freed"}]
  BY DEF OutputInv, Created
<1>2. {focus', over'} \subseteq {None} \cup {v \in Window : Live(v)'}
  BY <1>1, WindowAssumption DEF OutputInv, Live, Created
<1>3. CASE kind[w] = "vk"
  <2>1. UNCHANGED <<output, owner>> /\ output[w] = 0
    BY <1>1, <1>3 DEF OutputInv
  <2> QED
    BY <1>1, <1>2, <1>3, <2>1 DEF OutputInv
<1>4. CASE kind[w] = "drm"
  <2>1. PICK o \in DOMAIN crtcs' :
          /\ owner'[o] = w /\ output' = [output EXCEPT ![w] = o]
          /\ \A i \in DOMAIN crtcs' : i # o =>
               owner'[i] = IF i \in DOMAIN owner THEN owner[i] ELSE None
          /\ o \in DOMAIN owner => owner[o] = None
    BY <1>4
  <2>2. o \in Nat
    OBVIOUS
  <2>3. /\ output' \in [Window -> Nat] /\ output'[w] = o
        /\ \A v \in Window : v # w => output'[v] = output[v]
    BY <2>1, <2>2 DEF OutputInv
  <2>4. DOMAIN owner \subseteq DOMAIN crtcs'
    BY DEF OutputInv
  <2>5. \A i \in DOMAIN owner' : owner'[i] # None =>
          /\ owner'[i] \in Window /\ status'[owner'[i]] = "live"
          /\ kind[owner'[i]] = "drm" /\ output'[owner'[i]] = i
    <3> SUFFICES ASSUME NEW i \in DOMAIN owner', owner'[i] # None
                 PROVE  /\ owner'[i] \in Window /\ status'[owner'[i]] = "live"
                        /\ kind[owner'[i]] = "drm" /\ output'[owner'[i]] = i
      OBVIOUS
    <3>1. CASE i = o
      BY <1>1, <1>4, <2>1, <2>3, <3>1
    <3>2. CASE i # o
      <4>1. i \in DOMAIN owner /\ owner'[i] = owner[i]
        BY <2>1, <3>2
      <4>2. owner[i] \in Window /\ owner[i] # w
        BY <1>1, <4>1 DEF OutputInv
      <4> QED
        BY <1>1, <2>3, <4>1, <4>2 DEF OutputInv
    <3> QED
      BY <3>1, <3>2
  <2>6. ASSUME NEW v \in Window, status'[v] = "live", kind[v] = "drm"
        PROVE  output'[v] \in DOMAIN owner' /\ owner'[output'[v]] = v
    <3>1. CASE v = w
      BY <2>1, <2>3, <3>1
    <3>2. CASE v # w
      <4>1. output[v] \in DOMAIN owner /\ owner[output[v]] = v
        BY <1>1, <2>6, <3>2 DEF OutputInv
      <4>2. output[v] # o
        BY <2>1, <4>1, WindowAssumption
      <4> QED
        BY <2>1, <2>3, <2>4, <3>2, <4>1, <4>2
    <3> QED
      BY <3>1, <3>2
  <2>7. \A v \in Window :
          /\ status'[v] = "unborn" => output'[v] = 0
          /\ status'[v] = "live" /\ kind[v] = "vk" => output'[v] = 0
    BY <1>1, <1>4, <2>3 DEF OutputInv
  <2> QED
    BY <1>1, <1>2, <2>3, <2>5, <2>6, <2>7 DEF OutputInv
<1> QED
  BY <1>3, <1>4 DEF OutputInv

\* A window on the first free output, or given up
LEMMA OutputOnOutput ==
  ASSUME DistinctOutputs, OutputInv, CreateOnOutput
  PROVE  OutputInv'
<1> DEFINE w == creating.win
           cs == IF crtcs = <<>> THEN FirstOutputs ELSE crtcs
           os == IF crtcs = <<>> THEN [i \in DOMAIN cs |-> None] ELSE owner
           free == {i \in DOMAIN os : os[i] = None}
           o == CHOOSE i \in free : \A j \in free : i <= j
<1>1. /\ creating # NoWindow /\ w \in Window /\ status[w] = "unborn" /\ kind[w] = "drm"
      /\ UNCHANGED <<kind, machine>>
  BY StageNames DEF CreateOnOutput, OutputInv, NoWindow
<1>2. /\ crtcs' = cs /\ cs \in Seq(Crtc)
      /\ \A i, j \in DOMAIN cs : cs[i] = cs[j] => i = j
  BY FirstOutputsDistinct DEF CreateOnOutput, OutputInv
<1>3. /\ DOMAIN os = DOMAIN cs
      /\ \A i \in DOMAIN os : os[i] = IF i \in DOMAIN owner THEN owner[i] ELSE None
      /\ crtcs = <<>> => \A i \in DOMAIN owner : FALSE
      /\ DOMAIN owner \subseteq DOMAIN os
  BY DEF OutputInv
<1>4. \/ owner' = os /\ GiveUp(w) /\ UNCHANGED <<output, focus, over>>
      \/ /\ free # {} /\ output' = [output EXCEPT ![w] = o]
         /\ \/ owner' = os /\ GiveUp(w) /\ UNCHANGED <<focus, over>>
            \/ owner' = [os EXCEPT ![o] = w] /\ Created(w)
  BY DEF CreateOnOutput, OwnersAfter
<1>5. free # {} => o \in DOMAIN os /\ os[o] = None /\ o \in Nat
  <2>1. free \in SUBSET Nat
    BY <1>2, <1>3
  <2>2. free # {} => o \in free
    <3> HIDE DEF free
    <3> QED
      BY <2>1, FirstPlace
  <2> HIDE DEF o
  <2> QED
    BY <2>1, <2>2
<1> HIDE DEF cs, os, free, o
<1>6. CASE owner' = os /\ GiveUp(w) /\ UNCHANGED <<focus, over>>
           /\ (output' = output \/ (free # {} /\ output' = [output EXCEPT ![w] = o]))
  <2>1. /\ creating' = NoWindow /\ status'[w] = "freed"
        /\ \A v \in Window : v # w => status'[v] = status[v]
        /\ status' \in [Window -> {"unborn", "live", "freed"}]
    BY <1>1, <1>6 DEF OutputInv, GiveUp
  <2>2. output' \in [Window -> Nat] /\ \A v \in Window : v # w => output'[v] = output[v]
    BY <1>5, <1>6 DEF OutputInv
  <2>3. {focus', over'} \subseteq {None} \cup {v \in Window : Live(v)'}
    BY <1>1, <1>6, <2>1 DEF OutputInv, Live
  <2>4. \A i \in DOMAIN owner' : owner'[i] # None =>
          /\ owner'[i] \in Window /\ status'[owner'[i]] = "live"
          /\ kind'[owner'[i]] = "drm" /\ output'[owner'[i]] = i
    <3> SUFFICES ASSUME NEW i \in DOMAIN owner', owner'[i] # None
                 PROVE  /\ owner'[i] \in Window /\ status'[owner'[i]] = "live"
                        /\ kind'[owner'[i]] = "drm" /\ output'[owner'[i]] = i
      OBVIOUS
    <3>1. i \in DOMAIN owner /\ owner'[i] = owner[i]
      BY <1>3, <1>6
    <3>2. owner[i] \in Window /\ owner[i] # w
      BY <1>1, <3>1 DEF OutputInv
    <3> QED
      BY <1>1, <2>1, <2>2, <3>1, <3>2 DEF OutputInv
  <2>5. ASSUME NEW v \in Window, status'[v] = "live", kind'[v] = "drm"
        PROVE  output'[v] \in DOMAIN owner' /\ owner'[output'[v]] = v
    <3>1. v # w /\ output[v] \in DOMAIN owner /\ owner[output[v]] = v
      BY <1>1, <2>1, <2>5 DEF OutputInv
    <3> QED
      BY <1>3, <1>6, <2>2, <3>1
  <2>6. \A v \in Window :
          /\ status'[v] = "unborn" => output'[v] = 0
          /\ status'[v] = "live" /\ kind'[v] = "vk" => output'[v] = 0
    <3> SUFFICES ASSUME NEW v \in Window
                 PROVE  /\ status'[v] = "unborn" => output'[v] = 0
                        /\ status'[v] = "live" /\ kind'[v] = "vk" => output'[v] = 0
      OBVIOUS
    <3>1. CASE v = w
      BY <2>1, <3>1
    <3>2. CASE v # w
      <4>1. status'[v] = status[v] /\ output'[v] = output[v] /\ kind'[v] = kind[v]
        BY <1>1, <2>1, <2>2, <3>2
      <4> QED
        BY <4>1 DEF OutputInv
    <3> QED
      BY <3>1, <3>2
  <2> QED
    BY <1>1, <1>2, <1>3, <1>6, <2>1, <2>2, <2>3, <2>4, <2>5, <2>6 DEF OutputInv
<1>7. CASE /\ free # {} /\ output' = [output EXCEPT ![w] = o]
           /\ owner' = [os EXCEPT ![o] = w] /\ Created(w)
  <2>1. /\ o \in DOMAIN crtcs' /\ DOMAIN owner' = DOMAIN crtcs' /\ owner'[o] = w
        /\ \A i \in DOMAIN crtcs' : i # o =>
             owner'[i] = IF i \in DOMAIN owner THEN owner[i] ELSE None
        /\ o \in DOMAIN owner => owner[o] = None
    BY <1>2, <1>3, <1>5, <1>7
  <2>2. crtcs' = crtcs \/ \A i \in DOMAIN owner : FALSE
    BY <1>2, <1>3 DEF cs
  <2>3. /\ crtcs' \in Seq(Crtc)
        /\ \A i, j \in DOMAIN crtcs' : crtcs'[i] = crtcs'[j] => i = j
    BY <1>2
  <2> QED
    BY <1>1, <1>7, <2>1, <2>2, <2>3, OutputCreated
<1> QED
  BY <1>4, <1>6, <1>7

LEMMA OutputStep ==
  ASSUME DistinctOutputs, OutputInv, [Next]_vars
  PROVE  OutputInv'
<1>1. CASE VtSetup
  <2>1. /\ creating.stage \in 1 .. 11 /\ creating # NoWindow
        /\ UNCHANGED <<kind, output, drmVars, focus, over, machine>>
    BY <1>1, StageNames DEF VtSetup, NoWindow
  <2>2. CASE creating' = [creating EXCEPT !.stage = @ + 1] /\ UNCHANGED status
    <3>1. /\ creating' # NoWindow
          /\ OutputInv => creating'.stage \in Nat \ {0}
      BY <2>1, <2>2 DEF OutputInv, NoWindow
    <3> QED
      BY <2>1, <2>2 DEF OutputInv, Live, drmVars
  <2> QED
    BY <1>1, <2>1, <2>2, OutputGiveUp DEF VtSetup
<1>2. CASE DisplayDestroy
  <2>1. /\ crtcs' = <<>> /\ owner' = <<>> /\ \A w \in Window : ~Live(w)
        /\ UNCHANGED <<winVars, creating, focus, over, machine>>
    BY <1>2 DEF DisplayDestroy
  <2>2. focus' = None /\ over' = None
    BY <2>1 DEF OutputInv
  <2>3. crtcs' \in Seq(Crtc) /\ DOMAIN owner' = DOMAIN crtcs' /\ DOMAIN crtcs' = {}
    BY <2>1
  <2>4. \A w \in Window : status'[w] # "live"
    BY <2>1, WindowAssumption DEF Live, winVars
  <2> QED
    BY <2>1, <2>2, <2>3, <2>4 DEF OutputInv, winVars
<1>3. ASSUME NEW w \in Window, NEW k \in Kinds, CreateWindow(w, k) PROVE OutputInv'
  <2>1. /\ status[w] = "unborn" /\ kind' = [kind EXCEPT ![w] = k] /\ k \in {"drm", "vk"}
        /\ creating'.win = w /\ creating'.kind = k /\ creating'.stage \in Nat \ {0}
        /\ UNCHANGED <<status, output, drmVars, focus, over, machine>>
    BY <1>3, WindowAssumption, StageNames DEF CreateWindow
  <2>2. /\ kind' \in [Window -> {"drm", "vk"}] /\ kind'[w] = k
        /\ \A v \in Window : v # w => kind'[v] = kind[v]
    BY <2>1 DEF OutputInv
  <2>3. creating' = NoWindow \/ /\ creating'.win \in Window /\ status'[creating'.win] = "unborn"
                                /\ creating'.kind = kind'[creating'.win]
                                /\ creating'.stage \in Nat \ {0}
    BY <2>1, <2>2
  <2>4. \A i \in DOMAIN owner' : owner'[i] # None =>
          /\ owner'[i] \in Window /\ status'[owner'[i]] = "live"
          /\ kind'[owner'[i]] = "drm" /\ output'[owner'[i]] = i
    <3>1. \A i \in DOMAIN owner : owner[i] # None => owner[i] # w
      BY <2>1 DEF OutputInv
    <3> QED
      BY <2>1, <2>2, <3>1 DEF OutputInv, drmVars
  <2>5. \A v \in Window :
          /\ status'[v] = "unborn" => output'[v] = 0
          /\ status'[v] = "live" /\ kind'[v] = "vk" => output'[v] = 0
          /\ status'[v] = "live" /\ kind'[v] = "drm" =>
               output'[v] \in DOMAIN owner' /\ owner'[output'[v]] = v
    BY <2>1, <2>2 DEF OutputInv, drmVars
  <2> QED
    BY <2>1, <2>2, <2>3, <2>4, <2>5 DEF OutputInv, Live, drmVars
<1>4. CASE CreateVulkan
  <2>1. /\ creating # NoWindow /\ creating.kind = "vk"
        /\ UNCHANGED <<kind, output, drmVars, machine>>
    BY <1>4, StageNames DEF CreateVulkan, NoWindow
  <2>2. CASE Created(creating.win)
    <3>1. /\ creating.win \in Window /\ kind[creating.win] = "vk"
          /\ crtcs' \in Seq(Crtc) /\ \A i, j \in DOMAIN crtcs' : crtcs'[i] = crtcs'[j] => i = j
          /\ DOMAIN owner' = DOMAIN crtcs' /\ UNCHANGED <<crtcs, owner>>
      BY <2>1 DEF OutputInv, drmVars
    <3> QED
      BY <2>1, <2>2, <3>1, OutputCreated
  <2>3. CASE GiveUp(creating.win) /\ UNCHANGED <<focus, over>>
    BY <2>1, <2>3, OutputGiveUp
  <2> QED
    BY <1>4, <2>2, <2>3 DEF CreateVulkan
<1>5. CASE CreateOnOutput
  BY <1>5, OutputOnOutput
<1>6. ASSUME NEW w \in Window, WinDestroy(w) PROVE OutputInv'
  <2>1. /\ status[w] = "live" /\ status' = [status EXCEPT ![w] = "freed"] /\ creating = NoWindow
        /\ owner' = IF output[w] = 0 THEN owner ELSE [owner EXCEPT ![output[w]] = None]
        /\ over' = IF over = w THEN None ELSE over
        /\ focus' = IF focus = w THEN None ELSE focus
        /\ UNCHANGED <<kind, output, crtcs, creating, machine>>
    BY <1>6 DEF WinDestroy, Live, Running
  <2>2. /\ status' \in [Window -> {"unborn", "live", "freed"}] /\ status'[w] = "freed"
        /\ \A v \in Window : v # w => status'[v] = status[v]
    BY <2>1 DEF OutputInv
  <2>3. {focus', over'} \subseteq {None} \cup {v \in Window : Live(v)'}
    BY <2>1, <2>2 DEF OutputInv, Live
  <2>4. DOMAIN owner' = DOMAIN owner
        /\ \A i \in DOMAIN owner : owner'[i] = IF i = output[w] THEN None ELSE owner[i]
    <3>1. 0 \notin DOMAIN owner
      BY DEF OutputInv
    <3> QED
      BY <2>1, <3>1
  <2>5. \A i \in DOMAIN owner : i # output[w] => owner[i] # w
    BY WindowAssumption DEF OutputInv
  <2>6. \A v \in Window : v # w /\ status[v] = "live" /\ kind[v] = "drm" => output[v] # output[w]
    <3>1. CASE kind[w] = "drm"
      BY <2>1, <3>1 DEF OutputInv
    <3>2. CASE kind[w] = "vk"
      <4>1. output[w] = 0 /\ 0 \notin DOMAIN owner
        BY <2>1, <3>2 DEF OutputInv
      <4> QED
        BY <4>1 DEF OutputInv
    <3> QED
      BY <3>1, <3>2 DEF OutputInv
  <2>7. \A i \in DOMAIN owner' : owner'[i] # None =>
          /\ owner'[i] \in Window /\ status'[owner'[i]] = "live"
          /\ kind'[owner'[i]] = "drm" /\ output'[owner'[i]] = i
    BY <2>1, <2>2, <2>4, <2>5 DEF OutputInv
  <2>8. \A v \in Window :
          /\ status'[v] = "unborn" => output'[v] = 0
          /\ status'[v] = "live" /\ kind'[v] = "vk" => output'[v] = 0
          /\ status'[v] = "live" /\ kind'[v] = "drm" =>
               output'[v] \in DOMAIN owner' /\ owner'[output'[v]] = v
    BY <2>1, <2>2, <2>4, <2>6 DEF OutputInv
  <2> QED
    BY <2>1, <2>2, <2>3, <2>4, <2>7, <2>8 DEF OutputInv
<1>7. CASE SigUsr \/ SigTerm \/ Return \/ DeviceAdded \/ KeyboardKey \/ PointerButton
           \/ PointerMotion \/ UserPresses \/ UserLeaves \/ UserComesBack \/ Terminate
  BY <1>7, OutputSame
     DEF SigUsr, SigTerm, Return, DeviceAdded, KeyboardKey, PointerButton, PointerMotion,
         UserPresses, Press, UserLeaves, UserComesBack, Terminate
<1>8. ASSUME NEW w \in Window, NEW c \in Cursors, SetCursor(w, c) PROVE OutputInv'
  BY <1>8, OutputSame DEF SetCursor
<1>9. CASE (\E d \in Devices : Plug(d)) \/ \E q \in Places : UserMoves(q)
  BY <1>9, OutputSame DEF Plug, UserMoves
<1>10. CASE UNCHANGED vars
  BY <1>10, OutputSame DEF vars
<1> QED
  BY <1>1, <1>2, <1>3, <1>4, <1>5, <1>6, <1>7, <1>8, <1>9, <1>10 DEF Next

\* An output and its window know each other, no two windows are on one CRTC, and
\* the keyboard and the pointer are at windows that live: on every machine whose
\* devices report connectors with CRTCs of their own.
THEOREM OutputsOwned ==
  ASSUME DistinctOutputs
  PROVE  Spec => []OutputsAgree
<1>1. OutputInv => OutputsAgree
  <2> SUFFICES ASSUME OutputInv PROVE OutputsAgree
    OBVIOUS
  <2>1. \A i \in DOMAIN owner : owner[i] # None => Live(owner[i]) /\ output[owner[i]] = i
    BY DEF OutputInv, Live
  <2>2. ASSUME NEW w \in Window, Live(w), kind[w] = "drm",
               NEW v \in Window \ {w}, Live(v), kind[v] = "drm"
        PROVE  crtcs[output[w]] # crtcs[output[v]]
    <3>1. /\ output[w] \in DOMAIN crtcs /\ owner[output[w]] = w
          /\ output[v] \in DOMAIN crtcs /\ owner[output[v]] = v
      BY <2>2 DEF OutputInv, Live
    <3> QED
      BY <3>1 DEF OutputInv
  <2>3. {focus, over} \subseteq {None} \cup {w \in Window : Live(w)}
    BY DEF OutputInv
  <2> QED
    BY <2>1, <2>2, <2>3 DEF OutputsAgree
<1> QED
  BY <1>1, OutputInit, OutputStep, PTL DEF Spec

-----------------------------------------------------------------------------
(* Keys and buttons *)

QueueEvent ==
  [on : {"added"}, arg : Devices] \cup [on : {"motion"}, arg : Places]
    \cup [on : {"key"}, arg : Key, press : BOOLEAN, binding : BOOLEAN]
    \cup [on : {"button"}, arg : Button, press : BOOLEAN, binding : BOOLEAN]

IsFor(e, name, k) == e.on = name /\ e.arg = k

\* h tells for every place in the queue whether key or button k was held there:
\* each event of k changes it, and at the end it is as the user holds it.
History(h, name, k) ==
  /\ h[Len(queue) + 1] <=> <<name, k>> \in down
  /\ \A i \in 1 .. Len(queue) :
       IF IsFor(queue[i], name, k)
         THEN (queue[i].press <=> ~h[i]) /\ (h[i + 1] <=> queue[i].press)
         ELSE h[i + 1] <=> h[i]

Histories == [1 .. Len(queue) + 1 -> BOOLEAN]

AddedBefore(i) ==
  \E j \in DOMAIN queue : j < i /\ queue[j].on = "added" /\ queue[j].arg = "pointer"

\* What counts as pressed is what was held when the queue's first event was
\* sent, but for the keys of bindings and those whose bit another key changed; a
\* bit that is set was set by a key whose bit no other one changed since; a mouse
\* is there before its buttons.
InputInv ==
  /\ queue \in Seq(QueueEvent) /\ present \subseteq Devices
  /\ xkb = "ok" => "keyboard" \in present
  /\ keys # {} => "keyboard" \in present
  /\ buttons # {} => "pointer" \in present
  /\ "pointer" \in plugged => "pointer" \in present \/ AddedBefore(Len(queue) + 1)
  /\ \A i \in DOMAIN queue : queue[i].on = "button" => "pointer" \in present \/ AddedBefore(i)
  /\ \A k \in Key : \E h \in Histories :
       /\ History(h, "key", k)
       /\ k \notin crossed => (Mask(k) \cap keys # {} <=> h[1] /\ k \notin taken)
  /\ \A k \in Key : Mask(k) \cap keys # {} => \E j \in Sharers(k) : j \notin crossed
  /\ \A b \in Button : \E h \in Histories :
       History(h, "button", b) /\ (b \in buttons <=> h[1])

InputOk == fault = "none" => InputInv

LEMMA MaskSome == ASSUME NEW k \in Key PROVE Mask(k) # {}
<1>1. 31 \in 31 .. 63
  OBVIOUS
<1> QED
  BY <1>1 DEF Mask

\* The keys that share bits have the same, the others have none in common.
LEMMA MaskShared ==
  ASSUME NEW k \in Key, NEW j \in Key
  PROVE  IF SharesBit(k, j) THEN Mask(k) = Mask(j) ELSE Mask(k) \cap Mask(j) = {}
<1>1. CASE SharesBit(k, j)
  BY <1>1 DEF Mask, SharesBit
<1>2. CASE ~ SharesBit(k, j)
  <2> SUFFICES ASSUME NEW b \in Mask(k), b \in Mask(j) PROVE FALSE
    BY <1>2
  <2>1. k % 32 \in 0 .. 31 /\ j % 32 \in 0 .. 31
    BY CodeAssumption
  <2>2. b[1] = k \div 64 /\ (IF k % 32 = 31 THEN b[2] \in 31 .. 63 ELSE b[2] = k % 32)
    BY DEF Mask
  <2>3. b[1] = j \div 64 /\ (IF j % 32 = 31 THEN b[2] \in 31 .. 63 ELSE b[2] = j % 32)
    BY DEF Mask
  <2>4. k % 32 = j % 32
    BY <2>1, <2>2, <2>3
  <2> QED
    BY <1>2, <2>2, <2>3, <2>4 DEF SharesBit
<1> QED
  BY <1>1, <1>2

\* The history of a key goes on without its first place when an event is taken,
LEMMA HistoryPop ==
  ASSUME queue \in Seq(QueueEvent), queue # <<>>, queue' = Tail(queue), down' = down,
         NEW name, NEW k, NEW h \in Histories, History(h, name, k)
  PROVE  /\ h[1] \in BOOLEAN
         /\ IF IsFor(Head(queue), name, k)
              THEN (Head(queue).press <=> ~h[1]) /\ (h[2] <=> Head(queue).press)
              ELSE h[2] <=> h[1]
         /\ \E g \in Histories' : History(g, name, k)' /\ g[1] = h[2]
<1> DEFINE n == Len(queue)
<1> PICK g : g = [i \in 1 .. n |-> h[i + 1]]
  OBVIOUS
<1>1. /\ n \in Nat \ {0} /\ Len(queue') = n - 1 /\ Head(queue) = queue[1]
      /\ \A i \in 1 .. n - 1 : queue'[i] = queue[i + 1]
  OBVIOUS
<1>2. \A i \in 1 .. n + 1 : h[i] \in BOOLEAN
  BY DEF Histories
<1>3. g \in Histories'
  <2>1. g \in [1 .. n -> BOOLEAN]
    BY <1>1, <1>2
  <2> QED
    BY <1>1, <2>1 DEF Histories
<1>4. History(g, name, k)'
  <2>1. g[Len(queue') + 1] <=> <<name, k>> \in down'
    BY <1>1 DEF History
  <2>2. ASSUME NEW i \in 1 .. Len(queue')
        PROVE  IF IsFor(queue'[i], name, k)
                 THEN (queue'[i].press <=> ~g[i]) /\ (g[i + 1] <=> queue'[i].press)
                 ELSE g[i + 1] <=> g[i]
    <3>1. i + 1 \in 1 .. n /\ queue'[i] = queue[i + 1] /\ g[i] = h[i + 1] /\ g[i + 1] = h[i + 2]
      BY <1>1
    <3> QED
      BY <1>1, <3>1 DEF History
  <2> QED
    BY <2>1, <2>2 DEF History, IsFor
<1>5. g[1] = h[2]
  BY <1>1
<1>6. IF IsFor(Head(queue), name, k)
        THEN (Head(queue).press <=> ~h[1]) /\ (h[2] <=> Head(queue).press)
        ELSE h[2] <=> h[1]
  BY <1>1 DEF History
<1> QED
  BY <1>1, <1>2, <1>3, <1>4, <1>5, <1>6

\* and with one more when the user's next event joins the queue: one that presses
\* a key that is up, or lets one go that is down.
LEMMA HistoryPush ==
  ASSUME queue \in Seq(QueueEvent), NEW e, queue' = Append(queue, e),
         NEW name, NEW k, NEW h \in Histories, History(h, name, k),
         IF IsFor(e, name, k)
           THEN /\ e.press <=> <<name, k>> \notin down
                /\ <<name, k>> \in down' <=> e.press
           ELSE <<name, k>> \in down' <=> <<name, k>> \in down
  PROVE  \E g \in Histories' : History(g, name, k)' /\ g[1] = h[1]
<1> DEFINE n == Len(queue)
<1> PICK held : held \in BOOLEAN /\ (held <=> <<name, k>> \in down')
  BY <<name, k>> \in down' \/ <<name, k>> \notin down'
<1> PICK g : g = [i \in 1 .. n + 2 |-> IF i <= n + 1 THEN h[i] ELSE held]
  OBVIOUS
<1>1. /\ n \in Nat /\ Len(queue') = n + 1 /\ queue'[n + 1] = e
      /\ \A i \in 1 .. n : queue'[i] = queue[i]
  OBVIOUS
<1>2. \A i \in 1 .. n + 1 : h[i] \in BOOLEAN
  BY DEF Histories
<1>3. g \in Histories'
  <2>1. g \in [1 .. n + 2 -> BOOLEAN]
    BY <1>1, <1>2
  <2> QED
    BY <1>1, <2>1 DEF Histories
<1>4. History(g, name, k)'
  <2>1. g[Len(queue') + 1] <=> <<name, k>> \in down'
    BY <1>1
  <2>2. ASSUME NEW i \in 1 .. Len(queue')
        PROVE  IF IsFor(queue'[i], name, k)
                 THEN (queue'[i].press <=> ~g[i]) /\ (g[i + 1] <=> queue'[i].press)
                 ELSE g[i + 1] <=> g[i]
    <3>1. CASE i <= n
      <4>1. i \in 1 .. n /\ queue'[i] = queue[i] /\ g[i] = h[i] /\ g[i + 1] = h[i + 1]
        BY <1>1, <3>1
      <4> QED
        BY <4>1 DEF History
    <3>2. CASE i = n + 1
      <4>1. queue'[i] = e /\ g[i] = h[n + 1] /\ (g[i + 1] <=> <<name, k>> \in down')
        BY <1>1, <3>2
      <4>2. h[n + 1] <=> <<name, k>> \in down
        BY DEF History
      <4> QED
        BY <4>1, <4>2
    <3> QED
      BY <1>1, <3>1, <3>2
  <2> QED
    BY <2>1, <2>2 DEF History, IsFor
<1>5. g[1] = h[1]
  BY <1>1
<1> QED
  BY <1>3, <1>4, <1>5

LEMMA InputInit == Init => InputInv
<1> SUFFICES ASSUME Init PROVE InputInv
  OBVIOUS
<1>1. /\ queue = <<>> /\ down = {} /\ keys = {} /\ buttons = {} /\ taken = {}
      /\ present = {} /\ xkb = "none" /\ plugged = {}
  BY DEF Init
<1>2. \A name, k : \E h \in Histories : History(h, name, k) /\ h[1] = FALSE
  <2> TAKE name, k
  <2> DEFINE h == [i \in 1 .. 1 |-> FALSE]
  <2>1. h \in Histories /\ History(h, name, k) /\ h[1] = FALSE
    BY <1>1 DEF Histories, History
  <2> QED
    BY <2>1
<1> QED
  BY SMTT(30), <1>1, <1>2 DEF InputInv

\* Steps that have to do neither with the queue nor with the devices
LEMMA InputSame ==
  ASSUME InputInv, UNCHANGED <<queue, down, keys, buttons, taken, crossed, present, xkb, plugged>>
  PROVE  InputInv'
  BY DEF InputInv, History, Histories, AddedBefore

\* libinput_io takes an event, whose handler does what the event says.
LEMMA InputPop ==
  ASSUME InputInv, queue # <<>>, queue' = Tail(queue), UNCHANGED <<down, plugged>>,
         present \subseteq present', present' \subseteq Devices,
         xkb' = "ok" => "keyboard" \in present',
         keys' # {} => "keyboard" \in present',
         buttons' # {} => "pointer" \in present',
         Head(queue).on = "added" /\ Head(queue).arg = "pointer" => "pointer" \in present',
         \A k \in Key : k \notin crossed' =>
           IF IsFor(Head(queue), "key", k)
             THEN (Head(queue).press /\ k \notin crossed => Mask(k) \cap keys = {}) =>
                    (Mask(k) \cap keys' # {} <=> Head(queue).press /\ k \notin taken')
             ELSE /\ k \notin crossed
                  /\ Mask(k) \cap keys' = Mask(k) \cap keys
                  /\ k \in taken' <=> k \in taken,
         \A k \in Key : Mask(k) \cap keys' # {} => \E j \in Sharers(k) : j \notin crossed',
         \A b \in Button :
           IF IsFor(Head(queue), "button", b)
             THEN b \in buttons' <=> Head(queue).press
             ELSE b \in buttons' <=> b \in buttons
  PROVE  InputInv'
<1> DEFINE n == Len(queue)
<1>1. /\ queue \in Seq(QueueEvent) /\ queue' \in Seq(QueueEvent)
      /\ n \in Nat \ {0} /\ Len(queue') = n - 1 /\ Head(queue) = queue[1]
      /\ DOMAIN queue = 1 .. n /\ DOMAIN queue' = 1 .. n - 1
      /\ \A i \in 1 .. n - 1 : queue'[i] = queue[i + 1]
  BY DEF InputInv
<1>2. \A i \in Nat : AddedBefore(i + 1) => "pointer" \in present' \/ AddedBefore(i)'
  <2> SUFFICES ASSUME NEW i \in Nat, AddedBefore(i + 1), "pointer" \notin present'
               PROVE  AddedBefore(i)'
    OBVIOUS
  <2>1. PICK j \in DOMAIN queue : j < i + 1 /\ queue[j].on = "added" /\ queue[j].arg = "pointer"
    BY DEF AddedBefore
  <2>2. j # 1
    BY <1>1, <2>1
  <2>3. j - 1 \in DOMAIN queue' /\ j - 1 < i /\ queue'[j - 1] = queue[j]
    BY <1>1, <2>1, <2>2
  <2> QED
    BY <2>1, <2>3 DEF AddedBefore
<1>3. "pointer" \in plugged' => "pointer" \in present' \/ AddedBefore(Len(queue) + 1)'
  <2> PICK m : m = n
    OBVIOUS
  <2>1. m \in Nat /\ Len(queue') + 1 = m /\ Len(queue) + 1 = m + 1
    BY <1>1
  <2>2. "pointer" \in plugged => "pointer" \in present \/ AddedBefore(m + 1)
    BY <2>1 DEF InputInv
  <2>3. "pointer" \in plugged' => "pointer" \in present' \/ AddedBefore(m)'
    BY <1>2, <2>1, <2>2
  <2> QED
    BY <2>1, <2>3 DEF AddedBefore
<1>4. ASSUME NEW i \in DOMAIN queue', queue'[i].on = "button"
      PROVE  "pointer" \in present' \/ AddedBefore(i)'
  <2>1. i \in Nat /\ i + 1 \in DOMAIN queue /\ queue[i + 1].on = "button"
    BY <1>1, <1>4
  <2>2. "pointer" \in present \/ AddedBefore(i + 1)
    BY <2>1 DEF InputInv
  <2> QED
    BY <1>2, <2>1, <2>2
<1>5. ASSUME NEW k \in Key
      PROVE  \E g \in Histories' :
               /\ History(g, "key", k)'
               /\ k \notin crossed' => (Mask(k) \cap keys' # {} <=> g[1] /\ k \notin taken')
  <2>1. PICK h \in Histories :
          /\ History(h, "key", k)
          /\ k \notin crossed => (Mask(k) \cap keys # {} <=> h[1] /\ k \notin taken)
    BY DEF InputInv
  <2>2. /\ h[1] \in BOOLEAN
        /\ IF IsFor(Head(queue), "key", k)
             THEN (Head(queue).press <=> ~h[1]) /\ (h[2] <=> Head(queue).press)
             ELSE h[2] <=> h[1]
    BY <1>1, <2>1, HistoryPop
  <2>3. PICK g \in Histories' : History(g, "key", k)' /\ g[1] = h[2]
    BY <1>1, <2>1, HistoryPop
  <2>4. k \notin crossed' => (Mask(k) \cap keys' # {} <=> h[2] /\ k \notin taken')
    BY <2>1, <2>2
  <2> QED
    BY <2>3, <2>4
<1>6. ASSUME NEW b \in Button
      PROVE  \E g \in Histories' : History(g, "button", b)' /\ (b \in buttons' <=> g[1])
  <2>1. PICK h \in Histories : History(h, "button", b) /\ (b \in buttons <=> h[1])
    BY DEF InputInv
  <2>2. /\ h[1] \in BOOLEAN
        /\ IF IsFor(Head(queue), "button", b)
             THEN (Head(queue).press <=> ~h[1]) /\ (h[2] <=> Head(queue).press)
             ELSE h[2] <=> h[1]
    BY <1>1, <2>1, HistoryPop
  <2>3. PICK g \in Histories' : History(g, "button", b)' /\ g[1] = h[2]
    BY <1>1, <2>1, HistoryPop
  <2>4. b \in buttons' <=> h[2]
    BY <2>1, <2>2
  <2> QED
    BY <2>3, <2>4
<1> QED
  BY <1>1, <1>3, <1>4, <1>5, <1>6 DEF InputInv

\* An event of the user joins the queue.
LEMMA InputPush ==
  ASSUME InputInv, NEW e \in QueueEvent, queue' = Append(queue, e),
         UNCHANGED <<keys, buttons, taken, crossed, present, xkb>>,
         plugged \subseteq plugged',
         "pointer" \in plugged' => "pointer" \in plugged
                                   \/ (e.on = "added" /\ e.arg = "pointer"),
         e.on = "button" => "pointer" \in plugged,
         \A k \in Key \cup Button : \A name \in {"key", "button"} :
           IF IsFor(e, name, k)
             THEN /\ e.press <=> <<name, k>> \notin down
                  /\ <<name, k>> \in down' <=> e.press
             ELSE <<name, k>> \in down' <=> <<name, k>> \in down
  PROVE  InputInv'
<1> DEFINE n == Len(queue)
<1>1. /\ queue \in Seq(QueueEvent) /\ queue' \in Seq(QueueEvent)
      /\ n \in Nat /\ Len(queue') = n + 1 /\ queue'[n + 1] = e
      /\ DOMAIN queue = 1 .. n /\ DOMAIN queue' = 1 .. n + 1
      /\ \A i \in 1 .. n : queue'[i] = queue[i]
  BY DEF InputInv
<1>2. ASSUME NEW i \in Nat, NEW m \in Nat, i <= m, AddedBefore(i) PROVE AddedBefore(m)'
  <2>1. PICK j \in DOMAIN queue : j < i /\ queue[j].on = "added" /\ queue[j].arg = "pointer"
    BY <1>2 DEF AddedBefore
  <2>2. j \in DOMAIN queue' /\ j < m /\ queue'[j] = queue[j]
    BY <1>1, <1>2, <2>1
  <2> QED
    BY <2>1, <2>2 DEF AddedBefore
<1>3. ASSUME "pointer" \in plugged'
      PROVE  "pointer" \in present' \/ AddedBefore(Len(queue) + 1)'
  <2>1. CASE "pointer" \in plugged
    <3> PICK m : m = n
      OBVIOUS
    <3>1. "pointer" \in present \/ AddedBefore(m + 1)
      BY <2>1 DEF InputInv
    <3>2. "pointer" \in present \/ AddedBefore(m + 2)'
      BY <1>1, <1>2, <3>1
    <3>3. m + 2 = Len(queue') + 1
      BY <1>1
    <3> QED
      BY <3>2, <3>3 DEF AddedBefore
  <2>2. CASE e.on = "added" /\ e.arg = "pointer"
    <3>1. n + 1 \in DOMAIN queue' /\ n + 1 < Len(queue') + 1
      BY <1>1
    <3> QED
      BY <1>1, <2>2, <3>1 DEF AddedBefore
  <2> QED
    BY <1>3, <2>1, <2>2
<1>4. ASSUME NEW i \in DOMAIN queue', queue'[i].on = "button"
      PROVE  "pointer" \in present' \/ AddedBefore(i)'
  <2>1. i \in Nat
    BY <1>1
  <2>2. CASE i \in DOMAIN queue
    <3>1. "pointer" \in present \/ AddedBefore(i)
      BY <1>1, <1>4, <2>2 DEF InputInv
    <3> QED
      BY <1>2, <2>1, <3>1
  <2>3. CASE i = n + 1
    <3>1. "pointer" \in present \/ AddedBefore(n + 1)
      BY <1>1, <1>4, <2>3 DEF InputInv
    <3> QED
      BY <1>2, <2>1, <2>3, <3>1
  <2> QED
    BY <1>1, <2>2, <2>3
<1>5. ASSUME NEW k \in Key
      PROVE  \E g \in Histories' :
               /\ History(g, "key", k)'
               /\ k \notin crossed' => (Mask(k) \cap keys' # {} <=> g[1] /\ k \notin taken')
  <2>1. PICK h \in Histories :
          /\ History(h, "key", k)
          /\ k \notin crossed => (Mask(k) \cap keys # {} <=> h[1] /\ k \notin taken)
    BY DEF InputInv
  <2>2. IF IsFor(e, "key", k)
          THEN /\ e.press <=> <<"key", k>> \notin down
               /\ <<"key", k>> \in down' <=> e.press
          ELSE <<"key", k>> \in down' <=> <<"key", k>> \in down
    OBVIOUS
  <2>3. PICK g \in Histories' : History(g, "key", k)' /\ g[1] = h[1]
    <3> HIDE DEF IsFor
    <3> QED
      BY <1>1, <2>1, <2>2, HistoryPush
  <2> QED
    BY <2>1, <2>3
<1>6. ASSUME NEW b \in Button
      PROVE  \E g \in Histories' : History(g, "button", b)' /\ (b \in buttons' <=> g[1])
  <2>1. PICK h \in Histories : History(h, "button", b) /\ (b \in buttons <=> h[1])
    BY DEF InputInv
  <2>2. IF IsFor(e, "button", b)
          THEN /\ e.press <=> <<"button", b>> \notin down
               /\ <<"button", b>> \in down' <=> e.press
          ELSE <<"button", b>> \in down' <=> <<"button", b>> \in down
    OBVIOUS
  <2>3. PICK g \in Histories' : History(g, "button", b)' /\ g[1] = h[1]
    <3> HIDE DEF IsFor
    <3> QED
      BY <1>1, <2>1, <2>2, HistoryPush
  <2> QED
    BY <2>1, <2>3
<1> QED
  BY <1>1, <1>3, <1>4, <1>5, <1>6 DEF InputInv

\* No step ends a fault.
LEMMA FaultStays ==
  ASSUME [Next]_vars, fault' = "none" PROVE fault = "none"
  BY DEF Next, vars, VtSetup, SigUsr, SigTerm, DisplayDestroy, CreateVulkan, CreateOnOutput,
     CreateWindow, SetCursor, WinDestroy, DeviceAdded, KeyboardKey, PointerButton,
     PointerMotion, Return, Plug, UserMoves, UserPresses, Press, UserLeaves, UserComesBack,
     Terminate, OnEvent, Idle

LEMMA HeadEvent ==
  ASSUME queue \in Seq(QueueEvent), queue # <<>>
  PROVE  /\ Head(queue) \in QueueEvent /\ Head(queue) = queue[1] /\ 1 \in DOMAIN queue
         /\ ~ AddedBefore(1)
  BY DEF AddedBefore

LEMMA InputStep ==
  ASSUME InputInv, [Next]_vars, fault' = "none"
  PROVE  InputInv'
<1>1. CASE VtSetup \/ SigUsr \/ SigTerm \/ DisplayDestroy \/ CreateVulkan \/ CreateOnOutput
           \/ Return \/ UserLeaves \/ UserComesBack \/ Terminate
  BY <1>1, InputSame
     DEF VtSetup, SigUsr, SigTerm, DisplayDestroy, CreateVulkan, CreateOnOutput, Return,
         UserLeaves, UserComesBack, Terminate, inputVars, userVars
<1>2. ASSUME NEW w \in Window,
             \/ \E k \in Kinds : CreateWindow(w, k)
             \/ \E c \in Cursors : SetCursor(w, c)
             \/ WinDestroy(w)
      PROVE  InputInv'
  BY <1>2, InputSame DEF CreateWindow, SetCursor, WinDestroy, inputVars, userVars
<1>3. CASE UNCHANGED vars
  BY <1>3, InputSame DEF vars, inputVars, userVars
<1>4. CASE DeviceAdded
  <2>1. /\ queue # <<>> /\ queue' = Tail(queue) /\ Head(queue).on = "added"
        /\ UNCHANGED <<down, plugged, keys, buttons, taken, crossed>>
    BY <1>4 DEF DeviceAdded, OnEvent
  <2>2. Head(queue).arg \in Devices
    BY <2>1, HeadEvent DEF InputInv, QueueEvent
  <2>3. /\ present \subseteq present' /\ present' \subseteq Devices
        /\ xkb' = "ok" => "keyboard" \in present'
        /\ Head(queue).arg = "pointer" => "pointer" \in present'
    <3> DEFINE d == Head(queue).arg
    <3>1. CASE d = "keyboard" /\ xkb = "none"
      <4>1. PICK r \in XkbWorks :
              /\ xkb' = CASE r = "ok" -> "ok" [] r = "no keymap" -> "none"
                          [] r = "no state" -> "stateless"
              /\ present' = IF r = "ok" THEN present \cup {d} ELSE present
        BY <1>4, <3>1 DEF DeviceAdded
      <4>2. r \in {"ok", "no keymap", "no state"}
        BY FailAssumption
      <4>3. xkb' = "ok" <=> r = "ok"
        BY <4>1, <4>2
      <4> QED
        BY <2>2, <3>1, <4>1, <4>3 DEF InputInv
    <3>2. CASE ~ (d = "keyboard" /\ xkb = "none")
      <4>1. /\ UNCHANGED xkb
            /\ present' = IF d = "keyboard" THEN present ELSE present \cup {d}
        BY <1>4, <3>2 DEF DeviceAdded
      <4> QED
        BY <2>2, <4>1 DEF InputInv
    <3> QED
      BY <3>1, <3>2
  <2>4. \A k : ~ IsFor(Head(queue), "key", k) /\ ~ IsFor(Head(queue), "button", k)
    BY <2>1 DEF IsFor
  <2> QED
    BY <2>1, <2>3, <2>4, InputPop DEF InputInv
<1>5. CASE KeyboardKey
  <2> DEFINE e == Head(queue)
             switch == e.press /\ e.binding /\ tty.active
  <2>1. /\ queue # <<>> /\ queue' = Tail(queue) /\ e.on = "key" /\ xkb = "ok"
        /\ taken' = IF switch THEN taken \cup {e.arg}
                    ELSE IF e.press THEN taken \ {e.arg} ELSE taken
        /\ keys' = IF switch THEN keys
                   ELSE IF e.press THEN keys \cup Mask(e.arg) ELSE keys \ Mask(e.arg)
        /\ crossed' = IF switch THEN crossed ELSE (crossed \cup Sharers(e.arg)) \ {e.arg}
        /\ UNCHANGED <<down, plugged, present, xkb, buttons>>
    BY <1>5 DEF KeyboardKey, OnEvent
  <2>2. e.arg \in Key /\ e.press \in BOOLEAN
    BY <2>1, HeadEvent DEF InputInv, QueueEvent
  <2>3. "keyboard" \in present'
    BY <2>1 DEF InputInv
  <2>4. ASSUME NEW k \in Key, k # e.arg, k \notin crossed'
        PROVE  /\ k \notin crossed /\ Mask(k) \cap keys' = Mask(k) \cap keys
               /\ k \in taken' <=> k \in taken
    <3>1. CASE switch
      BY <2>1, <2>4, <3>1
    <3>2. CASE ~switch
      <4>1. k \notin crossed /\ ~ SharesBit(e.arg, k)
        BY <2>1, <2>4, <3>2 DEF Sharers
      <4>2. Mask(k) \cap Mask(e.arg) = {}
        BY <2>2, <4>1, MaskShared
      <4> QED
        BY <2>1, <2>4, <3>2, <4>1, <4>2
    <3> QED
      BY <3>1, <3>2
  <2>5. ASSUME NEW k \in Key, k = e.arg, k \notin crossed',
               e.press /\ k \notin crossed => Mask(k) \cap keys = {}
        PROVE  Mask(k) \cap keys' # {} <=> e.press /\ k \notin taken'
    <3>1. Mask(k) # {}
      BY MaskSome
    <3>2. CASE switch
      BY <2>1, <2>5, <3>2
    <3>3. CASE ~switch /\ e.press
      BY <2>1, <2>5, <3>1, <3>3
    <3>4. CASE ~e.press
      BY <2>1, <2>5, <3>4
    <3> QED
      BY <3>2, <3>3, <3>4
  <2>8. ASSUME NEW k \in Key, Mask(k) \cap keys' # {}
        PROVE  \E j \in Sharers(k) : j \notin crossed'
    <3>1. CASE switch
      <4>1. Mask(k) \cap keys # {} /\ crossed' = crossed
        BY <2>1, <2>8, <3>1
      <4> QED
        BY <4>1 DEF InputInv
    <3>2. CASE ~switch /\ SharesBit(k, e.arg)
      BY <2>1, <2>2, <3>2 DEF Sharers
    <3>3. CASE ~switch /\ ~ SharesBit(k, e.arg)
      <4>1. Mask(k) \cap Mask(e.arg) = {}
        BY <2>2, <3>3, MaskShared
      <4>2. Mask(k) \cap keys # {}
        BY <2>1, <2>8, <3>3, <4>1
      <4>3. PICK j \in Sharers(k) : j \notin crossed
        BY <4>2 DEF InputInv
      <4>4. j \notin Sharers(e.arg)
        BY <3>3, <4>3 DEF Sharers, SharesBit
      <4> QED
        BY <2>1, <3>3, <4>3, <4>4
    <3> QED
      BY <3>1, <3>2, <3>3
  <2>6. \A k : /\ ~ IsFor(e, "button", k)
               /\ IsFor(e, "key", k) <=> k = e.arg
    BY <2>1 DEF IsFor
  <2>7. \A k \in Key : k \notin crossed' =>
          IF IsFor(e, "key", k)
            THEN (e.press /\ k \notin crossed => Mask(k) \cap keys = {}) =>
                   (Mask(k) \cap keys' # {} <=> e.press /\ k \notin taken')
            ELSE /\ k \notin crossed
                 /\ Mask(k) \cap keys' = Mask(k) \cap keys
                 /\ k \in taken' <=> k \in taken
    BY <2>4, <2>5, <2>6
  <2> HIDE DEF switch
  <2> QED
    BY <2>1, <2>3, <2>6, <2>7, <2>8, InputPop DEF InputInv
<1>6. CASE PointerButton
  <2> DEFINE e == Head(queue)
  <2>1. /\ queue # <<>> /\ queue' = Tail(queue) /\ e.on = "button"
        /\ buttons' = IF e.press THEN buttons \cup {e.arg} ELSE buttons \ {e.arg}
        /\ UNCHANGED <<down, plugged, present, xkb, keys, taken, crossed>>
    BY <1>6 DEF PointerButton, OnEvent
  <2>2. "pointer" \in present
    BY <2>1, HeadEvent DEF InputInv
  <2>3. \A k : /\ ~ IsFor(e, "key", k)
               /\ IsFor(e, "button", k) <=> k = e.arg
    BY <2>1 DEF IsFor
  <2>4. \A b \in Button : IF IsFor(e, "button", b)
                            THEN b \in buttons' <=> e.press
                            ELSE b \in buttons' <=> b \in buttons
    BY <2>1, <2>3
  <2> QED
    BY <2>1, <2>2, <2>3, <2>4, InputPop DEF InputInv
<1>7. CASE PointerMotion
  <2>1. /\ queue # <<>> /\ queue' = Tail(queue) /\ Head(queue).on = "motion"
        /\ UNCHANGED <<down, plugged, present, xkb, keys, buttons, taken, crossed>>
    BY <1>7 DEF PointerMotion, OnEvent
  <2>2. \A k : ~ IsFor(Head(queue), "key", k) /\ ~ IsFor(Head(queue), "button", k)
    BY <2>1 DEF IsFor
  <2> QED
    BY <2>1, <2>2, InputPop DEF InputInv
<1>8. ASSUME NEW d \in Devices, Plug(d) PROVE InputInv'
  <2> DEFINE e == [on |-> "added", arg |-> d]
  <2>1. /\ queue' = Append(queue, e) /\ plugged' = plugged \cup {d}
        /\ UNCHANGED <<keys, buttons, taken, crossed, present, xkb, down>>
    BY <1>8 DEF Plug, Arrives, inputVars
  <2>2. e \in QueueEvent /\ e.on = "added" /\ e.arg = d
    BY DEF QueueEvent
  <2>3. \A k, name : name \in {"key", "button"} => ~ IsFor(e, name, k)
    BY DEF IsFor
  <2> HIDE DEF e
  <2> QED
    BY <2>1, <2>2, <2>3, InputPush
<1>9. ASSUME NEW q \in Places, UserMoves(q) PROVE InputInv'
  <2> DEFINE e == [on |-> "motion", arg |-> q]
  <2>1. /\ queue' = Append(queue, e)
        /\ UNCHANGED <<keys, buttons, taken, crossed, present, xkb, down, plugged>>
    BY <1>9 DEF UserMoves, Arrives, inputVars
  <2>2. e \in QueueEvent /\ e.on = "motion"
    BY DEF QueueEvent
  <2>3. \A k, name : name \in {"key", "button"} => ~ IsFor(e, name, k)
    BY DEF IsFor
  <2> HIDE DEF e
  <2> QED
    BY <2>1, <2>2, <2>3, InputPush
<1>10. ASSUME NEW name \in {"key", "button"}, NEW k \in Key \cup Button, NEW bind \in BOOLEAN,
              name = "key" => k \in Key,
              name = "button" => k \in Button /\ "pointer" \in plugged,
              Press(name, k, bind)
       PROVE  InputInv'
  <2> PICK press : press \in BOOLEAN /\ (press <=> <<name, k>> \notin down)
    BY <<name, k>> \in down \/ <<name, k>> \notin down
  <2> PICK e : e = [on |-> name, arg |-> k, press |-> press, binding |-> bind]
    OBVIOUS
  <2>1. /\ queue' = Append(queue, e)
        /\ down' = IF <<name, k>> \in down THEN down \ {<<name, k>>} ELSE down \cup {<<name, k>>}
        /\ UNCHANGED <<keys, buttons, taken, crossed, present, xkb, plugged>>
    BY <1>10 DEF Press, Arrives, inputVars
  <2>2. e \in QueueEvent /\ e.on = name /\ e.arg = k /\ e.press = press
    BY <1>10 DEF QueueEvent
  <2>3. ASSUME NEW j \in Key \cup Button, NEW other \in {"key", "button"}
        PROVE  IF IsFor(e, other, j)
                 THEN /\ e.press <=> <<other, j>> \notin down
                      /\ <<other, j>> \in down' <=> e.press
                 ELSE <<other, j>> \in down' <=> <<other, j>> \in down
    <3>1. CASE other = name /\ j = k
      BY <2>1, <2>2, <3>1 DEF IsFor
    <3>2. CASE other # name \/ j # k
      BY <2>1, <2>2, <3>2 DEF IsFor
    <3> QED
      BY <3>1, <3>2
  <2> QED
    BY <1>10, <2>1, <2>2, <2>3, InputPush
<1>11. CASE UserPresses
  BY <1>10, <1>11 DEF UserPresses
<1> QED
  BY <1>1, <1>2, <1>3, <1>4, <1>5, <1>6, <1>7, <1>8, <1>9, <1>11 DEF Next

\* When all events were handled, what counts as pressed is what the user holds but
\* for the keys of bindings and those whose bit another key changed since; and no
\* bit stays set when all its keys are up.  For every keyboard, with any number of
\* events under way, and whenever a device is plugged in.
THEOREM PressedHeld == Spec => []InputHeld
<1>1. InputOk => InputHeld
  <2> SUFFICES ASSUME InputInv, queue = <<>>, fault = "none" PROVE InputHeld
    BY DEF InputOk, InputHeld
  <2>1. Len(queue) = 0
    OBVIOUS
  <2>2. ASSUME NEW k \in Key, k \notin crossed PROVE Mask(k) \cap keys # {} <=> Held(k)
    <3>1. PICK h \in Histories :
            /\ History(h, "key", k)
            /\ k \notin crossed => (Mask(k) \cap keys # {} <=> h[1] /\ k \notin taken)
      BY DEF InputInv
    <3>2. h[1] <=> <<"key", k>> \in down
      BY <2>1, <3>1 DEF History
    <3> QED
      BY <2>2, <3>1, <3>2 DEF Held
  <2>4. ASSUME NEW k \in Key PROVE KeyPressed(k) <=> Mask(k) \cap keys # {}
    BY DEF KeyPressed, InputInv
  <2>5. ASSUME NEW k \in Key, KeyPressed(k) PROVE \E j \in Sharers(k) : Held(j)
    <3>1. Mask(k) \cap keys # {}
      BY <2>4, <2>5
    <3>2. PICK j \in Sharers(k) : j \notin crossed
      BY <3>1 DEF InputInv
    <3>3. j \in Key /\ Mask(j) = Mask(k)
      BY <3>2, MaskShared DEF Sharers
    <3> QED
      BY <2>2, <3>1, <3>2, <3>3
  <2>3. ASSUME NEW b \in Button PROVE ButtonPressed(b) <=> <<"button", b>> \in down
    <3>1. PICK h \in Histories : History(h, "button", b) /\ (b \in buttons <=> h[1])
      BY DEF InputInv
    <3>2. h[1] <=> <<"button", b>> \in down
      BY <2>1, <3>1 DEF History
    <3>3. buttons # {} => "pointer" \in present
      BY DEF InputInv
    <3> QED
      BY <3>1, <3>2, <3>3 DEF ButtonPressed
  <2> QED
    BY <2>2, <2>3, <2>4, <2>5 DEF InputHeld
<1>2. Init => InputOk
  BY InputInit DEF InputOk
<1>3. InputOk /\ [Next]_vars => InputOk'
  BY FaultStays, InputStep DEF InputOk
<1> QED
  BY <1>1, <1>2, <1>3, PTL DEF Spec

-----------------------------------------------------------------------------
(* The hardware cursor *)

\* Every image the application sets fits the hardware's cursor.
CursorsFit == \A c \in Cursors : c.type # "none" /\ c.exists => c.fits

\* The pointer is where an event put it.
PointerInv == queue \in Seq(QueueEvent) /\ ptr \in Nat

\* The CRTC of a window with a cursor shows the image the window set last.
PictureInv ==
  /\ shown \in [Crtc -> [hot : Nat, at : Int]]
  /\ cursor \in [Window -> [buf : BOOLEAN, hot : Nat]]
  /\ \A w \in Window :
       /\ status[w] = "unborn" => cursor[w].buf = FALSE
       /\ status[w] = "live" /\ kind[w] = "drm" /\ cursor[w].buf = TRUE =>
            shown[crtcs[output[w]]].hot = cursor[w].hot

LEMMA QueueEnds ==
  ASSUME queue \in Seq(QueueEvent)
  PROVE  /\ queue # <<>> => Head(queue) \in QueueEvent /\ Tail(queue) \in Seq(QueueEvent)
         /\ \A e \in QueueEvent : Append(queue, e) \in Seq(QueueEvent)
  OBVIOUS

LEMMA PointerStep ==
  ASSUME PointerInv, [Next]_vars
  PROVE  PointerInv'
<1> USE DEF PointerInv
<1>1. CASE UNCHANGED <<queue, ptr>>
  BY <1>1
<1>2. CASE VtSetup \/ SigUsr \/ SigTerm \/ DisplayDestroy \/ CreateVulkan \/ CreateOnOutput
           \/ Return \/ UserLeaves \/ UserComesBack \/ Terminate
  BY <1>1, <1>2
     DEF VtSetup, SigUsr, SigTerm, DisplayDestroy, CreateVulkan, CreateOnOutput, Return,
         UserLeaves, UserComesBack, Terminate, inputVars, userVars
<1>3. ASSUME NEW w \in Window,
             \/ \E k \in Kinds : CreateWindow(w, k)
             \/ \E c \in Cursors : SetCursor(w, c)
             \/ WinDestroy(w)
      PROVE  PointerInv'
  BY <1>1, <1>3 DEF CreateWindow, SetCursor, WinDestroy, inputVars, userVars
<1>4. CASE DeviceAdded \/ KeyboardKey \/ PointerButton
  <2>1. queue # <<>> /\ queue' = Tail(queue) /\ ptr' = ptr
    BY <1>4 DEF DeviceAdded, KeyboardKey, PointerButton, OnEvent
  <2> QED
    BY <2>1, QueueEnds
<1>5. CASE PointerMotion
  <2>1. /\ queue # <<>> /\ queue' = Tail(queue) /\ ptr' = Head(queue).arg
        /\ Head(queue).on = "motion"
    BY <1>5 DEF PointerMotion, OnEvent
  <2>2. Head(queue) \in QueueEvent
    BY <2>1, QueueEnds
  <2>3. Head(queue).arg \in Places
    BY <2>1, <2>2 DEF QueueEvent
  <2> QED
    BY ZenonT(30), <2>1, <2>3, QueueEnds, CodeAssumption
<1>6. ASSUME NEW d \in Devices, Plug(d) PROVE PointerInv'
  <2>1. queue' = Append(queue, [on |-> "added", arg |-> d]) /\ ptr' = ptr
    BY <1>6 DEF Plug, Arrives, inputVars
  <2>2. [on |-> "added", arg |-> d] \in QueueEvent
    BY DEF QueueEvent
  <2> QED
    BY <2>1, <2>2, QueueEnds
<1>7. ASSUME NEW p \in Places, UserMoves(p) PROVE PointerInv'
  <2>1. queue' = Append(queue, [on |-> "motion", arg |-> p]) /\ ptr' = ptr
    BY <1>7 DEF UserMoves, Arrives, inputVars
  <2>2. [on |-> "motion", arg |-> p] \in QueueEvent
    BY DEF QueueEvent
  <2> QED
    BY <2>1, <2>2, QueueEnds
<1>8. ASSUME NEW name, NEW k, NEW isBinding \in BOOLEAN, Press(name, k, isBinding),
             (name = "key" /\ k \in Key) \/ (name = "button" /\ k \in Button)
      PROVE  PointerInv'
  <2> DEFINE e == [on |-> name, arg |-> k, press |-> <<name, k>> \notin down,
                   binding |-> isBinding]
  <2>2. queue' = Append(queue, e) /\ ptr' = ptr
    BY <1>8 DEF Press, Arrives, inputVars
  <2>3. e \in QueueEvent
    BY <1>8 DEF QueueEvent
  <2> HIDE DEF e
  <2> QED
    BY <2>2, <2>3, QueueEnds
<1>9. CASE UNCHANGED vars
  BY <1>1, <1>9 DEF vars, inputVars, userVars
<1>10. CASE UserPresses
  BY <1>8, <1>10 DEF UserPresses
<1> QED
  BY <1>2, <1>3, <1>4, <1>5, <1>6, <1>7, <1>9, <1>10 DEF Next

\* win_set_cursor changes the window's cursor and the picture on its CRTC alike.
LEMMA PictureSet ==
  ASSUME CursorsFit,
         shown \in [Crtc -> [hot : Nat, at : Int]],
         cursor \in [Window -> [buf : BOOLEAN, hot : Nat]],
         NEW w \in Window, NEW crtc \in Crtc, NEW c \in Cursors,
         NEW made \in BOOLEAN, CursorSet(w, crtc, c, made)
  PROVE  /\ shown' \in [Crtc -> [hot : Nat, at : Int]]
         /\ cursor' \in [Window -> [buf : BOOLEAN, hot : Nat]]
         /\ \A v \in Window : v # w => cursor'[v] = cursor[v]
         /\ \A d \in Crtc : d # crtc => shown'[d] = shown[d]
         /\ \/ cursor' = cursor /\ shown' = shown
            \/ cursor'[w].buf = TRUE => shown'[crtc].hot = cursor'[w].hot
<1>0. c.hot \in Nat /\ c.type \in {"image", "theme", "none"}
  BY CursorAssumption
<1>1. CASE c.type = "theme" /\ ~c.exists
  BY <1>1 DEF CursorSet
<1>2. CASE ~(c.type = "theme" /\ ~c.exists)
  <2> DEFINE valid == c.type # "none" /\ c.exists
             buf == valid /\ (cursor[w].buf \/ made)
             hot == NewHot(cursor[w].hot, c)
  <2>1. /\ cursor' = [cursor EXCEPT ![w] = [buf |-> buf, hot |-> NewHot(@.hot, c)]]
        /\ shown' = IF buf /\ c.fits THEN [shown EXCEPT ![crtc].hot = c.hot] ELSE shown
    BY <1>2 DEF CursorSet
  <2>2. hot \in Nat /\ (valid => hot = c.hot /\ c.fits)
    BY <1>0 DEF NewHot, CursorsFit
  <2>3. buf \in BOOLEAN /\ (buf => valid)
    OBVIOUS
  <2>4. cursor' = [cursor EXCEPT ![w] = [buf |-> buf, hot |-> hot]]
    BY <2>1
  <2> HIDE DEF buf, hot, valid
  <2>5. /\ cursor' \in [Window -> [buf : BOOLEAN, hot : Nat]]
        /\ \A v \in Window : v # w => cursor'[v] = cursor[v]
        /\ cursor'[w].hot = hot /\ cursor'[w].buf = buf
    BY <2>2, <2>3, <2>4
  <2>6. CASE buf = TRUE
    <3>1. shown' = [shown EXCEPT ![crtc].hot = c.hot]
      BY <2>1, <2>2, <2>3, <2>6
    <3> QED
      BY <1>0, <2>2, <2>3, <2>5, <2>6, <3>1
  <2>7. CASE buf = FALSE
    BY <2>1, <2>5, <2>7
  <2> QED
    BY <2>3, <2>6, <2>7
<1> QED
  BY <1>1, <1>2

\* Steps that leave the cursors alone, and no window live that was not
LEMMA PictureSame ==
  ASSUME PictureInv, OutputInv, UNCHANGED <<shown, cursor>>,
         \A w \in Window :
           /\ status'[w] = "unborn" => status[w] = "unborn"
           /\ status'[w] = "live" /\ kind'[w] = "drm" =>
                \/ cursor[w].buf = FALSE
                \/ /\ status[w] = "live" /\ kind[w] = "drm"
                   /\ crtcs'[output'[w]] = crtcs[output[w]]
  PROVE  PictureInv'
  BY DEF PictureInv

\* A new window on an output: its cursor is set, or there is none.
LEMMA PictureCreate ==
  ASSUME CursorsFit, DistinctOutputs, PictureInv, OutputInv, OutputInv', CreateOnOutput
  PROVE  PictureInv'
<1> DEFINE cs == IF crtcs = <<>> THEN FirstOutputs ELSE crtcs
           os == IF crtcs = <<>> THEN [i \in DOMAIN cs |-> None] ELSE owner
           free == {i \in DOMAIN os : os[i] = None}
           o == CHOOSE i \in free : \A j \in free : i <= j
<1>w. PICK w : w = creating.win
  OBVIOUS
<1>1. /\ creating # NoWindow /\ w \in Window /\ status[w] = "unborn" /\ kind[w] = "drm"
      /\ kind' = kind /\ crtcs' = cs
  <2>1. kind' = kind /\ crtcs' = cs
    BY DEF CreateOnOutput
  <2>2. creating # NoWindow /\ creating.kind = "drm"
    BY StageNames DEF CreateOnOutput, NoWindow
  <2> QED
    BY <1>w, <2>1, <2>2 DEF OutputInv
<1>2. crtcs # <<>> => crtcs' = crtcs
  BY <1>1
<1>3. \A v \in Window : status[v] = "live" /\ kind[v] = "drm" =>
        crtcs # <<>> /\ output[v] \in DOMAIN crtcs
  BY DEF OutputInv
<1>4. \/ GiveUp(w) /\ UNCHANGED <<cursor, shown>>
         /\ (output' = output \/ output' = [output EXCEPT ![w] = o])
      \/ /\ Created(w) /\ output' = [output EXCEPT ![w] = o]
         /\ \E c \in Settings, made \in Made : CursorSet(w, crtcs'[o], c, made)
  BY <1>w, <1>1 DEF CreateOnOutput
<1> HIDE DEF cs, os, free, o
<1>5. CASE GiveUp(w) /\ UNCHANGED <<cursor, shown>>
           /\ (output' = output \/ output' = [output EXCEPT ![w] = o])
  <2>1. /\ status'[w] = "freed" /\ \A v \in Window : v # w => status'[v] = status[v]
        /\ \A v \in Window : v # w => output'[v] = output[v]
    BY <1>1, <1>5 DEF GiveUp, OutputInv
  <2> QED
    BY <1>1, <1>2, <1>3, <1>5, <2>1, PictureSame
<1>6. CASE /\ Created(w) /\ output' = [output EXCEPT ![w] = o]
           /\ \E c \in Settings, made \in Made : CursorSet(w, crtcs'[o], c, made)
  <2>1. /\ status'[w] = "live" /\ \A v \in Window : v # w => status'[v] = status[v]
        /\ \A v \in Window : v # w => output'[v] = output[v]
        /\ output'[w] = o
    BY <1>1, <1>6 DEF Created, OutputInv
  <2>2. o \in DOMAIN crtcs' /\ crtcs'[o] \in Crtc
    BY <1>1, <2>1 DEF OutputInv
  <2>3. PICK c \in Cursors, made \in BOOLEAN : CursorSet(w, crtcs'[o], c, made)
    BY <1>6 DEF Settings, Made
  <2>4. cursor[w].buf = FALSE
    BY <1>1 DEF PictureInv
  <2>5. /\ shown' \in [Crtc -> [hot : Nat, at : Int]]
        /\ cursor' \in [Window -> [buf : BOOLEAN, hot : Nat]]
        /\ \A v \in Window : v # w => cursor'[v] = cursor[v]
        /\ \A d \in Crtc : d # crtcs'[o] => shown'[d] = shown[d]
        /\ \/ cursor' = cursor /\ shown' = shown
           \/ cursor'[w].buf = TRUE => shown'[crtcs'[o]].hot = cursor'[w].hot
    <3>1. /\ shown \in [Crtc -> [hot : Nat, at : Int]]
          /\ cursor \in [Window -> [buf : BOOLEAN, hot : Nat]]
      BY DEF PictureInv
    <3>2. PICK d \in Crtc : d = crtcs'[o]
      BY <2>2, <2>3
    <3>3. CursorSet(w, d, c, made)
      BY <2>3, <3>2 DEF CursorSet
    <3>4. /\ shown' \in [Crtc -> [hot : Nat, at : Int]]
          /\ cursor' \in [Window -> [buf : BOOLEAN, hot : Nat]]
          /\ \A v \in Window : v # w => cursor'[v] = cursor[v]
          /\ \A e \in Crtc : e # d => shown'[e] = shown[e]
          /\ \/ cursor' = cursor /\ shown' = shown
             \/ cursor'[w].buf = TRUE => shown'[d].hot = cursor'[w].hot
      <4>1. w \in Window
        BY <1>1
      <4> QED
        BY ZenonT(60), <4>1, <3>1, <3>3, PictureSet
    <3> QED
      BY <3>4, <3>2
  <2>6. ASSUME NEW v \in Window, v # w, status'[v] = "live", kind'[v] = "drm",
               cursor'[v].buf = TRUE
        PROVE  shown'[crtcs'[output'[v]]].hot = cursor'[v].hot
    <3>1. /\ status[v] = "live" /\ kind[v] = "drm" /\ cursor'[v] = cursor[v]
          /\ output'[v] = output[v] /\ crtcs' = crtcs
      BY <1>1, <1>2, <1>3, <2>1, <2>5, <2>6
    <3>2. output'[v] \in DOMAIN crtcs' /\ output'[v] # o
      BY <1>1, <2>1, <2>2, <2>6 DEF OutputInv
    <3>3. crtcs'[output'[v]] \in Crtc /\ crtcs'[output'[v]] # crtcs'[o]
      BY <2>2, <3>2 DEF OutputInv
    <3>4. shown'[crtcs'[output'[v]]] = shown[crtcs[output[v]]]
      BY <2>5, <3>1, <3>3
    <3> QED
      BY <2>6, <3>1, <3>4 DEF PictureInv
  <2>7. cursor'[w].buf = TRUE => shown'[crtcs'[output'[w]]].hot = cursor'[w].hot
    BY <2>1, <2>4, <2>5
  <2>8. \A v \in Window : status'[v] = "unborn" => cursor'[v].buf = FALSE
    BY <2>1, <2>5 DEF PictureInv
  <2> QED
    BY <2>5, <2>6, <2>7, <2>8 DEF PictureInv
<1> QED
  BY <1>4, <1>5, <1>6

LEMMA PictureStep ==
  ASSUME CursorsFit, DistinctOutputs, PointerInv, PictureInv, OutputInv, OutputInv', [Next]_vars
  PROVE  PictureInv'
<1>1. CASE UNCHANGED <<shown, cursor, winVars, crtcs>>
  BY <1>1, PictureSame DEF winVars
<1>2. CASE SigUsr \/ SigTerm \/ DeviceAdded \/ KeyboardKey \/ PointerButton
           \/ PointerMotion \/ UserPresses \/ UserLeaves \/ UserComesBack \/ Terminate
  BY <1>1, <1>2
     DEF SigUsr, SigTerm, DeviceAdded, KeyboardKey, PointerButton,
         PointerMotion, UserPresses, Press, UserLeaves, UserComesBack, Terminate, drmVars
<1>3. CASE VtSetup \/ CreateVulkan
  <2>1. /\ UNCHANGED <<shown, cursor, kind, output, crtcs>>
        /\ creating # NoWindow
    BY <1>3, StageNames DEF VtSetup, CreateVulkan, drmVars, NoWindow
  <2>2. PICK w \in Window : w = creating.win /\ status[w] = "unborn"
    BY <2>1 DEF OutputInv
  <2>3. status' = status \/ \E x \in {"live", "freed"} : status' = [status EXCEPT ![w] = x]
    BY <1>3, <2>2 DEF VtSetup, CreateVulkan, Created, GiveUp
  <2>4. \A v \in Window : status'[v] = status[v] \/ (v = w /\ status'[v] # "unborn")
    BY <2>3 DEF OutputInv
  <2>5. cursor[w].buf = FALSE
    BY <2>2 DEF PictureInv
  <2> QED
    BY <2>1, <2>4, <2>5, PictureSame
<1>4. CASE DisplayDestroy
  <2>1. UNCHANGED <<shown, cursor, winVars>> /\ \A w \in Window : status[w] # "live"
    BY <1>4, WindowAssumption DEF DisplayDestroy, Live
  <2> QED
    BY <2>1, PictureSame DEF winVars
<1>5. ASSUME NEW w \in Window, NEW k \in Kinds, CreateWindow(w, k) PROVE PictureInv'
  <2>1. /\ status[w] = "unborn" /\ kind' = [kind EXCEPT ![w] = k]
        /\ UNCHANGED <<shown, cursor, status, output, crtcs>>
    BY <1>5 DEF CreateWindow, drmVars
  <2>2. \A v \in Window : v # w => kind'[v] = kind[v]
    BY <2>1 DEF OutputInv
  <2> QED
    BY <2>1, <2>2, PictureSame
<1>6. CASE CreateOnOutput
  BY <1>6, PictureCreate
<1>7. ASSUME NEW w \in Window, WinDestroy(w) PROVE PictureInv'
  <2>1. /\ status' = [status EXCEPT ![w] = "freed"]
        /\ UNCHANGED <<shown, cursor, kind, output, crtcs>>
    BY <1>7 DEF WinDestroy
  <2>2. \A v \in Window : status'[v] = status[v] \/ status'[v] = "freed"
    BY <2>1 DEF OutputInv
  <2> QED
    BY <2>1, <2>2, PictureSame
<1>8. ASSUME NEW w \in Window, NEW c \in Cursors, SetCursor(w, c) PROVE PictureInv'
  <2>1. /\ status[w] = "live" /\ kind[w] = "drm" /\ UNCHANGED <<winVars, crtcs>>
    BY <1>8 DEF SetCursor, Live, drmVars
  <2>2. PICK d \in Crtc : d = crtcs[output[w]]
    BY <2>1 DEF OutputInv
  <2>3. PICK made \in BOOLEAN : CursorSet(w, d, c, made)
    BY <1>8, <2>2 DEF SetCursor, Made, CursorSet
  <2>4. /\ shown' \in [Crtc -> [hot : Nat, at : Int]]
        /\ cursor' \in [Window -> [buf : BOOLEAN, hot : Nat]]
        /\ \A v \in Window : v # w => cursor'[v] = cursor[v]
        /\ \A e \in Crtc : e # crtcs[output[w]] => shown'[e] = shown[e]
        /\ \/ cursor' = cursor /\ shown' = shown
           \/ cursor'[w].buf = TRUE => shown'[crtcs[output[w]]].hot = cursor'[w].hot
    <3>1. /\ shown \in [Crtc -> [hot : Nat, at : Int]]
          /\ cursor \in [Window -> [buf : BOOLEAN, hot : Nat]]
      BY DEF PictureInv
    <3>4. /\ shown' \in [Crtc -> [hot : Nat, at : Int]]
          /\ cursor' \in [Window -> [buf : BOOLEAN, hot : Nat]]
          /\ \A v \in Window : v # w => cursor'[v] = cursor[v]
          /\ \A e \in Crtc : e # d => shown'[e] = shown[e]
          /\ \/ cursor' = cursor /\ shown' = shown
             \/ cursor'[w].buf = TRUE => shown'[d].hot = cursor'[w].hot
      BY ZenonT(60), <2>3, <3>1, PictureSet
    <3> QED
      BY <3>4, <2>2
  <2>5. \A v \in Window : v # w /\ status[v] = "live" /\ kind[v] = "drm" =>
          crtcs[output[v]] \in Crtc /\ crtcs[output[v]] # crtcs[output[w]]
    BY <2>1 DEF OutputInv
  <2>6. \A v \in Window : status[v] = "live" /\ kind[v] = "drm" /\ cursor'[v].buf = TRUE =>
          shown'[crtcs[output[v]]].hot = cursor'[v].hot
    BY <2>4, <2>5 DEF PictureInv
  <2>7. \A v \in Window : status[v] = "unborn" => cursor'[v].buf = FALSE
    BY <2>1, <2>4 DEF PictureInv
  <2> QED
    BY <2>1, <2>4, <2>6, <2>7 DEF PictureInv, winVars
<1>9. CASE Return
  <2>1. UNCHANGED <<winVars, crtcs, cursor>>
    BY <1>9 DEF Return, drmVars
  <2>2. \/ shown' = shown
        \/ /\ Live(over) /\ output[over] # 0
           /\ shown' = [shown EXCEPT ![crtcs[output[over]]].at = ptr - cursor[over].hot]
    BY <1>9 DEF Return, CursorMoved
  <2>3. CASE shown' = shown
    BY <1>1, <2>1, <2>3
  <2>4. CASE /\ Live(over) /\ output[over] # 0
             /\ shown' = [shown EXCEPT ![crtcs[output[over]]].at = ptr - cursor[over].hot]
    <3>1. over \in Window
      BY <2>4 DEF OutputInv, Live
    <3>2. crtcs[output[over]] \in Crtc
      BY <2>4, <3>1 DEF OutputInv, Live
    <3>3. ptr - cursor[over].hot \in Int
      BY <3>1 DEF PointerInv, PictureInv
    <3>4. /\ shown' \in [Crtc -> [hot : Nat, at : Int]]
          /\ \A d \in Crtc : shown'[d].hot = shown[d].hot
      BY <2>4, <3>2, <3>3 DEF PictureInv
    <3>5. \A v \in Window : status[v] = "live" /\ kind[v] = "drm" => crtcs[output[v]] \in Crtc
      BY DEF OutputInv
    <3> QED
      BY <2>1, <3>4, <3>5 DEF PictureInv, winVars
  <2> QED
    BY <2>2, <2>3, <2>4
<1>10. CASE (\E d \in Devices : Plug(d)) \/ \E q \in Places : UserMoves(q)
  BY <1>1, <1>10 DEF Plug, UserMoves, drmVars
<1>11. CASE UNCHANGED vars
  BY <1>1, <1>11 DEF vars, drmVars
<1> QED
  BY <1>2, <1>3, <1>4, <1>5, <1>6, <1>7, <1>8, <1>9, <1>10, <1>11 DEF Next

\* After the pointer moved over a window with a cursor, the hot spot of the image
\* on its screen is where the pointer is (update_cursor_position against
\* win_set_cursor): for every machine, any windows and cursors set in any order,
\* as long as the images fit the hardware's cursor.
THEOREM CursorAtPointer ==
  ASSUME CursorsFit, DistinctOutputs
  PROVE  Spec => CursorPlaced
<1> DEFINE Inv == PointerInv /\ OutputInv /\ PictureInv
           Placed == Return /\ cb.fn = "motion" =>
                       (Live(over) /\ output[over] # 0 /\ cursor[over].buf =>
                          LET s == shown'[crtcs[output[over]]] IN s.at + s.hot = ptr)
<1>1. Init => Inv
  <2>1. Init => PointerInv /\ PictureInv
    BY DEF Init, PointerInv, PictureInv
  <2> QED
    BY <2>1, OutputInit
<1>2. Inv /\ [Next]_vars => Inv'
  BY PointerStep, OutputStep, PictureStep
<1>3. ASSUME Inv PROVE Placed
  <2> SUFFICES ASSUME Return, cb.fn = "motion", Live(over), output[over] # 0, cursor[over].buf
               PROVE  shown'[crtcs[output[over]]].at + shown'[crtcs[output[over]]].hot = ptr
    OBVIOUS
  <2>1. over \in Window /\ crtcs[output[over]] \in Crtc /\ status[over] = "live"
          /\ kind[over] = "drm"
    BY <1>3 DEF OutputInv, Live
  <2>2. shown' = [shown EXCEPT ![crtcs[output[over]]].at = ptr - cursor[over].hot]
    BY DEF Return, CursorMoved
  <2>3. cursor[over].buf = TRUE
    BY <1>3, <2>1 DEF PictureInv
  <2>4. shown[crtcs[output[over]]].hot = cursor[over].hot /\ cursor[over].hot \in Nat
    BY <1>3, <2>1, <2>3 DEF PictureInv
  <2>5. /\ shown'[crtcs[output[over]]].at = ptr - cursor[over].hot
        /\ shown'[crtcs[output[over]]].hot = shown[crtcs[output[over]]].hot
    BY <1>3, <2>1, <2>2 DEF PictureInv
  <2> QED
    BY <1>3, <2>4, <2>5 DEF PointerInv
<1>4. Inv /\ [Next]_vars => [Placed]_vars
  BY <1>3
<1>5. Spec => []Inv
  <2> HIDE DEF Inv
  <2> QED
    BY <1>1, <1>2, PTL DEF Spec
<1> HIDE DEF Inv
<1> QED
  BY <1>4, <1>5, PTL DEF Spec, CursorPlaced

-----------------------------------------------------------------------------
(* The frame thread of a Vulkan window *)

\* What the frame thread knows of its fence at each point; FencesOwned says
\* nothing of the fence it comes back to after a timeout, nor of the handle it
\* still holds once it has destroyed the fence: a new one may have taken it.
ThreadInv ==
  /\ thread \in {"wait", "completed"} => fence # 0
  /\ thread \in {"asleep", "cleared"} => fence = 0
  /\ fence # 0 /\ thread # "completed" => fences[fence] # "none"
  /\ thread = "completed" => fences[fence] = "none" \/ fence = nextFence

FenceInv == TypeOK /\ ThreadInv /\ FencesOwned /\ NoMissedSignal

LEMMA FenceInit == VkInit => FenceInv
  BY BoundAssumption
     DEF VkInit, FenceInv, TypeOK, ThreadInv, FencesOwned, NoMissedSignal, Pending, Fences

\* The steps of the frame thread and of the driver preserve FenceInv.
LEMMA FenceThreadStep ==
  ASSUME FenceInv, FrameThread \/ \E f \in Fences : FirstPixelOut(f)
  PROVE  FenceInv'
<1> USE BoundAssumption DEF FenceInv, TypeOK, ThreadInv, FencesOwned, NoMissedSignal,
        Pending, Fences, vkWinVars
<1>1. CASE Sleep
  BY <1>1 DEF Sleep
<1>2. CASE Take
  BY <1>2 DEF Take
<1>3. CASE WaitTimeout
  BY <1>3 DEF WaitTimeout
<1>4. CASE WaitSuccess
  BY <1>4 DEF WaitSuccess
<1>5. CASE ClearFence
  BY <1>5 DEF ClearFence
<1>6. CASE Notify
  BY <1>6 DEF Notify
<1>7. ASSUME NEW f \in Fences, FirstPixelOut(f) PROVE FenceInv'
  BY <1>7 DEF FirstPixelOut
<1>8. QED
  BY <1>1, <1>2, <1>3, <1>4, <1>5, <1>6, <1>7 DEF FrameThread

\* A new fence takes a handle that neither thread holds, unless the frame
\* thread has destroyed the fence behind it already.
LEMMA FenceMainStep ==
  ASSUME FenceInv, MainThread
  PROVE  FenceInv'
<1> USE BoundAssumption DEF FenceInv, TypeOK, ThreadInv, FencesOwned, NoMissedSignal,
        Pending, Fences, vkWinVars
<1>1. CASE SurfaceFrame
  BY <1>1 DEF SurfaceFrame, Replaced, WakeThread
<1>2. CASE Refresh
  BY ZenonT(30), <1>2 DEF Refresh, AppRuns
<1>3. CASE SetRedraw
  BY <1>3 DEF SetRedraw
<1>4. CASE HandleDeferred
  BY <1>4 DEF HandleDeferred, DrawEvent
<1>5. CASE EventfdReadable
  BY ZenonT(30), <1>5 DEF EventfdReadable, DrawEvent
<1>6. CASE DrawReturn
  BY <1>6 DEF DrawReturn
<1>7. CASE DestroyWindow
  BY ZenonT(30), <1>7 DEF DestroyWindow
<1>8. QED
  BY <1>1, <1>2, <1>3, <1>4, <1>5, <1>6, <1>7 DEF MainThread

LEMMA FenceStep == FenceInv /\ [VkNext]_vkVars => FenceInv'
<1>1. ASSUME FenceInv, UNCHANGED vkVars PROVE FenceInv'
  BY <1>1 DEF FenceInv, TypeOK, ThreadInv, FencesOwned, NoMissedSignal, Pending, vkVars, vkWinVars
<1>2. QED
  BY <1>1, FenceThreadStep, FenceMainStep DEF VkNext

\* Neither thread uses a fence the other has destroyed and no fence is lost
\* (frame_thread against swa_kms_vk_surface_frame).
THEOREM FencesSafe == VkSpec => []FencesOwned
<1>1. FenceInv => FencesOwned
  BY DEF FenceInv
<1> QED
  BY <1>1, FenceInit, FenceStep, PTL DEF VkSpec

\* frame_thread waits on its condition only while there is no fence for it: a frame
\* surface_frame registers while the thread is awake is not slept through.
THEOREM SignalsSafe == VkSpec => []NoMissedSignal
<1>1. FenceInv => NoMissedSignal
  BY DEF FenceInv
<1> QED
  BY <1>1, FenceInit, FenceStep, PTL DEF VkSpec

\* RedrawKept is inductive by itself: the test of win_refresh and the flag it
\* sets are two steps of the main thread, and what the frame thread does between
\* them leaves the eventfd readable, or about to be.
LEMMA RedrawStep == RedrawKept /\ TypeOK /\ [VkNext]_vkVars => RedrawKept'
<1> SUFFICES ASSUME RedrawKept, TypeOK, [VkNext]_vkVars
             PROVE  RedrawKept'
  OBVIOUS
<1> USE DEF RedrawKept, TypeOK, Pending, Fences, vkWinVars
<1>1. CASE FrameThread
  BY <1>1 DEF FrameThread, Sleep, Take, WaitTimeout, WaitSuccess, ClearFence, Notify
<1>2. CASE SurfaceFrame
  BY <1>2, BoundAssumption DEF SurfaceFrame, WakeThread, AppRuns
<1>3. CASE Refresh
  BY <1>3 DEF Refresh, AppRuns
<1>4. CASE SetRedraw
  BY <1>4 DEF SetRedraw
<1>5. CASE HandleDeferred \/ DrawReturn \/ DestroyWindow
  BY <1>5 DEF HandleDeferred, DrawEvent, DrawReturn, DestroyWindow, AppRuns
<1>6. CASE EventfdReadable
  BY <1>6 DEF EventfdReadable, DrawEvent
<1>7. CASE \E f \in Fences : FirstPixelOut(f)
  BY <1>7 DEF FirstPixelOut
<1>8. CASE UNCHANGED vkVars
  BY <1>8 DEF vkVars
<1>9. QED
  BY <1>1, <1>2, <1>3, <1>4, <1>5, <1>6, <1>7, <1>8 DEF VkNext, MainThread

\* A redraw that waits for a frame is never forgotten
\* (swa_kms_vk_surface_refresh against frame_thread and eventfd_readable).
THEOREM RedrawSafe == VkSpec => []RedrawKept
<1>1. VkInit => RedrawKept
  BY DEF VkInit, RedrawKept
<1>2. FenceInv => TypeOK
  BY DEF FenceInv
<1>3. QED
  BY <1>1, <1>2, FenceInit, FenceStep, RedrawStep, PTL DEF VkSpec
=============================================================================

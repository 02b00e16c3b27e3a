-------------------------- MODULE X11WindowProofs --------------------------
(***************************************************************************)
(* Proofs about the windows of the X11 backend, for every set of windows,  *)
(* sizes and keys, every screen, and a queue of any length; and about      *)
(* images: what swa_convert_image keeps, and what a screen shows of it.    *)
(***************************************************************************)
EXTENDS X11Window, FiniteSetTheorems, WellFoundedInduction, TLAPS

-----------------------------------------------------------------------------
(* The queue *)

LEMMA AppendEvents ==
  ASSUME NEW S, NEW q \in Seq(S), NEW e \in S
  PROVE  /\ Append(q, e) \in Seq(S)
         /\ \A i \in DOMAIN q : i \in DOMAIN Append(q, e) /\ Append(q, e)[i] = q[i]
         /\ \E i \in DOMAIN Append(q, e) : Append(q, e)[i] = e
         /\ q # <<>> => Append(q, e) # <<>> /\ Head(Append(q, e)) = Head(q)
<1>1. /\ Append(q, e) \in Seq(S) /\ Len(Append(q, e)) = Len(q) + 1 /\ Len(q) \in Nat
      /\ \A i \in 1 .. Len(q) : Append(q, e)[i] = q[i]
      /\ Append(q, e)[Len(q) + 1] = e
      /\ DOMAIN q = 1 .. Len(q) /\ DOMAIN Append(q, e) = 1 .. Len(q) + 1
  OBVIOUS
<1>2. q # <<>> => 1 \in 1 .. Len(q)
  OBVIOUS
<1> QED
  BY <1>1, <1>2

LEMMA FirstEvent ==
  ASSUME NEW S, NEW q \in Seq(S), Len(q) > 0
  PROVE  q # <<>> /\ Head(q) = q[1]
  OBVIOUS

LEMMA TailEvents ==
  ASSUME NEW S, NEW q \in Seq(S), q # <<>>
  PROVE  /\ Head(q) \in S /\ Tail(q) \in Seq(S)
         /\ \A i \in DOMAIN q :
              q[i] = Head(q) \/ \E j \in DOMAIN Tail(q) : Tail(q)[j] = q[i]
         /\ Len(q) > 1 => Tail(q) # <<>> /\ Head(Tail(q)) = q[2]
<1>1. /\ Head(q) \in S /\ Tail(q) \in Seq(S) /\ Head(q) = q[1]
      /\ Len(Tail(q)) = Len(q) - 1 /\ Len(q) \in Nat \ {0}
      /\ \A i \in 1 .. Len(q) - 1 : Tail(q)[i] = q[i + 1]
      /\ DOMAIN q = 1 .. Len(q) /\ DOMAIN Tail(q) = 1 .. Len(q) - 1
  OBVIOUS
<1>2. ASSUME NEW i \in DOMAIN q, i # 1
      PROVE  i - 1 \in DOMAIN Tail(q) /\ Tail(q)[i - 1] = q[i]
  BY <1>1, <1>2
<1>3. Len(q) > 1 => Tail(q) # <<>> /\ Head(Tail(q)) = q[2]
  <2> SUFFICES ASSUME Len(q) > 1 PROVE Tail(q) # <<>> /\ Head(Tail(q)) = q[2]
    OBVIOUS
  <2>1. Len(Tail(q)) > 0 /\ Tail(q)[1] = q[2]
    BY <1>1
  <2>2. Tail(q) # <<>> /\ Head(Tail(q)) = Tail(q)[1]
    BY <1>1, <2>1, FirstEvent
  <2> QED
    BY <2>1, <2>2
<1> QED
  BY <1>1, <1>2, <1>3

-----------------------------------------------------------------------------
(* Types *)

Callback == [fn : Contexts, win : Window \cup {None}, then : {"end", "pressed", "expose"}]

EventArg == {0, "delete", "wakeup"} \cup BOOLEAN \cup Sizes \cup Key \cup Key \X BOOLEAN

Event ==
  {e \in [on : {"expose", "complete", "configure", "delete", "focus", "point", "input",
                "press", "release"},
          win : Window \cup {None}, arg : EventArg] :
     /\ e.on # "delete" => e.win \in Window
     /\ e.on = "complete" => e.arg \in BOOLEAN
     /\ e.on = "configure" => e.arg \in Sizes
     /\ e.on = "press" => e.arg \in Key
     /\ e.on = "release" => e.arg \in Key \X BOOLEAN}

Server ==
  [inputs : SUBSET InputEvents, focus : Window \cup {None}, over : Window \cup {None},
   keys : SUBSET Key, half : Key \cup {None}, notify : SUBSET Window]

\* The type of each variable; format and visual are what a look gives.
TypeOK ==
  /\ status \in [Window -> {"unborn", "live", "freed"}]
  /\ head \in Window \cup {None}
  /\ next \in [Window -> Window \cup {None}] /\ prev \in [Window -> Window \cup {None}]
  /\ size \in [Window -> Nat] /\ known \in [Window -> Nat]
  /\ initSize \in [Window -> BOOLEAN]
  /\ pending \in [Window -> BOOLEAN] /\ redraw \in [Window -> BOOLEAN]
  /\ wanted \in [Window -> BOOLEAN]
  /\ buffer \in [Window -> [bytes : Nat, room : Nat, active : BOOLEAN]]
  /\ DOMAIN format = Window /\ DOMAIN visual = Window /\ look \in DOMAIN Looks
  /\ focus \in Window \cup {None} /\ over \in Window \cup {None}
  /\ keys \subseteq Key /\ repeated \in Key \cup {None} /\ dispatching \in BOOLEAN
  /\ cb \in Callback
  /\ fault \in {"none", "no window", "freed window"}
  /\ queue \in Seq(Event)
  /\ server \in Server

\* A callback is the one of a window; only the expose handler goes on after
\* the resize callback.
CallbackInv ==
  /\ cb.fn = "idle" => cb = NoCb
  /\ cb.fn # "idle" => cb.win \in Window
  /\ cb.then = "expose" => cb.fn = "resize"

ControlInv == TypeOK /\ CallbackInv

LEMMA CallType ==
  ASSUME NEW fn \in Contexts, NEW w \in Window \cup {None},
         NEW then \in {"end", "pressed", "expose"}
  PROVE  Call(fn, w, then) \in Callback
  BY DEF Call, Callback

LEMMA NoCbType == NoCb \in Callback /\ NoCb.then = "end" /\ NoCb.fn = "idle"
  BY DEF NoCb, Call, Callback, Contexts

LEMMA EventType ==
  ASSUME NEW w \in Window
  PROVE  /\ Ev("expose", w, 0) \in Event /\ Ev("input", w, 0) \in Event
         /\ \A b \in BOOLEAN : /\ Ev("complete", w, b) \in Event
                               /\ Ev("focus", w, b) \in Event
                               /\ Ev("point", w, b) \in Event
         /\ \A s \in Sizes : Ev("configure", w, s) \in Event
         /\ Ev("delete", w, "delete") \in Event /\ Ev("delete", None, "wakeup") \in Event
         /\ \A k \in Key : /\ Ev("press", w, k) \in Event
                           /\ \A b \in BOOLEAN : Ev("release", w, <<k, b>>) \in Event
  BY DEF Ev, Event, EventArg

LEMMA HandledType ==
  ASSUME TypeOK, NEW name, On(name)
  PROVE  /\ Head(queue) \in Event /\ queue' \in Seq(Event)
         /\ Head(queue).on = name /\ cb = NoCb
         /\ name # "delete" => Head(queue).win \in Window
         /\ name = "complete" => Head(queue).arg \in BOOLEAN
         /\ name = "configure" => Head(queue).arg \in Sizes
         /\ name = "press" => Head(queue).arg \in Key
         /\ name = "release" => Head(queue).arg \in Key \X BOOLEAN
         /\ Found => Head(queue).win \in Window
<1>1. Head(queue) \in Event /\ Tail(queue) \in Seq(Event)
  BY TailEvents DEF On, TypeOK
<1>2. Head(queue).on = name /\ cb = NoCb /\ queue' = Tail(queue)
  BY DEF On
<1>3. Found => Head(queue).win \in Window
  BY DEF Found, Listed
<1> QED
  BY <1>1, <1>2, <1>3 DEF Event

LEMMA ControlInit == Init => ControlInv
<1> SUFFICES ASSUME Init PROVE ControlInv
  OBVIOUS
<1>1. PICK s \in Sessions :
        /\ server = [inputs |-> s.inputs, focus |-> None, over |-> None, keys |-> {},
                     half |-> None, notify |-> {}]
        /\ look = s.look
  BY DEF Init
<1>2. server \in Server /\ look \in DOMAIN Looks
  BY <1>1, ContextAssumption DEF Server
<1>3. cb \in Callback /\ CallbackInv
  BY NoCbType DEF Init, CallbackInv
<1>4. buffer \in [Window -> [bytes : Nat, room : Nat, active : BOOLEAN]]
  BY DEF Init, NoBuffer
<1>5. queue \in Seq(Event) /\ keys \subseteq Key
  BY DEF Init
<1> QED
  BY <1>2, <1>3, <1>4, <1>5 DEF Init, ControlInv, TypeOK

\* The application's calls
LEMMA ControlApp ==
  ASSUME ControlInv, NEW w \in Window,
         \/ \E s \in Asked : CreateWindow(w, s)
         \/ CreateFails(w) \/ Destroy(w) \/ Refresh(w) \/ GetBuffer(w) \/ ApplyBuffer(w)
  PROVE  ControlInv'
<1> USE DEF ControlInv
<1>1. ASSUME NEW s \in Asked, CreateWindow(w, s) PROVE ControlInv'
  <2>1. s \in Nat /\ Fallback \in Nat
    BY SizeAssumption
  <2>2. CallbackInv'
    BY <1>1 DEF CreateWindow, CallbackInv, NoCb, Call
  <2>3. /\ head' \in Window \cup {None}
        /\ next' \in [Window -> Window \cup {None}] /\ prev' \in [Window -> Window \cup {None}]
    BY <1>1 DEF CreateWindow, Link, TypeOK
  <2>4. /\ status' \in [Window -> {"unborn", "live", "freed"}]
        /\ size' \in [Window -> Nat] /\ known' \in [Window -> Nat]
        /\ initSize' \in [Window -> BOOLEAN]
        /\ DOMAIN format' = Window /\ DOMAIN visual' = Window
    BY <1>1, <2>1 DEF CreateWindow, TypeOK
  <2> QED
    BY <1>1, <2>2, <2>3, <2>4 DEF CreateWindow, TypeOK, keyVars
<1>2. CASE CreateFails(w)
  BY <1>2 DEF CreateFails, TypeOK, CallbackInv, NoCb, Call, winVars, lookVars, keyVars, appVars
<1>3. CASE Destroy(w)
  <2>1. CallbackInv'
    BY <1>3 DEF Destroy, CallbackInv, NoCb, Call
  <2>2. server' \in Server
    BY <1>3 DEF Destroy, TypeOK, Server
  <2>3. buffer' \in [Window -> [bytes : Nat, room : Nat, active : BOOLEAN]]
    BY <1>3 DEF Destroy, TypeOK, NoBuffer
  <2>4. /\ head' \in Window \cup {None}
        /\ next' \in [Window -> Window \cup {None}] /\ prev' \in [Window -> Window \cup {None}]
        /\ focus' \in Window \cup {None} /\ over' \in Window \cup {None}
    BY <1>3 DEF Destroy, TypeOK
  <2> QED
    BY <1>3, <2>1, <2>2, <2>3, <2>4 DEF Destroy, TypeOK, keyVars
<1>4. CASE Refresh(w)
  <2>1. queue' \in Seq(Event)
    <3>1. queue' = Append(queue, Ev("expose", w, 0)) \/ queue' = queue
      BY <1>4 DEF Refresh
    <3>2. Ev("expose", w, 0) \in Event /\ queue \in Seq(Event)
      BY EventType DEF TypeOK
    <3> QED
      BY <3>1, <3>2, AppendEvents
  <2> QED
    BY <1>4, <2>1
       DEF Refresh, TypeOK, CallbackInv, NoCb, Call, listVars, lookVars, keyVars
<1>5. CASE GetBuffer(w)
  <2>1. buffer' \in [Window -> [bytes : Nat, room : Nat, active : BOOLEAN]]
    <3> DEFINE b == IF size[w] > buffer[w].bytes
                      THEN [bytes |-> 4 * size[w], active |-> TRUE,
                            room |-> IF Shm THEN 4 * size[w] ELSE size[w]]
                      ELSE [buffer[w] EXCEPT !.active = TRUE]
    <3>1. size[w] \in Nat /\ buffer[w] \in [bytes : Nat, room : Nat, active : BOOLEAN]
      BY DEF TypeOK
    <3>2. b \in [bytes : Nat, room : Nat, active : BOOLEAN]
      <4>1. 4 * size[w] \in Nat
        BY <3>1
      <4>2. CASE size[w] > buffer[w].bytes
        <5> DEFINE n == IF Shm THEN 4 * size[w] ELSE size[w]
        <5>1. n \in Nat
          BY <3>1, <4>1
        <5> HIDE DEF n
        <5>2. b = [bytes |-> 4 * size[w], active |-> TRUE, room |-> n]
          BY <4>2 DEF n
        <5> QED
          BY <4>1, <5>1, <5>2
      <4>3. CASE ~(size[w] > buffer[w].bytes)
        BY <3>1, <4>3
      <4> QED
        BY <4>2, <4>3
    <3>3. buffer' = [buffer EXCEPT ![w] = b]
      BY <1>5 DEF GetBuffer
    <3> QED
      BY <3>2, <3>3 DEF TypeOK
  <2> QED
    BY <1>5, <2>1
       DEF GetBuffer, TypeOK, CallbackInv, NoCb, Call, listVars, lookVars, keyVars, appVars
<1>6. CASE ApplyBuffer(w)
  <2>1. buffer' \in [Window -> [bytes : Nat, room : Nat, active : BOOLEAN]]
    <3>1. [buffer[w] EXCEPT !.active = FALSE] \in [bytes : Nat, room : Nat, active : BOOLEAN]
      <4>1. buffer[w] \in [bytes : Nat, room : Nat, active : BOOLEAN]
        BY DEF TypeOK
      <4>2. \A r \in [bytes : Nat, room : Nat, active : BOOLEAN] :
              [r EXCEPT !.active = FALSE] \in [bytes : Nat, room : Nat, active : BOOLEAN]
        OBVIOUS
      <4> QED
        BY <4>1, <4>2, Zenon
    <3>2. buffer' = [buffer EXCEPT ![w] = [buffer[w] EXCEPT !.active = FALSE]]
      BY <1>6 DEF ApplyBuffer
    <3> QED
      BY <3>1, <3>2 DEF TypeOK
  <2>2. pending' \in [Window -> BOOLEAN] /\ server' \in Server
    BY <1>6 DEF ApplyBuffer, Frame, TypeOK, Server
  <2> QED
    BY <1>6, <2>1, <2>2
       DEF ApplyBuffer, TypeOK, CallbackInv, NoCb, Call, listVars, lookVars, keyVars, appVars
<1> QED
  BY <1>1, <1>2, <1>3, <1>4, <1>5, <1>6

LEMMA DrawType ==
  ASSUME TypeOK, NEW w \in Window, DrawOrPostpone(w)
  PROVE  /\ redraw' \in [Window -> BOOLEAN] /\ wanted' \in [Window -> BOOLEAN]
         /\ cb' = NoCb \/ cb' = Call("draw", w, "end")
  BY DEF DrawOrPostpone, TypeOK

\* A callback of a window
LEMMA CallbackType ==
  ASSUME NEW fn \in Contexts \ {"idle"}, NEW w \in Window,
         NEW then \in {"end", "pressed", "expose"}, then = "expose" => fn = "resize",
         cb' = Call(fn, w, then)
  PROVE  cb' \in Callback /\ CallbackInv'
  BY CallType DEF CallbackInv, Call

LEMMA NoCallbackType ==
  ASSUME cb' = NoCb
  PROVE  cb' \in Callback /\ CallbackInv'
  BY NoCbType DEF CallbackInv

LEMMA ControlHandle ==
  ASSUME ControlInv, Handle
  PROVE  ControlInv'
<1> USE DEF ControlInv
<1> DEFINE w == Head(queue).win
<1>1. CASE Expose
  <2>1. w \in Window /\ queue' \in Seq(Event) /\ cb = NoCb
    BY <1>1, HandledType DEF Expose
  <2>2. /\ UNCHANGED <<listVars, size, pending, buffer, lookVars, focus, over, keyVars,
                       dispatching, fault, server>>
        /\ \/ UNCHANGED <<initSize, redraw, cb, appVars>>
           \/ /\ initSize' = [initSize EXCEPT ![w] = FALSE]
              /\ known' = [known EXCEPT ![w] = size[w]]
              /\ cb' = Call("resize", w, "expose")
              /\ UNCHANGED <<redraw, wanted>>
           \/ DrawOrPostpone(w) /\ UNCHANGED <<initSize, known>>
    BY <1>1 DEF Expose
  <2>3. cb' = NoCb \/ cb' = Call("resize", w, "expose") \/ cb' = Call("draw", w, "end")
    BY <2>1, <2>2 DEF DrawOrPostpone
  <2>4. cb' \in Callback /\ CallbackInv'
    BY <2>1, <2>3, CallbackType, NoCallbackType DEF Contexts
  <2>5. redraw' \in [Window -> BOOLEAN] /\ wanted' \in [Window -> BOOLEAN]
    BY <2>1, <2>2, DrawType DEF TypeOK, appVars
  <2>6. initSize' \in [Window -> BOOLEAN] /\ known' \in [Window -> Nat]
    BY ZenonT(30), <2>1, <2>2 DEF TypeOK, appVars
  <2> QED
    BY <2>1, <2>2, <2>4, <2>5, <2>6 DEF TypeOK, listVars, lookVars, keyVars
<1>2. CASE PresentComplete
  <2>1. w \in Window /\ queue' \in Seq(Event) /\ cb = NoCb
    BY <1>2, HandledType DEF PresentComplete
  <2>2. /\ cb' = NoCb \/ cb' = Call("draw", w, "end")
        /\ pending' \in [Window -> BOOLEAN] /\ redraw' \in [Window -> BOOLEAN]
        /\ wanted' \in [Window -> BOOLEAN]
    BY <1>2, <2>1 DEF PresentComplete, TypeOK
  <2>3. cb' \in Callback /\ CallbackInv'
    BY <2>1, <2>2, CallbackType, NoCallbackType DEF Contexts
  <2> QED
    BY <1>2, <2>1, <2>2, <2>3 DEF PresentComplete, TypeOK, listVars, lookVars, keyVars
<1>3. CASE Configure
  <2>1. w \in Window /\ queue' \in Seq(Event) /\ cb = NoCb /\ Head(queue).arg \in Sizes
    BY <1>3, HandledType DEF Configure
  <2>2. /\ cb' = NoCb \/ cb' = Call("resize", w, "end")
        /\ initSize' \in [Window -> BOOLEAN]
        /\ size' \in [Window -> Nat] /\ known' \in [Window -> Nat]
    BY <1>3, <2>1, SizeAssumption DEF Configure, TypeOK
  <2>3. cb' \in Callback /\ CallbackInv'
    BY <2>1, <2>2, CallbackType, NoCallbackType DEF Contexts
  <2> QED
    BY <1>3, <2>1, <2>2, <2>3 DEF Configure, TypeOK, listVars, lookVars, keyVars
<1>4. CASE ClientMessage \/ FocusChange \/ Crossing \/ Input
  <2>1. /\ queue' \in Seq(Event) /\ cb = NoCb
        /\ Found => w \in Window
    BY <1>4, HandledType DEF ClientMessage, FocusChange, Crossing, Input
  <2>2. \/ cb' = NoCb
        \/ w \in Window /\ \E fn \in {"close", "focus", "cross", "input"} : cb' = Call(fn, w, "end")
    BY <1>4, <2>1 DEF ClientMessage, FocusChange, Crossing, Input
  <2>3. cb' \in Callback /\ CallbackInv'
    BY <2>2, CallbackType, NoCallbackType DEF Contexts
  <2>4. /\ focus' \in Window \cup {None} /\ over' \in Window \cup {None}
        /\ fault' \in {"none", "no window", "freed window"}
    BY <1>4, <2>1 DEF ClientMessage, FocusChange, Crossing, Input, TypeOK
  <2>5. UNCHANGED <<listVars, winVars, keyVars, dispatching, server, appVars>>
    BY <1>4 DEF ClientMessage, FocusChange, Crossing, Input
  <2> QED
    BY <2>1, <2>3, <2>4, <2>5 DEF TypeOK, listVars, winVars, lookVars, keyVars, appVars
<1>5. CASE KeyPress
  <2>1. w \in Window /\ queue' \in Seq(Event) /\ cb = NoCb /\ Head(queue).arg \in Key
    BY <1>5, HandledType DEF KeyPress
  <2>2. /\ cb' = NoCb \/ cb' = Call("key", w, "pressed")
        /\ keys' \subseteq Key /\ repeated' \in Key \cup {None}
    BY <1>5, <2>1 DEF KeyPress, TypeOK
  <2>3. cb' \in Callback /\ CallbackInv'
    BY <2>1, <2>2, CallbackType, NoCallbackType DEF Contexts
  <2> QED
    BY <1>5, <2>1, <2>2, <2>3 DEF KeyPress, TypeOK, listVars, winVars, lookVars, appVars
<1>6. CASE KeyRelease
  <2>1. /\ w \in Window /\ queue' \in Seq(Event) /\ cb = NoCb
        /\ Head(queue).arg[1] \in Key
    BY <1>6, HandledType DEF KeyRelease
  <2>2. /\ cb' = NoCb \/ cb' = Call("key", w, "end")
        /\ keys' \subseteq Key /\ repeated' \in Key \cup {None}
    BY <1>6, <2>1 DEF KeyRelease, TypeOK, keyVars
  <2>3. cb' \in Callback /\ CallbackInv'
    BY <2>1, <2>2, CallbackType, NoCallbackType DEF Contexts
  <2> QED
    BY <1>6, <2>1, <2>2, <2>3 DEF KeyRelease, TypeOK, listVars, winVars, lookVars, appVars
<1> QED
  BY <1>1, <1>2, <1>3, <1>4, <1>5, <1>6 DEF Handle

LEMMA ControlLoop ==
  ASSUME ControlInv, Return \/ Dispatch
  PROVE  ControlInv'
<1> USE DEF ControlInv
<1>1. CASE Dispatch
  BY <1>1
     DEF Dispatch, TypeOK, CallbackInv, NoCb, Call, listVars, winVars, lookVars, keyVars,
         appVars
<1>2. CASE Return
  <2>1. cb.win \in Window
    BY <1>2, NoCbType DEF Return, CallbackInv
  <2>2. CASE cb.then = "expose" /\ Live(cb.win)
    <3>1. DrawOrPostpone(cb.win) /\ UNCHANGED <<repeated, fault>>
      BY <1>2, <2>2 DEF Return
    <3>2. /\ redraw' \in [Window -> BOOLEAN] /\ wanted' \in [Window -> BOOLEAN]
          /\ cb' = NoCb \/ cb' = Call("draw", cb.win, "end")
      BY <2>1, <3>1, DrawType
    <3>3. cb' \in Callback /\ CallbackInv'
      BY <2>1, <3>2, CallbackType, NoCallbackType DEF Contexts
    <3> QED
      BY <1>2, <3>1, <3>2, <3>3 DEF Return, TypeOK, listVars, lookVars
  <2>3. CASE ~(cb.then = "expose" /\ Live(cb.win))
    <3>1. /\ cb' = NoCb \/ cb' = cb
          /\ repeated' \in Key \cup {None} /\ fault' \in {"none", "no window", "freed window"}
          /\ UNCHANGED <<redraw, wanted>>
      <4>1. cb.then \in {"end", "pressed", "expose"}
        BY DEF TypeOK, Callback
      <4>2. CASE cb.then = "end"
        BY <1>2, <4>2 DEF Return, TypeOK
      <4>3. CASE cb.then = "pressed"
        BY <1>2, <4>3 DEF Return, TypeOK
      <4>4. CASE cb.then = "expose" /\ ~Live(cb.win)
        BY <1>2, <4>4 DEF Return, TypeOK
      <4> QED
        BY <2>3, <4>1, <4>2, <4>3, <4>4
    <3>2. cb' \in Callback /\ CallbackInv'
      BY <3>1, NoCallbackType DEF TypeOK, CallbackInv, NoCb, Call
    <3> QED
      BY <1>2, <3>1, <3>2 DEF Return, TypeOK, listVars, lookVars
  <2> QED
    BY <2>2, <2>3
<1> QED
  BY <1>1, <1>2

\* What the server does
ServerStep(w) ==
  \/ ServerExpose(w) \/ ServerComplete(w) \/ ServerForeign(w)
  \/ ServerFocus(w) \/ ServerPoint(w)
  \/ \E s \in Sizes : ServerConfigure(w, s)
  \/ \E k \in Key : ServerKey(w, k)

\* An event is sent for a window, the server's own state changes with it, and
\* nothing of the client does; a notification only ends with the event it is for.
LEMMA ServerSends ==
  ASSUME ControlInv, NEW w \in Window, ServerStep(w)
  PROVE  /\ \E e \in Event : Send(e)
         /\ server' \in Server
         /\ \/ UNCHANGED wanted
            \/ /\ wanted' = [wanted EXCEPT ![w] = TRUE]
               /\ Live(w) /\ Send(Ev("expose", w, 0))
         /\ \/ server'.notify = server.notify
            \/ /\ server'.notify = server.notify \ {w}
               /\ Send(Ev("complete", w, TRUE))
<1> USE DEF ControlInv, TypeOK, Server
<1>1. CASE ServerExpose(w)
  BY <1>1, EventType DEF ServerExpose
<1>2. CASE ServerComplete(w)
  BY <1>2, EventType DEF ServerComplete
<1>3. CASE ServerForeign(w)
  BY <1>3, EventType DEF ServerForeign
<1>4. CASE ServerFocus(w)
  <2>1. \E b \in BOOLEAN : Send(Ev("focus", w, b))
    BY <1>4 DEF ServerFocus
  <2>2. \E f \in Window \cup {None} : server' = [server EXCEPT !.focus = f]
    BY <1>4 DEF ServerFocus
  <2> QED
    BY <1>4, <2>1, <2>2, EventType DEF ServerFocus
<1>5. CASE ServerPoint(w)
  <2>1. \E b \in BOOLEAN : Send(Ev("point", w, b))
    BY <1>5 DEF ServerPoint
  <2>2. \E f \in Window \cup {None} : server' = [server EXCEPT !.over = f]
    BY <1>5 DEF ServerPoint
  <2> QED
    BY <1>5, <2>1, <2>2, EventType DEF ServerPoint
<1>6. ASSUME NEW s \in Sizes, ServerConfigure(w, s)
      PROVE  /\ \E e \in Event : Send(e)
             /\ UNCHANGED <<server, wanted>>
  BY <1>6, EventType DEF ServerConfigure
<1>7. ASSUME NEW k \in Key, ServerKey(w, k)
      PROVE  /\ \E e \in Event : Send(e)
             /\ server' \in Server /\ server'.notify = server.notify
             /\ UNCHANGED wanted
  <2>1. \/ Send(Ev("press", w, k))
        \/ \E b \in BOOLEAN : Send(Ev("release", w, <<k, b>>))
    BY <1>7 DEF ServerKey
  <2>2. \/ \E K \in SUBSET Key : server' = [server EXCEPT !.keys = K]
        \/ \E h \in Key \cup {None} : server' = [server EXCEPT !.half = h]
    <3>1. \/ server' = [server EXCEPT !.keys = server.keys \cup {k}]
          \/ server' = [server EXCEPT !.keys = server.keys \ {k}]
          \/ server' = [server EXCEPT !.half = None]
          \/ server' = [server EXCEPT !.half = k]
      BY <1>7 DEF ServerKey
    <3>2. /\ server.keys \cup {k} \in SUBSET Key /\ server.keys \ {k} \in SUBSET Key
          /\ None \in Key \cup {None} /\ k \in Key \cup {None}
      OBVIOUS
    <3> QED
      BY <3>1, <3>2
  <2> QED
    BY <1>7, <2>1, <2>2, EventType DEF ServerKey
<1> QED
  BY <1>1, <1>2, <1>3, <1>4, <1>5, <1>6, <1>7 DEF ServerStep

LEMMA ControlServer ==
  ASSUME ControlInv, NEW w \in Window, ServerStep(w)
  PROVE  ControlInv'
<1>1. PICK e \in Event : Send(e)
  BY ServerSends
<1>2. queue' \in Seq(Event)
  BY <1>1, AppendEvents DEF Send, ControlInv, TypeOK
<1>3. server' \in Server /\ wanted' \in [Window -> BOOLEAN]
  BY ServerSends DEF ControlInv, TypeOK
<1> QED
  BY <1>1, <1>2, <1>3
     DEF Send, ControlInv, TypeOK, CallbackInv, NoCb, Call, listVars, winVars, lookVars, keyVars

\* The kinds of steps
AppStep(w) ==
  \/ \E s \in Asked : CreateWindow(w, s)
  \/ CreateFails(w) \/ Destroy(w) \/ Refresh(w) \/ GetBuffer(w) \/ ApplyBuffer(w)

LEMMA Steps ==
  ASSUME [Next]_vars
  PROVE  \/ UNCHANGED vars \/ Handle \/ Return \/ Dispatch
         \/ \E w \in Window : AppStep(w) \/ ServerStep(w)
  BY DEF Next, AppStep, ServerStep

LEMMA ControlStep ==
  ASSUME ControlInv, [Next]_vars
  PROVE  ControlInv'
<1>1. CASE UNCHANGED vars
  BY <1>1
     DEF vars, ControlInv, TypeOK, CallbackInv, NoCb, Call, listVars, winVars, lookVars,
         keyVars, appVars
<1>2. ASSUME NEW w \in Window, AppStep(w) PROVE ControlInv'
  BY <1>2, ControlApp DEF AppStep
<1> QED
  BY <1>1, <1>2, ControlHandle, ControlLoop, ControlServer, Steps

\* Every variable has its type at all times, and display_dispatch is in no
\* callback but that of a window (src/swa/x11.c).
THEOREM TypesHold == Spec => []ControlInv
<1>1. Init => ControlInv
  BY ControlInit
<1>2. ControlInv /\ [Next]_vars => ControlInv'
  BY ControlStep
<1> QED
  BY <1>1, <1>2, PTL DEF Spec

-----------------------------------------------------------------------------
(* The list of windows *)

Alive == {w \in Window : status[w] = "live"}

\* Each window's links are those of its neighbours, whether or not the list
\* still has it.
LinkInv ==
  /\ head \in Alive \cup {None}
  /\ \A w \in Alive :
       /\ next[w] \in Alive \cup {None}
       /\ next[w] # None => prev[next[w]] = w
       /\ head = w => prev[w] = None
       /\ prev[w] # None => prev[w] \in Alive /\ next[prev[w]] = w
  /\ \A w \in Window : status[w] = "unborn" => prev[w] = None
  /\ {focus, over} \subseteq Alive \cup {None}

LEMMA LiveAlive == \A w \in Window : Live(w) <=> w \in Alive
  BY WindowAssumption DEF Live, Alive

\* What find_window finds lives.
LEMMA ListedAlive ==
  ASSUME LinkInv
  PROVE  Listed \subseteq Alive
<1>1. Alive \in SUBSET Window /\ Linked(Alive)
  BY DEF Alive, LinkInv, Linked
<1> QED
  BY <1>1 DEF Listed

LEMMA ListedSame == UNCHANGED <<head, next>> => Listed' = Listed
  BY DEF Listed, Linked

\* A window that was forgotten is never found again.
LEMMA ListedShrinks ==
  ASSUME TypeOK, LinkInv, NEW w \in Window, NEW u \in Listed',
         (\E s : CreateWindow(w, s)) \/ CreateFails(w) \/ Destroy(w)
  PROVE  u \in Listed \/ (u = w /\ status[w] = "unborn" /\ status'[w] = "live")
<1>1. ASSUME NEW s, CreateWindow(w, s), u # w, NEW S \in SUBSET Window, Linked(S)
      PROVE  u \in S
  <2>1. head' = w /\ \A v \in Window : next'[v] = IF v = w THEN head ELSE next[v]
    BY <1>1 DEF CreateWindow, Link, TypeOK
  <2>2. Linked(S \cup {w})' /\ S \cup {w} \in SUBSET Window
    BY <1>1, <2>1 DEF Linked
  <2> QED
    BY <1>1, <2>2 DEF Listed
<1>2. CASE CreateFails(w)
  <2>1. Linked({})'
    BY <1>2 DEF CreateFails, Linked
  <2> QED
    BY <2>1 DEF Listed
<1>3. ASSUME Destroy(w), NEW S \in SUBSET Window, Linked(S)
      PROVE  u \in S
  <2>1. /\ w \in Alive /\ w # None
        /\ head' = IF head = w THEN None ELSE head
        /\ next' = IF prev[w] = None THEN next ELSE [next EXCEPT ![prev[w]] = next[w]]
    BY <1>3, LiveAlive DEF Destroy, Live
  <2>2. \A v \in Window : next'[v] = IF v = prev[w] THEN next[w] ELSE next[v]
    BY <2>1, WindowAssumption DEF TypeOK
  <2>3. \A v \in Window : v = prev[w] => next[v] = w
    BY <2>1, WindowAssumption DEF LinkInv
  <2>4. Linked(S)'
    BY <1>3, <2>1, <2>2, <2>3 DEF Linked
  <2> QED
    BY <2>4 DEF Listed
<1>4. u \in Window
  BY DEF Listed
<1>5. ASSUME NEW s, CreateWindow(w, s) PROVE status[w] = "unborn" /\ status'[w] = "live"
  BY <1>5 DEF CreateWindow, TypeOK
<1> QED
  BY <1>1, <1>2, <1>3, <1>4, <1>5 DEF Listed

LEMMA LinkInit == Init => LinkInv
  BY WindowAssumption DEF Init, LinkInv, Alive

\* The other steps leave the list alone.
LEMMA LinkSame ==
  ASSUME LinkInv, UNCHANGED <<status, head, next, prev>>,
         {focus', over'} \subseteq Alive \cup {None}
  PROVE  LinkInv'
  BY DEF LinkInv, Alive

LEMMA LinkCreate ==
  ASSUME TypeOK, LinkInv, NEW w \in Window, NEW s, CreateWindow(w, s)
  PROVE  LinkInv'
<1>1. /\ status[w] = "unborn" /\ w \notin Alive
      /\ status' = [status EXCEPT ![w] = "live"]
      /\ head' = w /\ next' = [next EXCEPT ![w] = head]
      /\ UNCHANGED <<focus, over>>
  BY DEF CreateWindow, Link, Alive
<1>2. Alive' = Alive \cup {w}
  BY <1>1 DEF Alive, TypeOK
<1>3. prev[w] = None /\ head # w /\ w # None
  BY <1>1, WindowAssumption DEF LinkInv
<1>4. \A v \in Window : prev'[v] = IF v = head THEN w ELSE prev[v]
  BY WindowAssumption DEF CreateWindow, Link, TypeOK
<1>5. \A v \in Window : next'[v] = IF v = w THEN head ELSE next[v]
  BY <1>1 DEF TypeOK
<1>6. ASSUME NEW v \in Alive'
      PROVE  /\ next'[v] \in Alive' \cup {None}
             /\ next'[v] # None => prev'[next'[v]] = v
             /\ head' = v => prev'[v] = None
             /\ prev'[v] # None => prev'[v] \in Alive' /\ next'[prev'[v]] = v
  <2>1. CASE v = w
    BY <2>1, <1>1, <1>2, <1>3, <1>4, <1>5 DEF LinkInv, Alive
  <2>2. CASE v # w
    <3>1. v \in Alive /\ v \in Window /\ head' # v
      BY <2>2, <1>1, <1>2 DEF Alive
    <3>2. next'[v] = next[v] /\ next[v] \in Alive \cup {None}
      BY <3>1, <2>2, <1>5 DEF LinkInv
    <3>3. next[v] # None => next[v] # head /\ prev'[next[v]] = v
      BY <3>1, <3>2, <1>4, WindowAssumption DEF LinkInv, Alive
    <3>4. CASE v = head
      BY <3>1, <3>2, <3>3, <3>4, <1>1, <1>2, <1>3, <1>4, <1>5 DEF LinkInv
    <3>5. CASE v # head
      <4>1. prev'[v] = prev[v] /\ (prev[v] # None => prev[v] \in Alive /\ next[prev[v]] = v)
        BY <3>1, <3>5, <1>4 DEF LinkInv
      <4>2. prev[v] # None => prev[v] # w /\ prev[v] \in Window
        BY <4>1, <1>1 DEF Alive
      <4> QED
        BY <3>1, <3>2, <3>3, <4>1, <4>2, <1>2, <1>5
    <3> QED
      BY <3>4, <3>5
  <2> QED
    BY <2>1, <2>2
<1>7. \A v \in Window : status'[v] = "unborn" => prev'[v] = None
  <2> SUFFICES ASSUME NEW v \in Window, status'[v] = "unborn" PROVE prev'[v] = None
    OBVIOUS
  <2>1. v # w /\ status[v] = "unborn"
    BY <1>1 DEF TypeOK
  <2>2. v # head
    BY <2>1, WindowAssumption DEF LinkInv, Alive
  <2> QED
    BY <2>1, <2>2, <1>4 DEF LinkInv
<1> QED
  BY <1>1, <1>2, <1>6, <1>7 DEF LinkInv

\* The neighbours of the window destroyed become each other's.
LEMMA LinkDestroy ==
  ASSUME TypeOK, LinkInv, NEW w \in Window, Destroy(w)
  PROVE  LinkInv'
<1>1. /\ w \in Alive /\ w # None
      /\ status' = [status EXCEPT ![w] = "freed"]
      /\ head' = IF head = w THEN None ELSE head
      /\ prev' = IF next[w] = None THEN prev ELSE [prev EXCEPT ![next[w]] = prev[w]]
      /\ next' = IF prev[w] = None THEN next ELSE [next EXCEPT ![prev[w]] = next[w]]
      /\ focus' = IF focus = w THEN None ELSE focus
      /\ over' = IF over = w THEN None ELSE over
  BY LiveAlive DEF Destroy, Live
<1>2. Alive' = Alive \ {w}
  BY <1>1 DEF Alive, TypeOK
<1>3. \A v \in Window : next'[v] = IF v = prev[w] THEN next[w] ELSE next[v]
  BY <1>1, WindowAssumption DEF TypeOK
<1>4. \A v \in Window : prev'[v] = IF v = next[w] THEN prev[w] ELSE prev[v]
  BY <1>1, WindowAssumption DEF TypeOK
<1>5. \A v \in Alive : v \in Window /\ v # None
  BY WindowAssumption DEF Alive
<1>6. ASSUME NEW v \in Alive'
      PROVE  /\ next'[v] \in Alive' \cup {None}
             /\ next'[v] # None => prev'[next'[v]] = v
             /\ head' = v => prev'[v] = None
             /\ prev'[v] # None => prev'[v] \in Alive' /\ next'[prev'[v]] = v
  <2>1. v \in Alive /\ v \in Window /\ v # w /\ v # None
    BY <1>2, <1>5
  <2>2. /\ next[v] = w <=> v = prev[w]
        /\ prev[v] = w <=> v = next[w]
    BY <2>1, <1>1 DEF LinkInv
  <2>3. next'[v] \in Alive' \cup {None} /\ (next'[v] # None => prev'[next'[v]] = v)
    <3>1. CASE v = prev[w]
      <4>1. next'[v] = next[w] /\ next[w] \in Alive \cup {None} /\ next[w] # w
        BY <2>1, <3>1, <1>1, <1>3 DEF LinkInv
      <4> QED
        BY <3>1, <4>1, <1>2, <1>4, <1>5
    <3>2. CASE v # prev[w]
      <4>1. next'[v] = next[v] /\ next[v] \in Alive \cup {None} /\ next[v] # w
        BY <2>1, <2>2, <3>2, <1>3 DEF LinkInv
      <4>2. next[v] # None => prev[next[v]] = v /\ next[v] # next[w]
        BY <2>1, <1>1 DEF LinkInv
      <4> QED
        BY <4>1, <4>2, <1>2, <1>4, <1>5
    <3> QED
      BY <3>1, <3>2
  <2>4. head' = v => prev'[v] = None
    <3>1. head' = v => head = v /\ prev[v] = None
      BY <2>1, <1>1 DEF LinkInv
    <3> QED
      BY <2>1, <2>2, <3>1, <1>1, <1>4
  <2>5. prev'[v] # None => prev'[v] \in Alive' /\ next'[prev'[v]] = v
    <3>1. CASE v = next[w]
      <4>1. prev'[v] = prev[w] /\ (prev[w] # None => prev[w] \in Alive /\ prev[w] # w)
        BY <2>1, <3>1, <1>1, <1>4 DEF LinkInv
      <4> QED
        BY <3>1, <4>1, <1>2, <1>3, <1>5
    <3>2. CASE v # next[w]
      <4>1. prev'[v] = prev[v] /\ prev[v] # w
        BY <2>1, <2>2, <3>2, <1>4
      <4>2. prev[v] # None => prev[v] \in Alive /\ next[prev[v]] = v /\ prev[v] # prev[w]
        BY <2>1, <1>1 DEF LinkInv
      <4> QED
        BY <4>1, <4>2, <1>2, <1>3, <1>5
    <3> QED
      BY <3>1, <3>2
  <2> QED
    BY <2>3, <2>4, <2>5
<1>7. \A v \in Window : status'[v] = "unborn" => prev'[v] = None
  <2> SUFFICES ASSUME NEW v \in Window, status'[v] = "unborn" PROVE prev'[v] = None
    OBVIOUS
  <2>1. status[v] = "unborn" /\ v \notin Alive
    BY <1>1 DEF TypeOK, Alive
  <2>2. v # next[w]
    BY <2>1, <1>1, WindowAssumption DEF LinkInv
  <2> QED
    BY <2>1, <2>2, <1>4 DEF LinkInv
<1>8. {focus', over'} \subseteq Alive' \cup {None} /\ head' \in Alive' \cup {None}
  BY <1>1, <1>2 DEF LinkInv
<1> QED
  BY <1>6, <1>7, <1>8 DEF LinkInv

LEMMA LinkStep ==
  ASSUME ControlInv, LinkInv, [Next]_vars
  PROVE  LinkInv'
<1> USE DEF ControlInv
<1>1. CASE UNCHANGED vars \/ Return \/ Dispatch
  <2>1. UNCHANGED <<status, head, next, prev, focus, over>>
    BY <1>1 DEF vars, Return, Dispatch, listVars
  <2> QED
    BY <2>1, LinkSame DEF LinkInv
<1>2. CASE Handle
  <2>1. UNCHANGED <<status, head, next, prev>>
    BY <1>2
       DEF Handle, Expose, PresentComplete, Configure, ClientMessage, FocusChange, Crossing,
           Input, KeyPress, KeyRelease, listVars
  <2>2. {focus', over'} \subseteq {focus, over, None} \cup Listed
    BY <1>2
       DEF Handle, Expose, PresentComplete, Configure, ClientMessage, FocusChange, Crossing,
           Input, KeyPress, KeyRelease, Found
  <2> QED
    BY <2>1, <2>2, ListedAlive, LinkSame DEF LinkInv
<1>3. ASSUME NEW w \in Window, AppStep(w) PROVE LinkInv'
  <2>1. ASSUME NEW s \in Asked, CreateWindow(w, s) PROVE LinkInv'
    BY <2>1, LinkCreate
  <2>2. CASE CreateFails(w)
    <3>1. /\ status[w] = "unborn" /\ status' = [status EXCEPT ![w] = "freed"] /\ head' = None
          /\ UNCHANGED <<next, prev, focus, over>>
      BY <2>2 DEF CreateFails
    <3>2. Alive' = Alive
      BY <3>1 DEF Alive, TypeOK
    <3>3. \A v \in Window : status'[v] = "unborn" => prev'[v] = None
      BY <3>1 DEF LinkInv, TypeOK
    <3>4. \A v \in Alive : v # None
      BY WindowAssumption DEF Alive
    <3> QED
      BY <3>1, <3>2, <3>3, <3>4 DEF LinkInv
  <2>3. CASE Destroy(w)
    BY <2>3, LinkDestroy
  <2>4. CASE Refresh(w) \/ GetBuffer(w) \/ ApplyBuffer(w)
    <3>1. UNCHANGED <<status, head, next, prev, focus, over>>
      BY <2>4 DEF Refresh, GetBuffer, ApplyBuffer, listVars
    <3> QED
      BY <3>1, LinkSame DEF LinkInv
  <2> QED
    BY <1>3, <2>1, <2>2, <2>3, <2>4 DEF AppStep
<1>4. ASSUME NEW w \in Window, ServerStep(w) PROVE LinkInv'
  <2>1. UNCHANGED <<status, head, next, prev, focus, over>>
    BY <1>4, ServerSends DEF Send, listVars
  <2> QED
    BY <2>1, LinkSame DEF LinkInv
<1> QED
  BY <1>1, <1>2, <1>3, <1>4, Steps

\* In whichever order the application creates and destroys windows, in callbacks
\* or not, and whichever creations fail: find_window reaches no freed window, and
\* neither the focus nor the window under the pointer is a freed one, by what
\* display_create_window and win_destroy do to window_list, prev and next.
THEOREM ListSafe == Spec => []ListSound
<1>1. Init => ControlInv /\ LinkInv
  BY ControlInit, LinkInit
<1>2. ControlInv /\ LinkInv /\ [Next]_vars => (ControlInv /\ LinkInv)'
  BY ControlStep, LinkStep
<1>3. LinkInv => ListSound
  BY ListedAlive DEF LinkInv, ListSound, Alive
<1> QED
  BY <1>1, <1>2, <1>3, PTL DEF Spec

-----------------------------------------------------------------------------
(* Key repeat *)

\* Events are handled in order, so the press that is next stays the next one.
LEMMA NextEventKept ==
  ASSUME ControlInv, NEW e \in Event, Send(e)
  PROVE  queue # <<>> => queue' # <<>> /\ Head(queue') = Head(queue)
  BY SMTT(30), AppendEvents DEF Send, ControlInv, TypeOK

LEMMA RepeatStep ==
  ASSUME ControlInv, RepeatedPress, [Next]_vars
  PROVE  RepeatedPress'
<1> USE DEF ControlInv
<1>1. CASE UNCHANGED vars \/ Dispatch
  BY <1>1 DEF vars, Dispatch, winVars, keyVars, RepeatedPress
<1>2. CASE Return
  <2>1. cb.then = "pressed" => repeated' = None
    BY <1>2 DEF Return
  <2>2. queue' = queue /\ repeated' \in {None, repeated}
    <3>1. cb.then \in {"end", "pressed", "expose"}
      BY DEF TypeOK, Callback
    <3>2. repeated' = None \/ repeated' = repeated
      BY <1>2, <3>1 DEF Return
    <3>3. queue' = queue
      BY <1>2 DEF Return
    <3> QED
      BY <3>2, <3>3
  <2> QED
    BY <2>1, <2>2 DEF RepeatedPress
<1>3. CASE Handle
  <2>1. CASE KeyPress
    <3>1. cb'.then = "pressed" \/ repeated' = None
      BY <2>1 DEF KeyPress, Call
    <3> QED
      BY <3>1 DEF RepeatedPress
  <2>2. CASE KeyRelease
    <3>1. repeated = None
      BY <2>2, NoCbType DEF KeyRelease, On, RepeatedPress
    <3>2. repeated' # None => TakenBack /\ repeated' = Head(queue).arg[1]
      BY <2>2, <3>1 DEF KeyRelease, keyVars
    <3>3. queue' = Tail(queue) /\ queue # <<>> /\ queue \in Seq(Event)
      BY <2>2 DEF KeyRelease, On, TypeOK
    <3>4. repeated' # None =>
            queue' # <<>> /\ Head(queue').on = "press" /\ Head(queue').arg = repeated'
      BY <3>2, <3>3, TailEvents DEF TakenBack
    <3> QED
      BY <3>4 DEF RepeatedPress
  <2>3. CASE Expose \/ PresentComplete \/ Configure \/ ClientMessage
             \/ FocusChange \/ Crossing \/ Input
    <3>1. repeated = None
      BY <2>3, NoCbType
         DEF Expose, PresentComplete, Configure, ClientMessage, FocusChange, Crossing, Input,
             On, RepeatedPress
    <3>2. repeated' = repeated
      BY <2>3
         DEF Expose, PresentComplete, Configure, ClientMessage, FocusChange, Crossing, Input,
             keyVars
    <3> QED
      BY <3>1, <3>2 DEF RepeatedPress
  <2> QED
    BY <1>3, <2>1, <2>2, <2>3 DEF Handle
<1>4. ASSUME NEW w \in Window, AppStep(w) PROVE RepeatedPress'
  <2>1. CASE Refresh(w)
    <3>1. repeated' = repeated /\ cb' = cb
      BY <2>1 DEF Refresh, keyVars
    <3>2. queue' = queue \/ queue' = Append(queue, Ev("expose", w, 0))
      BY <2>1 DEF Refresh
    <3>3. queue # <<>> => queue' # <<>> /\ Head(queue') = Head(queue)
      <4>1. Ev("expose", w, 0) \in Event /\ queue \in Seq(Event)
        BY EventType DEF TypeOK
      <4> QED
        BY <3>2, <4>1, AppendEvents
    <3> QED
      BY <3>1, <3>3 DEF RepeatedPress
  <2>2. CASE ~Refresh(w)
    <3>1. UNCHANGED <<repeated, cb, queue>>
      BY <1>4, <2>2
         DEF AppStep, CreateWindow, CreateFails, Destroy, GetBuffer, ApplyBuffer, keyVars
    <3> QED
      BY <3>1 DEF RepeatedPress
  <2> QED
    BY <2>1, <2>2
<1>5. ASSUME NEW w \in Window, ServerStep(w) PROVE RepeatedPress'
  <2>1. PICK e \in Event : Send(e)
    BY <1>5, ServerSends
  <2>2. queue # <<>> => queue' # <<>> /\ Head(queue') = Head(queue)
    BY <2>1, NextEventKept
  <2>3. UNCHANGED <<repeated, cb>>
    BY <2>1 DEF Send, keyVars
  <2> QED
    BY <2>2, <2>3 DEF RepeatedPress
<1> QED
  BY <1>1, <1>2, <1>3, <1>4, <1>5, Steps

\* keyboard.repeated is up only until the press of the very key whose release it
\* took back is handled, so no other press is reported as a repetition:
\* XCB_KEY_RELEASE looks one event ahead, and events may be added behind it at
\* any time.
THEOREM RepetitionsPaired == Spec => []RepeatedPress
<1>1. Init => ControlInv /\ RepeatedPress
  BY ControlInit DEF Init, RepeatedPress
<1>2. ControlInv /\ RepeatedPress /\ [Next]_vars => (ControlInv /\ RepeatedPress)'
  BY ControlStep, RepeatStep
<1> QED
  BY <1>1, <1>2, PTL DEF Spec

-----------------------------------------------------------------------------
(* The size a window is drawn in *)

\* A frame is only asked for by a window whose size is known, in a draw
\* callback; memory holds an image of the bytes that were asked for.
DrawInv ==
  /\ \A w \in Window :
       /\ status[w] = "unborn" => ~pending[w] /\ ~initSize[w]
       /\ redraw[w] => pending[w]
       /\ pending[w] => ~initSize[w]
       /\ Live(w) /\ ~initSize[w] => known[w] = size[w]
       /\ buffer[w].room = buffer[w].bytes
       /\ buffer[w].active =>
            cb = Call("draw", w, "end") /\ Live(w) /\ size[w] <= buffer[w].room
  /\ cb.fn = "draw" \/ cb.then = "expose" => ~initSize[cb.win]

LEMMA DrawInit == Init => DrawInv
<1> SUFFICES ASSUME Init PROVE DrawInv
  OBVIOUS
<1>1. cb.fn # "draw" /\ cb.then # "expose"
  BY NoCbType DEF Init
<1> QED
  BY <1>1 DEF Init, DrawInv, Live, NoBuffer

\* Steps in which no window is drawn and no size changes
LEMMA DrawSame ==
  ASSUME DrawInv,
         UNCHANGED <<status, size, initSize, pending, redraw, buffer, known>>,
         \/ cb' = cb
         \/ /\ cb'.fn # "draw" /\ cb'.then # "expose"
            /\ \A w \in Window : ~buffer[w].active
  PROVE  DrawInv'
<1>1. CASE cb' = cb
  BY <1>1 DEF DrawInv, Live
<1>2. CASE /\ cb'.fn # "draw" /\ cb'.then # "expose"
           /\ \A w \in Window : ~buffer[w].active
  BY <1>2 DEF DrawInv, Live
<1> QED
  BY <1>1, <1>2

\* The draw callback, or the flag that asks for it
LEMMA DrawDraws ==
  ASSUME TypeOK, DrawInv, NEW w \in Window, DrawOrPostpone(w),
         ~initSize[w], \A v \in Window : ~buffer[v].active,
         UNCHANGED <<status, size, initSize, pending, buffer, known>>
  PROVE  DrawInv'
<1>1. cb' = NoCb \/ cb' = Call("draw", w, "end")
  BY DEF DrawOrPostpone
<1>2. cb'.then # "expose" /\ (cb'.fn = "draw" => cb'.win = w)
  BY <1>1, NoCbType DEF Call
<1>3. ASSUME NEW v \in Window, redraw'[v] PROVE pending[v]
  BY ZenonT(30), <1>3 DEF DrawOrPostpone, DrawInv, TypeOK
<1> QED
  BY <1>2, <1>3 DEF DrawInv, Live

LEMMA DrawHandle ==
  ASSUME ControlInv, DrawInv, Handle
  PROVE  DrawInv'
<1> USE DEF ControlInv
<1> DEFINE w == Head(queue).win
<1>1. cb = NoCb /\ \A v \in Window : ~buffer[v].active
  <2>1. cb = NoCb
    BY HandledType
       DEF Handle, Expose, PresentComplete, Configure, ClientMessage, FocusChange, Crossing,
           Input, KeyPress, KeyRelease
  <2> QED
    BY <2>1, NoCbType DEF DrawInv, Call
<1>2. CASE Expose
  <2>1. w \in Window
    BY <1>2, HandledType DEF Expose
  <2>2. /\ UNCHANGED <<status, size, pending, buffer>>
        /\ \/ UNCHANGED <<initSize, redraw, cb, known>>
           \/ /\ initSize[w]
              /\ initSize' = [initSize EXCEPT ![w] = FALSE]
              /\ known' = [known EXCEPT ![w] = size[w]]
              /\ cb' = Call("resize", w, "expose")
              /\ UNCHANGED <<redraw, wanted>>
           \/ ~initSize[w] /\ DrawOrPostpone(w) /\ UNCHANGED <<initSize, known>>
    BY <1>2 DEF Expose, listVars, appVars
  <2>3. CASE UNCHANGED <<initSize, redraw, cb, known>>
    BY <2>2, <2>3, DrawSame
  <2>4. CASE /\ initSize[w]
             /\ initSize' = [initSize EXCEPT ![w] = FALSE]
             /\ known' = [known EXCEPT ![w] = size[w]]
             /\ cb' = Call("resize", w, "expose")
             /\ UNCHANGED redraw
    <3>1. cb'.fn = "resize" /\ cb'.win = w
      BY <2>4 DEF Call
    <3>2. ~initSize'[w] /\ known'[w] = size[w]
      BY <2>1, <2>4 DEF TypeOK
    <3>3. \A v \in Window \ {w} : initSize'[v] = initSize[v] /\ known'[v] = known[v]
      BY <2>1, <2>4 DEF TypeOK
    <3> QED
      BY <2>1, <2>2, <2>4, <3>1, <3>2, <3>3, <1>1 DEF DrawInv, Live
  <2>5. CASE ~initSize[w] /\ DrawOrPostpone(w) /\ UNCHANGED <<initSize, known>>
    BY <2>1, <2>2, <2>5, <1>1, DrawDraws
  <2> QED
    BY <2>2, <2>3, <2>4, <2>5
<1>3. CASE PresentComplete
  <2>1. w \in Window
    BY <1>3, HandledType DEF PresentComplete
  <2>2. UNCHANGED <<status, size, initSize, buffer, known>>
    BY <1>3 DEF PresentComplete, listVars
  <2>3. CASE UNCHANGED <<pending, redraw, cb>>
    BY <2>2, <2>3, DrawSame
  <2>4. CASE /\ pending' = [pending EXCEPT ![w] = FALSE]
             /\ redraw' = [redraw EXCEPT ![w] = FALSE]
             /\ \/ redraw[w] /\ cb' = Call("draw", w, "end")
                \/ cb' = NoCb
    <3>1. cb'.then # "expose" /\ (cb'.fn = "draw" => cb'.win = w /\ redraw[w])
      BY <2>4, NoCbType DEF Call
    <3>2. \A v \in Window : pending'[v] = (v # w /\ pending[v])
                            /\ redraw'[v] = (v # w /\ redraw[v])
      BY <2>1, <2>4 DEF TypeOK
    <3> QED
      BY <2>1, <2>2, <3>1, <3>2, <1>1 DEF DrawInv, Live
  <2> QED
    BY <1>1, <1>3, <2>3, <2>4 DEF PresentComplete
<1>4. CASE Configure
  <2>1. w \in Window
    BY <1>4, HandledType DEF Configure
  <2>2. UNCHANGED <<status, pending, redraw, buffer>>
    BY <1>4 DEF Configure, listVars
  <2>3. CASE UNCHANGED <<initSize, size, known, cb>>
    BY <2>2, <2>3, DrawSame
  <2>4. ASSUME NEW s \in Sizes,
               initSize' = [initSize EXCEPT ![w] = FALSE],
               size' = [size EXCEPT ![w] = s],
               known' = [known EXCEPT ![w] = s],
               cb' = Call("resize", w, "end")
        PROVE  DrawInv'
    <3>1. cb'.fn # "draw" /\ cb'.then # "expose"
      BY <2>4 DEF Call
    <3>2. ~initSize'[w] /\ known'[w] = size'[w]
      BY <2>1, <2>4 DEF TypeOK
    <3>3. \A v \in Window \ {w} :
            initSize'[v] = initSize[v] /\ known'[v] = known[v] /\ size'[v] = size[v]
      BY <2>1, <2>4 DEF TypeOK
    <3> QED
      BY <2>1, <2>2, <3>1, <3>2, <3>3, <1>1 DEF DrawInv, Live
  <2> QED
    BY <1>4, <2>3, <2>4, HandledType DEF Configure
<1>5. CASE ClientMessage \/ FocusChange \/ Crossing \/ Input \/ KeyPress \/ KeyRelease
  <2>1. UNCHANGED <<status, size, initSize, pending, redraw, buffer, known>>
    BY <1>5
       DEF ClientMessage, FocusChange, Crossing, Input, KeyPress, KeyRelease,
           listVars, winVars, appVars
  <2>2. \/ cb' = NoCb
        \/ \E fn \in {"close", "focus", "cross", "input", "key"}, then \in {"end", "pressed"} :
             cb' = Call(fn, w, then)
    BY <1>1, <1>5 DEF ClientMessage, FocusChange, Crossing, Input, KeyPress, KeyRelease
  <2>3. cb'.fn # "draw" /\ cb'.then # "expose"
    BY <2>2, NoCbType DEF Call
  <2> QED
    BY <2>1, <2>3, <1>1, DrawSame
<1> QED
  BY <1>2, <1>3, <1>4, <1>5 DEF Handle

LEMMA DrawApp ==
  ASSUME Shm = TRUE, ControlInv, DrawInv, NEW w \in Window, AppStep(w)
  PROVE  DrawInv'
<1> USE DEF ControlInv
<1>1. ASSUME NEW s \in Asked, CreateWindow(w, s) PROVE DrawInv'
  <2>1. /\ status' = [status EXCEPT ![w] = "live"]
        /\ initSize' = [initSize EXCEPT ![w] = s = 0]
        /\ size' = [size EXCEPT ![w] = IF s = 0 THEN Fallback ELSE s]
        /\ known' = [known EXCEPT ![w] = s]
        /\ status[w] = "unborn" /\ cb = NoCb
        /\ UNCHANGED <<pending, redraw, buffer, cb>>
    BY <1>1 DEF CreateWindow
  <2>2. ~pending'[w] /\ (~initSize'[w] => known'[w] = size'[w])
    BY <2>1 DEF DrawInv, TypeOK
  <2>3. ~buffer[w].active
    BY <2>1, NoCbType DEF DrawInv, Call
  <2>4. \A v \in Window \ {w} : /\ status'[v] = status[v] /\ initSize'[v] = initSize[v]
                                /\ size'[v] = size[v] /\ known'[v] = known[v]
    BY <2>1 DEF TypeOK
  <2>5. status'[w] # "unborn" /\ cb'.fn # "draw" /\ cb'.then # "expose"
    BY <2>1, NoCbType DEF TypeOK
  <2> QED
    BY <2>1, <2>2, <2>3, <2>4, <2>5 DEF DrawInv, Live
<1>2. CASE CreateFails(w)
  <2>1. /\ status' = [status EXCEPT ![w] = "freed"] /\ status[w] = "unborn"
        /\ UNCHANGED <<size, initSize, pending, redraw, buffer, known, cb>>
    BY <1>2 DEF CreateFails, winVars, appVars
  <2>2. \A v \in Window : /\ status'[v] = "live" <=> status[v] = "live"
                          /\ status'[v] = "unborn" => status[v] = "unborn"
    BY <2>1 DEF TypeOK
  <2> QED
    BY <2>1, <2>2 DEF DrawInv, Live
<1>3. CASE Destroy(w)
  <2>1. /\ status' = [status EXCEPT ![w] = "freed"]
        /\ pending' = [pending EXCEPT ![w] = FALSE]
        /\ redraw' = [redraw EXCEPT ![w] = FALSE]
        /\ initSize' = [initSize EXCEPT ![w] = FALSE]
        /\ size' = [size EXCEPT ![w] = 0]
        /\ known' = [known EXCEPT ![w] = 0]
        /\ buffer' = [buffer EXCEPT ![w] = NoBuffer]
        /\ UNCHANGED cb
    BY <1>3 DEF Destroy
  <2>2. /\ status'[w] = "freed" /\ ~pending'[w] /\ ~redraw'[w] /\ ~initSize'[w]
        /\ buffer'[w] = NoBuffer
    BY <2>1 DEF TypeOK
  <2>3. \A v \in Window \ {w} :
          /\ status'[v] = status[v] /\ initSize'[v] = initSize[v]
          /\ size'[v] = size[v] /\ known'[v] = known[v] /\ buffer'[v] = buffer[v]
          /\ pending'[v] = pending[v] /\ redraw'[v] = redraw[v]
    BY <2>1 DEF TypeOK
  <2>4. cb.fn = "draw" \/ cb.then = "expose" => cb.win \in Window /\ ~initSize'[cb.win]
    BY <2>2, <2>3 DEF DrawInv, CallbackInv
  <2> QED
    BY <2>1, <2>2, <2>3, <2>4 DEF DrawInv, Live, NoBuffer
<1>4. CASE Refresh(w)
  <2>1. UNCHANGED <<status, size, initSize, pending, buffer, known, cb>>
    BY <1>4 DEF Refresh, listVars
  <2>2. \A v \in Window : redraw'[v] => redraw[v] \/ pending[v]
    BY <1>4 DEF Refresh, TypeOK
  <2> QED
    BY <2>1, <2>2 DEF DrawInv, Live
<1>5. CASE GetBuffer(w)
  <2>1. /\ cb = Call("draw", w, "end") /\ Live(w)
        /\ UNCHANGED <<status, size, initSize, pending, redraw, known, cb>>
    BY <1>5 DEF GetBuffer, listVars, appVars
  <2>2. \A v \in Window \ {w} : buffer'[v] = buffer[v]
    BY <1>5 DEF GetBuffer, TypeOK
  <2>3. buffer'[w].room = buffer'[w].bytes /\ size[w] <= buffer'[w].room
    <3>1. size[w] \in Nat /\ buffer[w] \in [bytes : Nat, room : Nat, active : BOOLEAN]
      BY DEF TypeOK
    <3>2. CASE size[w] > buffer[w].bytes
      <4>1. buffer'[w] = [bytes |-> 4 * size[w], active |-> TRUE, room |-> 4 * size[w]]
        BY <1>5, <3>2 DEF GetBuffer, TypeOK
      <4>2. size[w] <= 4 * size[w]
        BY <3>1
      <4> QED
        BY <4>1, <4>2
    <3>3. CASE ~(size[w] > buffer[w].bytes)
      <4>1. buffer'[w] = [buffer[w] EXCEPT !.active = TRUE]
        BY <1>5, <3>3 DEF GetBuffer, TypeOK
      <4>2. buffer[w].room = buffer[w].bytes
        BY DEF DrawInv
      <4> QED
        BY <3>1, <3>3, <4>1, <4>2
    <3> QED
      BY <3>2, <3>3
  <2> QED
    BY <2>1, <2>2, <2>3 DEF DrawInv, Live
<1>6. CASE ApplyBuffer(w)
  <2>1. /\ cb = Call("draw", w, "end") /\ Live(w)
        /\ pending' = [pending EXCEPT ![w] = TRUE]
        /\ buffer' = [buffer EXCEPT ![w].active = FALSE]
        /\ UNCHANGED <<status, size, initSize, redraw, known, cb>>
    BY <1>6 DEF ApplyBuffer, Frame, listVars, appVars
  <2>2. ~initSize[w] /\ status[w] = "live"
    BY <2>1 DEF DrawInv, Call, Live
  <2>3. \A v \in Window : pending'[v] => v = w \/ pending[v]
    BY <2>1 DEF TypeOK
  <2>4. \A v \in Window : pending[v] => pending'[v]
    BY <2>1 DEF TypeOK
  <2>5. \A v \in Window : /\ buffer'[v].room = buffer[v].room
                          /\ buffer'[v].bytes = buffer[v].bytes
                          /\ buffer'[v].active => buffer[v].active
    <3>1. buffer \in [Window -> [bytes : Nat, room : Nat, active : BOOLEAN]]
      BY DEF TypeOK
    <3>2. \A r \in [bytes : Nat, room : Nat, active : BOOLEAN] :
            LET e == [r EXCEPT !.active = FALSE]
            IN e.room = r.room /\ e.bytes = r.bytes /\ ~e.active
      OBVIOUS
    <3>3. buffer' = [buffer EXCEPT ![w] = [buffer[w] EXCEPT !.active = FALSE]]
      BY <2>1
    <3> QED
      BY <3>1, <3>2, <3>3, Zenon
  <2> QED
    BY <2>1, <2>2, <2>3, <2>4, <2>5 DEF DrawInv, Live
<1> QED
  BY <1>1, <1>2, <1>3, <1>4, <1>5, <1>6 DEF AppStep

LEMMA DrawLoop ==
  ASSUME HoldBuffer = FALSE, ControlInv, DrawInv, Return \/ Dispatch
  PROVE  DrawInv'
<1> USE DEF ControlInv
<1>1. CASE Dispatch
  BY <1>1, DrawSame DEF Dispatch, listVars, winVars, appVars
<1>2. CASE Return
  <2>1. UNCHANGED <<status, size, initSize, pending, buffer, known>>
    BY <1>2 DEF Return, listVars
  <2>2. cb.win \in Window /\ cb.then \in {"end", "pressed", "expose"}
    BY <1>2, NoCbType DEF Return, CallbackInv, TypeOK, Callback
  <2>3. \A w \in Window : ~buffer[w].active
    <3> SUFFICES ASSUME NEW w \in Window, buffer[w].active PROVE FALSE
      OBVIOUS
    <3>1. cb = Call("draw", w, "end") /\ Live(w) /\ cb.fn = "draw" /\ cb.win = w
      <4>1. cb = Call("draw", w, "end")
        BY DEF DrawInv
      <4>2. Live(w)
        BY DEF DrawInv
      <4> QED
        BY <4>1, <4>2 DEF Call
    <3> QED
      BY <1>2, <3>1 DEF Return
  <2>4. CASE cb.then = "expose" /\ Live(cb.win)
    <3>1. DrawOrPostpone(cb.win) /\ ~initSize[cb.win]
      BY <1>2, <2>4 DEF Return, DrawInv
    <3> QED
      BY <2>1, <2>2, <2>3, <3>1, DrawDraws
  <2>5. CASE ~(cb.then = "expose" /\ Live(cb.win))
    <3>1. (cb' = NoCb \/ cb' = cb) /\ UNCHANGED redraw
      BY <1>2, <2>2, <2>5 DEF Return
    <3> QED
      BY <2>1, <2>3, <3>1, NoCbType, DrawSame
  <2> QED
    BY <2>4, <2>5
<1> QED
  BY <1>1, <1>2

LEMMA DrawStep ==
  ASSUME Shm = TRUE, HoldBuffer = FALSE, ControlInv, DrawInv, [Next]_vars
  PROVE  DrawInv'
<1>1. CASE UNCHANGED vars
  BY <1>1, DrawSame DEF vars, listVars, winVars, appVars
<1>2. ASSUME NEW w \in Window, ServerStep(w) PROVE DrawInv'
  <2>1. UNCHANGED <<status, size, initSize, pending, redraw, buffer, known, cb>>
    BY <1>2, ServerSends DEF Send, listVars, winVars
  <2> QED
    BY <2>1, DrawSame
<1> QED
  BY <1>1, <1>2, DrawHandle, DrawApp, DrawLoop, Steps

\* With shared memory, and an application that applies each buffer before its
\* draw callback returns, a window is drawn in the size the application was
\* told last, in memory that holds an image of that size: the resize callbacks
\* of XCB_EXPOSE and XCB_CONFIGURE_NOTIFY against win_get_buffer, which keeps
\* its memory while n_bytes suffices.
THEOREM DrawsFit ==
  ASSUME Shm = TRUE, HoldBuffer = FALSE
  PROVE  Spec => []DrawFits
<1>1. Init => ControlInv /\ DrawInv
  BY ControlInit, DrawInit
<1>2. ControlInv /\ DrawInv /\ [Next]_vars => (ControlInv /\ DrawInv)'
  BY ControlStep, DrawStep
<1>3. ControlInv /\ DrawInv => DrawFits
  BY DEF ControlInv, DrawInv, DrawFits, Call
<1> QED
  BY <1>1, <1>2, <1>3, PTL DEF Spec

-----------------------------------------------------------------------------
(* Draw events that are owed *)

Expects(w) == \E i \in DOMAIN queue : queue[i].on = "expose" /\ queue[i].win = w
Completes(w) == \E i \in DOMAIN queue : queue[i] = Ev("complete", w, TRUE)

\* A flag waits for a frame, nothing is owed to a window that does not live, and
\* for one that is found, a frame on its way is completed.
RequestInv ==
  \A w \in Window :
    /\ w \notin Alive => ~wanted[w] /\ ~pending[w]
    /\ redraw[w] => pending[w]
    /\ w \in Listed =>
         /\ pending[w] => w \in server.notify \/ Completes(w)
         /\ wanted[w] => Expects(w) \/ redraw[w] \/ cb = Call("resize", w, "expose")

LEMMA RequestInit == Init => RequestInv
  BY DEF Init, RequestInv

LEMMA RequestsAdded ==
  ASSUME TypeOK, NEW e \in Event, queue' = Append(queue, e), NEW w
  PROVE  /\ Expects(w) => Expects(w)'
         /\ Completes(w) => Completes(w)'
         /\ e = Ev("expose", w, 0) => Expects(w)'
         /\ e = Ev("complete", w, TRUE) => Completes(w)'
<1>1. /\ \A i \in DOMAIN queue : i \in DOMAIN queue' /\ queue'[i] = queue[i]
      /\ \E i \in DOMAIN queue' : queue'[i] = e
  <2>1. queue \in Seq(Event)
    BY DEF TypeOK
  <2> QED
    BY <2>1, AppendEvents
<1>2. Ev("expose", w, 0).on = "expose" /\ Ev("expose", w, 0).win = w
  BY DEF Ev
<1> QED
  BY <1>1, <1>2 DEF Expects, Completes

LEMMA RequestsTaken ==
  ASSUME TypeOK, NEW name, On(name), NEW w
  PROVE  /\ Expects(w) => Expects(w)' \/ (name = "expose" /\ Head(queue).win = w)
         /\ Completes(w) => Completes(w)' \/ Head(queue) = Ev("complete", w, TRUE)
<1>1. /\ \A i \in DOMAIN queue :
           queue[i] = Head(queue) \/ \E j \in DOMAIN queue' : queue'[j] = queue[i]
      /\ Head(queue).on = name
  BY TailEvents DEF TypeOK, On
<1> QED
  BY <1>1 DEF Expects, Completes

\* Steps that leave the requests alone, or add to the queue
LEMMA RequestSame ==
  ASSUME RequestInv, UNCHANGED <<pending, redraw, server, wanted>>, Alive' = Alive,
         Listed' = Listed,
         cb' = cb \/ \A w \in Window : cb # Call("resize", w, "expose"),
         \A w \in Window : (Expects(w) => Expects(w)') /\ (Completes(w) => Completes(w)')
  PROVE  RequestInv'
  BY DEF RequestInv

LEMMA AliveSame == UNCHANGED listVars => Alive' = Alive /\ Listed' = Listed
  BY ListedSame DEF Alive, listVars

\* The draw callback of the window whose event is taken, or the flag
LEMMA RequestDraws ==
  ASSUME TypeOK, RequestInv, NEW w \in Window, DrawOrPostpone(w),
         UNCHANGED <<listVars, pending, server>>,
         \A v \in Window \ {w} : cb # Call("resize", v, "expose"),
         \A v \in Window : Completes(v) => Completes(v)',
         \A v \in Window \ {w} : Expects(v) => Expects(v)'
  PROVE  RequestInv'
<1>1. Alive' = Alive /\ Listed' = Listed
  BY AliveSame
<1>2. (redraw'[w] <=> pending[w]) /\ (wanted'[w] => pending[w]) /\ (wanted'[w] => wanted[w])
  <2>1. CASE pending[w]
    BY <2>1 DEF DrawOrPostpone, TypeOK
  <2>2. CASE ~pending[w]
    BY <2>2 DEF DrawOrPostpone, TypeOK
  <2> QED
    BY <2>1, <2>2
<1>3. \A v \in Window \ {w} : redraw'[v] = redraw[v] /\ wanted'[v] = wanted[v]
  BY DEF DrawOrPostpone, TypeOK
<1> QED
  BY <1>1, <1>2, <1>3 DEF RequestInv

LEMMA RequestHandle ==
  ASSUME ControlInv, LinkInv, RequestInv, Handle
  PROVE  RequestInv'
<1> USE DEF ControlInv
<1> DEFINE w == Head(queue).win
<1>1. cb = NoCb /\ \A v \in Window : cb # Call("resize", v, "expose")
  <2>1. cb = NoCb
    BY HandledType
       DEF Handle, Expose, PresentComplete, Configure, ClientMessage, FocusChange, Crossing,
           Input, KeyPress, KeyRelease
  <2> QED
    BY <2>1 DEF NoCb, Call
<1>2. CASE Expose
  <2>1. w \in Window /\ On("expose") /\ Head(queue).on = "expose"
    BY <1>2, HandledType DEF Expose
  <2>2. Head(queue) # Ev("complete", w, TRUE)
    BY <2>1 DEF Ev
  <2>3. \A v \in Window : Completes(v) => Completes(v)'
    BY <2>1, RequestsTaken DEF Ev
  <2>4. \A v \in Window \ {w} : Expects(v) => Expects(v)'
    BY <2>1, RequestsTaken
  <2>5. UNCHANGED <<listVars, pending, server>> /\ Alive' = Alive /\ Listed' = Listed
    BY <1>2, AliveSame DEF Expose
  <2>6. CASE ~Found
    <3>1. w \notin Listed /\ UNCHANGED <<redraw, wanted, cb>>
      BY <1>2, <2>1, <2>6 DEF Expose, Found, appVars
    <3> QED
      BY <2>3, <2>4, <2>5, <3>1 DEF RequestInv
  <2>7. CASE Found /\ initSize[w]
    <3>1. cb' = Call("resize", w, "expose") /\ UNCHANGED <<redraw, wanted>>
      BY <1>2, <2>7 DEF Expose
    <3> QED
      BY <1>1, <2>3, <2>4, <2>5, <3>1 DEF RequestInv
  <2>8. CASE Found /\ ~initSize[w]
    <3>1. DrawOrPostpone(w)
      BY <1>2, <2>8 DEF Expose
    <3> QED
      BY <1>1, <2>1, <2>3, <2>4, <2>5, <3>1, RequestDraws
  <2> QED
    BY <2>6, <2>7, <2>8
<1>3. CASE PresentComplete
  <2>1. w \in Window /\ On("complete") /\ Head(queue).arg \in BOOLEAN
    BY <1>3, HandledType DEF PresentComplete
  <2>2. \A v \in Window : Expects(v) => Expects(v)'
    <3>1. "complete" # "expose"
      OBVIOUS
    <3>2. ASSUME NEW v \in Window
          PROVE  Expects(v) => Expects(v)' \/ ("complete" = "expose" /\ w = v)
      BY <2>1, RequestsTaken
    <3> QED
      BY <3>1, <3>2
  <2>3. \A v \in Window : Head(queue) = Ev("complete", v, TRUE) => w = v /\ Head(queue).arg
    BY DEF Ev
  <2>4. \A v \in Window : Completes(v) => Completes(v)' \/ (v = w /\ Head(queue).arg)
    BY <2>1, <2>3, RequestsTaken
  <2>5. UNCHANGED server /\ Alive' = Alive /\ Listed' = Listed
    BY <1>3, AliveSame DEF PresentComplete
  <2>6. CASE ~Found \/ ~Head(queue).arg
    <3>1. UNCHANGED <<pending, redraw, wanted, cb>>
      BY <1>3, <2>6 DEF PresentComplete
    <3>2. w \in Listed => ~Head(queue).arg
      BY <2>6 DEF Found
    <3> QED
      BY <2>2, <2>4, <2>5, <3>1, <3>2 DEF RequestInv
  <2>7. CASE Found /\ Head(queue).arg
    <3>1. /\ pending' = [pending EXCEPT ![w] = FALSE]
          /\ redraw' = [redraw EXCEPT ![w] = FALSE]
          /\ IF redraw[w] THEN wanted' = [wanted EXCEPT ![w] = FALSE] ELSE UNCHANGED wanted
      BY <1>3, <2>7 DEF PresentComplete
    <3>2. \A v \in Window \ {w} :
            pending'[v] = pending[v] /\ redraw'[v] = redraw[v] /\ wanted'[v] = wanted[v]
      BY <3>1 DEF TypeOK
    <3>3. ~pending'[w] /\ ~redraw'[w] /\ (wanted'[w] => wanted[w] /\ ~redraw[w])
      BY <2>1, <3>1 DEF TypeOK
    <3> QED
      BY <1>1, <2>1, <2>2, <2>4, <2>5, <3>2, <3>3 DEF RequestInv
  <2> QED
    BY <2>6, <2>7
<1>4. CASE Configure \/ ClientMessage \/ FocusChange \/ Crossing \/ Input
             \/ KeyPress \/ KeyRelease
  <2>1. UNCHANGED <<listVars, pending, redraw, server, wanted>>
    BY <1>4
       DEF Configure, ClientMessage, FocusChange, Crossing, Input, KeyPress, KeyRelease,
           winVars, appVars
  <2>2. \E name \in {"configure", "delete", "focus", "point", "input", "press", "release"} :
          On(name)
    BY <1>4
       DEF Configure, ClientMessage, FocusChange, Crossing, Input, KeyPress, KeyRelease
  <2>3. \A v \in Window : (Expects(v) => Expects(v)') /\ (Completes(v) => Completes(v)')
    <3>1. PICK name \in {"configure", "delete", "focus", "point", "input", "press",
                         "release"} : On(name)
      BY <2>2
    <3>2. \A v : Head(queue) # Ev("complete", v, TRUE)
      BY <3>1 DEF On, Ev
    <3> QED
      BY <3>1, <3>2, RequestsTaken
  <2> QED
    BY <1>1, <2>1, <2>3, AliveSame, RequestSame
<1> QED
  BY <1>2, <1>3, <1>4 DEF Handle

LEMMA RequestApp ==
  ASSUME ControlInv, LinkInv, RequestInv, NEW w \in Window, AppStep(w)
  PROVE  RequestInv'
<1> USE DEF ControlInv
<1>1. ~Refresh(w) => UNCHANGED <<queue, cb>>
  BY DEF AppStep, CreateWindow, CreateFails, Destroy, GetBuffer, ApplyBuffer
<1>2. ~Refresh(w) => \A v \in Window : (Expects(v) => Expects(v)') /\ (Completes(v) => Completes(v)')
  BY <1>1 DEF Expects, Completes
<1>3. CASE (\E s \in Asked : CreateWindow(w, s)) \/ CreateFails(w)
  <2>1. /\ UNCHANGED <<pending, redraw, server, wanted, queue, cb>>
        /\ \E st \in {"live", "freed"} : status' = [status EXCEPT ![w] = st]
        /\ status[w] = "unborn"
    BY <1>3 DEF CreateWindow, CreateFails, winVars, appVars
  <2>2. (\A v \in Window : v \in Alive => v \in Alive') /\ w \notin Alive
    BY <2>1 DEF Alive, TypeOK
  <2>3. \A v \in Window : (Expects(v) => Expects(v)') /\ (Completes(v) => Completes(v)')
    BY <2>1 DEF Expects, Completes
  <2>4. \A v \in Listed' : v \in Listed \/ v = w
    BY <1>3, ListedShrinks
  <2> QED
    BY <2>1, <2>2, <2>3, <2>4 DEF RequestInv
<1>4. CASE Destroy(w)
  <2>1. /\ pending' = [pending EXCEPT ![w] = FALSE]
        /\ redraw' = [redraw EXCEPT ![w] = FALSE]
        /\ wanted' = [wanted EXCEPT ![w] = FALSE]
        /\ status' = [status EXCEPT ![w] = "freed"]
        /\ server'.notify = server.notify \ {w}
        /\ UNCHANGED <<queue, cb>>
    BY <1>4 DEF Destroy, TypeOK, Server
  <2>2. ~pending'[w] /\ ~redraw'[w] /\ ~wanted'[w]
    BY <2>1 DEF TypeOK
  <2>3. \A v \in Window \ {w} :
          /\ pending'[v] = pending[v] /\ redraw'[v] = redraw[v] /\ wanted'[v] = wanted[v]
          /\ v \in Alive <=> v \in Alive'
    BY <2>1 DEF TypeOK, Alive
  <2>4. \A v \in Window : (Expects(v) => Expects(v)') /\ (Completes(v) => Completes(v)')
    BY <2>1 DEF Expects, Completes
  <2>5. \A v \in Listed' : v \in Listed \/ v = w
    BY <1>4, ListedShrinks
  <2> QED
    BY <2>1, <2>2, <2>3, <2>4, <2>5 DEF RequestInv
<1>5. CASE Refresh(w)
  <2>1. /\ UNCHANGED <<listVars, pending, server, cb>> /\ w \in Alive
        /\ wanted' = [wanted EXCEPT ![w] = TRUE]
        /\ \/ /\ pending[w] /\ redraw' = [redraw EXCEPT ![w] = TRUE]
              /\ UNCHANGED queue
           \/ /\ queue' = Append(queue, Ev("expose", w, 0))
              /\ UNCHANGED redraw
    BY <1>5, LiveAlive DEF Refresh
  <2>2. Alive' = Alive /\ Listed' = Listed
    BY <2>1, AliveSame
  <2>3. \A v \in Window \ {w} : wanted'[v] = wanted[v]
    BY <2>1 DEF TypeOK
  <2>4. CASE pending[w] /\ redraw' = [redraw EXCEPT ![w] = TRUE] /\ UNCHANGED queue
    <3>1. redraw'[w] /\ \A v \in Window \ {w} : redraw'[v] = redraw[v]
      BY <2>4 DEF TypeOK
    <3>2. \A v \in Window : (Expects(v) => Expects(v)') /\ (Completes(v) => Completes(v)')
      BY <2>4 DEF Expects, Completes
    <3> QED
      BY <2>1, <2>2, <2>3, <2>4, <3>1, <3>2 DEF RequestInv
  <2>5. CASE queue' = Append(queue, Ev("expose", w, 0)) /\ UNCHANGED redraw
    <3>1. Ev("expose", w, 0) \in Event
      BY EventType
    <3>2. \A v \in Window : (Expects(v) => Expects(v)') /\ (Completes(v) => Completes(v)')
      BY <2>5, <3>1, RequestsAdded
    <3>3. Expects(w)'
      BY <2>5, <3>1, RequestsAdded
    <3> QED
      BY <2>1, <2>2, <2>3, <2>5, <3>2, <3>3 DEF RequestInv
  <2> QED
    BY <2>1, <2>4, <2>5
<1>6. CASE GetBuffer(w)
  <2>1. UNCHANGED <<listVars, pending, redraw, server, wanted, queue, cb>>
    BY <1>6 DEF GetBuffer, appVars
  <2>2. \A v \in Window : (Expects(v) => Expects(v)') /\ (Completes(v) => Completes(v)')
    BY <2>1 DEF Expects, Completes
  <2> QED
    BY <2>1, <2>2, AliveSame, RequestSame
<1>7. CASE ApplyBuffer(w)
  <2>1. /\ pending' = [pending EXCEPT ![w] = TRUE] /\ w \in Alive
        /\ IF pending[w] THEN server' = server
           ELSE server' = [server EXCEPT !.notify = server.notify \cup {w}]
        /\ UNCHANGED <<listVars, redraw, wanted, queue, cb>>
    BY <1>7, LiveAlive DEF ApplyBuffer, Frame, appVars
  <2>2. server'.notify = IF pending[w] THEN server.notify ELSE server.notify \cup {w}
    BY <2>1 DEF TypeOK, Server
  <2>3. /\ pending'[w] /\ \A v \in Window \ {w} : pending'[v] = pending[v]
        /\ Alive' = Alive /\ Listed' = Listed
    BY <2>1, AliveSame DEF TypeOK
  <2>4. \A v \in Window : (Expects(v) => Expects(v)') /\ (Completes(v) => Completes(v)')
    BY <2>1 DEF Expects, Completes
  <2> QED
    BY <2>1, <2>2, <2>3, <2>4 DEF RequestInv
<1> QED
  BY <1>3, <1>4, <1>5, <1>6, <1>7 DEF AppStep

LEMMA RequestLoop ==
  ASSUME ControlInv, RequestInv, Return \/ Dispatch
  PROVE  RequestInv'
<1> USE DEF ControlInv
<1>1. /\ UNCHANGED <<listVars, pending, queue, server>>
      /\ \A v \in Window : (Expects(v) => Expects(v)') /\ (Completes(v) => Completes(v)')
  BY DEF Return, Dispatch, winVars, Expects, Completes
<1>2. CASE Dispatch
  BY <1>1, <1>2, AliveSame, RequestSame DEF Dispatch, winVars, appVars
<1>3. CASE Return
  <2>1. cb.win \in Window /\ cb.then \in {"end", "pressed", "expose"}
    BY <1>3, NoCbType DEF Return, CallbackInv, TypeOK, Callback
  <2>2. \A v \in Window : cb = Call("resize", v, "expose") => v = cb.win /\ cb.then = "expose"
    BY DEF Call
  <2>3. CASE cb.then = "expose" /\ Live(cb.win)
    <3>1. DrawOrPostpone(cb.win)
      BY <1>3, <2>3 DEF Return
    <3> QED
      BY <1>1, <2>1, <2>2, <3>1, RequestDraws
  <2>4. CASE cb.then # "expose"
    <3>1. UNCHANGED <<redraw, wanted>>
      BY <1>3, <2>1, <2>4 DEF Return
    <3> QED
      BY <1>1, <2>2, <2>4, <3>1, AliveSame, RequestSame
  <2>5. CASE cb.then = "expose" /\ ~Live(cb.win)
    <3>1. UNCHANGED <<redraw, wanted, cb>>
      BY <1>3, <2>5 DEF Return
    <3> QED
      BY <1>1, <3>1, AliveSame, RequestSame
  <2> QED
    BY <2>3, <2>4, <2>5
<1> QED
  BY <1>2, <1>3

LEMMA RequestServer ==
  ASSUME ControlInv, RequestInv, NEW w \in Window, ServerStep(w)
  PROVE  RequestInv'
<1> USE DEF ControlInv
<1>1. PICK e \in Event : Send(e)
  BY ServerSends
<1>2. UNCHANGED <<pending, redraw, cb>> /\ Alive' = Alive /\ Listed' = Listed
  BY <1>1, AliveSame DEF Send, winVars
<1>3. \A v \in Window : (Expects(v) => Expects(v)') /\ (Completes(v) => Completes(v)')
  BY <1>1, RequestsAdded DEF Send
<1>4. \A v \in Window : wanted'[v] => wanted[v] \/ (v \in Alive /\ Expects(v)')
  <2>1. CASE UNCHANGED wanted
    BY <2>1
  <2>2. CASE /\ wanted' = [wanted EXCEPT ![w] = TRUE]
             /\ Live(w) /\ Send(Ev("expose", w, 0))
    <3>1. Expects(w)' /\ w \in Alive
      BY <2>2, EventType, RequestsAdded, LiveAlive DEF Send
    <3>2. \A v \in Window : wanted'[v] => v = w \/ wanted[v]
      BY <2>2 DEF TypeOK
    <3> QED
      BY <3>1, <3>2
  <2> QED
    BY <2>1, <2>2, ServerSends
<1>5. \A v \in Window : v \in server.notify => v \in server'.notify \/ Completes(v)'
  <2>1. CASE server'.notify = server.notify
    BY <2>1
  <2>2. CASE server'.notify = server.notify \ {w} /\ Send(Ev("complete", w, TRUE))
    <3>1. Completes(w)'
      BY <2>2, EventType, RequestsAdded DEF Send
    <3> QED
      BY <2>2, <3>1
  <2> QED
    BY <2>1, <2>2, ServerSends
<1> QED
  BY <1>2, <1>3, <1>4, <1>5 DEF RequestInv

LEMMA RequestStep ==
  ASSUME ControlInv, LinkInv, RequestInv, [Next]_vars
  PROVE  RequestInv'
<1>1. CASE UNCHANGED vars
  <2>1. Alive' = Alive /\ Listed' = Listed
    BY <1>1, AliveSame DEF vars
  <2> QED
    BY <1>1, <2>1 DEF vars, winVars, appVars, RequestInv, Expects, Completes
<1> QED
  BY <1>1, RequestHandle, RequestApp, RequestLoop, RequestServer, Steps

\* A draw event that is owed, by win_refresh or by the server, to a window that
\* find_window finds is not forgotten: its expose event waits, or present.redraw
\* is set and a present event will find it, or the expose handler has yet to go on.
THEOREM RequestsKept == Spec => []RequestKept
<1>1. Init => ControlInv /\ LinkInv /\ RequestInv
  BY ControlInit, LinkInit, RequestInit
<1>2. ControlInv /\ LinkInv /\ RequestInv /\ [Next]_vars
        => (ControlInv /\ LinkInv /\ RequestInv)'
  BY ControlStep, LinkStep, RequestStep
<1>3. RequestInv => RequestKept
  BY DEF RequestInv, RequestKept, Kept, Expects, Completes, Listed
<1> QED
  BY <1>1, <1>2, <1>3, PTL DEF Spec

-----------------------------------------------------------------------------
(* Images: swa_convert_image *)

LEMMA LeastNumber ==
  ASSUME NEW S, S \subseteq Nat, S # {}
  PROVE  \E n \in S : \A m \in S : ~ (m < n)
<1>1. \E n \in S : \A m \in S : ~ (<<m, n>> \in OpToRel(<, Nat))
  BY NatLessThanWellFounded, WFMin
<1> QED
  BY <1>1 DEF OpToRel

\* The images swa_convert_image goes through, one for each pixel written.
LEMMA FoldedImage ==
  ASSUME NEW src, NEW dst, NEW N \in Nat, src.width * src.height = N
  PROVE  \E d : /\ d[0] = dst.data
                /\ \A n \in 1 .. N : d[n] = WriteNext(src, dst, d[n - 1], n)
                /\ ConvertImage(src, dst) = [dst EXCEPT !.data = d[N]]
<1> DEFINE numbers == [n \in 1 .. src.width * src.height |-> n]
           Step(h, s) == IF s = {} THEN dst.data
                         ELSE WriteNext(src, dst, h[s \ {Max(s)}], numbers[Max(s)])
           Fold(h, S) == h = [s \in SUBSET S |-> Step(h, s)]
           iter == CHOOSE h : Fold(h, DOMAIN numbers)
           Missing == {k \in 0 .. N : ~ \E h : Fold(h, 1 .. k)}
<1>1. DOMAIN numbers = 1 .. N
  OBVIOUS
<1>2. ConvertImage(src, dst) = [dst EXCEPT !.data = iter[1 .. N]]
  <2>1. ConvertImage(src, dst) = [dst EXCEPT !.data = iter[DOMAIN numbers]]
    BY Zenon DEF ConvertImage, FoldLeft, MapThenFoldSet
  <2> HIDE DEF iter, numbers
  <2> QED
    BY <1>1, <2>1
<1>3. \A n \in Nat \ {0} : Max(1 .. n) = n
  <2> SUFFICES ASSUME NEW n \in Nat \ {0} PROVE Max(1 .. n) = n
    OBVIOUS
  <2>1. n \in 1 .. n /\ \A y \in 1 .. n : n >= y
    OBVIOUS
  <2>2. \A x \in 1 .. n : (\A y \in 1 .. n : x >= y) => x = n
    OBVIOUS
  <2> QED
    BY <2>1, <2>2 DEF Max
<1>4. \E h : Fold(h, 1 .. 0)
  <2> DEFINE h == [s \in SUBSET {} |-> dst.data]
  <2>1. Fold(h, {})
    OBVIOUS
  <2>2. 1 .. 0 = {}
    OBVIOUS
  <2> HIDE DEF h, Fold
  <2> QED
    BY <2>1, <2>2
<1>5. ASSUME NEW k \in 0 .. N, k # N, NEW h, Fold(h, 1 .. k)
      PROVE  \E g : Fold(g, 1 .. k + 1)
  <2> DEFINE g == [s \in SUBSET (1 .. k + 1) |->
                    IF s \subseteq 1 .. k THEN h[s]
                    ELSE WriteNext(src, dst, h[s \ {k + 1}], numbers[k + 1])]
  <2>1. ASSUME NEW s \in SUBSET (1 .. k + 1), s \subseteq 1 .. k
        PROVE  g[s] = Step(g, s)
    <3>1. g[s] = h[s] /\ h[s] = Step(h, s)
      BY <1>5, <2>1
    <3>2. s \ {Max(s)} \subseteq 1 .. k /\ s \ {Max(s)} \in SUBSET (1 .. k + 1)
      BY <2>1
    <3>3. g[s \ {Max(s)}] = h[s \ {Max(s)}]
      BY <3>2
    <3> HIDE DEF g, numbers
    <3> QED
      BY <3>1, <3>3
  <2>2. ASSUME NEW s \in SUBSET (1 .. k + 1), ~ (s \subseteq 1 .. k)
        PROVE  g[s] = Step(g, s)
    <3>1. k + 1 \in s /\ \A x \in s : k + 1 >= x
      BY <2>2
    <3>2. Max(s) = k + 1
      <4>1. \A x \in s : (\A y \in s : x >= y) => x = k + 1
        BY <3>1
      <4> QED
        BY <3>1, <4>1 DEF Max
    <3>3. s \ {k + 1} \subseteq 1 .. k /\ s \ {k + 1} \in SUBSET (1 .. k + 1) /\ s # {}
      BY <3>1
    <3>4. g[s \ {k + 1}] = h[s \ {k + 1}]
      BY <3>3
    <3>5. g[s] = WriteNext(src, dst, h[s \ {k + 1}], numbers[k + 1])
      BY <2>2
    <3> HIDE DEF g, numbers
    <3> QED
      BY <3>2, <3>3, <3>4, <3>5
  <2>3. g = [s \in SUBSET (1 .. k + 1) |-> g[s]]
    OBVIOUS
  <2> HIDE DEF g
  <2>4. g = [s \in SUBSET (1 .. k + 1) |-> Step(g, s)]
    <3> HIDE DEF Step
    <3> QED
      BY <2>1, <2>2, <2>3
  <2> QED
    BY <2>4
<1>6. Missing = {}
  <2> HIDE DEF Fold
  <2> SUFFICES ASSUME Missing # {} PROVE FALSE
    OBVIOUS
  <2>1. PICK k \in Missing : \A m \in Missing : ~ (m < k)
    <3>1. Missing \subseteq Nat
      OBVIOUS
    <3> HIDE DEF Missing
    <3> QED
      BY <3>1, LeastNumber
  <2>2. k # 0
    BY <1>4, <2>1
  <2>3. k - 1 \in 0 .. N /\ k - 1 \notin Missing /\ k - 1 # N /\ (k - 1) + 1 = k
    BY <2>1, <2>2
  <2>4. PICK h : Fold(h, 1 .. k - 1)
    BY <2>3
  <2>5. \E g : Fold(g, 1 .. (k - 1) + 1)
    BY <1>5, <2>3, <2>4
  <2> QED
    BY <2>1, <2>3, <2>5
<1>7. Fold(iter, 1 .. N)
  <2> HIDE DEF Fold, numbers
  <2>1. \E h : Fold(h, DOMAIN numbers)
    BY <1>1, <1>6
  <2> QED
    BY <1>1, <2>1
<1>8. iter[{}] = dst.data
  <2> HIDE DEF iter
  <2> QED
    BY <1>7
<1>9. ASSUME NEW n \in 1 .. N
      PROVE  iter[1 .. n] = WriteNext(src, dst, iter[1 .. n - 1], n)
  <2>1. 1 .. n # {} /\ (1 .. n) \ {n} = 1 .. n - 1 /\ 1 .. n \in SUBSET (1 .. N) /\ numbers[n] = n
    OBVIOUS
  <2>2. iter[1 .. n] = Step(iter, 1 .. n)
    <3> HIDE DEF iter, Step
    <3> QED
      BY <1>7, <2>1
  <2>3. Max(1 .. n) = n
    BY <1>3
  <2> HIDE DEF iter, numbers
  <2> QED
    BY <2>1, <2>2, <2>3
<1> DEFINE d == [n \in 0 .. N |-> iter[1 .. n]]
<1> HIDE DEF iter
<1>10. d[0] = dst.data /\ d[N] = iter[1 .. N]
  <2>1. 1 .. 0 = {}
    OBVIOUS
  <2> QED
    BY <1>8, <2>1
<1>11. \A n \in 1 .. N : d[n] = WriteNext(src, dst, d[n - 1], n)
  <2> SUFFICES ASSUME NEW n \in 1 .. N PROVE d[n] = WriteNext(src, dst, d[n - 1], n)
    OBVIOUS
  <2>1. n \in 0 .. N /\ n - 1 \in 0 .. N
    OBVIOUS
  <2>2. d[n] = iter[1 .. n] /\ d[n - 1] = iter[1 .. n - 1]
    BY <2>1
  <2> HIDE DEF d
  <2> QED
    BY <1>9, <2>2
<1> HIDE DEF d
<1> QED
  BY <1>2, <1>10, <1>11

\* An image whose rows are apart, with room for all of them.
IsImage(img) ==
  /\ img \in [width : Nat, height : Nat, format : Formats, stride : Nat,
              data : UNION {[0 .. n - 1 -> 0 .. 255] : n \in Nat}]
  /\ DOMAIN img.data = 0 .. img.height * img.stride - 1
  /\ img.width * FormatSize(img.format) <= img.stride

LEMMA FormatNames ==
  Formats = {"rgba32", "argb32", "xrgb32", "abgr32", "bgra32", "bgrx32", "rgb24", "bgr24", "a8"}
  BY DEF Formats, WriteOrder

LEMMA PixelSizes ==
  ASSUME NEW f \in Formats
  PROVE  /\ FormatSize(f) \in {1, 3, 4}
         /\ Len(WriteOrder[f]) \in Nat
         /\ FormatSize(f) <= Len(WriteOrder[f])
<1>1. FormatSize(f) \in {1, 3, 4}
  BY FormatNames DEF FormatSize
<1>2. Len(WriteOrder[f]) = IF f = "a8" THEN 1 ELSE 4
  <2> DEFINE order == WriteOrder[f]
  <2>1. f = "a8" => order = <<"a">>
    BY DEF WriteOrder
  <2>2. f # "a8" => \E a, b, c, d : order = <<a, b, c, d>>
    BY FormatNames DEF WriteOrder
  <2> HIDE DEF order
  <2>3. Len(order) = IF f = "a8" THEN 1 ELSE 4
    BY <2>1, <2>2
  <2> QED
    BY <2>3 DEF order
<1>3. f # "a8" => FormatSize(f) <= 4
  BY <1>1
<1>4. f = "a8" => FormatSize(f) = 1
  BY DEF FormatSize
<1> QED
  BY <1>1, <1>2, <1>3, <1>4

LEMMA Product ==
  ASSUME NEW a \in Nat, NEW b \in Nat, NEW c \in Nat, a <= b
  PROVE  /\ a * c <= b * c /\ c * a <= c * b /\ a * c \in Nat /\ c * a = a * c
         /\ (b + 1) * c = b * c + c
  BY SMT

LEMMA Division ==
  ASSUME NEW w \in Nat, NEW h \in Nat, NEW n \in 1 .. w * h
  PROVE  /\ w # 0
         /\ (n - 1) % w \in 0 .. w - 1
         /\ (n - 1) \div w \in 0 .. h - 1
         /\ n - 1 = w * ((n - 1) \div w) + ((n - 1) % w)
<1>1. w # 0 /\ w * h \in Nat
  BY SMT
<1> DEFINE x == (n - 1) % w
           y == (n - 1) \div w
<1>2. x \in 0 .. w - 1
  BY <1>1
<1>3. y \in Int /\ n - 1 = w * y + x
  BY <1>1
<1> HIDE DEF x, y
<1>4. y >= 0
  BY <1>1, <1>2, <1>3
<1>5. y < h
  BY <1>1, <1>2, <1>3
<1>6. y \in 0 .. h - 1
  BY <1>3, <1>4, <1>5
<1>7. w # 0 /\ x \in 0 .. w - 1 /\ y \in 0 .. h - 1 /\ n - 1 = w * y + x
  BY <1>1, <1>2, <1>3, <1>6
<1> QED
  BY <1>7 DEF x, y

\* The pixels of an image are in it, one after the other.
LEMMA PixelsApart ==
  ASSUME NEW img, IsImage(img), NEW m \in 1 .. img.width * img.height
  PROVE  /\ Pixels(img)[m] \in Nat
         /\ \A i \in 1 .. FormatSize(img.format) : Pixels(img)[m] + i - 1 \in DOMAIN img.data
         /\ \A n \in 1 .. m - 1 : Pixels(img)[n] + FormatSize(img.format) <= Pixels(img)[m]
<1> DEFINE w == img.width
           h == img.height
           span == FormatSize(img.format)
           X(n) == (n - 1) % w
           Y(n) == (n - 1) \div w
           At(n) == Y(n) * img.stride + X(n) * span
<1>1. w \in Nat /\ h \in Nat /\ img.stride \in Nat /\ w * span <= img.stride
  BY DEF IsImage
<1>2. span \in {1, 3, 4} /\ w * h \in Nat
  BY <1>1, PixelSizes DEF IsImage
<1>3. \A n \in 1 .. w * h : Pixels(img)[n] = At(n)
  BY DEF Pixels
<1> HIDE DEF w, h, span
<1>4. \A n \in 1 .. w * h :
        w # 0 /\ X(n) \in 0 .. w - 1 /\ Y(n) \in 0 .. h - 1 /\ n - 1 = w * Y(n) + X(n)
  BY <1>1, Division
<1> HIDE DEF X, Y
<1>5. ASSUME NEW n \in 1 .. w * h
      PROVE  /\ At(n) \in Nat /\ Y(n) * img.stride <= At(n)
             /\ At(n) + span <= (Y(n) + 1) * img.stride
             /\ (Y(n) + 1) * img.stride <= h * img.stride
  <2>1. X(n) \in Nat /\ Y(n) \in Nat /\ X(n) + 1 <= w /\ Y(n) + 1 <= h
    BY <1>1, <1>4
  <2>2. X(n) * span \in Nat /\ (X(n) + 1) * span = X(n) * span + span
    BY <1>2, <2>1, Product
  <2>3. (X(n) + 1) * span <= w * span
    BY <1>1, <1>2, <2>1, Product
  <2>4. Y(n) * img.stride \in Nat /\ (Y(n) + 1) * img.stride = Y(n) * img.stride + img.stride
    BY <1>1, <2>1, Product
  <2>5. (Y(n) + 1) * img.stride <= h * img.stride
    BY <1>1, <2>1, Product
  <2> QED
    BY <1>1, <1>2, <2>2, <2>3, <2>4, <2>5
<1>6. ASSUME NEW n \in 1 .. w * h, NEW k \in 1 .. w * h, n < k
      PROVE  At(n) + span <= At(k)
  <2>1. X(n) \in Nat /\ Y(n) \in Nat /\ X(k) \in Nat /\ Y(k) \in Nat
    BY <1>1, <1>4
  <2>2. CASE Y(n) < Y(k)
    <3>1. (Y(n) + 1) * img.stride <= Y(k) * img.stride /\ Y(k) * img.stride \in Nat
      BY <1>1, <2>1, <2>2, Product
    <3>2. At(n) \in Nat /\ At(k) \in Nat /\ (Y(n) + 1) * img.stride \in Nat
          /\ At(n) + span <= (Y(n) + 1) * img.stride /\ Y(k) * img.stride <= At(k)
      BY <1>1, <1>5, <2>1, Product
    <3> HIDE DEF At
    <3> QED
      BY <1>2, <3>1, <3>2
  <2>3. CASE Y(n) = Y(k)
    <3>1. X(n) + 1 <= X(k)
      BY <1>1, <1>4, <1>6, <2>1, <2>3
    <3>2. (X(n) + 1) * span <= X(k) * span /\ (X(n) + 1) * span = X(n) * span + span
          /\ X(n) * span \in Nat
      BY <1>2, <2>1, <3>1, Product
    <3>3. Y(k) * img.stride \in Nat /\ X(k) * span \in Nat
      BY <1>1, <1>2, <2>1, Product
    <3> QED
      BY <1>2, <2>3, <3>2, <3>3
  <2>4. CASE Y(n) > Y(k)
    <3>1. w * (Y(k) + 1) <= w * Y(n) /\ w * (Y(k) + 1) = w * Y(k) + w
      BY <1>1, <2>1, <2>4, Product
    <3>2. w * Y(k) \in Nat /\ w * Y(n) \in Nat
      BY <1>1, <2>1, Product
    <3> QED
      BY <1>1, <1>4, <1>6, <2>1, <3>1, <3>2
  <2> QED
    BY <2>1, <2>2, <2>3, <2>4
<1> HIDE DEF At
<1>7. DOMAIN img.data = 0 .. h * img.stride - 1 /\ h * img.stride \in Nat
  BY <1>1, Product DEF IsImage, h
<1>8. \A i \in 1 .. span : At(m) + i - 1 \in DOMAIN img.data
  <2>1. At(m) \in Nat /\ At(m) + span <= h * img.stride
    <3>1. (Y(m) + 1) * img.stride \in Nat
      BY <1>1, <1>4, Product DEF w, h
    <3> QED
      BY <1>1, <1>2, <1>5, <1>7, <3>1 DEF w, h
  <2> QED
    BY <1>2, <1>7, <2>1
<1>9. \A n \in 1 .. m - 1 : At(n) + span <= At(m)
  <2>1. \A n \in 1 .. m - 1 : n \in 1 .. w * h /\ n < m
    BY <1>2 DEF w, h
  <2> QED
    BY <1>6, <2>1 DEF w, h
<1> QED
  BY <1>2, <1>3, <1>5, <1>8, <1>9 DEF w, h, span

\* swa_convert_image stores every pixel of the source in its place: what it writes
\* past a pixel of 24 bits is overwritten by the next one, or lies behind the last.
LEMMA PixelsWritten ==
  ASSUME NEW src, NEW dst, IsImage(dst), src.width = dst.width, src.height = dst.height
  PROVE  LET img == ConvertImage(src, dst) IN
         /\ DOMAIN dst.data \subseteq DOMAIN img.data
         /\ img.width = dst.width /\ img.height = dst.height
         /\ img.stride = dst.stride /\ img.format = dst.format
         /\ \A n \in 1 .. dst.width * dst.height, i \in 1 .. FormatSize(dst.format) :
              img.data[Pixels(dst)[n] + i - 1] = WritePixel(dst.format, PixelAt(src, n))[i]
<1> DEFINE N == dst.width * dst.height
           f == dst.format
           span == FormatSize(f)
           at == Pixels(dst)
           Bytes(n) == WritePixel(f, PixelAt(src, n))
<1>1. N \in Nat /\ f \in Formats /\ span \in {1, 3, 4}
      /\ \A p : DOMAIN WritePixel(f, p) = 1 .. Len(WriteOrder[f])
      /\ Len(WriteOrder[f]) \in Nat /\ span <= Len(WriteOrder[f])
  <2>1. dst.width \in Nat /\ dst.height \in Nat /\ f \in Formats
    BY DEF IsImage
  <2>2. N \in Nat
    BY <2>1
  <2>3. \A p : DOMAIN WritePixel(f, p) = 1 .. Len(WriteOrder[f])
    BY DEF WritePixel
  <2> QED
    BY <2>1, <2>2, <2>3, PixelSizes
<1>2. \A n \in 1 .. N : at[n] \in Nat /\ \A i \in 1 .. span : at[n] + i - 1 \in DOMAIN dst.data
  BY PixelsApart
<1>3. \A n \in 1 .. N : \A m \in 1 .. n - 1 : at[m] + span <= at[n]
  BY PixelsApart
<1>4. DOMAIN dst.data \subseteq Nat
  BY DEF IsImage
<1>5. PICK d : /\ d[0] = dst.data
               /\ \A n \in 1 .. N : d[n] = WriteNext(src, dst, d[n - 1], n)
               /\ ConvertImage(src, dst) = [dst EXCEPT !.data = d[N]]
  <2>1. src.width * src.height = N
    OBVIOUS
  <2> HIDE DEF N
  <2> QED
    BY <1>1, <2>1, FoldedImage
<1> DEFINE Done(k) == /\ DOMAIN dst.data \subseteq DOMAIN d[k]
                      /\ \A n \in 1 .. k, i \in 1 .. span : d[k][at[n] + i - 1] = Bytes(n)[i]
<1>6. Done(0)
  BY <1>5
<1>7. ASSUME NEW k \in 1 .. N, Done(k - 1) PROVE Done(k)
  <2>1. d[k] = [i \in DOMAIN d[k - 1] \cup {at[k] + j - 1 : j \in DOMAIN Bytes(k)} |->
                  IF i - at[k] + 1 \in DOMAIN Bytes(k) THEN Bytes(k)[i - at[k] + 1] ELSE d[k - 1][i]]
    BY <1>5 DEF WriteNext
  <2> HIDE DEF at, Bytes, f, span
  <2>2. DOMAIN dst.data \subseteq DOMAIN d[k]
    BY <1>7, <2>1
  <2>3. ASSUME NEW i \in 1 .. span PROVE d[k][at[k] + i - 1] = Bytes(k)[i]
    <3>1. at[k] \in Nat /\ at[k] + i - 1 \in DOMAIN dst.data
      BY <1>2
    <3>2. at[k] + i - 1 - at[k] + 1 = i
      BY <1>1, <3>1
    <3>3. i \in DOMAIN Bytes(k)
      BY <1>1 DEF Bytes
    <3> QED
      BY <1>7, <2>1, <3>1, <3>2, <3>3
  <2>4. ASSUME NEW n \in 1 .. k - 1, NEW i \in 1 .. span
        PROVE  d[k][at[n] + i - 1] = Bytes(n)[i]
    <3>1. at[n] \in Nat /\ at[k] \in Nat /\ at[n] + i - 1 \in DOMAIN dst.data
          /\ at[n] + span <= at[k]
      BY <1>1, <1>2, <1>3
    <3>2. at[n] + i - 1 - at[k] + 1 <= 0
      <4>1. i \in Int /\ i <= span /\ span \in Int
        BY <1>1
      <4> QED
        BY <3>1, <4>1
    <3>3. at[n] + i - 1 - at[k] + 1 \notin DOMAIN Bytes(k)
      BY <1>1, <3>2 DEF Bytes
    <3> QED
      BY <1>7, <2>1, <3>1, <3>3
  <2>5. \A n \in 1 .. k : n \in 1 .. k - 1 \/ n = k
    BY <1>1
  <2> QED
    BY <2>2, <2>3, <2>4, <2>5
<1>8. Done(N)
  <2> HIDE DEF Done, N
  <2> DEFINE Left == {k \in 0 .. N : ~ Done(k)}
  <2>1. ASSUME Left # {} PROVE FALSE
    <3>1. PICK k \in Left : \A m \in Left : ~ (m < k)
      <4>1. Left \subseteq Nat
        BY <1>1
      <4> HIDE DEF Left
      <4> QED
        BY <2>1, <4>1, LeastNumber
    <3>2. k # 0 /\ k \in 0 .. N
      BY <1>6, <3>1
    <3>3. k \in 1 .. N /\ k - 1 \in 0 .. N /\ k - 1 < k
      BY <1>1, <3>2
    <3>4. Done(k - 1)
      BY <3>1, <3>3
    <3> QED
      BY <1>7, <3>1, <3>3, <3>4
  <2> QED
    BY <1>1, <2>1
<1>9. dst \in [width : Nat, height : Nat, format : Formats, stride : Nat,
              data : UNION {[0 .. n - 1 -> 0 .. 255] : n \in Nat}]
  BY DEF IsImage
<1> DEFINE img == ConvertImage(src, dst)
<1>10. /\ img.data = d[N] /\ img.width = dst.width /\ img.height = dst.height
       /\ img.stride = dst.stride /\ img.format = dst.format
  BY <1>5, <1>9
<1> HIDE DEF img
<1> QED
  BY <1>8, <1>10 DEF img

\* The formats with a byte for alpha among the bytes of the colours.
WithAlpha == {"rgba32", "argb32", "abgr32", "bgra32"}

\* swa_read_pixel takes each channel from where swa_write_pixel put it.
LEMMA PixelKept ==
  ASSUME NEW f \in Formats, NEW p, NEW bytes,
         \A i \in 1 .. FormatSize(f) : bytes[i] = WritePixel(f, p)[i]
  PROVE  LET q == ReadPixel(f, bytes) IN
         IF f = "a8" THEN \A c \in Channels : q[c] = p.a
         ELSE /\ q.r = p.r /\ q.g = p.g /\ q.b = p.b
              /\ q.a = IF f \in WithAlpha THEN p.a ELSE 255
<1> DEFINE order == WriteOrder[f]
           from == ReadFrom[f]
           written(i) == IF order[i] = "x" THEN 255 ELSE p[order[i]]
           read(k) == IF k = 0 THEN 255 ELSE bytes[k]
           q == ReadPixel(f, bytes)
<1>1. /\ FormatSize(f) = IF f \in {"rgb24", "bgr24"} THEN 3 ELSE IF f = "a8" THEN 1 ELSE 4
      /\ FormatSize(f) <= Len(order) /\ Len(order) \in Nat
  BY PixelSizes DEF FormatSize
<1>2. \A i \in 1 .. FormatSize(f) : bytes[i] = written(i)
  <2>1. WritePixel(f, p) = [i \in 1 .. Len(order) |-> written(i)]
    BY Zenon DEF WritePixel
  <2>2. \A i \in 1 .. FormatSize(f) : i \in 1 .. Len(order)
    BY <1>1
  <2> HIDE DEF written, order
  <2> QED
    BY <2>1, <2>2
<1>3. q.r = read(from.r) /\ q.g = read(from.g) /\ q.b = read(from.b) /\ q.a = read(from.a)
  BY DEF ReadPixel, Channels
<1> HIDE DEF q
<1>4. CASE f = "a8"
  <2>1. order[1] = "a" /\ from = From(1, 1, 1, 1)
    BY <1>4 DEF WriteOrder, ReadFrom
  <2>2. bytes[1] = p.a
    BY <1>1, <1>2, <1>4, <2>1
  <2>3. q.r = p.a /\ q.g = p.a /\ q.b = p.a /\ q.a = p.a
    BY <1>3, <2>1, <2>2 DEF From
  <2> QED
    BY <1>4, <2>3 DEF Channels, q
<1>5. CASE f \in {"rgb24", "bgr24"}
  <2>1. \E a, b : order = <<a, "g", b, "x">> /\ <<a, b>> = (IF f = "rgb24" THEN <<"r", "b">> ELSE <<"b", "r">>)
    BY <1>5 DEF WriteOrder
  <2>2. from = IF f = "rgb24" THEN From(1, 2, 3, 0) ELSE From(3, 2, 1, 0)
    BY <1>5 DEF ReadFrom
  <2>3. bytes[1] = written(1) /\ bytes[2] = written(2) /\ bytes[3] = written(3)
    BY <1>1, <1>2, <1>5
  <2> HIDE DEF order, from
  <2> QED
    BY <1>3, <1>5, <2>1, <2>2, <2>3 DEF From, q, WithAlpha
<1>6. CASE f \in {"rgba32", "argb32", "xrgb32", "abgr32", "bgra32", "bgrx32"}
  <2>1. bytes[1] = written(1) /\ bytes[2] = written(2) /\ bytes[3] = written(3)
        /\ bytes[4] = written(4)
    BY <1>1, <1>2, <1>6
  <2> HIDE DEF q
  <2>2. CASE f = "rgba32"
    <3>1. order = <<"r", "g", "b", "a">> /\ from = From(1, 2, 3, 4)
      BY <2>2 DEF WriteOrder, ReadFrom
    <3> HIDE DEF order, from
    <3> QED
      BY <1>3, <2>1, <2>2, <3>1 DEF From, WithAlpha, q
  <2>3. CASE f = "argb32"
    <3>1. order = <<"a", "r", "g", "b">> /\ from = From(2, 3, 4, 1)
      BY <2>3 DEF WriteOrder, ReadFrom
    <3> HIDE DEF order, from
    <3> QED
      BY <1>3, <2>1, <2>3, <3>1 DEF From, WithAlpha, q
  <2>4. CASE f = "xrgb32"
    <3>1. order = <<"x", "r", "g", "b">> /\ from = From(2, 3, 4, 0)
      BY <2>4 DEF WriteOrder, ReadFrom
    <3> HIDE DEF order, from
    <3> QED
      BY <1>3, <2>1, <2>4, <3>1 DEF From, WithAlpha, q
  <2>5. CASE f = "abgr32"
    <3>1. order = <<"a", "b", "g", "r">> /\ from = From(4, 3, 2, 1)
      BY <2>5 DEF WriteOrder, ReadFrom
    <3> HIDE DEF order, from
    <3> QED
      BY <1>3, <2>1, <2>5, <3>1 DEF From, WithAlpha, q
  <2>6. CASE f = "bgra32"
    <3>1. order = <<"b", "g", "r", "a">> /\ from = From(3, 2, 1, 4)
      BY <2>6 DEF WriteOrder, ReadFrom
    <3> HIDE DEF order, from
    <3> QED
      BY <1>3, <2>1, <2>6, <3>1 DEF From, WithAlpha, q
  <2>7. CASE f = "bgrx32"
    <3>1. order = <<"b", "g", "r", "x">> /\ from = From(3, 2, 1, 0)
      BY <2>7 DEF WriteOrder, ReadFrom
    <3> HIDE DEF order, from
    <3> QED
      BY <1>3, <2>1, <2>7, <3>1 DEF From, WithAlpha, q
  <2> QED
    BY <1>6, <2>2, <2>3, <2>4, <2>5, <2>6, <2>7
<1> QED
  BY <1>4, <1>5, <1>6, FormatNames DEF q

\* swa_convert_image keeps every pixel: the image it fills has, read back, the colours
\* of the source, and its alpha if the format has one; in the format of alpha
\* alone it has the alpha.
THEOREM ImagesConverted ==
  ASSUME NEW src, NEW dst, IsImage(dst), src.width = dst.width, src.height = dst.height,
         NEW n \in 1 .. dst.width * dst.height
  PROVE  LET p == PixelAt(src, n)
             q == PixelAt(ConvertImage(src, dst), n)
         IN IF dst.format = "a8" THEN \A c \in Channels : q[c] = p.a
            ELSE /\ q.r = p.r /\ q.g = p.g /\ q.b = p.b
                 /\ q.a = IF dst.format \in WithAlpha THEN p.a ELSE 255
<1> DEFINE img == ConvertImage(src, dst)
           f == dst.format
           bytes == [i \in 1 .. FormatSize(f) |-> img.data[Pixels(dst)[n] + i - 1]]
<1>1. /\ img.width = dst.width /\ img.height = dst.height
      /\ img.stride = dst.stride /\ img.format = f
      /\ \A i \in 1 .. FormatSize(f) :
           img.data[Pixels(dst)[n] + i - 1] = WritePixel(f, PixelAt(src, n))[i]
  <2> HIDE DEF f
  <2>1. /\ img.width = dst.width /\ img.height = dst.height
        /\ img.stride = dst.stride /\ img.format = dst.format
        /\ \A m \in 1 .. dst.width * dst.height, i \in 1 .. FormatSize(dst.format) :
             img.data[Pixels(dst)[m] + i - 1] = WritePixel(dst.format, PixelAt(src, m))[i]
    BY PixelsWritten
  <2> QED
    BY <2>1 DEF f
<1> HIDE DEF img
<1>2. Pixels(img) = Pixels(dst)
  BY <1>1 DEF Pixels
<1>3. PixelAt(img, n) = ReadPixel(f, bytes)
  BY <1>1, <1>2 DEF PixelAt
<1>4. \A i \in 1 .. FormatSize(f) : bytes[i] = WritePixel(f, PixelAt(src, n))[i]
  BY <1>1
<1>5. f \in Formats
  BY DEF IsImage
<1> DEFINE p == PixelAt(src, n)
           q == PixelAt(img, n)
<1> HIDE DEF bytes, f, p
<1>6. IF f = "a8" THEN \A c \in Channels : q[c] = p.a
      ELSE /\ q.r = p.r /\ q.g = p.g /\ q.b = p.b
           /\ q.a = IF f \in WithAlpha THEN p.a ELSE 255
  <2>1. \A i \in 1 .. FormatSize(f) : bytes[i] = WritePixel(f, p)[i]
    BY <1>4 DEF p
  <2> QED
    BY <1>3, <1>5, <2>1, PixelKept
<1> QED
  BY <1>6 DEF f, p, img

-----------------------------------------------------------------------------
(* Visuals and their formats *)

LEMMA Reversals ==
  /\ Reversed("rgba32") = "abgr32" /\ Reversed("bgra32") = "argb32"
  /\ Reversed("argb32") = "bgra32" /\ Reversed("bgrx32") = "xrgb32"
  /\ Reversed("xrgb32") = "bgrx32"
  /\ Reversed("rgb24") = "bgr24" /\ Reversed("bgr24") = "rgb24"
<1> DEFINE pairs == {{"rgba32", "abgr32"}, {"argb32", "bgra32"}, {"xrgb32", "bgrx32"},
                     {"rgb24", "bgr24"}}
<1>1. ASSUME NEW f \in Formats, NEW h \in Formats, {f, h} \in pairs, f # h
      PROVE  Reversed(f) = h
  <2>1. \E p \in pairs : f \in p
    BY <1>1
  <2>2. \A g \in Formats \ {f} : {f, g} \in pairs => g = h
    BY <1>1, FormatNames
  <2>3. Reversed(f) = CHOOSE g \in Formats \ {f} : {f, g} \in pairs
    BY <2>1 DEF Reversed
  <2> HIDE DEF pairs
  <2> QED
    BY <1>1, <2>2, <2>3
<1> QED
  BY <1>1, FormatNames

LEMMA ByteOrders ==
  /\ WriteOrder["abgr32"] = <<"a", "b", "g", "r">> /\ WriteOrder["argb32"] = <<"a", "r", "g", "b">>
  /\ WriteOrder["bgra32"] = <<"b", "g", "r", "a">> /\ WriteOrder["xrgb32"] = <<"x", "r", "g", "b">>
  /\ WriteOrder["bgrx32"] = <<"b", "g", "r", "x">>
  BY DEF WriteOrder

\* A format found for a visual has each colour in the byte that the visual's mask reads
\* on a little endian machine, and alpha if the depth is that of a transparent window.
LEMMA FormatShown ==
  ASSUME NEW v, NEW depth, NEW bpp,
         bpp = 24 => 1 \notin {v.masks.r, v.masks.g, v.masks.b},
         VisualToFormat(v, depth, bpp) # "none"
  PROVE  LET f == VisualToFormat(v, depth, bpp) IN
         /\ f \in Formats /\ f # "a8" /\ FormatSize(f) = 4
         /\ \A c \in {"r", "g", "b"} :
              v.masks[c] \in 1 .. 4 /\ WriteOrder[f][5 - v.masks[c]] = c
         /\ depth = 32 => f \in WithAlpha
<1> DEFINE fits == {e \in WordFormats :
                      e.bpp = bpp /\ e.masks = v.masks /\ e.a = AlphaMask(v, depth)}
           f == VisualToFormat(v, depth, bpp)
<1>1. PICK e \in fits : f = Reversed(e.format)
  <2>1. fits # {} /\ f = Reversed((CHOOSE e \in fits : TRUE).format)
    BY DEF VisualToFormat, ToggleByteWord
  <2> QED
    BY <2>1
<1> HIDE DEF f
<1>2. e \in {Entry(32, 1, 2, 3, 4, "rgba32"), Entry(32, 3, 2, 1, 4, "bgra32"),
             Entry(32, 2, 3, 4, 1, "argb32"), Entry(32, 3, 2, 1, 0, "bgrx32"),
             Entry(32, 2, 3, 4, 0, "xrgb32")}
  <2>1. e.bpp = 24 => e.masks.r # 1 /\ e.masks.b # 1
    BY <1>1
  <2>2. e \in WordFormats
    BY <1>1
  <2> QED
    BY <2>1, <2>2 DEF WordFormats, Entry, Masks
<1>3. depth = 32 => e.a # 0
  <2>1. SUFFICES ASSUME depth = 32 PROVE e.a # 0
    OBVIOUS
  <2> DEFINE left == (1 .. 4) \ {v.masks.r, v.masks.g, v.masks.b}
  <2>2. \E k \in 1 .. 4 : left = {k}
    <3>1. v.masks = Masks(1, 2, 3) \/ v.masks = Masks(3, 2, 1) \/ v.masks = Masks(2, 3, 4)
      BY <1>1, <1>2 DEF Entry
    <3>2. left = {4} \/ left = {1}
      BY <3>1 DEF Masks
    <3> QED
      BY <3>2
  <2>3. Cardinality(left) = 1
    BY <2>2, FS_Singleton
  <2>4. e.a = CHOOSE k \in left : TRUE
    BY <1>1, <2>1, <2>3 DEF AlphaMask
  <2> QED
    BY <2>2, <2>4
<1> DEFINE Right == /\ f \in Formats /\ f # "a8" /\ FormatSize(f) = 4
                    /\ \A c \in {"r", "g", "b"} :
                         v.masks[c] \in 1 .. 4 /\ WriteOrder[f][5 - v.masks[c]] = c
                    /\ depth = 32 => f \in WithAlpha
<1>4. ASSUME e = Entry(32, 1, 2, 3, 4, "rgba32") PROVE Right
  <2>1. f = "abgr32" /\ v.masks = Masks(1, 2, 3)
    BY <1>1, <1>4, Reversals DEF Entry
  <2>2. f \in Formats /\ f # "a8" /\ FormatSize(f) = 4 /\ (depth = 32 => f \in WithAlpha)
    BY <2>1, FormatNames DEF FormatSize, WithAlpha
  <2>3. \A c \in {"r", "g", "b"} : v.masks[c] \in 1 .. 4 /\ WriteOrder[f][5 - v.masks[c]] = c
    BY <2>1, ByteOrders DEF Masks
  <2> QED
    BY <2>2, <2>3
<1>5. ASSUME e = Entry(32, 3, 2, 1, 4, "bgra32") PROVE Right
  <2>1. f = "argb32" /\ v.masks = Masks(3, 2, 1)
    BY <1>1, <1>5, Reversals DEF Entry
  <2>2. f \in Formats /\ f # "a8" /\ FormatSize(f) = 4 /\ (depth = 32 => f \in WithAlpha)
    BY <2>1, FormatNames DEF FormatSize, WithAlpha
  <2>3. \A c \in {"r", "g", "b"} : v.masks[c] \in 1 .. 4 /\ WriteOrder[f][5 - v.masks[c]] = c
    BY <2>1, ByteOrders DEF Masks
  <2> QED
    BY <2>2, <2>3
<1>6. ASSUME e = Entry(32, 2, 3, 4, 1, "argb32") PROVE Right
  <2>1. f = "bgra32" /\ v.masks = Masks(2, 3, 4)
    BY <1>1, <1>6, Reversals DEF Entry
  <2>2. f \in Formats /\ f # "a8" /\ FormatSize(f) = 4 /\ (depth = 32 => f \in WithAlpha)
    BY <2>1, FormatNames DEF FormatSize, WithAlpha
  <2>3. \A c \in {"r", "g", "b"} : v.masks[c] \in 1 .. 4 /\ WriteOrder[f][5 - v.masks[c]] = c
    BY <2>1, ByteOrders DEF Masks
  <2> QED
    BY <2>2, <2>3
<1>7. ASSUME e = Entry(32, 3, 2, 1, 0, "bgrx32") PROVE Right
  <2>1. f = "xrgb32" /\ v.masks = Masks(3, 2, 1) /\ depth # 32
    BY <1>1, <1>3, <1>7, Reversals DEF Entry
  <2>2. f \in Formats /\ f # "a8" /\ FormatSize(f) = 4 /\ (depth = 32 => f \in WithAlpha)
    BY <2>1, FormatNames DEF FormatSize, WithAlpha
  <2>3. \A c \in {"r", "g", "b"} : v.masks[c] \in 1 .. 4 /\ WriteOrder[f][5 - v.masks[c]] = c
    BY <2>1, ByteOrders DEF Masks
  <2> QED
    BY <2>2, <2>3
<1>8. ASSUME e = Entry(32, 2, 3, 4, 0, "xrgb32") PROVE Right
  <2>1. f = "bgrx32" /\ v.masks = Masks(2, 3, 4) /\ depth # 32
    BY <1>1, <1>3, <1>8, Reversals DEF Entry
  <2>2. f \in Formats /\ f # "a8" /\ FormatSize(f) = 4 /\ (depth = 32 => f \in WithAlpha)
    BY <2>1, FormatNames DEF FormatSize, WithAlpha
  <2>3. \A c \in {"r", "g", "b"} : v.masks[c] \in 1 .. 4 /\ WriteOrder[f][5 - v.masks[c]] = c
    BY <2>1, ByteOrders DEF Masks
  <2> QED
    BY <2>2, <2>3
<1>9. Right
  <2> HIDE DEF Right
  <2> QED
    BY <1>2, <1>4, <1>5, <1>6, <1>7, <1>8
<1> QED
  BY <1>9 DEF f

\* The picture of PictureShown, as swa_read_pixel reads it.
LEMMA PictureRead ==
  ASSUME NEW n \in 1 .. 4
  PROVE  LET p == PixelAt(Picture, n) IN
         p.r = Hue(n).r /\ p.g = Hue(n).g /\ p.b = Hue(n).b /\ p.a = Hue(n).a
<1> DEFINE data == [k \in 0 .. 15 |-> Hue(k \div 4 + 1)[<<"r", "g", "b", "a">>[(k % 4) + 1]]]
           bytes == [i \in 1 .. 4 |-> data[4 * (n - 1) + i - 1]]
<1>1. Picture = [Image("rgba32", 8) EXCEPT !.data = data]
  <2>1. DOMAIN Image("rgba32", 8).data = 0 .. 15
    BY DEF Image
  <2> QED
    BY <2>1 DEF Picture
<1>2. /\ Picture.width = 2 /\ Picture.height = 2 /\ Picture.format = "rgba32"
      /\ Picture.stride = 8 /\ Picture.data = data
  BY <1>1 DEF Image
<1>3. FormatSize("rgba32") = 4 /\ ReadFrom["rgba32"] = From(1, 2, 3, 4)
  BY DEF FormatSize, ReadFrom
<1>4. Pixels(Picture)[n] = 4 * (n - 1)
  <2>1. Pixels(Picture)[n] = ((n - 1) \div 2) * 8 + ((n - 1) % 2) * 4
    BY <1>2, <1>3 DEF Pixels
  <2> QED
    BY <2>1
<1>5. PixelAt(Picture, n) = ReadPixel("rgba32", bytes)
  BY <1>2, <1>3, <1>4 DEF PixelAt
<1>6. ASSUME NEW i \in 1 .. 4 PROVE bytes[i] = Hue(n)[<<"r", "g", "b", "a">>[i]]
  <2>1. 4 * (n - 1) + i - 1 \in 0 .. 15 /\ (4 * (n - 1) + i - 1) \div 4 = n - 1
        /\ (4 * (n - 1) + i - 1) % 4 = i - 1
    OBVIOUS
  <2>2. bytes[i] = Hue((n - 1) + 1)[<<"r", "g", "b", "a">>[(i - 1) + 1]]
    BY <2>1
  <2>3. (n - 1) + 1 = n /\ (i - 1) + 1 = i
    OBVIOUS
  <2> QED
    BY <2>2, <2>3
<1> HIDE DEF bytes
<1>7. /\ bytes[1] = Hue(n)["r"] /\ bytes[2] = Hue(n)["g"]
      /\ bytes[3] = Hue(n)["b"] /\ bytes[4] = Hue(n)["a"]
  BY <1>6
<1> QED
  BY <1>3, <1>5, <1>7 DEF ReadPixel, From, Channels

LEMMA ImageFits ==
  ASSUME NEW f \in Formats
  PROVE  IsImage(Image(f, 12)) /\ Image(f, 12).width = 2 /\ Image(f, 12).height = 2
         /\ Image(f, 12).format = f /\ Image(f, 12).stride = 12
<1> DEFINE img == Image(f, 12)
<1>1. /\ img.width = 2 /\ img.height = 2 /\ img.format = f /\ img.stride = 12
      /\ img.data = [i \in 0 .. 23 |-> 0]
      /\ img = [width |-> 2, height |-> 2, format |-> f, stride |-> 12, data |-> img.data]
  BY DEF Image
<1> HIDE DEF img
<1>2. img.data \in [0 .. 24 - 1 -> 0 .. 255] /\ DOMAIN img.data = 0 .. 2 * 12 - 1
  <2>1. 24 - 1 = 23 /\ 2 * 12 - 1 = 23 /\ 0 \in 0 .. 255
    OBVIOUS
  <2>2. \A S, X, x : x \in X =>
          [i \in S |-> x] \in [S -> X] /\ DOMAIN [i \in S |-> x] = S
    OBVIOUS
  <2>3. img.data \in [0 .. 23 -> 0 .. 255] /\ DOMAIN img.data = 0 .. 23
    BY <1>1, <2>1, <2>2
  <2> QED
    BY <2>1, <2>3
<1>3. img.data \in UNION {[0 .. n - 1 -> 0 .. 255] : n \in Nat}
  BY ZenonT(30), <1>2
<1>4. FormatSize(f) \in {1, 3, 4}
  BY PixelSizes
<1>5. img \in [width : Nat, height : Nat, format : Formats, stride : Nat,
              data : UNION {[0 .. n - 1 -> 0 .. 255] : n \in Nat}]
  <2> DEFINE Data == UNION {[0 .. n - 1 -> 0 .. 255] : n \in Nat}
  <2>1. img.data \in Data
    BY <1>3
  <2> HIDE DEF Data
  <2>2. \A d \in Data : [width |-> 2, height |-> 2, format |-> f, stride |-> 12, data |-> d]
          \in [width : Nat, height : Nat, format : Formats, stride : Nat, data : Data]
    OBVIOUS
  <2>3. img \in [width : Nat, height : Nat, format : Formats, stride : Nat, data : Data]
    BY <1>1, <2>1, <2>2
  <2> QED
    BY <2>3 DEF Data
<1>6. img.width * FormatSize(img.format) <= img.stride
  BY <1>1, <1>4
<1>7. DOMAIN img.data = 0 .. img.height * img.stride - 1
  BY <1>1, <1>2
<1>8. IsImage(img)
  BY <1>5, <1>6, <1>7 DEF IsImage
<1> QED
  BY <1>1, <1>8 DEF img

\* The picture converted to a format found for a visual has its colours on the screen.
LEMMA VisualShows ==
  ASSUME NEW c, NEW bpp,
         bpp = 24 => 1 \notin {c.visual.masks.r, c.visual.masks.g, c.visual.masks.b},
         c.format = VisualToFormat(c.visual, c.depth, bpp), c.format # "none"
  PROVE  Shows(c, c.format)
<1> DEFINE f == c.format
           mask(h) == c.visual.masks[h]
           img == ConvertImage(Picture, Image(f, 12))
<1>1. /\ f \in Formats /\ f # "a8" /\ FormatSize(f) = 4
      /\ \A h \in {"r", "g", "b"} : mask(h) \in 1 .. 4 /\ WriteOrder[f][5 - mask(h)] = h
      /\ c.depth = 32 => f \in WithAlpha
  BY FormatShown
<1>2. Picture.width = 2 /\ Picture.height = 2
  BY DEF Picture, Image
<1> HIDE DEF f
<1>3. /\ IsImage(Image(f, 12)) /\ Image(f, 12).width = 2 /\ Image(f, 12).height = 2
      /\ Image(f, 12).format = f /\ Image(f, 12).stride = 12
  BY <1>1, ImageFits
<1>4. ASSUME NEW n \in 1 .. 4
      PROVE  /\ Seen(c, img, n) = [h \in {"r", "g", "b"} |-> Hue(n)[h]]
             /\ Seen(c, img, n) = [h \in {"r", "g", "b"} |-> PixelAt(img, n)[h]]
             /\ c.depth = 32 => PixelAt(img, n).a = Hue(n).a
  <2> DEFINE p == PixelAt(Picture, n)
             q == PixelAt(img, n)
             at == Pixels(Image(f, 12))[n]
  <2>1. n \in 1 .. 2 * 2
    OBVIOUS
  <2>2. /\ q.r = p.r /\ q.g = p.g /\ q.b = p.b
        /\ q.a = IF f \in WithAlpha THEN p.a ELSE 255
    BY <1>1, <1>2, <1>3, <2>1, ImagesConverted
  <2>3. p.r = Hue(n).r /\ p.g = Hue(n).g /\ p.b = Hue(n).b /\ p.a = Hue(n).a
    BY PictureRead
  <2>4. /\ img.width = 2 /\ img.stride = 12 /\ img.format = f /\ img.height = 2
        /\ \A i \in 1 .. 4 : img.data[at + i - 1] = WritePixel(f, p)[i]
    BY <1>1, <1>2, <1>3, <2>1, PixelsWritten
  <2> HIDE DEF img, p, q
  <2>5. Pixels(img)[n] = at /\ at \in Nat
    <3>1. \A e, g : e.width = g.width /\ e.height = g.height /\ e.stride = g.stride
                    /\ e.format = g.format => Pixels(e) = Pixels(g)
      BY Zenon DEF Pixels
    <3>2. Pixels(img) = Pixels(Image(f, 12))
      BY <1>3, <2>4, <3>1
    <3>3. at \in Nat
      BY <1>3, <2>1, PixelsApart
    <3> QED
      BY <3>2, <3>3
  <2>6. ASSUME NEW h \in {"r", "g", "b"} PROVE Seen(c, img, n)[h] = p[h]
    <3>1. mask(h) \in 1 .. 4 /\ 5 - mask(h) \in 1 .. 4 /\ WriteOrder[f][5 - mask(h)] = h
      BY <1>1
    <3>2. Seen(c, img, n)[h] = img.data[at + 4 - mask(h)]
      BY <2>5 DEF Seen
    <3>3. at + 4 - mask(h) = at + (5 - mask(h)) - 1
      BY <2>5, <3>1
    <3>4. img.data[at + 4 - mask(h)] = WritePixel(f, p)[5 - mask(h)]
      BY <2>4, <3>1, <3>3
    <3>5. 5 - mask(h) \in 1 .. Len(WriteOrder[f])
      BY <1>1, <3>1, PixelSizes
    <3>6. WritePixel(f, p)[5 - mask(h)] = p[h]
      BY <3>1, <3>5 DEF WritePixel
    <3> QED
      BY <3>2, <3>4, <3>6
  <2>7. Seen(c, img, n) = [h \in {"r", "g", "b"} |-> Seen(c, img, n)[h]]
    BY DEF Seen
  <2>8. \A h \in {"r", "g", "b"} : p[h] = Hue(n)[h] /\ p[h] = q[h]
    BY <2>2, <2>3
  <2>9. /\ Seen(c, img, n) = [h \in {"r", "g", "b"} |-> Hue(n)[h]]
        /\ Seen(c, img, n) = [h \in {"r", "g", "b"} |-> q[h]]
    BY <2>6, <2>7, <2>8
  <2>10. c.depth = 32 => q.a = Hue(n).a
    BY <1>1, <2>2, <2>3
  <2> QED
    BY <2>9, <2>10 DEF q
<1> QED
  BY <1>4 DEF Shows, f

-----------------------------------------------------------------------------
(* The visuals of a screen *)

\* What the elements of a flattened sequence are.
LEMMA Flattened ==
  ASSUME NEW X, NEW ss \in Seq(Seq(X))
  PROVE  FlattenSeq(ss) \in Seq(X)
<1> DEFINE Step(f, i) == IF i = 1 THEN ss[i] ELSE f[i - 1] \o ss[i]
           Flat(f, k) == f = [i \in 1 .. k |-> Step(f, i)]
           flatten == CHOOSE f : Flat(f, Len(ss))
           Good(k) == \E f : Flat(f, k) /\ \A i \in 1 .. k : f[i] \in Seq(X)
           Bad == {k \in 0 .. Len(ss) : ~ Good(k)}
<1>1. Len(ss) \in Nat /\ \A i \in 1 .. Len(ss) : ss[i] \in Seq(X)
  OBVIOUS
<1>2. Good(0)
  <2> DEFINE f == [i \in 1 .. 0 |-> ss[i]]
  <2>1. Flat(f, 0)
    OBVIOUS
  <2> HIDE DEF f, Flat
  <2> QED
    BY <2>1
<1>3. ASSUME NEW k \in 0 .. Len(ss), k # Len(ss), Good(k) PROVE Good(k + 1)
  <2>1. PICK f : Flat(f, k) /\ \A i \in 1 .. k : f[i] \in Seq(X)
    BY <1>3
  <2> DEFINE g == [i \in 1 .. k + 1 |-> IF i = k + 1 THEN Step(f, i) ELSE f[i]]
  <2>2. ASSUME NEW i \in 1 .. k + 1 PROVE g[i] = Step(g, i) /\ g[i] \in Seq(X)
    <3>1. CASE i = k + 1
      <4>1. g[i] = Step(f, i)
        BY <3>1
      <4>2. i # 1 => i - 1 \in 1 .. k /\ g[i - 1] = f[i - 1]
        BY <3>1
      <4>3. ss[i] \in Seq(X)
        BY <1>1, <1>3, <3>1
      <4> HIDE DEF g
      <4>4. g[i] = Step(g, i)
        BY <4>1, <4>2
      <4>5. i # 1 => f[i - 1] \in Seq(X)
        BY <2>1, <4>2
      <4>6. Step(f, i) \in Seq(X)
        BY <4>3, <4>5
      <4> QED
        BY <4>1, <4>4, <4>6
    <3>2. CASE i # k + 1
      <4>1. i \in 1 .. k /\ g[i] = f[i]
        BY <1>3, <3>2
      <4>2. i # 1 => i - 1 \in 1 .. k /\ g[i - 1] = f[i - 1]
        BY <1>3, <4>1
      <4>3. f[i] = Step(f, i)
        BY <2>1, <4>1
      <4> HIDE DEF g
      <4>4. Step(f, i) = Step(g, i)
        BY <4>2
      <4> HIDE DEF Step
      <4> QED
        BY <2>1, <4>1, <4>3, <4>4
    <3> QED
      BY <3>1, <3>2
  <2>3. g = [i \in 1 .. k + 1 |-> g[i]]
    OBVIOUS
  <2> HIDE DEF g, Step
  <2>4. Flat(g, k + 1)
    BY <2>2, <2>3
  <2> QED
    BY <2>2, <2>4
<1>4. Good(Len(ss))
  <2> HIDE DEF Good
  <2>1. ASSUME Bad # {} PROVE FALSE
    <3>1. PICK k \in Bad : \A m \in Bad : ~ (m < k)
      <4>1. Bad \subseteq Nat
        BY <1>1
      <4> HIDE DEF Bad
      <4> QED
        BY <2>1, <4>1, LeastNumber
    <3>2. k # 0 /\ k \in 0 .. Len(ss)
      BY <1>2, <3>1
    <3>3. k - 1 \in 0 .. Len(ss) /\ k - 1 < k /\ k - 1 # Len(ss) /\ (k - 1) + 1 = k
      BY <1>1, <3>2
    <3>4. Good(k - 1)
      BY <3>1, <3>3
    <3>5. Good((k - 1) + 1)
      BY <1>3, <3>3, <3>4
    <3> QED
      BY <3>1, <3>3, <3>5
  <2> QED
    BY <1>1, <2>1
<1>5. CASE Len(ss) = 0
  <2>1. FlattenSeq(ss) = ss /\ ss = <<>>
    BY <1>5 DEF FlattenSeq
  <2> QED
    BY <2>1
<1>6. CASE Len(ss) # 0
  <2>1. FlattenSeq(ss) = flatten[Len(ss)]
    BY <1>6, Zenon DEF FlattenSeq
  <2>2. PICK f : Flat(f, Len(ss)) /\ \A i \in 1 .. Len(ss) : f[i] \in Seq(X)
    BY <1>4
  <2>3. Flat(flatten, Len(ss))
    <3> HIDE DEF Flat
    <3> QED
      BY <2>2
  <2> HIDE DEF flatten
  <2>4. flatten = [i \in 1 .. Len(ss) |-> Step(flatten, i)]
    BY <2>3
  <2> DEFINE Short == {i \in 1 .. Len(ss) : flatten[i] \notin Seq(X)}
  <2>5. ASSUME Short # {} PROVE FALSE
    <3>1. PICK i \in Short : \A j \in Short : ~ (j < i)
      <4>1. Short \subseteq Nat
        BY <1>1
      <4> HIDE DEF Short
      <4> QED
        BY <2>5, <4>1, LeastNumber
    <3>2. i \in 1 .. Len(ss) /\ ss[i] \in Seq(X)
      BY <1>1, <3>1
    <3>3. flatten[i] = Step(flatten, i)
      <4> HIDE DEF Step
      <4> QED
        BY <2>4, <3>2
    <3>4. i # 1 => i - 1 \in 1 .. Len(ss) /\ i - 1 < i /\ flatten[i - 1] \in Seq(X)
      BY <1>1, <3>1, <3>2
    <3>5. Step(flatten, i) \in Seq(X)
      BY <3>2, <3>4
    <3> HIDE DEF Step
    <3> QED
      BY <3>1, <3>3, <3>5
  <2>6. Len(ss) \in 1 .. Len(ss)
    BY <1>1, <1>6
  <2> QED
    BY <2>1, <2>5, <2>6
<1> QED
  BY <1>5, <1>6

\* The visuals of a screen that find_visual rates.
VisualsOf(screen) ==
  UNION {{[visual |-> screen[d].visuals[i], depth |-> screen[d].depth,
           format |-> VisualToFormat(screen[d].visuals[i], screen[d].depth, screen[d].bpp)] :
            i \in DOMAIN screen[d].visuals} : d \in DOMAIN screen}

LEMMA CandidatesKnown ==
  ASSUME NEW screen \in Seq(DepthType)
  PROVE  Candidates(screen) \in Seq(VisualsOf(screen))
<1> DEFINE Of(d) == [i \in DOMAIN screen[d].visuals |->
                       LET v == screen[d].visuals[i]
                       IN [visual |-> v, depth |-> screen[d].depth,
                           format |-> VisualToFormat(v, screen[d].depth, screen[d].bpp)]]
           all == [d \in DOMAIN screen |-> Of(d)]
<1>1. ASSUME NEW d \in DOMAIN screen PROVE Of(d) \in Seq(VisualsOf(screen))
  <2>1. screen[d].visuals \in Seq(VisualType)
    BY DEF DepthType
  <2>2. Len(screen[d].visuals) \in Nat /\ DOMAIN screen[d].visuals = 1 .. Len(screen[d].visuals)
    BY <2>1
  <2>3. ASSUME NEW i \in DOMAIN screen[d].visuals PROVE Of(d)[i] \in VisualsOf(screen)
    BY DEF VisualsOf
  <2>4. Of(d) \in [1 .. Len(screen[d].visuals) -> VisualsOf(screen)]
    BY <2>2, <2>3
  <2> HIDE DEF Of
  <2> QED
    BY <2>2, <2>4
<1> HIDE DEF Of
<1>2. all \in Seq(Seq(VisualsOf(screen)))
  <2>1. all \in [1 .. Len(screen) -> Seq(VisualsOf(screen))] /\ Len(screen) \in Nat
    BY <1>1
  <2> QED
    BY <2>1
<1>3. Candidates(screen) = FlattenSeq(all)
  BY Zenon DEF Candidates, Of
<1> HIDE DEF all
<1> QED
  BY <1>2, <1>3, Flattened

-----------------------------------------------------------------------------
(* The choice of a visual *)

LEMMA RatesBounded ==
  ASSUME NEW settings, NEW c
  PROVE  Rate(settings, c) \in 1 .. 61
  BY DEF Rate

LEMMA GreatestRate ==
  ASSUME NEW D, D # {}, NEW rate \in [D -> 1 .. 61]
  PROVE  \E i \in D : \A j \in D : rate[j] <= rate[i]
<1> DEFINE Shorts == {61 - rate[i] : i \in D}
<1>1. \A i \in D : rate[i] \in Int /\ rate[i] >= 1 /\ rate[i] <= 61
  OBVIOUS
<1>2. Shorts \subseteq Nat /\ Shorts # {}
  BY <1>1
<1>3. PICK s \in Shorts : \A t \in Shorts : ~ (t < s)
  <2> HIDE DEF Shorts
  <2> QED
    BY <1>2, LeastNumber
<1>4. PICK i \in D : s = 61 - rate[i]
  BY <1>3
<1>5. ASSUME NEW j \in D PROVE rate[j] <= rate[i]
  <2>1. ~ (61 - rate[j] < 61 - rate[i])
    BY <1>3, <1>4
  <2> QED
    BY <1>1, <2>1
<1> QED
  BY <1>5

\* Some visual is rated best, and find_visual stops at one that is perfect, or best.
LEMMA VisualFound ==
  ASSUME NEW settings, NEW screen, NEW X, Candidates(screen) \in Seq(X), Candidates(screen) # <<>>
  PROVE  LET all == Candidates(screen)
             i == FindVisual(settings, screen)
         IN /\ i \in DOMAIN all
            /\ \/ Perfect(settings, all[i])
               \/ \A j \in DOMAIN all : Rate(settings, all[j]) <= Rate(settings, all[i])
<1> DEFINE all == Candidates(screen)
           perfect == {i \in DOMAIN all : Perfect(settings, all[i])}
           best == {i \in DOMAIN all :
                      \A j \in DOMAIN all : Rate(settings, all[j]) <= Rate(settings, all[i])}
           choices == IF perfect # {} THEN perfect ELSE best
           first == CHOOSE i \in choices : \A j \in choices : i <= j
<1>1. DOMAIN all \subseteq Nat /\ DOMAIN all # {}
  <2>1. all \in Seq(X) /\ all # <<>>
    OBVIOUS
  <2> HIDE DEF all
  <2>2. DOMAIN all = 1 .. Len(all) /\ Len(all) \in Nat /\ Len(all) # 0
    BY <2>1
  <2> QED
    BY <2>2
<1>2. FindVisual(settings, screen) = first
  BY Zenon DEF FindVisual
<1>3. best # {}
  <2> DEFINE rate == [i \in DOMAIN all |-> Rate(settings, all[i])]
  <2>1. rate \in [DOMAIN all -> 1 .. 61]
    BY RatesBounded
  <2>2. \A i \in DOMAIN all : rate[i] = Rate(settings, all[i])
    OBVIOUS
  <2> HIDE DEF rate, all
  <2>3. PICK i \in DOMAIN all : \A j \in DOMAIN all : rate[j] <= rate[i]
    BY <1>1, <2>1, GreatestRate
  <2> QED
    BY <2>2, <2>3
<1>4. choices # {} /\ choices \subseteq DOMAIN all
  BY <1>3
<1>5. first \in choices
  <2> HIDE DEF choices, all
  <2>1. choices \subseteq Nat
    BY <1>1, <1>4
  <2>2. PICK i \in choices : \A j \in choices : ~ (j < i)
    BY <1>4, <2>1, LeastNumber
  <2>3. \A j \in choices : i <= j
    BY <2>1, <2>2
  <2> QED
    BY <2>2, <2>3
<1> HIDE DEF first
<1>6. first \in DOMAIN all /\ (Perfect(settings, all[first]) \/ first \in best)
  BY <1>4, <1>5
<1> HIDE DEF all
<1> QED
  BY <1>2, <1>6 DEF all

LEMMA CandidateKnown ==
  ASSUME NEW screen \in Seq(DepthType), NEW j \in DOMAIN Candidates(screen)
  PROVE  LET c == Candidates(screen)[j]
         IN /\ \E bpp \in Nat :
                 /\ bpp = 24 => 1 \notin {c.visual.masks.r, c.visual.masks.g, c.visual.masks.b}
                 /\ c.format = VisualToFormat(c.visual, c.depth, bpp)
            /\ c.format \in Formats \cup {"none"}
<1> DEFINE all == Candidates(screen)
           c == all[j]
<1>1. c \in VisualsOf(screen)
  <2>1. all \in Seq(VisualsOf(screen)) /\ j \in DOMAIN all
    BY CandidatesKnown
  <2> HIDE DEF all
  <2> QED
    BY <2>1
<1> HIDE DEF c
<1>2. PICK d \in DOMAIN screen : \E i \in DOMAIN screen[d].visuals :
        c = [visual |-> screen[d].visuals[i], depth |-> screen[d].depth,
             format |-> VisualToFormat(screen[d].visuals[i], screen[d].depth, screen[d].bpp)]
  BY <1>1 DEF VisualsOf
<1>3. PICK i \in DOMAIN screen[d].visuals :
        c = [visual |-> screen[d].visuals[i], depth |-> screen[d].depth,
             format |-> VisualToFormat(screen[d].visuals[i], screen[d].depth, screen[d].bpp)]
  BY <1>2
<1>4. screen[d] \in DepthType
  OBVIOUS
<1>5. screen[d].bpp \in Nat
      /\ (screen[d].bpp = 24 => 1 \notin {screen[d].visuals[i].masks.r,
                    screen[d].visuals[i].masks.g, screen[d].visuals[i].masks.b})
  BY <1>4 DEF DepthType
<1>6. c.format # "none" => c.format \in Formats
  BY <1>3, <1>5, FormatShown
<1> QED
  BY <1>3, <1>5, <1>6 DEF c

\* A visual that find_visual takes is one of those that fit best what is asked for: the
\* rate of a format asked for outweighs the others, and that of the colours what is left.
LEMMA ChoiceFits ==
  ASSUME NEW l \in DOMAIN Looks,
         Visuals(l)[FindVisual(Looks[l], Looks[l].depths)].format # "none"
  PROVE  /\ FindVisual(Looks[l], Looks[l].depths) \in DOMAIN Visuals(l)
         /\ FindVisual(Looks[l], Looks[l].depths) \in Fitting(l)
<1> DEFINE s == Looks[l]
           all == Visuals(l)
           i == FindVisual(s, s.depths)
           fit == {j \in DOMAIN all : Direct(all[j]) /\ all[j].format # "none"}
           preferred == {j \in fit : all[j].format = s.preferred}
           deep == {j \in fit : s.transparent = (all[j].depth = 32)}
<1>1. /\ i \in DOMAIN all
      /\ \/ Perfect(s, all[i])
         \/ \A j \in DOMAIN all : Rate(s, all[j]) <= Rate(s, all[i])
  <2>1. s.depths \in Seq(DepthType) /\ Candidates(s.depths) # <<>>
    BY LookAssumption
  <2>2. Candidates(s.depths) \in Seq(VisualsOf(s.depths))
    BY <2>1, CandidatesKnown
  <2> HIDE DEF s
  <2> QED
    BY <2>1, <2>2, VisualFound DEF Visuals, s
<1>2. \A j \in DOMAIN all : all[j].format \in Formats \cup {"none"}
  BY LookAssumption, CandidateKnown DEF Visuals
<1>3. /\ fit # {}
      /\ (\E j \in DOMAIN all : all[j].format # "none" /\ all[j].format = s.preferred)
           => preferred # {}
  <2>1. \A F \in {Formats, Formats \cap {s.preferred}} :
          {j \in DOMAIN all : all[j].format \in F} # {}
            => \E j \in {k \in DOMAIN all : all[k].format \in F} : Direct(all[j])
    BY ColourAssumption, Zenon DEF Visuals
  <2> HIDE DEF s, all, i
  <2>2. i \in {j \in DOMAIN all : all[j].format \in Formats}
    BY <1>1, <1>2 DEF all, i, s
  <2>3. fit # {}
    BY <1>2, <2>1, <2>2, FormatNames
  <2>4. ASSUME NEW j \in DOMAIN all, all[j].format # "none", all[j].format = s.preferred
        PROVE  preferred # {}
    <3> DEFINE F == Formats \cap {s.preferred}
    <3>1. j \in {k \in DOMAIN all : all[k].format \in F}
      BY <1>2, <2>4
    <3>2. PICK k \in DOMAIN all : all[k].format \in F /\ Direct(all[k])
      BY <2>1, <3>1
    <3> QED
      BY <2>4, <3>2
  <2> QED
    BY <2>3, <2>4
<1>4. Fitting(l) = IF preferred # {} THEN preferred ELSE IF deep # {} THEN deep ELSE fit
  BY Zenon DEF Fitting
<1>5. all[i].format # "none"
  OBVIOUS
<1> HIDE DEF all, i, s
<1>6. CASE Perfect(s, all[i])
  <2>1. i \in fit /\ i \in deep
    BY <1>1, <1>6 DEF Perfect
  <2>2. preferred # {} => i \in preferred
    BY <1>6, <2>1 DEF Perfect
  <2> QED
    BY <1>1, <1>4, <2>1, <2>2 DEF all, i, s
<1>7. CASE \A j \in DOMAIN all : Rate(s, all[j]) <= Rate(s, all[i])
  <2>1. ASSUME preferred # {} PROVE i \in preferred
    <3>1. PICK j \in preferred : TRUE
      BY <2>1
    <3>2. Rate(s, all[j]) >= 57
      BY <3>1 DEF Rate
    <3>3. Rate(s, all[i]) >= 57
      BY <1>7, <3>1, <3>2, RatesBounded
    <3> QED
      BY <1>1, <3>3 DEF Rate
  <2>2. ASSUME preferred = {} PROVE ~ (all[i].format = s.preferred)
    BY <1>1, <1>3, <1>5, <2>2
  <2>3. ASSUME preferred = {}, deep # {} PROVE i \in deep
    <3>1. PICK j \in deep : TRUE
      BY <2>3
    <3>2. Rate(s, all[j]) >= 29
      BY <3>1 DEF Rate
    <3>3. Rate(s, all[i]) >= 29
      BY <1>7, <3>1, <3>2, RatesBounded
    <3> QED
      BY <1>1, <2>2, <2>3, <3>3 DEF Rate
  <2>4. ASSUME preferred = {} PROVE i \in fit
    <3>1. PICK j \in fit : TRUE
      BY <1>3
    <3>2. Rate(s, all[j]) >= 25
      BY <3>1 DEF Rate
    <3>3. Rate(s, all[i]) >= 25
      BY <1>7, <3>1, <3>2, RatesBounded
    <3> QED
      BY <1>1, <2>2, <2>4, <3>3 DEF Rate
  <2> QED
    BY <1>1, <1>4, <2>1, <2>3, <2>4 DEF all, i, s
<1> QED
  BY <1>1, <1>6, <1>7

-----------------------------------------------------------------------------
(* The picture on the screen *)

\* What a window is created with shows the picture.
LEMMA ChoiceRight ==
  ASSUME look \in DOMAIN Looks, Choice.format # "none"
  PROVE  /\ Choice = [look |-> look, visual |-> Choice.visual, format |-> Choice.format]
         /\ <<Choice, TRUE>> \in Judged
<1> DEFINE Of(l) == [look |-> l, visual |-> FindVisual(Looks[l], Looks[l].depths),
                     format |-> Visuals(l)[FindVisual(Looks[l], Looks[l].depths)].format]
           i == FindVisual(Looks[look], Looks[look].depths)
           c == Visuals(look)[i]
<1>1. Choice = Of(look) /\ Choice \in Chosen
  <2>1. Chosen = {Of(l) : l \in DOMAIN Looks}
    BY Zenon DEF Chosen
  <2>2. \A l : Of(l).look = l
    OBVIOUS
  <2> HIDE DEF Of
  <2>3. Of(look) \in Chosen /\ Of(look).look = look
    BY <2>1, <2>2
  <2>4. \A e \in Chosen : e.look = look => e = Of(look)
    BY <2>1, <2>2
  <2>5. Choice \in Chosen /\ Choice.look = look
    BY <2>3 DEF Choice
  <2> QED
    BY <2>4, <2>5
<1>2. /\ Choice.look = look /\ Choice.visual = i /\ Choice.format = c.format
      /\ Choice = [look |-> look, visual |-> Choice.visual, format |-> Choice.format]
  BY <1>1
<1>3. i \in DOMAIN Visuals(look) /\ i \in Fitting(look)
  BY <1>2, ChoiceFits
<1>4. Shows(c, c.format)
  <2>1. Looks[look].depths \in Seq(DepthType)
    BY LookAssumption
  <2>2. PICK bpp \in Nat :
          /\ bpp = 24 => 1 \notin {c.visual.masks.r, c.visual.masks.g, c.visual.masks.b}
          /\ c.format = VisualToFormat(c.visual, c.depth, bpp)
    BY <1>3, <2>1, CandidateKnown DEF Visuals
  <2>3. c.format # "none"
    BY <1>2
  <2> HIDE DEF c
  <2> QED
    BY <2>2, <2>3, VisualShows
<1> HIDE DEF i, c
<1>5. (Choice.visual \in Fitting(Choice.look)
       /\ Shows(Visuals(Choice.look)[Choice.visual], Choice.format)) = TRUE
  BY <1>2, <1>3, <1>4 DEF c
<1>6. <<Choice, Choice.visual \in Fitting(Choice.look)
                /\ Shows(Visuals(Choice.look)[Choice.visual], Choice.format)>> \in Judged
  BY <1>1, Zenon DEF Judged
<1> QED
  BY <1>2, <1>5, <1>6

\* A window has the visual and the format chosen for the screen, and an image only
\* while it lives.
PictureInv ==
  \A w \in Window :
    /\ status[w] = "live" =>
         visual[w] = Choice.visual /\ format[w] = Choice.format /\ Choice.format # "none"
    /\ buffer[w].active => status[w] = "live"

LEMMA PictureInit == Init => PictureInv
  BY DEF Init, PictureInv, NoBuffer

LEMMA PictureSame ==
  ASSUME PictureInv, UNCHANGED <<status, visual, format, look, buffer>>
  PROVE  PictureInv'
<1>1. Choice' = Choice
  BY DEF Choice
<1> HIDE DEF Choice
<1> QED
  BY <1>1 DEF PictureInv

LEMMA PictureApp ==
  ASSUME ControlInv, PictureInv, NEW w \in Window, AppStep(w)
  PROVE  PictureInv'
<1>1. /\ status \in [Window -> {"unborn", "live", "freed"}] /\ DOMAIN format = Window
      /\ DOMAIN visual = Window
      /\ buffer \in [Window -> [bytes : Nat, room : Nat, active : BOOLEAN]]
  BY DEF ControlInv, TypeOK
<1>2. look' = look
  BY DEF AppStep, CreateWindow, CreateFails, Destroy, Refresh, GetBuffer, ApplyBuffer, winVars,
         lookVars
<1>3. Choice' = Choice
  BY <1>2 DEF Choice
<1> HIDE DEF Choice
<1>4. ASSUME NEW s \in Asked, CreateWindow(w, s) PROVE PictureInv'
  BY <1>1, <1>3, <1>4 DEF CreateWindow, PictureInv
<1>5. CASE CreateFails(w)
  BY <1>1, <1>3, <1>5 DEF CreateFails, PictureInv, winVars, lookVars
<1>6. CASE Destroy(w)
  BY <1>1, <1>3, <1>6 DEF Destroy, PictureInv, NoBuffer
<1>7. CASE Refresh(w)
  BY <1>7, PictureSame DEF Refresh, listVars, lookVars
<1>8. CASE GetBuffer(w)
  <2>1. /\ status[w] = "live" /\ UNCHANGED <<status, visual, format>>
        /\ \A v \in Window \ {w} : buffer'[v] = buffer[v]
    BY <1>1, <1>8 DEF GetBuffer, Live, listVars, lookVars
  <2> QED
    BY <1>3, <2>1 DEF PictureInv
<1>9. CASE ApplyBuffer(w)
  <2>1. /\ status[w] = "live" /\ UNCHANGED <<status, visual, format>>
        /\ \A v \in Window \ {w} : buffer'[v] = buffer[v]
    BY <1>1, <1>9 DEF ApplyBuffer, Live, listVars, lookVars
  <2> QED
    BY <1>3, <2>1 DEF PictureInv
<1> QED
  BY <1>4, <1>5, <1>6, <1>7, <1>8, <1>9 DEF AppStep

LEMMA PictureStep ==
  ASSUME ControlInv, PictureInv, [Next]_vars
  PROVE  PictureInv'
<1>1. CASE UNCHANGED vars
  BY <1>1, PictureSame DEF vars, listVars, winVars, lookVars
<1>2. CASE Handle
  BY <1>2, PictureSame
     DEF Handle, Expose, PresentComplete, Configure, ClientMessage, FocusChange, Crossing,
         Input, KeyPress, KeyRelease, listVars, winVars, lookVars
<1>3. CASE Return \/ Dispatch
  BY <1>3, PictureSame DEF Return, Dispatch, listVars, winVars, lookVars
<1>4. ASSUME NEW w \in Window, ServerStep(w) PROVE PictureInv'
  BY <1>4, PictureSame
     DEF ServerStep, ServerExpose, ServerComplete, ServerForeign, ServerFocus, ServerPoint,
         ServerConfigure, ServerKey, Send, listVars, winVars, lookVars
<1> QED
  BY <1>1, <1>2, <1>3, <1>4, PictureApp, Steps

\* The screen shows the picture that the application converts to the format of its
\* buffer, whatever the screen, and by a visual that fits best what is asked for
\* (visual_to_format, rate_visual and find_visual against swa_convert_image).
THEOREM PicturesShown == Spec => []PictureShown
<1>1. Init => ControlInv /\ PictureInv
  BY ControlInit, PictureInit
<1>2. ControlInv /\ PictureInv /\ [Next]_vars => (ControlInv /\ PictureInv)'
  BY ControlStep, PictureStep
<1>3. ControlInv /\ PictureInv => PictureShown
  <2> SUFFICES ASSUME ControlInv, PictureInv, NEW w \in Window, buffer[w].active
      PROVE  <<[look |-> look, visual |-> visual[w], format |-> format[w]], TRUE>> \in Judged
    BY DEF PictureShown
  <2>1. visual[w] = Choice.visual /\ format[w] = Choice.format /\ Choice.format # "none"
    BY DEF PictureInv
  <2>2. look \in DOMAIN Looks
    BY DEF ControlInv, TypeOK
  <2> QED
    BY <2>1, <2>2, ChoiceRight
<1> QED
  BY <1>1, <1>2, <1>3, PTL DEF Spec

=============================================================================

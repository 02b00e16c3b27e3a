--------------------------- MODULE KmsFlipProofs ---------------------------
(***************************************************************************)
(* Proofs about the KMS windows of KmsFlip, for every set of windows and   *)
(* any number of outputs.                                                  *)
(***************************************************************************)
EXTENDS KmsFlip, TLAPS

-----------------------------------------------------------------------------
(* Facts about queues of completion events *)

InQueue(s, o) == \E i \in 1 .. Len(s) : s[i] = o
Once(s, o) == \A i, j \in 1 .. Len(s) : s[i] = o /\ s[j] = o => i = j

LEMMA QueueTypes ==
  ASSUME NEW S, NEW s \in Seq(S), NEW e \in S
  PROVE  /\ Append(s, e) \in Seq(S)
         /\ s # <<>> => Head(s) \in S /\ Tail(s) \in Seq(S) /\ InQueue(s, Head(s))
  BY DEF InQueue

LEMMA AppendQueue ==
  ASSUME NEW S, NEW s \in Seq(S), NEW e \in S
  PROVE  /\ \A o : InQueue(Append(s, e), o) <=> InQueue(s, o) \/ o = e
         /\ \A o : Once(s, o) /\ (o = e => ~InQueue(s, e)) => Once(Append(s, e), o)
<1>1. /\ Len(Append(s, e)) = Len(s) + 1 /\ Len(s) \in Nat
      /\ \A i \in 1 .. Len(s) : Append(s, e)[i] = s[i]
      /\ Append(s, e)[Len(s) + 1] = e
  OBVIOUS
<1> QED
  BY <1>1 DEF InQueue, Once

LEMMA TailQueue ==
  ASSUME NEW S, NEW s \in Seq(S), s # <<>>
  PROVE  /\ \A o : InQueue(Tail(s), o) => InQueue(s, o)
         /\ \A o : InQueue(s, o) /\ o # Head(s) => InQueue(Tail(s), o)
         /\ \A o : Once(s, o) => Once(Tail(s), o)
         /\ Once(s, Head(s)) => ~InQueue(Tail(s), Head(s))
<1>1. /\ Len(Tail(s)) = Len(s) - 1 /\ Len(s) \in Nat \ {0}
      /\ \A i \in 1 .. Len(s) - 1 : Tail(s)[i] = s[i + 1]
      /\ Head(s) = s[1]
  OBVIOUS
<1>2. ASSUME NEW o, InQueue(Tail(s), o)
      PROVE  \E i \in 2 .. Len(s) : s[i] = o
  <2>1. PICK i \in 1 .. Len(s) - 1 : Tail(s)[i] = o
    BY <1>1, <1>2 DEF InQueue
  <2>2. i + 1 \in 2 .. Len(s) /\ s[i + 1] = o
    BY <1>1, <2>1
  <2> QED
    BY <2>2
<1>3. ASSUME NEW o, InQueue(s, o), o # Head(s) PROVE InQueue(Tail(s), o)
  <2>1. PICK i \in 1 .. Len(s) : s[i] = o
    BY <1>3 DEF InQueue
  <2>2. i - 1 \in 1 .. Len(s) - 1 /\ Tail(s)[i - 1] = o
    BY <1>1, <1>3, <2>1
  <2> QED
    BY <1>1, <2>2 DEF InQueue
<1>4. ASSUME NEW o, Once(s, o) PROVE Once(Tail(s), o)
  <2> SUFFICES ASSUME NEW i \in 1 .. Len(s) - 1, NEW j \in 1 .. Len(s) - 1,
                      Tail(s)[i] = o, Tail(s)[j] = o
               PROVE  i = j
    BY <1>1 DEF Once
  <2>1. /\ i + 1 \in 1 .. Len(s) /\ j + 1 \in 1 .. Len(s)
        /\ s[i + 1] = o /\ s[j + 1] = o
    BY <1>1
  <2>2. i + 1 = j + 1
    BY <1>4, <2>1 DEF Once
  <2> QED
    BY <2>2
<1>5. ASSUME Once(s, Head(s)), InQueue(Tail(s), Head(s)) PROVE FALSE
  <2>1. PICK i \in 2 .. Len(s) : s[i] = Head(s)
    BY <1>2, <1>5
  <2>2. i \in 1 .. Len(s) /\ 1 \in 1 .. Len(s) /\ i # 1 /\ s[1] = Head(s)
    BY <1>1, <2>1
  <2> QED
    BY <1>5, <2>1, <2>2 DEF Once
<1>6. ASSUME NEW o, InQueue(Tail(s), o) PROVE InQueue(s, o)
  BY <1>1, <1>2, <1>6 DEF InQueue
<1> QED
  BY <1>3, <1>4, <1>5, <1>6

-----------------------------------------------------------------------------
(* Types, windows and outputs *)

LEMMA CallType ==
  ASSUME NEW fn \in {"none", "draw", "resize", "focus"}, NEW w \in Window \cup {NoWindow},
         NEW then \in {"end", "deferred", "release", "acquire"}, NEW o \in 0 .. NOutputs
  PROVE  Call(fn, w, then, o) \in Callback
  BY DEF Call, Callback

\* Drawing leaves the callback record as it is, but for one field.
LEMMA DrewType ==
  ASSUME cb \in Callback, NEW w, Drew(w)
  PROVE  /\ cb' \in Callback
         /\ cb'.fn = cb.fn /\ cb'.win = cb.win /\ cb'.then = cb.then /\ cb'.out = cb.out
         /\ cb.win # w => cb' = cb
<1>1. CASE cb.win = w
  <2>1. cb' = [cb EXCEPT !.drew = TRUE]
    BY <1>1 DEF Drew
  <2> QED
    BY <1>1, <2>1 DEF Callback
<1>2. CASE cb.win # w
  BY <1>2 DEF Drew
<1> QED
  BY <1>1, <1>2

\* Deferring a draw event, for the window given or not at all
LEMMA DeferType ==
  ASSUME deferEvents \in [Window -> SUBSET {"draw", "size"}], defer \in [Window -> BOOLEAN],
         NEW w, DeferDraw(w) \/ UNCHANGED deferVars
  PROVE  /\ deferEvents' \in [Window -> SUBSET {"draw", "size"}]
         /\ defer' \in [Window -> BOOLEAN]
<1>1. CASE DeferDraw(w)
  BY <1>1 DEF DeferDraw
<1>2. CASE UNCHANGED deferVars
  BY <1>2 DEF deferVars
<1> QED
  BY <1>1, <1>2

LEMMA PageFlipType ==
  ASSUME TypeOK, NEW w \in Window, NEW b \in Buffers, NEW ok \in BOOLEAN, PageFlip(w, b, ok)
  PROVE  /\ needsModeset' \in [Outputs -> BOOLEAN] /\ moded' \in [Outputs -> BOOLEAN]
         /\ flight' \in [Outputs -> FlipType]
<1>1. Flip(w, b) \in FlipType
  BY DEF Flip, FlipType
<1>2. needsModeset' = [needsModeset EXCEPT ![output[w]] = FALSE]
  BY DEF PageFlip
<1>3. CASE ok
  <2>1. /\ flight' = [flight EXCEPT ![output[w]] = Flip(w, b)]
        /\ moded' = [moded EXCEPT ![output[w]] = TRUE]
    BY <1>3 DEF PageFlip
  <2> QED
    BY <1>1, <1>2, <2>1 DEF TypeOK
<1>4. CASE ~ok
  BY <1>2, <1>4 DEF PageFlip, TypeOK
<1> QED
  BY <1>3, <1>4

\* The rest of a handler finds its window: the loop of sigusr_handler is at an
\* output, and win_handle_deferred goes on with a window that lives.
CallbackInv ==
  /\ cb.fn = "none" => cb = NoCb
  /\ cb.fn # "none" => cb.win \in Window
  /\ cb.then = "deferred" => Live(cb.win)
  /\ cb.then \in {"release", "acquire"} => cb.out \in Outputs

\* Windows that live and outputs point to each other.
OutputInv ==
  /\ \A o \in Outputs : outWindow[o] # NoWindow =>
       Live(outWindow[o]) /\ output[outWindow[o]] = o
  /\ \A w \in Window : Live(w) => output[w] \in Outputs /\ outWindow[output[w]] = w

ControlInv == TypeOK /\ CallbackInv /\ OutputInv

LEMMA ControlInit == Init => ControlInv
<1> SUFFICES ASSUME Init PROVE ControlInv
  OBVIOUS
<1>1. TypeOK
  <2>1. NoCb \in Callback
    BY CallType, OutputAssumption DEF NoCb
  <2>2. NoFlip \in FlipType
    BY DEF NoFlip, Flip, FlipType
  <2>3. /\ flight \in [Outputs -> FlipType] /\ shown \in [Outputs -> FlipType]
        /\ cb \in Callback
    BY <2>1, <2>2 DEF Init
  <2>4. flipEvents \in Seq(Outputs)
    BY DEF Init
  <2> QED
    BY <2>3, <2>4 DEF Init, TypeOK
<1>2. CallbackInv /\ OutputInv
  BY WindowAssumption DEF Init, CallbackInv, OutputInv, NoCb, Call, Live
<1> QED
  BY <1>1, <1>2 DEF ControlInv

\* The application's calls
LEMMA ControlApp ==
  ASSUME ControlInv, NEW w \in Window, App(w)
  PROVE  ControlInv'
<1> USE WindowAssumption, OutputAssumption DEF ControlInv, TypeOK, CallbackInv, OutputInv, Live
<1>1. ASSUME NEW s \in Surfaces, NEW ok \in BOOLEAN, CreateWindow(w, s, ok)
      PROVE  ControlInv'
  <2>1. s \in {"buffer", "gl"}
    BY SurfaceAssumption
  <2>2. TypeOK'
    <3>1. CASE /\ status' = [status EXCEPT ![w] = "freed"]
               /\ UNCHANGED <<outVars, surface, output, deferVars, wanted>>
      BY <1>1, <3>1 DEF CreateWindow, outVars, deferVars, bufVars, kernelVars
    <3>2. ASSUME NEW o \in Free,
                 needsModeset' = [needsModeset EXCEPT ![o] = TRUE],
                 outWindow' = [outWindow EXCEPT ![o] = IF ok THEN w ELSE NoWindow],
                 heirs' = IF ok /\ FlipUnderway(o) THEN heirs \cup {w} ELSE heirs,
                 status' = [status EXCEPT ![w] = IF ok THEN "live" ELSE "freed"],
                 surface' = [surface EXCEPT ![w] = s],
                 output' = [output EXCEPT ![w] = o],
                 deferEvents' = [deferEvents EXCEPT ![w] =
                                   IF ok THEN {"draw", "size"} ELSE {}],
                 defer' = [defer EXCEPT ![w] = ok],
                 wanted' = [wanted EXCEPT ![w] = ok]
          PROVE  TypeOK'
      <4>1. o \in Outputs
        BY DEF Free
      <4>2. deferEvents' \in [Window -> SUBSET {"draw", "size"}]
        BY <3>2
      <4> QED
        BY <1>1, <2>1, <3>2, <4>1, <4>2 DEF CreateWindow, bufVars, kernelVars
    <3> QED
      BY <1>1, <3>1, <3>2 DEF CreateWindow
  <2>3. CallbackInv'
    BY <1>1 DEF CreateWindow, Free, NoCb, Call
  <2>4. OutputInv'
    <3>1. CASE Free = {} /\ status' = [status EXCEPT ![w] = "freed"]
                /\ UNCHANGED <<outVars, surface, output, deferVars, wanted>>
      BY <1>1, <3>1 DEF CreateWindow, outVars
    <3>2. ASSUME NEW o \in Free,
                 outWindow' = [outWindow EXCEPT ![o] = IF ok THEN w ELSE NoWindow],
                 status' = [status EXCEPT ![w] = IF ok THEN "live" ELSE "freed"],
                 output' = [output EXCEPT ![w] = o]
          PROVE  OutputInv'
      <4>1. o \in Outputs /\ outWindow[o] = NoWindow /\ status[w] = "unborn"
        BY <1>1 DEF Free, CreateWindow
      <4> QED
        BY <3>2, <4>1
    <3> QED
      BY <1>1, <3>1, <3>2 DEF CreateWindow
  <2> QED
    BY <2>2, <2>3, <2>4
<1>2. CASE DestroyWindow(w)
  <2>1. TypeOK'
    BY <1>2 DEF DestroyWindow, deferVars, vtVars, kernelVars
  <2>2. CallbackInv'
    BY <1>2 DEF DestroyWindow, NoCb, Call
  <2>3. OutputInv'
    BY <1>2 DEF DestroyWindow
  <2> QED
    BY <2>1, <2>2, <2>3
<1>3. CASE Refresh(w)
  <2>1. TypeOK'
    <3>1. /\ deferEvents' \in [Window -> SUBSET {"draw", "size"}]
          /\ defer' \in [Window -> BOOLEAN]
      BY <1>3, DeferType DEF Refresh
    <3> QED
      BY ZenonT(30), <1>3, <3>1 DEF Refresh, outVars, bufVars, vtVars, kernelVars
  <2>2. CallbackInv' /\ OutputInv'
    BY <1>3 DEF Refresh, outVars, NoCb, Call
  <2> QED
    BY <2>1, <2>2
<1>4. CASE GetBuffer(w)
  <2>1. Unused(w) \in Buffers
    BY <1>4 DEF GetBuffer, Unused, Buffers
  <2>2. TypeOK'
    BY <1>4, <2>1 DEF GetBuffer, outVars, deferVars, vtVars, kernelVars
  <2>3. CallbackInv' /\ OutputInv'
    BY <1>4 DEF GetBuffer, outVars, NoCb, Call
  <2> QED
    BY <2>2, <2>3
<1>5. ASSUME NEW ok \in BOOLEAN, ApplyBuffer(w, ok) \/ SwapBuffers(w, ok)
      PROVE  ControlInv'
  <2>1. PICK b \in Buffers : PageFlip(w, b, ok)
    BY <1>5 DEF ApplyBuffer, SwapBuffers, Live
  <2>2. cb' \in Callback /\ cb'.fn = cb.fn /\ cb'.win = cb.win /\ cb'.then = cb.then
          /\ cb'.out = cb.out
    BY <1>5, DrewType DEF ApplyBuffer, SwapBuffers
  <2>3. cb.fn = "none" => cb' = cb
    BY <1>5, DrewType, WindowAssumption DEF ApplyBuffer, SwapBuffers, NoCb, Call
  <2>5. /\ needsModeset' \in [Outputs -> BOOLEAN] /\ moded' \in [Outputs -> BOOLEAN]
        /\ flight' \in [Outputs -> FlipType]
    BY <2>1, PageFlipType
  <2>6. /\ pending' \in [Window -> Buffers \cup {0}] /\ inUse' \in [Window -> SUBSET Buffers]
        /\ active' \in [Window -> Buffers \cup {0}]
    BY SMTT(30), <1>5 DEF ApplyBuffer, SwapBuffers
  <2>7. /\ UNCHANGED <<outWindow, heirs, status, surface, output, redraw, defer, deferEvents,
                       last>>
        /\ UNCHANGED <<session, master, vt, sig, shown, flipEvents, wanted>>
    BY <1>5 DEF ApplyBuffer, SwapBuffers, deferVars, vtVars
  <2>8. TypeOK'
    BY <2>2, <2>5, <2>6, <2>7
  <2>9. CallbackInv' /\ OutputInv'
    BY <2>2, <2>3, <2>7
  <2> QED
    BY <2>8, <2>9
<1> QED
  BY <1>1, <1>2, <1>3, <1>4, <1>5 DEF App

LEMMA FocusType ==
  ASSUME TypeOK, OutputInv, NEW o \in 0 .. NOutputs, NEW then \in {"release", "acquire"},
         o # 0, FocusFrom(o, then)
  PROVE  /\ cb' \in Callback /\ cb'.fn = "focus" /\ cb'.win \in Window
         /\ cb'.then = then /\ cb'.out \in Outputs
         /\ deferEvents' \in [Window -> SUBSET {"draw", "size"}]
         /\ defer' \in [Window -> BOOLEAN]
<1>1. PICK p \in Windowed(o) :
        /\ cb' = Call("focus", outWindow[p], then, p)
        /\ IF then = "acquire" THEN DeferDraw(outWindow[p]) ELSE UNCHANGED deferVars
  BY DEF FocusFrom
<1>2. p \in Outputs /\ p \in 0 .. NOutputs /\ outWindow[p] \in Window
  BY <1>1, OutputAssumption DEF Windowed, Outputs, TypeOK
<1>3. cb' \in Callback
  BY <1>1, <1>2, CallType
<1>4. /\ deferEvents' \in [Window -> SUBSET {"draw", "size"}]
      /\ defer' \in [Window -> BOOLEAN]
  BY <1>1, DeferType DEF TypeOK
<1> QED
  BY <1>1, <1>2, <1>3, <1>4 DEF Call

\* The second part of win_handle_deferred leaves no callback, or the draw event.
LEMMA DrawType ==
  ASSUME TypeOK, NEW w \in Window, NEW ev \in SUBSET {"draw", "size"}, DeferredDraw(w, ev)
  PROVE  /\ cb' \in Callback /\ cb'.then = "end"
         /\ cb' = NoCb \/ cb' = Call("draw", w, "end", 0)
         /\ deferEvents' \in [Window -> SUBSET {"draw", "size"}]
         /\ wanted' \in [Window -> BOOLEAN]
<1>1. cb' = NoCb \/ cb' = Call("draw", w, "end", 0)
  BY DEF DeferredDraw, DrawEvent
<1>2. cb' \in Callback /\ cb'.then = "end"
  BY <1>1, CallType, OutputAssumption DEF NoCb, Call
<1>3. CASE "draw" \in ev
  <2>1. /\ deferEvents' = [deferEvents EXCEPT ![w] = ev \ {"draw"}]
        /\ wanted' = [wanted EXCEPT ![w] = FALSE]
    BY <1>3 DEF DeferredDraw, DrawEvent
  <2> QED
    BY <1>1, <1>2, <2>1 DEF TypeOK
<1>4. CASE "draw" \notin ev
  <2>1. deferEvents' = [deferEvents EXCEPT ![w] = ev] /\ wanted' = wanted
    BY <1>4 DEF DeferredDraw
  <2> QED
    BY <1>1, <1>2, <2>1 DEF TypeOK
<1> QED
  BY <1>3, <1>4

\* What the signal handler does to the session, and what it leaves alone
LEMMA SessionType ==
  ASSUME TypeOK, Release \/ Acquire
  PROVE  /\ UNCHANGED <<outVars, status, surface, output, redraw, bufVars, kernelVars,
                        wanted>>
         /\ sig' \in BOOLEAN /\ master' \in BOOLEAN
         /\ session' \in {"none", "active", "inactive"}
         /\ vt' \in {"ours", "leaving", "away"}
<1>1. CASE Release
  <2>1. (master' = FALSE /\ Reldisp) \/ UNCHANGED <<master, vt>>
    BY <1>1 DEF Release, Released
  <2>2. sig' = FALSE /\ session' = "inactive"
    BY <1>1 DEF Release
  <2>3. UNCHANGED <<outVars, status, surface, output, redraw, bufVars, kernelVars, wanted>>
    BY <1>1 DEF Release
  <2> QED
    BY <2>1, <2>2, <2>3 DEF Reldisp, TypeOK
<1>2. CASE Acquire
  <2>1. session' = "active" \/ session' = session
    BY <1>2 DEF Acquire
  <2>2. sig' = FALSE /\ master' = TRUE /\ Reldisp
    BY <1>2 DEF Acquire
  <2>3. UNCHANGED <<outVars, status, surface, output, redraw, bufVars, kernelVars, wanted>>
    BY <1>2 DEF Acquire
  <2> QED
    BY <2>1, <2>2, <2>3 DEF Reldisp, TypeOK
<1> QED
  BY <1>1, <1>2

LEMMA ControlHandlers ==
  ASSUME ControlInv,
         \/ \E w \in Window : HandleDeferred(w)
         \/ PageFlipHandler \/ Release \/ Acquire \/ Return
  PROVE  ControlInv'
<1> USE WindowAssumption, OutputAssumption DEF ControlInv, TypeOK, CallbackInv, OutputInv, Live
<1>1. ASSUME NEW w \in Window, HandleDeferred(w) PROVE ControlInv'
  <2>1. CASE "size" \in deferEvents[w]
    <3>1. Call("resize", w, "deferred", 0) \in Callback
      BY CallType
    <3>2. /\ defer' = [defer EXCEPT ![w] = FALSE]
          /\ deferEvents' = [deferEvents EXCEPT ![w] = @ \ {"size"}]
          /\ cb' = Call("resize", w, "deferred", 0) /\ wanted' = wanted
          /\ UNCHANGED <<outVars, status, surface, output, redraw, bufVars, vtVars,
                         kernelVars>>
      BY <1>1, <2>1 DEF HandleDeferred
    <3>3. TypeOK'
      BY <3>1, <3>2 DEF outVars, bufVars, vtVars, kernelVars
    <3>4. CallbackInv' /\ OutputInv'
      BY <1>1, <3>2 DEF HandleDeferred, outVars, Call
    <3> QED
      BY <3>3, <3>4
  <2>2. CASE "size" \notin deferEvents[w]
    <3>1. /\ cb' \in Callback /\ cb'.then = "end"
          /\ cb' = NoCb \/ cb' = Call("draw", w, "end", 0)
          /\ deferEvents' \in [Window -> SUBSET {"draw", "size"}]
          /\ wanted' \in [Window -> BOOLEAN]
      BY <1>1, <2>2, DrawType DEF HandleDeferred
    <3>2. TypeOK'
      BY <1>1, <3>1 DEF HandleDeferred, outVars, bufVars, vtVars, kernelVars
    <3>3. CallbackInv' /\ OutputInv'
      BY <1>1, <3>1 DEF HandleDeferred, outVars, Call, NoCb
    <3> QED
      BY <3>2, <3>3
  <2> QED
    BY <2>1, <2>2
<1>2. CASE PageFlipHandler
  <2> DEFINE w == outWindow[Head(flipEvents)]
  <2>1. Head(flipEvents) \in Outputs /\ flipEvents' \in Seq(Outputs)
    BY <1>2, QueueTypes DEF PageFlipHandler
  <2>2. CASE w = NoWindow
    <3>1. TypeOK'
      BY <1>2, <2>1, <2>2 DEF PageFlipHandler, outVars, deferVars, vtVars, bufVars
    <3>2. CallbackInv' /\ OutputInv'
      BY <1>2, <2>2 DEF PageFlipHandler, outVars
    <3> QED
      BY <3>1, <3>2
  <2>3. CASE w # NoWindow
    <3>1. w \in Window
      BY <2>1, <2>3
    <3>2. Flipped(w) /\ RedrawAfterFlip(w) /\ UNCHANGED active
      BY <1>2, <2>3 DEF PageFlipHandler
    <3>3. cb' = cb \/ cb' = Call("draw", w, "end", 0)
      BY <3>2 DEF RedrawAfterFlip, DrawEvent
    <3>4. cb' \in Callback
      BY <3>1, <3>3, CallType
    <3>5. redraw' \in [Window -> BOOLEAN] /\ wanted' \in [Window -> BOOLEAN]
      <4>1. CASE redraw[w]
        <5>1. /\ redraw' = [redraw EXCEPT ![w] = FALSE]
              /\ wanted' = [wanted EXCEPT ![w] = FALSE]
          BY <3>2, <4>1 DEF RedrawAfterFlip, DrawEvent
        <5> QED
          BY <5>1
      <4>2. CASE ~redraw[w]
        BY <3>2, <4>2 DEF RedrawAfterFlip
      <4> QED
        BY <4>1, <4>2
    <3>6. /\ inUse' \in [Window -> SUBSET Buffers] /\ last' \in [Window -> Buffers \cup {0}]
          /\ pending' \in [Window -> Buffers \cup {0}]
      BY <3>1, <3>2 DEF Flipped, Buffers
    <3>7. TypeOK'
      BY <1>2, <2>1, <3>2, <3>4, <3>5, <3>6 DEF PageFlipHandler, outVars, deferVars, vtVars
    <3>8. CallbackInv' /\ OutputInv'
      BY <1>2, <3>1, <3>3 DEF PageFlipHandler, outVars, Call
    <3> QED
      BY <3>7, <3>8
  <2> QED
    BY <2>2, <2>3
<1>3. CASE Release \/ Acquire
  <2>0. /\ UNCHANGED <<outVars, status, surface, output, redraw, bufVars, kernelVars, wanted>>
        /\ sig' \in BOOLEAN /\ master' \in BOOLEAN
        /\ session' \in {"none", "active", "inactive"} /\ vt' \in {"ours", "leaving", "away"}
    BY <1>3, SessionType
  <2>1. CASE Windowed(1) # {}
    <3>1. PICK then \in {"release", "acquire"} : FocusFrom(1, then)
      BY <1>3, <2>1 DEF Release, Acquire
    <3>2. /\ cb' \in Callback /\ cb'.fn = "focus" /\ cb'.win \in Window
          /\ cb'.then \in {"release", "acquire"} /\ cb'.out \in Outputs
          /\ deferEvents' \in [Window -> SUBSET {"draw", "size"}]
          /\ defer' \in [Window -> BOOLEAN]
      BY <3>1, FocusType
    <3>3. TypeOK'
      BY <2>0, <3>2 DEF outVars, bufVars, kernelVars
    <3>4. CallbackInv' /\ OutputInv'
      BY <2>0, <3>2 DEF outVars
    <3> QED
      BY <3>3, <3>4
  <2>2. CASE Windowed(1) = {}
    <3>1. cb' = cb /\ deferVars' = deferVars
      BY <1>3, <2>2 DEF Release, Acquire
    <3>2. TypeOK'
      BY <2>0, <3>1 DEF outVars, deferVars, bufVars, kernelVars
    <3>3. CallbackInv' /\ OutputInv'
      BY <2>0, <3>1 DEF outVars
    <3> QED
      BY <3>2, <3>3
  <2> QED
    BY <2>1, <2>2
<1>4. CASE Return
  <2> DEFINE
    Ended == /\ cb.then = "end"
             /\ cb' = NoCb
             /\ UNCHANGED <<deferVars, session, master, vt, wanted>>
    Drawing == /\ cb.then = "deferred"
               /\ DeferredDraw(cb.win, deferEvents[cb.win])
               /\ UNCHANGED <<defer, session, master, vt>>
    NextFocus == /\ cb.then \in {"release", "acquire"} /\ Windowed(cb.out + 1) # {}
                 /\ FocusFrom(cb.out + 1, cb.then)
                 /\ UNCHANGED <<session, master, vt, wanted>>
    Switched == /\ cb' = NoCb /\ UNCHANGED <<deferVars, wanted>>
                /\ \/ Released /\ UNCHANGED session
                   \/ session' = "active" /\ UNCHANGED <<master, vt>>
  <2>0. UNCHANGED <<outVars, status, surface, output, redraw, bufVars, kernelVars, sig>>
    BY <1>4 DEF Return
  <2>1. NoCb \in Callback /\ NoCb.then = "end"
    BY CallType DEF NoCb, Call
  <2>2. CASE Ended
    <3>1. TypeOK'
      BY <2>0, <2>1, <2>2 DEF outVars, deferVars, bufVars, kernelVars
    <3>2. CallbackInv' /\ OutputInv'
      BY <2>0, <2>1, <2>2 DEF outVars, NoCb, Call
    <3> QED
      BY <3>1, <3>2
  <2>3. CASE Drawing
    <3>1. cb.win \in Window
      BY <2>3, <1>4 DEF Return, NoCb, Call, Callback
    <3>2. /\ cb' \in Callback /\ cb'.then = "end"
          /\ cb' = NoCb \/ cb' = Call("draw", cb.win, "end", 0)
          /\ deferEvents' \in [Window -> SUBSET {"draw", "size"}]
          /\ wanted' \in [Window -> BOOLEAN]
      BY <2>3, <3>1, DrawType
    <3>3. TypeOK'
      BY <2>0, <2>3, <3>2 DEF outVars, bufVars, kernelVars
    <3>4. CallbackInv' /\ OutputInv'
      BY <2>0, <3>1, <3>2 DEF outVars, NoCb, Call
    <3> QED
      BY <3>3, <3>4
  <2>4. CASE NextFocus
    <3>1. cb.out \in Outputs
      BY <2>4
    <3>2. cb.out + 1 \in 0 .. NOutputs /\ cb.out + 1 # 0
      BY <2>4, <3>1 DEF Windowed, Outputs
    <3>3. /\ cb' \in Callback /\ cb'.fn = "focus" /\ cb'.win \in Window
          /\ cb'.then = cb.then /\ cb'.out \in Outputs
          /\ deferEvents' \in [Window -> SUBSET {"draw", "size"}]
          /\ defer' \in [Window -> BOOLEAN]
      BY <2>4, <3>2, FocusType
    <3>4. TypeOK'
      BY <2>0, <2>4, <3>3 DEF outVars, bufVars, kernelVars
    <3>5. CallbackInv' /\ OutputInv'
      BY <2>0, <2>4, <3>3 DEF outVars
    <3> QED
      BY <3>4, <3>5
  <2>5. CASE Switched
    <3>0. /\ master' \in BOOLEAN /\ vt' \in {"ours", "leaving", "away"}
          /\ session' \in {"none", "active", "inactive"}
      <4>1. CASE Released /\ UNCHANGED session
        BY <4>1 DEF Released, Reldisp
      <4>2. CASE session' = "active" /\ UNCHANGED <<master, vt>>
        BY <4>2
      <4> QED
        BY <2>5, <4>1, <4>2
    <3>1. TypeOK'
      BY <2>0, <2>1, <2>5, <3>0 DEF outVars, deferVars, bufVars, kernelVars
    <3>2. CallbackInv' /\ OutputInv'
      BY <2>0, <2>1, <2>5 DEF outVars, NoCb, Call
    <3> QED
      BY <3>1, <3>2
  <2>6. Ended \/ Drawing \/ NextFocus \/ Switched
    <3> HIDE DEF ControlInv, TypeOK, CallbackInv, OutputInv, Live
    <3> QED
      BY <1>4, Zenon DEF Return
  <2> HIDE DEF Ended, Drawing, NextFocus, Switched, ControlInv
  <2> QED
    BY <2>2, <2>3, <2>4, <2>5, <2>6
<1> QED
  BY <1>1, <1>2, <1>3, <1>4

LEMMA ControlKernel ==
  ASSUME ControlInv, Kernel
  PROVE  ControlInv'
<1> USE DEF ControlInv, TypeOK, CallbackInv, OutputInv, Live
<1>1. ASSUME NEW o \in Outputs, VerticalBlank(o) PROVE ControlInv'
  <2>1. flipEvents' \in Seq(Outputs)
    BY <1>1, QueueTypes DEF VerticalBlank
  <2>2. NoFlip \in FlipType
    BY DEF NoFlip, Flip, FlipType
  <2>3. TypeOK'
    BY <1>1, <2>1, <2>2 DEF VerticalBlank, outVars, deferVars, bufVars, vtVars
  <2>4. CallbackInv' /\ OutputInv'
    BY <1>1 DEF VerticalBlank, outVars
  <2> QED
    BY <2>3, <2>4
<1>2. ASSUME NEW o \in Outputs, OtherMode(o) PROVE ControlInv'
  <2>1. NoFlip \in FlipType
    BY DEF NoFlip, Flip, FlipType
  <2>2. TypeOK'
    BY <1>2, <2>1 DEF OtherMode, outVars, deferVars, bufVars, vtVars
  <2>3. CallbackInv' /\ OutputInv'
    BY <1>2 DEF OtherMode, outVars
  <2> QED
    BY <2>2, <2>3
<1>3. CASE SwitchAway \/ SwitchBack
  <2>0. /\ sig' = TRUE /\ vt' \in {"ours", "leaving", "away"}
        /\ UNCHANGED <<outVars, status, surface, output, redraw, deferVars, bufVars, session,
                       master, cb, kernelVars, wanted>>
    BY <1>3 DEF SwitchAway, SwitchBack
  <2>1. TypeOK'
    BY <2>0 DEF outVars, deferVars, bufVars, kernelVars
  <2>2. CallbackInv' /\ OutputInv'
    BY <1>3 DEF SwitchAway, SwitchBack, outVars
  <2> QED
    BY <2>1, <2>2
<1> QED
  BY <1>1, <1>2, <1>3 DEF Kernel

LEMMA ControlStep ==
  ASSUME ControlInv, [Next]_vars
  PROVE  ControlInv'
<1>1. CASE UNCHANGED vars
  <2>1. TypeOK'
    BY <1>1 DEF ControlInv, TypeOK, vars, outVars, deferVars, bufVars, vtVars, kernelVars
  <2>2. CallbackInv' /\ OutputInv'
    BY <1>1 DEF ControlInv, CallbackInv, OutputInv, Live, vars, outVars
  <2> QED
    BY <2>1, <2>2 DEF ControlInv
<1>2. CASE Next
  BY <1>2, ControlApp, ControlHandlers, ControlKernel DEF Next
<1> QED
  BY <1>1, <1>2

\* The fields have their types, outputs and live windows point to each other,
\* and what a handler does after a callback finds its window or output.
THEOREM TypeCorrect == Spec => [](TypeOK /\ CallbackInv /\ OutputInv)
<1>1. Spec => []ControlInv
  <2>1. ControlInv /\ [Next]_vars => ControlInv'
    BY ControlStep
  <2> QED
    BY ControlInit, <2>1, PTL DEF Spec
<1> QED
  BY <1>1, PTL DEF ControlInv

-----------------------------------------------------------------------------
(* Buffers *)

LEMMA BufferInit == Init => BufferInv
  BY DEF Init, BufferInv

LEMMA BufferApp ==
  ASSUME ControlInv, BufferInv, NEW w \in Window, App(w)
  PROVE  BufferInv'
<1> USE DEF ControlInv, TypeOK, BufferInv, Live
<1>1. ASSUME NEW s \in Surfaces, NEW ok \in BOOLEAN, CreateWindow(w, s, ok)
      PROVE  BufferInv'
  <2>1. UNCHANGED bufVars /\ status[w] = "unborn"
    BY <1>1 DEF CreateWindow
  <2>2. \A v \in Window \ {w} : status'[v] = status[v] /\ surface'[v] = surface[v]
    BY <1>1 DEF CreateWindow
  <2> QED
    BY <2>1, <2>2 DEF bufVars
<1>2. CASE DestroyWindow(w)
  <2>1. \A v \in Window :
          /\ v = w => active'[v] = 0
          /\ v # w => active'[v] = active[v] /\ status'[v] = status[v]
    BY <1>2 DEF DestroyWindow
  <2>2. UNCHANGED <<surface, inUse, pending, last>>
    BY <1>2 DEF DestroyWindow
  <2> QED
    BY <2>1, <2>2
<1>3. CASE Refresh(w)
  BY <1>3 DEF Refresh, bufVars
<1>4. CASE GetBuffer(w)
  <2>1. Unused(w) \in Buffers \ inUse[w]
    <3>1. Buffers \ inUse[w] # {}
      BY <1>4 DEF GetBuffer
    <3>2. \E b \in Buffers \ inUse[w] : \A c \in Buffers \ inUse[w] : b <= c
      BY <3>1 DEF Buffers
    <3> QED
      BY <3>2 DEF Unused
  <2> QED
    BY <1>4, <2>1 DEF GetBuffer, MayDraw
<1>5. ASSUME NEW ok \in BOOLEAN, ApplyBuffer(w, ok) PROVE BufferInv'
  <2>1. /\ active[w] \in Buffers \ inUse[w] /\ pending[w] = 0
        /\ pending' = [pending EXCEPT ![w] = IF ok THEN active[w] ELSE @]
        /\ inUse' = [inUse EXCEPT ![w] = IF ok THEN @ \cup {active[w]} ELSE @]
        /\ active' = [active EXCEPT ![w] = 0]
        /\ UNCHANGED <<status, surface, last>>
    BY <1>5 DEF ApplyBuffer
  <2>2. CASE ok
    BY <2>1, <2>2 DEF Buffers
  <2>3. CASE ~ok
    BY <2>1, <2>3
  <2> QED
    BY <2>2, <2>3
<1>6. ASSUME NEW ok \in BOOLEAN, SwapBuffers(w, ok) PROVE BufferInv'
  <2>1. PICK b \in Buffers \ inUse[w] :
          /\ pending' = [pending EXCEPT ![w] = b]
          /\ inUse' = [inUse EXCEPT ![w] = @ \cup {b}]
    BY <1>6 DEF SwapBuffers
  <2>2. surface[w] = "gl" /\ pending[w] = 0 /\ UNCHANGED <<status, surface, active, last>>
    BY <1>6 DEF SwapBuffers
  <2> QED
    BY <2>1, <2>2 DEF Buffers
<1> QED
  BY <1>1, <1>2, <1>3, <1>4, <1>5, <1>6 DEF App

LEMMA BufferStep ==
  ASSUME ControlInv, BufferInv, [Next]_vars
  PROVE  BufferInv'
<1> USE DEF ControlInv, TypeOK, BufferInv, Live
<1>1. CASE UNCHANGED <<bufVars, status, surface>>
  BY <1>1 DEF bufVars
<1>2. CASE PageFlipHandler
  <2> DEFINE w == outWindow[Head(flipEvents)]
  <2>1. CASE w = NoWindow
    BY <1>1, <1>2, <2>1 DEF PageFlipHandler
  <2>2. CASE w # NoWindow
    <3>1. w \in Window
      BY <1>2, <2>2, QueueTypes DEF PageFlipHandler
    <3>2. Flipped(w) /\ UNCHANGED <<active, status, surface>> /\ active[w] = 0
      BY <1>2, <2>2, <3>1 DEF PageFlipHandler, Idle, Undrawn
    <3>3. inUse'[w] = {pending'[w], last'[w]} \ {0} /\ pending'[w] = 0
      BY <3>1, <3>2 DEF Flipped
    <3>4. \A v \in Window \ {w} :
            inUse'[v] = inUse[v] /\ pending'[v] = pending[v] /\ last'[v] = last[v]
      BY <3>1, <3>2 DEF Flipped
    <3> QED
      BY <3>1, <3>2, <3>3, <3>4
  <2> QED
    BY <2>1, <2>2
<1>3. CASE \E w \in Window : App(w)
  BY <1>3, BufferApp
<1>4. CASE (\E w \in Window : HandleDeferred(w)) \/ Release \/ Acquire \/ Return \/ Kernel
  BY <1>1, <1>4 DEF HandleDeferred, Release, Acquire, Return, Kernel, VerticalBlank, OtherMode,
     SwitchAway, SwitchBack
<1>5. CASE UNCHANGED vars
  BY <1>1, <1>5 DEF vars
<1> QED
  BY <1>2, <1>3, <1>4, <1>5 DEF Next

\* In every environment, whatever flips fail and whoever destroys windows: the
\* buffers in use are those shown and submitted, never the one being drawn.
THEOREM BuffersAgree == Spec => []BufferInv
<1>1. ControlInv /\ BufferInv /\ [Next]_vars => ControlInv' /\ BufferInv'
  BY ControlStep, BufferStep
<1> QED
  BY ControlInit, BufferInit, <1>1, PTL DEF Spec

-----------------------------------------------------------------------------
(* Flips *)

\* The output's window found no flip underway when it was created.
Clean(o) == outWindow[o] # NoWindow /\ outWindow[o] \notin heirs

\* A flip is of a window that drew on the output.
Drawn(f, o) ==
  /\ f.win \in Window /\ status[f.win] # "unborn"
  /\ Live(f.win) => output[f.win] = o

\* It brings the pending buffer of the output's window; its event is queued once, and
\* only after it.
Awaited(o) ==
  /\ Once(flipEvents, o)
  /\ FlipUnderway(o) => pending[outWindow[o]] # 0
  /\ flight[o] # NoFlip =>
       ~Queued(o) /\ flight[o] = Flip(outWindow[o], pending[outWindow[o]])

FlightInv ==
  \A o \in Outputs :
    /\ flight[o] # NoFlip => Drawn(flight[o], o)
    /\ Clean(o) => Awaited(o)

\* What a live window on a clean output has on the screen is its pending buffer until
\* the event is handled, and its last one from then on.
ShownInv ==
  \A o \in Outputs : shown[o] # NoFlip =>
    LET w == shown[o].win IN
    /\ Drawn(shown[o], o)
    /\ Live(w) /\ w \notin heirs =>
         shown[o].buf # 0 /\ shown[o].buf = IF Queued(o) THEN pending[w] ELSE last[w]

\* The flip of a pending buffer is underway, unless the window draws with GL.
WaitInv ==
  \A w \in Window :
    /\ status[w] = "unborn" => pending[w] = 0
    /\ Live(w) =>
         /\ surface[w] \in Surfaces
         /\ surface[w] # "gl" /\ pending[w] # 0 =>
              Queued(output[w]) \/ flight[output[w]] = Flip(w, pending[w])

FlipInv == ControlInv /\ BufferInv /\ FlightInv /\ ShownInv /\ WaitInv

LEMMA FlipInit == Init => FlipInv
<1> SUFFICES ASSUME Init PROVE FlipInv
  OBVIOUS
<1>1. flipEvents = <<>> /\ \A o \in Outputs : flight[o] = NoFlip /\ shown[o] = NoFlip
  BY DEF Init
<1>2. \A o \in Outputs : outWindow[o] = NoWindow
  BY DEF Init
<1>3. FlightInv
  BY <1>1, <1>2 DEF FlightInv, Clean
<1>4. ShownInv /\ WaitInv
  BY <1>1 DEF Init, ShownInv, WaitInv, Live
<1> QED
  BY <1>3, <1>4, ControlInit, BufferInit DEF FlipInv

\* The live window that an output's flip, or picture, is of is the output's window.
LEMMA WindowOf ==
  ASSUME ControlInv, NEW o \in Outputs, NEW w \in Window, Live(w), output[w] = o
  PROVE  outWindow[o] = w /\ (w \notin heirs => Clean(o))
  BY WindowAssumption DEF ControlInv, OutputInv, Clean

\* The steps that change no window, buffer or flip
LEMMA FlipSame ==
  ASSUME FlipInv, UNCHANGED <<outWindow, heirs, status, surface, output, pending, last, flight,
                   shown, flipEvents>>
  PROVE  FlightInv' /\ ShownInv' /\ WaitInv'
<1>1. \A o : (Queued(o)' <=> Queued(o)) /\ (FlipUnderway(o)' <=> FlipUnderway(o))
  BY DEF Queued, FlipUnderway
<1>2. FlightInv'
  BY <1>1 DEF FlipInv, FlightInv, Once, Clean, Live, Drawn, Awaited
<1>3. ShownInv'
  BY <1>1 DEF FlipInv, ShownInv, Live, Drawn
<1>4. WaitInv'
  BY <1>1 DEF FlipInv, WaitInv, Live
<1> QED
  BY <1>2, <1>3, <1>4

\* A new window is not the one of any flip or picture; its output is clean if there is
\* no flip underway.
LEMMA FlipCreate ==
  ASSUME FlipInv, NEW w \in Window, NEW s \in Surfaces, NEW ok \in BOOLEAN,
         CreateWindow(w, s, ok)
  PROVE  FlightInv' /\ ShownInv' /\ WaitInv'
<1>1. UNCHANGED <<bufVars, flight, shown, flipEvents>> /\ status[w] = "unborn"
  BY DEF CreateWindow, kernelVars
<1>2. \A o : (Queued(o)' <=> Queued(o)) /\ (FlipUnderway(o)' <=> FlipUnderway(o))
  BY <1>1 DEF Queued, FlipUnderway
<1>3. /\ \A v \in Window \ {w} :
           /\ status'[v] = status[v] /\ surface'[v] = surface[v] /\ output'[v] = output[v]
           /\ v \in heirs' <=> v \in heirs
      /\ status'[w] # "unborn" /\ (Live(w)' => surface'[w] = s)
  BY DEF CreateWindow, outVars, FlipInv, ControlInv, TypeOK, Live
<1>4. \A o \in Outputs :
        \/ outWindow'[o] = outWindow[o] /\ outWindow[o] # w
        \/ outWindow'[o] = NoWindow
        \/ outWindow'[o] = w /\ (FlipUnderway(o) => w \in heirs')
  <2>1. \A o \in Outputs : outWindow[o] # w
    BY <1>1, WindowAssumption DEF FlipInv, ControlInv, OutputInv, Live
  <2>2. CASE UNCHANGED outVars
    BY <2>1, <2>2 DEF outVars
  <2>3. ASSUME NEW p \in Free,
               outWindow' = [outWindow EXCEPT ![p] = IF ok THEN w ELSE NoWindow],
               heirs' = IF ok /\ FlipUnderway(p) THEN heirs \cup {w} ELSE heirs
        PROVE  \A o \in Outputs :
                 \/ outWindow'[o] = outWindow[o] /\ outWindow[o] # w
                 \/ outWindow'[o] = NoWindow
                 \/ outWindow'[o] = w /\ (FlipUnderway(o) => w \in heirs')
    <3>1. ASSUME NEW o \in Outputs, o # p PROVE outWindow'[o] = outWindow[o]
      BY <2>3, <3>1 DEF FlipInv, ControlInv, TypeOK
    <3>2. CASE ok
      <4>1. outWindow'[p] = w /\ (FlipUnderway(p) => w \in heirs')
        BY <2>3, <3>2 DEF Free, FlipInv, ControlInv, TypeOK
      <4> QED
        BY <2>1, <3>1, <4>1
    <3>3. CASE ~ok
      <4>1. outWindow'[p] = NoWindow
        BY <2>3, <3>3 DEF Free, FlipInv, ControlInv, TypeOK
      <4> QED
        BY <2>1, <3>1, <4>1
    <3> QED
      BY <3>2, <3>3
  <2> QED
    BY <2>2, <2>3 DEF CreateWindow
<1>5. pending' = pending /\ last' = last /\ flight' = flight /\ shown' = shown
  BY <1>1 DEF bufVars
<1>6. FlightInv'
  <2> SUFFICES ASSUME NEW o \in Outputs
               PROVE  /\ flight'[o] # NoFlip => Drawn(flight[o], o)'
                      /\ Clean(o)' => Awaited(o)'
    BY DEF FlightInv
  <2>1. ASSUME flight'[o] # NoFlip PROVE Drawn(flight[o], o)'
    <3>1. flight'[o] = flight[o] /\ Drawn(flight[o], o)
      BY <1>5, <2>1 DEF FlipInv, FlightInv, Drawn, Awaited
    <3> QED
      BY <1>1, <1>3, <3>1 DEF Live, Drawn
  <2>2. ASSUME Clean(o)' PROVE Awaited(o)'
    <3>1. CASE outWindow'[o] = w
      <4>1. ~FlipUnderway(o)
        BY <1>4, <2>2, <3>1 DEF Clean
      <4>2. flight'[o] = NoFlip /\ ~Queued(o)
        BY <1>5, <4>1 DEF FlipUnderway
      <4>3. Once(flipEvents, o)'
        BY <1>1, <4>2 DEF Once, Queued
      <4> QED
        BY <1>2, <4>1, <4>2, <4>3 DEF Awaited
    <3>2. CASE outWindow'[o] # w
      <4>1. outWindow'[o] = outWindow[o] /\ outWindow[o] \in Window \ {w}
        BY <1>4, <2>2, <3>2 DEF Clean, FlipInv, ControlInv, TypeOK
      <4>2. Clean(o)
        BY <1>3, <2>2, <4>1 DEF Clean
      <4>3. /\ Once(flipEvents, o) /\ (FlipUnderway(o) => pending[outWindow[o]] # 0)
            /\ flight[o] # NoFlip =>
                 ~Queued(o) /\ flight[o] = Flip(outWindow[o], pending[outWindow[o]])
        BY <4>2 DEF FlipInv, FlightInv, Awaited
      <4>4. Once(flipEvents, o)'
        BY <1>1, <4>3 DEF Once
      <4> QED
        BY <1>2, <1>5, <4>1, <4>3, <4>4 DEF Awaited
    <3> QED
      BY <3>1, <3>2
  <2> QED
    BY <2>1, <2>2
<1>7. ShownInv'
  BY <1>1, <1>2, <1>3, <1>5 DEF FlipInv, ShownInv, Live, Drawn
<1>8. pending[w] = 0
  BY <1>1 DEF FlipInv, WaitInv
<1>9. WaitInv'
  BY <1>2, <1>3, <1>5, <1>8 DEF FlipInv, WaitInv, Live
<1> QED
  BY <1>6, <1>7, <1>9

LEMMA FlipDestroy ==
  ASSUME FlipInv, NEW w \in Window, DestroyWindow(w)
  PROVE  FlightInv' /\ ShownInv' /\ WaitInv'
<1> USE DEF FlipInv
<1>1. /\ UNCHANGED <<heirs, surface, output, pending, last, flight, shown, flipEvents>>
      /\ Live(w)
  BY DEF DestroyWindow, kernelVars
<1>2. \A o : (Queued(o)' <=> Queued(o)) /\ (FlipUnderway(o)' <=> FlipUnderway(o))
  BY <1>1 DEF Queued, FlipUnderway
<1>3. /\ \A o \in Outputs : outWindow'[o] \in {outWindow[o], NoWindow}
      /\ \A v \in Window \ {w} : status'[v] = status[v]
      /\ status'[w] = "freed"
  BY DEF DestroyWindow, ControlInv, TypeOK
<1>4. FlightInv'
  <2>1. ASSUME NEW o \in Outputs, Clean(o)' PROVE outWindow'[o] = outWindow[o] /\ Clean(o)
    BY <1>1, <1>3, <2>1 DEF Clean
  <2>2. \A o \in Outputs : Once(flipEvents, o) => Once(flipEvents, o)'
    BY <1>1 DEF Once
  <2> QED
    BY <1>1, <1>2, <1>3, <2>1, <2>2 DEF FlightInv, Live, Drawn, Awaited
<1>5. ShownInv' /\ WaitInv'
  BY <1>1, <1>2, <1>3 DEF ShownInv, WaitInv, Live, Drawn
<1> QED
  BY <1>4, <1>5

\* A window's buffer b is submitted, whether or not the commit fails.
LEMMA FlipSubmit ==
  ASSUME FlipInv, NEW w \in Window, NEW b \in Buffers, NEW ok \in BOOLEAN,
         Live(w), pending[w] = 0, PageFlip(w, b, ok),
         UNCHANGED <<outWindow, heirs, status, surface, output, last, shown, flipEvents>>,
         \A v \in Window \ {w} : pending'[v] = pending[v],
         pending'[w] \in {b, 0}, ok => pending'[w] = b,
         ~ok /\ pending'[w] # 0 => surface[w] = "gl"
  PROVE  FlightInv' /\ ShownInv' /\ WaitInv'
<1> USE DEF FlipInv
<1> DEFINE o == output[w]
<1>1. o \in Outputs /\ outWindow[o] = w
  BY DEF ControlInv, OutputInv
<1>2. Clean(o) => ~FlipUnderway(o)
  BY <1>1 DEF FlightInv, Drawn, Awaited
<1>3. /\ \A p \in Outputs \ {o} : flight'[p] = flight[p]
      /\ flight'[o] = IF ok THEN Flip(w, b) ELSE flight[o]
  <2>1. CASE ok
    <3>1. flight' = [flight EXCEPT ![o] = Flip(w, b)]
      BY <2>1, Zenon DEF PageFlip
    <3> QED
      BY <1>1, <2>1, <3>1 DEF ControlInv, TypeOK
  <2>2. CASE ~ok
    <3>1. flight' = flight
      BY <2>2 DEF PageFlip
    <3> QED
      BY <2>2, <3>1
  <2> QED
    BY <2>1, <2>2
<1>4. \A p : (Queued(p)' <=> Queued(p)) /\ (Clean(p)' <=> Clean(p))
             /\ (Once(flipEvents, p)' <=> Once(flipEvents, p))
  BY DEF Queued, Clean, Once
<1>5. \A p \in Outputs \ {o} : outWindow[p] # w
  BY WindowAssumption DEF ControlInv, OutputInv
<1>6. /\ Flip(w, b).win = w /\ Flip(w, b).buf = b /\ Flip(w, b) # NoFlip /\ b # 0
      /\ status[w] # "unborn"
  BY WindowAssumption DEF Flip, NoFlip, Buffers, Live
<1> HIDE DEF o
<1>7. FlightInv'
  <2> SUFFICES ASSUME NEW p \in Outputs
               PROVE  /\ flight'[p] # NoFlip => Drawn(flight[p], p)'
                      /\ Clean(p)' => Awaited(p)'
    BY DEF FlightInv
  <2>1. CASE p = o
    <3>1. CASE ok
      <4>1. flight'[p] = Flip(w, b) /\ pending'[w] = b /\ outWindow'[p] = w /\ output'[w] = p
        BY <1>1, <1>3, <2>1, <3>1 DEF o
      <4>2. Clean(p) => Once(flipEvents, p) /\ ~Queued(p)
        BY <1>2, <2>1 DEF FlightInv, FlipUnderway, Drawn, Awaited
      <4> QED
        BY <1>4, <1>6, <4>1, <4>2 DEF Live, Drawn, Awaited
    <3>2. CASE ~ok
      <4>1. flight'[p] = flight[p] /\ outWindow'[p] = w
        BY <1>1, <1>3, <2>1, <3>2
      <4>2. Clean(p) => Once(flipEvents, p) /\ ~Queued(p) /\ flight[p] = NoFlip
        BY <1>2, <2>1 DEF FlightInv, FlipUnderway, Drawn, Awaited
      <4>3. Clean(p) => ~FlipUnderway(p)'
        BY <1>4, <4>1, <4>2 DEF FlipUnderway
      <4> QED
        BY <1>4, <4>1, <4>2, <4>3 DEF FlightInv, Live, Drawn, Awaited
    <3> QED
      BY <3>1, <3>2
  <2>2. CASE p # o
    <3>1. outWindow[p] = NoWindow \/ outWindow[p] \in Window \ {w}
      BY <1>5, <2>2 DEF ControlInv, TypeOK
    <3>2. flight'[p] = flight[p] /\ (FlipUnderway(p)' <=> FlipUnderway(p))
      BY <1>3, <1>4, <2>2 DEF FlipUnderway
    <3>3. Clean(p) => pending'[outWindow'[p]] = pending[outWindow[p]]
      BY <3>1 DEF Clean
    <3> QED
      BY <1>4, <3>2, <3>3 DEF FlightInv, Live, Drawn, Awaited
  <2> QED
    BY <2>1, <2>2
<1>8. ShownInv'
  <2> SUFFICES ASSUME NEW p \in Outputs, shown'[p] # NoFlip, NEW v, v = shown'[p].win
               PROVE  /\ v \in Window /\ status'[v] # "unborn"
                      /\ Live(v)' => output'[v] = p
                      /\ Live(v)' /\ v \notin heirs' =>
                           /\ shown'[p].buf # 0
                           /\ shown'[p].buf = IF Queued(p)' THEN pending'[v] ELSE last'[v]
    BY DEF ShownInv, Drawn, Live
  <2>1. /\ v \in Window /\ status[v] # "unborn" /\ (Live(v) => output[v] = p)
        /\ Live(v) /\ v \notin heirs =>
             shown[p].buf # 0 /\ shown[p].buf = IF Queued(p) THEN pending[v] ELSE last[v]
    BY DEF ShownInv, Drawn, Live
  <2>2. CASE v = w /\ v \notin heirs
    <3>1. p = o /\ Clean(o)
      BY <1>1, <2>1, <2>2, WindowAssumption DEF o, Clean
    <3>2. ~Queued(p)
      BY <1>2, <3>1 DEF FlipUnderway
    <3> QED
      BY <1>4, <2>1, <3>2 DEF Live
  <2>3. CASE v # w \/ v \in heirs
    BY <1>4, <2>1, <2>3 DEF Live
  <2> QED
    BY <2>2, <2>3
<1>9. WaitInv'
  <2> SUFFICES ASSUME NEW v \in Window
               PROVE  /\ status'[v] = "unborn" => pending'[v] = 0
                      /\ Live(v)' =>
                           /\ surface'[v] \in Surfaces
                           /\ surface'[v] # "gl" /\ pending'[v] # 0 =>
                                \/ Queued(output[v])'
                                \/ flight'[output'[v]] = Flip(v, pending'[v])
    BY DEF WaitInv
  <2>1. CASE v = w
    <3>1. surface'[v] # "gl" /\ pending'[v] # 0 => flight'[output'[v]] = Flip(v, pending'[v])
      BY <1>3, <2>1 DEF o
    <3> QED
      BY <1>6, <2>1, <3>1 DEF WaitInv, Live
  <2>2. CASE v # w
    <3>1. Live(v) => output[v] \in Outputs \ {o}
      BY <1>1, <2>2 DEF ControlInv, OutputInv
    <3>2. Live(v) => flight'[output'[v]] = flight[output[v]]
      BY <1>3, <3>1
    <3>3. Queued(output[v])' <=> Queued(output[v])
      BY DEF Queued
    <3> QED
      BY <2>2, <3>2, <3>3 DEF WaitInv, Live
  <2> QED
    BY <2>1, <2>2
<1> QED
  BY <1>7, <1>8, <1>9

LEMMA FlipApp ==
  ASSUME FlipInv, NEW w \in Window, App(w)
  PROVE  FlightInv' /\ ShownInv' /\ WaitInv'
<1> USE DEF FlipInv
<1>1. ASSUME NEW s \in Surfaces, NEW ok \in BOOLEAN, CreateWindow(w, s, ok)
      PROVE  FlightInv' /\ ShownInv' /\ WaitInv'
  BY <1>1, FlipCreate
<1>2. CASE DestroyWindow(w)
  BY <1>2, FlipDestroy
<1>3. CASE Refresh(w) \/ GetBuffer(w)
  <2>1. /\ UNCHANGED <<outWindow, heirs, status, surface, output, flight, shown, flipEvents>>
        /\ UNCHANGED <<pending, last>>
    BY <1>3 DEF Refresh, GetBuffer, outVars, bufVars, kernelVars
  <2> QED
    BY <2>1, FlipSame
<1>4. ASSUME NEW ok \in BOOLEAN, ApplyBuffer(w, ok) PROVE FlightInv' /\ ShownInv' /\ WaitInv'
  <2>1. active[w] \in Buffers /\ pending[w] = 0 /\ Live(w) /\ PageFlip(w, active[w], ok)
    BY <1>4 DEF ApplyBuffer, ControlInv, TypeOK, BufferInv
  <2>2. pending' = [pending EXCEPT ![w] = IF ok THEN active[w] ELSE @]
    BY <1>4 DEF ApplyBuffer
  <2>3. /\ \A v \in Window \ {w} : pending'[v] = pending[v]
        /\ ok => pending'[w] = active[w]
        /\ ~ok => pending'[w] = 0
    BY <2>1, <2>2 DEF ControlInv, TypeOK
  <2>4. UNCHANGED <<outWindow, heirs, status, surface, output, last, shown, flipEvents>>
    BY <1>4 DEF ApplyBuffer
  <2> QED
    BY <2>1, <2>3, <2>4, FlipSubmit
<1>5. ASSUME NEW ok \in BOOLEAN, SwapBuffers(w, ok) PROVE FlightInv' /\ ShownInv' /\ WaitInv'
  <2>1. PICK b \in Buffers : pending' = [pending EXCEPT ![w] = b] /\ PageFlip(w, b, ok)
    BY <1>5 DEF SwapBuffers
  <2>2. pending[w] = 0 /\ Live(w) /\ surface[w] = "gl"
    BY <1>5 DEF SwapBuffers, MayDraw
  <2>3. /\ \A v \in Window \ {w} : pending'[v] = pending[v]
        /\ pending'[w] = b
    BY <2>1 DEF ControlInv, TypeOK
  <2>4. UNCHANGED <<outWindow, heirs, status, surface, output, last, shown, flipEvents>>
    BY <1>5 DEF SwapBuffers
  <2> QED
    BY <2>1, <2>2, <2>3, <2>4, FlipSubmit
<1> QED
  BY <1>1, <1>2, <1>3, <1>4, <1>5 DEF App

LEMMA FlipHandled ==
  ASSUME FlipInv, PageFlipHandler
  PROVE  FlightInv' /\ ShownInv' /\ WaitInv'
<1> USE DEF FlipInv
<1>o. PICK o : o = Head(flipEvents)
  OBVIOUS
<1>w. PICK w : w = outWindow[o]
  OBVIOUS
<1>1. /\ o \in Outputs /\ Queued(o) /\ flipEvents # <<>> /\ flipEvents \in Seq(Outputs)
      /\ flipEvents' = Tail(flipEvents)
      /\ UNCHANGED <<outWindow, heirs, status, surface, output, flight, shown>>
  BY <1>o, QueueTypes DEF PageFlipHandler, ControlInv, TypeOK, Queued, InQueue, outVars
<1>2. /\ \A p : p # o => (Queued(p)' <=> Queued(p))
      /\ \A p : Once(flipEvents, p) => Once(flipEvents, p)'
      /\ Once(flipEvents, o) => ~Queued(o)'
  <2>1. /\ \A p : Queued(p) <=> InQueue(flipEvents, p)
        /\ \A p : Queued(p)' <=> InQueue(flipEvents', p)
        /\ \A p : Once(flipEvents, p)' <=> Once(flipEvents', p)
    BY DEF Queued, InQueue, Once
  <2>2. /\ \A p : InQueue(Tail(flipEvents), p) => InQueue(flipEvents, p)
        /\ \A p : InQueue(flipEvents, p) /\ p # o => InQueue(Tail(flipEvents), p)
        /\ \A p : Once(flipEvents, p) => Once(Tail(flipEvents), p)
        /\ Once(flipEvents, o) => ~InQueue(Tail(flipEvents), o)
    BY <1>o, <1>1, TailQueue
  <2> QED
    BY <1>1, <2>1, <2>2
<1>3. \A p : Clean(p)' <=> Clean(p)
  BY <1>1 DEF Clean
<1>4. \/ w = NoWindow /\ UNCHANGED <<pending, last>>
      \/ /\ w \in Window
         /\ \A v \in Window \ {w} : pending'[v] = pending[v] /\ last'[v] = last[v]
         /\ pending'[w] = 0 /\ last'[w] = pending[w]
  <2>1. w = NoWindow \/ w \in Window
    BY <1>1, <1>w DEF ControlInv, TypeOK
  <2>2. CASE w = NoWindow
    BY <1>o, <1>w, <2>2 DEF PageFlipHandler, bufVars
  <2>3. CASE w # NoWindow
    <3>1. /\ last' = [last EXCEPT ![w] = pending[w]]
          /\ pending' = [pending EXCEPT ![w] = 0]
      BY <1>o, <1>w, <2>3 DEF PageFlipHandler, Flipped
    <3> QED
      BY <2>1, <2>3, <3>1 DEF ControlInv, TypeOK
  <2> QED
    BY <2>2, <2>3
<1>5. /\ w # NoWindow => Live(w) /\ output[w] = o
      /\ \A p \in Outputs \ {o} : outWindow[p] = w => w = NoWindow
  BY <1>1, <1>w DEF ControlInv, OutputInv
<1>6. Clean(o) => w # NoWindow /\ Once(flipEvents, o) /\ flight[o] = NoFlip
  <2>1. Clean(o) => ~(flight[o] # NoFlip)
    BY <1>1 DEF FlightInv, Drawn, Awaited
  <2> QED
    BY <1>1, <1>w, <2>1 DEF FlightInv, Clean, Drawn, Awaited
<1>7. FlightInv'
  <2> SUFFICES ASSUME NEW p \in Outputs
               PROVE  /\ flight'[p] # NoFlip => Drawn(flight[p], p)'
                      /\ Clean(p)' => Awaited(p)'
    BY DEF FlightInv
  <2>1. CASE p = o
    <3>1. Clean(p) => Once(flipEvents, p)' /\ ~FlipUnderway(p)' /\ flight'[p] = NoFlip
      BY <1>1, <1>2, <1>6, <2>1 DEF FlipUnderway
    <3> QED
      BY <1>1, <1>3, <3>1 DEF FlightInv, Live, Drawn, Awaited
  <2>2. CASE p # o
    <3>1. Clean(p) => pending'[outWindow'[p]] = pending[outWindow[p]]
      <4>1. Clean(p) => outWindow[p] \in Window /\ outWindow[p] # w
        BY <1>5, <2>2 DEF Clean, ControlInv, TypeOK
      <4> QED
        BY <1>1, <1>4, <4>1
    <3>2. FlipUnderway(p)' <=> FlipUnderway(p)
      BY <1>1, <1>2, <2>2 DEF FlipUnderway
    <3> QED
      BY <1>1, <1>2, <1>3, <2>2, <3>1, <3>2 DEF FlightInv, Live, Drawn, Awaited
  <2> QED
    BY <2>1, <2>2
<1>8. ShownInv'
  <2> SUFFICES ASSUME NEW p \in Outputs, shown'[p] # NoFlip, NEW v, v = shown'[p].win
               PROVE  /\ v \in Window /\ status'[v] # "unborn"
                      /\ Live(v)' => output'[v] = p
                      /\ Live(v)' /\ v \notin heirs' =>
                           /\ shown'[p].buf # 0
                           /\ shown'[p].buf = IF Queued(p)' THEN pending'[v] ELSE last'[v]
    BY DEF ShownInv, Drawn, Live
  <2>1. /\ v \in Window /\ status[v] # "unborn" /\ (Live(v) => output[v] = p)
        /\ Live(v) /\ v \notin heirs =>
             shown[p].buf # 0 /\ shown[p].buf = IF Queued(p) THEN pending[v] ELSE last[v]
    BY <1>1 DEF ShownInv, Drawn
  <2>2. CASE p = o
    <3>1. ASSUME Live(v), v \notin heirs PROVE v = w /\ ~Queued(p)'
      <4>1. v = w /\ Clean(o)
        BY <1>1, <1>w, <2>1, <2>2, <3>1, WindowOf
      <4> QED
        BY <1>2, <1>6, <2>2, <4>1
    <3> QED
      BY <1>1, <1>4, <2>1, <2>2, <3>1, WindowAssumption DEF Live
  <2>3. CASE p # o
    <3>1. Live(v) => v # w
      BY <1>5, <2>1, <2>3, WindowAssumption
    <3>2. Live(v) => pending'[v] = pending[v] /\ last'[v] = last[v]
      BY <1>4, <2>1, <3>1
    <3> QED
      BY <1>1, <1>2, <2>1, <2>3, <3>2 DEF Live
  <2> QED
    BY <2>2, <2>3
<1>9. WaitInv'
  <2> SUFFICES ASSUME NEW v \in Window
               PROVE  /\ status'[v] = "unborn" => pending'[v] = 0
                      /\ Live(v)' =>
                           /\ surface'[v] \in Surfaces
                           /\ surface'[v] # "gl" /\ pending'[v] # 0 =>
                                \/ Queued(output[v])'
                                \/ flight'[output'[v]] = Flip(v, pending'[v])
    BY DEF WaitInv
  <2>1. CASE v = w
    <3>1. pending'[v] = 0
      BY <1>4, <2>1, WindowAssumption
    <3> QED
      BY <1>1, <3>1 DEF WaitInv, Live
  <2>2. CASE v # w
    <3>1. pending'[v] = pending[v]
      BY <1>4, <2>2
    <3>2. Live(v) => output[v] # o
      BY <1>w, <2>2 DEF ControlInv, OutputInv
    <3>3. Live(v) => (Queued(output[v])' <=> Queued(output[v]))
      <4>1. \A p : (Queued(p)' /\ p = output[v]) <=> (Queued(output[v])' /\ p = output[v])
        BY <1>1 DEF Queued
      <4> QED
        BY <1>1, <1>2, <3>2, <4>1 DEF Queued
    <3> QED
      BY <1>1, <3>1, <3>3 DEF WaitInv, Live
  <2> QED
    BY <2>1, <2>2
<1> QED
  BY <1>7, <1>8, <1>9

LEMMA FlipBlank ==
  ASSUME FlipInv, NEW o \in Outputs, VerticalBlank(o)
  PROVE  FlightInv' /\ ShownInv' /\ WaitInv'
<1> USE DEF FlipInv
<1>1. /\ flight[o] # NoFlip /\ flipEvents \in Seq(Outputs)
      /\ flipEvents' = Append(flipEvents, o)
      /\ UNCHANGED <<outWindow, heirs, status, surface, output, pending, last>>
  BY DEF VerticalBlank, ControlInv, TypeOK, outVars, bufVars
<1>2. Clean(o) =>
        /\ pending[outWindow[o]] # 0 /\ ~Queued(o) /\ Once(flipEvents, o)
        /\ flight[o] = Flip(outWindow[o], pending[outWindow[o]])
  BY <1>1 DEF FlightInv, FlipUnderway, Drawn, Awaited
<1>3. /\ \A p : Queued(p)' <=> Queued(p) \/ p = o
      /\ \A p : Once(flipEvents, p) /\ (p = o => ~Queued(p)) => Once(flipEvents, p)'
  <2>1. /\ \A p : Queued(p) <=> InQueue(flipEvents, p)
        /\ \A p : Queued(p)' <=> InQueue(flipEvents', p)
        /\ \A p : Once(flipEvents, p)' <=> Once(flipEvents', p)
    BY DEF Queued, InQueue, Once
  <2>2. /\ \A p : InQueue(Append(flipEvents, o), p) <=> InQueue(flipEvents, p) \/ p = o
        /\ \A p : Once(flipEvents, p) /\ (p = o => ~InQueue(flipEvents, o)) =>
                    Once(Append(flipEvents, o), p)
    BY <1>1, AppendQueue
  <2> QED
    BY <1>1, <2>1, <2>2
<1>4. /\ \A p \in Outputs \ {o} : flight'[p] = flight[p] /\ shown'[p] = shown[p]
      /\ flight'[o] = NoFlip /\ shown'[o] = flight[o]
  BY DEF VerticalBlank, ControlInv, TypeOK
<1>5. \A p : Clean(p)' <=> Clean(p)
  BY <1>1 DEF Clean
<1>6. FlightInv'
  <2> SUFFICES ASSUME NEW p \in Outputs
               PROVE  /\ flight'[p] # NoFlip => Drawn(flight[p], p)'
                      /\ Clean(p)' => Awaited(p)'
    BY DEF FlightInv
  <2>1. CASE p = o
    BY <1>1, <1>2, <1>3, <1>4, <1>5, <2>1 DEF Awaited, FlipUnderway
  <2>2. CASE p # o
    <3>1. FlipUnderway(p)' <=> FlipUnderway(p)
      BY <1>3, <1>4, <2>2 DEF FlipUnderway
    <3> QED
      BY <1>1, <1>3, <1>4, <1>5, <2>2, <3>1 DEF FlightInv, Live, Drawn, Awaited
  <2> QED
    BY <2>1, <2>2
<1>7. ShownInv'
  <2> SUFFICES ASSUME NEW p \in Outputs, shown'[p] # NoFlip, NEW v, v = shown'[p].win
               PROVE  /\ v \in Window /\ status'[v] # "unborn"
                      /\ Live(v)' => output'[v] = p
                      /\ Live(v)' /\ v \notin heirs' =>
                           /\ shown'[p].buf # 0
                           /\ shown'[p].buf = IF Queued(p)' THEN pending'[v] ELSE last'[v]
    BY DEF ShownInv, Drawn, Live
  <2>1. CASE p = o
    <3>1. /\ v = flight[o].win /\ shown'[p] = flight[o]
          /\ v \in Window /\ status[v] # "unborn" /\ (Live(v) => output[v] = o)
      BY <1>1, <1>4, <2>1 DEF FlightInv, Drawn, Awaited
    <3>2. ASSUME Live(v), v \notin heirs
          PROVE  flight[o].buf = pending[v] /\ pending[v] # 0
      <4>1. outWindow[o] = v /\ Clean(o)
        BY <3>1, <3>2, WindowOf
      <4> QED
        BY <1>2, <4>1 DEF Flip
    <3> QED
      BY <1>1, <1>3, <2>1, <3>1, <3>2 DEF Live
  <2>2. CASE p # o
    BY <1>1, <1>3, <1>4, <2>2 DEF ShownInv, Live, Drawn
  <2> QED
    BY <2>1, <2>2
<1>8. WaitInv'
  <2> SUFFICES ASSUME NEW v \in Window
               PROVE  /\ status'[v] = "unborn" => pending'[v] = 0
                      /\ Live(v)' =>
                           /\ surface'[v] \in Surfaces
                           /\ surface'[v] # "gl" /\ pending'[v] # 0 =>
                                \/ Queued(output[v])'
                                \/ flight'[output'[v]] = Flip(v, pending'[v])
    BY DEF WaitInv
  <2>1. Queued(output[v])' <=> Queued(output[v]) \/ output[v] = o
    <3>1. PICK p : p = output[v]
      OBVIOUS
    <3>2. Queued(p)' <=> Queued(p) \/ p = o
      BY <1>3
    <3> QED
      BY <1>1, <3>1, <3>2 DEF Queued
  <2>2. Live(v) => output[v] \in Outputs
    BY DEF ControlInv, OutputInv
  <2> QED
    BY <1>1, <1>4, <2>1, <2>2 DEF WaitInv, Live
<1> QED
  BY <1>6, <1>7, <1>8

LEMMA FlipOther ==
  ASSUME FlipInv, NEW o \in Outputs, OtherMode(o)
  PROVE  FlightInv' /\ ShownInv' /\ WaitInv'
<1> USE DEF FlipInv
<1>1. /\ UNCHANGED <<outWindow, heirs, status, surface, output, pending, last, flight>>
      /\ flipEvents' = flipEvents
      /\ \A p \in Outputs \ {o} : shown'[p] = shown[p]
      /\ shown'[o] = NoFlip
  BY DEF OtherMode, ControlInv, TypeOK, outVars, bufVars
<1>2. \A p : (Queued(p)' <=> Queued(p)) /\ (FlipUnderway(p)' <=> FlipUnderway(p))
  BY <1>1 DEF Queued, FlipUnderway
<1>3. FlightInv' /\ WaitInv'
  BY <1>1, <1>2 DEF FlightInv, WaitInv, Live, Once, Clean, Drawn, Awaited
<1>4. ShownInv'
  BY <1>1, <1>2 DEF ShownInv, Live, Drawn
<1> QED
  BY <1>3, <1>4

LEMMA FlipStep ==
  ASSUME FlipInv, [Next]_vars
  PROVE  FlipInv'
<1>1. ControlInv' /\ BufferInv'
  BY ControlStep, BufferStep DEF FlipInv
<1>2. CASE \E w \in Window : App(w)
  BY <1>1, <1>2, FlipApp DEF FlipInv
<1>3. CASE PageFlipHandler
  BY <1>1, <1>3, FlipHandled DEF FlipInv
<1>4. CASE \E o \in Outputs : VerticalBlank(o) \/ OtherMode(o)
  BY <1>1, <1>4, FlipBlank, FlipOther DEF FlipInv
<1>5. CASE UNCHANGED <<outWindow, heirs, status, surface, output, pending, last, flight, shown,
                       flipEvents>>
  BY <1>1, <1>5, FlipSame DEF FlipInv
<1>6. CASE \/ \E w \in Window : HandleDeferred(w)
           \/ Release \/ Acquire \/ Return \/ SwitchAway \/ SwitchBack \/ UNCHANGED vars
  <2>1. UNCHANGED <<outVars, status, surface, output, bufVars, kernelVars>>
    BY <1>6 DEF HandleDeferred, Release, Acquire, Return, SwitchAway, SwitchBack, vars
  <2> QED
    BY <1>5, <2>1 DEF outVars, bufVars, kernelVars
<1> QED
  BY <1>2, <1>3, <1>4, <1>6 DEF Next, Kernel

LEMMA FlipCorrect == Spec => []FlipInv
<1>1. FlipInv /\ [Next]_vars => FlipInv'
  BY FlipStep
<1> QED
  BY FlipInit, <1>1, PTL DEF Spec

\* Whatever fails and whatever is destroyed, with a flip on its way or without: the
\* flip page_flip_handler is told of finds no window, or is the one its window waits
\* for, if that window was created when no flip was underway on its output.
THEOREM AssertionsHold == Spec => []AssertFlip
<1>1. ASSUME FlipInv PROVE AssertFlip
  <2> SUFFICES ASSUME NEW i \in 1 .. Len(flipEvents), NEW w, w = outWindow[flipEvents[i]],
                      w # NoWindow, w \notin heirs
               PROVE  FlipExpected(w)
    BY DEF AssertFlip
  <2>1. flipEvents[i] \in Outputs /\ Queued(flipEvents[i]) /\ Clean(flipEvents[i])
    BY <1>1 DEF FlipInv, ControlInv, TypeOK, Queued, Clean
  <2>2. w \in Window /\ pending[w] # 0
    BY <1>1, <2>1 DEF FlipInv, ControlInv, TypeOK, FlightInv, FlipUnderway, Drawn, Awaited
  <2> QED
    BY <1>1, <2>2 DEF FlipInv, BufferInv, FlipExpected
<1>2. Spec => []FlipInv
  BY FlipCorrect
<1> QED
  BY <1>1, <1>2, PTL

\* Nothing is drawn into a buffer on the screen (what win_get_buffer takes for free
\* against what page_flip_handler frees), in every environment, by windows created
\* when no flip was underway on their output.
THEOREM FlipsAgree == Spec => []NoTearing
<1>1. ASSUME FlipInv PROVE NoTearing
  <2> SUFFICES ASSUME NEW o \in Outputs, NEW f \in OnScreen(o), f # NoFlip, Live(f.win),
                      f.win \notin heirs
               PROVE  f.buf \in inUse[f.win] /\ f.buf # active[f.win]
    BY DEF NoTearing
  <2>0. \A w \in Window : /\ inUse[w] = {pending[w], last[w]} \ {0}
                          /\ active[w] # 0 => active[w] \notin inUse[w]
    BY <1>1 DEF FlipInv, BufferInv
  <2>1. CASE f = flight[o]
    <3>1. f.win \in Window /\ output[f.win] = o
      BY <1>1, <2>1 DEF FlipInv, FlightInv, Drawn, Awaited
    <3>2. outWindow[o] = f.win /\ Clean(o)
      BY <1>1, <3>1, WindowOf DEF FlipInv
    <3>3. f = Flip(outWindow[o], pending[outWindow[o]]) /\ pending[outWindow[o]] # 0
      BY <1>1, <2>1, <3>2 DEF FlipInv, FlightInv, FlipUnderway, Drawn, Awaited
    <3>4. f.buf = pending[f.win] /\ f.buf # 0
      BY <3>2, <3>3 DEF Flip
    <3> QED
      BY <3>1, <3>4, <2>0
  <2>2. CASE f = shown[o]
    <3>1. f.win \in Window /\ f.buf # 0 /\ (f.buf = pending[f.win] \/ f.buf = last[f.win])
      BY <1>1, <2>2 DEF FlipInv, ShownInv, Drawn
    <3> QED
      BY <3>1, <2>0
  <2> QED
    BY <2>1, <2>2 DEF OnScreen
<1>2. Spec => []FlipInv
  BY FlipCorrect
<1> QED
  BY <1>1, <1>2, PTL

\* Buffers of windows without GL never wait for a flip that is not underway,
\* even when commits fail and windows are destroyed with flips on their way.
THEOREM PendingsQueued ==
  ASSUME Surfaces = {"buffer"}
  PROVE  Spec => []PendingQueued
<1>1. ASSUME FlipInv PROVE PendingQueued
  BY <1>1 DEF FlipInv, WaitInv, PendingQueued
<1>2. Spec => []FlipInv
  BY FlipCorrect
<1> QED
  BY <1>1, <1>2, PTL

-----------------------------------------------------------------------------
(* The session *)

\* A signal is pending only while the session and the terminal differ, and is
\* handled before the next; the handler's callbacks run in between.
SessionInv ==
  /\ session = "none" => vt = "ours" /\ sig = FALSE /\ master = TRUE
  /\ sig = TRUE =>
       /\ cb.then \notin {"release", "acquire"}
       /\ \/ session = "active" /\ vt = "leaving" /\ master = TRUE
          \/ session = "inactive" /\ vt = "ours" /\ master = FALSE
  /\ cb.then = "release" => session = "inactive" /\ vt = "leaving" /\ master = TRUE
  /\ cb.then = "acquire" => session = "inactive" /\ vt = "ours" /\ master = TRUE
  /\ sig = FALSE /\ cb.then \notin {"release", "acquire"} /\ session # "none" =>
       \/ session = "active" /\ vt = "ours" /\ master = TRUE
       \/ session = "inactive" /\ vt = "away" /\ master = FALSE

LEMMA SessionInit == Init => SessionInv
  BY DEF Init, SessionInv, NoCb, Call

LEMMA SessionStep ==
  ASSUME ControlInv, SessionInv, Hasty = FALSE, [Next]_vars
  PROVE  SessionInv'
<1> USE DEF SessionInv
<1>0. sig \in BOOLEAN /\ session \in {"none", "active", "inactive"} /\ cb \in Callback
  BY DEF ControlInv, TypeOK
<1>1. CASE UNCHANGED <<session, master, vt, sig>> /\ cb'.then = cb.then
  BY <1>1
<1>2. ASSUME NEW w \in Window, App(w) PROVE SessionInv'
  <2>1. ASSUME NEW s \in Surfaces, NEW ok \in BOOLEAN, CreateWindow(w, s, ok)
        PROVE  SessionInv'
    <3>1. /\ session' = IF session = "none" THEN "active" ELSE session
          /\ UNCHANGED <<cb, master, vt, sig>>
      BY <2>1 DEF CreateWindow
    <3>2. session = "none" => cb.then \notin {"release", "acquire"}
      OBVIOUS
    <3> QED
      BY <3>1, <3>2
  <2>2. CASE DestroyWindow(w) \/ Refresh(w) \/ GetBuffer(w)
    BY <1>1, <2>2 DEF DestroyWindow, Refresh, GetBuffer, vtVars
  <2>3. ASSUME NEW ok \in BOOLEAN, ApplyBuffer(w, ok) \/ SwapBuffers(w, ok)
        PROVE  SessionInv'
    <3>1. Drew(w) /\ UNCHANGED vtVars
      BY <2>3 DEF ApplyBuffer, SwapBuffers
    <3>2. cb'.then = cb.then
      BY <1>0, <3>1, DrewType
    <3> QED
      BY <1>1, <3>1, <3>2 DEF vtVars
  <2> QED
    BY <1>2, <2>1, <2>2, <2>3 DEF App
<1>3. ASSUME NEW w \in Window, HandleDeferred(w) PROVE SessionInv'
  <2>1. UNCHANGED vtVars /\ cb.then = "end"
    BY <1>3 DEF HandleDeferred, Idle, NoCb, Call
  <2>2. cb'.then \in {"end", "deferred"}
    BY <1>3 DEF HandleDeferred, DeferredDraw, DrawEvent, NoCb, Call
  <2> QED
    BY <2>1, <2>2 DEF vtVars
<1>4. CASE PageFlipHandler
  <2>1. UNCHANGED vtVars /\ cb.then = "end"
    BY <1>4 DEF PageFlipHandler, Idle, NoCb, Call
  <2>2. cb'.then = "end"
    BY <1>4, <2>1 DEF PageFlipHandler, RedrawAfterFlip, DrawEvent, Call
  <2> QED
    BY <2>1, <2>2 DEF vtVars
<1>5. CASE Release
  <2>1. /\ sig' = FALSE /\ session' = "inactive" /\ session = "active" /\ sig = TRUE
        /\ cb.then = "end"
    BY <1>0, <1>5 DEF Release, Idle, NoCb, Call
  <2>2. CASE Windowed(1) # {}
    <3>1. FocusFrom(1, "release") /\ UNCHANGED <<master, vt>>
      BY <1>5, <2>2 DEF Release
    <3>2. cb'.then = "release"
      BY <3>1 DEF FocusFrom, Call
    <3> QED
      BY <2>1, <3>1, <3>2
  <2>3. CASE Windowed(1) = {}
    BY <1>5, <2>1, <2>3 DEF Release, Released, Reldisp
  <2> QED
    BY <2>2, <2>3
<1>6. CASE Acquire
  <2>1. /\ sig' = FALSE /\ session = "inactive" /\ sig = TRUE /\ cb.then = "end"
        /\ master' = TRUE /\ Reldisp
    BY <1>0, <1>6 DEF Acquire, Idle, NoCb, Call
  <2>2. vt' = "ours"
    BY <2>1 DEF Reldisp
  <2>3. CASE Windowed(1) # {}
    <3>1. FocusFrom(1, "acquire") /\ UNCHANGED session
      BY <1>6, <2>3 DEF Acquire
    <3>2. cb'.then = "acquire"
      BY <3>1 DEF FocusFrom, Call
    <3> QED
      BY <2>1, <2>2, <3>1, <3>2
  <2>4. CASE Windowed(1) = {}
    <3>1. session' = "active" /\ cb' = cb
      BY <1>6, <2>4 DEF Acquire
    <3> QED
      BY <2>1, <2>2, <3>1
  <2> QED
    BY <2>3, <2>4
<1>7. CASE Return
  <2>0. sig' = sig /\ cb.then \in {"end", "deferred", "release", "acquire"}
    BY <1>0, <1>7 DEF Return, Callback
  <2>1. CASE cb.then \in {"end", "deferred"}
    <3>1. UNCHANGED <<session, master, vt>>
      BY <1>7, <2>1 DEF Return
    <3>2. cb'.then = "end"
      BY <1>7, <2>1 DEF Return, DeferredDraw, DrawEvent, NoCb, Call
    <3> QED
      BY <2>0, <2>1, <3>1, <3>2
  <2>2. CASE cb.then \in {"release", "acquire"} /\ Windowed(cb.out + 1) # {}
    <3>1. FocusFrom(cb.out + 1, cb.then) /\ UNCHANGED <<session, master, vt>>
      BY <1>7, <2>2 DEF Return
    <3>2. cb'.then = cb.then
      BY <3>1 DEF FocusFrom, Call
    <3> QED
      BY <1>1, <2>0, <3>1, <3>2
  <2>3. CASE cb.then = "release" /\ Windowed(cb.out + 1) = {}
    <3>0. /\ cb.then # "end" /\ cb.then # "deferred" /\ cb.then # "acquire"
          /\ Windowed(cb.out + 1) = {}
      BY <2>3
    <3>1. Released /\ cb' = NoCb /\ UNCHANGED session
      BY <1>7, <3>0, Zenon DEF Return
    <3>2. cb'.then = "end"
      BY <3>1 DEF NoCb, Call
    <3> QED
      BY <1>0, <2>0, <2>3, <3>1, <3>2 DEF Released, Reldisp
  <2>4. CASE cb.then = "acquire" /\ Windowed(cb.out + 1) = {}
    <3>0. /\ cb.then # "end" /\ cb.then # "deferred" /\ cb.then # "release"
          /\ Windowed(cb.out + 1) = {}
      BY <2>4
    <3>1. session' = "active" /\ cb' = NoCb /\ UNCHANGED <<master, vt>>
      BY <1>7, <3>0, Zenon DEF Return
    <3>2. cb'.then = "end"
      BY <3>1 DEF NoCb, Call
    <3> QED
      BY <1>0, <2>0, <2>4, <3>1, <3>2
  <2> QED
    BY <2>0, <2>1, <2>2, <2>3, <2>4
<1>8. CASE \E o \in Outputs : VerticalBlank(o) \/ OtherMode(o)
  BY <1>1, <1>8 DEF VerticalBlank, OtherMode, vtVars
<1>9. CASE SwitchAway
  <2>1. /\ session # "none" /\ vt = "ours" /\ sig = FALSE /\ session = "active"
        /\ vt' = "leaving" /\ sig' = TRUE /\ UNCHANGED <<session, master, cb>>
    BY <1>0, <1>9 DEF SwitchAway
  <2> QED
    BY <2>1
<1>10. CASE SwitchBack
  <2>1. vt = "away" /\ vt' = "ours" /\ sig' = TRUE /\ UNCHANGED <<session, master, cb>>
    BY <1>10 DEF SwitchBack
  <2> QED
    BY <1>0, <2>1
<1>11. CASE UNCHANGED vars
  BY <1>1, <1>11 DEF vars, vtVars
<1> QED
  BY <1>2, <1>3, <1>4, <1>5, <1>6, <1>7, <1>8, <1>9, <1>10, <1>11 DEF Next, Kernel

\* While nobody switches away again before the last way back was handled, the
\* session is active, and the program master, exactly on its own terminal.
THEOREM SessionCorrect ==
  ASSUME Hasty = FALSE
  PROVE  Spec => []SessionAgrees
<1>1. ControlInv /\ SessionInv /\ [Next]_vars => ControlInv' /\ SessionInv'
  BY ControlStep, SessionStep
<1>2. ControlInv /\ SessionInv => SessionAgrees
  <2> SUFFICES ASSUME SessionInv, sig = FALSE, session # "none",
                      cb.then \notin {"release", "acquire"}
               PROVE  /\ session = "active" <=> vt = "ours"
                      /\ session = "active" <=> master
    BY DEF SessionAgrees, ControlInv, TypeOK
  <2> QED
    BY DEF SessionInv
<1> QED
  BY ControlInit, SessionInit, <1>1, <1>2, PTL DEF Spec

-----------------------------------------------------------------------------
(* The contract of drawing *)

\* The environment of the contract: no commit fails, the terminal stays the
\* program's, the application draws in draw callbacks only, and destroys no
\* window with a flip on its way.
Settled ==
  FlipFails = FALSE /\ Switches = FALSE /\ FreeDraw = FALSE /\ DestroyFlipping = FALSE

\* The program keeps its terminal and its mode, and no signal is handled.
QuietInv ==
  /\ sig = FALSE /\ vt = "ours" /\ master = TRUE /\ \A o \in Outputs : moded[o] = TRUE
  /\ cb.then \in {"end", "deferred"}
  /\ cb.then = "deferred" => cb.fn = "resize"

\* No window is destroyed with a flip on its way: a flip finds its window.
MatchInv ==
  /\ heirs = {}
  /\ \A o \in Outputs : FlipUnderway(o) => outWindow[o] # NoWindow

\* A live window owes its draw event in one place at most: the deferred events
\* while no buffer waits for its flip, the flag redraw while one does.  A buffer
\* is drawn in the window's draw callback only, which drew exactly when a buffer
\* waits.
Single(w) ==
  /\ "draw" \in deferEvents[w] => pending[w] = 0 /\ redraw[w] = FALSE
  /\ redraw[w] = TRUE => pending[w] # 0
  /\ InDraw(w) =>
       IF cb.drew = TRUE THEN pending[w] # 0
                         ELSE "draw" \notin deferEvents[w] /\ redraw[w] = FALSE
  /\ active[w] # 0 => InDraw(w) /\ cb.drew = FALSE

DrawInv ==
  \A w \in Window :
    /\ status[w] = "unborn" => redraw[w] = FALSE /\ ~InDraw(w)
    /\ Live(w) => Single(w)

LEMMA MatchStep ==
  ASSUME FlipInv, MatchInv, Settled, [Next]_vars
  PROVE  MatchInv'
<1> USE DEF MatchInv, FlipInv, ControlInv
<1>a. ASSUME UNCHANGED <<heirs, outWindow, flight, flipEvents>> PROVE MatchInv'
  BY <1>a DEF FlipUnderway, Queued
<1>1. ASSUME NEW w \in Window, NEW s \in Surfaces, NEW ok \in BOOLEAN, CreateWindow(w, s, ok)
      PROVE  MatchInv'
  <2>1. UNCHANGED <<flight, flipEvents>>
    BY <1>1 DEF CreateWindow, kernelVars
  <2>2. CASE UNCHANGED outVars
    BY <2>1, <2>2, <1>a DEF outVars
  <2>3. ASSUME NEW o \in Free,
               outWindow' = [outWindow EXCEPT ![o] = IF ok THEN w ELSE NoWindow],
               heirs' = IF ok /\ FlipUnderway(o) THEN heirs \cup {w} ELSE heirs
        PROVE  MatchInv'
    <3>1. ~FlipUnderway(o)
      BY DEF Free
    <3>2. \A p \in Outputs : FlipUnderway(p)' <=> FlipUnderway(p)
      BY <2>1 DEF FlipUnderway, Queued
    <3>3. \A p \in Outputs : p # o => outWindow'[p] = outWindow[p]
      BY <2>3 DEF TypeOK
    <3> QED
      BY <2>3, <3>1, <3>2, <3>3
  <2> QED
    BY <1>1, <2>2, <2>3 DEF CreateWindow
<1>2. ASSUME NEW w \in Window, DestroyWindow(w) PROVE MatchInv'
  <2>1. UNCHANGED <<heirs, flight, flipEvents>> /\ ~FlipUnderway(output[w])
    BY <1>2 DEF DestroyWindow, kernelVars, Settled
  <2>2. \A p \in Outputs : FlipUnderway(p)' <=> FlipUnderway(p)
    BY <2>1 DEF FlipUnderway, Queued
  <2>3. \A p \in Outputs : p # output[w] => outWindow'[p] = outWindow[p]
    BY <1>2 DEF DestroyWindow, TypeOK
  <2> QED
    BY <2>1, <2>2, <2>3
<1>3. ASSUME NEW w \in Window, NEW ok \in BOOLEAN, ApplyBuffer(w, ok) \/ SwapBuffers(w, ok)
      PROVE  MatchInv'
  <2>1. UNCHANGED <<heirs, outWindow, flipEvents>> /\ Live(w) /\ \E b : PageFlip(w, b, ok)
    BY <1>3 DEF ApplyBuffer, SwapBuffers, MayDraw
  <2>2. output[w] \in Outputs /\ outWindow[output[w]] # NoWindow
    BY <2>1, WindowAssumption DEF OutputInv
  <2>3. \A p \in Outputs : p # output[w] => flight'[p] = flight[p]
    BY <2>1 DEF PageFlip, TypeOK
  <2>4. \A p \in Outputs : p # output[w] => (FlipUnderway(p)' <=> FlipUnderway(p))
    BY <2>1, <2>3 DEF FlipUnderway, Queued
  <2> QED
    BY <2>1, <2>2, <2>4
<1>4. CASE PageFlipHandler
  <2>1. UNCHANGED <<heirs, outWindow, flight>> /\ flipEvents' = Tail(flipEvents)
        /\ flipEvents # <<>> /\ flipEvents \in Seq(Outputs)
    BY <1>4 DEF PageFlipHandler, outVars, TypeOK
  <2>2. \A p : Queued(p)' => Queued(p)
    <3>1. (\A p : Queued(p) <=> InQueue(flipEvents, p))
          /\ (\A p : Queued(p)' <=> InQueue(flipEvents', p))
      BY DEF Queued, InQueue
    <3>2. \A p : InQueue(Tail(flipEvents), p) => InQueue(flipEvents, p)
      BY <2>1, TailQueue
    <3> QED
      BY <2>1, <3>1, <3>2
  <2> QED
    BY <2>1, <2>2 DEF FlipUnderway
<1>5. ASSUME NEW o \in Outputs, VerticalBlank(o) PROVE MatchInv'
  <2>1. UNCHANGED <<heirs, outWindow>> /\ flipEvents' = Append(flipEvents, o)
        /\ flipEvents \in Seq(Outputs) /\ FlipUnderway(o)
        /\ flight' = [flight EXCEPT ![o] = NoFlip]
    BY <1>5 DEF VerticalBlank, outVars, TypeOK, FlipUnderway
  <2>2. \A p : Queued(p)' <=> Queued(p) \/ p = o
    <3>1. (\A p : Queued(p) <=> InQueue(flipEvents, p))
          /\ (\A p : Queued(p)' <=> InQueue(flipEvents', p))
      BY DEF Queued, InQueue
    <3>2. \A p : InQueue(Append(flipEvents, o), p) <=> InQueue(flipEvents, p) \/ p = o
      BY <2>1, AppendQueue
    <3> QED
      BY <2>1, <3>1, <3>2
  <2>3. \A p \in Outputs : FlipUnderway(p)' => FlipUnderway(p)
    BY <2>1, <2>2 DEF FlipUnderway, TypeOK
  <2> QED
    BY <2>1, <2>3
<1>6. CASE \/ \E w \in Window : HandleDeferred(w) \/ Refresh(w) \/ GetBuffer(w)
           \/ \E o \in Outputs : OtherMode(o)
           \/ Release \/ Acquire \/ Return \/ SwitchAway \/ SwitchBack \/ UNCHANGED vars
  <2>1. UNCHANGED <<outVars, flight, flipEvents>>
    BY <1>6 DEF HandleDeferred, Refresh, GetBuffer, OtherMode, Release, Acquire, Return,
       SwitchAway, SwitchBack, vars, kernelVars
  <2> QED
    BY <1>a, <2>1 DEF outVars
<1> QED
  BY <1>1, <1>2, <1>3, <1>4, <1>5, <1>6 DEF Next, App, Kernel

LEMMA QuietStep ==
  ASSUME ControlInv, QuietInv, Settled, [Next]_vars
  PROVE  QuietInv'
<1> USE DEF QuietInv
<1>0. NoCb.then = "end" /\ \A fn, w, then, o : /\ Call(fn, w, then, o).then = then
                                               /\ Call(fn, w, then, o).fn = fn
  BY DEF NoCb, Call
<1>1. CASE UNCHANGED <<sig, vt, master, moded, cb>>
  BY <1>1
<1>2. ASSUME NEW w \in Window, App(w) PROVE QuietInv'
  <2>1. CASE \/ \E s \in Surfaces, ok \in BOOLEAN : CreateWindow(w, s, ok)
             \/ DestroyWindow(w) \/ Refresh(w) \/ GetBuffer(w)
    BY <1>1, <2>1 DEF CreateWindow, DestroyWindow, Refresh, GetBuffer, vtVars, kernelVars
  <2>2. ASSUME NEW ok \in BOOLEAN, ApplyBuffer(w, ok) \/ SwapBuffers(w, ok)
        PROVE  QuietInv'
    <3>1. UNCHANGED vtVars /\ Drew(w) /\ \E b : PageFlip(w, b, ok)
      BY <2>2 DEF ApplyBuffer, SwapBuffers
    <3>2. cb'.fn = cb.fn /\ cb'.then = cb.then
      BY <3>1, DrewType DEF ControlInv, TypeOK
    <3>3. \A o \in Outputs : moded'[o] = TRUE
      <4>1. moded' = moded \/ moded' = [moded EXCEPT ![output[w]] = TRUE]
        BY <3>1 DEF PageFlip
      <4> QED
        BY <4>1 DEF ControlInv, TypeOK
    <3> QED
      BY <3>1, <3>2, <3>3 DEF vtVars
  <2> QED
    BY <1>2, <2>1, <2>2 DEF App
<1>3. ASSUME NEW w \in Window, HandleDeferred(w) PROVE QuietInv'
  <2>1. UNCHANGED <<sig, vt, master, moded>>
    BY <1>3 DEF HandleDeferred, vtVars, kernelVars
  <2>2. \/ cb' = Call("resize", w, "deferred", 0)
        \/ cb' = NoCb \/ cb' = Call("draw", w, "end", 0)
    BY <1>3 DEF HandleDeferred, DeferredDraw, DrawEvent
  <2> QED
    BY <1>0, <2>1, <2>2
<1>4. CASE PageFlipHandler
  <2>1. UNCHANGED <<sig, vt, master, moded>>
    BY <1>4 DEF PageFlipHandler, vtVars
  <2>2. cb' = cb \/ \E w : cb' = Call("draw", w, "end", 0)
    BY <1>4 DEF PageFlipHandler, RedrawAfterFlip, DrawEvent
  <2> QED
    BY <1>0, <2>1, <2>2
<1>5. CASE Return
  <2>1. UNCHANGED <<sig, moded, master, vt>>
    BY <1>5 DEF Return, kernelVars
  <2>2. cb' = NoCb \/ \E w : cb' = Call("draw", w, "end", 0)
    BY <1>5 DEF Return, DeferredDraw, DrawEvent
  <2> QED
    BY <1>0, <2>1, <2>2
<1>6. CASE Kernel
  <2>1. \E o \in Outputs : VerticalBlank(o)
    BY <1>6 DEF Kernel, OtherMode, SwitchAway, SwitchBack, Settled
  <2> QED
    BY <1>1, <2>1 DEF VerticalBlank, vtVars
<1>7. ~Release /\ ~Acquire
  BY DEF Release, Acquire
<1>8. CASE UNCHANGED vars
  BY <1>1, <1>8 DEF vars, vtVars, kernelVars
<1> QED
  BY <1>2, <1>3, <1>4, <1>5, <1>6, <1>7, <1>8 DEF Next

Alive == {w \in Window : Live(w)}
Owing == {w \in Window : Live(w) /\ ("draw" \in deferEvents[w] \/ redraw[w])}
Throttled == {w \in Window : Live(w) /\ pending[w] # 0}
Drawing == IF cb.fn = "draw" THEN {cb.win} ELSE {}

\* What of a window the contract and Single do not see to change.
Untouched(v) == UNCHANGED <<status[v], deferEvents[v], redraw[v], pending[v], active[v]>>

\* The callback has not changed for the window, or it has none any more.
SameCall(v) ==
  \/ (InDraw(v)' <=> InDraw(v)) /\ cb'.drew = cb.drew
  \/ ~InDraw(v)' /\ active[v] = 0

\* A step that touches one window only.
LEMMA OneWindow ==
  ASSUME DrawInv, NEW w \in Window,
         \A v \in Window \ {w} : Untouched(v) /\ SameCall(v)
  PROVE  /\ Alive' \ {w} = Alive \ {w}
         /\ Owing' \ {w} = Owing \ {w}
         /\ Throttled' \ {w} = Throttled \ {w}
         /\ status'[w] # "unborn" /\ (Live(w)' => Single(w)') => DrawInv'
<1>1. ASSUME NEW v \in Window \ {w}
      PROVE  /\ status'[v] = "unborn" => redraw'[v] = FALSE /\ ~InDraw(v)'
             /\ Live(v)' => Single(v)'
  BY <1>1 DEF DrawInv, Untouched, SameCall, Single, Live
<1>2. status'[w] # "unborn" /\ (Live(w)' => Single(w)') => DrawInv'
  BY <1>1 DEF DrawInv
<1>3. /\ Alive' \ {w} = Alive \ {w}
      /\ Owing' \ {w} = Owing \ {w}
      /\ Throttled' \ {w} = Throttled \ {w}
  BY DEF Alive, Owing, Throttled, Untouched, Live
<1> QED
  BY <1>2, <1>3

\* A step that touches no window, with the same draw callback or none.
LEMMA NoWindowTouched ==
  ASSUME DrawInv, \A v \in Window : Untouched(v) /\ SameCall(v)
  PROVE  DrawInv' /\ Alive' = Alive /\ Owing' = Owing /\ Throttled' = Throttled
<1>1. ASSUME NEW v \in Window
      PROVE  /\ status'[v] = "unborn" => redraw'[v] = FALSE /\ ~InDraw(v)'
             /\ Live(v)' => Single(v)'
  BY <1>1 DEF DrawInv, Untouched, SameCall, Single, Live
<1> QED
  BY <1>1 DEF DrawInv, Alive, Owing, Throttled, Untouched, Live

\* The steps of the contract, in the sets above.
LEMMA ContractSteps ==
  ASSUME NEW w \in Window
  PROVE  /\ /\ w \in Alive /\ Owing' = Owing \cup {w}
            /\ Alive' = Alive /\ Throttled' = Throttled /\ Drawing' = Drawing
            => Contract!Next
         /\ /\ w \in Alive /\ Throttled' = Throttled \cup {w}
            /\ Alive' = Alive /\ Owing' = Owing /\ Drawing' = Drawing
            => Contract!Next
         /\ /\ w \in Alive /\ Alive' = Alive \ {w} /\ Owing' = Owing \ {w}
            /\ Throttled' = Throttled \ {w} /\ Drawing' = Drawing
            => Contract!Next
         /\ /\ w \notin Alive /\ Alive' = Alive \cup {w} /\ Owing' = Owing \cup {w}
            /\ Throttled' = Throttled /\ Drawing' = Drawing
            => Contract!Next
         /\ /\ Drawing = {} /\ w \in Owing /\ w \notin Throttled
            /\ Owing' = Owing \ {w} /\ Drawing' = {w}
            /\ Alive' = Alive /\ Throttled' = Throttled
            => Contract!Next
         /\ /\ w \in Throttled /\ Throttled' = Throttled \ {w} /\ Alive' = Alive
            /\ \/ /\ w \in Owing /\ Drawing = {} /\ Drawing' = {w} /\ Owing' = Owing \ {w}
               \/ w \notin Owing /\ Owing' = Owing /\ Drawing' = Drawing
            => Contract!Next
<1>1. (/\ w \in Alive /\ Owing' = Owing \cup {w}
       /\ Alive' = Alive /\ Throttled' = Throttled /\ Drawing' = Drawing) => Contract!Ask(w)
  BY DEF Contract!Ask, Owing, Alive, Throttled, Drawing
<1>2. (/\ w \in Alive /\ Throttled' = Throttled \cup {w}
       /\ Alive' = Alive /\ Owing' = Owing /\ Drawing' = Drawing) => Contract!Frame(w)
  BY DEF Contract!Frame, Owing, Alive, Throttled, Drawing
<1>3. (/\ w \in Alive /\ Alive' = Alive \ {w} /\ Owing' = Owing \ {w}
       /\ Throttled' = Throttled \ {w} /\ Drawing' = Drawing) => Contract!Destroy(w)
  BY DEF Contract!Destroy, Owing, Alive, Throttled, Drawing
<1>4. (/\ w \notin Alive /\ Alive' = Alive \cup {w} /\ Owing' = Owing \cup {w}
       /\ Throttled' = Throttled /\ Drawing' = Drawing) => Contract!Create(w)
  BY DEF Contract!Create, Owing, Alive, Throttled, Drawing
<1>5. (/\ Drawing = {} /\ w \in Owing /\ w \notin Throttled
       /\ Owing' = Owing \ {w} /\ Drawing' = {w}
       /\ Alive' = Alive /\ Throttled' = Throttled) => Contract!Draw(w)
  BY DEF Contract!Draw, Owing, Alive, Throttled, Drawing
<1>6. (/\ w \in Throttled /\ Throttled' = Throttled \ {w} /\ Alive' = Alive
       /\ \/ /\ w \in Owing /\ Drawing = {} /\ Drawing' = {w} /\ Owing' = Owing \ {w}
          \/ w \notin Owing /\ Owing' = Owing /\ Drawing' = Drawing) => Contract!FrameEnd(w)
  BY DEF Contract!FrameEnd, Owing, Alive, Throttled, Drawing
<1> QED
  BY <1>1, <1>2, <1>3, <1>4, <1>5, <1>6 DEF Contract!Next

LEMMA Stutter ==
  ASSUME Owing' = Owing, Alive' = Alive, Throttled' = Throttled, Drawing' = Drawing
  PROVE  UNCHANGED Contract!redrawVars
BY DEF Contract!redrawVars, Owing, Alive, Throttled, Drawing

\* Sets that agree on all elements but one.
LEMMA AgreeBut ==
  ASSUME NEW S, NEW T, NEW w, S \ {w} = T \ {w}
  PROVE  /\ (w \in S <=> w \in T) => S = T
         /\ w \in S => S = T \cup {w}
         /\ w \notin S => S = T \ {w}
OBVIOUS

DrawStep == DrawInv' /\ (Contract!Next \/ UNCHANGED Contract!redrawVars)

LEMMA DrawCreate ==
  ASSUME FlipInv, DrawInv, NEW w \in Window, NEW s \in Surfaces, NEW ok \in BOOLEAN,
         CreateWindow(w, s, ok)
  PROVE  DrawStep
<1> USE DEF FlipInv, ControlInv, TypeOK
<1>1. /\ UNCHANGED <<redraw, active, pending, cb>> /\ status[w] = "unborn"
      /\ pending[w] = 0 /\ redraw[w] = FALSE /\ active[w] = 0
  BY DEF CreateWindow, bufVars, WaitInv, DrawInv, BufferInv, Live
<1>2. /\ \A v \in Window \ {w} : status'[v] = status[v] /\ deferEvents'[v] = deferEvents[v]
      /\ \/ status'[w] = "freed"
         \/ status'[w] = "live" /\ deferEvents'[w] = {"draw", "size"}
  <2>1. CASE status' = [status EXCEPT ![w] = "freed"] /\ UNCHANGED deferVars
    BY <2>1 DEF deferVars
  <2>2. CASE /\ status' = [status EXCEPT ![w] = IF ok THEN "live" ELSE "freed"]
             /\ deferEvents' = [deferEvents EXCEPT ![w] = IF ok THEN {"draw", "size"} ELSE {}]
    BY <2>2
  <2> QED
    BY <2>1, <2>2 DEF CreateWindow
<1>3. \A v \in Window \ {w} : Untouched(v) /\ SameCall(v)
  BY <1>1, <1>2 DEF Untouched, SameCall, InDraw
<1>4. ~(InDraw(w)' /\ Live(w)')
  <2>1. ~InDraw(w)
    BY <1>1 DEF DrawInv
  <2> QED
    BY <1>1, <2>1 DEF InDraw
<1>5. DrawInv'
  <2>1. Live(w)' => Single(w)'
    BY <1>1, <1>2, <1>4 DEF Single, Live
  <2>2. status'[w] # "unborn"
    BY <1>2
  <2> QED
    BY <1>3, <2>1, <2>2, OneWindow
<1>6. /\ Drawing' = Drawing /\ w \notin Alive /\ w \notin Owing
      /\ w \notin Throttled /\ w \notin Throttled'
  BY <1>1 DEF Drawing, Alive, Owing, Throttled, Live
<1>7. /\ Alive' \ {w} = Alive \ {w} /\ Owing' \ {w} = Owing \ {w}
      /\ Throttled' \ {w} = Throttled \ {w}
  BY <1>3, OneWindow
<1>8. /\ Throttled' = Throttled
      /\ w \in Alive' => Alive' = Alive \cup {w}
      /\ w \in Owing' => Owing' = Owing \cup {w}
      /\ w \notin Alive' => Alive' = Alive
      /\ w \notin Owing' => Owing' = Owing
  <2>1. Throttled' = Throttled
    BY <1>6, <1>7, AgreeBut
  <2>2. (w \in Alive' => Alive' = Alive \cup {w}) /\ (w \notin Alive' => Alive' = Alive)
    <3>1. ASSUME w \in Alive' PROVE Alive' = Alive \cup {w}
      BY <1>7, <3>1, AgreeBut
    <3>2. ASSUME w \notin Alive' PROVE Alive' = Alive
      BY <1>6, <1>7, <3>2, AgreeBut
    <3> QED
      BY <3>1, <3>2
  <2>3. (w \in Owing' => Owing' = Owing \cup {w}) /\ (w \notin Owing' => Owing' = Owing)
    BY <1>6, <1>7, AgreeBut
  <2> QED
    BY <2>1, <2>2, <2>3
<1>9. w \in Alive' <=> w \in Owing'
  BY <1>2 DEF Alive, Owing, Live
<1> QED
  BY <1>5, <1>6, <1>8, <1>9, ContractSteps, Stutter DEF DrawStep

LEMMA DrawDestroy ==
  ASSUME FlipInv, DrawInv, NEW w \in Window, DestroyWindow(w)
  PROVE  DrawStep
<1> USE DEF FlipInv, ControlInv, TypeOK
<1>1. /\ UNCHANGED <<redraw, deferEvents, pending, cb>> /\ Live(w)
      /\ status' = [status EXCEPT ![w] = "freed"]
      /\ active' = [active EXCEPT ![w] = 0]
  BY DEF DestroyWindow, deferVars
<1>2. status'[w] = "freed" /\ ~Live(w)'
  BY <1>1 DEF Live
<1>3. \A v \in Window \ {w} : Untouched(v) /\ SameCall(v)
  BY <1>1 DEF Untouched, SameCall, InDraw
<1>4. DrawInv' /\ Alive' \ {w} = Alive \ {w} /\ Owing' \ {w} = Owing \ {w}
      /\ Throttled' \ {w} = Throttled \ {w}
  BY <1>2, <1>3, OneWindow
<1>5. /\ w \in Alive /\ w \notin Alive' /\ w \notin Owing' /\ w \notin Throttled'
      /\ Drawing' = Drawing
  BY <1>1, <1>2 DEF Alive, Owing, Throttled, Drawing
<1>6. Alive' = Alive \ {w} /\ Owing' = Owing \ {w} /\ Throttled' = Throttled \ {w}
  BY <1>4, <1>5, AgreeBut
<1> QED
  BY <1>4, <1>5, <1>6, ContractSteps DEF DrawStep

LEMMA DrawRefresh ==
  ASSUME FlipInv, DrawInv, NEW w \in Window, Refresh(w)
  PROVE  DrawStep
<1> USE DEF FlipInv, ControlInv, TypeOK
<1>1. /\ UNCHANGED <<status, active, pending, cb>> /\ Live(w)
      /\ InDraw(w) => cb.drew = TRUE
  BY DEF Refresh, bufVars, Callback
<1>2. Single(w)
  BY <1>1 DEF DrawInv
<1>3. /\ \A v \in Window \ {w} : redraw'[v] = redraw[v] /\ deferEvents'[v] = deferEvents[v]
      /\ \/ /\ pending[w] = 0 /\ redraw' = redraw
            /\ deferEvents'[w] = deferEvents[w] \cup {"draw"}
         \/ /\ pending[w] # 0 \/ active[w] # 0
            /\ deferEvents' = deferEvents /\ redraw'[w] = TRUE
  <2>1. CASE RefreshNow(w)
    BY <2>1 DEF Refresh, DeferDraw, RefreshNow
  <2>2. CASE ~RefreshNow(w)
    BY <2>2 DEF Refresh, RefreshNow, deferVars
  <2> QED
    BY <2>1, <2>2
<1>4. \A v \in Window \ {w} : Untouched(v) /\ SameCall(v)
  BY <1>1, <1>3 DEF Untouched, SameCall, InDraw
<1>5. active[w] = 0
  BY <1>1, <1>2 DEF Single
<1>6. Single(w)' /\ status'[w] # "unborn"
  BY <1>1, <1>2, <1>3, <1>5 DEF Single, InDraw, Live
<1>7. DrawInv' /\ Alive' \ {w} = Alive \ {w} /\ Owing' \ {w} = Owing \ {w}
      /\ Throttled' \ {w} = Throttled \ {w}
  BY <1>4, <1>6, OneWindow
<1>8. Alive' = Alive /\ Throttled' = Throttled /\ Drawing' = Drawing /\ w \in Alive
  BY <1>1 DEF Alive, Throttled, Drawing, Live
<1>9. w \in Owing'
  BY <1>1, <1>3 DEF Owing, Live
<1>10. Owing' = Owing \cup {w}
  BY <1>7, <1>9, AgreeBut
<1> QED
  BY <1>7, <1>8, <1>10, ContractSteps DEF DrawStep

LEMMA DrawGet ==
  ASSUME FlipInv, DrawInv, Settled, NEW w \in Window, GetBuffer(w)
  PROVE  DrawStep
<1> USE DEF FlipInv, ControlInv, TypeOK
<1>1. /\ UNCHANGED <<status, redraw, deferEvents, pending, cb>> /\ Live(w) /\ InDraw(w)
      /\ pending[w] = 0
      /\ active' = [active EXCEPT ![w] = Unused(w)]
  BY DEF GetBuffer, MayDraw, Settled, deferVars
<1>2. cb.drew = FALSE
  BY <1>1 DEF DrawInv, Single, Callback
<1>3. \A v \in Window \ {w} : Untouched(v) /\ SameCall(v)
  BY <1>1 DEF Untouched, SameCall, InDraw
<1>4. Single(w)' /\ status'[w] # "unborn"
  BY <1>1, <1>2 DEF Single, InDraw, Live, DrawInv
<1>5. DrawInv'
  BY <1>3, <1>4, OneWindow
<1>6. Owing' = Owing /\ Alive' = Alive /\ Throttled' = Throttled /\ Drawing' = Drawing
  BY <1>1 DEF Owing, Alive, Throttled, Drawing, Live
<1> QED
  BY <1>5, <1>6, Stutter DEF DrawStep

\* A buffer is submitted: while the terminal is the program's, no commit fails.
LEMMA DrawSubmit ==
  ASSUME FlipInv, MatchInv, DrawInv, QuietInv, Settled, NEW w \in Window, NEW ok \in BOOLEAN,
         ApplyBuffer(w, ok) \/ SwapBuffers(w, ok)
  PROVE  DrawStep
<1> USE DEF FlipInv, ControlInv, TypeOK
<1>1. /\ UNCHANGED <<status, redraw, deferEvents>> /\ Live(w) /\ Drew(w)
      /\ pending[w] = 0 /\ ok \in Results(w)
  BY DEF ApplyBuffer, SwapBuffers, MayDraw, BufferInv, deferVars
<1>2. InDraw(w) /\ cb.win = w
  BY <1>1 DEF ApplyBuffer, SwapBuffers, MayDraw, Settled, DrawInv, Single, InDraw
<1>3. cb.drew = FALSE
  BY <1>1, <1>2 DEF DrawInv, Single, Callback
<1>4. ok = TRUE
  <2>1. output[w] \in Outputs /\ outWindow[output[w]] = w
    BY <1>1 DEF OutputInv
  <2>2. flight[output[w]] = NoFlip
    <3>1. Awaited(output[w]) /\ outWindow[output[w]] # NoWindow
      BY <2>1, WindowAssumption DEF FlightInv, MatchInv, Clean
    <3> QED
      BY <1>1, <2>1, <3>1 DEF Awaited, FlipUnderway
  <2>3. Accepted(w)
    BY <2>1, <2>2 DEF Accepted, QuietInv
  <2> QED
    BY <1>1, <2>3 DEF Results, Settled
<1>5. PICK b \in Buffers : pending' = [pending EXCEPT ![w] = b]
  <2>1. CASE ApplyBuffer(w, ok)
    <3>1. pending' = [pending EXCEPT ![w] = active[w]] /\ active[w] \in Buffers
      BY <1>4, <2>1 DEF ApplyBuffer
    <3> QED
      BY <3>1
  <2>2. CASE SwapBuffers(w, ok)
    BY <2>2 DEF SwapBuffers
  <2> QED
    BY <2>1, <2>2
<1>6. cb'.fn = cb.fn /\ cb'.win = cb.win /\ cb'.drew = TRUE
  <2>1. cb' = [cb EXCEPT !.drew = TRUE]
    BY <1>1, <1>2 DEF Drew
  <2> QED
    BY <2>1 DEF Callback
<1>7. (\A v \in Window \ {w} : active'[v] = active[v]) /\ active'[w] = 0
  <2>1. (active[w] # 0 /\ active' = [active EXCEPT ![w] = 0]) \/ active' = active
    BY DEF ApplyBuffer, SwapBuffers
  <2>2. active[w] = 0 \/ active' = [active EXCEPT ![w] = 0]
    BY DEF ApplyBuffer, SwapBuffers, BufferInv
  <2> QED
    BY <2>1, <2>2
<1>8. \A v \in Window \ {w} : Untouched(v) /\ SameCall(v)
  <2>1. \A v \in Window \ {w} : ~InDraw(v)' /\ active[v] = 0
    BY <1>2, <1>6 DEF InDraw, BufferInv, DrawInv, Single
  <2> QED
    BY <1>1, <1>5, <1>7, <2>1 DEF Untouched, SameCall
<1>9. pending'[w] # 0
  BY <1>5 DEF Buffers
<1>10. Single(w)' /\ status'[w] # "unborn"
  BY <1>1, <1>2, <1>3, <1>6, <1>7, <1>9 DEF Single, InDraw, Live, DrawInv
<1>11. DrawInv' /\ Throttled' \ {w} = Throttled \ {w}
  BY <1>8, <1>10, OneWindow
<1>12. Alive' = Alive /\ Owing' = Owing /\ Drawing' = Drawing /\ w \in Alive
  BY <1>1, <1>6 DEF Alive, Owing, Drawing, Live
<1>13. w \in Throttled'
  BY <1>1, <1>9 DEF Throttled, Live
<1>14. Throttled' = Throttled \cup {w}
  BY <1>11, <1>13, AgreeBut
<1> QED
  BY <1>11, <1>12, <1>14, ContractSteps DEF DrawStep

LEMMA CallFields ==
  /\ NoCb.fn = "none" /\ NoCb.then = "end" /\ NoCb.drew = FALSE /\ NoCb.win = NoWindow
  /\ \A fn, w, then, o : /\ Call(fn, w, then, o).fn = fn /\ Call(fn, w, then, o).win = w
                         /\ Call(fn, w, then, o).then = then
                         /\ Call(fn, w, then, o).drew = FALSE
BY DEF NoCb, Call

\* The second part of win_handle_deferred, for a window that owes at most one
\* draw event.
LEMMA DrawDeferredDraw ==
  ASSUME FlipInv, DrawInv, NEW w \in Window, NEW ev \in SUBSET {"draw", "size"},
         Live(w), cb.fn # "draw", Undrawn,
         "draw" \in ev <=> "draw" \in deferEvents[w], DeferredDraw(w, ev),
         UNCHANGED <<status, redraw, pending, active>>
  PROVE  DrawStep
<1> USE CallFields DEF FlipInv, ControlInv, TypeOK
<1>1. Single(w) /\ Drawing = {} /\ active[w] = 0
  BY DEF DrawInv, Drawing, Undrawn
<1>2. /\ \A v \in Window \ {w} : deferEvents'[v] = deferEvents[v]
      /\ deferEvents'[w] = ev \ {"draw"}
  BY DEF DeferredDraw
<1>3. cb' = IF "draw" \in ev THEN Call("draw", w, "end", 0) ELSE NoCb
  BY DEF DeferredDraw, DrawEvent
<1>4. \A v \in Window \ {w} : Untouched(v) /\ SameCall(v)
  BY <1>2, <1>3 DEF Untouched, SameCall, InDraw, Undrawn
<1>5. "draw" \notin deferEvents'[w] /\ status'[w] # "unborn"
  BY <1>2 DEF Live
<1>6. Single(w)'
  <2>1. CASE "draw" \in ev
    BY <1>1, <1>3, <1>5, <2>1 DEF Single, InDraw
  <2>2. CASE "draw" \notin ev
    BY <1>1, <1>3, <1>5, <2>2 DEF Single, InDraw
  <2> QED
    BY <2>1, <2>2
<1>7. DrawInv' /\ Owing' \ {w} = Owing \ {w}
  BY <1>4, <1>5, <1>6, OneWindow
<1>8. Alive' = Alive /\ Throttled' = Throttled
  BY DEF Alive, Throttled, Live
<1>9. CASE "draw" \in ev
  <2>1. w \in Owing /\ w \notin Throttled /\ w \notin Owing' /\ Drawing' = {w}
    BY <1>1, <1>3, <1>5, <1>9 DEF Owing, Throttled, Drawing, Single
  <2>2. Owing' = Owing \ {w}
    BY <1>7, <2>1, AgreeBut
  <2> QED
    BY <1>1, <1>7, <1>8, <2>1, <2>2, ContractSteps DEF DrawStep
<1>10. CASE "draw" \notin ev
  <2>1. w \in Owing <=> w \in Owing'
    BY <1>5, <1>10 DEF Owing, Live
  <2>2. Owing' = Owing /\ Drawing' = Drawing
    BY <1>1, <1>3, <1>7, <1>10, <2>1, AgreeBut DEF Drawing
  <2> QED
    BY <1>7, <1>8, <2>2, Stutter DEF DrawStep
<1> QED
  BY <1>9, <1>10

LEMMA DrawHandleDeferred ==
  ASSUME FlipInv, DrawInv, NEW w \in Window, HandleDeferred(w)
  PROVE  DrawStep
<1> USE CallFields DEF FlipInv, ControlInv, TypeOK
<1>1. /\ cb = NoCb /\ Undrawn /\ Live(w) /\ UNCHANGED <<status, redraw, pending, active>>
  BY DEF HandleDeferred, Idle, bufVars
<1>2. CASE "size" \in deferEvents[w]
  <2>1. /\ deferEvents' = [deferEvents EXCEPT ![w] = @ \ {"size"}]
        /\ cb' = Call("resize", w, "deferred", 0)
    BY <1>2 DEF HandleDeferred
  <2>2. \A v \in Window : "draw" \in deferEvents'[v] <=> "draw" \in deferEvents[v]
    BY <2>1
  <2>3. \A v \in Window : ~InDraw(v) /\ ~InDraw(v)'
    BY <1>1, <2>1 DEF InDraw
  <2>4. DrawInv'
    BY <1>1, <2>2, <2>3 DEF DrawInv, Single, Live
  <2>5. Alive' = Alive /\ Throttled' = Throttled /\ Owing' = Owing /\ Drawing' = Drawing
    BY <1>1, <2>1, <2>2 DEF Alive, Throttled, Owing, Drawing, Live
  <2> QED
    BY <2>4, <2>5, Stutter DEF DrawStep
<1>3. CASE "size" \notin deferEvents[w]
  <2>1. DeferredDraw(w, deferEvents[w]) /\ cb.fn # "draw"
    BY <1>1, <1>3 DEF HandleDeferred
  <2> QED
    BY <1>1, <2>1, DrawDeferredDraw
<1> QED
  BY <1>2, <1>3

LEMMA DrawFlipHandler ==
  ASSUME FlipInv, MatchInv, DrawInv, PageFlipHandler
  PROVE  DrawStep
<1> USE CallFields DEF FlipInv, ControlInv, TypeOK
<1>w. PICK w : w = outWindow[Head(flipEvents)]
  OBVIOUS
<1>1. /\ cb = NoCb /\ Undrawn /\ UNCHANGED <<status, deferEvents>>
      /\ Head(flipEvents) \in Outputs /\ Queued(Head(flipEvents))
  BY QueueTypes DEF PageFlipHandler, Idle, deferVars, Queued, InQueue
<1>2. w # NoWindow /\ w \in Window /\ pending[w] # 0 /\ Live(w)
  <2>1. w # NoWindow /\ Clean(Head(flipEvents)) /\ FlipUnderway(Head(flipEvents))
    BY <1>w, <1>1 DEF MatchInv, FlipUnderway, Clean
  <2> QED
    BY <1>w, <1>1, <2>1 DEF FlightInv, Awaited, OutputInv
<1>3. Flipped(w) /\ RedrawAfterFlip(w) /\ UNCHANGED active
  BY <1>w, <1>2 DEF PageFlipHandler
<1>r. redraw[w] = TRUE \/ redraw[w] = FALSE
  BY <1>2
<1>4. pending'[w] = 0 /\ \A v \in Window \ {w} : pending'[v] = pending[v]
  BY <1>2, <1>3 DEF Flipped
<1>5. Single(w) /\ Drawing = {} /\ active[w] = 0 /\ "draw" \notin deferEvents[w]
  BY <1>1, <1>2 DEF DrawInv, Drawing, Undrawn, Single
<1>6. /\ \A v \in Window \ {w} : redraw'[v] = redraw[v]
      /\ redraw'[w] = FALSE
      /\ cb' = IF redraw[w] = TRUE THEN Call("draw", w, "end", 0) ELSE NoCb
  <2>1. CASE redraw[w] = TRUE
    BY <1>2, <1>3, <2>1 DEF RedrawAfterFlip, DrawEvent
  <2>2. CASE redraw[w] = FALSE
    BY <1>1, <1>2, <1>3, <2>2 DEF RedrawAfterFlip
  <2> QED
    BY <1>r, <2>1, <2>2
<1>7. \A v \in Window \ {w} : Untouched(v) /\ SameCall(v)
  BY <1>1, <1>3, <1>4, <1>6 DEF Untouched, SameCall, InDraw, Undrawn
<1>8. Single(w)' /\ status'[w] # "unborn"
  <2>1. "draw" \notin deferEvents'[w] /\ active'[w] = 0 /\ status'[w] = "live"
    BY <1>1, <1>2, <1>3, <1>5 DEF Live
  <2>2. cb'.drew = FALSE
    BY <1>6
  <2> QED
    BY <1>4, <1>6, <2>1, <2>2 DEF Single, InDraw
<1>9. /\ DrawInv' /\ Owing' \ {w} = Owing \ {w} /\ Throttled' \ {w} = Throttled \ {w}
  BY <1>2, <1>7, <1>8, OneWindow
<1>10. w \in Throttled /\ w \notin Throttled' /\ w \notin Owing'
  BY <1>1, <1>2, <1>4, <1>5, <1>6 DEF Throttled, Owing
<1>11. Throttled' = Throttled \ {w} /\ Owing' = Owing \ {w}
  BY <1>9, <1>10, AgreeBut
<1>12. Alive' = Alive
  BY <1>1 DEF Alive, Live
<1>13. CASE redraw[w] = TRUE
  <2>1. w \in Owing /\ Drawing' = {w}
    BY <1>2, <1>6, <1>13 DEF Owing, Drawing
  <2> QED
    BY <1>2, <1>5, <1>9, <1>10, <1>11, <1>12, <2>1, ContractSteps DEF DrawStep
<1>14. CASE redraw[w] = FALSE
  <2>1. w \notin Owing /\ Drawing' = Drawing
    BY <1>5, <1>6, <1>14 DEF Owing, Drawing
  <2>2. Owing' = Owing
    BY <1>11, <2>1
  <2> QED
    BY <1>2, <1>9, <1>10, <1>11, <1>12, <2>1, <2>2, ContractSteps DEF DrawStep
<1> QED
  BY <1>r, <1>13, <1>14

LEMMA DrawReturn ==
  ASSUME FlipInv, DrawInv, QuietInv, Return
  PROVE  DrawStep
<1> USE CallFields DEF FlipInv, ControlInv, TypeOK
<1>1. cb # NoCb /\ Undrawn /\ UNCHANGED <<status, redraw, pending, active>>
  BY DEF Return, bufVars
<1>2. CASE cb.then = "end"
  <2>1. cb' = NoCb /\ UNCHANGED deferEvents
    BY <1>2 DEF Return, deferVars
  <2>2. \A v \in Window : Untouched(v) /\ SameCall(v)
    BY <1>1, <2>1 DEF Untouched, SameCall, InDraw, Undrawn
  <2>3. DrawInv' /\ Alive' = Alive /\ Owing' = Owing /\ Throttled' = Throttled
    BY <2>2, NoWindowTouched
  <2>4. Drawing' = {}
    BY <2>1 DEF Drawing
  <2>5. Contract!EndDraw
    BY <2>3, <2>4 DEF Contract!EndDraw, Alive, Owing, Throttled, Drawing
  <2> QED
    BY <2>3, <2>5 DEF DrawStep, Contract!Next
<1>3. CASE cb.then = "deferred"
  <2>1. cb.fn # "draw" /\ DeferredDraw(cb.win, deferEvents[cb.win]) /\ Live(cb.win)
    BY <1>3 DEF QuietInv, CallbackInv, Return
  <2>2. cb.win \in Window
    BY <1>3 DEF QuietInv, CallbackInv
  <2> QED
    BY <1>1, <2>1, <2>2, DrawDeferredDraw
<1> QED
  BY <1>2, <1>3 DEF QuietInv

LEMMA DrawSame ==
  ASSUME DrawInv, UNCHANGED <<status, deferEvents, redraw, pending, active, cb>>
  PROVE  DrawStep
<1>1. \A v \in Window : Untouched(v) /\ SameCall(v)
  BY DEF Untouched, SameCall, InDraw
<1>2. DrawInv' /\ Alive' = Alive /\ Owing' = Owing /\ Throttled' = Throttled
  BY <1>1, NoWindowTouched
<1>3. Drawing' = Drawing
  BY DEF Drawing
<1> QED
  BY <1>2, <1>3, Stutter DEF DrawStep

LEMMA DrawEach ==
  ASSUME FlipInv, MatchInv, DrawInv, QuietInv, Settled, [Next]_vars
  PROVE  DrawStep
<1>1. ASSUME NEW w \in Window, App(w) PROVE DrawStep
  BY <1>1, DrawCreate, DrawDestroy, DrawRefresh, DrawGet, DrawSubmit DEF App
<1>2. ASSUME NEW w \in Window, HandleDeferred(w) PROVE DrawStep
  BY <1>2, DrawHandleDeferred
<1>3. CASE Kernel
  BY <1>3, DrawSame DEF Kernel, VerticalBlank, OtherMode, SwitchAway, SwitchBack, Settled,
     deferVars, bufVars
<1>4. ~Release /\ ~Acquire
  BY DEF Release, Acquire, QuietInv
<1>5. CASE UNCHANGED vars
  BY <1>5, DrawSame DEF vars, deferVars, bufVars
<1> QED
  BY <1>1, <1>2, <1>3, <1>4, <1>5, DrawFlipHandler, DrawReturn DEF Next

ContractInv == FlipInv /\ MatchInv /\ QuietInv /\ DrawInv

LEMMA ContractInvariant ==
  ASSUME Settled
  PROVE  Spec => []ContractInv
<1>1. Init => ContractInv
  <2>1. Init => QuietInv /\ DrawInv
    BY CallFields DEF Init, QuietInv, DrawInv, InDraw, Live
  <2>2. Init => MatchInv
    BY DEF Init, MatchInv, FlipUnderway, Queued
  <2> QED
    BY <2>1, <2>2, FlipInit DEF ContractInv
<1>2. ContractInv /\ [Next]_vars => ContractInv'
  BY FlipStep, MatchStep, QuietStep, DrawEach DEF ContractInv, DrawStep, FlipInv, Settled
<1> QED
  BY <1>1, <1>2, PTL DEF Spec

\* On its own terminal, while commits succeed and the application draws in draw
\* callbacks only, the windows implement the contract of drawing: win_refresh,
\* win_handle_deferred and page_flip_handler answer every request with one draw
\* event, and emit none while a buffer waits for its flip.
THEOREM ContractKept ==
  ASSUME Settled
  PROVE  Spec => RedrawContract
<1>1. Init => Contract!Init
  BY CallFields DEF Init, Contract!Init, Live
<1>2. ContractInv /\ [Next]_vars => Contract!Next \/ UNCHANGED Contract!redrawVars
  BY DrawEach DEF ContractInv, DrawStep
<1>3. Spec => []ContractInv
  BY ContractInvariant
<1> QED
  BY <1>1, <1>2, <1>3, PTL DEF Spec, RedrawContract, Contract!Spec
=============================================================================

--------------------------- MODULE WlWindowProofs ---------------------------
(***************************************************************************)
(* Proofs about the Wayland windows of WlWindow, for every set of windows, *)
(* every set of sizes and every bound; last, that toplevels presented in   *)
(* their draw callbacks keep the contract of drawing stated in Redraw.     *)
(***************************************************************************)
EXTENDS WlWindow, TLAPS

\* Queues stay queues.
LEMMA QueueFacts ==
  ASSUME NEW S
  PROVE  /\ <<>> \in Seq(S)
         /\ \A e \in S : <<e>> \in Seq(S)
         /\ \A s \in Seq(S), e \in S : Append(s, e) \in Seq(S)
         /\ \A s \in Seq(S) : s # <<>> => Head(s) \in S /\ Tail(s) \in Seq(S)
  OBVIOUS

LEMMA AppendNonempty ==
  ASSUME NEW S, NEW s \in Seq(S), NEW e \in S
  PROVE  Append(s, e) # <<>>
<1>1. Len(Append(s, e)) = Len(s) + 1 /\ Len(s) \in Nat /\ Len(<<>>) = 0
  OBVIOUS
<1> QED
  BY <1>1

\* A callback record is well typed.
LEMMA CallType ==
  ASSUME NEW fn \in Contexts, NEW w \in Window \cup {NoWindow},
         NEW then \in {"end", "configure", "deferred"}
  PROVE  Call(fn, w, then) \in Callback
  BY DEF Call, Callback

\* What the draw event leaves well typed.
LEMMA DrawEventType ==
  ASSUME TypeOK, NEW w \in Window, DrawEvent(w)
  PROVE  /\ cb' \in Callback
         /\ wanted' \in [Window -> BOOLEAN]
<1>1. "draw" \in Contexts /\ "idle" \in Contexts
  BY DEF Contexts
<1>2. Call("draw", w, "end") \in Callback
  BY <1>1, CallType
<1>3. NoCb \in Callback
  BY <1>1, CallType DEF NoCb
<1>4. wanted \in [Window -> BOOLEAN]
  BY DEF TypeOK
<1> QED
  BY <1>2, <1>3, <1>4 DEF DrawEvent


\* The types after an application's call, a handler's step, the wire.
LEMMA TypeStep == TypeOK /\ ControlInv /\ [Next]_vars => TypeOK'
<1> SUFFICES ASSUME TypeOK, ControlInv, [Next]_vars PROVE TypeOK'
  OBVIOUS
<1> USE DEF TypeOK
<1>1. ASSUME NEW w \in Window, Refresh(w) PROVE TypeOK'
  BY ZenonT(30), <1>1 DEF Refresh, WinRefresh, compVars
<1>2. ASSUME NEW w \in Window, SurfaceFrame(w) PROVE TypeOK'
  <2>1. cb' \in Callback
    BY <1>2 DEF SurfaceFrame, NotePresented, Callback
  <2> QED
    BY <1>2, <2>1 DEF SurfaceFrame, compVars, appVars
<1>3. ASSUME NEW w \in Window, ExternalCommit(w) PROVE TypeOK'
  BY <1>3 DEF ExternalCommit, compVars, appVars
<1>4. ASSUME NEW w \in Window, ApplyBuffer(w) PROVE TypeOK'
  <2>1. cb' \in Callback
    BY <1>4 DEF ApplyBuffer, NotePresented, Callback
  <2> QED
    BY <1>4, <2>1 DEF ApplyBuffer, compVars, appVars
<1>5. ASSUME NEW w \in Window, Destroy(w) PROVE TypeOK'
  BY <1>5, QueueFacts DEF Destroy, compVars, appVars
<1>6. ASSUME NEW w \in Window, NEW st \in Asks, SetState(w, st) PROVE TypeOK'
  <2>1. st \in States
    BY StateAssumption
  <2> QED
    BY <1>6, <2>1, QueueFacts DEF SetState
<1>7. ASSUME NEW w \in Window, NEW k \in Kinds, NEW sz \in Sizes \cup {0},
             NEW st \in Asks \cup {"normal"}, NEW hide \in BOOLEAN,
             CreateWindow(w, k, sz, st, hide)
      PROVE  TypeOK'
  <2>1. k \in AllKinds /\ st \in States /\ Fallback \in Sizes
    BY KindAssumption, StateAssumption, SizeAssumption DEF States
  <2>2. /\ status' \in [Window -> {"unborn", "live", "freed"}]
        /\ kind' \in [Window -> AllKinds]
        /\ show' \in [Window -> BOOLEAN]
        /\ size' \in [Window -> Sizes \cup {0}]
        /\ known' \in [Window -> Sizes \cup {0}]
        /\ wanted' \in [Window -> BOOLEAN]
        /\ want' \in [Window -> States]
    BY <1>7, <2>1 DEF CreateWindow
  <2>3. defer' \in [Window -> BOOLEAN]
    BY <1>7 DEF CreateWindow
  <2>4. deferEvents' \in [Window -> SUBSET {"draw", "size"}]
    BY <1>7 DEF CreateWindow
  <2>5. state' \in [Window -> States] /\ comp' \in [Window -> States]
    BY <1>7, <2>1 DEF CreateWindow
  <2> QED
    BY <1>7, <2>2, <2>3, <2>4, <2>5 DEF CreateWindow
<1>8. ASSUME NEW w \in Window, RefreshCb(w) PROVE TypeOK'
  <2>1. cb' \in Callback /\ wanted' \in [Window -> BOOLEAN]
    BY <1>8, DrawEventType DEF RefreshCb
  <2> QED
    BY <1>8, <2>1 DEF RefreshCb, compVars
<1>9. ASSUME NEW w \in Window, FrameDone(w) PROVE TypeOK'
  <2>1. cb' \in Callback /\ wanted' \in [Window -> BOOLEAN]
    BY <1>9, DrawEventType DEF FrameDone
  <2> QED
    BY <1>9, <2>1 DEF FrameDone, compVars
<1>10. ASSUME NEW w \in Window, DeferredDraw(w)
       PROVE  /\ cb' \in Callback
              /\ wanted' \in [Window -> BOOLEAN]
              /\ deferEvents' \in [Window -> SUBSET {"draw", "size"}]
  <2>1. NoCb \in Callback
    BY CallType DEF NoCb, Contexts
  <2> QED
    BY <1>10, <2>1, DrawEventType DEF DeferredDraw
<1>11. ASSUME NEW w \in Window, HandleDeferred(w) PROVE TypeOK'
  <2>1. CASE "size" \in deferEvents[w]
    <3>1. cb' \in Callback
      BY <1>11, <2>1, CallType DEF HandleDeferred, Contexts
    <3>2. deferEvents' \in [Window -> SUBSET {"draw", "size"}]
      <4>1. deferEvents[w] \ {"size"} \in SUBSET {"draw", "size"}
        OBVIOUS
      <4>2. deferEvents' = [deferEvents EXCEPT ![w] = deferEvents[w] \ {"size"}]
        BY <1>11, <2>1 DEF HandleDeferred
      <4> QED
        BY <4>1, <4>2, Zenon
    <3>3. known' \in [Window -> Sizes \cup {0}] /\ UNCHANGED wanted
      BY <1>11, <2>1 DEF HandleDeferred
    <3> QED
      BY <1>11, <3>1, <3>2, <3>3 DEF HandleDeferred, compVars
  <2>2. CASE "size" \notin deferEvents[w]
    <3>1. DeferredDraw(w) /\ UNCHANGED known
      BY <1>11, <2>2 DEF HandleDeferred
    <3> QED
      BY <1>10, <1>11, <3>1 DEF HandleDeferred, compVars
  <2> QED
    BY <2>1, <2>2
<1>12. ASSUME NEW w \in Window, wire[w] # <<>>, NEW resized \in BOOLEAN,
              FinishConfigure(w, resized)
       PROVE  /\ configured' \in [Window -> BOOLEAN]
              /\ redraw' \in [Window -> BOOLEAN]
              /\ deferRedraw' \in [Window -> BOOLEAN]
              /\ wire' \in [Window -> Seq(Event)]
              /\ ackDue' \in Window \cup {NoWindow}
              /\ state' \in [Window -> States]
              /\ cb' \in Callback
  <2>1. /\ Head(wire[w]) \in Event
        /\ Tail(wire[w]) \in Seq(Event)
    BY <1>12, QueueFacts
  <2>2. NoCb \in Callback /\ Call("state", w, "end") \in Callback
    BY CallType DEF NoCb, Contexts
  <2>3. redraw' \in [Window -> BOOLEAN] /\ deferRedraw' \in [Window -> BOOLEAN]
    BY ZenonT(30), <1>12 DEF FinishConfigure, WinRefresh
  <2>4. cb' \in Callback /\ ackDue' \in Window \cup {NoWindow}
    BY <1>12, <2>2 DEF FinishConfigure
  <2>5. state' \in [Window -> States]
    <3>1. Head(wire[w]).state \in States
      BY <2>1 DEF Event
    <3>2. state' = [state EXCEPT ![w] = Head(wire[w]).state] \/ state' = state
      BY <1>12 DEF FinishConfigure
    <3> QED
      BY <3>1, <3>2
  <2>6. wire' \in [Window -> Seq(Event)] /\ configured' \in [Window -> BOOLEAN]
    BY <1>12, <2>1 DEF FinishConfigure
  <2> QED
    BY <2>3, <2>4, <2>5, <2>6
<1>13. ASSUME NEW w \in Window, Configure(w) PROVE TypeOK'
  <2> DEFINE proposed == Head(wire[w]).size
             new == IF proposed # 0 THEN proposed
                    ELSE IF size[w] = 0 THEN Fallback ELSE size[w]
  <2>1. new \in Sizes
    <3>1. wire[w] # <<>> /\ wire[w] \in Seq(Event)
      BY <1>13 DEF Configure
    <3>2. Head(wire[w]) \in Event
      BY <3>1
    <3>3. proposed \in Sizes \cup {0} /\ size[w] \in Sizes \cup {0}
      BY <3>2 DEF Event
    <3> QED
      BY <3>3, SizeAssumption
  <2>2. size' = [size EXCEPT ![w] = new]
    BY <1>13 DEF Configure
  <2>3. acked' \in [Window -> BOOLEAN]
    BY <1>13 DEF Configure
  <2>4. CASE new # size[w]
    <3>1. cb' \in Callback
      BY <1>13, <2>4, CallType DEF Configure, Contexts
    <3>2. known' = [known EXCEPT ![w] = new]
      BY <1>13, <2>4 DEF Configure
    <3>3. UNCHANGED <<configured, redraw, deferRedraw, wire, ackDue, state>>
      BY <1>13, <2>4 DEF Configure
    <3>4. UNCHANGED <<status, kind, show, frame, defer, deferEvents, reqs, comp, want, wanted>>
      BY <1>13 DEF Configure
    <3> HIDE DEF new
    <3> QED
      BY <2>1, <2>2, <2>3, <3>1, <3>2, <3>3, <3>4 
  <2>5. CASE new = size[w]
    <3>1. FinishConfigure(w, FALSE) /\ UNCHANGED known
      BY <1>13, <2>5 DEF Configure
    <3>2. wire[w] # <<>>
      BY <1>13 DEF Configure
    <3>3. UNCHANGED <<status, kind, show, frame, defer, deferEvents, reqs, comp, want, wanted>>
      BY <1>13 DEF Configure
    <3> HIDE DEF new
    <3> QED
      BY <1>12, <2>1, <2>2, <2>3, <3>1, <3>2, <3>3 
  <2> QED
    BY <2>4, <2>5
<1>14. ASSUME XdgSurfaceConfigure PROVE TypeOK'
  BY <1>14 DEF XdgSurfaceConfigure, winVars, compVars, appVars
<1>15. ASSUME NEW w \in Window, Close(w) PROVE TypeOK'
  <2>1. cb' \in Callback
    BY <1>15, CallType DEF Close, Contexts
  <2> QED
    BY <1>15, <2>1 DEF Close, winVars, compVars, appVars
<1>16. ASSUME Return PROVE TypeOK'
  <2>1. cb.win \in Window
    BY <1>16 DEF Return, ControlInv, CallbackInv
  <2>2. CASE cb.then = "end"
    <3>1. cb' = NoCb /\ NoCb \in Callback
      BY <1>16, <2>2, CallType DEF Return, NoCb, Contexts
    <3> QED
      BY <1>16, <2>2, <3>1 DEF Return, winVars
  <2>3. CASE cb.then = "configure"
    <3>1. FinishConfigure(cb.win, TRUE) /\ wire[cb.win] # <<>>
      BY <1>16, <2>3 DEF Return, ControlInv, CallbackInv
    <3> QED
      BY ZenonT(30), <1>12, <1>16, <2>1, <2>3, <3>1 DEF Return
  <2>4. CASE cb.then = "deferred"
    <3>1. DeferredDraw(cb.win)
      BY <1>16, <2>4 DEF Return
    <3> QED
      BY <1>10, <1>16, <2>1, <2>4, <3>1 DEF Return
  <2> QED
    BY <2>2, <2>3, <2>4 DEF Callback
<1>17. ASSUME NEW w \in Window, NEW sz \in Sizes \cup {0}, NEW st \in Reported,
              CompositorConfigure(w, sz, st)
       PROVE  TypeOK'
  <2>1. st \in States /\ [size |-> sz, state |-> st] \in Event
    BY DEF Reported, States, Event
  <2> QED
    BY <1>17, <2>1, QueueFacts DEF CompositorConfigure, winVars, appVars
<1>18. ASSUME NEW w \in Window, NEW sz \in Sizes \cup {0}, CompositorGrant(w, sz)
       PROVE  TypeOK'
  <2>1. Head(reqs[w]) \in States /\ Tail(reqs[w]) \in Seq(States)
    BY <1>18, QueueFacts DEF CompositorGrant
  <2>2. [size |-> sz, state |-> Head(reqs[w])] \in Event
    BY <2>1 DEF Event
  <2>3. reqs' \in [Window -> Seq(States)]
    BY <1>18, <2>1 DEF CompositorGrant
  <2>4. /\ wire' \in [Window -> Seq(Event)]
        /\ comp' \in [Window -> States]
    <3>1. CASE Head(reqs[w]) = "minimized"
      BY <1>18, <3>1 DEF CompositorGrant
    <3>2. CASE Head(reqs[w]) # "minimized"
      <4> DEFINE q == Append(wire[w], [size |-> sz, state |-> Head(reqs[w])])
      <4>1. q \in Seq(Event)
        BY <2>2
      <4>2. wire' = [wire EXCEPT ![w] = q] /\ comp' = [comp EXCEPT ![w] = Head(reqs[w])]
        BY <1>18, <3>2 DEF CompositorGrant
      <4> HIDE DEF q
      <4> QED
        BY <2>1, <4>1, <4>2
    <3> QED
      BY <3>1, <3>2
  <2> QED
    BY <1>18, <2>3, <2>4 DEF CompositorGrant, winVars, appVars
<1>19. ASSUME NEW w \in Window, CompositorFrameDone(w) PROVE TypeOK'
  BY <1>19 DEF CompositorFrameDone, compVars, appVars
<1>20. CASE UNCHANGED vars
  BY <1>20 DEF vars, winVars, compVars, appVars
<1> HIDE DEF TypeOK
<1>21. ASSUME NEW w \in Window, Application(w) PROVE TypeOK'
  BY <1>1, <1>2, <1>3, <1>4, <1>5, <1>6, <1>7, <1>21 DEF Application
<1>22. ASSUME NEW w \in Window, Handler(w) PROVE TypeOK'
  BY <1>8, <1>9, <1>11, <1>13, <1>15, <1>22 DEF Handler
<1>23. ASSUME NEW w \in Window, Compositor(w) PROVE TypeOK'
  BY <1>17, <1>18, <1>19, <1>23 DEF Compositor
<1> QED
  BY <1>14, <1>16, <1>20, <1>21, <1>22, <1>23 DEF Next

\* The end of a configure handler: the control invariant is restored, whether
\* the resize callback ran or not.
LEMMA FinishControl ==
  ASSUME TypeOK, ControlInv, NEW w \in Window, NEW resized \in BOOLEAN,
         Live(w), Configurable(w), wire[w] # <<>>, size[w] # 0,
         ackDue = NoWindow, FinishConfigure(w, resized),
         UNCHANGED <<status, kind, size, frame, defer, reqs>>,
         acked' = acked \/ acked' = [acked EXCEPT ![w] = acked[w] \/ kind[w] = "layer"]
  PROVE  ControlInv'
<1> USE DEF TypeOK, Live, Configurable, ControlInv
<1>1. CallbackInv'
  <2>1. cb' = NoCb \/ cb' = Call("state", w, "end")
    BY DEF FinishConfigure
  <2>2. cb'.then = "end" /\ cb'.fn \in {"idle", "state"} /\ (cb' # NoCb => cb'.fn = "state" /\ cb'.win = w)
    BY <2>1 DEF NoCb, Call
  <2>3. ackDue' # NoWindow => ackDue' = w /\ kind[w] = "toplevel"
    BY DEF FinishConfigure
  <2> QED
    BY <2>2, <2>3 DEF CallbackInv
<1>2. configured' = [configured EXCEPT ![w] = TRUE] /\ wire' = [wire EXCEPT ![w] = Tail(@)]
  BY DEF FinishConfigure
<1>3. \A v \in Window : deferRedraw'[v] => deferRedraw[v] \/ v = w
  BY DEF FinishConfigure, WinRefresh
<1>4. kind[w] = "toplevel" => ackDue' = w
  BY DEF FinishConfigure
<1>5. \A v \in Window : acked[v] => acked'[v]
  OBVIOUS
<1>6. ASSUME NEW v \in Window, v # w PROVE WindowInv(v)'
  <2>1. UNCHANGED <<configured[v], wire[v], acked[v]>> /\ (deferRedraw'[v] => deferRedraw[v])
    BY <1>2, <1>3, <1>6
  <2>2. ackDue # v
    BY WindowAssumption
  <2> QED
    BY <1>6, <2>1, <2>2 DEF WindowInv
<1>7. WindowInv(w)'
  BY <1>2, <1>4 DEF WindowInv
<1> QED
  BY <1>1, <1>6, <1>7

\* The control invariant is preserved by every step, given that no window is
\* destroyed in its resize callback (the handler would go on with freed memory).
LEMMA ControlStep ==
  ASSUME "resize" \notin DestroyIn, TypeOK, ControlInv, [Next]_vars
  PROVE  ControlInv'
<1> USE DEF TypeOK, Live, Configurable, Idle
<1>0. \A fn, w, then :
        /\ Call(fn, w, then).fn = fn /\ Call(fn, w, then).win = w
        /\ Call(fn, w, then).then = then
  BY DEF Call
<1>1. ASSUME NEW w \in Window, Refresh(w) PROVE ControlInv'
  <2>1. CallbackInv'
    BY <1>1 DEF Refresh, ControlInv, CallbackInv, compVars
  <2>2. ASSUME NEW v \in Window PROVE WindowInv(v)'
    <3>1. CASE RefreshBlocked(w, configured[w])
      BY <1>1, <3>1 DEF Refresh, WinRefresh, ControlInv, WindowInv, compVars
    <3>2. CASE ~RefreshBlocked(w, configured[w])
      <4>1. kind[w] = "toplevel" => configured[w]
        BY <3>2 DEF RefreshBlocked
      <4>2. deferRedraw' = [deferRedraw EXCEPT ![w] = TRUE] /\ Live(w)
        BY <1>1, <3>2 DEF Refresh, WinRefresh
      <4>3. UNCHANGED <<status, kind, configured, size, frame, defer, ackDue, wire, reqs, acked>>
        BY <1>1 DEF Refresh, compVars
      <4> QED
        BY <4>1, <4>2, <4>3 DEF ControlInv, WindowInv
    <3> QED
      BY <3>1, <3>2
  <2> QED
    BY <2>1, <2>2 DEF ControlInv
<1>2. ASSUME NEW w \in Window, SurfaceFrame(w) PROVE ControlInv'
  <2>1. CallbackInv'
    BY <1>2 DEF SurfaceFrame, NotePresented, Callback, ControlInv, CallbackInv, compVars, appVars, winVars
  <2>2. ASSUME NEW v \in Window PROVE WindowInv(v)'
    BY <1>2 DEF SurfaceFrame, MayPresent, ControlInv, CallbackInv, WindowInv, compVars, appVars, winVars
  <2> QED
    BY <2>1, <2>2 DEF ControlInv
<1>3. ASSUME NEW w \in Window, ExternalCommit(w) PROVE ControlInv'
  <2>1. CallbackInv'
    BY <1>3 DEF ExternalCommit, ControlInv, CallbackInv, compVars, appVars, winVars
  <2>2. ASSUME NEW v \in Window PROVE WindowInv(v)'
    BY <1>3 DEF ExternalCommit, ControlInv, CallbackInv, WindowInv, compVars, appVars, winVars
  <2> QED
    BY <2>1, <2>2 DEF ControlInv
<1>4. ASSUME NEW w \in Window, ApplyBuffer(w) PROVE ControlInv'
  <2>1. CallbackInv'
    BY <1>4 DEF ApplyBuffer, NotePresented, Callback, ControlInv, CallbackInv, compVars, appVars, winVars
  <2>2. ASSUME NEW v \in Window PROVE WindowInv(v)'
    BY <1>4 DEF ApplyBuffer, MayPresent, ControlInv, CallbackInv, WindowInv, compVars, appVars, winVars
  <2> QED
    BY <2>1, <2>2 DEF ControlInv
<1>5. ASSUME NEW w \in Window, Destroy(w) PROVE ControlInv'
  <2>1. CallbackInv'
    BY <1>5 DEF Destroy, Callback, ControlInv, CallbackInv, compVars, appVars, winVars
  <2>2. ASSUME NEW v \in Window PROVE WindowInv(v)'
    BY <1>5 DEF Destroy, ControlInv, CallbackInv, WindowInv, compVars, appVars, winVars
  <2> QED
    BY <2>1, <2>2 DEF ControlInv
<1>6. ASSUME NEW w \in Window, NEW st \in Asks, SetState(w, st) PROVE ControlInv'
  <2>1. CallbackInv'
    BY <1>6 DEF SetState, ControlInv, CallbackInv, compVars, appVars, winVars
  <2>2. ASSUME NEW v \in Window PROVE WindowInv(v)'
    BY <1>6 DEF SetState, ControlInv, CallbackInv, WindowInv, compVars, appVars, winVars
  <2> QED
    BY <2>1, <2>2 DEF ControlInv
<1>7. ASSUME NEW w \in Window, NEW k \in Kinds, NEW sz \in Sizes \cup {0},
             NEW st \in Asks \cup {"normal"}, NEW hide \in BOOLEAN,
             CreateWindow(w, k, sz, st, hide)
      PROVE  ControlInv'
  <2>1. k \in AllKinds /\ Fallback # 0
    BY KindAssumption, SizeAssumption
  <2>2. CallbackInv'
    <3>1. /\ cb.then # "end" => cb.win # w
          /\ ackDue # w
          /\ cb # NoCb => cb.win # w
      BY <1>0, <1>7, WindowAssumption DEF CreateWindow, ControlInv, CallbackInv, NoCb
    <3>2. UNCHANGED <<cb, ackDue, wire>> /\ \A v \in Window \ {w} :
             UNCHANGED <<size[v], kind[v], status[v]>>
      BY <1>7 DEF CreateWindow
    <3>3. cb.then # "end" => cb # NoCb
      BY <1>0 DEF NoCb
    <3> QED
      BY <3>1, <3>2, <3>3 DEF ControlInv, CallbackInv
  <2>3. ASSUME NEW v \in Window PROVE WindowInv(v)'
    BY <1>7, <2>1 DEF CreateWindow, ControlInv, WindowInv
  <2> QED
    BY <2>2, <2>3 DEF ControlInv
<1>8. ASSUME NEW w \in Window, RefreshCb(w) PROVE ControlInv'
  <2>1. CallbackInv'
    BY <1>8, <1>0 DEF RefreshCb, DrawEvent, ControlInv, CallbackInv, WindowInv, NoCb, compVars
  <2>2. ASSUME NEW v \in Window PROVE WindowInv(v)'
    BY <1>8, <1>0 DEF RefreshCb, DrawEvent, ControlInv, CallbackInv, WindowInv, compVars, appVars, winVars
  <2> QED
    BY <2>1, <2>2 DEF ControlInv
<1>9. ASSUME NEW w \in Window, FrameDone(w) PROVE ControlInv'
  <2>1. CallbackInv'
    BY <1>9, <1>0 DEF FrameDone, DrawEvent, ControlInv, CallbackInv, WindowInv, NoCb, compVars
  <2>2. ASSUME NEW v \in Window PROVE WindowInv(v)'
    BY <1>9, <1>0 DEF FrameDone, DrawEvent, ControlInv, CallbackInv, WindowInv, compVars, appVars, winVars
  <2> QED
    BY <2>1, <2>2 DEF ControlInv
<1>11. ASSUME NEW w \in Window, HandleDeferred(w) PROVE ControlInv'
  <2>1. \/ cb' = Call("resize", w, "deferred")
        \/ cb' = Call("draw", w, "end")
        \/ cb' = NoCb
    BY <1>11 DEF HandleDeferred, DeferredDraw, DrawEvent
  <2>2. CallbackInv'
    <3>1. size[w] # 0 /\ kind[w] = "subsurface" /\ status[w] # "unborn"
      BY <1>11 DEF HandleDeferred, ControlInv, WindowInv
    <3>2. UNCHANGED <<size, kind, status, ackDue>> /\ ackDue = NoWindow
      BY <1>11 DEF HandleDeferred
    <3> QED
      BY <1>0, <2>1, <3>1, <3>2 DEF CallbackInv, NoCb
  <2>3. ASSUME NEW v \in Window PROVE WindowInv(v)'
    BY <1>11 DEF HandleDeferred, ControlInv, WindowInv, compVars
  <2> QED
    BY <2>2, <2>3 DEF ControlInv
<1>13. ASSUME NEW w \in Window, Configure(w) PROVE ControlInv'
  <2> DEFINE proposed == Head(wire[w]).size
             new == IF proposed # 0 THEN proposed
                    ELSE IF size[w] = 0 THEN Fallback ELSE size[w]
  <2>1. size' = [size EXCEPT ![w] = new] /\ wire[w] # <<>> /\ Live(w) /\ ackDue = NoWindow
    BY <1>13 DEF Configure
  <2>2. new # 0
    BY SizeAssumption
  <2>3. /\ UNCHANGED <<status, kind, frame, defer, reqs>>
        /\ acked' = [acked EXCEPT ![w] = acked[w] \/ kind[w] = "layer"]
    BY <1>13 DEF Configure
  <2>4. Configurable(w)
    BY <2>1 DEF ControlInv, WindowInv
  <2>5. CASE new # size[w]
    <3>1. /\ cb' = Call("resize", w, "configure")
          /\ UNCHANGED <<configured, redraw, deferRedraw, wire, ackDue, state>>
      BY <1>13, <2>5 DEF Configure
    <3> HIDE DEF new
    <3>2. CallbackInv'
      BY <1>0, <2>1, <2>2, <2>3, <2>4, <3>1 DEF CallbackInv
    <3>3. ASSUME NEW v \in Window PROVE WindowInv(v)'
      BY <2>1, <2>2, <2>3, <2>4, <3>1 DEF ControlInv, WindowInv
    <3> QED
      BY <3>2, <3>3 DEF ControlInv
  <2>6. CASE new = size[w]
    <3>1. FinishConfigure(w, FALSE)
      BY <1>13, <2>6 DEF Configure
    <3> HIDE DEF new
    <3>2. size' = size /\ size[w] # 0
      BY <2>1, <2>2, <2>6
    <3> HIDE DEF TypeOK, Live, Configurable, Idle
    <3> QED
      BY <2>1, <2>3, <2>4, <3>1, <3>2, FinishControl
  <2> QED
    BY <2>5, <2>6
<1>14. ASSUME XdgSurfaceConfigure PROVE ControlInv'
  <2>1. CallbackInv'
    BY <1>14 DEF XdgSurfaceConfigure, ControlInv, CallbackInv, compVars, appVars, winVars
  <2>2. ASSUME NEW v \in Window PROVE WindowInv(v)'
    BY <1>14 DEF XdgSurfaceConfigure, ControlInv, CallbackInv, WindowInv, compVars, appVars, winVars
  <2> QED
    BY <2>1, <2>2 DEF ControlInv
<1>15. ASSUME NEW w \in Window, Close(w) PROVE ControlInv'
  <2>1. CallbackInv'
    BY <1>15, <1>0 DEF Close, ControlInv, CallbackInv, compVars, appVars, winVars
  <2>2. ASSUME NEW v \in Window PROVE WindowInv(v)'
    BY <1>15, <1>0 DEF Close, ControlInv, CallbackInv, WindowInv, compVars, appVars, winVars
  <2> QED
    BY <2>1, <2>2 DEF ControlInv
<1>16. ASSUME Return PROVE ControlInv'
  <2>1. cb.win \in Window /\ status[cb.win] # "unborn"
    BY <1>16 DEF Return, ControlInv, CallbackInv
  <2>2. CASE cb.then = "end"
    <3>1. cb' = NoCb /\ UNCHANGED <<winVars, ackDue, wire, reqs, acked>>
      BY <1>16, <2>2 DEF Return
    <3>2. CallbackInv'
      BY <1>0, <3>1 DEF NoCb, ControlInv, CallbackInv, winVars
    <3>3. ASSUME NEW v \in Window PROVE WindowInv(v)'
      BY <3>1 DEF ControlInv, WindowInv, winVars
    <3> QED
      BY <3>2, <3>3 DEF ControlInv
  <2>3. CASE cb.then = "configure"
    <3>1. /\ FinishConfigure(cb.win, TRUE)
          /\ UNCHANGED <<status, kind, size, frame, defer, reqs, acked>>
      BY <1>16, <2>3 DEF Return
    <3>2. /\ size[cb.win] # 0 /\ Configurable(cb.win) /\ wire[cb.win] # <<>>
          /\ cb.fn = "resize"
      BY <2>3 DEF ControlInv, CallbackInv
    <3>3. Live(cb.win)
      BY <2>1, <3>2 DEF ControlInv, WindowInv
    <3>4. ackDue = NoWindow
      BY <3>2 DEF ControlInv, CallbackInv
    <3> HIDE DEF TypeOK, Live, Configurable, Idle
    <3> QED
      BY <2>1, <3>1, <3>2, <3>3, <3>4, FinishControl
  <2>4. CASE cb.then = "deferred"
    <3>1. /\ cb' = Call("draw", cb.win, "end") \/ cb' = NoCb
          /\ UNCHANGED <<status, kind, size, configured, frame, deferRedraw,
                         defer, ackDue, wire, reqs, acked>>
      BY <1>16, <2>4 DEF Return, DeferredDraw, DrawEvent
    <3>2. cb.fn = "resize"
      BY <2>4 DEF ControlInv, CallbackInv
    <3>3. CallbackInv'
      BY <1>0, <2>1, <3>1, <3>2 DEF NoCb, ControlInv, CallbackInv
    <3>4. ASSUME NEW v \in Window PROVE WindowInv(v)'
      BY <3>1 DEF ControlInv, WindowInv
    <3> QED
      BY <3>3, <3>4 DEF ControlInv
  <2> QED
    BY <2>2, <2>3, <2>4 DEF Callback
<1>17. ASSUME NEW w \in Window, NEW sz \in Sizes \cup {0}, NEW st \in Reported,
              CompositorConfigure(w, sz, st)
       PROVE  ControlInv'
  <2>1. \A e \in Event : Append(wire[w], e) # <<>>
    BY AppendNonempty
  <2>2. CallbackInv'
    <3>1. [size |-> sz, state |-> st] \in Event
      BY DEF Event, Reported, States
    <3> QED
      BY <1>17, <2>1, <3>1 DEF CompositorConfigure, ControlInv, CallbackInv, winVars
  <2>3. ASSUME NEW v \in Window PROVE WindowInv(v)'
    BY <1>17 DEF CompositorConfigure, ControlInv, WindowInv, winVars
  <2> QED
    BY <2>2, <2>3 DEF ControlInv
<1>18. ASSUME NEW w \in Window, NEW sz \in Sizes \cup {0}, CompositorGrant(w, sz)
       PROVE  ControlInv'
  <2>1. \A e \in Event : Append(wire[w], e) # <<>>
    BY AppendNonempty
  <2>2. CallbackInv'
    <3>1. [size |-> sz, state |-> Head(reqs[w])] \in Event
      BY <1>18, QueueFacts DEF CompositorGrant, Event
    <3>2. \/ wire' = wire
          \/ wire' = [wire EXCEPT ![w] = Append(wire[w], [size |-> sz, state |-> Head(reqs[w])])]
      BY <1>18 DEF CompositorGrant
    <3>3. \A v \in Window : wire[v] # <<>> => wire'[v] # <<>>
      BY <2>1, <3>1, <3>2
    <3>4. UNCHANGED <<cb, ackDue, size, kind, status>>
      BY <1>18 DEF CompositorGrant, winVars
    <3>5. cb.then # "end" => cb.win \in Window
      BY <1>0 DEF ControlInv, CallbackInv, NoCb
    <3> QED
      BY <3>3, <3>4, <3>5 DEF ControlInv, CallbackInv
  <2>3. ASSUME NEW v \in Window PROVE WindowInv(v)'
    BY <1>18 DEF CompositorGrant, ControlInv, WindowInv, winVars
  <2> QED
    BY <2>2, <2>3 DEF ControlInv
<1>19. ASSUME NEW w \in Window, CompositorFrameDone(w) PROVE ControlInv'
  <2>1. CallbackInv'
    BY <1>19 DEF CompositorFrameDone, ControlInv, CallbackInv, compVars, appVars, winVars
  <2>2. ASSUME NEW v \in Window PROVE WindowInv(v)'
    BY <1>19 DEF CompositorFrameDone, ControlInv, CallbackInv, WindowInv, compVars, appVars, winVars
  <2> QED
    BY <2>1, <2>2 DEF ControlInv
<1>20. CASE UNCHANGED vars
  BY <1>20 DEF vars, winVars, compVars, appVars, ControlInv, CallbackInv, WindowInv
<1> HIDE DEF TypeOK, Live, Configurable, Idle
<1>21. ASSUME NEW w \in Window, Application(w) PROVE ControlInv'
  BY <1>1, <1>2, <1>3, <1>4, <1>5, <1>6, <1>7, <1>21 DEF Application
<1>22. ASSUME NEW w \in Window, Handler(w) PROVE ControlInv'
  BY <1>8, <1>9, <1>11, <1>13, <1>15, <1>22 DEF Handler
<1>23. ASSUME NEW w \in Window, Compositor(w) PROVE ControlInv'
  BY <1>17, <1>18, <1>19, <1>23 DEF Compositor
<1> QED
  BY <1>14, <1>16, <1>20, <1>21, <1>22, <1>23 DEF Next

\* Where every run starts.
LEMMA InitInv == Init => TypeOK /\ ControlInv /\ NoRequestLost
<1> SUFFICES ASSUME Init PROVE TypeOK /\ ControlInv /\ NoRequestLost
  OBVIOUS
<1>1. NoCb \in Callback
  BY CallType DEF NoCb, Contexts
<1>2. TypeOK
  BY <1>1 DEF Init, TypeOK, AllKinds, States
<1>3. ControlInv
  BY DEF Init, ControlInv, CallbackInv, WindowInv, NoCb, Call, Live
<1>4. NoRequestLost
  BY DEF Init, NoRequestLost, Live
<1> QED
  BY <1>2, <1>3, <1>4

\* The type invariant and the control invariant, together: neither is inductive
\* alone, for a handler that goes on reads the head of the queue of events.
THEOREM ControlCorrect ==
  ASSUME "resize" \notin DestroyIn
  PROVE  Spec => [](TypeOK /\ ControlInv)
<1>1. Init => TypeOK /\ ControlInv
  BY InitInv
<1>2. (TypeOK /\ ControlInv) /\ [Next]_vars => (TypeOK /\ ControlInv)'
  BY TypeStep, ControlStep
<1> QED
  BY <1>1, <1>2, PTL DEF Spec

\* The fields of every window, the control state and the wire keep their types.
THEOREM TypeCorrect ==
  ASSUME "resize" \notin DestroyIn
  PROVE  Spec => []TypeOK
<1>1. Spec => [](TypeOK /\ ControlInv)
  BY ControlCorrect
<1> QED
  BY <1>1, PTL

\* A program that creates no subsurface and destroys no window in its resize
\* callback leaves nothing of a freed window in the event loop.
THEOREM FreedSafe ==
  ASSUME "resize" \notin DestroyIn, "subsurface" \notin Kinds
  PROVE  Spec => []FreedIsSilent
<1>1. TypeOK /\ ControlInv => FreedIsSilent
  <2> SUFFICES ASSUME TypeOK, ControlInv, NEW w \in Window, status[w] = "freed"
               PROVE  /\ ~deferRedraw[w] /\ ~defer[w]
                      /\ frame[w] = "none" /\ wire[w] = <<>>
                      /\ cb.win = w => cb.then = "end"
    BY DEF FreedIsSilent
  <2>1. ~Live(w) /\ kind[w] # "subsurface" /\ WindowInv(w)
    BY DEF ControlInv, WindowInv, Live
  <2>2. wire[w] = <<>> /\ frame[w] = "none" /\ ~deferRedraw[w] /\ ~defer[w]
    BY <2>1 DEF WindowInv
  <2>3. ASSUME cb.win = w PROVE cb.then = "end"
    BY <2>1, <2>2, <2>3 DEF TypeOK, Callback, ControlInv, CallbackInv
  <2> QED
    BY <2>2, <2>3
<1>2. Spec => [](TypeOK /\ ControlInv)
  BY ControlCorrect
<1> QED
  BY <1>1, <1>2, PTL

-----------------------------------------------------------------------------
(* No request to draw is lost *)

\* win_refresh leaves the request pending.
LEMMA RefreshPends ==
  ASSUME TypeOK, NEW w \in Window, NEW conf \in BOOLEAN, WinRefresh(w, conf),
         UNCHANGED <<show, frame, kind>>, configured'[w] = conf, show[w]
  PROVE  Pending(w)'
<1>1. CASE RefreshBlocked(w, conf)
  BY <1>1 DEF TypeOK, WinRefresh, RefreshBlocked, Pending, Configurable
<1>2. CASE ~RefreshBlocked(w, conf)
  BY <1>2 DEF TypeOK, WinRefresh, Pending
<1> QED
  BY <1>1, <1>2

Kept(v) == Live(v) /\ show[v] /\ wanted[v] => Pending(v)

LEMMA RequestStep ==
  ASSUME TypeOK, ControlInv, NoRequestLost, [Next]_vars
  PROVE  NoRequestLost'
<1> SUFFICES ASSUME NEW v \in Window PROVE Kept(v)'
  BY DEF NoRequestLost, Kept
<1> USE DEF TypeOK
<1>0. Kept(v)
  BY DEF NoRequestLost, Kept
<1>a. NoCb.then = "end"
  BY DEF NoCb, Call
<1>1. ASSUME NEW w \in Window, Refresh(w) PROVE Kept(v)'
  <2>1. CASE v = w
    BY <1>1, <2>1, RefreshPends DEF Refresh, Kept
  <2>2. CASE v # w
    BY <1>0, <1>1, <2>2 DEF Refresh, WinRefresh, Kept, Live, Pending, Configurable
  <2> QED
    BY <2>1, <2>2
<1>2. ASSUME NEW w \in Window, SurfaceFrame(w) PROVE Kept(v)'
  BY <1>0, <1>2 DEF SurfaceFrame, NotePresented, Kept, Live, Pending, Configurable, appVars, Callback
<1>3. ASSUME NEW w \in Window, ExternalCommit(w) PROVE Kept(v)'
  BY <1>0, <1>3 DEF ExternalCommit, Kept, Live, Pending, Configurable, appVars
<1>4. ASSUME NEW w \in Window, ApplyBuffer(w) PROVE Kept(v)'
  BY <1>0, <1>4 DEF ApplyBuffer, NotePresented, Kept, Live, Pending, Configurable, appVars, Callback
<1>5. ASSUME NEW w \in Window, Destroy(w) PROVE Kept(v)'
  BY <1>0, <1>5 DEF Destroy, Kept, Live, Pending, Configurable, appVars
<1>6. ASSUME NEW w \in Window, NEW st \in Asks, SetState(w, st) PROVE Kept(v)'
  BY <1>0, <1>6 DEF SetState, Kept, Live, Pending, Configurable
<1>7. ASSUME NEW w \in Window, NEW k \in Kinds, NEW sz \in Sizes \cup {0},
             NEW st \in Asks \cup {"normal"}, NEW hide \in BOOLEAN,
             CreateWindow(w, k, sz, st, hide)
      PROVE  Kept(v)'
  <2>1. CASE v = w
    <3>1. ~configured'[w] /\ kind'[w] = k /\ k \in AllKinds
      BY <1>7, KindAssumption DEF CreateWindow, ControlInv, WindowInv
    <3>2. CASE k = "subsurface"
      BY <1>7, <2>1, <3>2 DEF CreateWindow, Kept, Pending
    <3>3. CASE k # "subsurface"
      BY <2>1, <3>1, <3>3 DEF AllKinds, Kept, Pending, Configurable
    <3> QED
      BY <3>2, <3>3
  <2>2. CASE v # w
    BY <1>0, <1>7, <2>2 DEF CreateWindow, Kept, Live, Pending, Configurable
  <2> QED
    BY <2>1, <2>2
<1>8. ASSUME NEW w \in Window, RefreshCb(w) PROVE Kept(v)'
  <2>1. CASE v = w
    BY <1>8, <2>1 DEF RefreshCb, DrawEvent, Kept
  <2>2. CASE v # w
    BY <1>0, <1>a, <1>8, <2>2 DEF RefreshCb, Idle, DrawEvent, Kept, Live, Pending, Configurable
  <2> QED
    BY <2>1, <2>2
<1>9. ASSUME NEW w \in Window, FrameDone(w) PROVE Kept(v)'
  <2>1. CASE v = w /\ redraw[w]
    BY <1>9, <2>1 DEF FrameDone, DrawEvent, Kept
  <2>2. CASE v # w \/ ~redraw[w]
    BY <1>0, <1>a, <1>9, <2>2 DEF FrameDone, Idle, DrawEvent, Kept, Live, Pending, Configurable
  <2> QED
    BY <2>1, <2>2
<1>10. ASSUME NEW w \in Window, DeferredDraw(w),
              UNCHANGED <<status, kind, show, configured, redraw, frame, deferRedraw>>,
              \A u \in Window \ {w} : UNCHANGED defer[u],
              defer[w] \/ (cb.win = w /\ cb.then = "deferred"),
              cb.then = "deferred" => cb.win = w
       PROVE  Kept(v)'
  <2>1. CASE v = w /\ "draw" \in deferEvents[w]
    BY <1>10, <2>1 DEF DeferredDraw, DrawEvent, Kept
  <2>2. CASE v = w /\ "draw" \notin deferEvents[w]
    BY <1>0, <1>10, <2>2 DEF DeferredDraw, Kept, Live, Pending, Configurable
  <2>3. CASE v # w
    BY <1>0, <1>10, <2>3 DEF DeferredDraw, DrawEvent, Kept, Live, Pending, Configurable
  <2> QED
    BY <2>1, <2>2, <2>3
<1>11. ASSUME NEW w \in Window, HandleDeferred(w) PROVE Kept(v)'
  <2>1. CASE "size" \in deferEvents[w]
    BY <1>0, <1>a, <1>11, <2>1 DEF HandleDeferred, Idle, Call, Kept, Live, Pending, Configurable
  <2>2. CASE "size" \notin deferEvents[w]
    BY <1>a, <1>10, <1>11, <2>2 DEF HandleDeferred, Idle
  <2> QED
    BY <2>1, <2>2
<1>12. ASSUME NEW w \in Window, NEW resized \in BOOLEAN, FinishConfigure(w, resized),
              UNCHANGED <<status, kind, show, frame, defer, deferEvents, wanted>>,
              cb.then # "deferred"
       PROVE  Kept(v)'
  <2>1. CASE v = w /\ (resized \/ ~configured[w])
    <3>1. WinRefresh(w, TRUE) /\ configured'[w]
      BY <1>12, <2>1 DEF FinishConfigure
    <3> QED
      BY <1>12, <2>1, <3>1, RefreshPends DEF Kept
  <2>2. CASE v = w /\ ~resized /\ configured[w]
    BY <1>0, <1>12, <2>2 DEF FinishConfigure, Kept, Live, Pending, Configurable
  <2>3. CASE v # w
    <3>1. UNCHANGED <<configured[v], redraw[v], deferRedraw[v]>>
      BY <1>12, <2>3 DEF FinishConfigure, WinRefresh
    <3> QED
      BY <1>0, <1>12, <3>1 DEF Kept, Live, Pending, Configurable
  <2> QED
    BY <2>1, <2>2, <2>3
<1>13. ASSUME NEW w \in Window, Configure(w) PROVE Kept(v)'
  <2>1. /\ UNCHANGED <<status, kind, show, frame, defer, deferEvents, wanted>>
        /\ cb.then # "deferred"
    BY <1>a, <1>13 DEF Configure, Idle
  <2>2. CASE UNCHANGED <<configured, redraw, deferRedraw>>
    BY <1>0, <2>1, <2>2 DEF Kept, Live, Pending, Configurable
  <2>3. CASE FinishConfigure(w, FALSE)
    BY <1>12, <2>1, <2>3
  <2> QED
    BY <1>13, <2>2, <2>3 DEF Configure
<1>14. ASSUME XdgSurfaceConfigure PROVE Kept(v)'
  BY <1>0, <1>14 DEF XdgSurfaceConfigure, winVars, appVars, Kept, Live, Pending, Configurable
<1>15. ASSUME NEW w \in Window, Close(w) PROVE Kept(v)'
  BY <1>0, <1>a, <1>15 DEF Close, Idle, winVars, appVars, Kept, Live, Pending, Configurable
<1>16. ASSUME Return PROVE Kept(v)'
  <2>1. cb.win \in Window
    BY <1>16 DEF Return, ControlInv, CallbackInv
  <2>2. CASE cb.then = "end"
    BY <1>0, <1>16, <2>2 DEF Return, winVars, Kept, Live, Pending, Configurable
  <2>3. CASE cb.then = "configure"
    BY <1>12, <1>16, <2>1, <2>3 DEF Return
  <2>4. CASE cb.then = "deferred"
    <3>1. /\ DeferredDraw(cb.win)
          /\ UNCHANGED <<status, kind, show, configured, redraw, frame, deferRedraw, defer>>
      BY <1>16, <2>4 DEF Return
    <3> QED
      BY <1>10, <2>1, <2>4, <3>1
  <2> QED
    BY <2>2, <2>3, <2>4 DEF Callback
<1>17. ASSUME NEW w \in Window, NEW sz \in Sizes \cup {0}, NEW st \in Reported,
              CompositorConfigure(w, sz, st)
       PROVE  Kept(v)'
  BY <1>0, <1>17 DEF CompositorConfigure, winVars, appVars, Kept, Live, Pending, Configurable
<1>18. ASSUME NEW w \in Window, NEW sz \in Sizes \cup {0}, CompositorGrant(w, sz)
       PROVE  Kept(v)'
  BY <1>0, <1>18 DEF CompositorGrant, winVars, appVars, Kept, Live, Pending, Configurable
<1>19. ASSUME NEW w \in Window, CompositorFrameDone(w) PROVE Kept(v)'
  BY <1>0, <1>19 DEF CompositorFrameDone, appVars, Kept, Live, Pending, Configurable
<1>20. CASE UNCHANGED vars
  BY <1>0, <1>20 DEF vars, winVars, appVars, Kept, Live, Pending, Configurable
<1> HIDE DEF TypeOK
<1>21. ASSUME NEW w \in Window, Application(w) PROVE Kept(v)'
  BY <1>1, <1>2, <1>3, <1>4, <1>5, <1>6, <1>7, <1>21 DEF Application
<1>22. ASSUME NEW w \in Window, Handler(w) PROVE Kept(v)'
  BY <1>8, <1>9, <1>11, <1>13, <1>15, <1>22 DEF Handler
<1>23. ASSUME NEW w \in Window, Compositor(w) PROVE Kept(v)'
  BY <1>17, <1>18, <1>19, <1>23 DEF Compositor
<1> QED
  BY <1>14, <1>16, <1>20, <1>21, <1>22, <1>23 DEF Next

\* A draw event the application expects always has something pending that will
\* emit it, whatever it does in its callbacks and wherever it presents.
THEOREM RequestsKept ==
  ASSUME "resize" \notin DestroyIn
  PROVE  Spec => []NoRequestLost
<1>1. Init => TypeOK /\ ControlInv /\ NoRequestLost
  BY InitInv
<1>2. (TypeOK /\ ControlInv /\ NoRequestLost) /\ [Next]_vars
        => (TypeOK /\ ControlInv /\ NoRequestLost)'
  BY TypeStep, ControlStep, RequestStep
<1> QED
  BY <1>1, <1>2, PTL DEF Spec

-----------------------------------------------------------------------------
(* Nothing is drawn before the first configure is acknowledged *)

\* The application presents only in draw callbacks, so that a frame callback
\* is pending only after a draw callback.
LEMMA AckStep ==
  ASSUME PresentIn \subseteq {"draw"}, TypeOK, ControlInv, NothingBeforeAck, [Next]_vars
  PROVE  NothingBeforeAck'
<1> DEFINE Ready(v) == configured[v] /\ acked[v]
           Safe(v) == /\ kind[v] = "toplevel"
                      /\ (cb.fn = "draw" /\ cb.win = v) \/ frame[v] # "none"
                      => Ready(v)
<1> SUFFICES ASSUME NEW v \in Window PROVE Safe(v)'
  BY DEF NothingBeforeAck
<1> USE DEF TypeOK
<1>0. Safe(v)
  BY DEF NothingBeforeAck
<1>a. NoCb.fn = "idle" /\ \A fn, w, then : Call(fn, w, then).fn = fn /\ Call(fn, w, then).win = w
  BY DEF NoCb, Call
\* A step that neither starts a draw callback on v nor announces its frame.
<1>b. ASSUME (cb'.fn = "draw" /\ cb'.win = v) => (cb.fn = "draw" /\ cb.win = v),
             frame'[v] # "none" => frame[v] # "none",
             kind'[v] = kind[v],
             configured[v] => configured'[v], acked[v] => acked'[v]
      PROVE  Safe(v)'
  BY <1>0, <1>b
\* A draw event that the event loop gives window w.
<1>c. ASSUME NEW w \in Window, Idle, DrawEvent(w), Live(w),
             kind[w] = "toplevel" => configured[w],
             frame'[v] # "none" => frame[v] # "none",
             UNCHANGED <<kind, configured, acked>>
      PROVE  Safe(v)'
  <2>1. kind[w] = "toplevel" => Ready(w)
    BY <1>c, WindowAssumption DEF Idle, ControlInv, WindowInv
  <2>2. cb' = NoCb \/ cb' = Call("draw", w, "end")
    BY <1>c DEF DrawEvent
  <2> QED
    BY <1>0, <1>a, <1>c, <2>1, <2>2
<1>1. ASSUME NEW w \in Window, Refresh(w) PROVE Safe(v)'
  BY <1>b, <1>1 DEF Refresh
<1>2. ASSUME NEW w \in Window, SurfaceFrame(w) PROVE Safe(v)'
  <2>1. cb.fn = "draw" /\ cb.win = w
    BY <1>a, <1>2 DEF SurfaceFrame, MayPresent
  <2> QED
    BY <1>0, <1>2, <2>1 DEF SurfaceFrame, NotePresented, Callback
<1>3. ASSUME NEW w \in Window, ExternalCommit(w) PROVE Safe(v)'
  BY <1>b, <1>3 DEF ExternalCommit
<1>4. ASSUME NEW w \in Window, ApplyBuffer(w) PROVE Safe(v)'
  <2>1. cb.fn = "draw" /\ cb.win = w
    BY <1>a, <1>4 DEF ApplyBuffer, MayPresent
  <2> QED
    BY <1>0, <1>4, <2>1 DEF ApplyBuffer, NotePresented, Callback
<1>5. ASSUME NEW w \in Window, Destroy(w) PROVE Safe(v)'
  BY <1>b, <1>5 DEF Destroy
<1>6. ASSUME NEW w \in Window, NEW st \in Asks, SetState(w, st) PROVE Safe(v)'
  BY <1>b, <1>6 DEF SetState
<1>7. ASSUME NEW w \in Window, NEW k \in Kinds, NEW sz \in Sizes \cup {0},
             NEW st \in Asks \cup {"normal"}, NEW hide \in BOOLEAN,
             CreateWindow(w, k, sz, st, hide)
      PROVE  Safe(v)'
  <2>1. CASE v = w
    <3>1. frame[w] = "none" /\ ~(cb # NoCb /\ cb.win = w)
      BY <1>7 DEF CreateWindow, ControlInv, CallbackInv, WindowInv, Live
    <3> QED
      BY <1>a, <1>7, <2>1, <3>1 DEF CreateWindow
  <2>2. CASE v # w
    BY <1>b, <1>7, <2>2 DEF CreateWindow
  <2> QED
    BY <2>1, <2>2
<1>8. ASSUME NEW w \in Window, RefreshCb(w) PROVE Safe(v)'
  <2>1. Live(w) /\ (kind[w] = "toplevel" => configured[w])
    BY <1>8 DEF RefreshCb, ControlInv, WindowInv
  <2> QED
    BY <1>c, <1>8, <2>1 DEF RefreshCb
<1>9. ASSUME NEW w \in Window, FrameDone(w) PROVE Safe(v)'
  <2>1. frame'[v] # "none" => frame[v] # "none"
    BY <1>9 DEF FrameDone
  <2>2. CASE redraw[w]
    <3>1. Live(w)
      BY <1>9 DEF FrameDone, ControlInv, WindowInv
    <3>2. kind[w] = "toplevel" => configured[w]
      BY <1>9 DEF FrameDone, NothingBeforeAck
    <3> QED
      BY <1>c, <1>9, <2>1, <2>2, <3>1, <3>2 DEF FrameDone
  <2>3. CASE ~redraw[w]
    BY <1>b, <1>9, <2>1, <2>3 DEF FrameDone
  <2> QED
    BY <2>2, <2>3
<1>11. ASSUME NEW w \in Window, HandleDeferred(w) PROVE Safe(v)'
  <2>1. kind[w] = "subsurface"
    BY <1>11 DEF HandleDeferred, ControlInv, WindowInv
  <2>2. cb' = NoCb \/ cb' = Call("draw", w, "end") \/ cb' = Call("resize", w, "deferred")
    BY <1>11 DEF HandleDeferred, DeferredDraw, DrawEvent
  <2> QED
    BY <1>0, <1>a, <1>11, <2>1, <2>2 DEF HandleDeferred
<1>12. ASSUME NEW w \in Window, NEW resized \in BOOLEAN, FinishConfigure(w, resized),
              UNCHANGED <<kind, frame>>, acked[v] => acked'[v]
       PROVE  Safe(v)'
  <2>1. cb' = NoCb \/ cb' = Call("state", w, "end")
    BY <1>12 DEF FinishConfigure
  <2>2. configured[v] => configured'[v]
    BY <1>12 DEF FinishConfigure
  <2> QED
    BY <1>a, <1>b, <1>12, <2>1, <2>2
<1>13. ASSUME NEW w \in Window, Configure(w) PROVE Safe(v)'
  <2>1. UNCHANGED <<kind, frame>> /\ (acked[v] => acked'[v])
    BY <1>13 DEF Configure
  <2>2. CASE cb' = Call("resize", w, "configure") /\ UNCHANGED configured
    BY <1>a, <1>b, <2>1, <2>2
  <2>3. CASE FinishConfigure(w, FALSE)
    BY <1>12, <2>1, <2>3
  <2> QED
    BY <1>13, <2>2, <2>3 DEF Configure
<1>14. ASSUME XdgSurfaceConfigure PROVE Safe(v)'
  BY <1>b, <1>14 DEF XdgSurfaceConfigure, winVars
<1>15. ASSUME NEW w \in Window, Close(w) PROVE Safe(v)'
  BY <1>a, <1>b, <1>15 DEF Close, winVars
<1>16. ASSUME Return PROVE Safe(v)'
  <2>1. cb.win \in Window
    BY <1>16 DEF Return, ControlInv, CallbackInv
  <2>2. CASE cb.then = "end"
    BY <1>a, <1>b, <1>16, <2>2 DEF Return, winVars
  <2>3. CASE cb.then = "configure"
    BY <1>12, <1>16, <2>1, <2>3 DEF Return
  <2>4. CASE cb.then = "deferred"
    <3>1. kind[cb.win] = "subsurface"
      BY <2>4 DEF ControlInv, CallbackInv
    <3>2. cb' = NoCb \/ cb' = Call("draw", cb.win, "end")
      BY <1>16, <2>4 DEF Return, DeferredDraw, DrawEvent
    <3> QED
      BY <1>0, <1>a, <1>16, <2>4, <3>1, <3>2 DEF Return
  <2> QED
    BY <2>2, <2>3, <2>4 DEF Callback
<1>17. ASSUME NEW w \in Window, NEW sz \in Sizes \cup {0}, NEW st \in Reported,
              CompositorConfigure(w, sz, st)
       PROVE  Safe(v)'
  BY <1>b, <1>17 DEF CompositorConfigure, winVars
<1>18. ASSUME NEW w \in Window, NEW sz \in Sizes \cup {0}, CompositorGrant(w, sz)
       PROVE  Safe(v)'
  BY <1>b, <1>18 DEF CompositorGrant, winVars
<1>19. ASSUME NEW w \in Window, CompositorFrameDone(w) PROVE Safe(v)'
  BY <1>b, <1>19 DEF CompositorFrameDone
<1>20. CASE UNCHANGED vars
  BY <1>b, <1>20 DEF vars, winVars
<1> HIDE DEF TypeOK, Safe
<1>21. ASSUME NEW w \in Window, Application(w) PROVE Safe(v)'
  BY <1>1, <1>2, <1>3, <1>4, <1>5, <1>6, <1>7, <1>21 DEF Application
<1>22. ASSUME NEW w \in Window, Handler(w) PROVE Safe(v)'
  BY <1>8, <1>9, <1>11, <1>13, <1>15, <1>22 DEF Handler
<1>23. ASSUME NEW w \in Window, Compositor(w) PROVE Safe(v)'
  BY <1>17, <1>18, <1>19, <1>23 DEF Compositor
<1> QED
  BY <1>14, <1>16, <1>20, <1>21, <1>22, <1>23 DEF Next

\* A toplevel of a program that presents in its draw callbacks draws and shows
\* contents only once its first configure is handled and acknowledged.
THEOREM AckFirst ==
  ASSUME "resize" \notin DestroyIn, PresentIn \subseteq {"draw"}
  PROVE  Spec => []NothingBeforeAck
<1>1. Init => TypeOK /\ ControlInv /\ NothingBeforeAck
  <2>1. Init => NothingBeforeAck
    BY DEF Init, NothingBeforeAck, NoCb, Call
  <2> QED
    BY <2>1, InitInv
<1>2. (TypeOK /\ ControlInv /\ NothingBeforeAck) /\ [Next]_vars
        => (TypeOK /\ ControlInv /\ NothingBeforeAck)'
  BY TypeStep, ControlStep, AckStep
<1> QED
  BY <1>1, <1>2, PTL DEF Spec

-----------------------------------------------------------------------------
(* The application knows the size it draws *)

\* What the application was told of a toplevel's size is the size swa keeps.
KnownInv ==
  \A v \in Window : status[v] # "unborn" /\ kind[v] = "toplevel" => known[v] = size[v]

LEMMA KnownStep ==
  ASSUME TypeOK, ControlInv, KnownInv, [Next]_vars
  PROVE  KnownInv'
<1> DEFINE Creates == \E w \in Window, k \in Kinds, sz \in Sizes \cup {0},
                         st \in Asks \cup {"normal"}, hide \in BOOLEAN :
                         CreateWindow(w, k, sz, st, hide)
<1>1. ASSUME NEW w \in Window, NEW k \in Kinds, NEW sz \in Sizes \cup {0},
             NEW st \in Asks \cup {"normal"}, NEW hide \in BOOLEAN,
             CreateWindow(w, k, sz, st, hide)
      PROVE  KnownInv'
  <2>1. /\ kind' = [kind EXCEPT ![w] = k] /\ known' = [known EXCEPT ![w] = sz]
        /\ size' = [size EXCEPT ![w] = IF k # "toplevel" /\ sz = 0 THEN Fallback ELSE sz]
        /\ status' = [status EXCEPT ![w] = "live"]
    BY <1>1 DEF CreateWindow
  <2> QED
    BY <2>1 DEF KnownInv, TypeOK
<1>2. ASSUME NEW w \in Window, Configure(w) PROVE KnownInv'
  <2>1. PICK new : /\ size' = [size EXCEPT ![w] = new]
                   /\ IF new # size[w] THEN known' = [known EXCEPT ![w] = new]
                                       ELSE UNCHANGED known
    BY <1>2 DEF Configure
  <2>2. UNCHANGED <<status, kind>>
    BY <1>2 DEF Configure
  <2> QED
    BY <2>1, <2>2 DEF KnownInv, TypeOK
<1>3. ASSUME NEW w \in Window, HandleDeferred(w) PROVE KnownInv'
  <2>1. /\ UNCHANGED <<status, kind, size>>
        /\ known' = known \/ known' = [known EXCEPT ![w] = size[w]]
    BY <1>3 DEF HandleDeferred
  <2> QED
    BY <2>1 DEF KnownInv, TypeOK
<1>4. CASE /\ ~Creates
           /\ \A w \in Window : ~Configure(w) /\ ~HandleDeferred(w)
  <2>1. /\ UNCHANGED <<kind, size, known>>
        /\ status' = status \/ \E w \in Window : Live(w) /\ status' = [status EXCEPT ![w] = "freed"]
    <3>1. CASE Return
      BY <3>1 DEF Return, winVars
    <3>2. CASE XdgSurfaceConfigure \/ UNCHANGED vars
      BY <3>2 DEF XdgSurfaceConfigure, vars, winVars, appVars
    <3>3. ASSUME NEW w \in Window, Application(w)
          PROVE  /\ UNCHANGED <<kind, size, known>>
                 /\ status' = status \/ (Live(w) /\ status' = [status EXCEPT ![w] = "freed"])
      BY <1>4, <3>3 DEF Application, Refresh, SurfaceFrame, ExternalCommit, ApplyBuffer,
                        Destroy, SetState, appVars
    <3>4. ASSUME NEW w \in Window, Handler(w) \/ Compositor(w)
          PROVE  UNCHANGED <<kind, size, known, status>>
      BY <1>4, <3>4 DEF Handler, Compositor, RefreshCb, FrameDone, Close, CompositorFrameDone,
                        CompositorGrant, CompositorConfigure, winVars, appVars
    <3> QED
      BY <3>1, <3>2, <3>3, <3>4 DEF Next
  <2>2. \A v \in Window : status'[v] # "unborn" => status[v] # "unborn"
    BY <2>1 DEF TypeOK, Live
  <2> QED
    BY <2>1, <2>2 DEF KnownInv
<1> QED
  BY <1>1, <1>2, <1>3, <1>4

\* The application of a toplevel that presents in its draw callbacks knows the
\* size of what it is asked to draw: the size it chose, or the one the last
\* resize event told it.
THEOREM SizesKnown ==
  ASSUME "resize" \notin DestroyIn, PresentIn \subseteq {"draw"}, Kinds = {"toplevel"}
  PROVE  Spec => []DrawSizeKnown
<1> DEFINE Inv == TypeOK /\ ControlInv /\ NothingBeforeAck /\ KnownInv
<1>1. Init => Inv
  <2>1. Init => NothingBeforeAck /\ KnownInv
    BY DEF Init, NothingBeforeAck, KnownInv, NoCb, Call
  <2> QED
    BY <2>1, InitInv
<1>2. Inv /\ [Next]_vars => Inv'
  BY TypeStep, ControlStep, AckStep, KnownStep
<1>3. Inv => DrawSizeKnown
  <2> SUFFICES ASSUME Inv, cb.fn = "draw"
               PROVE  known[cb.win] = size[cb.win] /\ known[cb.win] # 0
    BY DEF DrawSizeKnown
  <2>1. cb # NoCb
    BY DEF NoCb, Call
  <2>2. cb.win \in Window /\ status[cb.win] # "unborn" /\ kind[cb.win] = "toplevel"
    BY <2>1 DEF ControlInv, CallbackInv, WindowInv
  <2>3. configured[cb.win] /\ size[cb.win] # 0
    BY <2>2 DEF NothingBeforeAck, ControlInv, WindowInv
  <2> QED
    BY <2>2, <2>3 DEF KnownInv
<1> HIDE DEF Inv
<1> QED
  BY <1>1, <1>2, <1>3, PTL DEF Spec

-----------------------------------------------------------------------------
(* The state of a toplevel is the compositor's *)

LastOf(q) == q[Len(q)]

LEMMA LastFacts ==
  ASSUME NEW S, NEW q \in Seq(S)
  PROVE  /\ \A e \in S : LastOf(Append(q, e)) = e
         /\ q # <<>> => IF Tail(q) = <<>> THEN Head(q) = LastOf(q)
                                          ELSE LastOf(Tail(q)) = LastOf(q)
<1>1. \A e \in S : LastOf(Append(q, e)) = e
  BY DEF LastOf
<1>2. ASSUME q # <<>>
      PROVE  IF Tail(q) = <<>> THEN Head(q) = LastOf(q) ELSE LastOf(Tail(q)) = LastOf(q)
  <2>1. /\ Len(q) \in Nat \ {0} /\ Head(q) = q[1]
        /\ Tail(q) \in Seq(S) /\ Len(Tail(q)) = Len(q) - 1
        /\ \A i \in 1 .. Len(q) - 1 : Tail(q)[i] = q[i + 1]
    BY <1>2
  <2>2. \A t \in Seq(S) : t = <<>> <=> Len(t) = 0
    OBVIOUS
  <2>3. CASE Tail(q) = <<>>
    <3>1. Len(q) = 1
      BY <2>1, <2>2, <2>3
    <3> QED
      BY <2>1, <2>3, <3>1 DEF LastOf
  <2>4. CASE Tail(q) # <<>>
    <3>1. Len(q) - 1 \in 1 .. Len(q) - 1
      BY <2>1, <2>2, <2>4
    <3>2. Tail(q)[Len(q) - 1] = q[Len(q)]
      BY <2>1, <3>1
    <3> QED
      BY <2>1, <2>4, <3>2 DEF LastOf
  <2> QED
    BY <2>3, <2>4
<1> QED
  BY <1>1, <1>2

\* The last configure event in flight carries the compositor's state.  Once a
\* toplevel is configured and no event is left, its state is the compositor's,
\* or minimized, or the one a request in flight asks for.
StateInv(v) ==
  /\ status[v] = "unborn" => ~acked[v]
  /\ kind[v] = "toplevel" /\ acked[v] => configured[v]
  /\ ackDue = v => configured[v]
  /\ wire[v] # <<>> => LastOf(wire[v]).state = comp[v]
  /\ kind[v] = "toplevel" /\ configured[v] /\ wire[v] = <<>> =>
       \/ state[v] \in {comp[v], "minimized"}
       \/ reqs[v] # <<>> /\ LastOf(reqs[v]) # "minimized"
       \/ ~Live(v)

\* A step that leaves a window's state and the wire alone
LEMMA StateSame ==
  ASSUME NEW v \in Window, StateInv(v),
         UNCHANGED <<kind[v], configured[v], acked[v], wire[v], comp[v], reqs[v], state[v]>>,
         ackDue' = v => ackDue = v,
         status'[v] = "unborn" => status[v] = "unborn",
         status'[v] = "live" => status[v] = "live"
  PROVE  StateInv(v)'
  BY DEF StateInv, Live

\* The end of a configure handler: the event is taken, its state assumed.
LEMMA StateFinish ==
  ASSUME TypeOK, ControlInv, NEW w \in Window, NEW resized \in BOOLEAN,
         Live(w), Configurable(w), wire[w] # <<>>, FinishConfigure(w, resized),
         UNCHANGED <<status, kind, reqs, comp>>,
         acked' = acked \/ acked' = [acked EXCEPT ![w] = acked[w] \/ kind[w] = "layer"],
         NEW v \in Window, StateInv(v), ackDue = NoWindow
  PROVE  StateInv(v)'
<1>1. /\ configured' = [configured EXCEPT ![w] = TRUE]
      /\ wire' = [wire EXCEPT ![w] = Tail(wire[w])]
      /\ IF kind[w] = "toplevel"
           THEN ackDue' = w /\ state' = [state EXCEPT ![w] = Head(wire[w]).state]
           ELSE UNCHANGED <<ackDue, state>>
  BY DEF FinishConfigure
<1>2. CASE v # w
  <2>1. ackDue' # v
    BY <1>1, <1>2, WindowAssumption
  <2> QED
    BY ZenonT(30), <1>1, <1>2, <2>1, StateSame DEF TypeOK
<1>3. CASE v = w
  <2>1. /\ configured'[w] /\ wire'[w] = Tail(wire[w])
        /\ kind[w] = "toplevel" => state'[w] = Head(wire[w]).state
    BY <1>1 DEF TypeOK
  <2>2. wire[w] \in Seq(Event)
    BY DEF TypeOK
  <2>3. IF Tail(wire[w]) = <<>> THEN Head(wire[w]) = LastOf(wire[w])
                                ELSE LastOf(Tail(wire[w])) = LastOf(wire[w])
    BY <2>2, LastFacts
  <2> QED
    BY <1>3, <2>1, <2>3 DEF StateInv, Live
<1> QED
  BY <1>2, <1>3

LEMMA StateStep ==
  ASSUME TypeOK, ControlInv, \A v \in Window : StateInv(v), [Next]_vars,
         NEW v \in Window
  PROVE  StateInv(v)'
<1>0. StateInv(v)
  OBVIOUS
<1>1. ASSUME NEW w \in Window, NEW k \in Kinds, NEW sz \in Sizes \cup {0},
             NEW st \in Asks \cup {"normal"}, NEW hide \in BOOLEAN,
             CreateWindow(w, k, sz, st, hide)
      PROVE  StateInv(v)'
  <2>1. /\ UNCHANGED <<configured, acked, ackDue, wire, reqs>> /\ status[w] = "unborn"
        /\ \A u \in Window : u # w => UNCHANGED <<status[u], kind[u], state[u], comp[u]>>
        /\ status'[w] = "live"
    BY <1>1 DEF CreateWindow, TypeOK
  <2>2. CASE v # w
    BY <1>0, <2>1, <2>2, StateSame
  <2>3. CASE v = w
    <3>1. wire[w] = <<>> /\ ~configured[w] /\ ~acked[w]
      BY <1>0, <2>1, <2>3 DEF ControlInv, WindowInv, Live, StateInv
    <3> QED
      BY <1>0, <2>1, <2>3, <3>1 DEF StateInv
  <2> QED
    BY <2>2, <2>3
<1>2. ASSUME NEW w \in Window, Destroy(w) PROVE StateInv(v)'
  <2>1. /\ UNCHANGED <<kind, configured, state, comp, acked>>
        /\ \A u \in Window : u # w => UNCHANGED <<status[u], wire[u], reqs[u]>>
        /\ status'[w] = "freed" /\ wire'[w] = <<>>
        /\ ackDue' \in {ackDue, NoWindow}
    BY <1>2 DEF Destroy, TypeOK
  <2>2. CASE v # w
    BY <1>0, <2>1, <2>2, StateSame, WindowAssumption
  <2>3. CASE v = w
    BY <1>0, <2>1, <2>3, WindowAssumption DEF StateInv, Live
  <2> QED
    BY <2>2, <2>3
<1>3. ASSUME NEW w \in Window, NEW st \in Asks, SetState(w, st) PROVE StateInv(v)'
  <2>1. /\ UNCHANGED <<status, kind, configured, ackDue, wire, comp, acked>>
        /\ \A u \in Window : u # w => UNCHANGED <<state[u], reqs[u]>>
        /\ state'[w] = st /\ reqs'[w] = Append(reqs[w], st)
    BY <1>3 DEF SetState, TypeOK
  <2>2. CASE v # w
    BY <1>0, <2>1, <2>2, StateSame
  <2>3. CASE v = w
    <3>1. reqs[w] \in Seq(States) /\ st \in States
      BY StateAssumption DEF TypeOK
    <3>2. LastOf(reqs'[w]) = st /\ reqs'[w] # <<>>
      BY <2>1, <3>1, LastFacts, AppendNonempty
    <3> QED
      BY <1>0, <2>1, <2>3, <3>2 DEF StateInv, Live
  <2> QED
    BY <2>2, <2>3
<1>4. ASSUME NEW w \in Window, Configure(w) PROVE StateInv(v)'
  <2>1. /\ Live(w) /\ wire[w] # <<>> /\ ackDue = NoWindow
        /\ UNCHANGED <<status, kind, reqs, comp>>
        /\ acked' = [acked EXCEPT ![w] = acked[w] \/ kind[w] = "layer"]
    BY <1>4 DEF Configure, Idle
  <2>2. CASE UNCHANGED <<configured, wire, ackDue, state>>
    BY <1>0, <2>1, <2>2 DEF StateInv, Live, TypeOK
  <2>3. CASE FinishConfigure(w, FALSE)
    <3>1. Configurable(w)
      BY <2>1 DEF ControlInv, WindowInv
    <3> QED
      BY <1>0, <2>1, <2>3, <3>1, StateFinish
  <2> QED
    BY <1>4, <2>2, <2>3 DEF Configure
<1>5. CASE Return
  <2>1. cb # NoCb /\ UNCHANGED <<status, kind, reqs, comp, acked>>
    BY <1>5 DEF Return, winVars
  <2>2. CASE UNCHANGED <<configured, wire, ackDue, state>>
    BY <1>0, <2>1, <2>2 DEF StateInv, Live
  <2>3. CASE cb.then = "configure" /\ FinishConfigure(cb.win, TRUE)
    <3>1. /\ cb.win \in Window /\ Configurable(cb.win) /\ wire[cb.win] # <<>> /\ cb.fn = "resize"
      BY <2>1, <2>3 DEF ControlInv, CallbackInv
    <3>2. Live(cb.win) /\ ackDue = NoWindow
      BY <3>1 DEF ControlInv, CallbackInv, WindowInv
    <3> QED
      BY <1>0, <2>1, <2>3, <3>1, <3>2, StateFinish
  <2> QED
    BY <1>5, <2>2, <2>3 DEF Return, winVars
<1>6. CASE XdgSurfaceConfigure
  <2>1. /\ ackDue \in Window /\ acked' = [acked EXCEPT ![ackDue] = TRUE] /\ ackDue' = NoWindow
        /\ UNCHANGED <<status, kind, configured, wire, comp, reqs, state>>
    BY <1>6 DEF XdgSurfaceConfigure, winVars, compVars, TypeOK
  <2>2. configured[ackDue] /\ status[ackDue] # "unborn"
    BY <2>1, WindowAssumption DEF StateInv, ControlInv, CallbackInv
  <2> QED
    BY <1>0, <2>1, <2>2, WindowAssumption DEF StateInv, Live, TypeOK
<1>7. ASSUME NEW w \in Window, NEW sz \in Sizes \cup {0}, NEW st \in States,
             comp' = [comp EXCEPT ![w] = st],
             wire' = [wire EXCEPT ![w] = Append(wire[w], [size |-> sz, state |-> st])],
             reqs' = reqs \/ reqs' = [reqs EXCEPT ![w] = Tail(reqs[w])],
             UNCHANGED <<winVars, ackDue, acked>>
      PROVE  StateInv(v)'
  <2>1. /\ \A u \in Window : u # w => UNCHANGED <<comp[u], wire[u], reqs[u]>>
        /\ comp'[w] = st /\ wire'[w] = Append(wire[w], [size |-> sz, state |-> st])
    BY <1>7 DEF TypeOK
  <2>2. CASE v # w
    BY <1>0, <1>7, <2>1, <2>2, StateSame DEF winVars
  <2>3. CASE v = w
    <3>1. wire[w] \in Seq(Event) /\ [size |-> sz, state |-> st] \in Event
      BY DEF TypeOK, Event
    <3>2. wire'[w] # <<>> /\ LastOf(wire'[w]).state = st
      BY <2>1, <3>1, LastFacts, AppendNonempty
    <3> QED
      BY <1>0, <1>7, <2>1, <2>3, <3>2 DEF StateInv, Live, winVars
  <2> QED
    BY <2>2, <2>3
<1>8. ASSUME NEW w \in Window, NEW sz \in Sizes \cup {0}, NEW st \in Reported,
             CompositorConfigure(w, sz, st)
      PROVE  StateInv(v)'
  BY <1>7, <1>8 DEF CompositorConfigure, States, Reported
<1>9. ASSUME NEW w \in Window, NEW sz \in Sizes \cup {0}, CompositorGrant(w, sz)
      PROVE  StateInv(v)'
  <2>1. /\ reqs[w] # <<>> /\ reqs' = [reqs EXCEPT ![w] = Tail(reqs[w])]
        /\ UNCHANGED <<winVars, ackDue, acked>>
    BY <1>9 DEF CompositorGrant
  <2>2. reqs[w] \in Seq(States) /\ Head(reqs[w]) \in States
    BY <2>1, QueueFacts DEF TypeOK
  <2>3. CASE Head(reqs[w]) # "minimized"
    BY <1>7, <1>9, <2>1, <2>2, <2>3 DEF CompositorGrant
  <2>4. CASE Head(reqs[w]) = "minimized"
    <3>1. /\ UNCHANGED <<wire, comp>> /\ reqs'[w] = Tail(reqs[w])
          /\ \A u \in Window : u # w => reqs'[u] = reqs[u]
      BY <1>9, <2>1, <2>4 DEF CompositorGrant, TypeOK
    <3>2. CASE v # w
      BY <1>0, <2>1, <3>1, <3>2, StateSame DEF winVars
    <3>3. CASE v = w
      <4>1. IF Tail(reqs[w]) = <<>> THEN Head(reqs[w]) = LastOf(reqs[w])
                                    ELSE LastOf(Tail(reqs[w])) = LastOf(reqs[w])
        BY <2>1, <2>2, LastFacts
      <4> QED
        BY <1>0, <2>1, <2>4, <3>1, <3>3, <4>1 DEF StateInv, Live, winVars
    <3> QED
      BY <3>2, <3>3
  <2> QED
    BY <2>3, <2>4
<1>10. ASSUME UNCHANGED <<status, kind, configured, state, acked, ackDue, wire, reqs, comp>>
       PROVE  StateInv(v)'
  BY <1>0, <1>10 DEF StateInv, Live
<1>11. ASSUME NEW w \in Window, Refresh(w) \/ SurfaceFrame(w) \/ ExternalCommit(w) \/ ApplyBuffer(w)
       PROVE  StateInv(v)'
  BY <1>10, <1>11 DEF Refresh, SurfaceFrame, ExternalCommit, ApplyBuffer, compVars
<1>12. ASSUME NEW w \in Window, RefreshCb(w) \/ FrameDone(w) \/ HandleDeferred(w) \/ Close(w)
       PROVE  StateInv(v)'
  BY <1>10, <1>12 DEF RefreshCb, FrameDone, HandleDeferred, Close, winVars, compVars
<1>13. ASSUME NEW w \in Window, CompositorFrameDone(w) PROVE StateInv(v)'
  BY <1>10, <1>13 DEF CompositorFrameDone, compVars
<1>14. CASE UNCHANGED vars
  BY <1>10, <1>14 DEF vars, winVars, compVars
<1>15. ASSUME NEW w \in Window, Application(w) \/ Handler(w) \/ Compositor(w) PROVE StateInv(v)'
  BY <1>1, <1>2, <1>3, <1>4, <1>8, <1>9, <1>11, <1>12, <1>13, <1>15
     DEF Application, Handler, Compositor
<1> QED
  BY <1>5, <1>6, <1>14, <1>15 DEF Next

\* With nothing in flight, the state swa believes a toplevel to be in is the
\* compositor's, or minimized: whatever the application asks for and in which
\* order requests, grants and configure events cross.
THEOREM StatesAgree ==
  ASSUME "resize" \notin DestroyIn
  PROVE  Spec => []StateAgrees
<1> DEFINE Inv == TypeOK /\ ControlInv /\ \A v \in Window : StateInv(v)
<1>1. Init => Inv
  <2>1. Init => \A v \in Window : StateInv(v)
    BY WindowAssumption DEF Init, StateInv
  <2> QED
    BY <2>1, InitInv
<1>2. Inv /\ [Next]_vars => Inv'
  <2> SUFFICES ASSUME Inv, [Next]_vars PROVE Inv'
    OBVIOUS
  <2>1. \A v \in Window : StateInv(v)'
    BY StateStep
  <2>2. TypeOK' /\ ControlInv'
    BY TypeStep, ControlStep
  <2> QED
    BY <2>1, <2>2
<1>3. Inv => StateAgrees
  BY DEF StateInv, StateAgrees
<1> HIDE DEF Inv
<1> QED
  BY <1>1, <1>2, <1>3, PTL DEF Spec

-----------------------------------------------------------------------------
(* The contract of drawing *)

\* The program the theorem is about.
Toplevels == /\ Kinds = {"toplevel"} /\ PresentIn \subseteq {"draw"}
             /\ "resize" \notin DestroyIn

One(w) ==
  /\ deferRedraw[w] => frame[w] = "none"
  /\ cb.fn = "draw" /\ cb.win = w /\ Live(w) =>
       IF cb.presented THEN frame[w] # "none" ELSE ~deferRedraw[w]
  /\ redraw[w] /\ Live(w) /\ show[w] => Pending(w)

\* Every window is a toplevel, so no first event is deferred.
LEMMA NoSubsurface ==
  ASSUME Toplevels, TypeOK, ControlInv
  PROVE  /\ cb.then # "deferred"
         /\ \A w \in Window : ~defer[w]
         /\ \A w \in Window : status[w] # "unborn" => kind[w] = "toplevel"
<1>1. \A w \in Window : status[w] # "unborn" => kind[w] = "toplevel"
  BY DEF Toplevels, ControlInv, WindowInv
<1>2. \A w \in Window : ~defer[w]
  BY <1>1 DEF ControlInv, WindowInv
<1>3. cb.then = "deferred" => cb # NoCb
  BY DEF NoCb, Call
<1>4. cb.then # "deferred"
  BY <1>1, <1>3 DEF ControlInv, CallbackInv
<1> QED
  BY <1>1, <1>2, <1>4

\* What presenting needs: the draw callback of the window.
LEMMA PresentsInDraw ==
  ASSUME Toplevels, NEW w \in Window, MayPresent(w)
  PROVE  cb.fn = "draw" /\ cb.win = w /\ cb # NoCb /\ Live(w)
<1>1. cb.fn = "draw"
  BY DEF Toplevels, MayPresent
<1>2. cb # NoCb
  BY <1>1 DEF NoCb, Call
<1> QED
  BY <1>1, <1>2 DEF MayPresent

LEMMA OneSourceStep ==
  ASSUME Toplevels, TypeOK, ControlInv, NothingBeforeAck, OneSource, [Next]_vars
  PROVE  OneSource'
<1> SUFFICES ASSUME NEW v \in Window PROVE One(v)'
  BY DEF OneSource, One
<1> USE DEF TypeOK
<1>0. One(v)
  BY DEF OneSource, One
<1>a. /\ NoCb.fn = "idle" /\ NoCb.then = "end"
      /\ \A fn, w, then : /\ Call(fn, w, then).fn = fn /\ Call(fn, w, then).win = w
                          /\ Call(fn, w, then).then = then
                          /\ Call(fn, w, then).presented = FALSE
  BY DEF NoCb, Call
<1>b. /\ cb.then # "deferred" /\ \A w \in Window : ~defer[w]
      /\ \A w \in Window : Live(w) => kind[w] = "toplevel"
  BY NoSubsurface DEF Live
\* A step that leaves the window's drawing alone.
<1>c. ASSUME UNCHANGED <<status[v], kind[v], show[v], configured[v], redraw[v],
                         defer[v], deferEvents[v], deferRedraw[v]>>,
             frame'[v] = frame[v] \/ (frame[v] # "none" /\ frame'[v] # "none"),
             (cb'.fn = "draw" /\ cb'.win = v) => cb' = cb
      PROVE  One(v)'
  BY <1>0, <1>b, <1>c DEF One, Live, Pending, Configurable
\* A draw callback for a window whose defer is disabled.
<1>d. ASSUME NEW w \in Window, DrawEvent(w), ~deferRedraw'[w], ~redraw'[w],
             UNCHANGED <<status, kind, show, configured, defer, deferEvents>>,
             w # v => UNCHANGED <<redraw[v], deferRedraw[v], frame[v]>>
      PROVE  One(v)'
  <2>1. cb' = NoCb \/ cb' = Call("draw", w, "end")
    BY <1>d DEF DrawEvent
  <2>2. CASE v = w
    BY <1>a, <1>d, <2>1, <2>2 DEF One
  <2>3. CASE v # w
    BY <1>a, <1>c, <1>d, <2>1, <2>3
  <2> QED
    BY <2>2, <2>3
<1>1. ASSUME NEW w \in Window, Refresh(w) PROVE One(v)'
  <2>1. CASE v # w
    BY <1>c, <1>1, <2>1 DEF Refresh, WinRefresh
  <2>2. CASE v = w /\ RefreshBlocked(w, configured[w])
    <3>1. redraw' = [redraw EXCEPT ![w] = TRUE] /\ UNCHANGED deferRedraw
      BY <1>1, <2>2 DEF Refresh, WinRefresh
    <3> QED
      BY <1>0, <1>1, <1>b, <2>2, <3>1
         DEF Refresh, RefreshBlocked, One, Live, Pending, Configurable
  <2>3. CASE v = w /\ ~RefreshBlocked(w, configured[w])
    <3>1. deferRedraw' = [deferRedraw EXCEPT ![w] = TRUE] /\ UNCHANGED redraw
      BY <1>1, <2>3 DEF Refresh, WinRefresh
    <3>2. frame[w] = "none"
      BY <2>3 DEF RefreshBlocked
    <3>3. ~(cb.fn = "draw" /\ cb.win = w)
      BY <1>0, <1>1, <2>3, <3>2 DEF Refresh, One
    <3> QED
      BY <1>1, <2>3, <3>1, <3>2, <3>3 DEF Refresh, One, Pending
  <2> QED
    BY <2>1, <2>2, <2>3
<1>2. ASSUME NEW w \in Window, SurfaceFrame(w) \/ ApplyBuffer(w) PROVE One(v)'
  <2>1. /\ frame' = [frame EXCEPT ![w] = "requested"] \/ frame' = [frame EXCEPT ![w] = "committed"]
        /\ UNCHANGED <<status, kind, show, configured, redraw, defer, deferEvents, deferRedraw>>
        /\ MayPresent(w) /\ NotePresented
    BY <1>2 DEF SurfaceFrame, ApplyBuffer
  <2>2. cb.fn = "draw" /\ cb.win = w /\ cb # NoCb /\ Live(w)
    BY <2>1, PresentsInDraw
  <2>3. cb'.fn = "draw" /\ cb'.win = w /\ cb'.presented
    BY <2>1, <2>2 DEF NotePresented, Callback
  <2>4. CASE v = w
    <3>1. ~deferRedraw[w]
      BY <1>0, <2>2, <2>4 DEF One
    <3> QED
      BY <1>0, <2>1, <2>3, <2>4, <3>1 DEF One, Live, Pending, Configurable
  <2>5. CASE v # w
    BY <1>c, <2>1, <2>3, <2>5
  <2> QED
    BY <2>4, <2>5
<1>3. ASSUME NEW w \in Window, ExternalCommit(w) \/ CompositorFrameDone(w) PROVE One(v)'
  BY <1>c, <1>3 DEF ExternalCommit, CompositorFrameDone
<1>5. ASSUME NEW w \in Window, Destroy(w) PROVE One(v)'
  <2>1. CASE v = w
    BY <1>5, <2>1 DEF Destroy, One, Live
  <2>2. CASE v # w
    BY <1>c, <1>5, <2>2 DEF Destroy
  <2> QED
    BY <2>1, <2>2
<1>6. ASSUME NEW w \in Window, NEW st \in Asks, SetState(w, st) PROVE One(v)'
  BY <1>c, <1>6 DEF SetState
<1>7. ASSUME NEW w \in Window, NEW k \in Kinds, NEW sz \in Sizes \cup {0},
             NEW st \in Asks \cup {"normal"}, NEW hide \in BOOLEAN,
             CreateWindow(w, k, sz, st, hide)
      PROVE  One(v)'
  <2>1. CASE v = w
    <3>1. ~(cb.fn = "draw" /\ cb.win = w) /\ ~deferRedraw[w] /\ ~configured[w]
      BY <1>a, <1>7 DEF CreateWindow, ControlInv, CallbackInv, WindowInv, Live
    <3>2. kind'[w] = "toplevel"
      BY <1>7 DEF CreateWindow, Toplevels
    <3> QED
      BY <1>7, <2>1, <3>1, <3>2 DEF CreateWindow, One, Pending, Configurable
  <2>2. CASE v # w
    BY <1>c, <1>7, <2>2 DEF CreateWindow
  <2> QED
    BY <2>1, <2>2
<1>8. ASSUME NEW w \in Window, RefreshCb(w) PROVE One(v)'
  BY <1>d, <1>8 DEF RefreshCb
<1>9. ASSUME NEW w \in Window, FrameDone(w) PROVE One(v)'
  <2>1. CASE redraw[w]
    <3>1. ~deferRedraw[w]
      BY <1>9 DEF FrameDone, OneSource
    <3> QED
      BY <1>d, <1>9, <2>1, <3>1 DEF FrameDone
  <2>2. CASE ~redraw[w] /\ v = w
    BY <1>a, <1>9, <2>2 DEF FrameDone, Idle, One
  <2>3. CASE ~redraw[w] /\ v # w
    BY <1>c, <1>9, <2>3 DEF FrameDone
  <2> QED
    BY <2>1, <2>2, <2>3
<1>11. ASSUME NEW w \in Window, HandleDeferred(w) PROVE One(v)'
  BY <1>b, <1>11 DEF HandleDeferred
<1>12. ASSUME NEW w \in Window, NEW resized \in BOOLEAN, FinishConfigure(w, resized),
              Live(w), cb.fn # "draw",
              UNCHANGED <<status, kind, show, frame, defer, deferEvents>>
       PROVE  One(v)'
  <2>1. cb' = NoCb \/ cb' = Call("state", w, "end")
    BY <1>12 DEF FinishConfigure
  <2>2. CASE v # w
    <3>1. UNCHANGED <<configured[v], redraw[v], deferRedraw[v]>>
      BY <1>12, <2>2 DEF FinishConfigure, WinRefresh
    <3> QED
      BY <1>a, <1>c, <1>12, <2>1, <3>1
  <2>3. CASE v = w /\ ~resized /\ configured[w]
    BY <1>0, <1>a, <1>b, <1>12, <2>1, <2>3 DEF FinishConfigure, One, Live, Pending, Configurable
  <2>4. CASE v = w /\ (resized \/ ~configured[w])
    <3>1. WinRefresh(w, TRUE) /\ configured'[w]
      BY <1>12, <2>4 DEF FinishConfigure
    <3>2. deferRedraw'[w] => frame[w] = "none"
      BY <1>0, <2>4, <3>1 DEF WinRefresh, RefreshBlocked, One
    <3>3. show[w] => Pending(w)'
      BY <1>12, <3>1, RefreshPends
    <3> QED
      BY <1>a, <1>12, <2>1, <2>4, <3>2, <3>3 DEF One
  <2> QED
    BY <2>2, <2>3, <2>4
<1>13. ASSUME NEW w \in Window, Configure(w) PROVE One(v)'
  <2>1. /\ UNCHANGED <<status, kind, show, frame, defer, deferEvents>>
        /\ Live(w) /\ cb.fn # "draw"
    BY <1>a, <1>13 DEF Configure, Idle
  <2>2. CASE cb' = Call("resize", w, "configure") /\ UNCHANGED <<configured, redraw, deferRedraw>>
    BY <1>a, <1>c, <2>1, <2>2
  <2>3. CASE FinishConfigure(w, FALSE)
    BY <1>12, <2>1, <2>3
  <2> QED
    BY <1>13, <2>2, <2>3 DEF Configure
<1>14. ASSUME XdgSurfaceConfigure PROVE One(v)'
  BY <1>c, <1>14 DEF XdgSurfaceConfigure, winVars
<1>15. ASSUME NEW w \in Window, Close(w) PROVE One(v)'
  BY <1>a, <1>c, <1>15 DEF Close, winVars
<1>16. ASSUME Return PROVE One(v)'
  <2>1. CASE cb.then = "end"
    BY <1>a, <1>c, <1>16, <2>1 DEF Return, winVars
  <2>2. CASE cb.then = "configure"
    <3>1. cb.fn = "resize" /\ cb.win \in Window /\ Live(cb.win)
      BY <1>16, <2>2 DEF Return, ControlInv, CallbackInv, WindowInv
    <3> QED
      BY <1>12, <1>16, <2>2, <3>1 DEF Return
  <2> QED
    BY <1>b, <2>1, <2>2 DEF Callback
<1>17. ASSUME NEW w \in Window, NEW sz \in Sizes \cup {0}, NEW st \in Reported,
              CompositorConfigure(w, sz, st)
       PROVE  One(v)'
  BY <1>c, <1>17 DEF CompositorConfigure, winVars
<1>18. ASSUME NEW w \in Window, NEW sz \in Sizes \cup {0}, CompositorGrant(w, sz)
       PROVE  One(v)'
  BY <1>c, <1>18 DEF CompositorGrant, winVars
<1>20. CASE UNCHANGED vars
  BY <1>c, <1>20 DEF vars, winVars
<1> HIDE DEF TypeOK
<1>21. ASSUME NEW w \in Window, Application(w) PROVE One(v)'
  BY <1>1, <1>2, <1>3, <1>5, <1>6, <1>7, <1>21 DEF Application
<1>22. ASSUME NEW w \in Window, Handler(w) PROVE One(v)'
  BY <1>8, <1>9, <1>11, <1>13, <1>15, <1>22 DEF Handler
<1>23. ASSUME NEW w \in Window, Compositor(w) PROVE One(v)'
  BY <1>3, <1>17, <1>18, <1>23 DEF Compositor
<1> QED
  BY <1>14, <1>16, <1>20, <1>21, <1>22, <1>23 DEF Next

-----------------------------------------------------------------------------
(* Every step is a step of the contract, or leaves its variables alone *)

Owing == {w \in Window : Live(w) /\ show[w] /\ Pending(w)}
Alive == {w \in Window : Live(w)}
Throttled == {w \in Window : frame[w] # "none"}

\* The state in which steps are compared.
Simulated == TypeOK /\ ControlInv /\ NothingBeforeAck /\ OneSource

\* What of a window the contract does not see to change.
Untouched(v) == UNCHANGED <<status[v], kind[v], show[v], configured[v], redraw[v],
                            frame[v], defer[v], deferEvents[v], deferRedraw[v]>>

\* A window's debt changes only with what Pending reads.
LEMMA OwingUnchanged ==
  ASSUME Toplevels, TypeOK, ControlInv, TypeOK', ControlInv',
         NEW v \in Window, Untouched(v)
  PROVE  v \in Owing' <=> v \in Owing
<1>1. cb.then # "deferred" /\ cb'.then # "deferred"
  <2>1. cb.then # "deferred"
    BY NoSubsurface
  <2>2. cb'.then = "deferred" => cb' # NoCb
    BY DEF NoCb, Call
  <2>3. \A w \in Window : status'[w] # "unborn" => kind'[w] = "toplevel"
    BY DEF Toplevels, ControlInv, WindowInv
  <2> QED
    BY <2>1, <2>2, <2>3 DEF ControlInv, CallbackInv
<1> QED
  BY <1>1 DEF Untouched, Owing, Live, Pending, Configurable

\* The debt of a configured toplevel.
LEMMA OwingToplevel ==
  ASSUME Toplevels, TypeOK, ControlInv, NEW w \in Window
  PROVE  w \in Owing <=> /\ Live(w) /\ show[w]
                         /\ \/ deferRedraw[w] \/ (redraw[w] /\ frame[w] # "none")
                            \/ ~configured[w]
  BY NoSubsurface DEF Owing, Live, Pending, Configurable

\* A step that changes one window changes one element of the contract's sets.
LEMMA OneWindow ==
  ASSUME Toplevels, TypeOK, ControlInv, TypeOK', ControlInv', NEW w \in Window,
         \A v \in Window \ {w} : Untouched(v)
  PROVE  /\ Owing' \ {w} = Owing \ {w}
         /\ Alive' \ {w} = Alive \ {w}
         /\ Throttled' \ {w} = Throttled \ {w}
<1>1. Owing' \ {w} = Owing \ {w}
  BY OwingUnchanged DEF Owing
<1> QED
  BY <1>1 DEF Untouched, Alive, Throttled, Live

\* A stutter of the contract.
LEMMA Stutter ==
  ASSUME Owing' = Owing, Alive' = Alive, Throttled' = Throttled, Drawing' = Drawing
  PROVE  UNCHANGED Contract!redrawVars
BY DEF Contract!redrawVars, Owing, Alive, Throttled

LEMMA StutterUntouched ==
  ASSUME Toplevels, TypeOK, ControlInv, TypeOK', ControlInv',
         \A v \in Window : Untouched(v), Drawing' = Drawing
  PROVE  UNCHANGED Contract!redrawVars
<1>1. Owing' = Owing
  BY OwingUnchanged DEF Owing
<1>2. Alive' = Alive /\ Throttled' = Throttled
  BY DEF Untouched, Alive, Throttled, Live
<1> QED
  BY <1>1, <1>2, Stutter

\* The steps of the contract, in the sets above.
LEMMA ContractSteps ==
  ASSUME NEW w \in Window
  PROVE  /\ /\ w \in Alive /\ Owing' = Owing \cup {w}
            /\ Alive' = Alive /\ Throttled' = Throttled /\ Drawing' = Drawing
            => Contract!Next
         /\ /\ w \in Alive /\ Throttled' = Throttled \cup {w}
            /\ Alive' = Alive /\ Owing' = Owing /\ Drawing' = Drawing
            => Contract!Next
         /\ /\ w \in Alive /\ Alive' = Alive \ {w} /\ Owing' = Owing \ {w}
            /\ Throttled' = Throttled \ {w} /\ Drawing' = Drawing
            => Contract!Next
         /\ /\ w \notin Alive /\ Alive' = Alive \cup {w}
            /\ Owing' = Owing \/ Owing' = Owing \cup {w}
            /\ Throttled' = Throttled /\ Drawing' = Drawing
            => Contract!Next
         /\ /\ Drawing = {} /\ w \in Owing /\ w \notin Throttled
            /\ Owing' = Owing \ {w} /\ Drawing' = {w}
            /\ Alive' = Alive /\ Throttled' = Throttled
            => Contract!Next
         /\ /\ w \in Throttled /\ Throttled' = Throttled \ {w} /\ Alive' = Alive
            /\ \/ /\ w \in Owing /\ Drawing = {} /\ Drawing' = {w} /\ Owing' = Owing \ {w}
               \/ w \notin Owing /\ Owing' = Owing /\ Drawing' = Drawing
            => Contract!Next
<1>1. (/\ w \in Alive /\ Owing' = Owing \cup {w}
       /\ Alive' = Alive /\ Throttled' = Throttled /\ Drawing' = Drawing) => Contract!Ask(w)
  BY DEF Contract!Ask, Owing, Alive, Throttled
<1>2. (/\ w \in Alive /\ Throttled' = Throttled \cup {w}
       /\ Alive' = Alive /\ Owing' = Owing /\ Drawing' = Drawing) => Contract!Frame(w)
  BY DEF Contract!Frame, Owing, Alive, Throttled
<1>3. (/\ w \in Alive /\ Alive' = Alive \ {w} /\ Owing' = Owing \ {w}
       /\ Throttled' = Throttled \ {w} /\ Drawing' = Drawing) => Contract!Destroy(w)
  BY DEF Contract!Destroy, Owing, Alive, Throttled
<1>4. (/\ w \notin Alive /\ Alive' = Alive \cup {w}
       /\ Owing' = Owing \/ Owing' = Owing \cup {w}
       /\ Throttled' = Throttled /\ Drawing' = Drawing) => Contract!Create(w)
  BY DEF Contract!Create, Owing, Alive, Throttled
<1>5. (/\ Drawing = {} /\ w \in Owing /\ w \notin Throttled
       /\ Owing' = Owing \ {w} /\ Drawing' = {w}
       /\ Alive' = Alive /\ Throttled' = Throttled) => Contract!Draw(w)
  BY DEF Contract!Draw, Owing, Alive, Throttled
<1>6. (/\ w \in Throttled /\ Throttled' = Throttled \ {w} /\ Alive' = Alive
       /\ \/ /\ w \in Owing /\ Drawing = {} /\ Drawing' = {w} /\ Owing' = Owing \ {w}
          \/ w \notin Owing /\ Owing' = Owing /\ Drawing' = Drawing) => Contract!FrameEnd(w)
  BY DEF Contract!FrameEnd, Owing, Alive, Throttled
<1> QED
  BY <1>1, <1>2, <1>3, <1>4, <1>5, <1>6 DEF Contract!Next

\* Sets that differ in one element at most.
LEMMA SameSet ==
  ASSUME NEW S, NEW T, NEW w, S \ {w} = T \ {w},
         (w \in S /\ w \in T) \/ (w \notin S /\ w \notin T)
  PROVE  S = T
OBVIOUS

LEMMA AddedElement ==
  ASSUME NEW S, NEW T, NEW w, S \ {w} = T \ {w}, w \in S
  PROVE  S = T \cup {w}
OBVIOUS

LEMMA ContractStep ==
  ASSUME Toplevels, TypeOK, ControlInv, NothingBeforeAck, OneSource,
         TypeOK', ControlInv', [Next]_vars
  PROVE  Contract!Next \/ UNCHANGED Contract!redrawVars
<1> DEFINE Goal == Contract!Next \/ UNCHANGED Contract!redrawVars
<1> SUFFICES Goal
  OBVIOUS
<1> USE DEF TypeOK
<1>a. /\ NoCb.fn = "idle" /\ NoCb.then = "end"
      /\ \A fn, w, then : Call(fn, w, then).fn = fn /\ Call(fn, w, then).win = w
  BY DEF NoCb, Call
<1>b. /\ cb.then # "deferred" /\ \A w \in Window : ~defer[w]
      /\ \A w \in Window : status[w] # "unborn" => kind[w] = "toplevel"
  BY NoSubsurface
<1>d. \A w \in Window : One(w)
  BY DEF OneSource, One
<1>e. \A w \in Window : w \in Owing <=>
        /\ Live(w) /\ show[w]
        /\ deferRedraw[w] \/ (redraw[w] /\ frame[w] # "none") \/ ~configured[w]
  BY OwingToplevel
<1>f. \A w \in Window : (w \in Owing)' <=>
        (/\ Live(w) /\ show[w]
         /\ deferRedraw[w] \/ (redraw[w] /\ frame[w] # "none") \/ ~configured[w])'
  <2>1. cb'.then # "deferred"
    <3>1. \A w \in Window : status'[w] # "unborn" => kind'[w] = "toplevel"
      BY DEF Toplevels, ControlInv, WindowInv
    <3>2. cb'.then = "deferred" => cb' # NoCb
      BY <1>a
    <3> QED
      BY <3>1, <3>2 DEF ControlInv, CallbackInv
  <2>2. \A w \in Window : Live(w)' => kind'[w] = "toplevel" /\ ~defer'[w]
    BY DEF Toplevels, ControlInv, WindowInv, Live
  <2> QED
    BY <2>1, <2>2 DEF Owing, Live, Pending, Configurable
<1>g. Idle => Drawing = {}
  BY <1>a DEF Idle, Drawing
<1>1. ASSUME NEW w \in Window, Refresh(w) PROVE Goal
  <2>0. ASSUME NEW v \in Window \ {w} PROVE Untouched(v)
    BY <1>1, <2>0 DEF Refresh, WinRefresh, Untouched
  <2>1. /\ UNCHANGED <<status, kind, show, configured, frame, cb>>
        /\ Live(w) /\ WinRefresh(w, configured[w])
    BY <1>1 DEF Refresh
  <2>2. Owing' \ {w} = Owing \ {w}
    BY <2>0, OneWindow
  <2>3. Alive' = Alive /\ Throttled' = Throttled /\ Drawing' = Drawing /\ w \in Alive
    BY <2>1 DEF Alive, Throttled, Drawing, Live
  <2>4. CASE show[w]
    <3>1. Pending(w)'
      BY <2>1, <2>4, RefreshPends
    <3>2. w \in Owing'
      BY <2>1, <2>4, <3>1 DEF Owing, Live
    <3>3. Owing' = Owing \cup {w}
      BY <2>2, <3>2
    <3> QED
      BY <2>3, <3>3, ContractSteps
  <2>5. CASE ~show[w]
    <3>1. w \notin Owing /\ w \notin Owing'
      BY <2>1, <2>5 DEF Owing
    <3> QED
      BY <2>2, <2>3, <3>1, SameSet, Stutter
  <2> QED
    BY <2>4, <2>5
<1>2. ASSUME NEW w \in Window, SurfaceFrame(w) \/ ApplyBuffer(w) PROVE Goal
  <2>1. /\ frame' = [frame EXCEPT ![w] = "requested"] \/ frame' = [frame EXCEPT ![w] = "committed"]
        /\ UNCHANGED <<status, kind, show, configured, redraw, defer, deferEvents, deferRedraw>>
        /\ MayPresent(w) /\ NotePresented
    BY <1>2 DEF SurfaceFrame, ApplyBuffer
  <2>2. cb.fn = "draw" /\ cb.win = w /\ cb # NoCb /\ Live(w)
    BY <2>1, PresentsInDraw
  <2>3. Drawing' = Drawing
    BY <2>1, <2>2 DEF NotePresented, Drawing, Callback
  <2>4. Owing' \ {w} = Owing \ {w}
    BY ZenonT(30), <2>1, OneWindow DEF Untouched
  <2>5. configured[w] /\ (frame[w] = "none" => ~deferRedraw[w])
    BY <1>b, <2>2, <1>d DEF NothingBeforeAck, One, Live
  <2>6. show[w] /\ frame[w] = "none" => ~redraw[w]
    <3>1. redraw[w] /\ show[w] => w \in Owing
      BY <1>d, <2>2 DEF One, Owing
    <3> QED
      BY <1>e, <2>5, <3>1
  <2>7. w \in Owing' <=> w \in Owing
    <3>1. frame'[w] # "none"
      BY <2>1
    <3>2. CASE frame[w] = "none"
      BY <1>e, <1>f, <2>1, <2>5, <2>6, <3>2 DEF Live
    <3>3. CASE frame[w] # "none"
      BY <1>e, <1>f, <2>1, <3>1, <3>3 DEF Live
    <3> QED
      BY <3>2, <3>3
  <2>8. Owing' = Owing
    BY <2>4, <2>7, SameSet
  <2>9. Throttled' = Throttled \cup {w}
    <3>1. frame'[w] # "none" /\ \A v \in Window \ {w} : frame'[v] = frame[v]
      BY <2>1
    <3> QED
      BY <3>1 DEF Throttled
  <2>10. Alive' = Alive /\ w \in Alive
    BY <2>1, <2>2 DEF Alive, Live
  <2> QED
    BY <2>3, <2>8, <2>9, <2>10, ContractSteps
<1>3. ASSUME NEW w \in Window, ExternalCommit(w) \/ CompositorFrameDone(w) PROVE Goal
  <2>0. ASSUME NEW v \in Window \ {w} PROVE Untouched(v)
    BY <1>3, <2>0 DEF ExternalCommit, CompositorFrameDone, Untouched
  <2>1. /\ frame[w] # "none" /\ frame'[w] # "none"
        /\ UNCHANGED <<status, show, configured, redraw, deferRedraw, cb>>
    BY <1>3 DEF ExternalCommit, CompositorFrameDone
  <2>2. w \in Owing' <=> w \in Owing
    BY <1>e, <1>f, <2>1 DEF Live
  <2>3. Owing' \ {w} = Owing \ {w} /\ Throttled' \ {w} = Throttled \ {w}
    BY <2>0, OneWindow
  <2>4. w \in Throttled /\ w \in Throttled'
    BY <2>1 DEF Throttled
  <2>5. Owing' = Owing /\ Throttled' = Throttled
    <3>1. Owing' = Owing
      BY <2>2, <2>3, SameSet
    <3>2. Throttled' = Throttled
      BY <2>3, <2>4, SameSet
    <3> QED
      BY <3>1, <3>2
  <2>6. Alive' = Alive /\ Drawing' = Drawing
    BY <2>1 DEF Alive, Live, Drawing
  <2> QED
    BY <2>5, <2>6, Stutter
<1>5. ASSUME NEW w \in Window, Destroy(w) PROVE Goal
  <2>0. ASSUME NEW v \in Window \ {w} PROVE Untouched(v)
    BY <1>5, <2>0 DEF Destroy, Untouched
  <2>1. Live(w) /\ ~Live(w)' /\ frame'[w] = "none" /\ UNCHANGED cb
    BY <1>5 DEF Destroy, Live
  <2>2. w \notin Owing' /\ w \notin Alive' /\ w \notin Throttled' /\ w \in Alive
    BY <2>1 DEF Owing, Alive, Throttled, Live
  <2>a. /\ Owing' \ {w} = Owing \ {w} /\ Alive' \ {w} = Alive \ {w}
        /\ Throttled' \ {w} = Throttled \ {w}
    BY <2>0, OneWindow
  <2>3. Owing' = Owing \ {w} /\ Alive' = Alive \ {w} /\ Throttled' = Throttled \ {w}
    BY <2>2, <2>a
  <2>4. Drawing' = Drawing
    BY <2>1 DEF Drawing
  <2> QED
    BY <2>2, <2>3, <2>4, ContractSteps
<1>6. ASSUME NEW w \in Window, NEW st \in Asks, SetState(w, st) PROVE Goal
  <2>1. (\A v \in Window : Untouched(v)) /\ Drawing' = Drawing
    BY <1>6 DEF SetState, Untouched, Drawing
  <2> QED
    BY <2>1, StutterUntouched
<1>7. ASSUME NEW w \in Window, NEW k \in Kinds, NEW sz \in Sizes \cup {0},
             NEW st \in Asks \cup {"normal"}, NEW hide \in BOOLEAN,
             CreateWindow(w, k, sz, st, hide)
      PROVE  Goal
  <2>0. ASSUME NEW v \in Window \ {w} PROVE Untouched(v)
    BY <1>7, <2>0 DEF CreateWindow, Untouched
  <2>1. ~Live(w) /\ Live(w)' /\ frame'[w] = frame[w] /\ UNCHANGED cb
    BY <1>7 DEF CreateWindow, Live
  <2>2. w \notin Owing /\ w \notin Alive /\ w \in Alive' /\ w \notin Throttled /\ w \notin Throttled'
    BY <2>1 DEF Owing, Alive, Throttled, ControlInv, WindowInv, Live
  <2>a. /\ Owing' \ {w} = Owing \ {w} /\ Alive' \ {w} = Alive \ {w}
        /\ Throttled' \ {w} = Throttled \ {w}
    BY <2>0, OneWindow
  <2>b. Alive' = Alive \cup {w}
    BY <2>2, <2>a, AddedElement
  <2>c. Throttled' = Throttled
    BY <2>2, <2>a, SameSet
  <2>3. Alive' = Alive \cup {w} /\ Throttled' = Throttled
    BY <2>b, <2>c
  <2>5. Owing' = Owing \/ Owing' = Owing \cup {w}
    <3>1. CASE w \in Owing'
      BY <2>a, <3>1, AddedElement
    <3>2. CASE w \notin Owing'
      BY <2>2, <2>a, <3>2, SameSet
    <3> QED
      BY <3>1, <3>2
  <2>4. Drawing' = Drawing
    BY <2>1 DEF Drawing
  <2> QED
    BY <2>2, <2>3, <2>4, <2>5, ContractSteps
<1>8. ASSUME NEW w \in Window, RefreshCb(w) PROVE Goal
  <2>0. ASSUME NEW v \in Window \ {w} PROVE Untouched(v)
    BY <1>8, <2>0 DEF RefreshCb, Untouched
  <2>1. /\ deferRedraw[w] /\ ~deferRedraw'[w] /\ ~redraw'[w]
        /\ UNCHANGED <<status, frame, show, configured>> /\ Idle /\ DrawEvent(w)
    BY <1>8 DEF RefreshCb
  <2>2. Live(w) /\ frame[w] = "none" /\ configured[w]
    BY <1>b, <1>d, <2>1 DEF ControlInv, WindowInv, One, Live
  <2>3. w \notin Owing'
    BY <1>f, <2>1, <2>2
  <2>4. Alive' = Alive /\ Throttled' = Throttled /\ w \notin Throttled
    BY <2>1, <2>2 DEF Alive, Throttled, Live
  <2>a. /\ Owing' \ {w} = Owing \ {w} /\ Alive' \ {w} = Alive \ {w}
        /\ Throttled' \ {w} = Throttled \ {w}
    BY <2>0, OneWindow
  <2>5. Owing' = Owing \ {w}
    BY <2>3, <2>a
  <2>6. CASE show[w]
    <3>1. w \in Owing
      BY <1>e, <2>1, <2>2, <2>6
    <3>2. Drawing' = {w}
      BY <1>a, <2>1, <2>6 DEF DrawEvent, Drawing
    <3> QED
      BY <1>g, <2>1, <2>4, <2>5, <3>1, <3>2, ContractSteps
  <2>7. CASE ~show[w]
    <3>1. w \notin Owing
      BY <2>7 DEF Owing
    <3>2. Drawing' = {}
      BY <1>a, <2>1, <2>7 DEF DrawEvent, Drawing
    <3>3. Owing' = Owing
      BY <2>5, <3>1
    <3> QED
      BY <1>g, <2>1, <2>4, <3>2, <3>3, Stutter
  <2> QED
    BY <2>6, <2>7
<1>9. ASSUME NEW w \in Window, FrameDone(w) PROVE Goal
  <2>0. ASSUME NEW v \in Window \ {w} PROVE Untouched(v)
    BY <1>9, <2>0 DEF FrameDone, Untouched
  <2>1. /\ frame[w] # "none" /\ frame'[w] = "none" /\ ~redraw'[w] /\ Idle
        /\ UNCHANGED <<status, show, configured, deferRedraw>>
        /\ IF redraw[w] THEN DrawEvent(w) ELSE UNCHANGED cb
    BY <1>9 DEF FrameDone
  <2>2. Live(w) /\ ~deferRedraw[w] /\ configured[w]
    BY <1>b, <1>d, <2>1 DEF NothingBeforeAck, ControlInv, WindowInv, One, Live
  <2>3. w \notin Owing'
    BY <1>f, <2>1, <2>2
  <2>a. /\ Owing' \ {w} = Owing \ {w} /\ Alive' \ {w} = Alive \ {w}
        /\ Throttled' \ {w} = Throttled \ {w}
    BY <2>0, OneWindow
  <2>4. Owing' = Owing \ {w}
    BY <2>3, <2>a
  <2>b. w \in Throttled /\ w \notin Throttled'
    BY <2>1 DEF Throttled
  <2>5. Alive' = Alive /\ Throttled' = Throttled \ {w} /\ w \in Throttled
    BY <2>1, <2>a, <2>b DEF Alive, Live
  <2>6. CASE redraw[w] /\ show[w]
    <3>1. w \in Owing
      BY <1>e, <2>1, <2>2, <2>6
    <3>2. Drawing' = {w}
      BY <1>a, <2>1, <2>6 DEF DrawEvent, Drawing
    <3> QED
      BY <1>g, <2>1, <2>4, <2>5, <3>1, <3>2, ContractSteps
  <2>7. CASE ~(redraw[w] /\ show[w])
    <3>1. w \notin Owing
      BY <1>e, <2>1, <2>2, <2>7
    <3>2. Drawing' = {} /\ Drawing = {}
      BY <1>a, <1>g, <2>1, <2>7 DEF DrawEvent, Drawing
    <3>3. Owing' = Owing
      BY <2>4, <3>1
    <3> QED
      BY <2>5, <3>1, <3>2, <3>3, ContractSteps
  <2> QED
    BY <2>6, <2>7
<1>11. ASSUME NEW w \in Window, HandleDeferred(w) PROVE Goal
  BY <1>b, <1>11 DEF HandleDeferred
<1>12. ASSUME NEW w \in Window, NEW resized \in BOOLEAN, FinishConfigure(w, resized),
              Live(w), cb.fn # "draw",
              UNCHANGED <<status, kind, show, frame, defer, deferEvents>>
       PROVE  Goal
  <2>1. ASSUME NEW v \in Window \ {w} PROVE Untouched(v)
    <3>1. UNCHANGED configured[v]
      BY <1>12, <2>1 DEF FinishConfigure
    <3>2. WinRefresh(w, TRUE) \/ UNCHANGED <<redraw, deferRedraw>>
      BY <1>12 DEF FinishConfigure
    <3>3. UNCHANGED <<redraw[v], deferRedraw[v]>>
      BY ZenonT(30), <2>1, <3>2 DEF WinRefresh
    <3> QED
      BY <1>12, <3>1, <3>3 DEF Untouched
  <2>2. cb' = NoCb \/ cb' = Call("state", w, "end")
    BY <1>12 DEF FinishConfigure
  <2>3. Drawing' = {} /\ Drawing = {}
    BY <1>a, <1>12, <2>2 DEF Drawing
  <2>4. Alive' = Alive /\ Throttled' = Throttled /\ w \in Alive
    BY <1>12 DEF Alive, Throttled, Live
  <2>5. Owing' \ {w} = Owing \ {w}
    BY <2>1, OneWindow
  <2>6. CASE show[w] /\ (resized \/ ~configured[w])
    <3>0. resized \/ ~configured[w]
      BY <2>6
    <3>1. WinRefresh(w, TRUE) /\ configured'[w]
      BY ZenonT(30), <1>12, <3>0 DEF FinishConfigure
    <3>2. Pending(w)'
      BY <1>12, <2>6, <3>1, RefreshPends
    <3>3. w \in Owing'
      BY <1>12, <2>6, <3>2 DEF Owing, Live
    <3>4. Owing' = Owing \cup {w}
      BY <2>5, <3>3
    <3> QED
      BY <2>3, <2>4, <3>4, ContractSteps
  <2>7. CASE ~show[w]
    <3>1. w \notin Owing /\ w \notin Owing'
      BY <1>12, <2>7 DEF Owing
    <3>2. Owing' = Owing
      BY <2>5, <3>1, SameSet
    <3> QED
      BY <2>3, <2>4, <3>2, Stutter
  <2>8. CASE ~resized /\ configured[w]
    <3>1. UNCHANGED <<redraw, deferRedraw>> /\ configured'[w]
      BY <1>12, <2>8 DEF FinishConfigure
    <3>2. w \in Owing' <=> w \in Owing
      BY <1>e, <1>f, <1>12, <2>8, <3>1 DEF Live
    <3>3. Owing' = Owing
      BY <2>5, <3>2, SameSet
    <3> QED
      BY <2>3, <2>4, <3>3, Stutter
  <2> QED
    BY <2>6, <2>7, <2>8
<1>13. ASSUME NEW w \in Window, Configure(w) PROVE Goal
  <2>1. /\ UNCHANGED <<status, kind, show, frame, defer, deferEvents>>
        /\ Live(w) /\ cb.fn # "draw" /\ Idle
    BY <1>a, <1>13 DEF Configure, Idle
  <2>2. CASE cb' = Call("resize", w, "configure") /\ UNCHANGED <<configured, redraw, deferRedraw>>
    <3>1. (\A v \in Window : Untouched(v)) /\ Drawing' = Drawing
      BY <1>a, <2>1, <2>2 DEF Untouched, Drawing
    <3> QED
      BY <3>1, StutterUntouched
  <2>3. CASE FinishConfigure(w, FALSE)
    BY <1>12, <2>1, <2>3
  <2> QED
    BY <1>13, <2>2, <2>3 DEF Configure
<1>14. ASSUME XdgSurfaceConfigure PROVE Goal
  <2>1. (\A v \in Window : Untouched(v)) /\ Drawing' = Drawing
    BY <1>14 DEF XdgSurfaceConfigure, winVars, Untouched, Drawing
  <2> QED
    BY <2>1, StutterUntouched
<1>15. ASSUME NEW w \in Window, Close(w) PROVE Goal
  <2>1. (\A v \in Window : Untouched(v)) /\ Drawing' = Drawing
    BY <1>a, <1>15 DEF Close, Idle, winVars, Untouched, Drawing
  <2> QED
    BY <2>1, StutterUntouched
<1>16. ASSUME Return PROVE Goal
  <2>1. CASE cb.then = "end"
    <3>1. (\A v \in Window : Untouched(v)) /\ cb' = NoCb
      BY <1>16, <2>1 DEF Return, winVars, Untouched
    <3>2. Owing' = Owing
      BY <3>1, OwingUnchanged DEF Owing
    <3>3. Alive' = Alive /\ Throttled' = Throttled /\ Drawing' = {}
      BY <1>a, <3>1 DEF Alive, Throttled, Drawing, Live, Untouched
    <3>4. Contract!EndDraw
      BY <3>2, <3>3 DEF Contract!EndDraw, Owing, Alive, Throttled
    <3> QED
      BY <3>4 DEF Contract!Next
  <2>2. CASE cb.then = "configure"
    <3>1. cb.fn = "resize" /\ cb.win \in Window /\ Live(cb.win)
      BY <1>16, <2>2 DEF Return, ControlInv, CallbackInv, WindowInv
    <3> QED
      BY <1>12, <1>16, <2>2, <3>1 DEF Return
  <2> QED
    BY <1>b, <2>1, <2>2 DEF Callback
<1>17. ASSUME NEW w \in Window, NEW sz \in Sizes \cup {0}, NEW st \in Reported,
              CompositorConfigure(w, sz, st)
       PROVE  Goal
  <2>1. (\A v \in Window : Untouched(v)) /\ Drawing' = Drawing
    BY <1>17 DEF CompositorConfigure, winVars, Untouched, Drawing
  <2> QED
    BY <2>1, StutterUntouched
<1>18. ASSUME NEW w \in Window, NEW sz \in Sizes \cup {0}, CompositorGrant(w, sz)
       PROVE  Goal
  <2>1. (\A v \in Window : Untouched(v)) /\ Drawing' = Drawing
    BY <1>18 DEF CompositorGrant, winVars, Untouched, Drawing
  <2> QED
    BY <2>1, StutterUntouched
<1>20. CASE UNCHANGED vars
  <2>1. (\A v \in Window : Untouched(v)) /\ Drawing' = Drawing
    BY <1>20 DEF vars, winVars, Untouched, Drawing
  <2> QED
    BY <2>1, StutterUntouched
<1> HIDE DEF TypeOK, Goal
<1>21. ASSUME NEW w \in Window, Application(w) PROVE Goal
  BY <1>1, <1>2, <1>3, <1>5, <1>6, <1>7, <1>21 DEF Application
<1>22. ASSUME NEW w \in Window, Handler(w) PROVE Goal
  BY <1>8, <1>9, <1>11, <1>13, <1>15, <1>22 DEF Handler
<1>23. ASSUME NEW w \in Window, Compositor(w) PROVE Goal
  BY <1>3, <1>17, <1>18, <1>23 DEF Compositor
<1> QED
  BY <1>14, <1>16, <1>20, <1>21, <1>22, <1>23 DEF Next

\* The four invariants together, for the steps to be compared in.
LEMMA SimulatedInv ==
  ASSUME Toplevels
  PROVE  Spec => []Simulated
<1>1. Init => Simulated
  <2>1. Init => NothingBeforeAck /\ OneSource
    BY DEF Init, NothingBeforeAck, OneSource, NoCb, Call, Live
  <2> QED
    BY <2>1, InitInv DEF Simulated
<1>2. Simulated /\ [Next]_vars => Simulated'
  BY TypeStep, ControlStep, AckStep, OneSourceStep DEF Simulated, Toplevels
<1> QED
  BY <1>1, <1>2, PTL DEF Spec

\* A program whose windows are toplevels presented in draw callbacks has one
\* source of draw events per window at a time.
THEOREM OneSourceOnly ==
  ASSUME Toplevels
  PROVE  Spec => []OneSource
<1>1. Spec => []Simulated
  BY SimulatedInv
<1>2. Simulated => OneSource
  BY DEF Simulated
<1> QED
  BY <1>1, <1>2, PTL

\* The toplevels implement the contract of drawing.
THEOREM ContractKept ==
  ASSUME Toplevels
  PROVE  Spec => RedrawContract
<1>1. Init => Contract!Init
  BY DEF Init, Contract!Init, Drawing, Live, NoCb, Call
<1>2. Simulated /\ Simulated' /\ [Next]_vars => Contract!Next \/ UNCHANGED Contract!redrawVars
  BY ContractStep DEF Simulated
<1>3. Spec => []Simulated
  BY SimulatedInv
<1> QED
  BY <1>1, <1>2, <1>3, PTL DEF Spec, RedrawContract, Contract!Spec
=============================================================================

---------------------------- MODULE WlSeatProofs ----------------------------
(***************************************************************************)
(* Proofs about the seat of WlSeat, for every set of windows, keys, fingers*)
(* and cursors, and any number of events in flight.                        *)
(***************************************************************************)
EXTENDS WlSeat, FiniteSetTheorems, SequenceTheorems, WellFoundedInduction, TLAPS

-----------------------------------------------------------------------------
(* Types *)

Event ==
  [on : {"caps"}, win : {NoWindow}, arg : SUBSET Device]
    \cup [on : {"enter", "leave", "point", "unpoint"}, win : Window, arg : {0}]
    \cup [on : {"key"}, win : {NoWindow}, arg : Key \X BOOLEAN]
    \cup [on : {"rate"}, win : {NoWindow}, arg : Rates]
    \cup [on : {"motion", "relative", "cancel"}, win : {NoWindow}, arg : {0}]
    \cup [on : {"button"}, win : {NoWindow}, arg : BOOLEAN]
    \cup [on : {"lock"}, win : Window, arg : BOOLEAN]
    \cup [on : {"down"}, win : Window, arg : Finger]
    \cup [on : {"update", "up"}, win : {NoWindow}, arg : Finger]

Point == [id : Finger, win : Window]

\* What the rest of a handler finds in cb.
CallbackInv ==
  /\ cb.fn \in Callbacks \cup {"idle"}
  /\ cb.then \in {"end", "leave", "pressed", "released", "rearm", "unset", "erase", "next"}
  /\ cb.then \in {"pressed", "released"} => cb.arg \in Key
  /\ cb.then = "erase" => cb.fn = "up" /\ cb.arg \in Nat \ {0}
  /\ cb.then = "next" => cb.fn = "cancel" /\ cb.arg \in Nat \ {0}

TypeOK ==
  /\ alive \subseteq Window
  /\ native \in [Window -> Images] /\ asked \in [Window -> Images]
  /\ image \in [Window -> BOOLEAN] /\ lock \in [Window -> {"none", "asked", "locked"}]
  /\ bound \subseteq Device
  /\ {focus, over} \subseteq Window \cup {NoWindow}
  /\ keys \subseteq Key
  /\ repeat \in [timer : BOOLEAN, armed : BOOLEAN, key : Key \cup {NoKey}, rate : Nat]
  /\ button \in BOOLEAN
  /\ cursor \in [active : Images, redraw : BOOLEAN, frame : BOOLEAN, armed : BOOLEAN,
                 shown : Images, entered : BOOLEAN]
  /\ points \in Seq(Point)
  /\ wire \in Seq(Event)
  /\ comp \in [seat : SUBSET Device, caps : SUBSET Device, focus : Window \cup {NoWindow},
               keys : SUBSET Key, over : Window \cup {NoWindow}, button : BOOLEAN,
               known : SUBSET Window, touch : [Finger -> Window \cup {NoWindow}]]
  /\ CallbackInv

-----------------------------------------------------------------------------
(* Sets of places in a sequence *)

LEMMA MinIn ==
  ASSUME NEW S \in SUBSET Nat, S # {}
  PROVE  Min(S) \in S
<1>1. \E i \in S : \A j \in S : ~ (<<j, i>> \in OpToRel(<, Nat))
  BY NatLessThanWellFounded, WFMin
<1>2. PICK i \in S : \A j \in S : ~ (<<j, i>> \in OpToRel(<, Nat))
  BY <1>1
<1>3. ASSUME NEW j \in S PROVE i =< j
  <2>1. <<j, i>> \in Nat \X Nat /\ ~ (<<j, i>> \in OpToRel(<, Nat))
    BY <1>2
  <2>2. ~ (j < i)
    BY <2>1 DEF OpToRel
  <2> QED
    BY <2>2
<1> QED
  BY <1>3 DEF Min

\* The place that counts the elements of a set up to one of them is a place of
\* its own for each, and there are as many as elements.
LEMMA Counted ==
  ASSUME NEW n \in Nat, NEW kept \in SUBSET (1 .. n)
  PROVE  /\ Cardinality(kept) \in Nat
         /\ \A i \in kept : Cardinality({k \in kept : k <= i}) \in 1 .. Cardinality(kept)
         /\ \A i, j \in kept :
              Cardinality({k \in kept : k <= i}) = Cardinality({k \in kept : k <= j}) => i = j
         /\ \A c \in 1 .. Cardinality(kept) :
              \E i \in kept : Cardinality({k \in kept : k <= i}) = c
<1> DEFINE upto(i) == {k \in kept : k <= i}
           out == [i \in kept |-> Cardinality(upto(i))]
<1>1. IsFiniteSet(kept) /\ Cardinality(kept) \in Nat
  <2>1. IsFiniteSet(1 .. n)
    BY FS_Interval
  <2> QED
    BY <2>1, FS_Subset, FS_CardinalityType
<1>2. ASSUME NEW i \in kept
      PROVE  /\ IsFiniteSet(upto(i)) /\ Cardinality(upto(i)) \in Nat
             /\ Cardinality(upto(i)) \in 1 .. Cardinality(kept)
  <2>1. upto(i) \in SUBSET kept /\ i \in upto(i)
    OBVIOUS
  <2>2. IsFiniteSet(upto(i)) /\ Cardinality(upto(i)) <= Cardinality(kept)
    BY <1>1, <2>1, FS_Subset
  <2>3. Cardinality(upto(i)) \in Nat
    BY <2>2, FS_CardinalityType
  <2>4. Cardinality(upto(i)) # 0
    BY <2>1, <2>2, FS_EmptySet
  <2> QED
    BY <1>1, <2>2, <2>3, <2>4
<1>3. ASSUME NEW i \in kept, NEW j \in kept, i < j
      PROVE  Cardinality(upto(i)) # Cardinality(upto(j))
  <2>0. \A k \in kept : k \in Int
    OBVIOUS
  <2>1. upto(i) \in SUBSET upto(j) /\ j \in upto(j) /\ j \notin upto(i)
    <3>1. ASSUME NEW k \in kept, k <= i PROVE k <= j
      BY <1>3, <2>0, <3>1
    <3>2. j <= j /\ ~ (j <= i)
      BY <1>3, <2>0
    <3> QED
      BY <3>1, <3>2
  <2>2. IsFiniteSet(upto(j))
    BY <1>2
  <2>3. Cardinality(upto(i)) = Cardinality(upto(j)) => upto(i) = upto(j)
    BY <2>1, <2>2, FS_Subset
  <2> QED
    BY <2>1, <2>3
<1>4. ASSUME NEW i \in kept, NEW j \in kept, Cardinality(upto(i)) = Cardinality(upto(j))
      PROVE  i = j
  <2>1. i < j \/ j < i \/ i = j
    OBVIOUS
  <2> HIDE DEF upto
  <2> QED
    BY <1>3, <1>4, <2>1
<1>5. out \in Injection(kept, 1 .. Cardinality(kept))
  <2> HIDE DEF upto
  <2>1. out \in [kept -> 1 .. Cardinality(kept)]
    BY <1>2
  <2>2. \A i, j \in kept : out[i] = out[j] => i = j
    BY <1>4
  <2> QED
    BY <2>1, <2>2 DEF Injection, IsInjective
<1>6. out \in Surjection(kept, 1 .. Cardinality(kept))
  <2>1. /\ IsFiniteSet(1 .. Cardinality(kept))
        /\ Cardinality(1 .. Cardinality(kept)) = Cardinality(kept)
    BY <1>1, FS_Interval
  <2> QED
    BY <1>5, <2>1, FS_Injection
<1>7. \A c \in 1 .. Cardinality(kept) : \E i \in kept : Cardinality(upto(i)) = c
  <2> HIDE DEF upto
  <2> QED
    BY <1>6 DEF Surjection
<1> QED
  BY <1>1, <1>2, <1>4, <1>7

\* The points left are the ones of the other windows, each once.
LEMMA WithoutFacts ==
  ASSUME NEW w, points \in Seq(Point)
  PROVE  /\ Without(w) \in Seq(Point)
         /\ \E place \in [DOMAIN Without(w) -> DOMAIN points] :
              /\ \A j \in DOMAIN Without(w) :
                   Without(w)[j] = points[place[j]] /\ points[place[j]].win # w
              /\ \A i, j \in DOMAIN Without(w) : place[i] = place[j] => i = j
              /\ \A i \in DOMAIN points :
                   points[i].win # w => \E j \in DOMAIN Without(w) : place[j] = i
<1> DEFINE kept == {i \in DOMAIN points : points[i].win # w}
           out(i) == Cardinality({k \in kept : k <= i})
           n == Cardinality(kept)
           at(j) == CHOOSE i \in kept : out(i) = j
           place == [j \in 1 .. n |-> at(j)]
<1>1. kept \in SUBSET (1 .. Len(points)) /\ Len(points) \in Nat /\ DOMAIN points = 1 .. Len(points)
  OBVIOUS
<1>2. /\ n \in Nat /\ \A i \in kept : out(i) \in 1 .. n
      /\ \A i, j \in kept : out(i) = out(j) => i = j
      /\ \A j \in 1 .. n : \E i \in kept : out(i) = j
  <2> HIDE DEF kept
  <2> QED
    BY <1>1, Counted
<1>3. Without(w) = [j \in 1 .. n |-> points[at(j)]]
  BY DEF Without
<1> HIDE DEF out, n
<1>4. \A j \in 1 .. n : at(j) \in kept /\ out(at(j)) = j
  <2> HIDE DEF kept
  <2> QED
    BY <1>2
<1>5. \A i \in kept : at(out(i)) = i
  <2> HIDE DEF kept, at
  <2> QED
    BY <1>2, <1>4
<1> HIDE DEF at
<1>6. DOMAIN Without(w) = 1 .. n /\ \A j \in 1 .. n : Without(w)[j] = points[at(j)]
  BY <1>3
<1>7. Without(w) \in Seq(Point)
  <2>1. \A j \in 1 .. n : points[at(j)] \in Point
    BY <1>1, <1>4
  <2> QED
    BY <1>2, <1>3, <2>1
<1>8. place \in [1 .. n -> DOMAIN points] /\ \A j \in 1 .. n : place[j] = at(j)
  BY <1>4
<1> HIDE DEF place
<1>9. \A i, j \in 1 .. n : place[i] = place[j] => i = j
  BY <1>4, <1>8
<1>10. \A i \in DOMAIN points : points[i].win # w => \E j \in 1 .. n : place[j] = i
  BY <1>2, <1>5, <1>8
<1>11. \A j \in 1 .. n : Without(w)[j] = points[place[j]] /\ points[place[j]].win # w
  BY <1>4, <1>6, <1>8
<1>12. /\ place \in [DOMAIN Without(w) -> DOMAIN points]
       /\ \A j \in DOMAIN Without(w) :
            Without(w)[j] = points[place[j]] /\ points[place[j]].win # w
       /\ \A i, j \in DOMAIN Without(w) : place[i] = place[j] => i = j
       /\ \A i \in DOMAIN points :
            points[i].win # w => \E j \in DOMAIN Without(w) : place[j] = i
  BY <1>6, <1>8, <1>9, <1>10, <1>11
<1> QED
  BY <1>7, <1>12

LEMMA RemoveFacts ==
  ASSUME NEW S, NEW s \in Seq(S), NEW i \in 1 .. Len(s)
  PROVE  /\ RemoveAt(s, i) \in Seq(S) /\ Len(RemoveAt(s, i)) = Len(s) - 1
         /\ \A j \in 1 .. Len(s) - 1 : RemoveAt(s, i)[j] = s[IF j < i THEN j ELSE j + 1]
<1> DEFINE a == SubSeq(s, 1, i - 1)
           b == SubSeq(s, i + 1, Len(s))
<1>1. a \in Seq(S) /\ Len(a) = i - 1 /\ \A j \in 1 .. i - 1 : a[j] = s[j]
  OBVIOUS
<1>2. b \in Seq(S) /\ Len(b) = Len(s) - i /\ \A j \in 1 .. Len(s) - i : b[j] = s[i + j]
  OBVIOUS
<1>3. RemoveAt(s, i) = a \o b
  BY DEF RemoveAt
<1> HIDE DEF a, b
<1>4. /\ a \o b \in Seq(S) /\ Len(a \o b) = Len(a) + Len(b)
      /\ \A j \in 1 .. Len(a) + Len(b) :
           (a \o b)[j] = IF j <= Len(a) THEN a[j] ELSE b[j - Len(a)]
  BY <1>1, <1>2, ConcatProperties
<1>5. Len(s) \in Nat /\ Len(a) + Len(b) = Len(s) - 1
  BY <1>1, <1>2
<1>6. ASSUME NEW j \in 1 .. Len(s) - 1
      PROVE  (a \o b)[j] = s[IF j < i THEN j ELSE j + 1]
  <2>1. CASE j < i
    BY <1>1, <1>4, <1>5, <2>1
  <2>2. CASE i <= j
    <3>1. j - (i - 1) \in 1 .. Len(s) - i /\ i + (j - (i - 1)) = j + 1
      BY <1>5, <2>2
    <3>2. (a \o b)[j] = b[j - (i - 1)]
      BY <1>1, <1>4, <1>5, <2>2
    <3>3. b[j - (i - 1)] = s[j + 1]
      BY <1>2, <3>1
    <3> QED
      BY <2>2, <3>2, <3>3
  <2>3. j < i \/ i <= j
    OBVIOUS
  <2> QED
    BY <2>1, <2>2, <2>3
<1> QED
  BY <1>3, <1>4, <1>5, <1>6

-----------------------------------------------------------------------------
(* Types are kept *)

LEMMA EventFacts ==
  ASSUME NEW e \in Event
  PROVE  /\ e.on \in Surfaced \cup {"lock"} => e.win \in Window
         /\ e.on = "caps" => e.arg \subseteq Device
         /\ e.on = "key" => e.arg \in Key \X BOOLEAN
         /\ e.on = "rate" => e.arg \in Rates
         /\ e.on \in {"button", "lock"} => e.arg \in BOOLEAN
         /\ e.on \in {"down", "update", "up"} => e.arg \in Finger
  BY DEF Event, Surfaced

LEMMA OnEvent ==
  ASSUME TypeOK, NEW name, On(name)
  PROVE  /\ Head(wire) \in Event /\ Head(wire).on = name /\ wire # <<>>
         /\ wire' = Tail(wire) /\ wire' \in Seq(Event)
         /\ name \in Surfaced => Head(wire).win \in alive
         /\ Idle
  BY DEF On, TypeOK

LEMMA CallType ==
  ASSUME NEW fn \in Callbacks \cup {"idle"}, NEW w, NEW then, NEW arg,
         cb' = Call(fn, w, then, arg),
         \/ then \in {"end", "leave", "rearm", "unset"}
         \/ then \in {"pressed", "released"} /\ arg \in Key
         \/ then = "erase" /\ fn = "up" /\ arg \in Nat \ {0}
         \/ then = "next" /\ fn = "cancel" /\ arg \in Nat \ {0}
  PROVE  CallbackInv'
  BY DEF Call, CallbackInv

LEMMA NoCallType == cb' = NoCb => CallbackInv'
  BY CallType DEF NoCb

LEMMA CursorType ==
  ASSUME TypeOK, NEW w \in Window, ShowCursor(w),
         native' \in [Window -> Images], image' \in [Window -> BOOLEAN]
  PROVE  cursor' \in [active : Images, redraw : BOOLEAN, frame : BOOLEAN, armed : BOOLEAN,
                      shown : Images, entered : BOOLEAN]
<1>1. native'[w] \in Images /\ image'[w] \in BOOLEAN /\ {"image", "none"} \subseteq Images
  BY DEF Images
<1>2. CASE "pointer" \notin bound
  BY <1>2 DEF ShowCursor, TypeOK
<1>3. CASE "pointer" \in bound
  <2> DEFINE m == native'[w]
             shown == IF m # "none" THEN m ELSE IF image'[w] THEN "image" ELSE "none"
             armed == cursor.armed \/ m = "animated"
  <2>1. shown \in Images /\ armed \in BOOLEAN /\ (m # "none") \in BOOLEAN
    BY <1>1 DEF TypeOK
  <2>2. cursor' = [cursor EXCEPT !.active = m, !.redraw = FALSE, !.frame = m # "none",
                                 !.armed = armed, !.shown = shown, !.entered = TRUE]
    BY <1>3 DEF ShowCursor
  <2>3. m \in Images
    BY <1>1
  <2> HIDE DEF m, shown, armed
  <2> QED
    BY ZenonT(30), <2>1, <2>2, <2>3 DEF TypeOK
<1> QED
  BY <1>2, <1>3

LEMMA CursorShown ==
  ASSUME TypeOK, NEW w \in Window, ShowCursor(w), "pointer" \in bound,
         native' \in [Window -> Images], image' \in [Window -> BOOLEAN]
  PROVE  /\ cursor'.entered /\ cursor'.active = native'[w]
         /\ cursor'.active = "animated" => cursor'.armed
         /\ cursor'.shown = IF native'[w] # "none" THEN native'[w]
                            ELSE IF image'[w] THEN "image" ELSE "none"
<1> DEFINE m == native'[w]
           shown == IF m # "none" THEN m ELSE IF image'[w] THEN "image" ELSE "none"
           armed == cursor.armed \/ m = "animated"
           moving == m # "none"
<1>1. cursor' = [cursor EXCEPT !.active = m, !.redraw = FALSE, !.frame = moving,
                               !.armed = armed, !.shown = shown, !.entered = TRUE]
  BY DEF ShowCursor
<1>2. m = "animated" => armed
  OBVIOUS
<1> HIDE DEF m, shown, armed, moving
<1>3. /\ cursor'.active = m /\ cursor'.armed = armed /\ cursor'.shown = shown
      /\ cursor'.entered = TRUE
  BY <1>1 DEF TypeOK
<1> QED
  BY <1>2, <1>3 DEF m, shown

LEMMA CancelType ==
  ASSUME TypeOK, NEW i \in Nat \ {0}, CancelFrom(i)
  PROVE  points' \in Seq(Point) /\ CallbackInv'
<1> DEFINE due == {j \in i .. Len(points) :
                    \A k \in 1 .. (j - 1) : points[k].win # points[j].win}
<1>1. CASE due = {}
  BY <1>1, NoCallType DEF CancelFrom
<1>2. CASE due # {}
  <2>1. due \in SUBSET Nat /\ Len(points) \in Nat
    BY DEF TypeOK
  <2>2. Min(due) \in due
    <3> HIDE DEF due
    <3> QED
      BY <1>2, <2>1, MinIn
  <2>3. Min(due) + 1 \in Nat \ {0}
    BY <2>1, <2>2
  <2>4. cb' = Call("cancel", points[Min(due)].win, "next", Min(due) + 1) /\ points' = points
    BY <1>2 DEF CancelFrom
  <2> QED
    BY <2>3, <2>4, CallType DEF TypeOK, Callbacks
<1> QED
  BY <1>1, <1>2

LEMMA TypeInit == Init => TypeOK
<1> SUFFICES ASSUME Init PROVE TypeOK
  OBVIOUS
<1>1. CallbackInv
  BY DEF Init, NoCb, Call, CallbackInv
<1>2. /\ "none" \in Images /\ <<>> \in Seq(Event) /\ <<>> \in Seq(Point)
  BY DEF Images
<1>3. comp \in [seat : SUBSET Device, caps : SUBSET Device, focus : Window \cup {NoWindow},
                keys : SUBSET Key, over : Window \cup {NoWindow}, button : BOOLEAN,
                known : SUBSET Window, touch : [Finger -> Window \cup {NoWindow}]]
  <2>1. PICK s \in Seats :
          comp = [seat |-> s, caps |-> {}, focus |-> NoWindow, keys |-> {},
                  over |-> NoWindow, button |-> FALSE, known |-> Window,
                  touch |-> [f \in Finger |-> NoWindow]]
    BY DEF Init
  <2>2. s \in SUBSET Device /\ [f \in Finger |-> NoWindow] \in [Finger -> Window \cup {NoWindow}]
    BY SeatAssumption
  <2> QED
    BY <2>1, <2>2
<1>4. repeat \in [timer : BOOLEAN, armed : BOOLEAN, key : Key \cup {NoKey}, rate : Nat]
  BY DEF Init
<1>5. cursor \in [active : Images, redraw : BOOLEAN, frame : BOOLEAN, armed : BOOLEAN,
                  shown : Images, entered : BOOLEAN]
  BY <1>2 DEF Init
<1>6. /\ native \in [Window -> Images] /\ asked \in [Window -> Images]
      /\ image \in [Window -> BOOLEAN] /\ lock \in [Window -> {"none", "asked", "locked"}]
  BY <1>2 DEF Init
<1> QED
  BY <1>1, <1>2, <1>3, <1>4, <1>5, <1>6 DEF Init, TypeOK

\* The variables only the application and the events of pointer and keyboard change
LEMMA TypeHandlers ==
  ASSUME TypeOK,
         \/ SeatCaps \/ KeyboardEnter \/ KeyboardLeave \/ KeyboardKey \/ KeyRepeat
         \/ RepeatInfo \/ PointerEnter \/ PointerLeave \/ PointerMotion
         \/ RelativeMotion \/ PointerButton \/ CursorTime \/ CursorFrame \/ PointerLocked
         \/ DeadSurface
  PROVE  TypeOK'
<1> USE DEF winVars, keyVars, mouseVars
<1>0. \A fn \in Callbacks : fn \in Callbacks \cup {"idle"}
  OBVIOUS
<1>1. CASE SeatCaps
  <2>1. On("caps")
    BY <1>1 DEF SeatCaps
  <2>2. wire' \in Seq(Event) /\ Head(wire).arg \subseteq Device
    BY <2>1, OnEvent, EventFacts
  <2>3. /\ bound' \in {bound, Head(wire).arg}
        /\ repeat' \in {repeat, [repeat EXCEPT !.timer = FALSE, !.armed = FALSE]}
        /\ UNCHANGED <<winVars, focus, keys, mouseVars, points, cb, comp>>
    BY <1>1 DEF SeatCaps
  <2>4. /\ bound' \subseteq Device
        /\ repeat' \in [timer : BOOLEAN, armed : BOOLEAN, key : Key \cup {NoKey}, rate : Nat]
    BY ZenonT(30), <2>2, <2>3 DEF TypeOK
  <2> QED
    BY <2>2, <2>3, <2>4 DEF TypeOK, CallbackInv
<1>2. CASE KeyboardEnter
  <2>1. On("enter")
    BY <1>2 DEF KeyboardEnter
  <2>2. wire' \in Seq(Event) /\ Head(wire).win \in Window
    BY <2>1, OnEvent, EventFacts DEF Surfaced
  <2>3. CallbackInv'
    BY <1>2, CallType DEF KeyboardEnter, Callbacks
  <2> QED
    BY <1>2, <2>2, <2>3 DEF KeyboardEnter, TypeOK
<1>3. CASE KeyboardLeave
  <2>1. On("leave")
    BY <1>3 DEF KeyboardLeave
  <2>2. wire' \in Seq(Event)
    BY <2>1, OnEvent
  <2>3. CallbackInv'
    BY <1>3, CallType DEF KeyboardLeave, Callbacks
  <2> QED
    BY <1>3, <2>2, <2>3 DEF KeyboardLeave, TypeOK
<1>4. CASE KeyboardKey
  <2> DEFINE k == Head(wire).arg[1]
             pressed == Head(wire).arg[2]
  <2>1. On("key")
    BY <1>4 DEF KeyboardKey
  <2>2. wire' \in Seq(Event) /\ k \in Key
    BY <2>1, OnEvent, EventFacts
  <2>3. CASE focus = NoWindow
    BY <1>4, <2>2, <2>3 DEF KeyboardKey, TypeOK, CallbackInv
  <2>4. CASE focus # NoWindow
    <3>1. /\ keys' \subseteq Key
          /\ cb' = Call("key", focus, IF pressed THEN "pressed" ELSE "released", k)
      BY <1>4, <2>2, <2>4 DEF KeyboardKey, TypeOK
    <3>2. CallbackInv'
      BY <2>2, <3>1, CallType DEF Callbacks
    <3> QED
      BY <1>4, <2>2, <3>1, <3>2 DEF KeyboardKey, TypeOK
  <2> QED
    BY <2>3, <2>4
<1>5. CASE KeyRepeat
  <2>1. cb' = cb \/ cb' = Call("repeat", focus, "rearm", 0)
    BY <1>5 DEF KeyRepeat
  <2>2. cb' = cb => CallbackInv'
    BY DEF TypeOK, CallbackInv
  <2>3. cb' = Call("repeat", focus, "rearm", 0) => CallbackInv'
    BY CallType DEF Callbacks
  <2>4. CallbackInv'
    BY <2>1, <2>2, <2>3
  <2> QED
    BY <1>5, <2>4 DEF KeyRepeat, TypeOK
<1>6. CASE RepeatInfo
  <2>1. On("rate")
    BY <1>6 DEF RepeatInfo
  <2>2. wire' \in Seq(Event) /\ Head(wire).arg \in Nat
    BY <2>1, OnEvent, EventFacts, CursorAssumption
  <2>3. /\ repeat' \in [timer : BOOLEAN, armed : BOOLEAN, key : Key \cup {NoKey}, rate : Nat]
        /\ UNCHANGED <<winVars, bound, focus, keys, mouseVars, points, cb, comp>>
    BY <1>6, <2>2 DEF RepeatInfo, TypeOK
  <2> QED
    BY <2>2, <2>3 DEF TypeOK, CallbackInv
<1>7. CASE PointerEnter
  <2>1. On("point")
    BY <1>7 DEF PointerEnter
  <2>2. wire' \in Seq(Event) /\ Head(wire).win \in Window
    BY <2>1, OnEvent, EventFacts DEF Surfaced
  <2>3. CallbackInv'
    BY <1>7, CallType DEF PointerEnter, Callbacks
  <2>4. cursor' \in [active : Images, redraw : BOOLEAN, frame : BOOLEAN, armed : BOOLEAN,
                     shown : Images, entered : BOOLEAN]
    BY <1>7, <2>2, CursorType DEF PointerEnter, TypeOK
  <2> QED
    BY <1>7, <2>2, <2>3, <2>4 DEF PointerEnter, TypeOK
<1>8. CASE PointerLeave
  <2>1. On("unpoint")
    BY <1>8 DEF PointerLeave
  <2>2. wire' \in Seq(Event)
    BY <2>1, OnEvent
  <2>3. CallbackInv'
    BY <1>8, CallType DEF PointerLeave, Callbacks
  <2> QED
    BY <1>8, <2>2, <2>3 DEF PointerLeave, TypeOK
<1>9. CASE PointerMotion \/ RelativeMotion
  <2>1. wire' \in Seq(Event)
    BY <1>9, OnEvent DEF PointerMotion, RelativeMotion
  <2>2. cb' = NoCb \/ cb' = Call("move", over, "end", 0)
    BY <1>9 DEF PointerMotion, RelativeMotion
  <2>3. CallbackInv'
    BY <2>2, CallType, NoCallType DEF Callbacks
  <2> QED
    BY <1>9, <2>1, <2>3 DEF PointerMotion, RelativeMotion, TypeOK
<1>10. CASE PointerButton
  <2>1. On("button")
    BY <1>10 DEF PointerButton
  <2>2. wire' \in Seq(Event) /\ Head(wire).arg \in BOOLEAN
    BY <2>1, OnEvent, EventFacts
  <2>3. button' \in BOOLEAN /\ (cb' = cb \/ cb' = Call("button", over, "end", 0))
    BY <1>10, <2>2 DEF PointerButton, TypeOK
  <2>4. CallbackInv'
    BY <2>3, CallType DEF Callbacks, TypeOK, CallbackInv
  <2> QED
    BY <1>10, <2>2, <2>3, <2>4 DEF PointerButton, TypeOK
<1>11. CASE CursorTime \/ CursorFrame
  <2>1. cursor' \in [active : Images, redraw : BOOLEAN, frame : BOOLEAN, armed : BOOLEAN,
                     shown : Images, entered : BOOLEAN]
    <3>1. PICK again \in BOOLEAN : again = (cursor.active = "animated")
      OBVIOUS
    <3>2. \/ cursor' = [cursor EXCEPT !.armed = FALSE, !.redraw = TRUE]
          \/ cursor' = [cursor EXCEPT !.frame = FALSE]
          \/ cursor' = [cursor EXCEPT !.armed = FALSE]
          \/ cursor' = [cursor EXCEPT !.frame = TRUE, !.redraw = FALSE, !.armed = again]
      BY <1>11, <3>1 DEF CursorTime, CursorFrame, Render
    <3>3. CASE cursor' = [cursor EXCEPT !.armed = FALSE, !.redraw = TRUE]
      BY <3>3 DEF TypeOK
    <3>4. CASE cursor' = [cursor EXCEPT !.frame = FALSE]
      BY <3>4 DEF TypeOK
    <3>5. CASE cursor' = [cursor EXCEPT !.armed = FALSE]
      BY <3>5 DEF TypeOK
    <3>6. CASE cursor' = [cursor EXCEPT !.frame = TRUE, !.redraw = FALSE, !.armed = again]
      BY <3>6 DEF TypeOK
    <3> QED
      BY <3>2, <3>3, <3>4, <3>5, <3>6
  <2> QED
    BY <1>11, <2>1 DEF CursorTime, CursorFrame, TypeOK, CallbackInv
<1>12. CASE PointerLocked
  <2>1. On("lock")
    BY <1>12 DEF PointerLocked
  <2>2. wire' \in Seq(Event) /\ Head(wire).win \in Window
    BY <2>1, OnEvent, EventFacts
  <2>3. /\ lock' \in [Window -> {"none", "asked", "locked"}]
        /\ UNCHANGED <<alive, native, image, asked, bound, keyVars, mouseVars, points, cb, comp>>
    BY <1>12, <2>2 DEF PointerLocked, TypeOK
  <2> QED
    BY <2>2, <2>3 DEF TypeOK, CallbackInv
<1>13. CASE DeadSurface
  <2>1. UNCHANGED <<winVars, bound, keyVars, mouseVars, points, cb, wire, comp>>
    BY <1>13 DEF DeadSurface
  <2> QED
    BY <2>1 DEF TypeOK, CallbackInv
<1> QED
  BY <1>1, <1>2, <1>3, <1>4, <1>5, <1>6, <1>7, <1>8, <1>9, <1>10, <1>11, <1>12, <1>13

LEMMA TypeTouch ==
  ASSUME TypeOK, TouchDown \/ TouchMotion \/ TouchUp \/ TouchCancel
  PROVE  TypeOK'
<1> USE DEF winVars, keyVars, mouseVars
<1>0. ASSUME NEW f, PointOf(f) # {} PROVE Min(PointOf(f)) \in DOMAIN points /\ Min(PointOf(f)) \in Nat \ {0}
  <2>1. PointOf(f) \in SUBSET Nat /\ DOMAIN points \subseteq Nat \ {0}
    BY DEF PointOf, TypeOK
  <2>2. Min(PointOf(f)) \in PointOf(f)
    BY <1>0, <2>1, MinIn
  <2> QED
    BY <2>1, <2>2 DEF PointOf
<1>1. CASE TouchDown
  <2>1. On("down")
    BY <1>1 DEF TouchDown
  <2>2. wire' \in Seq(Event) /\ Head(wire).win \in Window /\ Head(wire).arg \in Finger
    BY <2>1, OnEvent, EventFacts DEF Surfaced
  <2>3. CallbackInv'
    BY <1>1, CallType DEF TouchDown, Callbacks
  <2>4. points' \in Seq(Point)
    <3>1. [id |-> Head(wire).arg, win |-> Head(wire).win] \in Point
      BY <2>2 DEF Point
    <3> QED
      BY <1>1, <3>1 DEF TouchDown, TypeOK
  <2> QED
    BY <1>1, <2>2, <2>3, <2>4 DEF TouchDown, TypeOK
<1>2. CASE TouchMotion
  <2>1. wire' \in Seq(Event)
    BY <1>2, OnEvent DEF TouchMotion
  <2>2. cb' = NoCb \/ \E w : cb' = Call("update", w, "end", 0)
    BY <1>2 DEF TouchMotion
  <2>3. CallbackInv'
    BY <2>2, CallType, NoCallType DEF Callbacks
  <2> QED
    BY <1>2, <2>1, <2>3 DEF TouchMotion, TypeOK
<1>3. CASE TouchUp
  <2>1. wire' \in Seq(Event)
    BY <1>3, OnEvent DEF TouchUp
  <2>2. cb' = NoCb \/ \E w : \E i \in Nat \ {0} : cb' = Call("up", w, "erase", i)
    BY <1>0, <1>3 DEF TouchUp
  <2>3. CallbackInv'
    BY <2>2, CallType, NoCallType DEF Callbacks
  <2> QED
    BY <1>3, <2>1, <2>3 DEF TouchUp, TypeOK
<1>4. CASE TouchCancel
  <2>1. wire' \in Seq(Event)
    BY <1>4, OnEvent DEF TouchCancel
  <2>2. points' \in Seq(Point) /\ CallbackInv'
    BY <1>4, CancelType DEF TouchCancel
  <2> QED
    BY <1>4, <2>1, <2>2 DEF TouchCancel, TypeOK
<1> QED
  BY <1>1, <1>2, <1>3, <1>4

LEMMA TypeReturn == ASSUME TypeOK, Return PROVE TypeOK'
<1> USE DEF winVars, keyVars, mouseVars
<1>0. UNCHANGED <<winVars, bound, focus, over, wire, comp>> /\ (cb.then # "next" => cb' = NoCb)
  BY DEF Return
<1>1. CASE cb.then = "next"
  <2>1. CancelFrom(cb.arg) /\ UNCHANGED <<keys, repeat, cursor, button, fault>>
    BY <1>1 DEF Return
  <2>2. points' \in Seq(Point) /\ CallbackInv'
    BY <1>1, <2>1, CancelType DEF TypeOK, CallbackInv
  <2> QED
    BY <1>0, <2>1, <2>2 DEF TypeOK
<1>2. CASE cb.then # "next"
  <2>1. CallbackInv'
    BY <1>0, <1>2, NoCallType
  <2>2. points' \in Seq(Point)
    <3>1. CASE cb.then = "erase"
      <4>1. AfterUp(cb.arg) /\ cb.arg \in Nat \ {0}
        BY <3>1 DEF Return, TypeOK, CallbackInv
      <4>2. points' = points \/ (cb.arg \in 1 .. Len(points) /\ points' = RemoveAt(points, cb.arg))
        <5>1. Len(points) \in Nat
          BY DEF TypeOK
        <5>2. cb.arg > Len(points) \/ cb.arg \in 1 .. Len(points)
          BY <4>1, <5>1
        <5> QED
          BY <4>1, <5>1, <5>2 DEF AfterUp
      <4> QED
        BY <4>2, RemoveFacts DEF TypeOK
    <3>2. CASE cb.then # "erase"
      BY <1>2, <3>2 DEF Return, AfterLeave, AfterKey, AfterRepeat, AfterUnpoint, TypeOK, CallbackInv
    <3> QED
      BY <3>1, <3>2
  <2>3. keys' \subseteq Key /\ button' \in BOOLEAN
    BY <1>2 DEF Return, AfterLeave, AfterKey, AfterRepeat, AfterUnpoint, AfterUp, TypeOK, CallbackInv
  <2>4. repeat' \in [timer : BOOLEAN, armed : BOOLEAN, key : Key \cup {NoKey}, rate : Nat]
    <3>1. \/ repeat' = repeat
          \/ repeat' = [repeat EXCEPT !.armed = FALSE, !.key = NoKey]
          \/ repeat' = [repeat EXCEPT !.armed = TRUE, !.key = cb.arg] /\ cb.arg \in Key
          \/ repeat' = [repeat EXCEPT !.armed = TRUE]
      BY <1>2 DEF Return, AfterLeave, AfterKey, AfterRepeat, AfterUnpoint, AfterUp, TypeOK, CallbackInv
    <3> QED
      BY ZenonT(30), <3>1 DEF TypeOK
  <2>5. cursor' \in [active : Images, redraw : BOOLEAN, frame : BOOLEAN, armed : BOOLEAN,
                     shown : Images, entered : BOOLEAN]
    <3>1. \/ cursor' = cursor
          \/ cursor' = [cursor EXCEPT !.active = "none", !.redraw = FALSE, !.armed = FALSE,
                                      !.frame = FALSE, !.entered = FALSE]
      BY <1>2 DEF Return, AfterLeave, AfterKey, AfterRepeat, AfterUnpoint, AfterUp, TypeOK, CallbackInv
    <3>2. "none" \in Images
      BY DEF Images
    <3> QED
      BY ZenonT(30), <3>1, <3>2 DEF TypeOK
  <2> QED
    BY <1>0, <2>1, <2>2, <2>3, <2>4, <2>5 DEF TypeOK
<1> QED
  BY <1>1, <1>2

LEMMA TypeApplication ==
  ASSUME TypeOK, NEW w \in Window,
         Destroy(w) \/ LockPointer(w) \/ \E c \in Cursors : SetCursor(w, c)
  PROVE  TypeOK'
<1> USE DEF winVars, keyVars, mouseVars
<1>0. "none" \in Images
  BY DEF Images
<1>1. CASE Destroy(w)
  <2>1. /\ alive' \subseteq Window /\ {focus', over'} \subseteq Window \cup {NoWindow}
        /\ points' \in Seq(Point)
    BY <1>1, WithoutFacts DEF Destroy, TypeOK
  <2>2. /\ native' \in [Window -> Images] /\ asked' \in [Window -> Images]
        /\ image' \in [Window -> BOOLEAN]
    BY <1>0, <1>1 DEF Destroy, Cleared, TypeOK
  <2>3. UNCHANGED <<lock, bound, keys, repeat, button, cursor, cb, fault, wire, comp>>
    BY <1>1 DEF Destroy
  <2> QED
    BY <2>1, <2>2, <2>3 DEF TypeOK, CallbackInv
<1>2. CASE LockPointer(w)
  <2>1. lock' \in [Window -> {"none", "asked", "locked"}]
    BY <1>2 DEF LockPointer, TypeOK
  <2>2. UNCHANGED <<alive, native, image, asked, bound, keyVars, mouseVars, points, cb, fault,
                    wire, comp>>
    BY <1>2 DEF LockPointer
  <2> QED
    BY <2>1, <2>2 DEF TypeOK, CallbackInv
<1>3. CASE \E c \in Cursors : SetCursor(w, c)
  <2>0. PICK c \in Cursors : SetCursor(w, c)
    BY <1>3
  <2> c \in Images
    BY CursorAssumption
  <2>1. /\ native' \in [Window -> Images] /\ asked' \in [Window -> Images]
        /\ image' \in [Window -> BOOLEAN]
    BY <1>0, <2>0 DEF SetCursor, TypeOK
  <2>2. cursor' \in [active : Images, redraw : BOOLEAN, frame : BOOLEAN, armed : BOOLEAN,
                     shown : Images, entered : BOOLEAN]
    <3>1. ShowCursor(w) \/ cursor' = cursor
      BY <2>0 DEF SetCursor
    <3> QED
      BY <2>1, <3>1, CursorType DEF TypeOK
  <2>3. UNCHANGED <<alive, lock, bound, keyVars, over, button, points, cb, wire, comp>>
    BY <2>0 DEF SetCursor
  <2> QED
    BY <2>1, <2>2, <2>3 DEF TypeOK, CallbackInv
<1> QED
  BY <1>1, <1>2, <1>3

\* The compositor writes one event, or none, and what it believes.
Believed(c) ==
  c \in [seat : SUBSET Device, caps : SUBSET Device, focus : Window \cup {NoWindow},
         keys : SUBSET Key, over : Window \cup {NoWindow}, button : BOOLEAN,
         known : SUBSET Window, touch : [Finger -> Window \cup {NoWindow}]]

LEMMA SendType ==
  ASSUME TypeOK, NEW ev \in Event, Send(ev), Believed(comp')
  PROVE  TypeOK'
<1>1. wire' \in Seq(Event) /\ UNCHANGED <<winVars, bound, keyVars, mouseVars, points, cb, fault>>
  BY DEF Send, TypeOK
<1> QED
  BY <1>1 DEF Believed, TypeOK, CallbackInv, winVars, keyVars, mouseVars

LEMMA TypeCompositor ==
  ASSUME TypeOK,
         \/ SendCaps \/ SendKeyboard \/ SendPointer \/ SendTouch
         \/ (\E k \in Key : ReleaseElsewhere(k)) \/ \E w \in Window : Forget(w)
  PROVE  TypeOK'
<1>0. Believed(comp) /\ \A f \in Finger : [comp.touch EXCEPT ![f] = NoWindow] \in [Finger -> Window \cup {NoWindow}]
  BY DEF TypeOK, Believed
<1>1. CASE SendCaps
  <2>1. PICK caps \in {{}, comp.seat} :
          /\ comp' = [comp EXCEPT !.caps = caps, !.focus = NoWindow, !.over = NoWindow,
                                  !.touch = [f \in Finger |-> NoWindow]]
          /\ Send(Ev("caps", NoWindow, caps))
    BY <1>1 DEF SendCaps
  <2>2. caps \subseteq Device
    BY DEF TypeOK
  <2>3. Ev("caps", NoWindow, caps) \in Event
    BY <2>2 DEF Ev, Event
  <2>4. Believed(comp')
    BY <1>0, <2>1, <2>2 DEF Believed
  <2> QED
    BY <2>1, <2>3, <2>4, SendType
<1>2. CASE SendKeyboard
  <2>1. CASE \E w \in comp.known :
               comp' = [comp EXCEPT !.focus = w] /\ Send(Ev("enter", w, 0))
    <3>1. PICK w \in comp.known : comp' = [comp EXCEPT !.focus = w] /\ Send(Ev("enter", w, 0))
      BY <2>1
    <3>2. Believed(comp') /\ Ev("enter", w, 0) \in Event
      BY <1>0, <3>1 DEF Believed, Ev, Event
    <3> QED
      BY <3>1, <3>2, SendType
  <2>2. CASE comp.focus # NoWindow /\ comp' = [comp EXCEPT !.focus = NoWindow] /\ Send(Ev("leave", comp.focus, 0))
    <3>2. Believed(comp') /\ Ev("leave", comp.focus, 0) \in Event
      BY <1>0, <2>2 DEF Believed, Ev, Event
    <3> QED
      BY <2>2, <3>2, SendType
  <2>3. CASE \E k \in Key :
               LET pressed == k \notin comp.keys
               IN /\ comp' = [comp EXCEPT !.keys = IF pressed THEN @ \cup {k} ELSE @ \ {k}]
                  /\ Send(Ev("key", NoWindow, <<k, pressed>>))
    <3>1. PICK k \in Key :
            /\ comp' = [comp EXCEPT !.keys = IF k \notin comp.keys THEN @ \cup {k} ELSE @ \ {k}]
            /\ Send(Ev("key", NoWindow, <<k, k \notin comp.keys>>))
      BY <2>3
    <3>2. Believed(comp')
      BY <1>0, <3>1 DEF Believed
    <3>3. Ev("key", NoWindow, <<k, k \notin comp.keys>>) \in Event
      BY DEF Ev, Event
    <3> QED
      BY <3>1, <3>2, <3>3, SendType
  <2>4. CASE \E r \in Rates : UNCHANGED comp /\ Send(Ev("rate", NoWindow, r))
    <3>1. PICK r \in Rates : UNCHANGED comp /\ Send(Ev("rate", NoWindow, r))
      BY <2>4
    <3>2. Believed(comp') /\ Ev("rate", NoWindow, r) \in Event
      BY <1>0, <3>1 DEF Believed, Ev, Event
    <3> QED
      BY <3>1, <3>2, SendType
  <2> QED
    BY <1>2, <2>1, <2>2, <2>3, <2>4 DEF SendKeyboard
<1>3. CASE SendPointer
  <2>1. CASE \E w \in comp.known :
               comp' = [comp EXCEPT !.over = w] /\ Send(Ev("point", w, 0))
    <3>1. PICK w \in comp.known : comp' = [comp EXCEPT !.over = w] /\ Send(Ev("point", w, 0))
      BY <2>1
    <3>2. Believed(comp') /\ Ev("point", w, 0) \in Event
      BY <1>0, <3>1 DEF Believed, Ev, Event
    <3> QED
      BY <3>1, <3>2, SendType
  <2>2. CASE comp.over # NoWindow /\ comp' = [comp EXCEPT !.over = NoWindow] /\ Send(Ev("unpoint", comp.over, 0))
    <3>2. Believed(comp') /\ Ev("unpoint", comp.over, 0) \in Event
      BY <1>0, <2>2 DEF Believed, Ev, Event
    <3> QED
      BY <2>2, <3>2, SendType
  <2>3. CASE \/ UNCHANGED comp /\ \E on \in {"motion", "relative"} : Send(Ev(on, NoWindow, 0))
             \/ comp' = [comp EXCEPT !.button = ~@] /\ Send(Ev("button", NoWindow, ~comp.button))
             \/ UNCHANGED comp /\ \E w \in Window : Send(Ev("lock", w, lock[w] = "asked"))
    <3>1. Believed(comp')
      BY <1>0, <2>3 DEF Believed
    <3>2. /\ \A on \in {"motion", "relative"} : Ev(on, NoWindow, 0) \in Event
          /\ \A w \in Window : Ev("lock", w, lock[w] = "asked") \in Event
          /\ Ev("button", NoWindow, ~comp.button) \in Event
      BY <1>0 DEF Ev, Event, Believed
    <3> QED
      BY <2>3, <3>1, <3>2, SendType
  <2> QED
    BY <1>3, <2>1, <2>2, <2>3 DEF SendPointer
<1>4. CASE SendTouch
  <2>1. CASE \E f \in Finger, w \in comp.known :
               comp' = [comp EXCEPT !.touch[f] = w] /\ Send(Ev("down", w, f))
    <3>1. PICK f \in Finger, w \in comp.known :
            comp' = [comp EXCEPT !.touch[f] = w] /\ Send(Ev("down", w, f))
      BY <2>1
    <3>2. Believed(comp') /\ Ev("down", w, f) \in Event
      BY <1>0, <3>1 DEF Believed, Ev, Event
    <3> QED
      BY <3>1, <3>2, SendType
  <2>2. CASE \E f \in Finger : \/ comp' = comp /\ Send(Ev("update", NoWindow, f))
                               \/ /\ comp' = [comp EXCEPT !.touch[f] = NoWindow]
                                  /\ Send(Ev("up", NoWindow, f))
    <3>1. PICK f \in Finger : \/ comp' = comp /\ Send(Ev("update", NoWindow, f))
                              \/ /\ comp' = [comp EXCEPT !.touch[f] = NoWindow]
                                 /\ Send(Ev("up", NoWindow, f))
      BY <2>2
    <3>2. Believed(comp')
      BY <1>0, <3>1 DEF Believed
    <3>3. Ev("update", NoWindow, f) \in Event /\ Ev("up", NoWindow, f) \in Event
      BY DEF Ev, Event
    <3> QED
      BY <3>1, <3>2, <3>3, SendType
  <2>3. CASE /\ comp' = [comp EXCEPT !.touch = [f \in Finger |-> NoWindow]]
             /\ Send(Ev("cancel", NoWindow, 0))
    <3>1. Believed(comp') /\ Ev("cancel", NoWindow, 0) \in Event
      BY <1>0, <2>3 DEF Believed, Ev, Event
    <3> QED
      BY <2>3, <3>1, SendType
  <2> QED
    BY <1>4, <2>1, <2>2, <2>3 DEF SendTouch
<1>5. CASE \E k \in Key : ReleaseElsewhere(k)
  <2>1. Believed(comp') /\ UNCHANGED <<winVars, bound, keyVars, mouseVars, points, cb, fault, wire>>
    BY <1>0, <1>5 DEF ReleaseElsewhere, Believed
  <2> QED
    BY <2>1 DEF TypeOK, CallbackInv, Believed, winVars, keyVars, mouseVars
<1>6. CASE \E w \in Window : Forget(w)
  <2>1. PICK w \in Window : Forget(w)
    BY <1>6
  <2> DEFINE touch == [f \in Finger |-> IF comp.touch[f] = w THEN NoWindow ELSE comp.touch[f]]
  <2>2. touch \in [Finger -> Window \cup {NoWindow}]
    BY DEF TypeOK
  <2>3. /\ comp' = [comp EXCEPT !.known = @ \ {w}, !.focus = IF @ = w THEN NoWindow ELSE @,
                                !.over = IF @ = w THEN NoWindow ELSE @, !.touch = touch]
        /\ UNCHANGED <<winVars, bound, keyVars, mouseVars, points, cb, fault, wire>>
    BY <2>1 DEF Forget
  <2> HIDE DEF touch
  <2>4. Believed(comp')
    BY <1>0, <2>2, <2>3 DEF Believed
  <2> QED
    BY <2>3, <2>4 DEF TypeOK, CallbackInv, Believed, winVars, keyVars, mouseVars
<1> QED
  BY <1>1, <1>2, <1>3, <1>4, <1>5, <1>6

LEMMA TypeStep == TypeOK /\ [Next]_vars => TypeOK'
<1> SUFFICES ASSUME TypeOK, [Next]_vars PROVE TypeOK'
  OBVIOUS
<1>1. CASE \E w \in Window : Destroy(w) \/ LockPointer(w) \/ \E c \in Cursors : SetCursor(w, c)
  BY <1>1, TypeApplication
<1>2. CASE UNCHANGED vars
  BY <1>2 DEF vars, winVars, keyVars, mouseVars, TypeOK, CallbackInv
<1> QED
  BY <1>1, <1>2, TypeHandlers, TypeTouch, TypeReturn, TypeCompositor DEF Next

-----------------------------------------------------------------------------
(* What the compositor meant when it sent an event *)

\* h tells for every place in the wire s the window that had the focus, the pointer
\* or a finger there: an event of ins gives it, an event of outs takes it back, and
\* at the end it is at, but for windows the compositor knows no more.
Story(s, h, ins, outs, at, known) ==
  /\ h \in [1 .. Len(s) + 1 -> Window \cup {NoWindow}]
  /\ at = h[Len(s) + 1] \/ (at = NoWindow /\ h[Len(s) + 1] \notin known)
  /\ \A i \in 1 .. Len(s) :
       /\ i \in ins => h[i + 1] = s[i].win /\ h[i] \notin known
       /\ i \in outs => h[i + 1] = NoWindow /\ s[i].win \in {NoWindow, h[i]}
       /\ i \notin ins \cup outs => h[i + 1] = h[i]
  /\ \A i \in 1 .. Len(s) + 1 :
       /\ h[i] \in known => h[i] = at \/ \E j \in outs : j >= i
       /\ at # NoWindow => h[i] = at \/ \E j \in ins : j >= i

Places(name) == {i \in DOMAIN wire : wire[i].on = name}
FocusStory(h) == Story(wire, h, Places("enter"), Places("leave"), comp.focus, comp.known)
PointerStory(h) == Story(wire, h, Places("point"), Places("unpoint"), comp.over, comp.known)
Histories == [1 .. Len(wire) + 1 -> Window \cup {NoWindow}]

\* The window w as the display knows it.
IfAlive(w) == IF w \in alive THEN w ELSE NoWindow

\* A withdrawn device is used by nobody, and its events end before it goes.
SeatInv ==
  /\ alive \subseteq comp.known
  /\ comp.caps \in {{}, comp.seat}
  /\ comp.focus # NoWindow => "keyboard" \in comp.caps
  /\ comp.over # NoWindow => "pointer" \in comp.caps
  /\ \A f \in Finger : comp.touch[f] # NoWindow => "touch" \in comp.caps
  /\ Places("caps") # {} => /\ comp.focus = NoWindow /\ comp.over = NoWindow
                            /\ \A f \in Finger : comp.touch[f] = NoWindow
  /\ \A i, j \in DOMAIN wire : i < j /\ wire[i].on = "caps" => wire[j].on = "caps"
  /\ \A i \in Places("point") : "pointer" \in bound
  /\ over # NoWindow => "pointer" \in bound

FocusInv == \E h \in Histories : FocusStory(h) /\ focus = IfAlive(h[1])
OverInv == \E h \in Histories : PointerStory(h) /\ over = IfAlive(h[1])

AliveInv ==
  /\ {focus, over} \subseteq alive \cup {NoWindow}
  /\ \A i \in DOMAIN points : points[i].win \in alive
  /\ over # NoWindow => cursor.entered
  /\ cb.then = "unset" => over = NoWindow

AliveOk == AliveInv /\ SeatInv /\ FocusInv /\ OverInv

\* What stays true of the stories when the first event is handled
LEMMA StoryPop ==
  ASSUME NEW s \in Seq(Event), s # <<>>, NEW h, NEW ins \in SUBSET DOMAIN s,
         NEW outs \in SUBSET DOMAIN s, NEW at, NEW known, Story(s, h, ins, outs, at, known),
         NEW t, Len(t) = Len(s) - 1, \A i \in 1 .. Len(s) - 1 : t[i] = s[i + 1],
         NEW g \in [1 .. Len(s) -> Window \cup {NoWindow}], \A i \in 1 .. Len(s) : g[i] = h[i + 1],
         NEW insT \in SUBSET (1 .. Len(s) - 1), \A i \in 1 .. Len(s) - 1 : i \in insT <=> i + 1 \in ins,
         NEW outsT \in SUBSET (1 .. Len(s) - 1), \A i \in 1 .. Len(s) - 1 : i \in outsT <=> i + 1 \in outs
  PROVE  Story(t, g, insT, outsT, at, known)
<1> DEFINE n == Len(s)
<1>1. n \in Nat \ {0} /\ DOMAIN s = 1 .. n
  OBVIOUS
<1>2. Len(t) = n - 1 /\ \A i \in 1 .. n - 1 : t[i] = s[i + 1]
  OBVIOUS
<1>3. g \in [1 .. n -> Window \cup {NoWindow}] /\ \A i \in 1 .. n : g[i] = h[i + 1]
  OBVIOUS
<1>0. \A i \in 1 .. n - 1 : /\ i \in insT <=> i + 1 \in ins
                            /\ i \in outsT <=> i + 1 \in outs
  OBVIOUS
<1> HIDE DEF n
<1>4. \A i \in 1 .. n : i + 1 \in 1 .. n + 1 /\ g[i] = h[i + 1]
  BY <1>1, <1>3
<1>5. n - 1 + 1 = n /\ \A i \in 1 .. n - 1 : i \in 1 .. n /\ i + 1 \in 1 .. n
  BY <1>1
<1>6. /\ h \in [1 .. n + 1 -> Window \cup {NoWindow}]
      /\ at = h[n + 1] \/ (at = NoWindow /\ h[n + 1] \notin known)
      /\ \A i \in 1 .. n :
           /\ i \in ins => h[i + 1] = s[i].win /\ h[i] \notin known
           /\ i \in outs => h[i + 1] = NoWindow /\ s[i].win \in {NoWindow, h[i]}
           /\ i \notin ins \cup outs => h[i + 1] = h[i]
      /\ \A i \in 1 .. n + 1 :
           /\ h[i] \in known => h[i] = at \/ \E j \in outs : j >= i
           /\ at # NoWindow => h[i] = at \/ \E j \in ins : j >= i
  BY DEF Story, n
<1>7. g \in [1 .. n -> Window \cup {NoWindow}]
  BY <1>3, <1>4, <1>6
<1>8. at = g[n] \/ (at = NoWindow /\ g[n] \notin known)
  BY <1>1, <1>4, <1>6
<1>9. ASSUME NEW i \in 1 .. n - 1
      PROVE  /\ i \in insT => g[i + 1] = t[i].win /\ g[i] \notin known
             /\ i \in outsT => g[i + 1] = NoWindow /\ t[i].win \in {NoWindow, g[i]}
             /\ i \notin insT \cup outsT => g[i + 1] = g[i]
  <2>1. g[i] = h[i + 1] /\ g[i + 1] = h[i + 1 + 1] /\ t[i] = s[i + 1]
    BY <1>2, <1>4, <1>5
  <2>2. i + 1 \in 1 .. n /\ (i \in insT <=> i + 1 \in ins) /\ (i \in outsT <=> i + 1 \in outs)
    BY <1>0, <1>5
  <2> QED
    BY <1>6, <2>1, <2>2
<1>10. ASSUME NEW i \in 1 .. n
       PROVE  /\ g[i] \in known => g[i] = at \/ \E j \in outsT : j >= i
              /\ at # NoWindow => g[i] = at \/ \E j \in insT : j >= i
  <2>1. g[i] = h[i + 1] /\ i + 1 \in 1 .. n + 1
    BY <1>4
  <2>2. ASSUME NEW j \in 1 .. n, j >= i + 1
        PROVE  j - 1 \in 1 .. n - 1 /\ j - 1 >= i /\ j - 1 + 1 = j
    BY <1>1, <2>2
  <2>3. (\E j \in outs : j >= i + 1) => \E j \in outsT : j >= i
    <3>1. SUFFICES ASSUME NEW j \in outs, j >= i + 1 PROVE \E l \in outsT : l >= i
      OBVIOUS
    <3>2. PICK l : l = j - 1
      OBVIOUS
    <3>3. l \in 1 .. n - 1 /\ l >= i /\ l + 1 = j
      BY <1>1, <2>2, <3>1, <3>2
    <3>4. l \in outsT
      BY <1>0, <3>3
    <3> QED
      BY <3>3, <3>4
  <2>4. (\E j \in ins : j >= i + 1) => \E j \in insT : j >= i
    <3>1. SUFFICES ASSUME NEW j \in ins, j >= i + 1 PROVE \E l \in insT : l >= i
      OBVIOUS
    <3>2. PICK l : l = j - 1
      OBVIOUS
    <3>3. l \in 1 .. n - 1 /\ l >= i /\ l + 1 = j
      BY <1>1, <2>2, <3>1, <3>2
    <3>4. l \in insT
      BY <1>0, <3>3
    <3> QED
      BY <3>3, <3>4
  <2> QED
    BY <1>6, <2>1, <2>3, <2>4
<1>11. Story(t, g, insT, outsT, at, known)
  <2> QED
    BY <1>2, <1>5, <1>7, <1>8, <1>9, <1>10 DEF Story
<1> QED
  BY <1>11

\* and when one is sent.
LEMMA StoryPush ==
  ASSUME NEW s \in Seq(Event), NEW e \in Event, NEW h, NEW ins \in SUBSET DOMAIN s,
         NEW outs \in SUBSET DOMAIN s, NEW at, NEW known \in SUBSET Window,
         Story(s, h, ins, outs, at, known), NEW at2, NEW ins2, NEW outs2,
         \/ /\ ins2 = ins \cup {Len(s) + 1} /\ outs2 = outs
            /\ at = NoWindow /\ at2 = e.win /\ e.win \in known
         \/ /\ ins2 = ins /\ outs2 = outs \cup {Len(s) + 1}
            /\ at2 = NoWindow /\ e.win \in {NoWindow, at}
         \/ ins2 = ins /\ outs2 = outs /\ at2 = at,
         NEW t, Len(t) = Len(s) + 1, t[Len(s) + 1] = e, \A i \in 1 .. Len(s) : t[i] = s[i],
         NEW g \in [1 .. Len(s) + 2 -> Window \cup {NoWindow}], \A i \in 1 .. Len(s) + 1 : g[i] = h[i],
         g[Len(s) + 2] = IF ins2 # ins THEN at2 ELSE IF outs2 # outs THEN NoWindow ELSE h[Len(s) + 1]
  PROVE  Story(t, g, ins2, outs2, at2, known)
<1> DEFINE n == Len(s)
<1>1. n \in Nat /\ DOMAIN s = 1 .. n
  OBVIOUS
<1>2. Len(t) = n + 1 /\ t[n + 1] = e /\ \A i \in 1 .. n : t[i] = s[i]
  OBVIOUS
<1>3. /\ g \in [1 .. n + 2 -> Window \cup {NoWindow}] /\ \A i \in 1 .. n + 1 : g[i] = h[i]
      /\ g[n + 2] = IF ins2 # ins THEN at2 ELSE IF outs2 # outs THEN NoWindow ELSE h[n + 1]
  OBVIOUS
<1> DEFINE last == g[n + 2]
<1> HIDE DEF n
<1>4. n + 1 + 1 = n + 2 /\ n + 1 \notin ins /\ n + 1 \notin outs /\ n + 1 \in 1 .. n + 1
  BY <1>1
<1>5. /\ h \in [1 .. n + 1 -> Window \cup {NoWindow}]
      /\ at = h[n + 1] \/ (at = NoWindow /\ h[n + 1] \notin known)
      /\ \A i \in 1 .. n :
           /\ i \in ins => h[i + 1] = s[i].win /\ h[i] \notin known
           /\ i \in outs => h[i + 1] = NoWindow /\ s[i].win \in {NoWindow, h[i]}
           /\ i \notin ins \cup outs => h[i + 1] = h[i]
      /\ \A i \in 1 .. n + 1 :
           /\ h[i] \in known => h[i] = at \/ \E j \in outs : j >= i
           /\ at # NoWindow => h[i] = at \/ \E j \in ins : j >= i
  BY DEF Story, n
<1>6. NoWindow \notin known
  BY SeatAssumption
<1>7. \/ /\ ins2 = ins \cup {n + 1} /\ outs2 = outs /\ last = at2
         /\ at = NoWindow /\ at2 = e.win /\ e.win \in known
      \/ /\ ins2 = ins /\ outs2 = outs \cup {n + 1} /\ last = NoWindow
         /\ at2 = NoWindow /\ e.win \in {NoWindow, at}
      \/ ins2 = ins /\ outs2 = outs /\ at2 = at /\ last = h[n + 1]
  BY <1>3, <1>4 DEF n
<1>9. /\ \A i \in 1 .. n + 1 : i \in 1 .. n + 2 /\ g[i] = h[i]
      /\ g[n + 2] = last
  BY <1>1, <1>3
<1>10. g \in [1 .. n + 2 -> Window \cup {NoWindow}]
  BY <1>3
<1> HIDE DEF last
<1>11. at2 = g[n + 2] \/ (at2 = NoWindow /\ g[n + 2] \notin known)
  BY <1>5, <1>7, <1>9
<1>12. ASSUME NEW i \in 1 .. n + 1
       PROVE  /\ i \in ins2 => g[i + 1] = t[i].win /\ g[i] \notin known
              /\ i \in outs2 => g[i + 1] = NoWindow /\ t[i].win \in {NoWindow, g[i]}
              /\ i \notin ins2 \cup outs2 => g[i + 1] = g[i]
  <2>1. CASE i = n + 1
    <3>1. g[i] = h[n + 1] /\ g[i + 1] = last /\ t[i] = e
      BY <1>2, <1>4, <1>9, <2>1
    <3>2. (i \in ins2 <=> ins2 = ins \cup {n + 1}) /\ (i \in outs2 <=> outs2 = outs \cup {n + 1})
      BY <1>4, <1>7, <2>1
    <3> QED
      BY <1>4, <1>5, <1>6, <1>7, <3>1, <3>2
  <2>2. CASE i # n + 1
    <3>1. i \in 1 .. n /\ i \in 1 .. n + 1 /\ i + 1 \in 1 .. n + 1
      BY <1>1, <2>2
    <3>2. g[i] = h[i] /\ g[i + 1] = h[i + 1] /\ t[i] = s[i]
      BY <1>2, <1>9, <3>1
    <3>3. (i \in ins2 <=> i \in ins) /\ (i \in outs2 <=> i \in outs)
      BY <1>7, <2>2
    <3> QED
      BY <1>5, <3>1, <3>2, <3>3
  <2> QED
    BY <2>1, <2>2
<1>13. ASSUME NEW i \in 1 .. n + 2
       PROVE  /\ g[i] \in known => g[i] = at2 \/ \E j \in outs2 : j >= i
              /\ at2 # NoWindow => g[i] = at2 \/ \E j \in ins2 : j >= i
  <2>1. CASE i = n + 2
    BY <1>11, <2>1
  <2>2. CASE i # n + 2
    <3>1. i \in 1 .. n + 1 /\ n + 1 >= i
      BY <1>1, <2>2
    <3>2. g[i] = h[i] /\ ins \subseteq ins2 /\ outs \subseteq outs2
      BY <1>7, <1>9, <3>1
    <3>3. CASE ins2 = ins \cup {n + 1} /\ at = NoWindow /\ outs2 = outs
      BY <1>5, <1>6, <3>1, <3>2, <3>3
    <3>4. CASE outs2 = outs \cup {n + 1} /\ at2 = NoWindow
      BY <3>1, <3>4
    <3>5. CASE ins2 = ins /\ outs2 = outs /\ at2 = at
      BY <1>5, <3>1, <3>2, <3>5
    <3> QED
      BY <1>7, <3>3, <3>4, <3>5
  <2> QED
    BY <2>1, <2>2
<1>14. Story(t, g, ins2, outs2, at2, known)
  BY <1>2, <1>4, <1>10, <1>11, <1>12, <1>13 DEF Story
<1> QED
  BY <1>14

LEMMA StoryForget ==
  ASSUME NEW s, NEW h, NEW ins, NEW outs, NEW at, NEW known, NEW w,
         Story(s, h, ins, outs, at, known)
  PROVE  Story(s, h, ins, outs, IF at = w THEN NoWindow ELSE at, known \ {w})
  BY DEF Story

LEMMA PopFacts ==
  ASSUME TypeOK, wire # <<>>, wire' = Tail(wire)
  PROVE  /\ Len(wire) \in Nat \ {0} /\ DOMAIN wire = 1 .. Len(wire)
         /\ 1 \in DOMAIN wire /\ Head(wire) = wire[1]
         /\ Len(wire') = Len(wire) - 1 /\ DOMAIN wire' = 1 .. Len(wire) - 1
         /\ \A i \in DOMAIN wire' : i + 1 \in DOMAIN wire /\ wire'[i] = wire[i + 1]
         /\ \A name : Places(name)' = {i \in 1 .. Len(wire) - 1 : i + 1 \in Places(name)}
<1>1. wire \in Seq(Event)
  BY DEF TypeOK
<1>2. /\ Len(wire) \in Nat \ {0} /\ DOMAIN wire = 1 .. Len(wire)
      /\ 1 \in DOMAIN wire /\ Head(wire) = wire[1]
      /\ Len(wire') = Len(wire) - 1 /\ DOMAIN wire' = 1 .. Len(wire) - 1
      /\ \A i \in 1 .. Len(wire) - 1 : i + 1 \in 1 .. Len(wire) /\ wire'[i] = wire[i + 1]
  BY <1>1
<1> QED
  BY <1>2 DEF Places

LEMMA PushFacts ==
  ASSUME TypeOK, NEW ev \in Event, wire' = Append(wire, ev)
  PROVE  /\ Len(wire) \in Nat /\ DOMAIN wire = 1 .. Len(wire)
         /\ Len(wire') = Len(wire) + 1 /\ DOMAIN wire' = 1 .. Len(wire) + 1
         /\ wire'[Len(wire) + 1] = ev /\ \A i \in DOMAIN wire : wire'[i] = wire[i]
         /\ \A name : Places(name)' = IF ev.on = name THEN Places(name) \cup {Len(wire) + 1}
                                                      ELSE Places(name)
<1>1. wire \in Seq(Event)
  BY DEF TypeOK
<1>2. /\ Len(wire) \in Nat /\ DOMAIN wire = 1 .. Len(wire)
      /\ Len(wire') = Len(wire) + 1 /\ DOMAIN wire' = 1 .. Len(wire) + 1
      /\ wire'[Len(wire) + 1] = ev /\ \A i \in 1 .. Len(wire) : wire'[i] = wire[i]
  BY <1>1
<1>3. 1 .. Len(wire) + 1 = (1 .. Len(wire)) \cup {Len(wire) + 1}
  BY <1>2
<1> QED
  BY <1>2, <1>3 DEF Places

LEMMA FocusPop ==
  ASSUME TypeOK, NEW h \in Histories, wire # <<>>, wire' = Tail(wire), comp' = comp
  PROVE  /\ FocusStory(h) => \E g \in Histories' : FocusStory(g)' /\ \A i \in 1 .. Len(wire) : g[i] = h[i + 1]
         /\ PointerStory(h) => \E g \in Histories' : PointerStory(g)' /\ \A i \in 1 .. Len(wire) : g[i] = h[i + 1]
<1>1. wire \in Seq(Event) /\ \A name : Places(name) \in SUBSET DOMAIN wire
  BY DEF TypeOK, Places
<1>2. \A name : Places(name)' = {i \in 1 .. Len(wire) - 1 : i + 1 \in Places(name)}
  BY PopFacts
<1>3. ASSUME NEW ins, NEW outs, NEW at,
             Story(wire, h, Places(ins), Places(outs), at, comp.known)
      PROVE  \E g \in Histories' :
               /\ Story(wire', g, Places(ins)', Places(outs)', at, comp.known)
               /\ \A i \in 1 .. Len(wire) : g[i] = h[i + 1]
  <2>1. Places(ins) \in SUBSET DOMAIN wire /\ Places(outs) \in SUBSET DOMAIN wire
    BY <1>1
  <2>2. PICK g : g = [i \in 1 .. Len(wire) |-> h[i + 1]]
    OBVIOUS
  <2>3. PICK t, insT, outsT : t = wire' /\ insT = Places(ins)' /\ outsT = Places(outs)'
    OBVIOUS
  <2>4. /\ Len(t) = Len(wire) - 1 /\ \A i \in 1 .. Len(wire) - 1 : t[i] = wire[i + 1]
        /\ Len(wire) - 1 + 1 = Len(wire)
    BY <2>3, PopFacts
  <2>5. g \in [1 .. Len(wire) -> Window \cup {NoWindow}] /\ \A i \in 1 .. Len(wire) : g[i] = h[i + 1]
    BY <1>1, <2>2 DEF Histories
  <2>6. /\ insT \in SUBSET (1 .. Len(wire) - 1) /\ outsT \in SUBSET (1 .. Len(wire) - 1)
        /\ \A i \in 1 .. Len(wire) - 1 : /\ i \in insT <=> i + 1 \in Places(ins)
                                         /\ i \in outsT <=> i + 1 \in Places(outs)
    BY <1>2, <2>3
  <2>7. Story(t, g, insT, outsT, at, comp.known)
    BY <1>1, <1>3, <2>1, <2>4, <2>5, <2>6, StoryPop
  <2>8. g \in Histories'
    BY <2>3, <2>4, <2>5 DEF Histories
  <2> QED
    BY <2>3, <2>5, <2>7, <2>8
<1> QED
  BY <1>3 DEF FocusStory, PointerStory

LEMMA FocusPush ==
  ASSUME TypeOK, NEW h \in Histories, NEW ev \in Event, wire' = Append(wire, ev),
         comp'.known = comp.known
  PROVE  /\ FocusStory(h) /\
             (\/ /\ ev.on = "enter" /\ comp.focus = NoWindow
                 /\ comp'.focus = ev.win /\ ev.win \in comp.known
              \/ /\ ev.on = "leave" /\ comp'.focus = NoWindow /\ ev.win = comp.focus
              \/ ev.on \notin {"enter", "leave"} /\ comp'.focus = comp.focus)
              => \E g \in Histories' : /\ FocusStory(g)' /\ \A i \in 1 .. Len(wire) + 1 : g[i] = h[i]
                                       /\ g[Len(wire) + 2] = IF ev.on = "enter" THEN comp'.focus
                                            ELSE IF ev.on = "leave" THEN NoWindow ELSE h[Len(wire) + 1]
         /\ PointerStory(h) /\
             (\/ /\ ev.on = "point" /\ comp.over = NoWindow
                 /\ comp'.over = ev.win /\ ev.win \in comp.known
              \/ /\ ev.on = "unpoint" /\ comp'.over = NoWindow /\ ev.win = comp.over
              \/ ev.on \notin {"point", "unpoint"} /\ comp'.over = comp.over)
              => \E g \in Histories' : PointerStory(g)' /\ g[1] = h[1]
<1>1. /\ wire \in Seq(Event) /\ \A name : Places(name) \in SUBSET DOMAIN wire
      /\ comp.known \in SUBSET Window
  BY DEF TypeOK, Places
<1>2. /\ \A name : Places(name)' = IF ev.on = name THEN Places(name) \cup {Len(wire) + 1}
                                                   ELSE Places(name)
      /\ Len(wire) \in Nat /\ DOMAIN wire = 1 .. Len(wire)
  BY PushFacts
<1>3. \A name : Len(wire) + 1 \notin Places(name) /\ 1 \in 1 .. Len(wire) + 1
  BY <1>1, <1>2
<1>0. ASSUME NEW ins, NEW outs, NEW at, NEW at2,
             Story(wire, h, Places(ins), Places(outs), at, comp.known),
             \/ /\ Places(ins)' = Places(ins) \cup {Len(wire) + 1} /\ Places(outs)' = Places(outs)
                /\ at = NoWindow /\ at2 = ev.win /\ ev.win \in comp.known
             \/ /\ Places(ins)' = Places(ins) /\ Places(outs)' = Places(outs) \cup {Len(wire) + 1}
                /\ at2 = NoWindow /\ ev.win \in {NoWindow, at}
             \/ Places(ins)' = Places(ins) /\ Places(outs)' = Places(outs) /\ at2 = at
      PROVE  \E g \in Histories' :
               /\ \A i \in 1 .. Len(wire) + 1 : g[i] = h[i]
               /\ g[Len(wire) + 2] = IF Places(ins)' # Places(ins) THEN at2
                                     ELSE IF Places(outs)' # Places(outs) THEN NoWindow
                                     ELSE h[Len(wire) + 1]
               /\ Story(wire', g, Places(ins)', Places(outs)', at2, comp.known)
  <2>1. Places(ins) \in SUBSET DOMAIN wire /\ Places(outs) \in SUBSET DOMAIN wire
    BY <1>1
  <2>2. PICK ins2, outs2 : ins2 = Places(ins)' /\ outs2 = Places(outs)'
    OBVIOUS
  <2>3. \/ /\ ins2 = Places(ins) \cup {Len(wire) + 1} /\ outs2 = Places(outs)
           /\ at = NoWindow /\ at2 = ev.win /\ ev.win \in comp.known
        \/ /\ ins2 = Places(ins) /\ outs2 = Places(outs) \cup {Len(wire) + 1}
           /\ at2 = NoWindow /\ ev.win \in {NoWindow, at}
        \/ ins2 = Places(ins) /\ outs2 = Places(outs) /\ at2 = at
    BY <1>0, <2>2
  <2>4. PICK last : last = IF ins2 # Places(ins) THEN at2
                           ELSE IF outs2 # Places(outs) THEN NoWindow ELSE h[Len(wire) + 1]
    OBVIOUS
  <2>5. PICK g : g = [i \in 1 .. Len(wire) + 2 |-> IF i <= Len(wire) + 1 THEN h[i] ELSE last]
    OBVIOUS
  <2>6. PICK t : t = wire'
    OBVIOUS
  <2>7. /\ Len(t) = Len(wire) + 1 /\ t[Len(wire) + 1] = ev /\ \A i \in 1 .. Len(wire) : t[i] = wire[i]
        /\ Len(wire) + 1 + 1 = Len(wire) + 2
    BY <2>6, PushFacts
  <2>8. last \in Window \cup {NoWindow}
    BY <1>1, <1>2, <2>3, <2>4 DEF Histories
  <2>9. /\ g \in [1 .. Len(wire) + 2 -> Window \cup {NoWindow}]
        /\ \A i \in 1 .. Len(wire) + 1 : g[i] = h[i]
        /\ g[Len(wire) + 2] = last
    BY <1>2, <2>5, <2>8 DEF Histories
  <2>10. Story(t, g, ins2, outs2, at2, comp.known)
    BY <1>0, <1>1, <2>1, <2>3, <2>4, <2>7, <2>9, StoryPush
  <2>11. g \in Histories'
    BY <2>6, <2>7, <2>9 DEF Histories
  <2> QED
    BY <2>2, <2>4, <2>6, <2>9, <2>10, <2>11
<1>4. ASSUME FocusStory(h),
             \/ /\ ev.on = "enter" /\ comp.focus = NoWindow
                /\ comp'.focus = ev.win /\ ev.win \in comp.known
             \/ /\ ev.on = "leave" /\ comp'.focus = NoWindow /\ ev.win = comp.focus
             \/ ev.on \notin {"enter", "leave"} /\ comp'.focus = comp.focus
      PROVE  \E g \in Histories' : /\ FocusStory(g)' /\ \A i \in 1 .. Len(wire) + 1 : g[i] = h[i]
                                   /\ g[Len(wire) + 2] = IF ev.on = "enter" THEN comp'.focus
                                        ELSE IF ev.on = "leave" THEN NoWindow ELSE h[Len(wire) + 1]
  <2>1. Story(wire, h, Places("enter"), Places("leave"), comp.focus, comp.known)
    BY <1>4 DEF FocusStory
  <2>2. \/ /\ Places("enter")' = Places("enter") \cup {Len(wire) + 1} /\ Places("leave")' = Places("leave")
           /\ comp.focus = NoWindow /\ comp'.focus = ev.win /\ ev.win \in comp.known
        \/ /\ Places("enter")' = Places("enter") /\ Places("leave")' = Places("leave") \cup {Len(wire) + 1}
           /\ comp'.focus = NoWindow /\ ev.win \in {NoWindow, comp.focus}
        \/ /\ Places("enter")' = Places("enter") /\ Places("leave")' = Places("leave")
           /\ comp'.focus = comp.focus
    BY <1>2, <1>4
  <2>3. (Places("enter")' # Places("enter") <=> ev.on = "enter")
        /\ (Places("leave")' # Places("leave") <=> ev.on = "leave")
    BY <1>2, <1>3
  <2>4. \E g \in Histories' :
          /\ \A i \in 1 .. Len(wire) + 1 : g[i] = h[i]
          /\ g[Len(wire) + 2] = IF Places("enter")' # Places("enter") THEN comp'.focus
                                ELSE IF Places("leave")' # Places("leave") THEN NoWindow
                                ELSE h[Len(wire) + 1]
          /\ Story(wire', g, Places("enter")', Places("leave")', comp'.focus, comp.known)
    BY <1>0, <2>1, <2>2
  <2> QED
    BY <2>3, <2>4 DEF FocusStory
<1>5. ASSUME PointerStory(h),
             \/ /\ ev.on = "point" /\ comp.over = NoWindow
                /\ comp'.over = ev.win /\ ev.win \in comp.known
             \/ /\ ev.on = "unpoint" /\ comp'.over = NoWindow /\ ev.win = comp.over
             \/ ev.on \notin {"point", "unpoint"} /\ comp'.over = comp.over
      PROVE  \E g \in Histories' : PointerStory(g)' /\ g[1] = h[1]
  <2>1. Story(wire, h, Places("point"), Places("unpoint"), comp.over, comp.known)
    BY <1>5 DEF PointerStory
  <2>2. \/ /\ Places("point")' = Places("point") \cup {Len(wire) + 1} /\ Places("unpoint")' = Places("unpoint")
           /\ comp.over = NoWindow /\ comp'.over = ev.win /\ ev.win \in comp.known
        \/ /\ Places("point")' = Places("point") /\ Places("unpoint")' = Places("unpoint") \cup {Len(wire) + 1}
           /\ comp'.over = NoWindow /\ ev.win \in {NoWindow, comp.over}
        \/ /\ Places("point")' = Places("point") /\ Places("unpoint")' = Places("unpoint")
           /\ comp'.over = comp.over
    BY <1>2, <1>5
  <2>3. \E g \in Histories' :
          /\ \A i \in 1 .. Len(wire) + 1 : g[i] = h[i]
          /\ Story(wire', g, Places("point")', Places("unpoint")', comp'.over, comp.known)
    BY <1>0, <2>1, <2>2
  <2> QED
    BY <1>3, <2>3 DEF PointerStory
<1> QED
  BY <1>4, <1>5

LEMMA HeadStory ==
  ASSUME TypeOK, NEW h \in Histories, wire # <<>>
  PROVE  /\ FocusStory(h) =>
              /\ Head(wire).on = "enter" => h[2] = Head(wire).win /\ h[1] \notin comp.known
              /\ Head(wire).on = "leave" => h[2] = NoWindow /\ Head(wire).win \in {NoWindow, h[1]}
              /\ Head(wire).on \notin {"enter", "leave"} => h[2] = h[1]
              /\ h[1] \in comp.known => h[1] = comp.focus \/ Places("leave") # {}
         /\ PointerStory(h) =>
              /\ Head(wire).on = "point" => h[2] = Head(wire).win /\ h[1] \notin comp.known
              /\ Head(wire).on = "unpoint" => h[2] = NoWindow /\ Head(wire).win \in {NoWindow, h[1]}
              /\ Head(wire).on \notin {"point", "unpoint"} => h[2] = h[1]
              /\ h[1] \in comp.known => h[1] = comp.over \/ Places("unpoint") # {}
<1>1. wire \in Seq(Event)
  BY DEF TypeOK
<1>2. 1 \in 1 .. Len(wire) /\ 1 \in 1 .. Len(wire) + 1 /\ Head(wire) = wire[1] /\ 1 + 1 = 2
      /\ DOMAIN wire = 1 .. Len(wire)
  BY <1>1
<1>3. \A name : 1 \in Places(name) <=> Head(wire).on = name
  BY <1>2 DEF Places
<1>4. ASSUME NEW ins, NEW outs, NEW at, NEW known, Story(wire, h, ins, outs, at, known)
      PROVE  /\ 1 \in ins => h[2] = wire[1].win /\ h[1] \notin known
             /\ 1 \in outs => h[2] = NoWindow /\ wire[1].win \in {NoWindow, h[1]}
             /\ 1 \notin ins \cup outs => h[2] = h[1]
             /\ h[1] \in known => h[1] = at \/ outs # {}
  BY <1>2, <1>4 DEF Story
<1>5. ASSUME FocusStory(h)
      PROVE  /\ 1 \in Places("enter") => h[2] = wire[1].win /\ h[1] \notin comp.known
             /\ 1 \in Places("leave") => h[2] = NoWindow /\ wire[1].win \in {NoWindow, h[1]}
             /\ 1 \notin Places("enter") \cup Places("leave") => h[2] = h[1]
             /\ h[1] \in comp.known => h[1] = comp.focus \/ Places("leave") # {}
  BY <1>4, <1>5 DEF FocusStory
<1>6. ASSUME PointerStory(h)
      PROVE  /\ 1 \in Places("point") => h[2] = wire[1].win /\ h[1] \notin comp.known
             /\ 1 \in Places("unpoint") => h[2] = NoWindow /\ wire[1].win \in {NoWindow, h[1]}
             /\ 1 \notin Places("point") \cup Places("unpoint") => h[2] = h[1]
             /\ h[1] \in comp.known => h[1] = comp.over \/ Places("unpoint") # {}
  BY <1>4, <1>6 DEF PointerStory
<1> QED
  BY <1>2, <1>3, <1>5, <1>6

\* Once the capabilities are about to change nothing but them is on its way, and
\* the display has lost what it had.
LEMMA CapsHead ==
  ASSUME TypeOK, AliveOk, wire # <<>>, Head(wire).on = "caps"
  PROVE  /\ \A i \in DOMAIN wire : wire[i].on = "caps"
         /\ focus = NoWindow /\ over = NoWindow
<1>1. wire \in Seq(Event)
  BY DEF TypeOK
<1>2. 1 \in DOMAIN wire /\ Head(wire) = wire[1] /\ \A i \in DOMAIN wire : i = 1 \/ 1 < i
  BY <1>1
<1>3. \A i \in DOMAIN wire : wire[i].on = "caps"
  BY <1>2 DEF AliveOk, SeatInv
<1>4. Places("leave") = {} /\ Places("unpoint") = {} /\ Places("caps") # {}
  BY <1>2, <1>3 DEF Places
<1>5. comp.focus = NoWindow /\ comp.over = NoWindow /\ alive \subseteq comp.known
  BY <1>4 DEF AliveOk, SeatInv
<1>6. NoWindow \notin comp.known
  BY SeatAssumption DEF TypeOK
<1>7. PICK h \in Histories : FocusStory(h) /\ focus = IfAlive(h[1])
  BY DEF AliveOk, FocusInv
<1>8. PICK g \in Histories : PointerStory(g) /\ over = IfAlive(g[1])
  BY DEF AliveOk, OverInv
<1>9. h[1] \notin comp.known /\ g[1] \notin comp.known
  BY <1>4, <1>5, <1>6, <1>7, <1>8, HeadStory
<1> QED
  BY <1>3, <1>5, <1>7, <1>8, <1>9 DEF IfAlive

LEMMA AlivePop ==
  ASSUME TypeOK, AliveOk, NEW name, On(name), comp' = comp, alive' = alive,
         focus' = IF name = "enter" THEN Head(wire).win ELSE IF name = "leave" THEN NoWindow ELSE focus,
         over' = IF name = "point" THEN Head(wire).win ELSE IF name = "unpoint" THEN NoWindow ELSE over,
         name = "caps" \/ bound' = bound
  PROVE  SeatInv' /\ FocusInv' /\ OverInv' /\ {focus', over'} \subseteq alive' \cup {NoWindow}
<1>1. /\ wire # <<>> /\ Head(wire).on = name /\ wire' = Tail(wire)
      /\ name \in Surfaced => Head(wire).win \in alive
  BY OnEvent
<1>2. NoWindow \notin alive
  BY SeatAssumption DEF TypeOK
<1>3. 1 \in 1 .. Len(wire) /\ 1 + 1 = 2
  BY <1>1, PopFacts
<1>4. FocusInv'
  <2>1. PICK h \in Histories : FocusStory(h) /\ focus = IfAlive(h[1])
    BY DEF AliveOk, FocusInv
  <2>2. PICK g \in Histories' : FocusStory(g)' /\ \A i \in 1 .. Len(wire) : g[i] = h[i + 1]
    BY <1>1, <2>1, FocusPop
  <2>3. g[1] = h[2]
    BY <1>3, <2>2
  <2>4. focus' = IfAlive(h[2])
    BY <1>1, <1>2, <2>1, HeadStory DEF IfAlive, Surfaced
  <2> QED
    BY <2>2, <2>3, <2>4 DEF FocusInv, IfAlive
<1>5. OverInv'
  <2>1. PICK h \in Histories : PointerStory(h) /\ over = IfAlive(h[1])
    BY DEF AliveOk, OverInv
  <2>2. PICK g \in Histories' : PointerStory(g)' /\ \A i \in 1 .. Len(wire) : g[i] = h[i + 1]
    BY <1>1, <2>1, FocusPop
  <2>3. g[1] = h[2]
    BY <1>3, <2>2
  <2>4. over' = IfAlive(h[2])
    BY <1>1, <1>2, <2>1, HeadStory DEF IfAlive, Surfaced
  <2> QED
    BY <2>2, <2>3, <2>4 DEF OverInv, IfAlive
<1>6. {focus', over'} \subseteq alive' \cup {NoWindow}
  BY <1>1 DEF AliveOk, AliveInv, Surfaced
<1>7. over' # NoWindow => "pointer" \in bound'
  <2>1. CASE name = "caps"
    BY <1>1, <2>1, CapsHead
  <2>2. CASE name # "caps"
    <3>1. name = "point" => 1 \in Places("point")
      BY <1>1, PopFacts DEF Places
    <3> QED
      BY <2>2, <3>1 DEF AliveOk, SeatInv
  <2> QED
    BY <2>1, <2>2
<1>8. \A i \in DOMAIN wire' : i + 1 \in DOMAIN wire /\ wire'[i] = wire[i + 1]
  BY <1>1, PopFacts
<1>9. \A i \in Places("point")' : "pointer" \in bound'
  <2>1. SUFFICES ASSUME NEW i \in Places("point")' PROVE "pointer" \in bound'
    OBVIOUS
  <2>2. i \in DOMAIN wire' /\ wire'[i].on = "point"
    BY DEF Places
  <2>3. i + 1 \in Places("point")
    BY <1>8, <2>2 DEF Places
  <2>4. name # "caps"
    BY <1>1, <2>3, CapsHead DEF Places
  <2> QED
    BY <2>3, <2>4 DEF AliveOk, SeatInv
<1>10. \A i, j \in DOMAIN wire' : i < j /\ wire'[i].on = "caps" => wire'[j].on = "caps"
  <2>1. \A i, j \in DOMAIN wire' : i < j => i + 1 < j + 1
    BY <1>1, PopFacts
  <2> QED
    BY <1>8, <2>1 DEF AliveOk, SeatInv
<1>11. Places("caps")' # {} => Places("caps") # {}
  BY <1>8 DEF Places
<1>12. SeatInv'
  BY <1>7, <1>9, <1>10, <1>11 DEF AliveOk, SeatInv
<1> QED
  BY <1>4, <1>5, <1>6, <1>12

LEMMA AlivePush ==
  ASSUME TypeOK, AliveOk, NEW ev \in Event, Send(ev), comp'.known = comp.known,
         \/ ev.on = "enter" /\ comp.focus = NoWindow /\ comp'.focus = ev.win /\ ev.win \in comp.known
         \/ ev.on = "leave" /\ comp'.focus = NoWindow /\ ev.win = comp.focus
         \/ ev.on \notin {"enter", "leave"} /\ comp'.focus = comp.focus,
         \/ ev.on = "point" /\ comp.over = NoWindow /\ comp'.over = ev.win /\ ev.win \in comp.known
         \/ ev.on = "unpoint" /\ comp'.over = NoWindow /\ ev.win = comp.over
         \/ ev.on \notin {"point", "unpoint"} /\ comp'.over = comp.over,
         comp'.caps \in {{}, comp'.seat},
         comp'.focus # NoWindow => "keyboard" \in comp'.caps,
         comp'.over # NoWindow => "pointer" \in comp'.caps,
         \A f \in Finger : comp'.touch[f] # NoWindow => "touch" \in comp'.caps,
         \/ /\ ev.on = "caps" /\ comp'.focus = NoWindow /\ comp'.over = NoWindow
            /\ \A f \in Finger : comp'.touch[f] = NoWindow
         \/ ev.on # "caps" /\ Places("caps") = {},
         ev.on = "point" => "pointer" \in bound
  PROVE  AliveOk'
<1>1. wire' = Append(wire, ev) /\ UNCHANGED <<alive, bound, focus, over, cursor, points, cb>>
  BY DEF Send, winVars, keyVars, mouseVars
<1>2. 1 \in 1 .. Len(wire) + 1
  BY <1>1, PushFacts
<1>3. FocusInv'
  <2>1. PICK h \in Histories : FocusStory(h) /\ focus = IfAlive(h[1])
    BY DEF AliveOk, FocusInv
  <2>2. PICK g \in Histories' : FocusStory(g)' /\ \A i \in 1 .. Len(wire) + 1 : g[i] = h[i]
    BY <1>1, <2>1, FocusPush
  <2> QED
    BY <1>1, <1>2, <2>1, <2>2 DEF FocusInv, IfAlive
<1>4. OverInv'
  <2>1. PICK h \in Histories : PointerStory(h) /\ over = IfAlive(h[1])
    BY DEF AliveOk, OverInv
  <2>2. PICK g \in Histories' : PointerStory(g)' /\ g[1] = h[1]
    BY <1>1, <2>1, FocusPush
  <2> QED
    BY <1>1, <2>1, <2>2 DEF OverInv, IfAlive
<1>5. /\ DOMAIN wire = 1 .. Len(wire) /\ Len(wire) \in Nat /\ DOMAIN wire' = 1 .. Len(wire) + 1
      /\ wire'[Len(wire) + 1] = ev /\ \A i \in DOMAIN wire : wire'[i] = wire[i]
  BY <1>1, PushFacts
<1>6. \A i \in DOMAIN wire' : i \in DOMAIN wire \/ i = Len(wire) + 1
  BY <1>5
<1>7. \A i, j \in DOMAIN wire' : i < j /\ wire'[i].on = "caps" => wire'[j].on = "caps"
  <2>1. SUFFICES ASSUME NEW i \in DOMAIN wire', NEW j \in DOMAIN wire', i < j, wire'[i].on = "caps"
                 PROVE  wire'[j].on = "caps"
    OBVIOUS
  <2>2. i \in DOMAIN wire
    BY <1>5, <2>1
  <2>3. wire[i].on = "caps" /\ ev.on = "caps"
    BY <1>5, <2>1, <2>2 DEF Places
  <2> QED
    BY <1>5, <1>6, <2>1, <2>2, <2>3 DEF AliveOk, SeatInv
<1>8. \A name : Places(name)' = IF ev.on = name THEN Places(name) \cup {Len(wire) + 1}
                                                ELSE Places(name)
  BY <1>1, PushFacts
<1>9. Places("caps")' # {} => /\ comp'.focus = NoWindow /\ comp'.over = NoWindow
                              /\ \A f \in Finger : comp'.touch[f] = NoWindow
  BY <1>8
<1>10. \A i \in Places("point")' : "pointer" \in bound
  BY <1>8 DEF AliveOk, SeatInv
<1>11. SeatInv'
  BY <1>1, <1>7, <1>9, <1>10 DEF AliveOk, SeatInv
<1> QED
  BY <1>1, <1>3, <1>4, <1>11 DEF AliveOk, AliveInv

\* A window destroyed, or nothing of this, changes.
LEMMA AliveStay ==
  ASSUME TypeOK, AliveOk, UNCHANGED <<wire, comp, bound>>, alive' \subseteq alive,
         focus' = IF focus \in alive' THEN focus ELSE NoWindow,
         over' = IF over \in alive' THEN over ELSE NoWindow
  PROVE  SeatInv' /\ FocusInv' /\ OverInv' /\ {focus', over'} \subseteq alive' \cup {NoWindow}
<1>1. NoWindow \notin alive /\ Histories' = Histories
  BY SeatAssumption DEF TypeOK, Histories
<1>2. FocusInv'
  <2>1. PICK h \in Histories : FocusStory(h) /\ focus = IfAlive(h[1])
    BY DEF AliveOk, FocusInv
  <2>2. FocusStory(h)' /\ focus' = IfAlive(h[1])'
    BY <1>1, <2>1 DEF FocusStory, IfAlive, Places
  <2> QED
    BY <1>1, <2>2 DEF FocusInv
<1>3. OverInv'
  <2>1. PICK h \in Histories : PointerStory(h) /\ over = IfAlive(h[1])
    BY DEF AliveOk, OverInv
  <2>2. PointerStory(h)' /\ over' = IfAlive(h[1])'
    BY <1>1, <2>1 DEF PointerStory, IfAlive, Places
  <2> QED
    BY <1>1, <2>2 DEF OverInv
<1>4. SeatInv'
  BY DEF AliveOk, SeatInv, Places
<1> QED
  BY <1>2, <1>3, <1>4

LEMMA AliveHandlers ==
  ASSUME TypeOK, AliveOk,
         \/ SeatCaps \/ KeyboardEnter \/ KeyboardLeave \/ KeyboardKey \/ RepeatInfo
         \/ PointerEnter \/ PointerLeave \/ PointerMotion \/ RelativeMotion
         \/ PointerButton \/ PointerLocked
         \/ TouchDown \/ TouchMotion \/ TouchUp \/ TouchCancel
  PROVE  AliveOk'
<1> USE DEF winVars, keyVars, mouseVars
<1>0. (cb' = cb \/ cb' = NoCb \/ \E fn, w, then, arg : then # "unset" /\ cb' = Call(fn, w, then, arg))
      => (cb'.then = "unset" => over = NoWindow)
  BY DEF AliveOk, AliveInv, NoCb, Call
<1> DEFINE Rest == /\ \A i \in DOMAIN points' : points'[i].win \in alive'
                   /\ over' # NoWindow => cursor'.entered
                   /\ cb'.then = "unset" => over' = NoWindow
           Popped(name) ==
             /\ On(name) /\ comp' = comp /\ alive' = alive
             /\ focus' = IF name = "enter" THEN Head(wire).win
                         ELSE IF name = "leave" THEN NoWindow ELSE focus
             /\ over' = IF name = "point" THEN Head(wire).win
                        ELSE IF name = "unpoint" THEN NoWindow ELSE over
             /\ name = "caps" \/ bound' = bound
<1>1. ASSUME NEW name, Popped(name), Rest PROVE AliveOk'
  BY <1>1, AlivePop DEF AliveOk, AliveInv
<1>2. CASE SeatCaps
  <2>1. Popped("caps")
    BY <1>2 DEF SeatCaps
  <2>2. Rest
    BY <1>0, <1>2 DEF SeatCaps, AliveOk, AliveInv
  <2> QED
    BY <1>1, <2>1, <2>2
<1>3. CASE KeyboardEnter \/ KeyboardLeave
  <2>1. Popped("enter") \/ Popped("leave")
    BY <1>3 DEF KeyboardEnter, KeyboardLeave
  <2>2. Rest
    BY <1>0, <1>3 DEF KeyboardEnter, KeyboardLeave, AliveOk, AliveInv
  <2> QED
    BY <1>1, <2>1, <2>2
<1>4. CASE KeyboardKey \/ RepeatInfo
  <2>1. Popped("key") \/ Popped("rate")
    BY <1>4 DEF KeyboardKey, RepeatInfo
  <2>2. cb' = cb \/ \E w, then, arg : then # "unset" /\ cb' = Call("key", w, then, arg)
    BY <1>4 DEF KeyboardKey, RepeatInfo
  <2>3. Rest
    BY <1>0, <1>4, <2>2 DEF KeyboardKey, RepeatInfo, AliveOk, AliveInv
  <2> QED
    BY <1>1, <2>1, <2>3
<1>5. CASE PointerEnter
  <2>1. Popped("point") /\ ShowCursor(Head(wire).win)
    BY <1>5 DEF PointerEnter
  <2>2. "pointer" \in bound
    <3>1. 1 \in Places("point")
      BY <2>1, OnEvent, PopFacts DEF Places
    <3> QED
      BY <3>1 DEF AliveOk, SeatInv
  <2>3. cursor'.entered
    <3>1. Head(wire).win \in Window
      BY <2>1, OnEvent, EventFacts DEF Surfaced
    <3> QED
      BY <1>5, <2>1, <2>2, <3>1, CursorShown DEF PointerEnter, TypeOK
  <2>4. Rest
    BY <1>5, <2>3 DEF PointerEnter, Call, AliveOk, AliveInv
  <2> QED
    BY <1>1, <2>1, <2>4
<1>6. CASE PointerLeave
  <2>1. Popped("unpoint")
    BY <1>6 DEF PointerLeave
  <2>2. Rest
    BY <1>6 DEF PointerLeave, AliveOk, AliveInv
  <2> QED
    BY <1>1, <2>1, <2>2
<1>7. CASE PointerMotion \/ RelativeMotion \/ PointerButton \/ PointerLocked
  <2>1. Popped("motion") \/ Popped("relative") \/ Popped("button") \/ Popped("lock")
    BY <1>7 DEF PointerMotion, RelativeMotion, PointerButton, PointerLocked
  <2>2. cb' = cb \/ cb' = NoCb \/ \E fn, w : cb' = Call(fn, w, "end", 0)
    BY <1>7 DEF PointerMotion, RelativeMotion, PointerButton, PointerLocked
  <2>3. Rest
    BY <1>0, <1>7, <2>2 DEF PointerMotion, RelativeMotion, PointerButton, PointerLocked, AliveOk, AliveInv
  <2> QED
    BY <1>1, <2>1, <2>3
<1>8. CASE TouchDown
  <2>1. Popped("down") /\ Head(wire).win \in alive /\ points \in Seq(Point)
    BY <1>8, OnEvent DEF TouchDown, Surfaced, TypeOK
  <2>2. PICK p : p = [id |-> Head(wire).arg, win |-> Head(wire).win]
    OBVIOUS
  <2>3. points' = Append(points, p) /\ p.win \in alive
    BY <1>8, <2>1, <2>2 DEF TouchDown
  <2>4. \A i \in DOMAIN points' : (i \in DOMAIN points /\ points'[i] = points[i]) \/ points'[i] = p
    BY <2>1, <2>3
  <2>5. Rest
    BY <1>0, <1>8, <2>3, <2>4 DEF TouchDown, AliveOk, AliveInv
  <2> QED
    BY <1>1, <2>1, <2>5
<1>9. CASE TouchMotion \/ TouchUp
  <2>1. Popped("update") \/ Popped("up")
    BY <1>9 DEF TouchMotion, TouchUp
  <2>2. cb' = NoCb \/ \E fn, w, then, arg : then # "unset" /\ cb' = Call(fn, w, then, arg)
    BY <1>9 DEF TouchMotion, TouchUp
  <2>3. Rest
    BY <1>0, <1>9, <2>2 DEF TouchMotion, TouchUp, AliveOk, AliveInv
  <2> QED
    BY <1>1, <2>1, <2>3
<1>10. CASE TouchCancel
  <2>1. Popped("cancel")
    BY <1>10 DEF TouchCancel
  <2>2. \/ points' = <<>> /\ cb' = NoCb
        \/ points' = points /\ \E w, arg : cb' = Call("cancel", w, "next", arg)
    BY <1>10 DEF TouchCancel, CancelFrom
  <2>3. cb'.then = "unset" => over = NoWindow
    BY <1>0, <2>2
  <2>4. Rest
    BY <1>10, <2>2, <2>3 DEF TouchCancel, AliveOk, AliveInv
  <2> QED
    BY <1>1, <2>1, <2>4
<1> QED
  BY <1>2, <1>3, <1>4, <1>5, <1>6, <1>7, <1>8, <1>9, <1>10

LEMMA AliveRest ==
  ASSUME TypeOK, AliveOk,
         \/ KeyRepeat \/ CursorTime \/ CursorFrame \/ DeadSurface \/ Return
         \/ (\E w \in Window : Destroy(w) \/ LockPointer(w))
         \/ (\E w \in Window, c \in Cursors : SetCursor(w, c))
         \/ UNCHANGED vars
  PROVE  AliveOk'
<1> USE DEF winVars, keyVars, mouseVars
<1> DEFINE Rest == /\ \A i \in DOMAIN points' : points'[i].win \in alive'
                   /\ over' # NoWindow => cursor'.entered
                   /\ cb'.then = "unset" => over' = NoWindow
           Same == UNCHANGED <<wire, comp, bound, alive, focus, over>>
<1>0. ASSUME Same, Rest PROVE AliveOk'
  <2>1. /\ focus' = IF focus \in alive' THEN focus ELSE NoWindow
        /\ over' = IF over \in alive' THEN over ELSE NoWindow
    BY <1>0 DEF AliveOk, AliveInv
  <2> QED
    BY <1>0, <2>1, AliveStay DEF AliveOk, AliveInv
<1>1. CASE KeyRepeat
  <2>1. cb' = cb \/ cb' = Call("repeat", focus, "rearm", 0)
    BY <1>1 DEF KeyRepeat
  <2>2. cb'.then = "unset" => over = NoWindow
    BY <2>1 DEF Call, AliveOk, AliveInv
  <2>3. Same /\ Rest
    BY <1>1, <2>2 DEF KeyRepeat, AliveOk, AliveInv
  <2> QED
    BY <1>0, <2>3
<1>2. CASE CursorTime \/ CursorFrame
  <2>1. cursor'.entered = cursor.entered
    <3>1. \/ cursor' = [cursor EXCEPT !.armed = FALSE, !.redraw = TRUE]
          \/ cursor' = [cursor EXCEPT !.frame = FALSE]
          \/ cursor' = [cursor EXCEPT !.armed = FALSE]
          \/ cursor' = [cursor EXCEPT !.frame = TRUE, !.redraw = FALSE,
                                      !.armed = cursor.active = "animated"]
      BY <1>2 DEF CursorTime, CursorFrame, Render
    <3> QED
      BY <3>1 DEF TypeOK
  <2>2. Same /\ Rest
    BY <1>2, <2>1 DEF CursorTime, CursorFrame, AliveOk, AliveInv
  <2> QED
    BY <1>0, <2>2
<1>3. CASE DeadSurface \/ (\E w \in Window : LockPointer(w)) \/ UNCHANGED vars
  <2>1. UNCHANGED <<wire, comp, bound, alive, focus, over, points, cursor, cb>>
    BY <1>3 DEF DeadSurface, LockPointer, vars
  <2>2. Same /\ Rest
    BY <2>1 DEF AliveOk, AliveInv
  <2> QED
    BY <1>0, <2>2
<1>4. CASE Return
  <2>1. Same
    BY <1>4 DEF Return
  <2>2. \A i \in DOMAIN points' : points'[i].win \in alive'
    <3>1. CASE cb.then = "erase"
      <4>1. AfterUp(cb.arg) /\ cb.arg \in Nat \ {0} /\ points \in Seq(Point)
        BY <1>4, <3>1 DEF Return, TypeOK, CallbackInv
      <4>2. Len(points) \in Nat /\ (cb.arg > Len(points) \/ cb.arg \in 1 .. Len(points))
        BY <4>1
      <4>3. CASE cb.arg \in 1 .. Len(points)
        <5>1. points' = RemoveAt(points, cb.arg)
          <6>1. ~ (cb.arg > Len(points))
            BY <4>2, <4>3
          <6> QED
            BY <4>1, <6>1 DEF AfterUp
        <5>2. /\ Len(points') = Len(points) - 1
              /\ \A j \in 1 .. Len(points) - 1 :
                   points'[j] = points[IF j < cb.arg THEN j ELSE j + 1]
              /\ points' \in Seq(Point)
          BY <4>1, <4>3, <5>1, RemoveFacts
        <5>3. \A j \in DOMAIN points' : /\ j \in 1 .. Len(points) - 1
                                        /\ (IF j < cb.arg THEN j ELSE j + 1) \in DOMAIN points
          BY <4>1, <4>2, <4>3, <5>2
        <5> QED
          BY <2>1, <5>2, <5>3 DEF AliveOk, AliveInv
      <4>4. CASE cb.arg > Len(points)
        BY <2>1, <4>1, <4>4 DEF AfterUp, AliveOk, AliveInv
      <4> QED
        BY <4>2, <4>3, <4>4
    <3>2. CASE cb.then # "erase"
      <4>1. points' = points \/ points' = <<>>
        BY <1>4, <3>2 DEF Return, AfterLeave, AfterKey, AfterRepeat, AfterUnpoint, CancelFrom, TypeOK, CallbackInv
      <4> QED
        BY <2>1, <4>1 DEF AliveOk, AliveInv
    <3> QED
      BY <3>1, <3>2
  <2>3. over' # NoWindow => cursor'.entered
    <3>1. cursor' = cursor \/ cb.then = "unset"
      BY <1>4 DEF Return, AfterLeave, AfterKey, AfterRepeat, AfterUp, CancelFrom, TypeOK, CallbackInv
    <3> QED
      BY <2>1, <3>1 DEF AliveOk, AliveInv
  <2>4. cb'.then # "unset"
    <3>1. cb' = NoCb \/ \E w, arg : cb' = Call("cancel", w, "next", arg)
      BY <1>4 DEF Return, CancelFrom
    <3> QED
      BY <3>1 DEF NoCb, Call
  <2> QED
    BY <1>0, <2>1, <2>2, <2>3, <2>4
<1>5. CASE \E w \in Window : Destroy(w)
  <2>1. PICK w \in Window : Destroy(w)
    BY <1>5
  <2>2. /\ UNCHANGED <<wire, comp, bound, cb, cursor>> /\ alive' = alive \ {w}
        /\ focus' = IF focus = w THEN NoWindow ELSE focus
        /\ over' = IF over = w THEN NoWindow ELSE over
        /\ points' = Without(w)
    BY <2>1 DEF Destroy
  <2>3. NoWindow \notin alive
    BY SeatAssumption DEF TypeOK
  <2>4. /\ focus' = IF focus \in alive' THEN focus ELSE NoWindow
        /\ over' = IF over \in alive' THEN over ELSE NoWindow
    BY <2>2, <2>3 DEF AliveOk, AliveInv
  <2>5. SeatInv' /\ FocusInv' /\ OverInv' /\ {focus', over'} \subseteq alive' \cup {NoWindow}
    BY <2>2, <2>4, AliveStay
  <2>6. \A i \in DOMAIN points' : points'[i].win \in alive'
    <3>0. points \in Seq(Point)
      BY DEF TypeOK
    <3>1. PICK place \in [DOMAIN Without(w) -> DOMAIN points] :
            \A j \in DOMAIN Without(w) : Without(w)[j] = points[place[j]] /\ points[place[j]].win # w
      BY <3>0, WithoutFacts
    <3> QED
      BY <2>2, <3>1 DEF AliveOk, AliveInv
  <2> QED
    BY <2>2, <2>5, <2>6 DEF AliveOk, AliveInv
<1>6. CASE \E w \in Window, c \in Cursors : SetCursor(w, c)
  <2>1. PICK w \in Window, c \in Cursors : SetCursor(w, c)
    BY <1>6
  <2>2. Same /\ UNCHANGED <<points, cb>> /\ (cursor' = cursor \/ (over = w /\ ShowCursor(w)))
    BY <2>1 DEF SetCursor
  <2>3. over' # NoWindow => cursor'.entered
    BY ZenonT(30), <2>2 DEF ShowCursor, AliveOk, AliveInv, SeatInv, TypeOK
  <2> QED
    BY <1>0, <2>2, <2>3 DEF AliveOk, AliveInv
<1> QED
  BY <1>1, <1>2, <1>3, <1>4, <1>5, <1>6

LEMMA AliveCompositor ==
  ASSUME TypeOK, AliveOk, LeaveFirst = TRUE,
         \/ SendCaps \/ SendKeyboard \/ SendPointer \/ SendTouch
         \/ (\E k \in Key : ReleaseElsewhere(k)) \/ \E w \in Window : Forget(w)
  PROVE  AliveOk'
<1>0. /\ comp.caps \in {{}, comp.seat} /\ comp.known \subseteq Window /\ NoWindow \notin comp.known
      /\ comp.focus # NoWindow => "keyboard" \in comp.caps
      /\ comp.over # NoWindow => "pointer" \in comp.caps
      /\ \A f \in Finger : comp.touch[f] # NoWindow => "touch" \in comp.caps
      /\ comp.touch \in [Finger -> Window \cup {NoWindow}]
  BY SeatAssumption DEF AliveOk, SeatInv, TypeOK
<1>1. \A d : Has(d) => d \in comp.caps /\ d \in bound /\ Places("caps") = {}
  BY DEF Has, Places
<1>2. CASE SendCaps
  <2>1. PICK caps \in {{}, comp.seat} :
          /\ caps # comp.caps
          /\ \A d \in comp.caps \ caps : Unused(d)
          /\ comp' = [comp EXCEPT !.caps = caps, !.focus = NoWindow, !.over = NoWindow,
                                  !.touch = [f \in Finger |-> NoWindow]]
          /\ Send(Ev("caps", NoWindow, caps))
    BY <1>2 DEF SendCaps
  <2>2. PICK ev : ev = Ev("caps", NoWindow, caps)
    OBVIOUS
  <2>3. ev \in Event /\ ev.on = "caps" /\ Send(ev)
    BY <2>1, <2>2 DEF Ev, Event, TypeOK
  <2>4. /\ comp'.known = comp.known /\ comp'.caps = caps /\ comp'.seat = comp.seat
        /\ comp'.focus = NoWindow /\ comp'.over = NoWindow /\ \A f \in Finger : comp'.touch[f] = NoWindow
    BY <2>1 DEF TypeOK
  <2>5. comp.focus = NoWindow /\ comp.over = NoWindow
    <3>1. comp.caps \ caps = {} \/ caps = {}
      BY <1>0
    <3> QED
      BY <1>0, <2>1, <3>1 DEF Unused
  <2> QED
    BY <2>3, <2>4, <2>5, AlivePush
<1>3. CASE SendKeyboard
  <2>0. "keyboard" \in comp.caps /\ Places("caps") = {}
    BY <1>1, <1>3 DEF SendKeyboard
  <2>1. CASE \E w \in comp.known : /\ comp.focus = NoWindow /\ comp' = [comp EXCEPT !.focus = w]
                                   /\ Send(Ev("enter", w, 0))
    <3>1. PICK w \in comp.known : /\ comp.focus = NoWindow /\ comp' = [comp EXCEPT !.focus = w]
                                  /\ Send(Ev("enter", w, 0))
      BY <2>1
    <3>2. PICK ev : ev = Ev("enter", w, 0)
      OBVIOUS
    <3>3. ev \in Event /\ ev.on = "enter" /\ ev.win = w /\ Send(ev)
      BY <1>0, <3>1, <3>2 DEF Ev, Event
    <3>4. /\ comp'.focus = w /\ comp'.over = comp.over /\ comp'.known = comp.known
          /\ comp'.caps = comp.caps /\ comp'.seat = comp.seat /\ comp'.touch = comp.touch
      BY <3>1 DEF TypeOK
    <3> QED
      BY <1>0, <2>0, <3>1, <3>3, <3>4, AlivePush
  <2>2. CASE /\ comp.focus # NoWindow /\ comp' = [comp EXCEPT !.focus = NoWindow]
             /\ Send(Ev("leave", comp.focus, 0))
    <3>2. PICK ev : ev = Ev("leave", comp.focus, 0)
      OBVIOUS
    <3>3. ev \in Event /\ ev.on = "leave" /\ ev.win = comp.focus /\ Send(ev)
      BY <1>0, <2>2, <3>2 DEF Ev, Event, TypeOK
    <3>4. /\ comp'.focus = NoWindow /\ comp'.over = comp.over /\ comp'.known = comp.known
          /\ comp'.caps = comp.caps /\ comp'.seat = comp.seat /\ comp'.touch = comp.touch
      BY <2>2 DEF TypeOK
    <3> QED
      BY <1>0, <2>0, <3>3, <3>4, AlivePush
  <2>3. CASE \/ \E k \in Key :
                  /\ comp' = [comp EXCEPT !.keys = IF k \notin comp.keys THEN @ \cup {k} ELSE @ \ {k}]
                  /\ Send(Ev("key", NoWindow, <<k, k \notin comp.keys>>))
             \/ \E r \in Rates : UNCHANGED comp /\ Send(Ev("rate", NoWindow, r))
    <3>1. \E ev \in Event : ev.on \in {"key", "rate"} /\ Send(ev)
      <4>1. /\ \A k \in Key : Ev("key", NoWindow, <<k, k \notin comp.keys>>) \in Event
            /\ \A r \in Rates : Ev("rate", NoWindow, r) \in Event
        BY DEF Ev, Event
      <4>2. \A win, arg : Ev("key", win, arg).on = "key" /\ Ev("rate", win, arg).on = "rate"
        BY DEF Ev
      <4> QED
        BY <2>3, <4>1, <4>2
    <3>2. PICK ev \in Event : ev.on \in {"key", "rate"} /\ Send(ev)
      BY <3>1
    <3>4. /\ comp'.focus = comp.focus /\ comp'.over = comp.over /\ comp'.known = comp.known
          /\ comp'.caps = comp.caps /\ comp'.seat = comp.seat /\ comp'.touch = comp.touch
      BY <2>3 DEF TypeOK
    <3> QED
      BY <1>0, <2>0, <3>2, <3>4, AlivePush
  <2> QED
    BY <1>3, <2>1, <2>2, <2>3 DEF SendKeyboard
<1>4. CASE SendPointer
  <2>0. "pointer" \in comp.caps /\ "pointer" \in bound /\ Places("caps") = {}
    BY <1>1, <1>4 DEF SendPointer
  <2>1. CASE \E w \in comp.known : /\ comp.over = NoWindow /\ comp' = [comp EXCEPT !.over = w]
                                   /\ Send(Ev("point", w, 0))
    <3>1. PICK w \in comp.known : /\ comp.over = NoWindow /\ comp' = [comp EXCEPT !.over = w]
                                  /\ Send(Ev("point", w, 0))
      BY <2>1
    <3>2. PICK ev : ev = Ev("point", w, 0)
      OBVIOUS
    <3>3. ev \in Event /\ ev.on = "point" /\ ev.win = w /\ Send(ev)
      BY <1>0, <3>1, <3>2 DEF Ev, Event
    <3>4. /\ comp'.over = w /\ comp'.focus = comp.focus /\ comp'.known = comp.known
          /\ comp'.caps = comp.caps /\ comp'.seat = comp.seat /\ comp'.touch = comp.touch
      BY <3>1 DEF TypeOK
    <3> QED
      BY <1>0, <2>0, <3>1, <3>3, <3>4, AlivePush
  <2>2. CASE /\ comp.over # NoWindow /\ comp' = [comp EXCEPT !.over = NoWindow]
             /\ Send(Ev("unpoint", comp.over, 0))
    <3>2. PICK ev : ev = Ev("unpoint", comp.over, 0)
      OBVIOUS
    <3>3. ev \in Event /\ ev.on = "unpoint" /\ ev.win = comp.over /\ Send(ev)
      BY <1>0, <2>2, <3>2 DEF Ev, Event, TypeOK
    <3>4. /\ comp'.over = NoWindow /\ comp'.focus = comp.focus /\ comp'.known = comp.known
          /\ comp'.caps = comp.caps /\ comp'.seat = comp.seat /\ comp'.touch = comp.touch
      BY <2>2 DEF TypeOK
    <3> QED
      BY <1>0, <2>0, <3>3, <3>4, AlivePush
  <2>3. CASE \/ UNCHANGED comp /\ \E on \in {"motion", "relative"} : Send(Ev(on, NoWindow, 0))
             \/ comp' = [comp EXCEPT !.button = ~@] /\ Send(Ev("button", NoWindow, ~comp.button))
             \/ UNCHANGED comp /\ \E w \in Window : Send(Ev("lock", w, lock[w] = "asked"))
    <3>1. /\ \A on \in {"motion", "relative"} : Ev(on, NoWindow, 0) \in Event
          /\ \A w \in Window : Ev("lock", w, lock[w] = "asked") \in Event
          /\ Ev("button", NoWindow, ~comp.button) \in Event
      BY DEF Ev, Event, TypeOK
    <3>2. \A on, win, arg : Ev(on, win, arg).on = on
      BY DEF Ev
    <3>3. PICK ev \in Event : ev.on \in {"motion", "relative", "button", "lock"} /\ Send(ev)
      BY <2>3, <3>1, <3>2
    <3>4. /\ comp'.focus = comp.focus /\ comp'.over = comp.over /\ comp'.known = comp.known
          /\ comp'.caps = comp.caps /\ comp'.seat = comp.seat /\ comp'.touch = comp.touch
      BY <2>3 DEF TypeOK
    <3> QED
      BY <1>0, <2>0, <3>3, <3>4, AlivePush
  <2> QED
    BY <1>4, <2>1, <2>2, <2>3 DEF SendPointer
<1>5. CASE SendTouch
  <2>0. "touch" \in comp.caps /\ Places("caps") = {}
    BY <1>1, <1>5 DEF SendTouch
  <2>1. /\ \E ev \in Event : ev.on \in {"down", "update", "up", "cancel"} /\ Send(ev)
        /\ comp' = comp \/ \E touch : comp' = [comp EXCEPT !.touch = touch]
    <3>1. /\ \A w \in comp.known, f \in Finger : Ev("down", w, f) \in Event
          /\ \A f \in Finger : Ev("update", NoWindow, f) \in Event /\ Ev("up", NoWindow, f) \in Event
          /\ Ev("cancel", NoWindow, 0) \in Event
      BY <1>0 DEF Ev, Event
    <3>2. \A on, win, arg : Ev(on, win, arg).on = on
      BY DEF Ev
    <3> QED
      BY <1>5, <3>1, <3>2 DEF SendTouch
  <2>2. PICK ev \in Event : ev.on \in {"down", "update", "up", "cancel"} /\ Send(ev)
    BY <2>1
  <2>3. /\ comp'.focus = comp.focus /\ comp'.over = comp.over /\ comp'.known = comp.known
        /\ comp'.caps = comp.caps /\ comp'.seat = comp.seat
    BY <2>1 DEF TypeOK
  <2> QED
    BY <1>0, <2>0, <2>2, <2>3, AlivePush
<1>6. CASE \E k \in Key : ReleaseElsewhere(k)
  <2>1. /\ comp'.focus = comp.focus /\ comp'.over = comp.over /\ comp'.known = comp.known
        /\ comp'.caps = comp.caps /\ comp'.seat = comp.seat /\ comp'.touch = comp.touch
        /\ UNCHANGED <<alive, bound, focus, over, cursor, points, cb, wire>>
    BY <1>6 DEF ReleaseElsewhere, TypeOK, winVars, keyVars, mouseVars
  <2> QED
    BY ZenonT(30), <2>1 DEF AliveOk, AliveInv, SeatInv, FocusInv, OverInv, FocusStory, PointerStory, Places,
                Histories, IfAlive
<1>7. CASE \E w \in Window : Forget(w)
  <2>1. PICK w \in Window : Forget(w)
    BY <1>7
  <2>2. /\ UNCHANGED <<alive, bound, focus, over, cursor, points, cb, wire>>
        /\ comp'.focus = IF comp.focus = w THEN NoWindow ELSE comp.focus
        /\ comp'.over = IF comp.over = w THEN NoWindow ELSE comp.over
        /\ \A f \in Finger : comp'.touch[f] = IF comp.touch[f] = w THEN NoWindow ELSE comp.touch[f]
        /\ comp'.known = comp.known \ {w} /\ comp'.caps = comp.caps /\ comp'.seat = comp.seat
        /\ w \notin alive
    BY <2>1 DEF Forget, TypeOK, winVars, keyVars, mouseVars
  <2>0. \A name : Places(name)' = Places(name)
    BY <2>2 DEF Places
  <2>3. ASSUME NEW h, FocusStory(h) PROVE FocusStory(h)'
    <3>1. Story(wire, h, Places("enter"), Places("leave"),
                IF comp.focus = w THEN NoWindow ELSE comp.focus, comp.known \ {w})
      BY <2>3, StoryForget DEF FocusStory
    <3> QED
      BY <2>0, <2>2, <3>1 DEF FocusStory
  <2>4. ASSUME NEW h, PointerStory(h) PROVE PointerStory(h)'
    <3>1. Story(wire, h, Places("point"), Places("unpoint"),
                IF comp.over = w THEN NoWindow ELSE comp.over, comp.known \ {w})
      BY <2>4, StoryForget DEF PointerStory
    <3> QED
      BY <2>0, <2>2, <3>1 DEF PointerStory
  <2>5. Histories' = Histories /\ \A v : IfAlive(v)' = IfAlive(v)
    BY <2>2 DEF Histories, IfAlive
  <2>6. FocusInv' /\ OverInv'
    BY <2>2, <2>3, <2>4, <2>5 DEF AliveOk, FocusInv, OverInv
  <2>7. SeatInv'
    BY <2>2 DEF AliveOk, SeatInv, Places
  <2> QED
    BY <2>2, <2>6, <2>7 DEF AliveOk, AliveInv
<1> QED
  BY <1>2, <1>3, <1>4, <1>5, <1>6, <1>7

LEMMA AliveInit == Init => AliveOk
<1> SUFFICES ASSUME Init PROVE AliveOk
  OBVIOUS
<1>1. /\ wire = <<>> /\ comp.focus = NoWindow /\ comp.over = NoWindow /\ comp.caps = {}
      /\ comp.known = Window /\ \A f \in Finger : comp.touch[f] = NoWindow
      /\ focus = NoWindow /\ over = NoWindow /\ points = <<>> /\ alive = Window /\ cb = NoCb
  BY DEF Init
<1>2. PICK h : h = [i \in 1 .. 1 |-> NoWindow]
  OBVIOUS
<1>3. h \in Histories /\ h[1] = NoWindow /\ IfAlive(h[1]) = NoWindow
  BY <1>1, <1>2 DEF Histories, IfAlive
<1>4. FocusStory(h) /\ PointerStory(h)
  <2>1. Len(wire) = 0 /\ 0 + 1 = 1 /\ \A i \in 1 .. 1 : i = 1
    BY <1>1
  <2>2. NoWindow \notin comp.known
    BY <1>1, SeatAssumption
  <2> QED
    BY <1>1, <1>2, <1>3, <2>1, <2>2 DEF FocusStory, PointerStory, Story
<1>5. FocusInv /\ OverInv
  BY <1>1, <1>3, <1>4 DEF FocusInv, OverInv
<1>6. SeatInv
  BY <1>1 DEF SeatInv, Places
<1> QED
  BY <1>1, <1>5, <1>6 DEF AliveOk, AliveInv, NoCb, Call

LEMMA AliveStep == TypeOK /\ AliveOk /\ LeaveFirst = TRUE /\ [Next]_vars => AliveOk'
  BY AliveHandlers, AliveRest, AliveCompositor DEF Next

LEMMA AliveHolds == ASSUME TypeOK, AliveOk PROVE FocusAlive
<1>1. ASSUME Idle, wire # <<>>
      PROVE  LET ev == Head(wire)
             IN /\ ev.on = "enter" => focus = NoWindow
                /\ ev.on = "leave" /\ ev.win \in alive => focus = ev.win
                /\ ev.on = "point" => over = NoWindow
                /\ ev.on = "unpoint" /\ ev.win \in alive => over = ev.win
  <2>1. PICK h \in Histories : FocusStory(h) /\ focus = IfAlive(h[1])
    BY DEF AliveOk, FocusInv
  <2>2. PICK g \in Histories : PointerStory(g) /\ over = IfAlive(g[1])
    BY DEF AliveOk, OverInv
  <2>3. NoWindow \notin alive /\ alive \subseteq comp.known
    BY SeatAssumption DEF TypeOK, AliveOk, SeatInv
  <2> QED
    BY <1>1, <2>1, <2>2, <2>3, HeadStory DEF IfAlive
<1> QED
  BY <1>1 DEF FocusAlive, AliveOk, AliveInv

\* The display never points to a destroyed window, and an event finds the focus it was
\* sent for, when the compositor leaves a device's focus before it withdraws the
\* device: FocusAlive.
THEOREM FocusesAlive == ASSUME LeaveFirst = TRUE PROVE Spec => []FocusAlive
<1>1. Init => TypeOK /\ AliveOk
  BY TypeInit, AliveInit
<1>2. TypeOK /\ AliveOk /\ [Next]_vars => TypeOK' /\ AliveOk'
  BY TypeStep, AliveStep
<1>3. TypeOK /\ AliveOk => FocusAlive
  BY AliveHolds
<1> QED
  BY <1>1, <1>2, <1>3, PTL DEF Spec

-----------------------------------------------------------------------------
(* Cursor *)

CursorInv ==
  /\ CursorKept
  /\ \A w \in alive : /\ asked[w] # "image" => native[w] = asked[w] /\ image[w] = FALSE
                      /\ asked[w] = "image" => image[w] = TRUE

LEMMA CursorInit == Init => CursorInv
  BY DEF Init, CursorInv, CursorKept, NoCb, Call

LEMMA CursorSame ==
  ASSUME CursorInv, UNCHANGED <<native, image, asked, cursor>>, alive' \subseteq alive,
         over' \in {over, NoWindow}
  PROVE  CursorInv'
  BY DEF CursorInv, CursorKept

LEMMA CursorElsewhere ==
  ASSUME CursorInv,
         \/ SeatCaps \/ KeyboardEnter \/ KeyboardLeave \/ KeyboardKey \/ KeyRepeat
         \/ RepeatInfo \/ PointerLeave \/ PointerMotion \/ RelativeMotion
         \/ PointerButton \/ PointerLocked \/ DeadSurface
         \/ TouchDown \/ TouchMotion \/ TouchUp \/ TouchCancel
         \/ (\E w \in Window : LockPointer(w) \/ Forget(w))
         \/ SendCaps \/ SendKeyboard \/ SendPointer \/ SendTouch
         \/ (\E k \in Key : ReleaseElsewhere(k))
         \/ UNCHANGED vars
  PROVE  CursorInv'
<1> USE DEF winVars, keyVars, mouseVars
<1>1. CASE \/ SeatCaps \/ KeyboardEnter \/ KeyboardLeave \/ KeyboardKey \/ KeyRepeat
           \/ RepeatInfo \/ PointerLeave \/ PointerMotion \/ RelativeMotion
           \/ PointerButton \/ PointerLocked \/ DeadSurface
  <2>1. UNCHANGED <<native, image, asked, cursor, alive>> /\ over' \in {over, NoWindow}
    BY <1>1 DEF SeatCaps, KeyboardEnter, KeyboardLeave, KeyboardKey, KeyRepeat, RepeatInfo, PointerLeave,
                PointerMotion, RelativeMotion, PointerButton, PointerLocked, DeadSurface
  <2> QED
    BY <2>1, CursorSame
<1>2. CASE \/ TouchDown \/ TouchMotion \/ TouchUp \/ TouchCancel
           \/ (\E w \in Window : LockPointer(w) \/ Forget(w))
           \/ (\E k \in Key : ReleaseElsewhere(k))
           \/ UNCHANGED vars
  <2>1. UNCHANGED <<native, image, asked, cursor, alive, over>>
    BY <1>2 DEF TouchDown, TouchMotion, TouchUp, TouchCancel, LockPointer, Forget, ReleaseElsewhere, vars
  <2> QED
    BY <2>1, CursorSame
<1>3. CASE SendCaps \/ SendKeyboard \/ SendPointer \/ SendTouch
  <2>1. \E ev : Send(ev)
    BY <1>3 DEF SendCaps, SendKeyboard, SendPointer, SendTouch
  <2>2. UNCHANGED <<native, image, asked, cursor, alive, over>>
    BY <2>1 DEF Send
  <2> QED
    BY <2>2, CursorSame
<1> QED
  BY <1>1, <1>2, <1>3

LEMMA CursorChanges ==
  ASSUME TypeOK, AliveOk, CursorInv,
         \/ PointerEnter \/ CursorTime \/ CursorFrame \/ Return
         \/ (\E w \in Window : Destroy(w))
         \/ (\E w \in Window, c \in Cursors : SetCursor(w, c))
  PROVE  CursorInv'
<1> USE DEF winVars, keyVars, mouseVars
<1>1. CASE PointerEnter
  <2>1. On("point") /\ over' = Head(wire).win /\ UNCHANGED winVars /\ ShowCursor(Head(wire).win)
    BY <1>1 DEF PointerEnter
  <2>2. Head(wire).win \in alive /\ Head(wire).win \in Window
    BY <2>1, OnEvent, EventFacts DEF Surfaced
  <2>3. "pointer" \in bound
    <3>1. 1 \in Places("point")
      BY <2>1, OnEvent, PopFacts DEF Places
    <3> QED
      BY <3>1 DEF AliveOk, SeatInv
  <2>4. /\ cursor'.active = "animated" => cursor'.armed
        /\ cursor'.entered
        /\ cursor'.shown = IF native[over'] # "none" THEN native[over']
                           ELSE IF image[over'] THEN "image" ELSE "none"
    BY <2>1, <2>2, <2>3, CursorShown DEF TypeOK
  <2>5. over' \in alive /\ alive' = alive /\ UNCHANGED <<native, image, asked>>
    BY <2>1, <2>2
  <2>6. \/ cursor'.shown = asked'[over']
        \/ asked'[over'] = "image" /\ cursor'.shown = native'[over']
    <3>1. CASE asked[over'] = "image"
      <4>1. image[over'] = TRUE
        BY <2>5, <3>1 DEF CursorInv
      <4> QED
        BY <2>4, <2>5, <3>1, <4>1
    <3>2. CASE asked[over'] # "image"
      <4>1. image[over'] = FALSE /\ native[over'] = asked[over']
        BY <2>5, <3>2 DEF CursorInv
      <4> QED
        BY <2>4, <2>5, <3>2, <4>1
    <3> QED
      BY <3>1, <3>2
  <2> QED
    BY <2>4, <2>5, <2>6 DEF CursorInv, CursorKept
<1>2. CASE CursorTime \/ CursorFrame
  <2>1. UNCHANGED <<winVars, over>>
    BY <1>2 DEF CursorTime, CursorFrame
  <2>2. cursor'.shown = cursor.shown /\ cursor'.active = cursor.active
        /\ cursor'.entered = cursor.entered
        /\ (over # NoWindow /\ cursor'.active = "animated" => cursor'.armed \/ (cursor'.redraw /\ cursor'.frame))
    <3>1. PICK again \in BOOLEAN : again = (cursor.active = "animated")
      OBVIOUS
    <3>2. \/ cursor.frame /\ cursor' = [cursor EXCEPT !.armed = FALSE, !.redraw = TRUE]
          \/ ~cursor.redraw /\ cursor' = [cursor EXCEPT !.frame = FALSE]
          \/ cursor.active = "none" /\ cursor' = [cursor EXCEPT !.armed = FALSE]
          \/ cursor' = [cursor EXCEPT !.frame = TRUE, !.redraw = FALSE, !.armed = again]
      BY <1>2, <3>1 DEF CursorTime, CursorFrame, Render
    <3>3. cursor.active = "animated" => again = TRUE
      BY <3>1
    <3>4. CASE cursor.frame /\ cursor' = [cursor EXCEPT !.armed = FALSE, !.redraw = TRUE]
      BY <3>4 DEF TypeOK
    <3>5. CASE ~cursor.redraw /\ cursor' = [cursor EXCEPT !.frame = FALSE]
      BY <3>5 DEF TypeOK, CursorInv, CursorKept
    <3>6. CASE cursor.active = "none" /\ cursor' = [cursor EXCEPT !.armed = FALSE]
      BY <3>6 DEF TypeOK
    <3>7. CASE cursor' = [cursor EXCEPT !.frame = TRUE, !.redraw = FALSE, !.armed = again]
      BY <3>3, <3>7 DEF TypeOK
    <3> QED
      BY <3>2, <3>4, <3>5, <3>6, <3>7
  <2>3. cursor.entered
    BY <1>2 DEF CursorTime, CursorFrame, CursorInv, CursorKept
  <2> QED
    BY <2>1, <2>2, <2>3 DEF CursorInv, CursorKept
<1>3. CASE Return
  <2>1. UNCHANGED <<winVars, over>>
    BY <1>3 DEF Return
  <2>2. \/ cursor' = cursor
        \/ over = NoWindow /\ ~cursor'.armed /\ ~cursor'.frame /\ ~cursor'.redraw
    BY <1>3 DEF Return, AfterLeave, AfterUnpoint, AfterKey, AfterRepeat, AfterUp, CancelFrom, TypeOK,
                CallbackInv, AliveOk, AliveInv
  <2> QED
    BY <2>1, <2>2 DEF CursorInv, CursorKept
<1>4. CASE \E w \in Window : Destroy(w)
  <2>1. PICK w \in Window : Destroy(w)
    BY <1>4
  <2>2. /\ alive' = alive \ {w} /\ cursor' = cursor
        /\ over' = IF over = w THEN NoWindow ELSE over
        /\ native' = [native EXCEPT ![w] = "none"]
        /\ image' = [image EXCEPT ![w] = FALSE]
        /\ asked' = [asked EXCEPT ![w] = "none"]
    BY <2>1 DEF Destroy, Cleared
  <2>3. over' # NoWindow => over' = over /\ over # w /\ over \in alive
    BY <2>2 DEF AliveOk, AliveInv
  <2>4. \A v \in alive' : v # w /\ v \in alive /\ v \in Window
    BY <2>2 DEF TypeOK
  <2>5. \A v \in alive' : asked'[v] = asked[v] /\ native'[v] = native[v] /\ image'[v] = image[v]
    BY <2>2, <2>4 DEF TypeOK
  <2> QED
    BY <2>2, <2>3, <2>4, <2>5 DEF CursorInv, CursorKept
<1>5. CASE \E w \in Window, c \in Cursors : SetCursor(w, c)
  <2>1. PICK w \in Window, c \in Cursors : SetCursor(w, c)
    BY <1>5
  <2>2. /\ w \in alive /\ alive' = alive /\ over' = over
        /\ asked' = [asked EXCEPT ![w] = c]
        /\ native' = [native EXCEPT ![w] = IF c = "image" THEN @ ELSE c]
        /\ image' = [image EXCEPT ![w] = c = "image"]
        /\ IF over = w THEN ShowCursor(w) ELSE UNCHANGED cursor
    BY <2>1 DEF SetCursor
  <2>3. c \in Images /\ NoWindow \notin alive /\ alive \subseteq Window
    BY CursorAssumption, SeatAssumption DEF TypeOK
  <2>4. /\ asked'[w] = c /\ (c # "image" => native'[w] = c /\ image'[w] = FALSE)
        /\ (c = "image" => image'[w] = TRUE)
        /\ \A v \in Window \ {w} : asked'[v] = asked[v] /\ native'[v] = native[v] /\ image'[v] = image[v]
    <3>1. /\ DOMAIN asked = Window /\ DOMAIN native = Window /\ DOMAIN image = Window /\ w \in Window
      BY DEF TypeOK
    <3>2. asked'[w] = c /\ \A v \in Window \ {w} : asked'[v] = asked[v]
      BY <2>2, <3>1
    <3>3. native'[w] = (IF c = "image" THEN native[w] ELSE c) /\ \A v \in Window \ {w} : native'[v] = native[v]
      BY <2>2, <3>1
    <3>4. image'[w] = (c = "image") /\ \A v \in Window \ {w} : image'[v] = image[v]
      BY <2>2, <3>1
    <3> QED
      BY <3>2, <3>3, <3>4
  <2>5. native' \in [Window -> Images] /\ image' \in [Window -> BOOLEAN]
    BY <2>2, <2>3 DEF TypeOK
  <2>6. \A v \in alive' : /\ asked'[v] # "image" => native'[v] = asked'[v] /\ image'[v] = FALSE
                          /\ asked'[v] = "image" => image'[v] = TRUE
    <3>1. ASSUME NEW v \in alive', v # w
          PROVE  /\ asked'[v] # "image" => native'[v] = asked'[v] /\ image'[v] = FALSE
                 /\ asked'[v] = "image" => image'[v] = TRUE
      BY <2>2, <2>3, <2>4, <3>1 DEF CursorInv
    <3>2. /\ asked'[w] # "image" => native'[w] = asked'[w] /\ image'[w] = FALSE
          /\ asked'[w] = "image" => image'[w] = TRUE
      BY <2>4
    <3> QED
      BY <3>1, <3>2
  <2>7. CASE over = w
    <3>1. "pointer" \in bound
      BY <2>2, <2>3, <2>7 DEF AliveOk, SeatInv
    <3>2. /\ cursor'.active = "animated" => cursor'.armed
          /\ cursor'.entered
          /\ cursor'.shown = IF native'[w] # "none" THEN native'[w]
                             ELSE IF image'[w] THEN "image" ELSE "none"
      BY <2>2, <2>5, <2>7, <3>1, CursorShown
    <3>3. over' = w /\ w \in alive'
      BY <2>2, <2>7
    <3>4. \/ cursor'.shown = asked'[over']
          \/ asked'[over'] = "image" /\ cursor'.shown = native'[over']
      BY <2>6, <3>2, <3>3
    <3> QED
      BY <2>6, <3>2, <3>3, <3>4 DEF CursorInv, CursorKept
  <2>8. CASE over # w
    <3>1. over # NoWindow => over \in Window \ {w}
      BY <2>3, <2>8 DEF AliveOk, AliveInv
    <3> QED
      BY <2>2, <2>4, <2>6, <2>8, <3>1 DEF CursorInv, CursorKept
  <2> QED
    BY <2>7, <2>8
<1> QED
  BY <1>1, <1>2, <1>3, <1>4, <1>5

\* Over a window the pointer shows the cursor the application asked for last, or a native
\* one in the place of an image; an animation does not stop while the pointer is there, and
\* once it has left neither its timer nor its frame callback is left, whichever windows are
\* destroyed and cursors set in whichever callback: CursorKept.
THEOREM CursorsKept == ASSUME LeaveFirst = TRUE PROVE Spec => []CursorKept
<1>1. Init => TypeOK /\ AliveOk /\ CursorInv
  BY TypeInit, AliveInit, CursorInit
<1>2. TypeOK /\ AliveOk /\ [Next]_vars => TypeOK' /\ AliveOk'
  BY TypeStep, AliveStep
<1>3. TypeOK /\ AliveOk /\ CursorInv /\ [Next]_vars => CursorInv'
  BY CursorElsewhere, CursorChanges DEF Next
<1>4. CursorInv => CursorKept
  BY DEF CursorInv
<1> QED
  BY <1>1, <1>2, <1>3, <1>4, PTL DEF Spec

-----------------------------------------------------------------------------
(* Key repeat *)

\* k is held, or the event by which the client will know better is on its way
\* behind place i; h is the story of the focus.
Follows(h, i, k) ==
  \/ k \in comp.keys
  \/ h[i + 1] \notin comp.known
  \/ \E j \in DOMAIN wire : /\ j > i
                            /\ wire[j].on = "leave"
                               \/ (wire[j].on = "key" /\ wire[j].arg = <<k, FALSE>>)

\* Keys are held under a focus only, and the timer runs for one of them.
TimerInv ==
  /\ repeat.armed \/ cb.then = "rearm" =>
       /\ repeat.timer
       /\ \/ repeat.key \in keys
          \/ cb.then = "leave"
          \/ cb.then = "released" /\ cb.arg = repeat.key
  /\ focus = NoWindow => keys = {} \/ cb.then = "leave"
  /\ cb.then = "pressed" => cb.arg \in keys

KeyStory(h) ==
  /\ FocusStory(h) /\ focus = IfAlive(h[1])
  /\ cb.then # "leave" => \A k \in keys : Follows(h, 0, k)
  /\ \A i \in DOMAIN wire : \A k \in Key :
       wire[i].on = "key" /\ wire[i].arg = <<k, TRUE>> => Follows(h, i, k)

RepeatInv == TimerInv /\ \E h \in Histories : KeyStory(h)

LEMMA FollowsPop ==
  ASSUME TypeOK, NEW h, wire # <<>>, wire' = Tail(wire), comp' = comp,
         NEW g, \A i \in 1 .. Len(wire) : g[i] = h[i + 1], NEW k
  PROVE  /\ \A i \in DOMAIN wire' : Follows(h, i + 1, k) => Follows(g, i, k)'
         /\ /\ h[2] = h[1] /\ Head(wire).on # "leave"
            /\ Head(wire).on = "key" => Head(wire).arg # <<k, FALSE>>
            /\ Follows(h, 0, k)
            => Follows(g, 0, k)'
         /\ Follows(h, 1, k) => Follows(g, 0, k)'
<1> DEFINE Ends(e) == e.on = "leave" \/ (e.on = "key" /\ e.arg = <<k, FALSE>>)
<1>1. /\ Len(wire) \in Nat \ {0} /\ DOMAIN wire = 1 .. Len(wire) /\ Head(wire) = wire[1]
      /\ DOMAIN wire' = 1 .. Len(wire) - 1
      /\ \A i \in DOMAIN wire' : i + 1 \in DOMAIN wire /\ wire'[i] = wire[i + 1]
  BY PopFacts
<1>2. ASSUME NEW i \in Nat, NEW j \in DOMAIN wire, j > i + 1, Ends(wire[j])
      PROVE  \E l \in DOMAIN wire' : l > i /\ Ends(wire'[l])
  <2>1. j - 1 \in DOMAIN wire' /\ j - 1 > i /\ j - 1 + 1 = j
    BY <1>1, <1>2
  <2> QED
    BY ZenonT(30), <1>1, <1>2, <2>1
<1>3. ASSUME NEW i \in Nat, i < Len(wire), Follows(h, i + 1, k)
      PROVE  Follows(g, i, k)'
  <2>1. i + 1 \in 1 .. Len(wire) /\ g[i + 1] = h[i + 1 + 1]
    BY <1>1, <1>3
  <2> HIDE DEF Ends
  <2>2. \/ k \in comp.keys
        \/ h[i + 1 + 1] \notin comp.known
        \/ \E j \in DOMAIN wire : j > i + 1 /\ Ends(wire[j])
    BY <1>3 DEF Follows, Ends
  <2>3. \/ k \in comp.keys
        \/ g[i + 1] \notin comp.known
        \/ \E l \in DOMAIN wire' : l > i /\ Ends(wire'[l])
    BY <1>2, <2>1, <2>2
  <2> QED
    BY <2>3 DEF Follows, Ends
<1>4. ASSUME h[2] = h[1], ~Ends(Head(wire)), Follows(h, 0, k)
      PROVE  Follows(h, 1, k)
  <2>1. ~Ends(wire[1])
    BY <1>1, <1>4
  <2> HIDE DEF Ends
  <2>5. \A j \in DOMAIN wire : j > 0 /\ Ends(wire[j]) => j > 1
    BY <1>1, <2>1
  <2>2. \/ k \in comp.keys
        \/ h[0 + 1] \notin comp.known
        \/ \E j \in DOMAIN wire : j > 0 /\ Ends(wire[j])
    BY <1>4 DEF Follows, Ends
  <2>3. 0 + 1 = 1 /\ 1 + 1 = 2
    OBVIOUS
  <2>4. \/ k \in comp.keys
        \/ h[1 + 1] \notin comp.known
        \/ \E j \in DOMAIN wire : j > 1 /\ Ends(wire[j])
    BY <1>4, <2>2, <2>3, <2>5
  <2> QED
    BY <2>4 DEF Follows, Ends
<1>5. 0 < Len(wire) /\ 0 + 1 = 1 /\ \A i \in DOMAIN wire' : i \in Nat /\ i < Len(wire)
  BY <1>1
<1> QED
  BY <1>3, <1>4, <1>5

LEMMA KeyPop ==
  ASSUME TypeOK, AliveOk, NEW name, On(name), comp' = comp, alive' = alive,
         focus' = IF name = "enter" THEN Head(wire).win ELSE IF name = "leave" THEN NoWindow ELSE focus,
         RepeatInv,
         \/ name = "leave" /\ cb'.then = "leave"
         \/ name = "key" /\ IF focus = NoWindow THEN keys' = keys
                            ELSE keys' = IF Head(wire).arg[2] THEN keys \cup {Head(wire).arg[1]}
                                                              ELSE keys \ {Head(wire).arg[1]}
         \/ name \notin {"leave", "key"} /\ keys' = keys
  PROVE  \E g \in Histories' : KeyStory(g)'
<1>1. /\ wire # <<>> /\ Head(wire) \in Event /\ Head(wire).on = name /\ wire' = Tail(wire)
      /\ cb = NoCb
      /\ name \in Surfaced => Head(wire).win \in alive
  BY OnEvent DEF Idle
<1>2. NoWindow \notin alive /\ alive \subseteq comp.known
  BY SeatAssumption DEF TypeOK, AliveOk, SeatInv
<1>3. PICK h \in Histories : KeyStory(h)
  BY DEF RepeatInv
<1>4. PICK g \in Histories' : FocusStory(g)' /\ \A i \in 1 .. Len(wire) : g[i] = h[i + 1]
  BY <1>1, <1>3, FocusPop DEF KeyStory
<1>5. 1 \in DOMAIN wire /\ 1 \in 1 .. Len(wire) /\ Head(wire) = wire[1] /\ 1 + 1 = 2
      /\ \A i \in DOMAIN wire' : i + 1 \in DOMAIN wire /\ wire'[i] = wire[i + 1]
  BY <1>1, PopFacts
<1>6. focus' = IfAlive(g[1])'
  <2>1. g[1] = h[2]
    BY <1>4, <1>5
  <2>2. focus' = IfAlive(h[2])
    BY <1>1, <1>2, <1>3, HeadStory DEF KeyStory, IfAlive, Surfaced
  <2> QED
    BY <2>1, <2>2 DEF IfAlive
<1>7. cb.then # "leave" /\ (focus = NoWindow => keys = {})
  BY <1>1 DEF NoCb, Call, RepeatInv, TimerInv
<1>8. ASSUME cb'.then # "leave", NEW k \in keys' PROVE Follows(g, 0, k)'
  <2>1. CASE name = "key" /\ focus # NoWindow
    <3>1. PICK l, down : l = Head(wire).arg[1] /\ down = Head(wire).arg[2]
      OBVIOUS
    <3>2. l \in Key /\ down \in BOOLEAN /\ Head(wire).arg = <<l, down>>
      BY <1>1, <2>1, <3>1, EventFacts
    <3>3. h[2] = h[1]
      BY <1>1, <1>3, <2>1, HeadStory DEF KeyStory
    <3>4. CASE k \in keys /\ ~(k = l /\ ~down)
      <4>1. Head(wire).arg # <<k, FALSE>>
        <5>1. SUFFICES ASSUME Head(wire).arg = <<k, FALSE>> PROVE FALSE
          OBVIOUS
        <5>3. <<k, FALSE>>[1] = k
          OBVIOUS
        <5>4. <<k, FALSE>>[2] = FALSE
          OBVIOUS
        <5>2. l = k /\ down = FALSE
          BY <3>1, <5>1, <5>3, <5>4, Zenon
        <5> QED
          BY <3>4, <5>2
      <4>2. Follows(h, 0, k)
        BY <1>3, <1>7, <3>4 DEF KeyStory
      <4> QED
        BY <1>1, <1>4, <2>1, <3>3, <4>1, <4>2, FollowsPop
    <3>5. CASE k = l /\ down
      <4>1. Follows(h, 1, k)
        BY <1>1, <1>3, <1>5, <2>1, <3>2, <3>5 DEF KeyStory
      <4> QED
        BY <1>1, <1>4, <4>1, FollowsPop
    <3> QED
      BY <1>8, <2>1, <3>1, <3>2, <3>4, <3>5
  <2>2. CASE name = "key" /\ focus = NoWindow
    BY <1>7, <1>8, <2>2
  <2>3. CASE name = "enter"
    <3>1. focus = NoWindow
      BY <1>1, <1>2, <1>3, <2>3, HeadStory DEF KeyStory, IfAlive
    <3> QED
      BY <1>7, <1>8, <2>3, <3>1
  <2>4. CASE name \notin {"key", "enter", "leave"}
    <3>1. h[2] = h[1]
      BY <1>1, <1>3, <2>4, HeadStory DEF KeyStory
    <3> QED
      BY <1>1, <1>3, <1>4, <1>7, <1>8, <2>4, <3>1, FollowsPop DEF KeyStory
  <2> QED
    BY <1>8, <2>1, <2>2, <2>3, <2>4
<1>9. ASSUME NEW i \in DOMAIN wire', NEW k \in Key, wire'[i].on = "key", wire'[i].arg = <<k, TRUE>>
      PROVE  Follows(g, i, k)'
  <2>1. Follows(h, i + 1, k)
    BY <1>3, <1>5, <1>9 DEF KeyStory
  <2> QED
    BY <1>1, <1>4, <2>1, FollowsPop
<1> QED
  BY <1>4, <1>6, <1>8, <1>9 DEF KeyStory

LEMMA KeyPush ==
  ASSUME TypeOK, RepeatInv, NEW ev \in Event, Send(ev), comp'.known = comp.known,
         \/ ev.on = "enter" /\ comp.focus = NoWindow /\ comp'.focus = ev.win /\ ev.win \in comp.known
         \/ ev.on = "leave" /\ comp'.focus = NoWindow /\ ev.win = comp.focus
         \/ ev.on \notin {"enter", "leave"} /\ comp'.focus = comp.focus,
         \/ ev.on # "key" /\ comp'.keys = comp.keys
         \/ \E k \in Key : \/ ev.on = "key" /\ ev.arg = <<k, TRUE>> /\ comp'.keys = comp.keys \cup {k}
                           \/ ev.on = "key" /\ ev.arg = <<k, FALSE>> /\ comp'.keys = comp.keys \ {k}
  PROVE  RepeatInv'
<1>1. wire' = Append(wire, ev) /\ UNCHANGED <<alive, focus, keys, repeat, cb>>
  BY DEF Send, winVars, keyVars
<1>2. PICK h \in Histories : KeyStory(h)
  BY DEF RepeatInv
<1>3. PICK g \in Histories' : FocusStory(g)' /\ \A i \in 1 .. Len(wire) + 1 : g[i] = h[i]
  BY <1>1, <1>2, FocusPush DEF KeyStory
<1>4. /\ Len(wire) \in Nat /\ DOMAIN wire = 1 .. Len(wire) /\ DOMAIN wire' = 1 .. Len(wire) + 1
      /\ wire'[Len(wire) + 1] = ev /\ \A i \in DOMAIN wire : wire'[i] = wire[i]
  BY <1>1, PushFacts
<1>5. /\ 1 \in 1 .. Len(wire) + 1 /\ 0 \in 0 .. Len(wire)
      /\ \A i \in DOMAIN wire : i \in 0 .. Len(wire) /\ i \in DOMAIN wire'
      /\ \A i \in DOMAIN wire' : i \in DOMAIN wire \/ i = Len(wire) + 1
      /\ Len(wire) + 1 \in DOMAIN wire'
      /\ \A i \in 0 .. Len(wire) : i + 1 \in 1 .. Len(wire) + 1 /\ Len(wire) + 1 > i
  BY <1>4
<1>6. focus' = IfAlive(g[1])'
  BY <1>1, <1>2, <1>3, <1>5 DEF KeyStory, IfAlive
<1>7. ASSUME NEW i \in 0 .. Len(wire), NEW k, Follows(h, i, k)
      PROVE  Follows(g, i, k)'
  <2> DEFINE Ends(e) == e.on = "leave" \/ (e.on = "key" /\ e.arg = <<k, FALSE>>)
  <2>1. \/ k \in comp.keys
        \/ h[i + 1] \notin comp.known
        \/ \E j \in DOMAIN wire : j > i /\ Ends(wire[j])
    BY <1>7 DEF Follows
  <2>2. k \in comp'.keys \/ (k \in comp.keys => Ends(ev))
    <3>1. \A l : <<l, TRUE>>[1] = l /\ <<l, FALSE>>[1] = l
      OBVIOUS
    <3> QED
      BY <3>1
  <2> HIDE DEF Ends
  <2>3. \/ k \in comp'.keys
        \/ g[i + 1] \notin comp'.known
        \/ \E j \in DOMAIN wire' : j > i /\ Ends(wire'[j])
    <3>1. CASE k \in comp.keys
      BY <1>4, <1>5, <2>2, <3>1
    <3>2. CASE h[i + 1] \notin comp.known
      BY <1>3, <1>5, <3>2
    <3>3. CASE \E j \in DOMAIN wire : j > i /\ Ends(wire[j])
      BY <1>4, <1>5, <3>3
    <3> QED
      BY <2>1, <3>1, <3>2, <3>3
  <2> QED
    BY <2>3 DEF Follows, Ends
<1>8. ASSUME NEW i \in DOMAIN wire', NEW k \in Key, wire'[i].on = "key", wire'[i].arg = <<k, TRUE>>
      PROVE  Follows(g, i, k)'
  <2>1. CASE i \in DOMAIN wire
    BY <1>2, <1>4, <1>5, <1>7, <1>8, <2>1 DEF KeyStory
  <2>2. CASE i = Len(wire) + 1
    <3>1. ev.on = "key" /\ ev.arg = <<k, TRUE>>
      BY <1>4, <1>8, <2>2
    <3>2. \A l \in Key : <<l, TRUE>> = <<k, TRUE>> => l = k
      OBVIOUS
    <3>3. \A l \in Key : <<l, FALSE>> # <<k, TRUE>>
      OBVIOUS
    <3>4. k \in comp'.keys
      BY <3>1, <3>2, <3>3
    <3> QED
      BY <3>4 DEF Follows
  <2>3. i \in DOMAIN wire \/ i = Len(wire) + 1
    BY <1>4
  <2> QED
    BY <2>1, <2>2, <2>3
<1>9. KeyStory(g)'
  BY <1>1, <1>2, <1>3, <1>5, <1>6, <1>7, <1>8 DEF KeyStory
<1> QED
  BY <1>1, <1>9 DEF RepeatInv, TimerInv

\* Neither the events on their way nor what the compositor believes changes.
LEMMA KeyStay ==
  ASSUME TypeOK, AliveOk, NEW h \in Histories, KeyStory(h), UNCHANGED <<wire, comp>>,
         alive' \subseteq alive, focus' = IF focus \in alive' THEN focus ELSE NoWindow,
         cb'.then # "leave" => keys' = {} \/ (cb.then # "leave" /\ keys' = keys)
  PROVE  h \in Histories' /\ KeyStory(h)'
<1>1. NoWindow \notin alive
  BY SeatAssumption DEF TypeOK
<1>2. FocusStory(h)' /\ h \in Histories'
  BY DEF KeyStory, FocusStory, Places, Histories
<1>3. focus' = IfAlive(h[1])'
  BY <1>1 DEF KeyStory, IfAlive
<1>4. \A i, k : Follows(h, i, k)' <=> Follows(h, i, k)
  BY DEF Follows
<1> QED
  BY <1>2, <1>3, <1>4 DEF KeyStory

LEMMA TimerSame ==
  ASSUME TimerInv, cb = NoCb, UNCHANGED <<repeat, keys>>, focus' = NoWindow => focus = NoWindow,
         cb'.then \notin {"rearm", "pressed"}
  PROVE  TimerInv'
  BY DEF TimerInv, NoCb, Call

LEMMA RepeatHandlers ==
  ASSUME TypeOK, AliveOk, RepeatInv,
         \/ SeatCaps \/ KeyboardEnter \/ KeyboardLeave \/ KeyboardKey \/ RepeatInfo
         \/ PointerEnter \/ PointerLeave \/ PointerMotion \/ RelativeMotion
         \/ PointerButton \/ PointerLocked
         \/ TouchDown \/ TouchMotion \/ TouchUp \/ TouchCancel
  PROVE  RepeatInv'
<1> USE DEF winVars, keyVars, mouseVars
<1> DEFINE Popped(name) ==
             /\ On(name) /\ comp' = comp /\ alive' = alive
             /\ focus' = IF name = "enter" THEN Head(wire).win
                         ELSE IF name = "leave" THEN NoWindow ELSE focus
           Kept(name) == name \notin {"leave", "key"} /\ keys' = keys
<1>0. TimerInv
  BY DEF RepeatInv
<1>1. ASSUME NEW name, Popped(name), Kept(name), TimerInv' PROVE RepeatInv'
  BY <1>1, KeyPop DEF RepeatInv
<1>2. ASSUME NEW name, On(name) PROVE cb = NoCb /\ cb.then = "end"
  BY <1>2, OnEvent DEF Idle, NoCb, Call
<1>3. CASE SeatCaps
  <2>1. Popped("caps") /\ Kept("caps") /\ UNCHANGED <<focus, keys, cb>> /\ cb.then = "end"
    BY <1>2, <1>3 DEF SeatCaps
  <2>2. repeat' = repeat \/ repeat' = [repeat EXCEPT !.timer = FALSE, !.armed = FALSE]
    BY <1>3 DEF SeatCaps
  <2>3. repeat' = repeat \/ ~repeat'.armed
    BY <2>2 DEF TypeOK
  <2>4. TimerInv'
    BY <1>0, <2>1, <2>3 DEF TimerInv
  <2> QED
    BY <1>1, <2>1, <2>4
<1>4. CASE KeyboardEnter
  <2>1. Popped("enter") /\ Kept("enter") /\ repeat' = repeat /\ cb'.then = "end"
    BY <1>4 DEF KeyboardEnter, Call
  <2>2. focus' # NoWindow
    BY <2>1, OnEvent, EventFacts, SeatAssumption DEF Surfaced
  <2>3. TimerInv'
    BY <1>0, <1>2, <2>1, <2>2, TimerSame
  <2> QED
    BY <1>1, <2>1, <2>3
<1>5. CASE KeyboardLeave
  <2>1. Popped("leave") /\ UNCHANGED <<keys, repeat>> /\ cb'.then = "leave" /\ cb.then = "end"
    BY <1>2, <1>5 DEF KeyboardLeave, Call
  <2>2. TimerInv'
    BY <1>0, <2>1 DEF TimerInv
  <2>3. \E g \in Histories' : KeyStory(g)'
    BY <2>1, KeyPop
  <2> QED
    BY <2>2, <2>3 DEF RepeatInv
<1>6. CASE KeyboardKey
  <2>1. /\ Popped("key") /\ repeat' = repeat /\ focus' = focus /\ cb.then = "end"
        /\ IF focus = NoWindow THEN keys' = keys /\ cb' = cb
           ELSE /\ keys' = IF Head(wire).arg[2] THEN keys \cup {Head(wire).arg[1]}
                                                ELSE keys \ {Head(wire).arg[1]}
                /\ cb' = Call("key", focus, IF Head(wire).arg[2] THEN "pressed" ELSE "released",
                              Head(wire).arg[1])
    BY <1>2, <1>6 DEF KeyboardKey
  <2>2. TimerInv'
    <3>1. CASE focus = NoWindow
      BY <1>0, <2>1, <3>1 DEF TimerInv
    <3>2. CASE focus # NoWindow /\ Head(wire).arg[2]
      <4>1. /\ keys' = keys \cup {Head(wire).arg[1]} /\ cb'.then = "pressed"
            /\ cb'.arg = Head(wire).arg[1]
        BY <2>1, <3>2 DEF Call
      <4> QED
        BY <1>0, <2>1, <3>2, <4>1 DEF TimerInv
    <3>3. CASE focus # NoWindow /\ ~Head(wire).arg[2]
      <4>1. /\ keys' = keys \ {Head(wire).arg[1]} /\ cb'.then = "released"
            /\ cb'.arg = Head(wire).arg[1]
        BY <2>1, <3>3 DEF Call
      <4> QED
        BY <1>0, <2>1, <3>3, <4>1 DEF TimerInv
    <3> QED
      BY <3>1, <3>2, <3>3
  <2>3. \E g \in Histories' : KeyStory(g)'
    BY <2>1, KeyPop
  <2> QED
    BY <2>2, <2>3 DEF RepeatInv
<1>7. CASE RepeatInfo
  <2>1. Popped("rate") /\ Kept("rate") /\ UNCHANGED <<focus, keys, cb>> /\ cb.then = "end"
    BY <1>2, <1>7 DEF RepeatInfo
  <2>2. /\ repeat'.armed = repeat.armed /\ repeat'.key = repeat.key
        /\ repeat.timer => repeat'.timer
    BY <1>7 DEF RepeatInfo, TypeOK
  <2>3. TimerInv'
    BY <1>0, <2>1, <2>2 DEF TimerInv
  <2> QED
    BY <1>1, <2>1, <2>3
<1>8. CASE \/ PointerEnter \/ PointerLeave \/ PointerMotion \/ RelativeMotion
           \/ PointerButton \/ PointerLocked
  <2>1. /\ \E name \in {"point", "unpoint", "motion", "relative", "button", "lock"} :
             Popped(name) /\ Kept(name)
        /\ UNCHANGED <<repeat, keys, focus>>
    BY <1>8 DEF PointerEnter, PointerLeave, PointerMotion, RelativeMotion, PointerButton, PointerLocked
  <2>2. cb' = cb \/ cb' = NoCb \/ \E fn, w, arg : \E then \in {"end", "unset"} : cb' = Call(fn, w, then, arg)
    BY <1>8 DEF PointerEnter, PointerLeave, PointerMotion, RelativeMotion, PointerButton, PointerLocked
  <2>3. cb = NoCb /\ cb'.then \notin {"rearm", "pressed"}
    BY <1>2, <2>1, <2>2 DEF NoCb, Call
  <2>4. TimerInv'
    BY <1>0, <2>1, <2>3, TimerSame
  <2> QED
    BY <1>1, <2>1, <2>4
<1>9. CASE TouchDown \/ TouchMotion \/ TouchUp \/ TouchCancel
  <2>1. /\ \E name \in {"down", "update", "up", "cancel"} : Popped(name) /\ Kept(name)
        /\ UNCHANGED <<repeat, keys, focus>>
    BY <1>9 DEF TouchDown, TouchMotion, TouchUp, TouchCancel
  <2>2. cb' = NoCb \/ \E fn, w, arg : \E then \in {"end", "erase", "next"} : cb' = Call(fn, w, then, arg)
    BY <1>9 DEF TouchDown, TouchMotion, TouchUp, TouchCancel, CancelFrom
  <2>3. cb = NoCb /\ cb'.then \notin {"rearm", "pressed"}
    BY <1>2, <2>1, <2>2 DEF NoCb, Call
  <2>4. TimerInv'
    BY <1>0, <2>1, <2>3, TimerSame
  <2> QED
    BY <1>1, <2>1, <2>4
<1> QED
  BY <1>3, <1>4, <1>5, <1>6, <1>7, <1>8, <1>9

LEMMA RepeatRest ==
  ASSUME TypeOK, AliveOk, RepeatInv, Careful = TRUE,
         \/ KeyRepeat \/ CursorTime \/ CursorFrame \/ DeadSurface \/ Return
         \/ (\E w \in Window : Destroy(w) \/ LockPointer(w))
         \/ (\E w \in Window, c \in Cursors : SetCursor(w, c))
         \/ UNCHANGED vars
  PROVE  RepeatInv'
<1> USE DEF winVars, keyVars, mouseVars
<1>0. TimerInv
  BY DEF RepeatInv
<1>1. PICK h \in Histories : KeyStory(h)
  BY DEF RepeatInv
<1>2. /\ focus \in alive \cup {NoWindow} /\ NoWindow \notin alive
      /\ focus = IF focus \in alive THEN focus ELSE NoWindow
  BY SeatAssumption DEF AliveOk, AliveInv, TypeOK
<1>3. CASE KeyRepeat
  <2>1. UNCHANGED <<wire, comp, alive, focus, keys>> /\ cb = NoCb /\ repeat.armed
    BY <1>3 DEF KeyRepeat, Idle
  <2>2. cb.then = "end" /\ (cb' = cb \/ cb' = Call("repeat", focus, "rearm", 0))
    BY <1>3, <2>1 DEF KeyRepeat, NoCb, Call
  <2>3. cb'.then \in {"end", "rearm"}
    BY <2>2 DEF Call
  <2>4. h \in Histories' /\ KeyStory(h)'
    BY <1>1, <1>2, <2>1, <2>2, <2>3, KeyStay
  <2>5. repeat'.timer = repeat.timer /\ ~repeat'.armed /\ repeat'.key = repeat.key
    BY <1>3 DEF KeyRepeat, TypeOK
  <2>6. TimerInv'
    BY <1>0, <2>1, <2>2, <2>3, <2>5 DEF TimerInv
  <2> QED
    BY <2>4, <2>6 DEF RepeatInv
<1>4. CASE \/ CursorTime \/ CursorFrame \/ DeadSurface \/ UNCHANGED vars
           \/ (\E w \in Window : LockPointer(w))
           \/ (\E w \in Window, c \in Cursors : SetCursor(w, c))
  <2>1. UNCHANGED <<wire, comp, alive, focus, keys, repeat, cb>>
    BY <1>4 DEF CursorTime, CursorFrame, DeadSurface, LockPointer, SetCursor, vars
  <2>2. h \in Histories' /\ KeyStory(h)'
    BY <1>1, <1>2, <2>1, KeyStay
  <2>3. TimerInv'
    BY <1>0, <2>1 DEF TimerInv
  <2> QED
    BY <2>2, <2>3 DEF RepeatInv
<1>5. CASE \E w \in Window : Destroy(w)
  <2>1. PICK w \in Window : Destroy(w)
    BY <1>5
  <2>2. /\ UNCHANGED <<wire, comp, keys, repeat, cb>> /\ alive' = alive \ {w}
        /\ focus' = IF focus = w THEN NoWindow ELSE focus
        /\ focus = w => keys = {}
    BY <2>1 DEF Destroy
  <2>3. focus' = IF focus \in alive' THEN focus ELSE NoWindow
    BY <1>2, <2>2
  <2>4. h \in Histories' /\ KeyStory(h)'
    BY <1>1, <2>2, <2>3, KeyStay
  <2>5. TimerInv'
    BY <1>0, <2>2 DEF TimerInv
  <2> QED
    BY <2>4, <2>5 DEF RepeatInv
<1>6. CASE Return
  <2>1. UNCHANGED <<wire, comp, alive, focus>> /\ fault = "none"
    BY <1>6 DEF Return
  <2>2. cb'.then \notin {"rearm", "leave", "pressed", "released"}
    <3>1. cb' = NoCb \/ \E w, arg : cb' = Call("cancel", w, "next", arg)
      BY <1>6 DEF Return, CancelFrom
    <3> QED
      BY <3>1 DEF NoCb, Call
  <2>3. CASE cb.then = "leave"
    <3>1. keys' = {}
      BY <1>6, <2>3 DEF Return, AfterLeave
    <3>2. ~repeat'.armed
      BY <1>0, <1>6, <2>3 DEF Return, AfterLeave, TimerInv, TypeOK
    <3>3. h \in Histories' /\ KeyStory(h)'
      BY <1>1, <1>2, <2>1, <3>1, KeyStay
    <3>4. TimerInv'
      BY <2>2, <3>1, <3>2 DEF TimerInv
    <3> QED
      BY <3>3, <3>4 DEF RepeatInv
  <2>4. CASE cb.then # "leave"
    <3>1. keys' = keys
      BY <1>6, <2>4 DEF Return, AfterKey, AfterRepeat, AfterUnpoint, AfterUp, TypeOK, CallbackInv
    <3>2. repeat'.armed => repeat'.timer /\ repeat'.key \in keys
      <4>1. CASE cb.then = "pressed"
        <5>1. \/ repeat.timer /\ repeat' = [repeat EXCEPT !.armed = TRUE, !.key = cb.arg]
              \/ repeat' = repeat
          BY <1>6, <4>1 DEF Return, AfterKey
        <5> QED
          BY <1>0, <4>1, <5>1 DEF TimerInv, TypeOK
      <4>2. CASE cb.then = "released"
        <5>1. \/ repeat' = [repeat EXCEPT !.armed = FALSE, !.key = NoKey]
              \/ cb.arg # repeat.key /\ repeat' = repeat
          BY <1>6, <4>2 DEF Return, AfterKey
        <5> QED
          BY <1>0, <2>4, <5>1 DEF TimerInv, TypeOK
      <4>3. CASE cb.then = "rearm"
        <5>1. repeat' = repeat \/ repeat' = [repeat EXCEPT !.armed = TRUE]
          BY <1>6, <4>3 DEF Return, AfterRepeat
        <5> QED
          BY <1>0, <4>3, <5>1 DEF TimerInv, TypeOK
      <4>4. CASE cb.then \notin {"leave", "pressed", "released", "rearm"}
        <5>1. repeat' = repeat
          BY <1>6, <4>4 DEF Return, AfterUnpoint, AfterUp, TypeOK, CallbackInv
        <5> QED
          BY <1>0, <4>4, <5>1 DEF TimerInv
      <4> QED
        BY <2>4, <4>1, <4>2, <4>3, <4>4
    <3>3. h \in Histories' /\ KeyStory(h)'
      BY <1>1, <1>2, <2>1, <2>4, <3>1, KeyStay
    <3>4. TimerInv'
      BY <1>0, <2>1, <2>2, <2>4, <3>1, <3>2 DEF TimerInv
    <3> QED
      BY <3>3, <3>4 DEF RepeatInv
  <2> QED
    BY <2>3, <2>4
<1> QED
  BY <1>3, <1>4, <1>5, <1>6

LEMMA RepeatCompositor ==
  ASSUME TypeOK, AliveOk, RepeatInv, LeaveFirst = TRUE,
         \/ SendCaps \/ SendKeyboard \/ SendPointer \/ SendTouch
         \/ (\E k \in Key : ReleaseElsewhere(k)) \/ \E w \in Window : Forget(w)
  PROVE  RepeatInv'
<1>0. /\ comp.caps \in {{}, comp.seat} /\ comp.known \subseteq Window /\ NoWindow \notin comp.known
      /\ comp.focus # NoWindow => "keyboard" \in comp.caps
  BY SeatAssumption DEF AliveOk, SeatInv, TypeOK
<1>1. PICK h \in Histories : KeyStory(h)
  BY DEF RepeatInv
<1>2. CASE SendCaps
  <2>1. PICK caps \in {{}, comp.seat} :
          /\ caps # comp.caps
          /\ \A d \in comp.caps \ caps : Unused(d)
          /\ comp' = [comp EXCEPT !.caps = caps, !.focus = NoWindow, !.over = NoWindow,
                                  !.touch = [f \in Finger |-> NoWindow]]
          /\ Send(Ev("caps", NoWindow, caps))
    BY <1>2 DEF SendCaps
  <2>2. PICK ev : ev = Ev("caps", NoWindow, caps)
    OBVIOUS
  <2>3. ev \in Event /\ ev.on = "caps" /\ Send(ev)
    BY <2>1, <2>2 DEF Ev, Event, TypeOK
  <2>4. comp'.known = comp.known /\ comp'.focus = NoWindow /\ comp'.keys = comp.keys
    BY <2>1 DEF TypeOK
  <2>5. comp.focus = NoWindow
    <3>1. comp.caps \ caps = {} \/ caps = {}
      BY <1>0
    <3> QED
      BY <1>0, <2>1, <3>1 DEF Unused
  <2> QED
    BY <2>3, <2>4, <2>5, KeyPush
<1>3. CASE SendKeyboard
  <2>1. CASE \E w \in comp.known : /\ comp.focus = NoWindow /\ comp' = [comp EXCEPT !.focus = w]
                                   /\ Send(Ev("enter", w, 0))
    <3>1. PICK w \in comp.known : /\ comp.focus = NoWindow /\ comp' = [comp EXCEPT !.focus = w]
                                  /\ Send(Ev("enter", w, 0))
      BY <2>1
    <3>2. PICK ev : ev = Ev("enter", w, 0)
      OBVIOUS
    <3>3. ev \in Event /\ ev.on = "enter" /\ ev.win = w /\ Send(ev)
      BY <1>0, <3>1, <3>2 DEF Ev, Event
    <3>4. comp'.focus = w /\ comp'.known = comp.known /\ comp'.keys = comp.keys
      BY <3>1 DEF TypeOK
    <3> QED
      BY <3>1, <3>3, <3>4, KeyPush
  <2>2. CASE /\ comp.focus # NoWindow /\ comp' = [comp EXCEPT !.focus = NoWindow]
             /\ Send(Ev("leave", comp.focus, 0))
    <3>2. PICK ev : ev = Ev("leave", comp.focus, 0)
      OBVIOUS
    <3>3. ev \in Event /\ ev.on = "leave" /\ ev.win = comp.focus /\ Send(ev)
      BY <2>2, <3>2 DEF Ev, Event, TypeOK
    <3>4. comp'.focus = NoWindow /\ comp'.known = comp.known /\ comp'.keys = comp.keys
      BY <2>2 DEF TypeOK
    <3> QED
      BY <3>3, <3>4, KeyPush
  <2>3. CASE \E k \in Key :
               /\ comp' = [comp EXCEPT !.keys = IF k \notin comp.keys THEN @ \cup {k} ELSE @ \ {k}]
               /\ Send(Ev("key", NoWindow, <<k, k \notin comp.keys>>))
    <3>1. PICK k \in Key :
            /\ comp' = [comp EXCEPT !.keys = IF k \notin comp.keys THEN @ \cup {k} ELSE @ \ {k}]
            /\ Send(Ev("key", NoWindow, <<k, k \notin comp.keys>>))
      BY <2>3
    <3>2. comp'.focus = comp.focus /\ comp'.known = comp.known
      BY <3>1 DEF TypeOK
    <3>3. CASE k \notin comp.keys
      <4>1. comp'.keys = comp.keys \cup {k}
        BY <3>1, <3>3 DEF TypeOK
      <4>2. <<k, k \notin comp.keys>> = <<k, TRUE>>
        BY <3>3
      <4>3. PICK ev : ev = Ev("key", NoWindow, <<k, TRUE>>)
        OBVIOUS
      <4>4. ev \in Event /\ ev.on = "key" /\ ev.arg = <<k, TRUE>> /\ Send(ev)
        BY <3>1, <4>2, <4>3 DEF Ev, Event
      <4> QED
        BY <3>2, <4>1, <4>4, KeyPush
    <3>4. CASE k \in comp.keys
      <4>1. comp'.keys = comp.keys \ {k}
        BY <3>1, <3>4 DEF TypeOK
      <4>2. <<k, k \notin comp.keys>> = <<k, FALSE>>
        BY <3>4
      <4>3. PICK ev : ev = Ev("key", NoWindow, <<k, FALSE>>)
        OBVIOUS
      <4>4. ev \in Event /\ ev.on = "key" /\ ev.arg = <<k, FALSE>> /\ Send(ev)
        BY <3>1, <4>2, <4>3 DEF Ev, Event
      <4> QED
        BY <3>2, <4>1, <4>4, KeyPush
    <3> QED
      BY <3>3, <3>4
  <2>4. CASE \E r \in Rates : UNCHANGED comp /\ Send(Ev("rate", NoWindow, r))
    <3>1. PICK r \in Rates : UNCHANGED comp /\ Send(Ev("rate", NoWindow, r))
      BY <2>4
    <3>2. PICK ev : ev = Ev("rate", NoWindow, r)
      OBVIOUS
    <3>3. ev \in Event /\ ev.on = "rate" /\ Send(ev)
      BY <3>1, <3>2 DEF Ev, Event
    <3> QED
      BY <3>1, <3>3, KeyPush
  <2> QED
    BY <1>3, <2>1, <2>2, <2>3, <2>4 DEF SendKeyboard
<1>4. CASE SendPointer \/ SendTouch
  <2>1. \A on, win, arg : Ev(on, win, arg).on = on
    BY DEF Ev
  <2>2. /\ \A w \in comp.known : Ev("point", w, 0) \in Event
        /\ comp.over # NoWindow => Ev("unpoint", comp.over, 0) \in Event
        /\ Ev("motion", NoWindow, 0) \in Event /\ Ev("relative", NoWindow, 0) \in Event
        /\ Ev("button", NoWindow, ~comp.button) \in Event
        /\ \A w \in Window : Ev("lock", w, lock[w] = "asked") \in Event
    BY <1>0 DEF Ev, Event, TypeOK
  <2>3. /\ \A w \in comp.known, f \in Finger : Ev("down", w, f) \in Event
        /\ \A f \in Finger : Ev("update", NoWindow, f) \in Event /\ Ev("up", NoWindow, f) \in Event
        /\ Ev("cancel", NoWindow, 0) \in Event
    BY <1>0 DEF Ev, Event
  <2>4. \E ev \in Event : ev.on \notin {"enter", "leave", "key"} /\ Send(ev)
    <3>1. CASE SendPointer
      BY <2>1, <2>2, <3>1 DEF SendPointer
    <3>2. CASE SendTouch
      BY <2>1, <2>3, <3>2 DEF SendTouch
    <3> QED
      BY <1>4, <3>1, <3>2
  <2>5. comp'.focus = comp.focus /\ comp'.known = comp.known /\ comp'.keys = comp.keys
    <3>1. \/ comp' = comp \/ (\E t : comp' = [comp EXCEPT !.touch = t])
          \/ (\E w : comp' = [comp EXCEPT !.over = w]) \/ comp' = [comp EXCEPT !.button = ~@]
      BY <1>4 DEF SendPointer, SendTouch
    <3> QED
      BY <3>1 DEF TypeOK
  <2> QED
    BY <2>4, <2>5, KeyPush
<1>5. CASE \E l \in Key : ReleaseElsewhere(l)
  <2>1. PICK l \in Key : ReleaseElsewhere(l)
    BY <1>5
  <2>2. /\ comp.focus = NoWindow /\ comp'.focus = comp.focus /\ comp'.known = comp.known
        /\ comp'.keys = comp.keys \ {l} /\ UNCHANGED <<alive, focus, keys, repeat, cb, wire>>
    BY <2>1 DEF ReleaseElsewhere, TypeOK, winVars, keyVars
  <2>3. FocusStory(h) /\ FocusStory(h)' /\ h \in Histories'
    BY <1>1, <2>2 DEF KeyStory, FocusStory, Places, Histories
  <2>4. wire \in Seq(Event) /\ DOMAIN wire = 1 .. Len(wire)
    BY DEF TypeOK
  <2>5. ASSUME NEW i \in 0 .. Len(wire), NEW k, Follows(h, i, k) PROVE Follows(h, i, k)'
    <3>1. i + 1 \in 1 .. Len(wire) + 1
      BY <2>4
    <3>2. h[i + 1] \in comp.known => \E j \in Places("leave") : j >= i + 1
      BY <1>0, <2>2, <2>3, <3>1 DEF FocusStory, Story
    <3>3. h[i + 1] \in comp.known => \E j \in DOMAIN wire : j > i /\ wire[j].on = "leave"
      BY <2>4, <3>2 DEF Places
    <3> QED
      BY <2>2, <2>5, <3>3 DEF Follows
  <2>6. 0 \in 0 .. Len(wire) /\ \A i \in DOMAIN wire : i \in 0 .. Len(wire)
    BY <2>4
  <2>7. KeyStory(h)'
    BY <1>1, <2>2, <2>3, <2>5, <2>6 DEF KeyStory, IfAlive
  <2> QED
    BY <2>2, <2>3, <2>7 DEF RepeatInv, TimerInv
<1>6. CASE \E w \in Window : Forget(w)
  <2>1. PICK w \in Window : Forget(w)
    BY <1>6
  <2>2. /\ UNCHANGED <<alive, focus, keys, repeat, cb, wire>>
        /\ comp'.focus = IF comp.focus = w THEN NoWindow ELSE comp.focus
        /\ comp'.known = comp.known \ {w} /\ comp'.keys = comp.keys
    BY <2>1 DEF Forget, TypeOK, winVars, keyVars
  <2>3. FocusStory(h)' /\ h \in Histories'
    <3>1. Story(wire, h, Places("enter"), Places("leave"),
                IF comp.focus = w THEN NoWindow ELSE comp.focus, comp.known \ {w})
      BY <1>1, StoryForget DEF KeyStory, FocusStory
    <3>2. \A name : Places(name)' = Places(name)
      BY <2>2 DEF Places
    <3> QED
      BY <2>2, <3>1, <3>2 DEF FocusStory, Histories
  <2>4. \A i, k : Follows(h, i, k) => Follows(h, i, k)'
    BY <2>2 DEF Follows
  <2>5. KeyStory(h)'
    BY <1>1, <2>2, <2>3, <2>4 DEF KeyStory, IfAlive
  <2> QED
    BY <2>2, <2>3, <2>5 DEF RepeatInv, TimerInv
<1> QED
  BY <1>2, <1>3, <1>4, <1>5, <1>6

LEMMA RepeatInit == Init => RepeatInv
<1> SUFFICES ASSUME Init PROVE RepeatInv
  OBVIOUS
<1>1. TimerInv
  BY DEF Init, TimerInv, NoCb, Call
<1>2. PICK h \in Histories : FocusStory(h) /\ focus = IfAlive(h[1])
  BY AliveInit DEF AliveOk, FocusInv
<1>3. KeyStory(h)
  BY <1>2 DEF Init, KeyStory
<1> QED
  BY <1>1, <1>3 DEF RepeatInv

LEMMA RepeatHolds == ASSUME TypeOK, AliveOk, RepeatInv PROVE RepeatMatches
<1> SUFFICES ASSUME Idle, repeat.armed PROVE RepeatMatches
  BY DEF RepeatMatches
<1>1. cb.then = "end"
  BY DEF Idle, NoCb, Call
<1>2. repeat.key \in keys /\ focus # NoWindow
  BY <1>1 DEF RepeatInv, TimerInv
<1>3. PICK h \in Histories : KeyStory(h)
  BY DEF RepeatInv
<1>4. Follows(h, 0, repeat.key) /\ focus = h[1]
  BY <1>1, <1>2, <1>3 DEF KeyStory, IfAlive
<1>5. 0 + 1 = 1
  OBVIOUS
<1> QED
  BY <1>2, <1>4, <1>5 DEF RepeatMatches, Follows

\* The repeat timer runs for the focused window only and for a key that is held down, or
\* whose release or loss of focus is on its way, when the application keeps a window until
\* its keys are released: RepeatMatches.
THEOREM RepeatsMatch ==
  ASSUME LeaveFirst = TRUE, Careful = TRUE PROVE Spec => []RepeatMatches
<1>1. Init => TypeOK /\ AliveOk /\ RepeatInv
  BY TypeInit, AliveInit, RepeatInit
<1>2. TypeOK /\ AliveOk /\ [Next]_vars => TypeOK' /\ AliveOk'
  BY TypeStep, AliveStep
<1>3. TypeOK /\ AliveOk /\ RepeatInv /\ [Next]_vars => RepeatInv'
  BY RepeatHandlers, RepeatRest, RepeatCompositor DEF Next
<1>4. TypeOK /\ AliveOk /\ RepeatInv => RepeatMatches
  BY RepeatHolds
<1> QED
  BY <1>1, <1>2, <1>3, <1>4, PTL DEF Spec

-----------------------------------------------------------------------------
(* Touch *)

\* Finger f has a point in w that is not about to be erased.
Touched(f, w) ==
  \E i \in DOMAIN points : /\ points[i].id = f /\ points[i].win = w
                           /\ cb.then # "next"
                           /\ ~(cb.then = "erase" /\ cb.arg = i)

Downs(f) == {i \in DOMAIN wire : wire[i].on = "down" /\ wire[i].arg = f}
Ups(f) == {i \in DOMAIN wire : wire[i].on = "cancel" \/ (wire[i].on = "up" /\ wire[i].arg = f)}
TouchStory(h, f) == Story(wire, h, Downs(f), Ups(f), comp.touch[f], comp.known)

\* A finger has one point, in the window it is in where the events are handled.
OnePoint == \A i, j \in DOMAIN points : points[i].id = points[j].id => i = j
FingerStory(h, f) ==
  TouchStory(h, f) /\ \A w \in Window : Touched(f, w) <=> (h[1] = w /\ w \in alive)

TouchInv ==
  /\ OnePoint
  /\ cb.then = "erase" => cb.arg \in DOMAIN points
  /\ \A f \in Finger : \E h \in Histories : FingerStory(h, f)

LEMMA TouchHead ==
  ASSUME TypeOK, NEW h \in Histories, NEW f, TouchStory(h, f), wire # <<>>
  PROVE  LET e == Head(wire)
         IN /\ e.on = "down" /\ e.arg = f => h[2] = e.win /\ h[1] \notin comp.known
            /\ e.on = "cancel" \/ (e.on = "up" /\ e.arg = f) => h[2] = NoWindow
            /\ e.on \notin {"down", "up", "cancel"} \/ (e.on # "cancel" /\ e.arg # f) => h[2] = h[1]
<1>1. 1 \in 1 .. Len(wire) /\ 1 \in DOMAIN wire /\ Head(wire) = wire[1] /\ 1 + 1 = 2
  BY DEF TypeOK
<1>2. /\ 1 \in Downs(f) => h[2] = wire[1].win /\ h[1] \notin comp.known
      /\ 1 \in Ups(f) => h[2] = NoWindow
      /\ 1 \notin Downs(f) \cup Ups(f) => h[2] = h[1]
  BY <1>1 DEF TouchStory, Story
<1>3. /\ 1 \in Downs(f) <=> wire[1].on = "down" /\ wire[1].arg = f
      /\ 1 \in Ups(f) <=> wire[1].on = "cancel" \/ (wire[1].on = "up" /\ wire[1].arg = f)
  BY <1>1 DEF Downs, Ups
<1> QED
  BY <1>1, <1>2, <1>3

LEMMA TouchPop ==
  ASSUME TypeOK, NEW h \in Histories, NEW f, TouchStory(h, f),
         wire # <<>>, wire' = Tail(wire), comp' = comp
  PROVE  \E g \in Histories' : TouchStory(g, f)' /\ g[1] = h[2]
<1>1. wire \in Seq(Event) /\ Downs(f) \in SUBSET DOMAIN wire /\ Ups(f) \in SUBSET DOMAIN wire
  BY DEF TypeOK, Downs, Ups
<1>2. PICK g : g = [i \in 1 .. Len(wire) |-> h[i + 1]]
  OBVIOUS
<1>3. PICK t, insT, outsT : t = wire' /\ insT = Downs(f)' /\ outsT = Ups(f)'
  OBVIOUS
<1>4. /\ Len(t) = Len(wire) - 1 /\ \A i \in 1 .. Len(wire) - 1 : t[i] = wire[i + 1]
      /\ Len(wire) - 1 + 1 = Len(wire) /\ 1 \in 1 .. Len(wire) /\ 1 + 1 = 2
  BY <1>3, PopFacts
<1>5. g \in [1 .. Len(wire) -> Window \cup {NoWindow}] /\ \A i \in 1 .. Len(wire) : g[i] = h[i + 1]
  BY <1>1, <1>2 DEF Histories
<1>6. /\ insT \in SUBSET (1 .. Len(wire) - 1) /\ outsT \in SUBSET (1 .. Len(wire) - 1)
      /\ \A i \in 1 .. Len(wire) - 1 : /\ i \in insT <=> i + 1 \in Downs(f)
                                       /\ i \in outsT <=> i + 1 \in Ups(f)
  BY <1>3, PopFacts DEF Downs, Ups
<1>7. Story(t, g, insT, outsT, comp.touch[f], comp.known)
  BY SMTT(30), <1>1, <1>4, <1>5, <1>6, StoryPop DEF TouchStory
<1>8. g \in Histories'
  BY <1>3, <1>4, <1>5 DEF Histories
<1>9. TouchStory(g, f)'
  BY <1>3, <1>7 DEF TouchStory
<1> QED
  BY <1>4, <1>5, <1>8, <1>9

LEMMA TouchPush ==
  ASSUME TypeOK, NEW h \in Histories, NEW f, TouchStory(h, f), NEW ev \in Event,
         wire' = Append(wire, ev), comp'.known = comp.known,
         \/ /\ ev.on = "down" /\ ev.arg = f /\ comp.touch[f] = NoWindow
            /\ comp'.touch[f] = ev.win /\ ev.win \in comp.known
         \/ /\ ev.on = "cancel" \/ (ev.on = "up" /\ ev.arg = f)
            /\ comp'.touch[f] = NoWindow /\ ev.win = NoWindow
         \/ /\ ev.on \notin {"down", "up", "cancel"} \/ (ev.on # "cancel" /\ ev.arg # f)
            /\ comp'.touch[f] = comp.touch[f]
  PROVE  \E g \in Histories' : TouchStory(g, f)' /\ g[1] = h[1]
<1>1. /\ wire \in Seq(Event) /\ Downs(f) \in SUBSET DOMAIN wire /\ Ups(f) \in SUBSET DOMAIN wire
      /\ comp.known \in SUBSET Window
  BY DEF TypeOK, Downs, Ups
<1>2. /\ Len(wire) \in Nat /\ DOMAIN wire = 1 .. Len(wire)
      /\ Len(wire') = Len(wire) + 1 /\ DOMAIN wire' = 1 .. Len(wire) + 1
      /\ wire'[Len(wire) + 1] = ev /\ \A i \in DOMAIN wire : wire'[i] = wire[i]
  BY PushFacts
<1>3. PICK t, ins2, outs2, at, at2 : /\ t = wire' /\ ins2 = Downs(f)' /\ outs2 = Ups(f)'
                                     /\ at = comp.touch[f] /\ at2 = comp'.touch[f]
  OBVIOUS
<1>4. /\ \A i \in DOMAIN wire' : i \in DOMAIN wire \/ i = Len(wire) + 1
      /\ Len(wire) + 1 \in DOMAIN wire' /\ \A i \in DOMAIN wire : i \in DOMAIN wire'
      /\ 1 \in 1 .. Len(wire) + 1
  BY <1>2
<1>5. /\ Downs(f)' = IF ev.on = "down" /\ ev.arg = f THEN Downs(f) \cup {Len(wire) + 1} ELSE Downs(f)
      /\ Ups(f)' = IF ev.on = "cancel" \/ (ev.on = "up" /\ ev.arg = f)
                     THEN Ups(f) \cup {Len(wire) + 1} ELSE Ups(f)
  BY <1>2, <1>4 DEF Downs, Ups
<1>6. \/ /\ ins2 = Downs(f) \cup {Len(wire) + 1} /\ outs2 = Ups(f)
         /\ at = NoWindow /\ at2 = ev.win /\ ev.win \in comp.known
      \/ /\ ins2 = Downs(f) /\ outs2 = Ups(f) \cup {Len(wire) + 1}
         /\ at2 = NoWindow /\ ev.win \in {NoWindow, at}
      \/ ins2 = Downs(f) /\ outs2 = Ups(f) /\ at2 = at
  BY <1>3, <1>5
<1>7. PICK last : last = IF ins2 # Downs(f) THEN at2
                         ELSE IF outs2 # Ups(f) THEN NoWindow ELSE h[Len(wire) + 1]
  OBVIOUS
<1>8. PICK g : g = [i \in 1 .. Len(wire) + 2 |-> IF i <= Len(wire) + 1 THEN h[i] ELSE last]
  OBVIOUS
<1>9. last \in Window \cup {NoWindow}
  BY <1>1, <1>2, <1>6, <1>7 DEF Histories
<1>10. /\ g \in [1 .. Len(wire) + 2 -> Window \cup {NoWindow}]
       /\ \A i \in 1 .. Len(wire) + 1 : g[i] = h[i]
       /\ g[Len(wire) + 2] = last
  BY <1>2, <1>8, <1>9 DEF Histories
<1>11. /\ Len(t) = Len(wire) + 1 /\ t[Len(wire) + 1] = ev /\ \A i \in 1 .. Len(wire) : t[i] = wire[i]
       /\ Len(wire) + 1 + 1 = Len(wire) + 2
  BY <1>2, <1>3
<1>12. Story(wire, h, Downs(f), Ups(f), at, comp.known)
  BY <1>3 DEF TouchStory
<1>13. Story(t, g, ins2, outs2, at2, comp.known)
  BY <1>1, <1>6, <1>7, <1>10, <1>11, <1>12, StoryPush
<1>14. g \in Histories'
  BY <1>3, <1>10, <1>11 DEF Histories
<1>15. TouchStory(g, f)'
  BY <1>3, <1>13 DEF TouchStory
<1> QED
  BY <1>4, <1>10, <1>14, <1>15

\* The points, the windows and what is on its way are left alone.
LEMMA TouchSame ==
  ASSUME TypeOK, TouchInv, UNCHANGED <<points, alive, wire>>,
         comp'.touch = comp.touch, comp'.known = comp.known,
         cb' = cb \/ ({cb.then, cb'.then} \cap {"erase", "next"} = {})
  PROVE  TouchInv'
<1>1. \A f, w : Touched(f, w)' <=> Touched(f, w)
  BY DEF Touched
<1>2. \A f, h : TouchStory(h, f)' <=> TouchStory(h, f)
  BY DEF TouchStory, Downs, Ups
<1>3. Histories' = Histories
  BY DEF Histories
<1>4. \A f, h : FingerStory(h, f)' <=> FingerStory(h, f)
  BY <1>1, <1>2 DEF FingerStory
<1>5. OnePoint'
  BY DEF OnePoint, TouchInv
<1>6. cb'.then = "erase" => cb'.arg \in DOMAIN points'
  BY DEF TouchInv
<1> QED
  BY <1>3, <1>4, <1>5, <1>6 DEF TouchInv

\* An event of no finger is handled.
LEMMA TouchPopSame ==
  ASSUME TypeOK, TouchInv, NEW name, On(name), name \notin {"down", "up", "cancel"},
         UNCHANGED <<points, alive, comp>>, cb'.then \notin {"erase", "next"}
  PROVE  TouchInv'
<1>1. wire # <<>> /\ wire' = Tail(wire) /\ Head(wire).on = name /\ cb.then = "end"
  BY OnEvent DEF Idle, NoCb, Call
<1>2. \A f, w : Touched(f, w)' <=> Touched(f, w)
  BY <1>1 DEF Touched
<1>3. ASSUME NEW f \in Finger PROVE \E g \in Histories' : FingerStory(g, f)'
  <2>1. PICK h \in Histories : FingerStory(h, f)
    BY DEF TouchInv
  <2>2. PICK g \in Histories' : TouchStory(g, f)' /\ g[1] = h[2]
    BY <1>1, <2>1, TouchPop DEF FingerStory
  <2>3. h[2] = h[1]
    BY <1>1, <2>1, TouchHead DEF FingerStory
  <2> QED
    BY <1>2, <2>1, <2>2, <2>3 DEF FingerStory
<1>4. OnePoint'
  BY DEF OnePoint, TouchInv
<1> QED
  BY <1>3, <1>4 DEF TouchInv

LEMMA TouchPushInv ==
  ASSUME TypeOK, TouchInv, NEW ev \in Event, Send(ev), comp'.known = comp.known,
         \A f \in Finger :
           \/ /\ ev.on = "down" /\ ev.arg = f /\ comp.touch[f] = NoWindow
              /\ comp'.touch[f] = ev.win /\ ev.win \in comp.known
           \/ /\ ev.on = "cancel" \/ (ev.on = "up" /\ ev.arg = f)
              /\ comp'.touch[f] = NoWindow /\ ev.win = NoWindow
           \/ /\ ev.on \notin {"down", "up", "cancel"} \/ (ev.on # "cancel" /\ ev.arg # f)
              /\ comp'.touch[f] = comp.touch[f]
  PROVE  TouchInv'
<1>1. wire' = Append(wire, ev) /\ UNCHANGED <<points, alive, cb>>
  BY DEF Send, winVars
<1>2. \A f, w : Touched(f, w)' <=> Touched(f, w)
  BY <1>1 DEF Touched
<1>3. ASSUME NEW f \in Finger PROVE \E g \in Histories' : FingerStory(g, f)'
  <2>1. PICK h \in Histories : FingerStory(h, f)
    BY DEF TouchInv
  <2>2. PICK g \in Histories' : TouchStory(g, f)' /\ g[1] = h[1]
    BY <1>1, <2>1, TouchPush DEF FingerStory
  <2> QED
    BY <1>1, <1>2, <2>1, <2>2 DEF FingerStory
<1>4. OnePoint' /\ (cb'.then = "erase" => cb'.arg \in DOMAIN points')
  BY <1>1 DEF OnePoint, TouchInv
<1> QED
  BY <1>3, <1>4 DEF TouchInv

LEMMA TouchHandlers ==
  ASSUME TypeOK, AliveOk, TouchInv, TouchDown \/ TouchUp \/ TouchCancel
  PROVE  TouchInv'
<1> USE DEF winVars, keyVars, mouseVars
<1>0. /\ NoWindow \notin Window /\ NoWindow \notin alive /\ alive \subseteq comp.known
      /\ points \in Seq(Point) /\ Len(points) \in Nat /\ DOMAIN points = 1 .. Len(points)
      /\ \A i \in DOMAIN points : points[i] \in Point /\ points[i].win \in alive
      /\ alive \subseteq Window
  BY SeatAssumption DEF TypeOK, AliveOk, AliveInv, SeatInv
<1>1. OnePoint /\ \A f \in Finger : \E h \in Histories : FingerStory(h, f)
  BY DEF TouchInv
<1>2. CASE TouchDown
  <2>1. PICK l, v : l = Head(wire).arg /\ v = Head(wire).win
    OBVIOUS
  <2>2. /\ wire # <<>> /\ wire' = Tail(wire) /\ Head(wire).on = "down" /\ comp' = comp
        /\ alive' = alive /\ l \in Finger /\ v \in alive /\ v \in Window /\ cb.then = "end"
        /\ cb'.then = "end" /\ points' = Append(points, [id |-> l, win |-> v])
    BY <1>2, <2>1, OnEvent, EventFacts DEF TouchDown, Surfaced, Idle, NoCb, Call
  <2>3. PICK p : p = [id |-> l, win |-> v]
    OBVIOUS
  <2>4. /\ points' = Append(points, p) /\ p.id = l /\ p.win = v
        /\ \A i \in DOMAIN points : i \in DOMAIN points' /\ points'[i] = points[i]
        /\ Len(points) + 1 \in DOMAIN points' /\ points'[Len(points) + 1] = p
        /\ \A i \in DOMAIN points' : i \in DOMAIN points \/ i = Len(points) + 1
        /\ Len(points) + 1 \notin DOMAIN points
    BY <1>0, <2>2, <2>3
  <2>5. \A i \in DOMAIN points : points[i].id # l
    <3>1. PICK h \in Histories : FingerStory(h, l)
      BY <1>1, <2>2
    <3>2. h[1] \notin alive
      BY <1>0, <2>1, <2>2, <3>1, TouchHead DEF FingerStory
    <3>3. \A w \in alive : ~Touched(l, w)
      BY <1>0, <3>1, <3>2 DEF FingerStory
    <3> QED
      BY <1>0, <2>2, <3>3 DEF Touched
  <2>6. OnePoint'
    BY <1>1, <2>4, <2>5 DEF OnePoint
  <2>7. \A f, w : Touched(f, w)' <=> Touched(f, w) \/ (f = l /\ w = v)
    BY <2>2, <2>4 DEF Touched
  <2>8. ASSUME NEW f \in Finger PROVE \E g \in Histories' : FingerStory(g, f)'
    <3>1. PICK h \in Histories : FingerStory(h, f)
      BY <1>1
    <3>2. PICK g \in Histories' : TouchStory(g, f)' /\ g[1] = h[2]
      BY <2>2, <3>1, TouchPop DEF FingerStory
    <3>3. CASE f = l
      <4>1. h[2] = v
        BY <2>1, <2>2, <3>1, <3>3, TouchHead DEF FingerStory
      <4>2. \A w : ~Touched(f, w)
        BY <2>5, <3>3 DEF Touched
      <4> QED
        BY <2>2, <2>7, <3>2, <3>3, <4>1, <4>2 DEF FingerStory
    <3>4. CASE f # l
      <4>1. h[2] = h[1]
        BY <2>1, <2>2, <3>1, <3>4, TouchHead DEF FingerStory
      <4> QED
        BY <2>2, <2>7, <3>1, <3>2, <3>4, <4>1 DEF FingerStory
    <3> QED
      BY <3>3, <3>4
  <2> QED
    BY <2>2, <2>6, <2>8 DEF TouchInv
<1>3. CASE TouchUp
  <2>1. PICK l : l = Head(wire).arg
    OBVIOUS
  <2>2. /\ wire # <<>> /\ wire' = Tail(wire) /\ Head(wire).on = "up" /\ comp' = comp
        /\ alive' = alive /\ l \in Finger /\ cb.then = "end" /\ points' = points
        /\ IF PointOf(l) = {} THEN cb' = NoCb
           ELSE cb' = Call("up", points[Min(PointOf(l))].win, "erase", Min(PointOf(l)))
    BY <1>3, <2>1, OnEvent, EventFacts DEF TouchUp, Idle, NoCb, Call
  <2>3. \/ PointOf(l) = {} /\ cb'.then = "end"
        \/ \E i \in DOMAIN points : points[i].id = l /\ cb'.then = "erase" /\ cb'.arg = i
    <3>1. CASE PointOf(l) = {}
      BY <2>2, <3>1 DEF NoCb, Call
    <3>2. CASE PointOf(l) # {}
      <4>0. PointOf(l) \in SUBSET Nat
        BY <1>0 DEF PointOf
      <4>1. Min(PointOf(l)) \in PointOf(l)
        BY <3>2, <4>0, MinIn
      <4> QED
        BY <2>2, <3>2, <4>1 DEF PointOf, Call
    <3> QED
      BY <3>1, <3>2
  <2>4. \A f, w : Touched(f, w)' <=> Touched(f, w) /\ f # l
    BY <1>1, <2>2, <2>3 DEF Touched, PointOf, OnePoint
  <2>5. ASSUME NEW f \in Finger PROVE \E g \in Histories' : FingerStory(g, f)'
    <3>1. PICK h \in Histories : FingerStory(h, f)
      BY <1>1
    <3>2. PICK g \in Histories' : TouchStory(g, f)' /\ g[1] = h[2]
      BY <2>2, <3>1, TouchPop DEF FingerStory
    <3>3. CASE f = l
      <4>1. h[2] = NoWindow
        BY <2>1, <2>2, <3>1, <3>3, TouchHead DEF FingerStory
      <4> QED
        BY <1>0, <2>4, <3>2, <3>3, <4>1 DEF FingerStory
    <3>4. CASE f # l
      <4>1. h[2] = h[1]
        BY <2>1, <2>2, <3>1, <3>4, TouchHead DEF FingerStory
      <4> QED
        BY <2>2, <2>4, <3>1, <3>2, <3>4, <4>1 DEF FingerStory
    <3> QED
      BY <3>3, <3>4
  <2>6. OnePoint' /\ (cb'.then = "erase" => cb'.arg \in DOMAIN points')
    BY <1>1, <2>2, <2>3 DEF OnePoint
  <2> QED
    BY <2>5, <2>6 DEF TouchInv
<1>4. CASE TouchCancel
  <2>1. /\ wire # <<>> /\ wire' = Tail(wire) /\ Head(wire).on = "cancel" /\ comp' = comp
        /\ CancelFrom(1) /\ alive' = alive
    BY <1>4, OnEvent DEF TouchCancel
  <2>2. \/ points' = <<>> /\ cb'.then = "end"
        \/ points' = points /\ cb'.then = "next"
    BY <2>1 DEF CancelFrom, NoCb, Call
  <2>3. \A f, w : ~Touched(f, w)'
    BY <2>2 DEF Touched
  <2>4. ASSUME NEW f \in Finger PROVE \E g \in Histories' : FingerStory(g, f)'
    <3>1. PICK h \in Histories : FingerStory(h, f)
      BY <1>1
    <3>2. PICK g \in Histories' : TouchStory(g, f)' /\ g[1] = h[2]
      BY <2>1, <3>1, TouchPop DEF FingerStory
    <3>3. h[2] = NoWindow
      BY <2>1, <3>1, TouchHead DEF FingerStory
    <3> QED
      BY <1>0, <2>3, <3>2, <3>3 DEF FingerStory
  <2>5. OnePoint' /\ cb'.then # "erase"
    BY <1>1, <2>2 DEF OnePoint
  <2> QED
    BY <2>4, <2>5 DEF TouchInv
<1> QED
  BY <1>2, <1>3, <1>4

LEMMA TouchReturn ==
  ASSUME TypeOK, TouchInv, Return
  PROVE  TouchInv'
<1> USE DEF winVars, keyVars, mouseVars
<1>0. /\ points \in Seq(Point) /\ Len(points) \in Nat /\ DOMAIN points = 1 .. Len(points)
      /\ UNCHANGED <<alive, wire, comp>> /\ NoWindow \notin alive
  BY SeatAssumption DEF TypeOK, Return
<1>1. CASE cb.then = "next"
  <2>1. \/ points' = <<>> /\ cb'.then = "end"
        \/ points' = points /\ cb'.then = "next"
    BY <1>1 DEF Return, CancelFrom, NoCb, Call
  <2>2. \A f, w : ~Touched(f, w)' /\ ~Touched(f, w)
    BY <1>1, <2>1 DEF Touched
  <2>3. \A f, h : FingerStory(h, f) => FingerStory(h, f)'
    BY <1>0, <2>2 DEF FingerStory, TouchStory, Downs, Ups
  <2>4. OnePoint' /\ cb'.then # "erase" /\ Histories' = Histories
    BY <1>0, <2>1 DEF OnePoint, TouchInv, Histories
  <2> QED
    BY <2>3, <2>4 DEF TouchInv
<1>2. CASE cb.then = "erase"
  <2>1. PICK i, n : i = cb.arg /\ n = Len(points)
    OBVIOUS
  <2>2. i \in 1 .. n /\ n \in Nat /\ DOMAIN points = 1 .. n
    BY <1>0, <1>2, <2>1 DEF TouchInv
  <2>3. points' = RemoveAt(points, i) /\ cb'.then = "end"
    <3>1. ~ (i > Len(points))
      BY <2>1, <2>2
    <3>2. AfterUp(cb.arg) /\ cb' = NoCb
      BY <1>2 DEF Return
    <3>3. cb'.then = "end"
      BY <3>2 DEF NoCb, Call
    <3>4. points' = RemoveAt(points, i)
      BY <2>1, <3>1, <3>2 DEF AfterUp
    <3> QED
      BY <3>3, <3>4
  <2>4. /\ DOMAIN points' = 1 .. n - 1
        /\ \A j \in 1 .. n - 1 : points'[j] = points[IF j < i THEN j ELSE j + 1]
    <3>1. /\ RemoveAt(points, i) \in Seq(Point) /\ Len(RemoveAt(points, i)) = n - 1
          /\ \A j \in 1 .. n - 1 : RemoveAt(points, i)[j] = points[IF j < i THEN j ELSE j + 1]
      BY <1>0, <2>1, <2>2, RemoveFacts
    <3> QED
      BY <2>3, <3>1
  <2>5. PICK from : from = [j \in 1 .. n - 1 |-> IF j < i THEN j ELSE j + 1]
    OBVIOUS
  <2>6. /\ \A j \in 1 .. n - 1 : from[j] \in 1 .. n /\ from[j] # i
        /\ \A j, k \in 1 .. n - 1 : from[j] = from[k] => j = k
        /\ \A k \in 1 .. n : k # i => \E j \in 1 .. n - 1 : from[j] = k
    <3>1. \A j \in 1 .. n - 1 : from[j] = (IF j < i THEN j ELSE j + 1)
      BY <2>5
    <3>2. ASSUME NEW k \in 1 .. n, k # i PROVE \E j \in 1 .. n - 1 : from[j] = k
      <4>1. CASE k < i
        <5>1. k \in 1 .. n - 1
          BY <2>2, <4>1
        <5> QED
          BY <3>1, <4>1, <5>1
      <4>2. CASE k > i
        <5>1. k - 1 \in 1 .. n - 1 /\ ~ (k - 1 < i) /\ k - 1 + 1 = k
          BY <2>2, <4>2
        <5> QED
          BY <3>1, <5>1
      <4> QED
        BY <2>2, <3>2, <4>1, <4>2
    <3>3. \A j \in 1 .. n - 1 : from[j] \in 1 .. n /\ from[j] # i
      BY <2>2, <3>1
    <3>4. \A j, k \in 1 .. n - 1 : from[j] = from[k] => j = k
      BY <2>2, <3>1
    <3> QED
      BY <3>2, <3>3, <3>4
  <2>7. \A j \in 1 .. n - 1 : points'[j] = points[from[j]]
    BY <2>4, <2>5
  <2>8. OnePoint'
    BY <2>2, <2>4, <2>6, <2>7 DEF OnePoint, TouchInv
  <2>9. \A f, w : Touched(f, w)' <=> Touched(f, w)
    <3>1. \A f, w : Touched(f, w)' <=> \E j \in 1 .. n - 1 : points[from[j]].id = f /\ points[from[j]].win = w
      BY <2>3, <2>4, <2>7 DEF Touched
    <3>2. \A f, w : Touched(f, w) <=> \E k \in 1 .. n : k # i /\ points[k].id = f /\ points[k].win = w
      BY <1>2, <2>1, <2>2 DEF Touched
    <3> QED
      BY <2>6, <3>1, <3>2
  <2>10. \A f, h : FingerStory(h, f) => FingerStory(h, f)'
    BY <1>0, <2>9 DEF FingerStory, TouchStory, Downs, Ups
  <2> QED
    BY <1>0, <2>3, <2>8, <2>10 DEF TouchInv, Histories
<1>3. CASE cb.then \notin {"next", "erase"}
  <2>1. points' = points /\ cb'.then = "end"
    <3>1. cb' = NoCb
      BY <1>3 DEF Return
    <3>2. cb'.then = "end"
      BY <3>1 DEF NoCb, Call
    <3>3. cb.then \in {"end", "leave", "pressed", "released", "rearm", "unset"}
      BY <1>3 DEF TypeOK, CallbackInv
    <3>4. points' = points
      BY <3>3 DEF Return, AfterLeave, AfterKey, AfterRepeat, AfterUnpoint
    <3> QED
      BY <3>2, <3>4
  <2> QED
    BY <1>0, <1>3, <2>1, TouchSame
<1> QED
  BY <1>1, <1>2, <1>3

LEMMA TouchDestroy ==
  ASSUME TypeOK, TouchInv, DestroyIn \cap {"up", "cancel"} = {}, NEW w \in Window, Destroy(w)
  PROVE  TouchInv'
<1>1. /\ UNCHANGED <<wire, comp, cb>> /\ alive' = alive \ {w} /\ points' = Without(w)
  BY DEF Destroy
<1>2. cb.then \notin {"erase", "next"}
  BY DEF Destroy, TypeOK, CallbackInv
<1>3. points \in Seq(Point)
  BY DEF TypeOK
<1>4. PICK place \in [DOMAIN Without(w) -> DOMAIN points] :
        /\ \A j \in DOMAIN Without(w) : Without(w)[j] = points[place[j]] /\ points[place[j]].win # w
        /\ \A i, j \in DOMAIN Without(w) : place[i] = place[j] => i = j
        /\ \A i \in DOMAIN points : points[i].win # w => \E j \in DOMAIN Without(w) : place[j] = i
  BY <1>3, WithoutFacts
<1>5. PICK left : left = Without(w)
  OBVIOUS
<1>6. points' = left
  BY <1>1, <1>5
<1>7. /\ place \in [DOMAIN left -> DOMAIN points]
      /\ \A j \in DOMAIN left : left[j] = points[place[j]] /\ points[place[j]].win # w
      /\ \A i, j \in DOMAIN left : place[i] = place[j] => i = j
      /\ \A i \in DOMAIN points : points[i].win # w => \E j \in DOMAIN left : place[j] = i
  BY <1>4, <1>5
<1>8. OnePoint'
  BY <1>6, <1>7 DEF OnePoint, TouchInv
<1>9. \A f, v : Touched(f, v)' <=> Touched(f, v) /\ v # w
  <2>1. \A f, v : Touched(f, v)' <=> \E j \in DOMAIN left : points[place[j]].id = f /\ points[place[j]].win = v
    BY <1>1, <1>2, <1>6, <1>7 DEF Touched
  <2>2. \A f, v : Touched(f, v) <=> \E i \in DOMAIN points : points[i].id = f /\ points[i].win = v
    BY <1>2 DEF Touched
  <2> QED
    BY <1>7, <2>1, <2>2
<1>10. \A f, h : FingerStory(h, f) => FingerStory(h, f)'
  BY <1>1, <1>9 DEF FingerStory, TouchStory, Downs, Ups
<1>11. Histories' = Histories
  BY <1>1 DEF Histories
<1> QED
  BY <1>1, <1>2, <1>8, <1>10, <1>11 DEF TouchInv

LEMMA TouchElsewhere ==
  ASSUME TypeOK, TouchInv,
         \/ SeatCaps \/ KeyboardEnter \/ KeyboardLeave \/ KeyboardKey \/ KeyRepeat \/ RepeatInfo
         \/ PointerEnter \/ PointerLeave \/ PointerMotion \/ RelativeMotion
         \/ PointerButton \/ PointerLocked \/ TouchMotion
         \/ CursorTime \/ CursorFrame \/ DeadSurface
         \/ (\E w \in Window : LockPointer(w))
         \/ (\E w \in Window, c \in Cursors : SetCursor(w, c))
         \/ UNCHANGED vars
  PROVE  TouchInv'
<1> USE DEF winVars, keyVars, mouseVars
<1>1. CASE \/ SeatCaps \/ KeyboardEnter \/ KeyboardLeave \/ KeyboardKey \/ RepeatInfo
  <2>1. \E name \in {"caps", "enter", "leave", "key", "rate"} : On(name)
    BY <1>1 DEF SeatCaps, KeyboardEnter, KeyboardLeave, KeyboardKey, RepeatInfo
  <2>2. cb.then = "end"
    BY <2>1, OnEvent DEF Idle, NoCb, Call
  <2>3. \/ cb' = cb
        \/ \E w : cb' \in {Call("focus", w, "end", 0), Call("focus", w, "leave", 0)}
        \/ \E w, k : \E then \in {"pressed", "released"} : cb' = Call("key", w, then, k)
    BY <1>1 DEF SeatCaps, KeyboardEnter, KeyboardLeave, KeyboardKey, RepeatInfo
  <2>4. cb'.then \notin {"erase", "next"}
    BY <2>2, <2>3 DEF Call
  <2>5. UNCHANGED <<points, alive, comp>>
    BY <1>1 DEF SeatCaps, KeyboardEnter, KeyboardLeave, KeyboardKey, RepeatInfo
  <2> QED
    BY <2>1, <2>4, <2>5, TouchPopSame
<1>2. CASE \/ PointerEnter \/ PointerLeave \/ PointerMotion \/ RelativeMotion
           \/ PointerButton \/ PointerLocked \/ TouchMotion
  <2>1. \E name \in {"point", "unpoint", "motion", "relative", "button", "lock", "update"} : On(name)
    BY <1>2 DEF PointerEnter, PointerLeave, PointerMotion, RelativeMotion, PointerButton, PointerLocked, TouchMotion
  <2>2. cb.then = "end"
    BY <2>1, OnEvent DEF Idle, NoCb, Call
  <2>3. cb' = cb \/ cb' = NoCb \/ \E fn, w : \E then \in {"end", "unset"} : cb' = Call(fn, w, then, 0)
    BY <1>2 DEF PointerEnter, PointerLeave, PointerMotion, RelativeMotion, PointerButton, PointerLocked, TouchMotion
  <2>4. cb'.then \notin {"erase", "next"}
    BY <2>2, <2>3 DEF Call, NoCb
  <2>5. UNCHANGED <<points, alive, comp>>
    BY <1>2 DEF PointerEnter, PointerLeave, PointerMotion, RelativeMotion, PointerButton, PointerLocked, TouchMotion
  <2> QED
    BY <2>1, <2>4, <2>5, TouchPopSame
<1>3. CASE KeyRepeat
  <2>1. UNCHANGED <<points, alive, wire, comp>> /\ cb = NoCb
    BY <1>3 DEF KeyRepeat, Idle
  <2>2. cb' = cb \/ cb' = Call("repeat", focus, "rearm", 0)
    BY <1>3 DEF KeyRepeat
  <2>3. {cb.then, cb'.then} \cap {"erase", "next"} = {}
    BY <2>1, <2>2 DEF NoCb, Call
  <2> QED
    BY <2>1, <2>3, TouchSame
<1>4. CASE \/ CursorTime \/ CursorFrame \/ DeadSurface
           \/ (\E w \in Window : LockPointer(w))
           \/ (\E w \in Window, c \in Cursors : SetCursor(w, c))
           \/ UNCHANGED vars
  <2>1. UNCHANGED <<points, alive, wire, comp, cb>>
    BY <1>4 DEF CursorTime, CursorFrame, DeadSurface, LockPointer, SetCursor, vars
  <2> QED
    BY <2>1, TouchSame
<1> QED
  BY <1>1, <1>2, <1>3, <1>4

LEMMA TouchCompositor ==
  ASSUME TypeOK, AliveOk, TouchInv, LeaveFirst = TRUE,
         \/ SendCaps \/ SendKeyboard \/ SendPointer \/ SendTouch
         \/ (\E k \in Key : ReleaseElsewhere(k)) \/ \E w \in Window : Forget(w)
  PROVE  TouchInv'
<1>0. /\ comp.caps \in {{}, comp.seat} /\ comp.known \subseteq Window /\ NoWindow \notin comp.known
      /\ \A f \in Finger : comp.touch[f] # NoWindow => "touch" \in comp.caps
      /\ DOMAIN comp.touch = Finger
  BY SeatAssumption DEF AliveOk, SeatInv, TypeOK
<1>1. \A on, win, arg : Ev(on, win, arg).on = on /\ Ev(on, win, arg).win = win /\ Ev(on, win, arg).arg = arg
  BY DEF Ev
<1>2. CASE SendCaps
  <2>1. PICK caps \in {{}, comp.seat} :
          /\ caps # comp.caps
          /\ \A d \in comp.caps \ caps : Unused(d)
          /\ comp' = [comp EXCEPT !.caps = caps, !.focus = NoWindow, !.over = NoWindow,
                                  !.touch = [f \in Finger |-> NoWindow]]
          /\ Send(Ev("caps", NoWindow, caps))
    BY <1>2 DEF SendCaps
  <2>2. Ev("caps", NoWindow, caps) \in Event
    BY <2>1 DEF Ev, Event, TypeOK
  <2>3. comp'.known = comp.known /\ \A f \in Finger : comp'.touch[f] = NoWindow
    BY <2>1 DEF TypeOK
  <2>4. \A f \in Finger : comp.touch[f] = NoWindow
    <3>1. comp.caps \ caps = {} \/ caps = {}
      BY <1>0
    <3> QED
      BY <1>0, <2>1, <3>1 DEF Unused
  <2> QED
    BY <1>1, <2>1, <2>2, <2>3, <2>4, TouchPushInv
<1>3. CASE SendKeyboard \/ SendPointer
  <2>1. /\ \A w \in comp.known : Ev("enter", w, 0) \in Event /\ Ev("point", w, 0) \in Event
        /\ comp.focus # NoWindow => Ev("leave", comp.focus, 0) \in Event
        /\ comp.over # NoWindow => Ev("unpoint", comp.over, 0) \in Event
        /\ \A k \in Key : Ev("key", NoWindow, <<k, k \notin comp.keys>>) \in Event
        /\ \A r \in Rates : Ev("rate", NoWindow, r) \in Event
    BY <1>0 DEF Ev, Event, TypeOK
  <2>2. /\ Ev("motion", NoWindow, 0) \in Event /\ Ev("relative", NoWindow, 0) \in Event
        /\ Ev("button", NoWindow, ~comp.button) \in Event
        /\ \A w \in Window : Ev("lock", w, lock[w] = "asked") \in Event
    BY DEF Ev, Event, TypeOK
  <2>3. \E ev \in Event : ev.on \notin {"down", "up", "cancel"} /\ Send(ev)
    <3>1. CASE SendKeyboard
      <4>1. CASE \E w \in comp.known : Send(Ev("enter", w, 0))
        BY <1>1, <2>1, <4>1
      <4>2. CASE comp.focus # NoWindow /\ Send(Ev("leave", comp.focus, 0))
        BY <1>1, <2>1, <4>2
      <4>3. CASE \E k \in Key : Send(Ev("key", NoWindow, <<k, k \notin comp.keys>>))
        BY <1>1, <2>1, <4>3
      <4>4. CASE \E r \in Rates : Send(Ev("rate", NoWindow, r))
        BY <1>1, <2>1, <4>4
      <4> QED
        BY <3>1, <4>1, <4>2, <4>3, <4>4 DEF SendKeyboard
    <3>2. CASE SendPointer
      BY <1>1, <2>1, <2>2, <3>2 DEF SendPointer
    <3> QED
      BY <1>3, <3>1, <3>2
  <2>4. comp'.touch = comp.touch /\ comp'.known = comp.known
    <3>1. \/ comp' = comp \/ (\E w : comp' = [comp EXCEPT !.focus = w])
          \/ (\E k : comp' = [comp EXCEPT !.keys = k])
          \/ (\E w : comp' = [comp EXCEPT !.over = w]) \/ comp' = [comp EXCEPT !.button = ~@]
      BY <1>3 DEF SendKeyboard, SendPointer
    <3> QED
      BY <3>1 DEF TypeOK
  <2> QED
    BY <2>3, <2>4, TouchPushInv
<1>4. CASE SendTouch
  <2>1. CASE \E f \in Finger, w \in comp.known :
               /\ comp.touch[f] = NoWindow /\ comp' = [comp EXCEPT !.touch[f] = w]
               /\ Send(Ev("down", w, f))
    <3>1. PICK l \in Finger, w \in comp.known :
            /\ comp.touch[l] = NoWindow /\ comp' = [comp EXCEPT !.touch[l] = w]
            /\ Send(Ev("down", w, l))
      BY <2>1
    <3>2. Ev("down", w, l) \in Event
      BY <1>0 DEF Ev, Event
    <3>3. /\ comp'.known = comp.known /\ comp'.touch[l] = w
          /\ \A f \in Finger \ {l} : comp'.touch[f] = comp.touch[f]
      BY <1>0, <3>1 DEF TypeOK
    <3> QED
      BY <1>1, <3>1, <3>2, <3>3, TouchPushInv
  <2>2. CASE \E f \in Finger : comp' = comp /\ Send(Ev("update", NoWindow, f))
    <3>1. PICK l \in Finger : comp' = comp /\ Send(Ev("update", NoWindow, l))
      BY <2>2
    <3>2. Ev("update", NoWindow, l) \in Event
      BY DEF Ev, Event
    <3> QED
      BY <1>1, <3>1, <3>2, TouchPushInv
  <2>3. CASE \E f \in Finger : comp' = [comp EXCEPT !.touch[f] = NoWindow] /\ Send(Ev("up", NoWindow, f))
    <3>1. PICK l \in Finger : comp' = [comp EXCEPT !.touch[l] = NoWindow] /\ Send(Ev("up", NoWindow, l))
      BY <2>3
    <3>2. Ev("up", NoWindow, l) \in Event
      BY DEF Ev, Event
    <3>3. /\ comp'.known = comp.known /\ comp'.touch[l] = NoWindow
          /\ \A f \in Finger \ {l} : comp'.touch[f] = comp.touch[f]
      BY <1>0, <3>1 DEF TypeOK
    <3> QED
      BY <1>1, <3>1, <3>2, <3>3, TouchPushInv
  <2>4. CASE comp' = [comp EXCEPT !.touch = [f \in Finger |-> NoWindow]] /\ Send(Ev("cancel", NoWindow, 0))
    <3>1. Ev("cancel", NoWindow, 0) \in Event
      BY DEF Ev, Event
    <3>2. comp'.known = comp.known /\ \A f \in Finger : comp'.touch[f] = NoWindow
      BY <2>4 DEF TypeOK
    <3> QED
      BY <1>1, <2>4, <3>1, <3>2, TouchPushInv
  <2> QED
    BY <1>4, <2>1, <2>2, <2>3, <2>4 DEF SendTouch
<1>5. CASE \E k \in Key : ReleaseElsewhere(k)
  <2>1. /\ UNCHANGED <<points, alive, wire, cb>> /\ comp'.touch = comp.touch /\ comp'.known = comp.known
    BY <1>5 DEF ReleaseElsewhere, TypeOK, winVars
  <2> QED
    BY <2>1, TouchSame
<1>6. CASE \E w \in Window : Forget(w)
  <2>1. PICK w \in Window : Forget(w)
    BY <1>6
  <2>2. /\ UNCHANGED <<points, alive, cb, wire>> /\ comp'.known = comp.known \ {w}
        /\ \A f \in Finger : comp'.touch[f] = IF comp.touch[f] = w THEN NoWindow ELSE comp.touch[f]
    BY <2>1 DEF Forget, TypeOK, winVars
  <2>3. ASSUME NEW f \in Finger, NEW h, FingerStory(h, f) PROVE FingerStory(h, f)'
    <3>1. Story(wire, h, Downs(f), Ups(f), IF comp.touch[f] = w THEN NoWindow ELSE comp.touch[f],
                comp.known \ {w})
      BY <2>3, StoryForget DEF FingerStory, TouchStory
    <3>2. Downs(f)' = Downs(f) /\ Ups(f)' = Ups(f)
      BY <2>2 DEF Downs, Ups
    <3>3. \A v : Touched(f, v)' <=> Touched(f, v)
      BY <2>2 DEF Touched
    <3> QED
      BY <2>2, <2>3, <3>1, <3>2, <3>3 DEF FingerStory, TouchStory
  <2>4. Histories' = Histories
    BY <2>2 DEF Histories
  <2> QED
    BY <2>2, <2>3, <2>4 DEF TouchInv, OnePoint
<1> QED
  BY <1>2, <1>3, <1>4, <1>5, <1>6

LEMMA TouchInit == Init => TouchInv
<1> SUFFICES ASSUME Init PROVE TouchInv
  OBVIOUS
<1>1. /\ wire = <<>> /\ comp.known = Window /\ \A f \in Finger : comp.touch[f] = NoWindow
      /\ points = <<>> /\ cb.then = "end" /\ NoWindow \notin Window
  BY SeatAssumption DEF Init, NoCb, Call
<1>2. PICK h : h = [i \in 1 .. 1 |-> NoWindow]
  OBVIOUS
<1>3. Len(wire) = 0 /\ 0 + 1 = 1 /\ (\A i \in 1 .. 1 : i = 1) /\ h \in Histories /\ h[1] = NoWindow
  BY <1>1, <1>2 DEF Histories
<1>4. \A f \in Finger : TouchStory(h, f)
  BY <1>1, <1>2, <1>3 DEF TouchStory, Story, Histories
<1>5. \A f \in Finger : FingerStory(h, f)
  BY <1>1, <1>3, <1>4 DEF FingerStory, Touched
<1> QED
  BY <1>1, <1>3, <1>5 DEF TouchInv, OnePoint

LEMMA TouchHolds == ASSUME TypeOK, AliveOk, TouchInv PROVE TouchAgrees
<1> DEFINE seen == {[id |-> f, win |-> comp.touch[f]] : f \in {g \in Finger : comp.touch[g] \in alive}}
<1> SUFFICES ASSUME Idle, \A i \in DOMAIN wire : wire[i].on \notin {"down", "up", "cancel"}
             PROVE  ToSet(points) = seen /\ Len(points) = Cardinality(ToSet(points))
  BY DEF TouchAgrees
<1>0. /\ NoWindow \notin alive /\ alive \subseteq comp.known /\ alive \subseteq Window
      /\ points \in Seq(Point) /\ Len(points) \in Nat /\ DOMAIN points = 1 .. Len(points)
      /\ \A i \in DOMAIN points : points[i] \in Point /\ points[i].win \in alive
      /\ cb.then = "end" /\ 1 \in 1 .. Len(wire) + 1
  BY SeatAssumption DEF TypeOK, AliveOk, AliveInv, SeatInv, Idle, NoCb, Call
<1>1. \A f : Downs(f) = {} /\ Ups(f) = {}
  BY DEF Downs, Ups
<1>2. ASSUME NEW f \in Finger, NEW w \in alive
      PROVE  (\E i \in DOMAIN points : points[i].id = f /\ points[i].win = w) <=> comp.touch[f] = w
  <2>1. PICK h \in Histories : FingerStory(h, f)
    BY DEF TouchInv
  <2>2. h[1] = w <=> comp.touch[f] = w
    BY <1>0, <1>1, <2>1 DEF FingerStory, TouchStory, Story
  <2> QED
    BY <1>0, <2>1, <2>2 DEF FingerStory, Touched
<1>3. \A i \in DOMAIN points :
        /\ points[i].id \in Finger /\ points[i].win \in alive
        /\ points[i] = [id |-> points[i].id, win |-> points[i].win]
  BY <1>0 DEF Point
<1>4. ToSet(points) = seen
  <2>1. ASSUME NEW i \in DOMAIN points PROVE points[i] \in seen
    <3>1. comp.touch[points[i].id] = points[i].win
      BY <1>2, <1>3
    <3> QED
      BY <1>3, <3>1
  <2>2. ASSUME NEW f \in Finger, comp.touch[f] \in alive
        PROVE  \E i \in DOMAIN points : points[i] = [id |-> f, win |-> comp.touch[f]]
    BY <1>2, <1>3, <2>2
  <2> QED
    BY <2>1, <2>2 DEF ToSet
<1>5. points \in Bijection(DOMAIN points, ToSet(points))
  <2>1. points \in [DOMAIN points -> ToSet(points)]
    BY <1>0 DEF ToSet
  <2>2. \A i, j \in DOMAIN points : points[i] = points[j] => i = j
    BY DEF TouchInv, OnePoint
  <2>3. \A p \in ToSet(points) : \E i \in DOMAIN points : points[i] = p
    BY DEF ToSet
  <2> QED
    BY <2>1, <2>2, <2>3 DEF Bijection, Injection, Surjection, IsInjective
<1>6. Cardinality(ToSet(points)) = Cardinality(1 .. Len(points)) /\ IsFiniteSet(1 .. Len(points))
  <2>1. IsFiniteSet(1 .. Len(points))
    BY <1>0, FS_Interval
  <2>2. ExistsBijection(1 .. Len(points), ToSet(points))
    BY <1>0, <1>5 DEF ExistsBijection
  <2> QED
    BY <2>1, <2>2, FS_Bijection
<1>7. Cardinality(1 .. Len(points)) = Len(points)
  <2>1. PICK n \in Nat : n = Len(points)
    BY <1>0
  <2>2. Cardinality(1 .. n) = IF 1 > n THEN 0 ELSE n - 1 + 1
    <3>1. 1 \in Int /\ n \in Int
      OBVIOUS
    <3>2. \A a \in Int, b \in Int : Cardinality(a .. b) = IF a > b THEN 0 ELSE b - a + 1
      BY FS_Interval, Zenon
    <3> QED
      BY <3>1, <3>2, Zenon
  <2>3. (IF 1 > n THEN 0 ELSE n - 1 + 1) = n
    BY <2>1
  <2> QED
    BY <2>1, <2>2, <2>3
<1> QED
  BY <1>4, <1>6, <1>7

\* With no touch event on its way the touch points are exactly the fingers the compositor
\* sees on the windows that exist, when no window is destroyed in the callbacks that keep
\* an index into the points: TouchAgrees.
THEOREM TouchesAgree ==
  ASSUME LeaveFirst = TRUE, DestroyIn \cap {"up", "cancel"} = {}
  PROVE  Spec => []TouchAgrees
<1>1. Init => TypeOK /\ AliveOk /\ TouchInv
  BY TypeInit, AliveInit, TouchInit
<1>2. TypeOK /\ AliveOk /\ [Next]_vars => TypeOK' /\ AliveOk'
  BY TypeStep, AliveStep
<1>3. TypeOK /\ AliveOk /\ TouchInv /\ [Next]_vars => TouchInv'
  BY TouchHandlers, TouchReturn, TouchDestroy, TouchElsewhere, TouchCompositor DEF Next
<1>4. TypeOK /\ AliveOk /\ TouchInv => TouchAgrees
  BY TouchHolds
<1> QED
  BY <1>1, <1>2, <1>3, <1>4, PTL DEF Spec
=============================================================================
